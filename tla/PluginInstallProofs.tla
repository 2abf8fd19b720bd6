------------------------- MODULE PluginInstallProofs -------------------------
(***************************************************************************)
(* Proofs about PluginInstall, for any number of installers, plugins,      *)
(* checkouts, backup names and writings.                                   *)
(*                                                                         *)
(* TargetAvailable is not inductive: an installer whose backup another one *)
(* has put back, under the same name, leaves without looking further.  It  *)
(* is enough that whoever answers for a missing target can still restore   *)
(* it (Restorable), and that the names installers go by are names.         *)
(***************************************************************************)
EXTENDS PluginInstall, TLAPS

USE OrderAssumption, BoundsAssumption, ConstantsAssumption

\* An installer that is going to move a directory has a name for it.
NameKnown == \A i \in Installer : pc[i] \in {"aside", "restore"} => name[i] \in Name

\* A missing target can be restored by an installer at work, or is exposed.
Answers(i, q) == p(i) = q /\ pc[i] \in Gap /\ Restorable(i)
SomeoneAnswers ==
  \A q \in Plugin :
    \/ target[q] # Absent
    \/ \A n \in Name : backups[q][n] = Absent
    \/ q \in exposed
    \/ \E i \in Installer : Answers(i, q)

\* What an installer at work has verified and staged is the repository.
Staged(i) == stage[i] \in Dir /\ stage[i].canon = git_blob_bytes /\ stage[i].extra = repo.ignored
StagedIsHead ==
  \A i \in Installer :
    /\ pc[i] # "idle" => verify_with_git_blobs
    /\ pc[i] \in {"look", "aside", "place"} => Staged(i)

Inv == TypeOK /\ NameKnown /\ MutableSurvives /\ SomeoneAnswers /\ StagedIsHead
-----------------------------------------------------------------------------
(* Types and names.                                                        *)

LEMMA PositionTypes == DOMAIN Order = 1..Len(Order) /\ Len(Order) \in Nat \ {0} /\ 1 \in DOMAIN Order
  OBVIOUS

LEMMA PluginOf ==
  ASSUME TypeOK, NEW i \in Installer
  PROVE  p(i) \in Plugin
  BY PositionTypes DEF TypeOK, p

\* The bookkeeping of an installer: what End, Goto and NextPlugin leave.
Control ==
  /\ pc' \in [Installer -> Working \cup {"idle"}]
  /\ at' \in [Installer -> DOMAIN Order]
  /\ stage' \in [Installer -> Dir \cup {Absent}]
  /\ name' \in [Installer -> Name \cup {Absent}]
  /\ NameKnown'

LEMMA EndControls ==
  ASSUME TypeOK, NameKnown, NEW i \in Installer, End(i)
  PROVE  Control
  BY PositionTypes DEF TypeOK, NameKnown, End, Goto, Control

LEMMA GotoControls ==
  ASSUME TypeOK, NameKnown, NEW i \in Installer, NEW l \in Working, Goto(i, l),
         l \in {"aside", "restore"} => name[i] \in Name, UNCHANGED <<at, stage, name>>
  PROVE  Control
  BY DEF TypeOK, NameKnown, Goto, Control

LEMMA NextPluginControls ==
  ASSUME TypeOK, NameKnown, NEW i \in Installer, NextPlugin(i)
  PROVE  Control
<1>1. CASE at[i] < Len(Order) /\ NextPluginAlways(i)
  <2>1. at[i] + 1 \in DOMAIN Order  BY <1>1, PositionTypes DEF TypeOK
  <2>2. at' = [at EXCEPT ![i] = at[i] + 1] /\ pc' = [pc EXCEPT ![i] = "stage"] /\ UNCHANGED <<stage, name>>
    BY <1>1 DEF NextPluginAlways, Goto
  <2> QED  BY <2>1, <2>2 DEF TypeOK, NameKnown, Control, Working
<1>2. CASE at[i] = Len(Order) /\ End(i)
  BY <1>2, EndControls
<1> QED  BY <1>1, <1>2 DEF NextPlugin

\* A staged directory is one.
LEMMA StagedIsDir ==
  ASSUME TypeOK, NEW i \in Installer
  PROVE  [canon |-> git_blob_bytes, extra |-> repo.ignored, mutable |-> copy_mutable(p(i))] \in Dir
<1>1. repo \in Repo  BY DEF TypeOK
<1>2. git_blob_bytes \in Content /\ repo.ignored \in BOOLEAN  BY <1>1 DEF Repo, Content, git_blob_bytes
<1>3. target[p(i)] \in Dir \cup {Absent}  BY PluginOf DEF TypeOK
<1>4. copy_mutable(p(i)) \in 0..MaxWrites  BY <1>3 DEF Dir, copy_mutable
<1> QED  BY <1>2, <1>4 DEF Dir

\* Writing mutable files changes nothing else of a directory.
LEMMA WrittenIsDir ==
  ASSUME NEW d \in Dir, NEW m \in 0..MaxWrites
  PROVE  [d EXCEPT !.mutable = m] \in Dir /\ [d EXCEPT !.mutable = m].mutable = m
  BY DEF Dir

LEMMA TypeStep ==
  ASSUME TypeOK, NameKnown, Next
  PROVE  TypeOK' /\ NameKnown'
<1> USE DEF TypeOK
<1>1. ASSUME NEW i \in Installer, Begin(i)  PROVE TypeOK' /\ NameKnown'
  BY <1>1 DEF Begin, Goto, NameKnown, Working
<1>2. ASSUME NEW i \in Installer, Stage(i)  PROVE TypeOK' /\ NameKnown'
  BY <1>2, StagedIsDir DEF Stage, Goto, NameKnown, Working
<1>3. ASSUME NEW i \in Installer, LookAtTarget(i)  PROVE TypeOK' /\ NameKnown'
  <2>1. Control
    <3>1. CASE target[p(i)] = Absent /\ name' = [name EXCEPT ![i] = Absent] /\ Goto(i, "place")
      BY <1>3, <3>1 DEF LookAtTarget, Goto, NameKnown, Working, Control
    <3>2. ASSUME NEW n \in Name, name' = [name EXCEPT ![i] = n], Goto(i, "aside")  PROVE Control
      BY <1>3, <3>2 DEF LookAtTarget, Goto, NameKnown, Working, Control
    <3> QED  BY <1>3, <3>1, <3>2 DEF LookAtTarget
  <2> QED  BY <1>3, <2>1 DEF LookAtTarget, Control
<1>4. ASSUME NEW i \in Installer, MoveAside(i)  PROVE TypeOK' /\ NameKnown'
  <2>1. Control  BY <1>4, GotoControls DEF MoveAside, Working
  <2>2. target' \in [Plugin -> Dir \cup {Absent}] /\ backups' \in [Plugin -> [Name -> Dir \cup {Absent}]]
    <3>1. CASE UNCHANGED <<target, backups>>  BY <3>1
    <3>2. CASE /\ target[p(i)] # Absent
               /\ backups' = [backups EXCEPT ![p(i)][name[i]] = target[p(i)]]
               /\ target' = [target EXCEPT ![p(i)] = Absent]
      <4>1. target[p(i)] \in Dir  BY <3>2, PluginOf
      <4>2. [backups[p(i)] EXCEPT ![name[i]] = target[p(i)]] \in [Name -> Dir \cup {Absent}]
        BY <4>1, PluginOf
      <4> QED  BY <3>2, <4>2
    <3> QED  BY <1>4, <3>1, <3>2 DEF MoveAside
  <2> QED  BY <1>4, <2>1, <2>2 DEF MoveAside, Control
<1>5. ASSUME NEW i \in Installer, Place(i)  PROVE TypeOK' /\ NameKnown'
  <2>1. Control  BY <1>5, GotoControls, NextPluginControls DEF Place, Working
  <2>2. target' \in [Plugin -> Dir \cup {Absent}] /\ exposed' \subseteq Plugin
    BY <1>5, PluginOf DEF Place
  <2> QED  BY <1>5, <2>1, <2>2 DEF Place, Control
<1>6. ASSUME NEW i \in Installer, Undo(i)  PROVE TypeOK' /\ NameKnown'
  <2>1. Control
    BY <1>6, GotoControls, EndControls DEF Undo, Restorable, Working
  <2> QED  BY <1>6, <2>1 DEF Undo, Control
<1>7. ASSUME NEW i \in Installer, Restore(i)  PROVE TypeOK' /\ NameKnown'
  <2>1. Control  BY <1>7, EndControls DEF Restore
  <2>2. /\ target' \in [Plugin -> Dir \cup {Absent}] /\ backups' \in [Plugin -> [Name -> Dir \cup {Absent}]]
        /\ exposed' \subseteq Plugin
    <3>1. CASE UNCHANGED <<target, backups>>
      BY <1>7, <3>1, PluginOf DEF Restore, Uncovered
    <3>2. CASE /\ target' = [target EXCEPT ![p(i)] = backups[p(i)][name[i]]]
               /\ backups' = [backups EXCEPT ![p(i)][name[i]] = Absent]
               /\ exposed' = exposed \ {p(i)}
      <4>1. p(i) \in Plugin /\ name[i] \in Name  BY <1>7, PluginOf DEF Restore, NameKnown
      <4>2. backups[p(i)][name[i]] \in Dir \cup {Absent}  BY <4>1
      <4>3. [backups[p(i)] EXCEPT ![name[i]] = Absent] \in [Name -> Dir \cup {Absent}]
        BY <4>1
      <4> QED  BY <3>2, <4>2, <4>3
    <3> QED  BY <1>7, <3>1, <3>2 DEF Restore
  <2> QED  BY <1>7, <2>1, <2>2 DEF Restore, Control
<1>8. ASSUME NEW i \in Installer, StageFails(i)  PROVE TypeOK' /\ NameKnown'
  BY <1>8, EndControls DEF StageFails, Control
<1>9. ASSUME NEW i \in Installer, Crash(i)  PROVE TypeOK' /\ NameKnown'
  <2>1. Control  BY <1>9, EndControls DEF Crash
  <2>2. exposed' \subseteq Plugin  BY <1>9, PluginOf DEF Crash, Uncovered
  <2> QED  BY <1>9, <2>1, <2>2 DEF Crash, Control
<1>10. ASSUME NEW q \in Plugin, WriteMutable(q)  PROVE TypeOK' /\ NameKnown'
  <2>1. latest[q] + 1 \in 0..MaxWrites  BY <1>10 DEF WriteMutable
  <2>2. [target[q] EXCEPT !.mutable = latest[q] + 1] \in Dir
    BY <1>10, <2>1, WrittenIsDir DEF WriteMutable
  <2>3. target' \in [Plugin -> Dir \cup {Absent}] /\ latest' \in [Plugin -> 0..MaxWrites]
    BY <1>10, <2>1, <2>2 DEF WriteMutable
  <2> QED  BY <1>10, <2>3 DEF WriteMutable, NameKnown
<1>11. CASE Develop
  BY <1>11 DEF Develop, NameKnown
<1> QED  BY <1>1, <1>2, <1>3, <1>4, <1>5, <1>6, <1>7, <1>8, <1>9, <1>10, <1>11 DEF Next, Install

-----------------------------------------------------------------------------
(* Directories move, they are not destroyed.                               *)

\* The three ways in which installers move directories, and the plugins' own.
MovedAside(i) ==
  /\ target[p(i)] # Absent /\ name[i] \in Name /\ backups[p(i)][name[i]] = Absent
  /\ backups' = [backups EXCEPT ![p(i)][name[i]] = target[p(i)]]
  /\ target' = [target EXCEPT ![p(i)] = Absent]
  /\ UNCHANGED latest
Placed(i) ==
  /\ target[p(i)] = Absent /\ target' = [target EXCEPT ![p(i)] = stage[i]]
  /\ UNCHANGED <<backups, latest>>
MovedBack(i) ==
  /\ target[p(i)] = Absent /\ name[i] \in Name /\ backups[p(i)][name[i]] # Absent
  /\ target' = [target EXCEPT ![p(i)] = backups[p(i)][name[i]]]
  /\ backups' = [backups EXCEPT ![p(i)][name[i]] = Absent]
  /\ UNCHANGED latest

LEMMA Moves ==
  ASSUME TypeOK, NameKnown, Next
  PROVE  \/ UNCHANGED <<target, backups, latest>>
         \/ \E i \in Installer : MovedAside(i) \/ Placed(i) \/ MovedBack(i)
         \/ \E q \in Plugin : WriteMutable(q)
<1>1. ASSUME NEW i \in Installer, MoveAside(i)
      PROVE  UNCHANGED <<target, backups, latest>> \/ MovedAside(i)
  BY <1>1 DEF MoveAside, MovedAside, NameKnown
<1>2. ASSUME NEW i \in Installer, Place(i)  PROVE UNCHANGED <<target, backups, latest>> \/ Placed(i)
  BY <1>2 DEF Place, Placed
<1>3. ASSUME NEW i \in Installer, Restore(i)  PROVE UNCHANGED <<target, backups, latest>> \/ MovedBack(i)
  BY <1>3 DEF Restore, MovedBack, NameKnown
<1>4. ASSUME NEW i \in Installer,
             Begin(i) \/ Stage(i) \/ LookAtTarget(i) \/ Undo(i) \/ StageFails(i) \/ Crash(i)
      PROVE  UNCHANGED <<target, backups, latest>>
  BY <1>4 DEF Begin, Stage, LookAtTarget, Undo, StageFails, Crash
<1>5. Develop => UNCHANGED <<target, backups, latest>>  BY DEF Develop
<1> QED  BY <1>1, <1>2, <1>3, <1>4, <1>5 DEF Next, Install

LEMMA MutableStep ==
  ASSUME TypeOK, NameKnown, MutableSurvives, Next
  PROVE  MutableSurvives'
<1> SUFFICES ASSUME NEW q \in Plugin
             PROVE  \/ latest'[q] = 0
                    \/ target'[q] # Absent /\ target'[q].mutable = latest'[q]
                    \/ \E n \in Name : backups'[q][n] # Absent /\ backups'[q][n].mutable = latest'[q]
  BY DEF MutableSurvives
<1>1. \/ latest[q] = 0
      \/ target[q] # Absent /\ target[q].mutable = latest[q]
      \/ \E n \in Name : backups[q][n] # Absent /\ backups[q][n].mutable = latest[q]
  BY DEF MutableSurvives
<1>2. CASE UNCHANGED <<target, backups, latest>>  BY <1>1, <1>2
<1>3. ASSUME NEW i \in Installer, MovedAside(i) \/ Placed(i) \/ MovedBack(i), q # p(i)
      PROVE  target'[q] = target[q] /\ backups'[q] = backups[q] /\ latest'[q] = latest[q]
  BY <1>3 DEF TypeOK, MovedAside, Placed, MovedBack
<1>4. ASSUME NEW i \in Installer, MovedAside(i), q = p(i)
      PROVE  \A n \in Name : backups[q][n] # Absent => backups'[q][n] = backups[q][n]
  BY <1>4 DEF TypeOK, MovedAside
<1>5. ASSUME NEW i \in Installer, MovedAside(i), q = p(i)
      PROVE  name[i] \in Name /\ backups'[q][name[i]] = target[q] /\ latest' = latest
  BY <1>5 DEF TypeOK, MovedAside
<1>6. ASSUME NEW i \in Installer, Placed(i), q = p(i)
      PROVE  target[q] = Absent /\ backups'[q] = backups[q] /\ latest' = latest
  BY <1>6 DEF Placed
<1>7. ASSUME NEW i \in Installer, MovedBack(i), q = p(i)
      PROVE  /\ target[q] = Absent /\ target'[q] = backups[q][name[i]] /\ latest' = latest
             /\ \A n \in Name \ {name[i]} : backups'[q][n] = backups[q][n]
  BY <1>7 DEF TypeOK, MovedBack
<1>8. ASSUME NEW i \in Installer, MovedAside(i) \/ Placed(i) \/ MovedBack(i)
      PROVE  \/ latest'[q] = 0
             \/ target'[q] # Absent /\ target'[q].mutable = latest'[q]
             \/ \E n \in Name : backups'[q][n] # Absent /\ backups'[q][n].mutable = latest'[q]
  <2>1. CASE q # p(i)  BY <1>1, <1>3, <1>8, <2>1
  <2>2. CASE q = p(i) /\ MovedAside(i)  BY <1>1, <1>4, <1>5, <2>2
  <2>3. CASE q = p(i) /\ Placed(i)  BY <1>1, <1>6, <2>3
  <2>4. CASE q = p(i) /\ MovedBack(i)  BY <1>1, <1>7, <2>4
  <2> QED  BY <1>8, <2>1, <2>2, <2>3, <2>4
<1>9. ASSUME NEW w \in Plugin, WriteMutable(w)
      PROVE  \/ latest'[q] = 0
             \/ target'[q] # Absent /\ target'[q].mutable = latest'[q]
             \/ \E n \in Name : backups'[q][n] # Absent /\ backups'[q][n].mutable = latest'[q]
  <2>1. CASE q # w  BY <1>1, <1>9, <2>1 DEF TypeOK, WriteMutable
  <2>2. CASE q = w
    <3>1. target[q] \in Dir /\ latest[q] + 1 \in 0..MaxWrites
      BY <1>9, <2>2 DEF TypeOK, WriteMutable
    <3>2. target'[q] = [target[q] EXCEPT !.mutable = latest[q] + 1] /\ latest'[q] = latest[q] + 1
      BY <1>9, <2>2 DEF TypeOK, WriteMutable
    <3> QED  BY <3>1, <3>2, WrittenIsDir
  <2> QED  BY <2>1, <2>2
<1> QED  BY <1>2, <1>8, <1>9, Moves

-----------------------------------------------------------------------------
(* Someone answers for a missing target.                                   *)

\* What an installer other than i does for plugin q stays as it is.
LEMMA OthersAnswer ==
  ASSUME TypeOK, NEW i \in Installer, NEW j \in Installer \ {i}, NEW q \in Plugin, Answers(j, q),
         \E l \in Working \cup {"idle"} : Goto(i, l),
         at'[j] = at[j], name'[j] = name[j], backups'[q][name[j]] # Absent
  PROVE  Answers(j, q)'
<1>1. pc'[j] = pc[j]  BY DEF TypeOK, Goto
<1> QED  BY <1>1 DEF Answers, Restorable, p

\* A missing target of plugin q, for which somebody has to answer.
Missing(q) == target[q] = Absent /\ q \notin exposed /\ \E n \in Name : backups[q][n] # Absent

\* Installer i takes a step after which q is missing.
LEMMA AnswersStep ==
  ASSUME TypeOK, NameKnown, SomeoneAnswers, StagedIsHead, NEW i \in Installer,
         Install(i) \/ StageFails(i) \/ Crash(i), NEW q \in Plugin, Missing(q)'
  PROVE  \E j \in Installer : Answers(j, q)'
<1>0. p(i) \in Plugin  BY PluginOf
<1>1. ASSUME Missing(q), UNCHANGED backups[q], ~Answers(i, q),
             \E l \in Working \cup {"idle"} : Goto(i, l),
             \A j \in Installer \ {i} : at'[j] = at[j] /\ name'[j] = name[j]
      PROVE  \E j \in Installer : Answers(j, q)'
  <2>1. PICK j \in Installer : Answers(j, q)  BY <1>1 DEF SomeoneAnswers, Missing
  <2>2. j # i  BY <1>1, <2>1
  <2>3. backups'[q][name[j]] # Absent  BY <1>1, <2>1 DEF Answers, Restorable
  <2> QED  BY <1>1, <2>1, <2>2, <2>3, OthersAnswer
<1>2. ASSUME Missing(q), UNCHANGED backups[q], Answers(i, q),
             \E l \in Gap : Goto(i, l), UNCHANGED <<at, name>>
      PROVE  \E j \in Installer : Answers(j, q)'
  <2>1. pc'[i] \in Gap  BY <1>2 DEF TypeOK, Goto
  <2> QED  BY <1>2, <2>1 DEF Answers, Restorable, p
<1>3. Gap \subseteq Working /\ "stage" \in Working /\ "look" \in Working /\ "aside" \in Working
  BY DEF Gap, Working
<1>4. CASE Begin(i) \/ Stage(i) \/ LookAtTarget(i) \/ StageFails(i)
  <2>1. Missing(q) /\ UNCHANGED backups[q]
    BY <1>4 DEF Missing, Begin, Stage, LookAtTarget, StageFails
  <2>2. ~Answers(i, q)  BY <1>4 DEF Answers, Gap, Begin, Stage, LookAtTarget, StageFails
  <2>3. \E l \in Working \cup {"idle"} : Goto(i, l)
    BY <1>3, <1>4 DEF Begin, Stage, LookAtTarget, StageFails, End, Gap
  <2>4. \A j \in Installer \ {i} : at'[j] = at[j] /\ name'[j] = name[j]
    BY <1>4 DEF TypeOK, Begin, Stage, LookAtTarget, StageFails, End
  <2> QED  BY <1>1, <2>1, <2>2, <2>3, <2>4
<1>5. CASE MoveAside(i)
  <2>1. ~Answers(i, q) /\ name[i] \in Name  BY <1>5 DEF Answers, Gap, MoveAside, NameKnown
  <2>2. (\E l \in Gap : Goto(i, l)) /\ UNCHANGED <<at, name, exposed>>  BY <1>5 DEF MoveAside, Gap
  <2>3. CASE UNCHANGED <<target, backups>>
    BY <1>1, <1>3, <2>1, <2>2, <2>3 DEF Missing
  <2>4. CASE /\ target[p(i)] # Absent
             /\ backups' = [backups EXCEPT ![p(i)][name[i]] = target[p(i)]]
             /\ target' = [target EXCEPT ![p(i)] = Absent]
    <3>1. CASE q = p(i)
      <4>1. backups'[q][name[i]] # Absent  BY <2>1, <2>4, <3>1 DEF TypeOK
      <4>2. pc'[i] \in Gap  BY <2>2 DEF TypeOK, Goto
      <4> QED  BY <2>1, <2>2, <3>1, <4>1, <4>2, ConstantsAssumption DEF Answers, Restorable, p
    <3>2. CASE q # p(i)
      <4>1. Missing(q) /\ UNCHANGED backups[q]  BY <1>0, <2>2, <2>4, <3>2 DEF Missing, TypeOK
      <4> QED  BY <1>1, <1>3, <2>1, <2>2, <4>1
    <3> QED  BY <3>1, <3>2
  <2> QED  BY <1>5, <2>3, <2>4 DEF MoveAside
<1>6. CASE Place(i)
  <2>1. UNCHANGED backups  BY <1>6 DEF Place
  <2>2. CASE target' = [target EXCEPT ![p(i)] = stage[i]] /\ exposed' = exposed \ {p(i)} /\ NextPlugin(i)
    <3>1. stage[i] # Absent  BY <1>6 DEF Place, StagedIsHead, Staged
    <3>2. q # p(i) /\ Missing(q)  BY <1>0, <2>1, <2>2, <3>1 DEF Missing, TypeOK
    <3>3. ~Answers(i, q)  BY <3>2 DEF Answers
    <3>4. \E l \in Working \cup {"idle"} : Goto(i, l)
      BY <1>3, <2>2 DEF NextPlugin, NextPluginAlways, End
    <3>5. \A j \in Installer \ {i} : at'[j] = at[j] /\ name'[j] = name[j]
      BY <2>2 DEF TypeOK, NextPlugin, NextPluginAlways, End
    <3> QED  BY <1>1, <2>1, <3>2, <3>3, <3>4, <3>5
  <2>3. CASE Goto(i, "undo") /\ UNCHANGED <<target, exposed, at, stage, name>>
    <3>1. Missing(q)  BY <2>1, <2>3 DEF Missing
    <3>2. \E l \in Gap : Goto(i, l)  BY <2>3 DEF Gap
    <3> QED  BY <1>1, <1>2, <1>3, <2>1, <2>3, <3>1, <3>2
  <2> QED  BY <1>6, <2>2, <2>3 DEF Place
<1>7. CASE Undo(i)
  <2>1. UNCHANGED <<target, backups, exposed>> /\ Missing(q)  BY <1>7 DEF Undo, Missing
  <2>2. CASE Answers(i, q)
    <3>1. Goto(i, "restore") /\ UNCHANGED <<at, stage, name>>
      BY <1>7, <2>1, <2>2 DEF Undo, Answers, Missing
    <3> QED  BY <1>2, <2>1, <2>2, <3>1 DEF Gap
  <2>3. CASE ~Answers(i, q)
    <3>1. \E l \in Working \cup {"idle"} : Goto(i, l)  BY <1>7 DEF Undo, End, Working
    <3>2. \A j \in Installer \ {i} : at'[j] = at[j] /\ name'[j] = name[j]
      BY <1>7 DEF TypeOK, Undo, End
    <3> QED  BY <1>1, <2>1, <2>3, <3>1, <3>2
  <2> QED  BY <2>2, <2>3
<1>8. CASE Restore(i)
  <2>1. End(i)  BY <1>8 DEF Restore
  <2>2. /\ \E l \in Working \cup {"idle"} : Goto(i, l)
        /\ \A j \in Installer \ {i} : at'[j] = at[j] /\ name'[j] = name[j]
    BY <2>1 DEF TypeOK, End
  <2>3. CASE /\ target[p(i)] = Absent /\ backups[p(i)][name[i]] # Absent
             /\ target' = [target EXCEPT ![p(i)] = backups[p(i)][name[i]]]
             /\ backups' = [backups EXCEPT ![p(i)][name[i]] = Absent]
             /\ exposed' = exposed \ {p(i)}
    <3>1. q # p(i)  BY <1>0, <2>3 DEF Missing, TypeOK
    <3>2. Missing(q) /\ UNCHANGED backups[q]  BY <1>0, <2>3, <3>1 DEF Missing, TypeOK
    <3> QED  BY <1>1, <2>2, <3>1, <3>2 DEF Answers
  <2>4. CASE (target[p(i)] # Absent \/ backups[p(i)][name[i]] = Absent) /\ UNCHANGED <<target, backups, exposed>>
    <3>1. Missing(q) /\ ~Answers(i, q)  BY <2>4 DEF Missing, Answers, Restorable
    <3> QED  BY <1>1, <2>2, <2>4, <3>1
  <2>5. CASE exposed' = Uncovered(i) /\ UNCHANGED <<target, backups>>
    <3>1. Missing(q) /\ ~Answers(i, q)  BY <2>5 DEF Missing, Answers, Uncovered
    <3> QED  BY <1>1, <2>2, <2>5, <3>1
  <2> QED  BY <1>8, <2>3, <2>4, <2>5 DEF Restore
<1>9. CASE Crash(i)
  <2>1. /\ \E l \in Working \cup {"idle"} : Goto(i, l)
        /\ \A j \in Installer \ {i} : at'[j] = at[j] /\ name'[j] = name[j]
    BY <1>9 DEF TypeOK, Crash, End
  <2>2. Missing(q) /\ ~Answers(i, q) /\ UNCHANGED backups
    BY <1>9 DEF Crash, Missing, Answers, Uncovered
  <2> QED  BY <1>1, <2>1, <2>2
<1> QED  BY <1>4, <1>5, <1>6, <1>7, <1>8, <1>9 DEF Install

LEMMA SomeoneStep ==
  ASSUME TypeOK, NameKnown, SomeoneAnswers, StagedIsHead, Next
  PROVE  SomeoneAnswers'
<1> SUFFICES ASSUME NEW q \in Plugin, Missing(q)'  PROVE \E i \in Installer : Answers(i, q)'
  BY DEF SomeoneAnswers, Missing
<1>1. ASSUME NEW i \in Installer, Install(i) \/ StageFails(i) \/ Crash(i)
      PROVE  \E j \in Installer : Answers(j, q)'
  BY <1>1, AnswersStep
<1>2. ASSUME Missing(q), UNCHANGED <<backups, pc, at, name>>
      PROVE  \E j \in Installer : Answers(j, q)'
  <2>1. PICK j \in Installer : Answers(j, q)  BY <1>2 DEF SomeoneAnswers, Missing
  <2> QED  BY <1>2, <2>1 DEF Answers, Restorable, p
<1>3. ASSUME NEW w \in Plugin, WriteMutable(w)  PROVE \E j \in Installer : Answers(j, q)'
  <2>1. target[w] \in Dir /\ latest[w] + 1 \in 0..MaxWrites  BY <1>3 DEF TypeOK, WriteMutable
  <2>2. target' = [target EXCEPT ![w] = [target[w] EXCEPT !.mutable = latest[w] + 1]]
    BY <1>3 DEF WriteMutable
  <2>3. target'[w] # Absent  BY <2>1, <2>2, WrittenIsDir DEF TypeOK
  <2>4. Missing(q)  BY <1>3, <2>2, <2>3 DEF TypeOK, Missing, WriteMutable
  <2> QED  BY <1>2, <1>3, <2>4 DEF WriteMutable
<1>4. CASE Develop
  BY <1>2, <1>4 DEF Develop, Missing
<1> QED  BY <1>1, <1>3, <1>4 DEF Next

-----------------------------------------------------------------------------
(* The repository stays what it was verified and staged from.              *)

LEMMA StagedStep ==
  ASSUME TypeOK, StagedIsHead, Next
  PROVE  StagedIsHead'
<1>1. ASSUME UNCHANGED repo, NEW i \in Installer,
             \A j \in Installer \ {i} : pc'[j] = pc[j] /\ stage'[j] = stage[j],
             pc'[i] # "idle" => verify_with_git_blobs,
             pc'[i] \in {"look", "aside", "place"} => Staged(i)'
      PROVE  StagedIsHead'
  <2> SUFFICES ASSUME NEW j \in Installer
               PROVE  /\ pc'[j] # "idle" => verify_with_git_blobs'
                      /\ pc'[j] \in {"look", "aside", "place"} => Staged(j)'
    BY DEF StagedIsHead
  <2>1. verify_with_git_blobs <=> verify_with_git_blobs'  BY <1>1 DEF verify_with_git_blobs, git_blob_bytes
  <2>2. CASE j = i  BY <1>1, <2>1, <2>2
  <2>3. CASE j # i
    <3>1. pc'[j] = pc[j] /\ stage'[j] = stage[j]  BY <1>1, <2>3
    <3> QED  BY <1>1, <2>1, <3>1 DEF StagedIsHead, Staged, git_blob_bytes
  <2> QED  BY <2>2, <2>3
<1>2. ASSUME NEW i \in Installer, Begin(i)  PROVE StagedIsHead'
  <2>1. /\ \A j \in Installer \ {i} : pc'[j] = pc[j] /\ stage'[j] = stage[j]
        /\ pc'[i] = "stage" /\ verify_with_git_blobs /\ UNCHANGED repo
    BY <1>2 DEF TypeOK, Begin, Goto
  <2> QED  BY <1>1, <2>1
<1>3. ASSUME NEW i \in Installer, Stage(i)  PROVE StagedIsHead'
  <2> DEFINE d == [canon |-> git_blob_bytes, extra |-> repo.ignored, mutable |-> copy_mutable(p(i))]
  <2>1. d \in Dir  BY StagedIsDir
  <2>2. d.canon = git_blob_bytes /\ d.extra = repo.ignored  OBVIOUS
  <2>3. stage' = [stage EXCEPT ![i] = d] /\ UNCHANGED repo  BY <1>3 DEF Stage
  <2> HIDE DEF d
  <2>4. Staged(i)'  BY <2>1, <2>2, <2>3 DEF Staged, TypeOK, git_blob_bytes
  <2>5. verify_with_git_blobs  BY <1>3 DEF Stage, StagedIsHead
  <2>6. \A j \in Installer \ {i} : pc'[j] = pc[j] /\ stage'[j] = stage[j]
    BY <1>3, <2>3 DEF TypeOK, Stage, Goto
  <2> QED  BY <1>1, <2>3, <2>4, <2>5, <2>6
<1>4. ASSUME NEW i \in Installer, LookAtTarget(i) \/ MoveAside(i) \/ Undo(i) \/ Restore(i)
      PROVE  StagedIsHead'
  <2>1. UNCHANGED repo /\ \A j \in Installer \ {i} : pc'[j] = pc[j] /\ stage'[j] = stage[j]
    BY <1>4 DEF TypeOK, LookAtTarget, MoveAside, Undo, Restore, End, Goto
  <2>2. verify_with_git_blobs  BY <1>4 DEF StagedIsHead, LookAtTarget, MoveAside, Undo, Restore
  <2>3. CASE pc'[i] \in {"look", "aside", "place"}
    <3>1. pc[i] \in {"look", "aside"} /\ UNCHANGED stage
      BY <1>4, <2>3 DEF TypeOK, LookAtTarget, MoveAside, Undo, Restore, End, Goto
    <3> QED  BY <1>1, <2>1, <2>2, <3>1 DEF StagedIsHead, Staged, git_blob_bytes
  <2> QED  BY <1>1, <2>1, <2>2, <2>3
<1>5. ASSUME NEW i \in Installer, Place(i)  PROVE StagedIsHead'
  <2>1. UNCHANGED repo /\ \A j \in Installer \ {i} : pc'[j] = pc[j] /\ stage'[j] = stage[j]
    BY <1>5 DEF TypeOK, Place, NextPlugin, NextPluginAlways, End, Goto
  <2>2. verify_with_git_blobs  BY <1>5 DEF StagedIsHead, Place
  <2>3. pc'[i] \notin {"look", "aside", "place"}
    BY <1>5 DEF TypeOK, Place, NextPlugin, NextPluginAlways, End, Goto
  <2> QED  BY <1>1, <2>1, <2>2, <2>3
<1>6. ASSUME NEW i \in Installer, StageFails(i) \/ Crash(i)  PROVE StagedIsHead'
  <2>1. UNCHANGED repo /\ (\A j \in Installer \ {i} : pc'[j] = pc[j] /\ stage'[j] = stage[j]) /\ pc'[i] = "idle"
    BY <1>6 DEF TypeOK, StageFails, Crash, End, Goto
  <2> QED  BY <1>1, <2>1
<1>7. ASSUME NEW q \in Plugin, WriteMutable(q)  PROVE StagedIsHead'
  BY <1>7 DEF WriteMutable, StagedIsHead, Staged, verify_with_git_blobs, git_blob_bytes
<1>8. CASE Develop
  BY <1>8 DEF Develop, StagedIsHead
<1> QED  BY <1>2, <1>3, <1>4, <1>5, <1>6, <1>7, <1>8 DEF Next, Install

-----------------------------------------------------------------------------
(* The theorems.                                                           *)

LEMMA Initially == Init => Inv
<1> SUFFICES ASSUME Init  PROVE Inv
  OBVIOUS
<1>1. TypeOK
  BY PositionTypes DEF Init, TypeOK, Working
<1>2. NameKnown /\ MutableSurvives /\ SomeoneAnswers /\ StagedIsHead
  BY DEF Init, NameKnown, MutableSurvives, SomeoneAnswers, StagedIsHead
<1> QED  BY <1>1, <1>2 DEF Inv

LEMMA StepKeeps == Inv /\ [Next]_vars => Inv'
<1> SUFFICES ASSUME Inv, [Next]_vars  PROVE Inv'
  OBVIOUS
<1>1. CASE Next
  BY <1>1, TypeStep, MutableStep, SomeoneStep, StagedStep DEF Inv
<1>2. CASE UNCHANGED vars
  BY <1>2 DEF vars, Inv, TypeOK, NameKnown, MutableSurvives, SomeoneAnswers, Answers, Restorable, p,
              StagedIsHead, Staged, verify_with_git_blobs, git_blob_bytes
<1> QED  BY <1>1, <1>2

\* Inv holds of every reachable state of the plugin root, whatever installers
\* overlap, fail or die.
THEOREM Invariant == Spec => []Inv
<1>1. Inv /\ [Next]_vars => Inv'  BY StepKeeps
<1> QED  BY Initially, <1>1, PTL DEF Spec

\* Every variable keeps its type, for any manifest and any installers.
THEOREM TypeInvariant == Spec => []TypeOK
<1>1. Inv => TypeOK  BY DEF Inv
<1> QED  BY Invariant, <1>1, PTL

\* The latest mutable files of a plugin are never destroyed (atomic_install).
THEOREM MutableFilesSurvive == Spec => []MutableSurvives
<1>1. Inv => MutableSurvives  BY DEF Inv
<1> QED  BY Invariant, <1>1, PTL

\* An installed plugin is missing only while an installer that moved it away
\* is at work, or after a death or a failed way back (atomic_install).
THEOREM TargetIsAvailable == Spec => []TargetAvailable
<1>1. ASSUME Inv  PROVE TargetAvailable
  <2>1. \A i \in Installer, q \in Plugin :
          Answers(i, q) => p(i) = q /\ pc[i] \in Gap /\ name[i] # Absent
    BY DEF Answers, Restorable
  <2> QED  BY <1>1, <2>1 DEF Inv, SomeoneAnswers, TargetAvailable
<1> QED  BY Invariant, <1>1, PTL

\* The staged directory passes the strict drift check, if the checkout is
\* clean, has no ignored files and a manifest of the committed digests.
LEMMA StagedPasses ==
  ASSUME Inv, NEW i \in Installer, pc[i] = "place", repo.clean, ~repo.ignored, repo.wanted[2] = "lf"
  PROVE  PassesStrict(stage[i])
<1>1. repo \in Repo  BY DEF Inv, TypeOK
<1>2. repo.tree[1] = repo.head /\ repo.tree \in Content /\ repo.wanted \in Content
  BY <1>1 DEF Repo
<1>3. repo.wanted = <<repo.wanted[1], "lf">>  BY <1>2 DEF Content
<1>4. verify_with_git_blobs /\ Staged(i)  BY DEF Inv, StagedIsHead
<1>5. repo.wanted = <<repo.head, "lf">>  BY <1>2, <1>3, <1>4 DEF verify_with_git_blobs, git_blob_bytes
<1> QED  BY <1>2, <1>4, <1>5 DEF PassesStrict, Staged, canonical_source_bytes, git_blob_bytes

\* What is installed under those conditions passes the strict drift check
\* (build_staging, inspect_plugin).
THEOREM InstalledIsVerified == Spec => InstalledPassesCheck
<1> DEFINE Step == \A i \in Installer :
       pc[i] = "place" /\ pc'[i] # "place" /\ target[p(i)] = Absent /\ target'[p(i)] # Absent
       /\ repo.clean /\ ~repo.ignored /\ repo.wanted[2] = "lf"
         => PassesStrict(target'[p(i)])
<1>1. ASSUME Inv, [Next]_vars  PROVE [Step]_vars
  <2> SUFFICES ASSUME Next, NEW i \in Installer,
                      pc[i] = "place", pc'[i] # "place", target[p(i)] = Absent, target'[p(i)] # Absent,
                      repo.clean, ~repo.ignored, repo.wanted[2] = "lf"
               PROVE  PassesStrict(target'[p(i)])
    BY <1>1
  <2>1. TypeOK  BY <1>1 DEF Inv
  <2>2. ASSUME NEW j \in Installer \ {i}, Install(j) \/ StageFails(j) \/ Crash(j)  PROVE FALSE
    BY <2>1, <2>2 DEF TypeOK, Install, Begin, Stage, LookAtTarget, MoveAside, Place, Undo, Restore,
                      StageFails, Crash, NextPlugin, NextPluginAlways, End, Goto
  <2>3. Install(i) \/ StageFails(i) \/ Crash(i)
    BY <2>2 DEF Next, WriteMutable, Develop
  <2>4. Place(i)
    BY <2>3 DEF Install, Begin, Stage, LookAtTarget, MoveAside, Undo, Restore, StageFails, Crash
  <2>5. target' = [target EXCEPT ![p(i)] = stage[i]]  BY <2>4 DEF Place
  <2>6. target'[p(i)] = stage[i]  BY <2>1, <2>5, PluginOf DEF TypeOK
  <2>7. PassesStrict(stage[i])  BY <1>1, StagedPasses
  <2> QED  BY <2>6, <2>7
<1>2. Inv /\ [Next]_vars => [Step]_vars  BY <1>1
<1> QED  BY Invariant, <1>2, PTL DEF Spec, InstalledPassesCheck

=============================================================================
