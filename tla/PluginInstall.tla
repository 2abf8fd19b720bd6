---------------------------- MODULE PluginInstall ----------------------------
(***************************************************************************)
(* scripts/install_runtime_plugins.py and the classification of            *)
(* scripts/check_runtime_plugin_drift.py.                                  *)
(*                                                                         *)
(* An installer verifies the checkout against the manifest, and then, one  *)
(* plugin after the other, stages a directory, moves the installed one to  *)
(* a backup and the staged one into its place, with a way back.  Installers*)
(* share the plugin root and no lock, may fail at any call and die, and    *)
(* the installed plugins write their mutable files meanwhile.              *)
(*                                                                         *)
(* The files of a plugin that the manifest lists are one content, a        *)
(* revision with one kind of line endings; its mutable files are the       *)
(* number of the writing they come from, 0 for none; and there may be      *)
(* other files, which git ignores.                                         *)
(***************************************************************************)
EXTENDS Naturals, FiniteSets, Sequences

CONSTANTS Installer,  \* processes
          Plugin,
          Order,      \* the selected plugins, in the order of the manifest
          Revision,   \* revisions of the repository
          Checkouts,  \* states of the repository
          Name,       \* names of backups
          Absent,
          AllowDirty, \* --allow-dirty-git
          MaxWrites,  \* bound: writings of mutable files, per plugin
          Failing     \* whether calls fail and processes die

ASSUME OrderAssumption ==
  /\ Order \in Seq(Plugin) /\ Len(Order) > 0
  /\ \A j, k \in DOMAIN Order : Order[j] = Order[k] => j = k
ASSUME BoundsAssumption == MaxWrites \in Nat /\ Failing \in BOOLEAN /\ AllowDirty \in BOOLEAN

Content == Revision \X {"lf", "crlf"}
Dir == [canon : Content, mutable : 0..MaxWrites, extra : BOOLEAN]

\* What git and the manifest say of the sources: the checkout, HEAD, the
\* digests, whether there are ignored files, whether git status is empty.  A
\* clean checkout is HEAD, up to the line endings.
Repo == {r \in [tree : Content, head : Revision, wanted : Content, ignored : BOOLEAN, clean : BOOLEAN] :
           r.clean => r.tree[1] = r.head}

ASSUME ConstantsAssumption ==
  Checkouts \subseteq Repo /\ Absent \notin Name /\ Absent \notin Dir

VARIABLES repo,
          target,  \* per plugin, the installed directory
          backups, \* per plugin and name, the directories moved away
          latest,  \* per plugin, the latest writing of its mutable files
          pc,      \* per installer, the call it makes next
          at,      \* the position of its plugin in Order
          stage,   \* the directory it has staged
          name,    \* the backup it has chosen, if any
          exposed  \* plugins left without a target by a death or a failed way back

vars == <<repo, target, backups, latest, pc, at, stage, name, exposed>>

Working == {"stage", "look", "aside", "place", "undo", "restore"}
Gap == {"place", "undo", "restore"}
p(i) == Order[at[i]]

TypeOK ==
  /\ repo \in Checkouts
  /\ target \in [Plugin -> Dir \cup {Absent}]
  /\ backups \in [Plugin -> [Name -> Dir \cup {Absent}]]
  /\ latest \in [Plugin -> 0..MaxWrites]
  /\ pc \in [Installer -> Working \cup {"idle"}]
  /\ at \in [Installer -> DOMAIN Order]
  /\ stage \in [Installer -> Dir \cup {Absent}]
  /\ name \in [Installer -> Name \cup {Absent}]
  /\ exposed \subseteq Plugin

Init ==
  /\ repo \in Checkouts
  /\ target = [q \in Plugin |-> Absent]
  /\ backups = [q \in Plugin |-> [n \in Name |-> Absent]]
  /\ latest = [q \in Plugin |-> 0]
  /\ pc = [i \in Installer |-> "idle"]
  /\ at = [i \in Installer |-> 1]
  /\ stage = [i \in Installer |-> Absent]
  /\ name = [i \in Installer |-> Absent]
  /\ exposed = {}

Goto(i, l) == pc' = [pc EXCEPT ![i] = l]

\* The process ends, whatever it has staged goes with it.
End(i) ==
  /\ Goto(i, "idle")
  /\ at' = [at EXCEPT ![i] = 1]
  /\ stage' = [stage EXCEPT ![i] = Absent]
  /\ name' = [name EXCEPT ![i] = Absent]

-----------------------------------------------------------------------------
(* The installer.                                                          *)

\* What is committed, whatever the checkout looks like.
git_blob_bytes == <<repo.head, "lf">>

\* The checkout or HEAD has the digest.
verify_with_git_blobs == repo.tree = repo.wanted \/ git_blob_bytes = repo.wanted

\* The mutable files of the installed plugin q, if there is one.
copy_mutable(q) == IF target[q] = Absent THEN 0 ELSE target[q].mutable

\* main; a new process each time.
Begin(i) ==
  /\ pc[i] = "idle" /\ verify_with_git_blobs /\ (repo.clean \/ AllowDirty)
  /\ Goto(i, "stage")
  /\ UNCHANGED <<repo, target, backups, latest, at, stage, name, exposed>>

\* Faulty: the checkout is installed as it is.
StageCheckout(i) ==
  /\ pc[i] = "stage"
  /\ stage' = [stage EXCEPT ![i] =
       [canon |-> repo.tree, extra |-> repo.ignored, mutable |-> copy_mutable(p(i))]]
  /\ Goto(i, "look")
  /\ UNCHANGED <<repo, target, backups, latest, at, name, exposed>>

\* build_staging: a copy of the sources, the listed files from HEAD, and then
\* the mutable files of the installed plugin, in one step: one that the plugin
\* writes during the copy counts as written before or after it.  No listed file
\* is a mutable one (the copy of the latter would replace it).
Stage(i) ==
  /\ pc[i] = "stage"
  /\ stage' = [stage EXCEPT ![i] =
       [canon |-> git_blob_bytes, extra |-> repo.ignored, mutable |-> copy_mutable(p(i))]]
  /\ Goto(i, "look")
  /\ UNCHANGED <<repo, target, backups, latest, at, name, exposed>>

\* Without a target there is nothing to move; else a free name is found.
LookAtTarget(i) ==
  /\ pc[i] = "look"
  /\ \/ /\ target[p(i)] = Absent
        /\ name' = [name EXCEPT ![i] = Absent]
        /\ Goto(i, "place")
     \/ /\ target[p(i)] # Absent
        /\ \E n \in Name : backups[p(i)][n] = Absent /\ name' = [name EXCEPT ![i] = n]
        /\ Goto(i, "aside")
  /\ UNCHANGED <<repo, target, backups, latest, at, stage, exposed>>

\* A directory is not moved onto another one.
MoveAside(i) ==
  /\ pc[i] = "aside"
  /\ \/ /\ target[p(i)] # Absent /\ backups[p(i)][name[i]] = Absent
        /\ backups' = [backups EXCEPT ![p(i)][name[i]] = target[p(i)]]
        /\ target' = [target EXCEPT ![p(i)] = Absent]
        /\ Goto(i, "place")
     \/ /\ target[p(i)] = Absent \/ backups[p(i)][name[i]] # Absent \/ Failing
        /\ Goto(i, "undo")
        /\ UNCHANGED <<target, backups>>
  /\ UNCHANGED <<repo, latest, at, stage, name, exposed>>

\* Faulty: the loop does not end with the last plugin.
NextPluginAlways(i) ==
  /\ Goto(i, "stage") /\ at' = [at EXCEPT ![i] = @ + 1]
  /\ UNCHANGED <<stage, name>>

NextPlugin(i) ==
  \/ at[i] < Len(Order) /\ NextPluginAlways(i)
  \/ at[i] = Len(Order) /\ End(i)

Place(i) ==
  /\ pc[i] = "place"
  /\ \/ /\ target[p(i)] = Absent
        /\ target' = [target EXCEPT ![p(i)] = stage[i]]
        /\ exposed' = exposed \ {p(i)}
        /\ NextPlugin(i)
     \/ /\ target[p(i)] # Absent \/ Failing
        /\ Goto(i, "undo")
        /\ UNCHANGED <<target, exposed, at, stage, name>>
  /\ UNCHANGED <<repo, backups, latest>>

Uncovered(i) == IF target[p(i)] = Absent THEN exposed \cup {p(i)} ELSE exposed
Restorable(i) == name[i] # Absent /\ backups[p(i)][name[i]] # Absent

\* Faulty: the way back makes room for the backup.
UndoMakesRoom(i) ==
  /\ pc[i] = "undo"
  /\ \/ /\ Restorable(i)
        /\ target' = [target EXCEPT ![p(i)] = Absent]
        /\ Goto(i, "restore") /\ UNCHANGED <<at, stage, name>>
     \/ ~Restorable(i) /\ End(i) /\ UNCHANGED target
  /\ UNCHANGED <<repo, backups, latest, exposed>>

\* Faulty: what has been moved away stays there.
UndoNothing(i) ==
  /\ pc[i] = "undo"
  /\ End(i)
  /\ UNCHANGED <<repo, target, backups, latest, exposed>>

\* The handler of atomic_install, which looks at both places ...
Undo(i) ==
  /\ pc[i] = "undo"
  /\ IF Restorable(i) /\ target[p(i)] = Absent
     THEN Goto(i, "restore") /\ UNCHANGED <<at, stage, name>>
     ELSE End(i)
  /\ UNCHANGED <<repo, target, backups, latest, exposed>>

\* ... and then moves the backup back.  No later plugin is installed.
Restore(i) ==
  /\ pc[i] = "restore"
  /\ \/ /\ target[p(i)] = Absent /\ backups[p(i)][name[i]] # Absent
        /\ target' = [target EXCEPT ![p(i)] = backups[p(i)][name[i]]]
        /\ backups' = [backups EXCEPT ![p(i)][name[i]] = Absent]
        /\ exposed' = exposed \ {p(i)}
     \/ /\ target[p(i)] # Absent \/ backups[p(i)][name[i]] = Absent
        /\ UNCHANGED <<target, backups, exposed>>
     \/ /\ Failing /\ exposed' = Uncovered(i)
        /\ UNCHANGED <<target, backups>>
  /\ End(i)
  /\ UNCHANGED <<repo, latest>>

\* Staging fails, or the root of the backups cannot be made; what has been
\* staged is removed.
StageFails(i) ==
  /\ Failing /\ pc[i] \in {"stage", "look"}
  /\ End(i)
  /\ UNCHANGED <<repo, target, backups, latest, exposed>>

\* The process dies; its staging directory is left behind.
Crash(i) ==
  /\ Failing /\ pc[i] # "idle"
  /\ exposed' = IF pc[i] \in Gap THEN Uncovered(i) ELSE exposed
  /\ End(i)
  /\ UNCHANGED <<repo, target, backups, latest>>

Install(i) ==
  \/ Begin(i) \/ Stage(i) \/ LookAtTarget(i) \/ MoveAside(i) \/ Place(i)
  \/ Undo(i) \/ Restore(i)

-----------------------------------------------------------------------------
(* The environment.                                                        *)

\* An installed plugin writes its mutable files.
WriteMutable(q) ==
  /\ target[q] # Absent /\ latest[q] < MaxWrites
  /\ latest' = [latest EXCEPT ![q] = @ + 1]
  /\ target' = [target EXCEPT ![q].mutable = latest[q] + 1]
  /\ UNCHANGED <<repo, backups, pc, at, stage, name, exposed>>

\* Another checkout, commit or edit, while no installer is at work.
Develop ==
  /\ \A i \in Installer : pc[i] = "idle"
  /\ repo' \in Checkouts
  /\ UNCHANGED <<target, backups, latest, pc, at, stage, name, exposed>>

Next ==
  \/ \E i \in Installer : Install(i) \/ StageFails(i) \/ Crash(i)
  \/ \E q \in Plugin : WriteMutable(q)
  \/ Develop

Spec == Init /\ [][Next]_vars

-----------------------------------------------------------------------------
(* The drift check.                                                        *)

\* HEAD for a checkout that differs from it in its line endings only.
canonical_source_bytes == IF repo.tree[1] = repo.head THEN git_blob_bytes ELSE repo.tree

\* inspect_plugin, as far as --strict asks: whether the directory d passes.
PassesStrict(d) ==
  /\ canonical_source_bytes = repo.wanted /\ d.canon = repo.wanted
  /\ ~d.extra

-----------------------------------------------------------------------------
(* Properties.                                                             *)


\* "preserves declared mutable files" (OPERATIONS.md), as far as it holds: the
\* latest state that a plugin has written is never destroyed, it is in the
\* installed directory or in a backup, whatever installers overlap, fail or
\* die.
MutableSurvives ==
  \A q \in Plugin :
    \/ latest[q] = 0
    \/ target[q] # Absent /\ target[q].mutable = latest[q]
    \/ \E n \in Name : backups[q][n] # Absent /\ backups[q][n].mutable = latest[q]

\* "restores the backup if staged replacement fails": an installed plugin is
\* gone only while an installer is between its moves, or after one has died
\* there or could not move the backup back.
TargetAvailable ==
  \A q \in Plugin :
    \/ target[q] # Absent
    \/ \A n \in Name : backups[q][n] = Absent
    \/ q \in exposed
    \/ \E i \in Installer : p(i) = q /\ pc[i] \in Gap /\ name[i] # Absent

\* What is installed from a clean checkout, whose manifest has the digests of
\* the committed files and which has no ignored ones, passes the strict drift
\* check, although installer and check read different forms of the sources.
InstalledPassesCheck ==
  [][\A i \in Installer :
       pc[i] = "place" /\ pc'[i] # "place" /\ target[p(i)] = Absent /\ target'[p(i)] # Absent
       /\ repo.clean /\ ~repo.ignored /\ repo.wanted[2] = "lf"
         => PassesStrict(target'[p(i)])]_vars
=============================================================================
