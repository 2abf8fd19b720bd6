----------------------------- MODULE OAuthRuns -----------------------------
(***************************************************************************)
(* What the parts of the OAuth re-authorization have in common.            *)
(***************************************************************************)
CONSTANTS Run,     \* the runs of the live runner, each a process
          Nothing, \* None
          Faults   \* the kinds of failure the environment may inject

\* crash: a process dies.  interrupt: Ctrl-C in a run.  bind: the port cannot
\* be bound or the thread is late.  socket: handle_request raises.  prepare:
\* writing a file or its ACL check fails.  unlink: removing a file fails.
\* exchange: fetch_token fails.  swap: a call of atomic_promote fails.
\* refresh: a call of a durable refresh fails.
FaultKinds == {"crash", "interrupt", "bind", "socket", "prepare", "unlink", "exchange",
               "swap", "refresh"}

ASSUME NothingAssumption == Nothing \notin Run
ASSUME FaultsAssumption == Faults \subseteq FaultKinds
=============================================================================
