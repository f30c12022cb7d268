--------------------------- MODULE ServerLifecycle ---------------------------
(***************************************************************************)
(* What mir::DisplayServer promises about its own life: it is started      *)
(* once, is then paused and resumed as a whole, each change announced to   *)
(* the server status listener, and ends stopped or aborted.  A pause or    *)
(* resume that fails changes nothing, and a server that fails to start is  *)
(* never announced as started.                                             *)
(***************************************************************************)
EXTENDS Sequences

VARIABLES
  mode,    \* "created", "running", "paused", "stopped" or "aborted"
  status   \* the calls on the server status listener, in order

Init ==
  /\ mode = "created"
  /\ status = <<>>

Start ==
  /\ mode = "created"
  /\ mode' = "running"
  /\ status' = Append(status, "started")

\* Starting fails: the server ends without having been announced.
StartFails ==
  /\ mode = "created"
  /\ mode' = "aborted"
  /\ UNCHANGED status

Pause ==
  /\ mode = "running"
  /\ mode' = "paused"
  /\ status' = Append(status, "paused")

Resume ==
  /\ mode = "paused"
  /\ mode' = "running"
  /\ status' = Append(status, "resumed")

Stop ==
  /\ mode \in {"running", "paused"}
  /\ mode' = "stopped"
  /\ UNCHANGED status

Abort ==
  /\ mode \in {"running", "paused"}
  /\ mode' = "aborted"
  /\ UNCHANGED status

Next == Start \/ StartFails \/ Pause \/ Resume \/ Stop \/ Abort

Spec == Init /\ [][Next]_<<mode, status>>

=============================================================================
