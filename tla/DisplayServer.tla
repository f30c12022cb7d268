---------------------------- MODULE DisplayServer ----------------------------
(***************************************************************************)
(* mir::DisplayServer (src/server/display_server.cpp): run() starts the    *)
(* server's components and runs the main loop; the display calls the pause *)
(* and resume handlers from that loop; stop() makes the loop return and    *)
(* run() stop the components.                                              *)
(*                                                                         *)
(* pause() and resume() call one component after another.  Each call but  *)
(* the last is wrapped by try_but_revert_if_unwinding, whose guard calls   *)
(* the reverter when it is destroyed while an exception unwinds: a failed *)
(* call undoes the earlier ones, latest first.  A runtime_error makes the  *)
(* handler return false; any other exception leaves the main loop and     *)
(* run().  A reverter that throws while unwinding ends the process         *)
(* (std::terminate).  With GCC bug 62258, once a rethrown exception has    *)
(* been caught, std::uncaught_exception() stays true, so the guards call   *)
(* their reverters on a normal return too; the reverters then test         *)
(* really_unwinding.  All of this runs on the main loop's thread, so each  *)
(* handler is one action; stop() may come from any thread.                 *)
(*                                                                         *)
(* A component is TRUE while started (the display: active; display config *)
(* processing: not paused).                                               *)
(***************************************************************************)
EXTENDS Naturals, Sequences, SequencesExt

CONSTANT MaxCalls   \* pause and resume calls the display makes

VARIABLES
  pc,          \* "created", "loop", "stopped", "terminated" or "escaped"
  comps,       \* component -> started
  dispPaused,  \* the display has been paused by a handler returning true
  stopReq,     \* stop() has been called
  stuck,       \* uncaught_exception() has stayed true (GCC bug 62258)
  status,      \* the calls on the server status listener
  calls        \* handler calls made

vars == <<pc, comps, dispPaused, stopReq, stuck, status, calls>>

Components == {"connector", "prompt_connector", "input_dispatcher",
               "input_manager", "display_config", "compositor", "display"}

\* run(): what it starts before the main loop, and stops after it.
RunStarts == <<"compositor", "input_manager", "input_dispatcher",
               "prompt_connector", "connector">>
RunStops == Reverse(RunStarts)

\* pause() and resume(): the components in the order they are called, and
\* the calls that are wrapped with a reverter.
PauseSteps == <<"connector", "prompt_connector", "input_dispatcher",
                "input_manager", "display_config", "compositor", "display">>
ResumeSteps == <<"display", "compositor", "display_config", "input_manager",
                 "input_dispatcher", "prompt_connector", "connector">>
\* Mutant: the display config processing is paused without a reverter.
PauseGuardedMissing == (1..6) \ {5}

PauseGuarded == 1..6
ResumeGuarded == 1..6

\* Mutant: really_unwinding is never cleared.
ReallyUnwindingKept == FALSE

\* The handler ends its try block with really_unwinding = false.
ReallyUnwindingCleared == TRUE

Init ==
  /\ pc = "created"
  /\ comps = [c \in Components |-> c \in {"display", "display_config"}]
  /\ dispPaused = FALSE
  /\ stopReq = FALSE
  /\ stuck = FALSE
  /\ status = <<>>
  /\ calls = 0

\* The components after a handler calls steps, each setting a component to
\* on, when step fail throws (0: none does) and then the reverter of step
\* rfail throws (0: none does).  Reverters set their component back to ~on.
Outcome(steps, guarded, on, fail, rfail) ==
  LET reverted == IF fail = 0
                  THEN IF stuck /\ ~ReallyUnwindingCleared THEN guarded ELSE {}
                  ELSE {i \in guarded : rfail < i /\ i < fail}
      applied == (IF fail = 0 THEN DOMAIN steps ELSE 1..(fail - 1)) \ reverted
  IN [c \in Components |->
        IF \E i \in reverted : steps[i] = c THEN ~on
        ELSE IF \E i \in applied : steps[i] = c THEN on
        ELSE comps[c]]

\* How a handler call can end: step fail throws (0: none does) and then the
\* reverter of step rfail throws while unwinding (0: none does); exc is the
\* exception that reaches the handler's catch.
Outcomes(steps, guarded) ==
  {[fail |-> 0, rfail |-> 0, exc |-> "none"]}
  \cup UNION {{[fail |-> f, rfail |-> r, exc |-> "reverter"] :
                  r \in {i \in guarded : i < f}} : f \in 1..Len(steps)}
  \cup {[fail |-> f, rfail |-> 0, exc |-> e] :
          f \in 1..Len(steps), e \in {"runtime_error", "other"}}

\* A pause or resume handler ending as o says: the calls succeed and the
\* listener is told, or one throws and the earlier ones are reverted.
Handler(steps, guarded, on, note, o) ==
  /\ pc = "loop"
  /\ calls < MaxCalls
  /\ calls' = calls + 1
  /\ comps' = Outcome(steps, guarded, on, o.fail, o.rfail)
  /\ \/ /\ o.exc = "none"
        /\ status' = Append(status, note)
        /\ dispPaused' = ~on
        /\ UNCHANGED <<pc, stuck>>
     \/ \* a reverter throws while unwinding: std::terminate
        /\ o.exc = "reverter"
        /\ pc' = "terminated"
        /\ UNCHANGED <<dispPaused, stuck, status>>
     \/ \* runtime_error: caught, the handler returns false
        /\ o.exc = "runtime_error"
        /\ \E b \in BOOLEAN : stuck' = (stuck \/ b)
        /\ UNCHANGED <<pc, dispPaused, status>>
     \/ \* any other exception leaves run()
        /\ o.exc = "other"
        /\ pc' = "escaped"
        /\ UNCHANGED <<dispPaused, stuck, status>>
  /\ UNCHANGED stopReq

\* run(), up to the main loop: the components are started and the listener
\* told.
Run ==
  /\ pc = "created"
  /\ comps' = [c \in Components |-> comps[c] \/ c \in ToSet(RunStarts)]
  /\ status' = Append(status, "started")
  /\ pc' = "loop"
  /\ UNCHANGED <<dispPaused, stopReq, stuck, calls>>

\* Mutant: the listener is told "started" before the components are.
RunStartFailsAnnounced(k) ==
  /\ pc = "created"
  /\ \E partial \in BOOLEAN :
       comps' = [c \in Components |->
                   comps[c] \/ c \in ToSet(SubSeq(RunStarts, 1, k - 1))
                            \/ (partial /\ c = RunStarts[k])]
  /\ status' = Append(status, "started")
  /\ pc' = "escaped"
  /\ UNCHANGED <<dispPaused, stopReq, stuck, calls>>

\* run(), when the start() of the k-th component throws: nothing reverts
\* the components started before it, the listener is not told, and the
\* exception leaves run().  What the throwing start() itself left running
\* is up to the component, so either.
RunStartFails(k) ==
  /\ pc = "created"
  /\ \E partial \in BOOLEAN :
       comps' = [c \in Components |->
                   comps[c] \/ c \in ToSet(SubSeq(RunStarts, 1, k - 1))
                            \/ (partial /\ c = RunStarts[k])]
  /\ pc' = "escaped"
  /\ UNCHANGED <<dispPaused, stopReq, stuck, status, calls>>

StartFails == \E k \in DOMAIN RunStarts : RunStartFails(k)

\* The display's pause handler, while it is active.
PauseWith(o) ==
  /\ ~dispPaused
  /\ Handler(PauseSteps, PauseGuarded, FALSE, "paused", o)

Pause == \E o \in Outcomes(PauseSteps, PauseGuarded) : PauseWith(o)

\* The display's resume handler, once it has been paused.
ResumeWith(o) ==
  /\ dispPaused
  /\ Handler(ResumeSteps, ResumeGuarded, TRUE, "resumed", o)

Resume == \E o \in Outcomes(ResumeSteps, ResumeGuarded) : ResumeWith(o)

\* stop(), from any thread: the stop callback and main_loop->stop().
Stop ==
  /\ pc \in {"created", "loop"}
  /\ ~stopReq
  /\ stopReq' = TRUE
  /\ UNCHANGED <<pc, comps, dispPaused, stuck, status, calls>>

\* The main loop returns and run() stops the components it started.
LoopExit ==
  /\ pc = "loop"
  /\ stopReq
  /\ comps' = [c \in Components |-> comps[c] /\ c \notin ToSet(RunStops)]
  /\ pc' = "stopped"
  /\ UNCHANGED <<dispPaused, stopReq, stuck, status, calls>>

\* An exception other than from pause or resume leaves a handler of the
\* main loop (one the display registers): main_loop->run() and with it
\* run() exit by the exception, the components left as they are.
HandlerEscapes ==
  /\ pc = "loop"
  /\ pc' = "escaped"
  /\ UNCHANGED <<comps, dispPaused, stopReq, stuck, status, calls>>

Next == Run \/ StartFails \/ Pause \/ Resume \/ Stop \/ LoopExit

Spec == Init /\ [][Next]_vars

-----------------------------------------------------------------------------
(* Properties                                                              *)

\* In the main loop, pause and resume are all or nothing: every component
\* the handlers touch is stopped exactly while the display is paused, even
\* after a call that failed part way and was unwound.
PauseAllOrNothing ==
  pc = "loop" => \A i \in DOMAIN PauseSteps : comps[PauseSteps[i]] = ~dispPaused

\* The server's life as ServerLifecycle describes it, read off the
\* components themselves: paused when every handled component is stopped.
Mode ==
  CASE pc = "created" -> "created"
    [] pc = "stopped" -> "stopped"
    [] pc \in {"terminated", "escaped"} -> "aborted"
    [] OTHER -> IF \A i \in DOMAIN PauseSteps : ~comps[PauseSteps[i]]
                THEN "paused" ELSE "running"

Life == INSTANCE ServerLifecycle WITH mode <- Mode

\* DisplayServer implements ServerLifecycle: the status listener hears
\* "started", "paused" and "resumed" exactly when the components go that
\* way, and a failed pause or resume changes nothing.
ServerRefinesLifecycle == Life!Spec

=============================================================================
