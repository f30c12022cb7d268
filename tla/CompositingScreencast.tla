--------------------------- MODULE CompositingScreencast ---------------------------
(***************************************************************************)
(* mir::compositor::CompositingScreencast                                  *)
(* (src/server/compositor/compositing_screencast.cpp): the table of        *)
(* screencast sessions by id, and create_session / destroy_session as the  *)
(* IPC thread runs them under session_mutex.  Both hold session_mutex to   *)
(* the end, so one IPC thread stands for all of them; what they do to the  *)
(* display (configuration(), a virtual output's enable and disable, each   *)
(* followed by the display's hotplug notification) is passed in by the    *)
(* composing module as actions, and takes the display's own lock.          *)
(*                                                                         *)
(* A session is "free" (no entry), "null" (an entry holding no context),   *)
(* "live" (a context without a virtual output) or "vo" (a context whose    *)
(* virtual output it enabled).  capture(id) runs on a second IPC thread   *)
(* (`cap`): session(id) copies the context's shared_ptr under             *)
(* session_mutex and the capture runs after it is released, so a          *)
(* destroy_session meanwhile only drops the table's reference and the     *)
(* context, with its virtual output, is destroyed when the capture drops  *)
(* the last one.  The compositing inside a capture goes through           *)
(* QueueingSchedule and ScreencastDisplayBuffer, not in the sources, and  *)
(* is left out, as are the parameter checks of create_session, whose      *)
(* failure changes nothing.  `vos` counts the virtual outputs enabled and  *)
(* not yet disabled (a history variable).                                  *)
(***************************************************************************)
EXTENDS Integers

CONSTANTS
  SessionIds,        \* 1..max_screencast_sessions, cut down
  MaxScreencastOps   \* create_session and destroy_session calls

VARIABLES
  sessions,  \* id -> "free", "null", "live" or "vo"
  ipc,       \* the IPC thread: [st |-> "idle" | "created" | "notify", id, vo]
  scOps,     \* calls so far
  cap,       \* the capturing thread: [st |-> "idle" | "capturing" | "notify",
             \*   id, vo (its context enabled a virtual output), orphan (the
             \*   table no longer holds the context)]
  vos        \* virtual outputs enabled and not disabled

scVars == <<sessions, ipc, scOps, cap, vos>>

Idle == [st |-> "idle", id |-> 0, vo |-> FALSE]
CapIdle == [st |-> "idle", id |-> 0, vo |-> FALSE, orphan |-> FALSE]

\* next_available_session_id: the lowest id with no entry.
NextAvailableSessionId ==
  CHOOSE i \in SessionIds :
    sessions[i] = "free" /\ \A j \in SessionIds : j < i => sessions[j] # "free"

ScInit ==
  /\ sessions = [i \in SessionIds |-> "free"]
  /\ ipc = Idle
  /\ scOps = 0
  /\ cap = CapIdle
  /\ vos = 0

\* create_session, up to the context's constructor having made its virtual
\* output: an id is free (else "Too many screencast sessions!" is thrown
\* and nothing changes), and make_virtual_output has called configuration
\* (the action `configuration`) and decided whether the capture region
\* needs a virtual output (`needs`, over the configuration it got).
CreateSession(configuration, needs) ==
  /\ ipc = Idle
  /\ scOps < MaxScreencastOps
  /\ \E i \in SessionIds : sessions[i] = "free"
  /\ configuration
  /\ ipc' = [st |-> "created", id |-> NextAvailableSessionId, vo |-> needs]
  /\ scOps' = scOps + 1
  /\ UNCHANGED <<sessions, cap, vos>>

\* The constructor allocates the buffers after the virtual output is made
\* and before it is enabled; an allocation throws.  The evaluation order of
\* `session_contexts[id] = create_session_context(...)` is unspecified
\* (before C++17): when operator[] runs first, the entry it made stays,
\* holding nothing.
CreateThrows ==
  /\ ipc.st = "created"
  /\ \E indexFirst \in BOOLEAN :
       sessions' = IF indexFirst THEN [sessions EXCEPT ![ipc.id] = "null"]
                   ELSE sessions
  /\ ipc' = Idle
  /\ UNCHANGED <<scOps, cap, vos>>

\* create_session when make_virtual_output's configuration() throws (the
\* action `configurationThrows`), in the context's constructor: as for a
\* throwing allocation, operator[] may have left a null entry.
CreateSessionThrows(configurationThrows) ==
  /\ ipc = Idle
  /\ scOps < MaxScreencastOps
  /\ \E i \in SessionIds : sessions[i] = "free"
  /\ configurationThrows
  /\ \E indexFirst \in BOOLEAN :
       sessions' = IF indexFirst THEN [sessions EXCEPT ![NextAvailableSessionId] = "null"]
                   ELSE sessions
  /\ scOps' = scOps + 1
  /\ UNCHANGED <<ipc, cap, vos>>

\* The constructor finishes with no virtual output to enable; the context
\* is stored under the id.
Created ==
  /\ ipc.st = "created"
  /\ ~ipc.vo
  /\ sessions' = [sessions EXCEPT ![ipc.id] = "live"]
  /\ ipc' = Idle
  /\ UNCHANGED <<scOps, cap, vos>>

\* virtual_output->enable(): the display's enable function first records
\* the virtual output (the action `enable`), then notifies a hotplug.
EnableVirtualOutput(enable) ==
  /\ ipc.st = "created"
  /\ ipc.vo
  /\ enable
  /\ ipc' = [ipc EXCEPT !.st = "notify"]
  /\ vos' = vos + 1
  /\ UNCHANGED <<sessions, scOps, cap>>

\* The display's on_hotplug ends the enable or disable function; a context
\* that enabled its virtual output is then stored under its id.
Notify(onHotplug) ==
  /\ ipc.st = "notify"
  /\ onHotplug
  /\ sessions' = IF ipc.vo THEN [sessions EXCEPT ![ipc.id] = "vo"] ELSE sessions
  /\ ipc' = Idle
  /\ UNCHANGED <<scOps, cap, vos>>

\* The capture thread holds the context stored under id.
Held(id) == cap.st = "capturing" /\ cap.id = id /\ ~cap.orphan

\* Mutant: destroy_session destroys the context even while a capture holds
\* it (a raw pointer handed out), and the capture destroys it again.
DestroySessionEager(id, disable, noDisplay) ==
  /\ ipc = Idle
  /\ scOps < MaxScreencastOps
  /\ sessions[id] \in {"live", "vo"}
  /\ sessions' = [sessions EXCEPT ![id] = "free"]
  /\ scOps' = scOps + 1
  /\ cap' = IF Held(id) THEN [cap EXCEPT !.orphan = TRUE] ELSE cap
  /\ IF sessions[id] = "vo"
       THEN disable /\ vos' = vos - 1 /\ ipc' = [st |-> "notify", id |-> id, vo |-> FALSE]
       ELSE noDisplay /\ ipc' = Idle /\ UNCHANGED vos

\* destroy_session(id) for an id a client was given: the entry is erased.
\* When that was the last reference the context is destroyed, and with it
\* its virtual output, whose disable function (the action `disable`) is
\* followed by a notification; while a capture holds the context, only
\* the table's reference goes.
DestroySession(id, disable, noDisplay) ==
  /\ ipc = Idle
  /\ scOps < MaxScreencastOps
  /\ sessions[id] \in {"live", "vo"}
  /\ sessions' = [sessions EXCEPT ![id] = "free"]
  /\ scOps' = scOps + 1
  /\ IF Held(id)
       THEN cap' = [cap EXCEPT !.orphan = TRUE] /\ noDisplay /\ ipc' = Idle
            /\ UNCHANGED vos
       ELSE /\ UNCHANGED cap
            /\ IF sessions[id] = "vo"
                 THEN disable /\ vos' = vos - 1
                      /\ ipc' = [st |-> "notify", id |-> id, vo |-> FALSE]
                 ELSE noDisplay /\ ipc' = Idle /\ UNCHANGED vos

\* capture(id) / capture(id, buffer), up to session(id): under
\* session_mutex, session_contexts.at(id) is copied.  An id with no entry
\* throws out_of_range and changes nothing; a client captures ids it was
\* given, which hold a context (a null entry's id was never given).
Capture(id) ==
  /\ ipc = Idle
  /\ cap = CapIdle
  /\ scOps < MaxScreencastOps
  /\ sessions[id] \in {"live", "vo"}
  /\ cap' = [st |-> "capturing", id |-> id, vo |-> sessions[id] = "vo", orphan |-> FALSE]
  /\ scOps' = scOps + 1
  /\ UNCHANGED <<sessions, ipc, vos>>

\* The context's capture() under its own mutex (compositing, left out),
\* then the copy is dropped.  When destroy_session has dropped the table's
\* reference meanwhile, this is the last one: the context is destroyed
\* here, and a virtual output it enabled is disabled on this thread.
CaptureEnd(disable, noDisplay) ==
  /\ cap.st = "capturing"
  /\ IF cap.orphan /\ cap.vo
       THEN disable /\ vos' = vos - 1 /\ cap' = [cap EXCEPT !.st = "notify"]
       ELSE noDisplay /\ cap' = CapIdle /\ UNCHANGED vos
  /\ UNCHANGED <<sessions, ipc, scOps>>

\* The disable function's on_hotplug, on the capture thread.
CaptureNotify(onHotplug) ==
  /\ cap.st = "notify"
  /\ onHotplug
  /\ cap' = CapIdle
  /\ UNCHANGED <<sessions, ipc, scOps, vos>>

ScTypeOK ==
  /\ sessions \in [SessionIds -> {"free", "null", "live", "vo"}]
  /\ ipc \in [st : {"idle", "created", "notify"}, id : SessionIds \cup {0}, vo : BOOLEAN]
  /\ scOps \in 0..MaxScreencastOps
  /\ cap \in [st : {"idle", "capturing", "notify"}, id : SessionIds \cup {0},
              vo : BOOLEAN, orphan : BOOLEAN]
  /\ vos \in Int

=============================================================================
