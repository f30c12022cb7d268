------------------------------ MODULE AndroidStack ------------------------------
(***************************************************************************)
(* mir::DisplayServer over the Android display, with the screencast.  The  *)
(* Android display registers no pause or resume handler, so of            *)
(* DisplayServer only run(), stop() and the main loop take part.  Three    *)
(* threads touch the display:                                              *)
(*  - the HWC's hotplug callback calls on_hotplug;                         *)
(*  - the main loop's handler for the display-change pipe calls            *)
(*    configure_display() (configuration(), handed to the display changer) *)
(*    and then reads one byte;                                             *)
(*  - an IPC thread runs CompositingScreencast::create_session and         *)
(*    destroy_session, whose session context calls configuration() and     *)
(*    enables, then on destruction disables, a virtual output when the     *)
(*    capture region lies outside every connected display;                 *)
(*  - another IPC thread runs capture(), and destroys a context whose      *)
(*    session was destroyed while it captured.                             *)
(* update_configuration reads config.virt() and assigns config a step     *)
(* later, while the virtual output's functions write config.virt without   *)
(* the lock: the main loop's update is two steps here.  The display        *)
(* changer (not in the sources) applies what its policy makes of the last  *)
(* configuration it was given, on the main loop.                           *)
(***************************************************************************)
EXTENDS Naturals, FiniteSets

CONSTANTS Formats, MaxHotplugs, MaxCalls, SessionIds, MaxScreencastOps, AnyPolicy

VARIABLES
  pc, comps, dispPaused, stopReq, stuck, status, calls,                  \* DisplayServer
  hwcExt, hwcFmt, hwPower, config, configuration_dirty, pipe, extBuf,
  hwcHotplugs,                                                          \* AndroidDisplay
  sessions, ipc, scOps, cap, vos,                                       \* CompositingScreencast
  snap,       \* the main loop inside update_configuration: {} or {the new config}
  apending,   \* the configuration the display changer holds: {} or {c}
  destroyed   \* the Display has been destroyed

dsVars == <<pc, comps, dispPaused, stopReq, stuck, status, calls>>
andVars == <<hwcExt, hwcFmt, hwPower, config, configuration_dirty, pipe, extBuf, hwcHotplugs>>
scVars == <<sessions, ipc, scOps, cap, vos>>
vars == <<dsVars, andVars, scVars, snap, apending, destroyed>>

DS == INSTANCE DisplayServer
A == INSTANCE AndroidDisplay
SC == INSTANCE CompositingScreencast

\* Where a screencast's capture region lies.
Regions == {"primary", "external", "offscreen"}

\* needs_virtual_output: the region meets no connected output of c.
NeedsVirtualOutput(r, c) ==
  \/ r = "offscreen"
  \/ r = "external" /\ ~c.ext

\* configuration_mutex is free: no thread is inside update_configuration.
Unlocked == snap = {}

Init ==
  /\ DS!Init
  /\ A!Init
  /\ SC!ScInit
  /\ snap = {}
  /\ apending = {}
  /\ destroyed = FALSE

Run ==
  /\ DS!Run
  /\ UNCHANGED <<destroyed, andVars, scVars, snap, apending>>

\* A component's start() throws inside run().
StartFails ==
  /\ DS!StartFails
  /\ UNCHANGED <<destroyed, andVars, scVars, snap, apending>>

\* The pipe's fd handler on a dirty configuration: configuration() has
\* taken the lock and update_configuration has powered the external panel
\* and built the new config from the HWC's and from config.virt().
UpdateBegin ==
  /\ pc = "loop"
  /\ Unlocked
  /\ pipe > 0
  /\ configuration_dirty
  /\ snap' = {A!Updated(config.virt)}
  /\ hwPower' = A!UpdatedPower
  /\ UNCHANGED <<destroyed, dsVars, scVars, apending, hwcExt, hwcFmt, config,
                 configuration_dirty, pipe, extBuf, hwcHotplugs>>

\* ... config assigned, the lock released, the copy handed to the display
\* changer, and one byte read from the pipe.
UpdateEnd ==
  /\ \E c \in snap :
       /\ config' = c
       /\ apending' = {c}
  /\ configuration_dirty' = FALSE
  /\ A!AckChange
  /\ snap' = {}
  /\ UNCHANGED <<destroyed, dsVars, scVars, hwcExt, hwcFmt, hwPower, extBuf, hwcHotplugs>>

\* The fd handler's configuration() throws from power_mode: the exception
\* leaves the handler before ack_change, and the main loop and run().
UpdateThrows ==
  /\ pc = "loop"
  /\ Unlocked
  /\ pipe > 0
  /\ A!UpdateThrows
  /\ DS!HandlerEscapes
  /\ UNCHANGED <<destroyed, scVars, snap, apending>>

\* The pipe's fd handler when another thread's configuration() has already
\* updated the configuration: the same handler as UpdateBegin/UpdateEnd,
\* where update_configuration finds configuration_dirty false (line 215)
\* and changes nothing; the record is handed on as it is and the byte read.
ConfigureDisplayClean ==
  /\ pc = "loop"
  /\ Unlocked
  /\ pipe > 0
  /\ ~configuration_dirty
  /\ apending' = {config}
  /\ A!AckChange
  /\ UNCHANGED <<destroyed, dsVars, scVars, snap, hwcExt, hwcFmt, hwPower, config,
                 configuration_dirty, extBuf, hwcHotplugs>>

\* The display changer applies its policy's configuration (environment):
\* Mir's default policies power every output on.  It goes through
\* configure(), or first through apply_if_configuration_preserves_
\* display_buffers, falling back to configure() when that refuses.
ChangerApply ==
  /\ pc = "loop"
  /\ Unlocked
  /\ \E p \in apending :
       \E power \in IF AnyPolicy THEN [A!Panels -> A!Modes]
                    ELSE {[q \in A!Panels |-> "on"]} :
         LET c == [p EXCEPT !.power = power]
         IN A!Configure(c) \/ A!ApplyIf(c)
  /\ apending' = {}
  /\ UNCHANGED <<destroyed, dsVars, scVars, snap>>

HwcHotplug ==
  /\ ~destroyed
  /\ Unlocked
  /\ A!HwcHotplug
  /\ UNCHANGED <<destroyed, dsVars, scVars, snap, apending>>

CreateSession ==
  /\ pc = "loop"
  /\ Unlocked
  /\ \E r \in Regions :
       SC!CreateSession(A!Configuration, NeedsVirtualOutput(r, config'))
  /\ UNCHANGED <<destroyed, dsVars, snap, apending>>

CreateSessionThrows ==
  /\ pc = "loop"
  /\ Unlocked
  /\ SC!CreateSessionThrows(A!UpdateThrows)
  /\ UNCHANGED <<destroyed, dsVars, snap, apending>>

CreateThrows ==
  /\ SC!CreateThrows
  /\ UNCHANGED <<destroyed, dsVars, andVars, snap, apending>>

Created ==
  /\ SC!Created
  /\ UNCHANGED <<destroyed, dsVars, andVars, snap, apending>>

EnableVirtualOutput ==
  /\ SC!EnableVirtualOutput(A!SetVirtualOutput(TRUE))
  /\ UNCHANGED <<destroyed, dsVars, snap, apending>>

Notify ==
  /\ Unlocked
  /\ SC!Notify(A!OnHotplug /\ UNCHANGED <<hwcExt, hwcFmt, hwPower, config,
                                          extBuf, hwcHotplugs>>)
  /\ UNCHANGED <<destroyed, dsVars, snap, apending>>

DestroySession ==
  /\ pc = "loop"
  /\ \E id \in SessionIds :
       SC!DestroySession(id, A!SetVirtualOutput(FALSE), UNCHANGED andVars)
  /\ UNCHANGED <<destroyed, dsVars, snap, apending>>

Capture ==
  /\ pc = "loop"
  /\ \E id \in SessionIds : SC!Capture(id)
  /\ UNCHANGED <<destroyed, dsVars, andVars, snap, apending>>

CaptureEnd ==
  /\ SC!CaptureEnd(A!SetVirtualOutput(FALSE), UNCHANGED andVars)
  /\ UNCHANGED <<destroyed, dsVars, snap, apending>>

CaptureNotify ==
  /\ Unlocked
  /\ SC!CaptureNotify(A!OnHotplug /\ UNCHANGED <<hwcExt, hwcFmt, hwPower, config,
                                                 extBuf, hwcHotplugs>>)
  /\ UNCHANGED <<destroyed, dsVars, snap, apending>>

Stop ==
  /\ DS!Stop
  /\ UNCHANGED <<destroyed, andVars, scVars, snap, apending>>

LoopExit ==
  /\ Unlocked
  /\ DS!LoopExit
  /\ UNCHANGED <<destroyed, andVars, scVars, snap, apending>>

\* run() has returned, by stop() or an exception, and no thread is in
\* the display: the server's configuration and with it the Display are
\* destroyed.
Destroy ==
  /\ pc \in {"stopped", "terminated", "escaped"}
  /\ ~destroyed
  /\ Unlocked
  /\ ipc = SC!Idle
  /\ cap = SC!CapIdle
  /\ A!Destroy
  /\ destroyed' = TRUE
  /\ UNCHANGED <<dsVars, scVars, snap, apending>>

Next ==
  \/ Run \/ StartFails \/ UpdateBegin \/ UpdateEnd \/ ConfigureDisplayClean \/ ChangerApply
  \/ UpdateThrows \/ HwcHotplug \/ CreateSession \/ CreateSessionThrows
  \/ CreateThrows \/ Created
  \/ EnableVirtualOutput \/ Notify \/ DestroySession \/ Capture \/ CaptureEnd
  \/ CaptureNotify \/ Stop \/ LoopExit \/ Destroy

Spec == Init /\ [][Next]_vars

-----------------------------------------------------------------------------
(* Properties                                                              *)

TypeOK ==
  /\ A!AndTypeOK
  /\ SC!ScTypeOK
  /\ snap \subseteq A!AConfs /\ Cardinality(snap) <= 1
  /\ apending \subseteq A!AConfs /\ Cardinality(apending) <= 1
  /\ destroyed \in BOOLEAN

\* Every notification handled, the changer's configuration applied, and
\* no screencast call in progress.
Settled ==
  /\ pc = "loop"
  /\ snap = {}
  /\ pipe = 0
  /\ apending = {}
  /\ ipc = SC!Idle
  /\ cap = SC!CapIdle

\* Once every hotplug notification has been handled and the display
\* changer has applied what it was given, the recorded configuration lists
\* the external display exactly when the HWC has one connected, and a
\* display buffer exists for it exactly then.  It rests on on_hotplug's
\* dirty flag surviving an IPC thread's configuration() call that consumes
\* it, on every pipe byte handing the changer the updated record, and on
\* configure_locked adding and removing the external display buffer before
\* a replugged display's new format makes it throw.
ExternalFollowsHwc ==
  Settled => /\ config.ext = hwcExt
             /\ extBuf = hwcExt

\* Once settled, the configuration lists a virtual output exactly while a
\* screencast session holds an enabled one.
VirtualOutputWhileNeeded ==
  Settled => (config.virt <=> \E i \in SessionIds : sessions[i] = "vo")

\* Once settled, a connected external panel recorded as on is on.
ExternalLitWhenRecorded ==
  Settled /\ config.ext /\ config.power["external"] = "on"
    => hwPower["external"] = "on"

\* Every virtual output a screencast session enabled is disabled once, when
\* the last reference to its context goes: while no create or destroy is
\* in progress, the virtual outputs enabled and not disabled are those of
\* the contexts the table holds with one, and of a context whose session
\* was destroyed while a capture held it.  It rests on session() handing
\* the capture a shared_ptr, so that destroy_session during a capture
\* leaves the context, and its disable, to the capture thread.
VirtualOutputsReleased ==
  ipc = SC!Idle =>
    vos = Cardinality({i \in SessionIds : sessions[i] = "vo"})
          + (IF cap.st = "capturing" /\ cap.orphan /\ cap.vo THEN 1 ELSE 0)

\* run() ends only through stop(): no exception from the display's work on
\* the main loop ends the server.
MainLoopSurvives == pc # "escaped"

\* Once the Display has been destroyed, no panel is left on.
PanelsOffAfterDestroy ==
  destroyed => \A p \in A!Panels : hwPower[p] = "off"

=============================================================================
