------------------------------ MODULE DisplayStack ------------------------------
(***************************************************************************)
(* mir::DisplayServer over the Mesa KMS display.  The display's handlers   *)
(* run on the server's main loop, one at a time: the VT's pause and resume *)
(* requests call DisplayServer's pause() and resume(), whose display step  *)
(* is Display::pause() or resume(), and the udev monitor's fd handler      *)
(* marks the configuration dirty and calls configure_display(), which     *)
(* takes display->configuration() and hands it to the display changer.    *)
(* Other threads (IPC, e.g. CompositingScreencast::create_session asking   *)
(* whether a capture region needs a virtual output) call configuration()  *)
(* at any time, between the two steps of the fd handler included.          *)
(*                                                                         *)
(* The display changer (MediatingDisplayChanger, not in the sources) is    *)
(* the environment: it keeps the last hardware configuration it was given *)
(* and, on the main loop while display configuration processing is not    *)
(* paused, applies the configuration its policy derives from it through  *)
(* Display::configure().                                                   *)
(***************************************************************************)
EXTENDS Naturals, Sequences, FiniteSets

CONSTANTS Outputs, MaxHotplugs, AnyPolicy, MaxCalls

VARIABLES
  pc, comps, dispPaused, stopReq, stuck, status, calls,          \* DisplayServer
  kernel, udev, hotplugs, conf, dirty, master, cursor, dbs, crtc, \* KMSDisplay
  ml,       \* the main loop: "idle", or "hotplug" between the fd handler's steps
  pending   \* the hardware configuration the display changer holds: {} or {c}

dsVars == <<pc, comps, dispPaused, stopReq, stuck, status, calls>>
kmsVars == <<kernel, udev, hotplugs, conf, dirty, master, cursor, dbs, crtc>>
vars == <<dsVars, kmsVars, ml, pending>>

DS == INSTANCE DisplayServer
K == INSTANCE KMSDisplay

Init ==
  /\ DS!Init
  /\ K!Init
  /\ ml = "idle"
  /\ pending = {}

\* The display's part of a pause handler ending as o: pause() is its last
\* call, made when every earlier one succeeded.
PauseDisplay(o) ==
  IF o.fail = 0 THEN K!Pause(TRUE)
  ELSE IF o.fail = Len(DS!PauseSteps) THEN K!Pause(FALSE)
  ELSE UNCHANGED kmsVars

\* The display's part of a resume handler ending as o: resume() is its
\* first call; when a later call throws, the reverter calls pause(), unless
\* an earlier reverter has thrown (std::terminate).
ResumeDisplay(o) ==
  IF o.fail = 1 THEN UNCHANGED kmsVars
  ELSE IF o.fail = 0 \/ o.rfail > 1 THEN K!Resume
  ELSE K!ResumeThenPause(o.rfail = 0)

\* The server's configuration creates the hardware cursor before run().
CreateCursor ==
  /\ pc = "created"
  /\ K!CreateHardwareCursor
  /\ UNCHANGED <<dsVars, ml, pending>>

Run ==
  /\ DS!Run
  /\ UNCHANGED <<kmsVars, ml, pending>>

\* A component's start() throws inside run().
StartFails ==
  /\ DS!StartFails
  /\ UNCHANGED <<kmsVars, ml, pending>>

Pause ==
  /\ ml = "idle"
  /\ \E o \in DS!Outcomes(DS!PauseSteps, DS!PauseGuarded) :
       DS!PauseWith(o) /\ PauseDisplay(o)
  /\ UNCHANGED <<ml, pending>>

Resume ==
  /\ ml = "idle"
  /\ \E o \in DS!Outcomes(DS!ResumeSteps, DS!ResumeGuarded) :
       DS!ResumeWith(o) /\ ResumeDisplay(o)
  /\ UNCHANGED <<ml, pending>>

\* The monitor's fd handler, first step: the configuration is marked dirty.
ProcessEvents ==
  /\ pc = "loop"
  /\ ml = "idle"
  /\ K!ProcessEvents
  /\ ml' = "hotplug"
  /\ UNCHANGED <<dsVars, pending>>

\* configure_display(): display->configuration() is handed to the display
\* changer's configure_for_hardware_change.
ConfigureDisplay ==
  /\ ml = "hotplug"
  /\ K!Configuration
  /\ pending' = {K!Refreshed}
  /\ ml' = "idle"
  /\ UNCHANGED dsVars

\* Another thread calls display->configuration().
IpcConfiguration ==
  /\ pc \in {"created", "loop"}
  /\ K!Configuration
  /\ UNCHANGED <<dsVars, ml, pending>>

\* The display changer applies what its policy makes of the configuration
\* it holds (environment), through configure(), or first through
\* apply_if_configuration_preserves_display_buffers, falling back to
\* configure() when that refuses.
ChangerApply ==
  /\ pc = "loop"
  /\ ml = "idle"
  /\ comps["display_config"]
  /\ \E p \in pending :
       \E used \in K!PolicyUsed(p.conn) :
         LET c == [conn |-> p.conn, used |-> used]
         IN K!Configure(c) \/ K!ApplyIf(c)
  /\ pending' = {}
  /\ UNCHANGED <<dsVars, ml>>

Hotplug ==
  /\ pc \in {"created", "loop"}
  /\ \E o \in Outputs : K!Hotplug(o)
  /\ UNCHANGED <<dsVars, ml, pending>>

ForeignModeset ==
  /\ \E o \in Outputs : K!ForeignModeset(o)
  /\ UNCHANGED <<dsVars, ml, pending>>

Stop ==
  /\ DS!Stop
  /\ UNCHANGED <<kmsVars, ml, pending>>

LoopExit ==
  /\ ml = "idle"
  /\ DS!LoopExit
  /\ UNCHANGED <<kmsVars, ml, pending>>

Next ==
  \/ CreateCursor \/ Run \/ StartFails \/ Pause \/ Resume \/ ProcessEvents
  \/ ConfigureDisplay \/ IpcConfiguration \/ ChangerApply \/ Hotplug
  \/ ForeignModeset \/ Stop \/ LoopExit

Spec == Init /\ [][Next]_vars

-----------------------------------------------------------------------------
(* Properties                                                              *)

TypeOK ==
  /\ K!TypeOK
  /\ ml \in {"idle", "hotplug"}
  /\ pending \subseteq {c \in K!Confs : K!Valid(c)}
  /\ Cardinality(pending) <= 1

\* The CRTCs show the stored configuration of the kernel's outputs.
ScannedOut ==
  /\ conf.conn = kernel
  /\ \A o \in kernel : crtc[o] = IF o \in conf.used THEN "ours" ELSE "cleared"

PauseAllOrNothing == DS!PauseAllOrNothing
ServerRefinesLifecycle == DS!ServerRefinesLifecycle

\* Once the main loop has handled every udev event and the display changer
\* has applied what it was given, a server holding the DRM master knows
\* the kernel's outputs and scans out exactly its configuration: each used
\* output is driven by a display buffer, each other connected output is
\* cleared, and none still shows what another VT's session set while the
\* server was paused.  This rests on configuration()'s dirty refresh
\* surviving other threads' calls, on resume() resetting the CRTCs, and on
\* configure_locked clearing the outputs it leaves unused.
ScanoutFollowsKernel ==
  (pc = "loop" /\ ml = "idle" /\ ~udev /\ pending = {} /\ master)
    => ScannedOut

\* A hotplug the server has been told of (a udev event waiting while it
\* runs its main loop as the DRM master) is eventually scanned out: the
\* monitor's fd handler, configure_display() and the display changer's
\* configure() all run, so the configuration lists the kernel's outputs
\* and each connected output is driven or cleared as it says.  Only
\* losing the master to a VT switch, or leaving the main loop, excuses it.
HotplugShown ==
  (pc = "loop" /\ master /\ udev) ~> (pc # "loop" \/ ~master \/ ScannedOut)

\* Between handlers, the hardware cursor is suspended exactly while the
\* server does not hold the DRM master: pause() suspends it and resume()
\* and configure() bring it back.
CursorFollowsMaster ==
  (pc = "loop" /\ ml = "idle" /\ cursor # "none")
    => (cursor = "suspended" <=> ~master)

=============================================================================
