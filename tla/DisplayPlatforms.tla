---------------------------- MODULE DisplayPlatforms ----------------------------
(***************************************************************************)
(* The server with the graphics platform it loads at start-up: the Mesa    *)
(* KMS display (DisplayStack), the Android display (AndroidStack) or the   *)
(* X11 display (X11Stack).  The platform is chosen once, in Init; the      *)
(* variables of the other stacks keep fixed values and take no part.  All  *)
(* stacks share DisplayServer.                                             *)
(***************************************************************************)
EXTENDS Naturals

CONSTANTS Outputs, Formats, MaxHotplugs, MaxCalls, SessionIds, MaxScreencastOps,
          AnyPolicy, Screens, Requests, Orientations, Scales, RedMasks

VARIABLES
  platform,                                       \* "mesa-kms", "android" or "x11"
  pc, comps, dispPaused, stopReq, stuck, status, calls,
  kernel, udev, hotplugs, conf, dirty, master, cursor, dbs, crtc, ml, pending,
  hwcExt, hwcFmt, hwPower, config, configuration_dirty, pipe, extBuf,
  hwcHotplugs, sessions, ipc, scOps, cap, vos, snap, apending, destroyed,
  screen, actual_size, orientation, scale, xconf, seen, win, pf

dsVars == <<pc, comps, dispPaused, stopReq, stuck, status, calls>>
kmsVars == <<kernel, udev, hotplugs, conf, dirty, master, cursor, dbs, crtc, ml, pending>>
androidVars == <<hwcExt, hwcFmt, hwPower, config, configuration_dirty, pipe, extBuf,
                 hwcHotplugs, sessions, ipc, scOps, cap, vos, snap, apending, destroyed>>
x11Vars == <<screen, actual_size, orientation, scale, xconf, seen, win, pf>>
vars == <<platform, dsVars, kmsVars, androidVars, x11Vars>>

KS == INSTANCE DisplayStack
AS == INSTANCE AndroidStack
XS == INSTANCE X11Stack

\* The state of a stack whose platform was not loaded.
KmsUnloaded ==
  /\ kernel = {} /\ udev = FALSE /\ hotplugs = 0
  /\ conf = [conn |-> {}, used |-> {}] /\ dirty = FALSE /\ master = FALSE
  /\ cursor = "none" /\ dbs = {} /\ crtc = [o \in Outputs |-> "cleared"]
  /\ ml = "idle" /\ pending = {}

AndroidUnloaded ==
  /\ hwcExt = FALSE /\ hwcFmt = "none" /\ hwPower = [p \in AS!A!Panels |-> "off"]
  /\ config = [ext |-> FALSE, fmt |-> "none", power |-> hwPower, virt |-> FALSE]
  /\ configuration_dirty = FALSE /\ pipe = 0 /\ extBuf = FALSE /\ hwcHotplugs = 0
  /\ AS!SC!ScInit /\ snap = {} /\ apending = {} /\ destroyed = FALSE

X11Unloaded ==
  /\ screen = (CHOOSE s \in Screens : TRUE) /\ actual_size = [w |-> 0, h |-> 0]
  /\ orientation = "normal" /\ scale = 1 /\ xconf = {} /\ seen = {}
  /\ win = XS!X!X11Window(actual_size, (CHOOSE m \in RedMasks : TRUE))
  /\ pf = "argb_8888"

Init ==
  \/ platform = "mesa-kms" /\ KS!Init /\ AndroidUnloaded /\ X11Unloaded
  \/ platform = "android" /\ AS!Init /\ KmsUnloaded /\ X11Unloaded
  \/ platform = "x11" /\ XS!Init /\ KmsUnloaded /\ AndroidUnloaded

Next ==
  \/ platform = "mesa-kms" /\ KS!Next /\ UNCHANGED <<platform, androidVars, x11Vars>>
  \/ platform = "android" /\ AS!Next /\ UNCHANGED <<platform, kmsVars, x11Vars>>
  \/ platform = "x11" /\ XS!Next /\ UNCHANGED <<platform, kmsVars, androidVars>>

Spec == Init /\ [][Next]_vars

\* A step of the Mesa KMS stack.
KmsStep(A) == platform = "mesa-kms" /\ A /\ UNCHANGED <<platform, androidVars, x11Vars>>

\* The Mesa main loop keeps dispatching its fd handlers while it runs: a
\* readable udev monitor is handled, and so is the display changer's
\* configuration change that configure_display() queued to the main loop.
FairSpec ==
  /\ Spec
  /\ WF_vars(KmsStep(KS!ProcessEvents))
  /\ WF_vars(KmsStep(KS!ConfigureDisplay))
  /\ WF_vars(KmsStep(KS!ChangerApply))

-----------------------------------------------------------------------------
(* Properties: those of the loaded platform's stack.                      *)

TypeOK ==
  /\ platform \in {"mesa-kms", "android", "x11"}
  /\ KS!TypeOK
  /\ AS!TypeOK
  /\ XS!TypeOK

PauseAllOrNothing == KS!PauseAllOrNothing
ServerRefinesLifecycle == KS!ServerRefinesLifecycle
ScanoutFollowsKernel == platform = "mesa-kms" => KS!ScanoutFollowsKernel
CursorFollowsMaster == platform = "mesa-kms" => KS!CursorFollowsMaster
ExternalFollowsHwc == platform = "android" => AS!ExternalFollowsHwc
VirtualOutputWhileNeeded == platform = "android" => AS!VirtualOutputWhileNeeded
ExternalLitWhenRecorded == platform = "android" => AS!ExternalLitWhenRecorded
WindowFitsScreen == platform = "x11" => XS!WindowFitsScreen
WindowNotEnlarged == platform = "x11" => XS!WindowNotEnlarged
VirtualOutputsReleased == platform = "android" => AS!VirtualOutputsReleased
HotplugShown == platform = "mesa-kms" => KS!HotplugShown
MainLoopSurvives == platform = "android" => AS!MainLoopSurvives
PanelsOffAfterDestroy == platform = "android" => AS!PanelsOffAfterDestroy

=============================================================================
