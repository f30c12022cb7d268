-------------------------------- MODULE X11Stack --------------------------------
(***************************************************************************)
(* mir::DisplayServer over the X11 display.  The display registers no      *)
(* handlers, so of DisplayServer only run(), stop() and the main loop take *)
(* part.  The display changer (not in the sources) applies configurations *)
(* clients ask for on the main loop: apply_if_configuration_preserves_    *)
(* display_buffers refuses, so it calls configure().  IPC threads call     *)
(* configuration() at any time, in the middle of configure() included.    *)
(***************************************************************************)
EXTENDS Naturals

CONSTANTS MaxCalls, Screens, Requests, Orientations, Scales, RedMasks

VARIABLES
  pc, comps, dispPaused, stopReq, stuck, status, calls,   \* DisplayServer
  screen, actual_size, orientation, scale, xconf, seen,   \* X11Display
  win, pf

dsVars == <<pc, comps, dispPaused, stopReq, stuck, status, calls>>
x11Vars == <<screen, actual_size, orientation, scale, xconf, seen, win, pf>>
vars == <<dsVars, x11Vars>>

DS == INSTANCE DisplayServer
X == INSTANCE X11Display

Init == DS!Init /\ X!Init

Run ==
  /\ DS!Run
  /\ UNCHANGED x11Vars

\* A component's start() throws inside run().
StartFails ==
  /\ DS!StartFails
  /\ UNCHANGED x11Vars

\* The display changer calls configure() with what a client asked for.
ConfigureBegin ==
  /\ pc = "loop"
  /\ \E c \in X!Outputs : X!ConfigureBegin(c)
  /\ UNCHANGED dsVars

ConfigureEnd ==
  /\ X!ConfigureEnd
  /\ UNCHANGED dsVars

\* Another thread calls display->configuration().
IpcConfiguration ==
  /\ pc \in {"created", "loop"}
  /\ X!Configuration
  /\ UNCHANGED dsVars

Stop ==
  /\ DS!Stop
  /\ UNCHANGED x11Vars

LoopExit ==
  /\ xconf = {}
  /\ DS!LoopExit
  /\ UNCHANGED x11Vars

Next ==
  \/ Run \/ StartFails \/ ConfigureBegin \/ ConfigureEnd \/ IpcConfiguration
  \/ Stop \/ LoopExit

Spec == Init /\ [][Next]_vars

-----------------------------------------------------------------------------
(* Properties                                                              *)

TypeOK == X!X11TypeOK

\* The window the constructor opens fits the host's screen with the
\* 150-pixel border clip_to_display keeps, in both dimensions, whatever
\* size was requested, and cannot be resized; every output configuration()
\* reports has the window's size and the pixel format of its visual.
WindowFitsScreen ==
  /\ win.size.w + X!Border <= screen.w
  /\ win.size.h + X!Border <= screen.h
  /\ ~win.resizable
  /\ \A o \in seen : o.size = win.size /\ o.format = X!PixelFormat(win.red_mask)

\* clip_to_display never makes the window larger than was requested, in
\* either dimension, for any request the options may make on this screen.
WindowNotEnlarged ==
  \A req \in Requests :
    LET s == X!ClipToDisplay(screen, req)
    IN s.w <= req.w /\ s.h <= req.h

=============================================================================
