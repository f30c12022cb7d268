------------------------------ MODULE X11Display ------------------------------
(***************************************************************************)
(* mir::graphics::X::Display (src/platforms/mesa/server/x11/graphics/      *)
(* display.cpp): one output, a window on the host X server, whose size is  *)
(* fixed in the constructor by clip_to_display, and the orientation and    *)
(* scale configure() records and configuration() reports.  configure()    *)
(* takes no lock: it writes orientation, then the display buffer's, then  *)
(* scale, and another thread's configuration() may run between the writes *)
(* (a data race: each field is read whole, the old or the new value).     *)
(* The window's physical size (from the host's pixel pitch) is left out.  *)
(* X11 registers no                                                        *)
(* configuration-change, pause or resume handler, creates no hardware      *)
(* cursor or virtual output, and its apply_if_configuration_preserves_    *)
(* display_buffers always refuses: those change nothing.                   *)
(***************************************************************************)
EXTENDS Integers

CONSTANTS
  Screens,       \* sizes [w, h] of the host's root window, each >= Border
  Requests,      \* window sizes the server's options may ask for
  Orientations,  \* MirOrientation values
  Scales,        \* output scales
  RedMasks       \* red masks of the visuals EGL's config may name

VARIABLES
  screen,       \* the host's root window size
  actual_size,  \* the window size chosen by the constructor
  orientation,  \* Display::orientation
  scale,        \* Display::scale
  xconf,        \* configure() between its two writes: {} or {the new output}
  seen,         \* the output the last configuration() call returned: {} or {o}
  win,          \* the X11Window the constructor made
  pf            \* Display::pf

x11Vars == <<screen, actual_size, orientation, scale, xconf, seen, win, pf>>

Border == 150

Outputs == [orientation : Orientations, scale : Scales]

\* Mutant: a request is clipped only when it is too large in both
\* dimensions.
ClipToDisplayBoth(scr, req) ==
  IF scr.w < req.w + Border /\ scr.h < req.h + Border
    THEN [w |-> scr.w - Border, h |-> scr.h - Border]
    ELSE req

\* clip_to_display: a request that does not fit the screen with a border
\* of 150 pixels, in either dimension, is replaced by the screen less the
\* border in both.  (The subtraction is unsigned; screens smaller than the
\* border are left out.)
ClipToDisplay(scr, req) ==
  IF scr.w < req.w + Border \/ scr.h < req.h + Border
    THEN [w |-> scr.w - Border, h |-> scr.h - Border]
    ELSE req

\* X11Window(size): the first visual matching the EGL config's native
\* visual id, a window of exactly that size on the root window with
\* minimum and maximum size hints equal to it (not resizable), mapped and
\* waited on until exposed; it keeps the visual's red mask.  (A config
\* without a visual throws, and no display, so no server, exists.)
X11Window(size, red_mask) ==
  [size |-> size, red_mask |-> red_mask, resizable |-> FALSE]

\* The pixel format the constructor takes from the window's red mask.
PixelFormat(red_mask) ==
  IF red_mask = 16711680 THEN "argb_8888" ELSE "abgr_8888"

\* The constructor: the window made at the clipped size, its pixel format,
\* scale 1 and the normal orientation.
Init ==
  /\ screen \in Screens
  /\ \E req \in Requests : actual_size = ClipToDisplay(screen, req)
  /\ \E m \in RedMasks : win = X11Window(actual_size, m)
  /\ pf = PixelFormat(win.red_mask)
  /\ orientation = "normal"
  /\ scale = 1
  /\ xconf = {}
  /\ seen = {}

\* configuration(): a DisplayConfiguration of the one output, built from
\* pf, actual_size, scale and orientation as they are read.
Configuration ==
  /\ seen' = {[format |-> pf, size |-> actual_size, orientation |-> orientation,
               scale |-> scale]}
  /\ UNCHANGED <<screen, actual_size, orientation, scale, xconf, win, pf>>

\* configure(c), up to the display buffer's set_orientation: c is valid (an
\* invalid one throws before any write), the orientation and scale of its
\* (one, so last) output taken, and orientation written.
ConfigureBegin(c) ==
  /\ xconf = {}
  /\ orientation' = c.orientation
  /\ xconf' = {c}
  /\ UNCHANGED <<screen, actual_size, scale, seen, win, pf>>

\* ... then scale written.
ConfigureEnd ==
  /\ \E c \in xconf : scale' = c.scale
  /\ xconf' = {}
  /\ UNCHANGED <<screen, actual_size, orientation, seen, win, pf>>

-----------------------------------------------------------------------------

X11TypeOK ==
  /\ screen \in Screens
  /\ actual_size \in [w : Nat, h : Nat]
  /\ orientation \in Orientations
  /\ scale \in Scales
  /\ xconf \subseteq Outputs
  /\ win \in [size : [w : Nat, h : Nat], red_mask : RedMasks, resizable : BOOLEAN]
  /\ pf \in {"argb_8888", "abgr_8888"}
  /\ seen \subseteq [format : {"argb_8888", "abgr_8888"}, size : [w : Nat, h : Nat],
                     orientation : Orientations, scale : Scales]

=============================================================================
