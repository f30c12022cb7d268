------------------------------ MODULE KMSDisplay ------------------------------
(***************************************************************************)
(* mir::graphics::mesa::Display (src/platforms/mesa/server/kms/display.cpp) *)
(* : the DRM master it holds, the hardware cursor, the display buffers it  *)
(* scans out from, what each output's CRTC shows, and its cached copy of   *)
(* the kernel's configuration, refreshed on the next configuration() call  *)
(* once a udev event has marked it dirty.                                  *)
(*                                                                         *)
(* A configuration is abstracted to the outputs it lists as connected and  *)
(* the outputs it uses (lit, in a group of their own); modes, positions,   *)
(* orientation, gamma and power mode are left out.  The CRTC an output    *)
(* shows is "ours" (a display buffer of this Display drives it, or will   *)
(* on its next swap), "cleared", or "foreign" (set by whoever held the    *)
(* DRM master while this server did not, e.g. the session on another VT). *)
(* The kernel's connected outputs, the udev monitor and the other VT are  *)
(* the environment.  RealKMSDisplayConfiguration (update, valid,          *)
(* compatible) is not in the sources: update() takes the kernel's         *)
(* connected outputs and keeps the used ones still connected; a          *)
(* configuration is valid when it uses only connected outputs; two are    *)
(* compatible when they list and use the same outputs.                    *)
(***************************************************************************)
EXTENDS Naturals, FiniteSets

CONSTANTS
  Outputs,      \* connector ids
  MaxHotplugs,  \* outputs plugged in or unplugged
  AnyPolicy     \* the configuration policy may leave connected outputs unused

VARIABLES
  kernel,    \* the outputs the kernel reports connected
  udev,      \* a drm udev event waits on the monitor's fd
  hotplugs,  \* hotplug events so far
  conf,      \* current_display_configuration
  dirty,     \* dirty_configuration
  master,    \* this server is the DRM master
  cursor,    \* the hardware cursor: "none", "shown" or "suspended"
  dbs,       \* outputs driven by one of display_buffers
  crtc       \* output -> what its CRTC shows

kmsVars == <<kernel, udev, hotplugs, conf, dirty, master, cursor, dbs, crtc>>

Confs == [conn : SUBSET Outputs, used : SUBSET Outputs]

\* DisplayConfiguration::valid()
Valid(c) == c.used \subseteq c.conn

\* compatible(): the same display buffers would be built.
Compatible(a, b) == a.conn = b.conn /\ a.used = b.used

\* What the CRTCs show once display buffers drive the outputs of driven and
\* clear_connected_unused_outputs has run over configuration c.
Scanout(driven, c) ==
  [o \in Outputs |-> IF o \in driven THEN "ours"
                     ELSE IF o \in c.conn \ c.used THEN "cleared"
                     ELSE crtc[o]]

\* What the display configuration policy makes of the connected outputs
\* conn: Mir's default policies use every connected output.
PolicyUsed(conn) == IF AnyPolicy THEN SUBSET conn ELSE {conn}

Suspended(cur) == IF cur = "none" THEN "none" ELSE "suspended"
Resumed(cur) == IF cur = "none" THEN "none" ELSE "shown"

\* The constructor: graphics mode on the VT, the initial configuration
\* policy applied to the kernel's outputs, and configure() of it, which
\* treats the current configuration as incompatible with itself.
Init ==
  /\ kernel \in SUBSET Outputs
  /\ udev = FALSE
  /\ hotplugs = 0
  /\ \E used \in PolicyUsed(kernel) : conf = [conn |-> kernel, used |-> used]
  /\ dirty = FALSE
  /\ master = TRUE
  /\ cursor = "none"
  /\ dbs = conf.used
  /\ crtc = [o \in Outputs |-> IF o \in conf.used THEN "ours" ELSE "cleared"]

\* Mutant: the refresh keeps the outputs that have gone among the used ones.
RefreshedKeepsUsed ==
  IF dirty THEN [conn |-> kernel, used |-> conf.used] ELSE conf

\* configuration(): the copy it hands out, refreshed from the kernel when
\* dirty.
Refreshed ==
  IF dirty THEN [conn |-> kernel, used |-> conf.used \cap kernel] ELSE conf

Configuration ==
  /\ conf' = Refreshed
  /\ dirty' = FALSE
  /\ UNCHANGED <<kernel, udev, hotplugs, master, cursor, dbs, crtc>>

\* configure_locked: an incompatible configuration gets new display
\* buffers for its used outputs, and the connected outputs it leaves
\* unused are cleared; a compatible one only moves the outputs.
ConfigureLocked(c) ==
  LET comp == Compatible(c, conf)
  IN /\ conf' = c
     /\ dbs' = IF comp THEN dbs ELSE c.used
     /\ crtc' = IF comp THEN crtc ELSE Scanout(c.used, c)

\* configure(): rejects an invalid configuration, applies it under the
\* lock, and resumes the cursor.
Configure(c) ==
  /\ Valid(c)
  /\ ConfigureLocked(c)
  /\ cursor' = Resumed(cursor)
  /\ UNCHANGED <<kernel, udev, hotplugs, dirty, master>>

\* apply_if_configuration_preserves_display_buffers(c), when it returns
\* true: under the lock, c is compatible with the current configuration
\* and configure_locked(c) runs; unlike configure() it neither checks c
\* nor resumes the cursor.  Otherwise it returns false and changes nothing.
ApplyIf(c) ==
  /\ Compatible(conf, c)
  /\ ConfigureLocked(c)
  /\ UNCHANGED <<kernel, udev, hotplugs, dirty, master, cursor>>

\* Mutant: the fd handler does not mark the configuration dirty.
ProcessEventsNoDirty ==
  /\ udev
  /\ udev' = FALSE
  /\ UNCHANGED <<kernel, hotplugs, conf, dirty, master, cursor, dbs, crtc>>

\* The monitor's fd handler: for each udev event, mark the configuration
\* dirty (without configuration_mutex) and call the change handler, which
\* the caller models as the next step.
ProcessEvents ==
  /\ udev
  /\ udev' = FALSE
  /\ dirty' = TRUE
  /\ UNCHANGED <<kernel, hotplugs, conf, master, cursor, dbs, crtc>>

\* pause(): the cursor is suspended, then the DRM master dropped; when
\* drop_master throws the failure is reported and rethrown.
Pause(dropped) ==
  /\ cursor' = Suspended(cursor)
  /\ master' = (master /\ ~dropped)
  /\ UNCHANGED <<kernel, udev, hotplugs, conf, dirty, dbs, crtc>>

\* Mutant: resume() does not reset the CRTCs or clear the unused outputs.
ResumeNoReset ==
  /\ master' = TRUE
  /\ cursor' = Resumed(cursor)
  /\ UNCHANGED <<kernel, udev, hotplugs, conf, dirty, dbs, crtc>>

\* resume(): the DRM master is taken back (set_master throwing leaves
\* everything as it was), every display buffer schedules a CRTC reset,
\* the connected unused outputs are cleared and the cursor resumed.
Resume ==
  /\ master' = TRUE
  /\ crtc' = Scanout(dbs, conf)
  /\ cursor' = Resumed(cursor)
  /\ UNCHANGED <<kernel, udev, hotplugs, conf, dirty, dbs>>

\* resume() followed by pause(), as the resume handler's reverter does.
ResumeThenPause(dropped) ==
  /\ master' = ~dropped
  /\ crtc' = Scanout(dbs, conf)
  /\ cursor' = Suspended(cursor)
  /\ UNCHANGED <<kernel, udev, hotplugs, conf, dirty, dbs>>

\* create_hardware_cursor: no cursor is alive, so one is made; making it
\* may throw, and then there is none (the software cursor is used).
CreateHardwareCursor ==
  /\ cursor = "none"
  /\ cursor' \in {"none", "shown"}
  /\ UNCHANGED <<kernel, udev, hotplugs, conf, dirty, master, dbs, crtc>>

(* The environment *)

\* An output is plugged in or unplugged; the kernel queues a udev event.
\* The connector keeps whatever CRTC setting it had.
Hotplug(o) ==
  /\ hotplugs < MaxHotplugs
  /\ hotplugs' = hotplugs + 1
  /\ kernel' = IF o \in kernel THEN kernel \ {o} ELSE kernel \cup {o}
  /\ udev' = TRUE
  /\ UNCHANGED <<conf, dirty, master, cursor, dbs, crtc>>

\* While this server is not the DRM master, the master of the moment sets
\* the CRTC of a connected output.
ForeignModeset(o) ==
  /\ ~master
  /\ o \in kernel
  /\ crtc[o] # "foreign"
  /\ crtc' = [crtc EXCEPT ![o] = "foreign"]
  /\ UNCHANGED <<kernel, udev, hotplugs, conf, dirty, master, cursor, dbs>>

-----------------------------------------------------------------------------

TypeOK ==
  /\ kernel \subseteq Outputs
  /\ udev \in BOOLEAN
  /\ hotplugs \in 0..MaxHotplugs
  /\ conf \in {c \in Confs : Valid(c)}
  /\ dirty \in BOOLEAN
  /\ master \in BOOLEAN
  /\ cursor \in {"none", "shown", "suspended"}
  /\ dbs \subseteq Outputs
  /\ crtc \in [Outputs -> {"ours", "cleared", "foreign"}]

=============================================================================
