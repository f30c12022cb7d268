---------------------------- MODULE AndroidDisplay ----------------------------
(***************************************************************************)
(* mir::graphics::android::Display (src/platforms/android/server/          *)
(* display.cpp): the configuration it records of the primary, external and *)
(* virtual outputs, configuration_dirty, the display-change pipe, whether  *)
(* a display buffer exists for the external display, and the power mode    *)
(* the hardware composer (HWC) has put each panel in.                      *)
(*                                                                         *)
(* An output is abstracted to whether it is connected, the external        *)
(* display's pixel format, and its power mode; orientation, position,     *)
(* scale and form factor are copied through and left out.  The HWC (which *)
(* display is connected, with what format, and the panels' power) is the  *)
(* environment: a newly connected external panel is off until powered on. *)
(* mga::DisplayConfiguration is not in the sources: it lists the primary,  *)
(* the external and the virtual output, in that order, and its virtual    *)
(* output is one slot that set_virtual_output_to fills and                 *)
(* disable_virtual_output empties.                                         *)
(***************************************************************************)
EXTENDS Naturals

CONSTANTS
  Formats,      \* pixel formats an external display may come with
  MaxHotplugs   \* HWC hotplug events

VARIABLES
  hwcExt,               \* the HWC reports the external display connected
  hwcFmt,               \* its format, "none" when disconnected
  hwPower,              \* panel -> the power mode the HWC has set
  config,               \* the configuration the Display records
  configuration_dirty,  \* set by on_hotplug, cleared by update_configuration
  pipe,                 \* bytes written to display_change_pipe and not read
  extBuf,               \* displays.display_present(external)
  hwcHotplugs           \* hotplug events so far

andVars == <<hwcExt, hwcFmt, hwPower, config, configuration_dirty, pipe,
             extBuf, hwcHotplugs>>

Panels == {"primary", "external"}
Modes == {"on", "off"}
AConfs == [ext : BOOLEAN, fmt : Formats \cup {"none"}, power : [Panels -> Modes],
           virt : BOOLEAN]

\* The constructor: config from the HWC's active configurations, both
\* panels recorded off; set_powermode_all_displays turns on the primary and
\* a connected external one, ignoring a failure (some drivers report an
\* error although the panel is on; the record then stays off); a display
\* buffer is made for a connected external display.
Init ==
  /\ hwcExt \in BOOLEAN
  /\ hwcFmt \in IF hwcExt THEN Formats ELSE {"none"}
  /\ hwPower = [p \in Panels |-> IF p = "primary" \/ hwcExt THEN "on" ELSE "off"]
  /\ \E recorded \in [Panels -> Modes] :
       /\ \A p \in Panels : recorded[p] = "on" => hwPower[p] = "on"
       /\ config = [ext |-> hwcExt, fmt |-> hwcFmt, power |-> recorded, virt |-> FALSE]
  /\ configuration_dirty = FALSE
  /\ pipe = 0
  /\ extBuf = hwcExt
  /\ hwcHotplugs = 0

\* DisplayChangePipe::notify_change: one byte written to the non-blocking
\* pipe (its capacity is far above the hotplugs modelled).
NotifyChange == pipe' = pipe + 1

\* DisplayChangePipe::ack_change: one byte read; the main loop calls it
\* only when the pipe is readable, so the read does not fail.
AckChange ==
  /\ pipe > 0
  /\ pipe' = pipe - 1

\* on_hotplug: under configuration_mutex, mark the configuration dirty and
\* write a byte to the display-change pipe.
OnHotplug ==
  /\ configuration_dirty' = TRUE
  /\ NotifyChange

\* update_configuration of a dirty configuration: power_mode(external, on)
\* on the recorded external output when the HWC reports one connected (the
\* HWC is called only when the record is not already on), else the record
\* set off; then config rebuilt from the HWC's configurations, keeping the
\* power modes recorded and the virtual output `virt` read from config.
Updated(virt) ==
  [ext |-> hwcExt, fmt |-> hwcFmt, virt |-> virt,
   power |-> [config.power EXCEPT !["external"] = IF hwcExt THEN "on" ELSE "off"]]

UpdatedPower ==
  IF hwcExt /\ config.power["external"] # "on"
    THEN [hwPower EXCEPT !["external"] = "on"]
    ELSE hwPower

\* update_configuration of a dirty configuration when power_mode's HWC call
\* throws (power_mode, unlike power_mode_safe, lets it through): the panel
\* may or may not have changed, and the record, config and the dirty flag
\* are left as they were; the lock is released as the exception leaves.
UpdateThrows ==
  /\ configuration_dirty
  /\ hwcExt
  /\ config.power["external"] # "on"
  /\ \E m \in Modes : hwPower' = [hwPower EXCEPT !["external"] = m]
  /\ UNCHANGED <<hwcExt, hwcFmt, config, configuration_dirty, pipe, extBuf, hwcHotplugs>>

\* configuration(): update_configuration under the lock, then a copy.
Configuration ==
  /\ config' = IF configuration_dirty THEN Updated(config.virt) ELSE config
  /\ hwPower' = IF configuration_dirty THEN UpdatedPower ELSE hwPower
  /\ configuration_dirty' = FALSE
  /\ UNCHANGED <<hwcExt, hwcFmt, pipe, extBuf, hwcHotplugs>>

\* The outputs configure_locked(c) applies: all of them, or, when the
\* external output's format differs from the record (a display replugged
\* since c was taken), only the primary before the throw.
Applied(c) ==
  IF c.fmt = config.fmt
    THEN {"primary"} \cup (IF config.ext THEN {"external"} ELSE {})
    ELSE {"primary"}

\* power_mode(name, ..., c.power[name]) for each applied panel: the HWC is
\* called when the record differs, and the record set.
PowerApplied(c) ==
  /\ config' = [config EXCEPT !.power = [p \in Panels |->
                  IF p \in Applied(c) THEN c.power[p] ELSE @[p]]]
  /\ hwPower' = [p \in Panels |->
                  IF p \in Applied(c) /\ config.power[p] # c.power[p]
                    THEN c.power[p] ELSE hwPower[p]]

\* Mutant: the display buffer of an external display that has gone is kept.
ConfigureKeepsExternal(c) ==
  /\ extBuf' = (extBuf \/ config.ext)
  /\ PowerApplied(c)
  /\ UNCHANGED <<hwcExt, hwcFmt, configuration_dirty, pipe, hwcHotplugs>>

\* configure() / configure_locked(c): the external display buffer is added
\* or removed to match the recorded config (not c); then the outputs of c
\* are applied in order (a differing format throws), the power mode of
\* the primary, and of the external when recorded connected, through
\* power_mode.
Configure(c) ==
  /\ extBuf' = config.ext
  /\ PowerApplied(c)
  /\ UNCHANGED <<hwcExt, hwcFmt, configuration_dirty, pipe, hwcHotplugs>>

\* apply_if_configuration_preserves_display_buffers(c), when it returns
\* true: under the lock, no external display has been recorded connected
\* without a display buffer, and configure_locked(c) runs.  Otherwise it
\* returns false and changes nothing.
ApplyIf(c) ==
  /\ ~config.ext \/ extBuf
  /\ Configure(c)

\* set_powermode_all_displays(mode): power_mode_safe on the primary and,
\* when recorded connected, the external panel.  A panel whose record
\* differs from mode is asked to change; when the HWC call throws the
\* exception is swallowed and the record kept, the panel having changed
\* or not (failed, lit).
SetPowermodeAllDisplays(mode) ==
  LET P == {"primary"} \cup (IF config.ext THEN {"external"} ELSE {})
      Asked == {p \in P : config.power[p] # mode}
  IN \E failed \in SUBSET Asked : \E changed \in SUBSET failed :
       /\ config' = [config EXCEPT !.power = [p \in Panels |->
                       IF p \in Asked \ failed THEN mode ELSE @[p]]]
       /\ hwPower' = [p \in Panels |->
                       IF p \in (Asked \ failed) \cup changed THEN mode ELSE hwPower[p]]

\* ~Display(): every panel powered off.
Destroy ==
  /\ SetPowermodeAllDisplays("off")
  /\ UNCHANGED <<hwcExt, hwcFmt, configuration_dirty, pipe, extBuf, hwcHotplugs>>

\* The enable and disable functions of create_virtual_output, first line:
\* config.set_virtual_output_to / disable_virtual_output, written without
\* configuration_mutex.
SetVirtualOutput(on) ==
  /\ config' = [config EXCEPT !.virt = on]
  /\ UNCHANGED <<hwcExt, hwcFmt, hwPower, configuration_dirty, pipe, extBuf, hwcHotplugs>>

(* The environment *)

\* The external display is plugged in (with some format, its panel off) or
\* unplugged, and the HWC's hotplug callback calls on_hotplug.
HwcHotplug ==
  /\ hwcHotplugs < MaxHotplugs
  /\ hwcHotplugs' = hwcHotplugs + 1
  /\ hwcExt' = ~hwcExt
  /\ hwcFmt' \in IF hwcExt THEN {"none"} ELSE Formats
  /\ hwPower' = [hwPower EXCEPT !["external"] = "off"]
  /\ OnHotplug
  /\ UNCHANGED <<config, extBuf>>

-----------------------------------------------------------------------------

AndTypeOK ==
  /\ hwcExt \in BOOLEAN
  /\ hwcFmt \in Formats \cup {"none"}
  /\ hwPower \in [Panels -> Modes]
  /\ config \in AConfs
  /\ configuration_dirty \in BOOLEAN
  /\ pipe \in Nat
  /\ extBuf \in BOOLEAN
  /\ hwcHotplugs \in 0..MaxHotplugs

=============================================================================
