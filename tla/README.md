# TLA+ models of Mir's input transport and server components

This directory holds TLA+ specifications of parts of the Mir display server
sources under `src/`, with the TLC configurations that check them.
`PROJECT.json` is the machine-readable index. It lists:

- the components;
- the runs and what each one checks;
- the mutants that show each property can fail;
- the map from every definition to the source lines it models;
- the findings;
- the hazards.

## 1. Inventory of the system

| Part | Source | State | Operations | Interacts with |
|---|---|---|---|---|
| InputMessage / InputChannel | `3rd_party/android-input/.../InputTransport.cpp` 61-207 | a non-blocking socket pair (one direction per endpoint) | `isValid`, `size`, `sendMessage`, `receiveMessage` | publisher and consumer |
| InputPublisher (server side) | same file, 209-367 | the channel | `publishKeyEvent`, `publishEventBuffer`, `publishMotionEvent`, `receiveFinishedSignal` | the server's input sender; the consumer through the channel |
| InputConsumer (client side) | same file, 369-986 | `mMsg`, `mMsgDeferred`, `mBatches`, `mSeqChains`, `mTouchStates` | `consume` (loop), `consumeBatch`, `consumeSamples`, `sendFinishedSignal`, `updateTouchState`, `rewriteMessage`, `resampleTouchState`, `findBatch`, `canAddSample`, `findSampleNoLaterThan` | the client's input receiver (`android_input_receiver.h`) that calls consume and sends finished signals |
| BufferMap | `src/server/compositor/buffer_map.cpp` | map id -> (buffer, owner) under a mutex, a weak sink | `add_buffer`, `remove_buffer`, `send_buffer`, `receive_buffer`, `operator[]` | the IPC buffer sink, the compositor's buffer streams |
| DefaultInputDeviceHub | `src/server/input/default_input_device_hub.cpp` | registered devices, device handles, observers, `ready` flag | `add_device`, `remove_device`, `add_observer`, `remove_observer`, handle add/remove | input platforms (callers), observers through an action queue, the seat |
| AbstractShell | `src/server/shell/abstract_shell.cpp` | focused session and surface, focus mutex | `open_session`, `close_session`, `focus_next_session`, `set_focus_to`, surface operations | session coordinator, window manager, seat |
| DisplayServer | `src/server/display_server.cpp` | paused flag, components | `run`, `stop`, `pause`, `resume` with rollback | compositor, communicator, input manager |
| CompositingScreencast | `src/server/compositor/compositing_screencast.cpp` | session contexts by id under `session_mutex` | `create_session`, `destroy_session`, `capture` | the display (`configuration()`, `create_virtual_output`), the scene, buffer allocation |
| Android display | `src/platforms/android/server/display.cpp` | the recorded configuration (primary, external, virtual output, power modes), `configuration_dirty`, the display-change pipe, the external display buffer, under `configuration_mutex` | constructor, `on_hotplug`, `update_configuration`, `configuration`, `configure`, `configure_locked`, the pipe's fd handler, `create_virtual_output` | the HWC (hotplug callback, power modes), `DisplayServer`'s main loop, the display changer, the screencast's IPC thread |
| Nested input platform | `src/server/graphics/nested/input_platform.cpp` | devices mirrored from the host, events of devices not yet advertised, an action queue | `start`, `stop`, the config and event callbacks, `update_devices` | the host connection (whose configs and events come from the host's hub), the nested server's input device registry |
| Mesa KMS display | `src/platforms/mesa/server/kms/display.cpp` | DRM master, hardware cursor, display buffers, CRTCs, the cached configuration and its dirty flag, under `configuration_mutex` | constructor, `configuration`, `configure`, `configure_locked`, the udev fd handler, `pause`, `resume`, `create_hardware_cursor` | the kernel (connectors, udev), the VT, `DisplayServer`'s handlers, the display changer, IPC threads |
| X11 display | `src/platforms/mesa/server/x11/graphics/display.cpp`, `display_configuration.cpp` | the window on the host X server and its size, the pixel format, orientation and scale, with no lock | constructor (`clip_to_display`, `X11Window`), `configuration`, `configure`, `apply_if_configuration_preserves_display_buffers` | the host X server, `DisplayServer`'s main loop, the display changer, IPC threads |
| Other platforms, EGL, client libraries, examples | `src/platforms/...`, `src/client/...`, `examples/` | driver and kernel state | display configuration, buffers, fences | the hardware |

### Hard behaviours

The input transport connects two processes: the publisher in the server and
the consumer in the client. They share a socket whose buffer is small. The
hard behaviours are these:

- **Batching and deferral.** The consumer reads one message per iteration of
  its `consume` loop, while the publisher keeps writing. A motion that does
  not fit its device's batch flushes that batch as one event and is deferred
  to the next call.
- **Chains of finished signals.** An event built from several coalesced
  samples owes one finished signal per sample. These are recorded as
  `mSeqChains` entries. `sendFinishedSignal` walks the entries newest to
  oldest, sends the signals oldest first, and stops at the first failed send
  (a full socket gives `WOULD_BLOCK`, a closed peer `DEAD_OBJECT`). It then
  pushes the unsent entries back.
- **Error paths.** A NULL from the event factory ends the call with
  `NO_MEMORY`. `DEAD_OBJECT` and `BAD_VALUE` from `receiveMessage` go
  through `consumeBatch`.
- **Caller obligations.** A deferred message and held batches are processed
  only when the caller calls `consume` again.

Elsewhere:

- `BufferMap::send_buffer` drops the mutex before calling the sink, which
  races with `remove_buffer`.
- The device hub starts a device at once, but it hands the device to
  observers and to clients through a queue that the main loop runs later.
- A nested server learns of the host's devices through config messages.
  Their events come on another path, so an event can arrive before the
  config that lists its device.
- The shell moves focus under `focus_mutex`, but `modify_surface` and the
  focused surface's observer read the focus and set the seat's pointer
  confinement in two steps. The observer's read does not take the mutex at
  all. The focused surface is held by a weak pointer, which goes null when
  the surface object is freed.
- `DisplayServer` pauses and resumes seven components one call at a time.
  Any call can throw, and the earlier calls are then undone by scope guards,
  latest first. A reverter that throws while unwinding ends the process. A
  flag works around a GCC bug that would otherwise make the guards revert a
  call that succeeded.
- The Mesa KMS display loses the DRM master on a VT switch. While it is
  away, another session may set the CRTCs and outputs may be plugged in or
  out. A udev event marks the cached configuration dirty without the lock.
  The next `configuration()` call, from the main loop or from any IPC
  thread, refreshes it in place. `resume()` resets the CRTCs against the
  configuration as it was before the refresh.
- Mir loads one graphics platform. The Android display hears of hotplugs on
  the HWC's callback thread. It marks its configuration dirty and writes a
  byte to a pipe that the main loop reads. The configuration is rebuilt by
  whichever thread calls `configuration()` first, the main loop or the
  screencast's IPC thread. A screencast whose capture region lies off every
  display enables a virtual output. The enable function writes the
  configuration without the lock.

### What each component should guarantee

For the transport:

- every published event is acknowledged exactly once;
- the signals of one event go oldest first, with the event's own seq last;
- each device's samples reach the client in order;
- a dead peer is reported as dead;
- every event is eventually acknowledged.

For BufferMap, a buffer is never sent after it was removed, and its owner
follows the send/receive protocol. For the hub:

- each observer sees every device added once and removed at most once after
  that;
- the handle list matches the registered devices.

For the nested input platform:

- an event that arrives early is replayed when its device is added;
- each device's events keep their order;
- the nested registry comes to hold the host's devices.

For the shell:

- while the focused surface exists, it alone is marked focused, observed
  and targeted for input, and it belongs to the focused session;
- `focus_next_session` finds a surface whenever an open session has one;
- the pointer is confined only to the focused surface, and only when that
  surface asks for it.

For the display server, a pause or resume either takes every component
with it or, when it fails, leaves every component as it was. The status
listener hears exactly the changes that happened. For the KMS display,
once events are handled, a server holding the DRM master shows exactly the
kernel's outputs. Each used output is driven by its own display buffer,
every other connected output is cleared, and nothing another session set
is left on screen. The hardware cursor is hidden only while another
session owns the display.
For the Android display, once every notification is handled:

- the recorded configuration and the display buffers list the external
  display exactly when the HWC has one;
- the configuration lists a virtual output exactly while a screencast
  session holds one;
- a connected panel recorded as on is on.

## 2. Modules

| Module | Models |
|---|---|
| `InputChannel.tla` | `InputMessage::isValid` and the status codes of `InputChannel::sendMessage`/`receiveMessage` on one direction of the socket, which is a sequence of at most `Capacity` messages. |
| `InputTransport.tla` | Publisher, channel and consumer together, plus the client loop that calls `consume` and `sendFinishedSignal`. |
| `TouchState.tla` | The per-device touch state of the consumer: `updateTouchState` (every action case), `rewriteMessage`, `resampleTouchState` (interpolation, extrapolation with its prediction clamp, the minimum delta) and `shouldResampleTool`, as operators over exact rational coordinates. |
| `BufferMap.tla` | `mir::compositor::BufferMap`: the id -> (buffer, owner) map under its mutex and the calls it makes on the frontend's `BufferSink`, with threads interleaving at `send_buffer`'s unlock. |
| `MCBufferMap.tla` | Model values and thread/id symmetry for `BufferMap`. |
| `FinishAcks.tla` | The abstract promise about finished signals: each handed-out event owes a sequence of signals; they are sent in order, each once, possibly across several attempts. |
| `MCInputTransport.tla` | Model values, layouts, device symmetry and a view for TLC. |
| `DefaultInputDeviceHub.tla` | `mir::input::DefaultInputDeviceHub`: the device list changed by the platform, and the handles, observers, config messages and status calls changed by the closures of `observer_queue`. |
| `NestedInputPlatform.tla` | `mir::graphics::nested::InputPlatform` composed with a host `DefaultInputDeviceHub` (an `INSTANCE`) whose config messages and device events feed its callbacks. |
| `MCNestedInputPlatform.tla` | Model values for `NestedInputPlatform` and its host hub. The hub's properties are checked through this composite: `NestedInputPlatform.tla` restates them from its `INSTANCE`. |
| `AbstractShell.tla` | `mir::shell::AbstractShell`: sessions and surfaces as the window manager adds and removes them, and the focus that `set_focus_to`, `focus_next_session`, `modify_surface` and the focus observer keep on the surfaces, the input targeter, the seat and the session coordinator. |
| `ServerLifecycle.tla` | The abstract life of the server: created, running, paused or resumed as a whole, then stopped or aborted, with the status listener's calls. |
| `DisplayServer.tla` | `mir::DisplayServer`: `run`, `stop`, and the pause and resume handlers with their reverters, refined to `ServerLifecycle`. |
| `KMSDisplay.tla` | `mir::graphics::mesa::Display`: the DRM master, the hardware cursor, the display buffers, what each CRTC shows, and the cached configuration with its dirty flag. The kernel's outputs and the other VT's session are its environment. |
| `DisplayStack.tla` | `DisplayServer` and `KMSDisplay` composed (two `INSTANCE`s sharing variables). The handlers run on the main loop, IPC threads call `configuration()` at any time, and the display changer applies its policy to the configuration it was handed. |
| `AndroidDisplay.tla` | `mir::graphics::android::Display`: the recorded configuration (external display connected, its format, the power modes, the virtual output), `configuration_dirty`, the unread pipe bytes and the external display buffer. The HWC's connected display and panel power are its environment. |
| `CompositingScreencast.tla` | `mir::compositor::CompositingScreencast`'s session table. `create_session`, `destroy_session` and `capture`, with the capture thread that may hold a context past its destruction. The calls are parameterised by the display's actions, which the composing module passes in. |
| `AndroidStack.tla` | `DisplayServer`, `AndroidDisplay` and `CompositingScreencast` composed. The main loop handles the pipe with `update_configuration` split at its read of `config.virt()`. The IPC thread runs the screencast calls, a capture thread captures, and the HWC plugs and unplugs. `update_configuration`'s power-on may throw out of the fd handler or out of `make_virtual_output`. |
| `X11Display.tla` | `mir::graphics::X::Display`: the host's screen, the window the constructor opens (size clipped to the screen, visual's red mask, not resizable), the pixel format, and the orientation and scale `configure()` writes without a lock. |
| `X11Stack.tla` | `DisplayServer` and `X11Display` composed: the display changer's `configure()` on the main loop, and IPC threads' `configuration()` between its writes. |
| `DisplayPlatforms.tla` | The server over whichever platform it loaded: `DisplayStack`, `AndroidStack` or `X11Stack`, chosen in `Init`. The other stacks' variables stay at fixed values. |
| `MCDisplayPlatforms.tla` | Model values: two KMS outputs, two external-display formats, two host screens, two requested window sizes, two orientations, two scales and two visuals' red masks. |
| `MCAbstractShell.tla` | Model values for `AbstractShell`: two sessions, three surfaces, one calling thread. |

### How `InputTransport.tla` corresponds to the code

Publisher state is `nextSeq`, `now`, `closed` and `finished`. Consumer state
is `mMsg`, `mMsgDeferred`, `mBatches` and `mSeqChains`, as in the class.

A message keeps only what the transport branches on:

- type, seq and device;
- action;
- pointer layout, which `canAddSample` compares slot by slot;
- `eventTime`.

- the acting pointer (`aid`) of `POINTER_DOWN`/`POINTER_UP`;
- one coordinate per pointer (the X axis; Y goes through the same code).

Coordinates are exact rationals `<<numerator, denominator>>` standing in for
`float`, so a division by a zero time delta shows up as a zero denominator.
The publisher gives every motion the X position `XOf(seq)`: a fixed value in
the transport runs, `4 * seq` in the touch run, so that every sample is at a
new place and a rewrite or a stale resample is visible.

The consumer's `mTouchStates` is a function from device to touch state
(`hist`, the last two samples newest first; `last`, the time and per-pointer
coordinates of the last resample). `updateTouchState` is applied inside the
action that consumes a motion: `ConsumeMotion` for a motion on its own, and
`ConsumeSamples` (a fold over the consumed prefix) when a batch becomes an
event. `ConsumeBatch` with a frame time calls `resampleTouchState` on the
event it built, with the batch's next sample as the future anchor, as the
code does at 544-552. The `History`/`TouchState` methods (`initialize`,
`addHistory`, `initializeFrom`) live in `InputTransport.h`, which is not in
the sources; they are written from spec.md and marked so in the map.

`consume` is a loop whose iterations interleave with the publisher. The call
itself is `Consume(cb, ft)`, which sets `cpc = "loop"`. Each iteration is one
of six actions, each covering one branch of the `switch`:

| Action | Lines | What happens |
|---|---|---|
| `ReceiveFailed` | 413-427 | the receive fails |
| `ConsumeImmediate` | 430-456 | a key or buffer event |
| `AppendToBatch` | 459-468 | the motion joins its device's batch |
| `FlushBatchAndDefer` | 469-485 | the batch is flushed and the motion deferred |
| `StartBatch` | 488-500 | a new batch is opened |
| `ConsumeMotion` | 502-513 | a motion on its own |

Every return goes through `Return`, which puts `cpc` back to `"idle"` and
records the handed-out event. The client then owes a finished signal for the
event's seq (`outstanding`).

The helpers below are operators:

- `consumeBatch` and `consumeSamples`;
- `findBatch`, `canAddSample` and `findSampleNoLaterThan`;
- the chain walk `ResolveChain` (recursive) and its rebuild `RebuildChain`.

`FinishEvent(s)` is one whole call of `sendFinishedSignal`. The number of
sends that succeed is `SendsAccepted`, which matches the code's loop that
stops at the first failure.

The factory returning NULL is a nondeterministic choice, enabled by
`FactoryMayFail`. The publisher closing its end is enabled by `PeerMayClose`.

The refinement mapping to `FinishAcks` is:

- `owed` is each outstanding event's chain followed back through `mSeqChains`
  (`OwedAcks`);
- `acked` is what the publisher has read, followed by what is still in the
  socket (`Wire`).

### How `BufferMap.tla` corresponds to the code

`buffers` is the `std::map`, an id mapped to `[buf, owner]`. The sink is
`sinkLog`, the sequence of calls it has received (`add`, `error`,
`remove`, `update`). A call on the sink goes through `Notify`, which does
nothing once the weak pointer has expired (`SinkExpire`).

`remove_buffer` and `receive_buffer` hold the mutex for their whole body,
the sink call included, and so are one atomic action each: `RemoveBuffer`,
`ReceiveBuffer`.
The exception is `send_buffer`, which unlocks at line 80 before calling the
sink. It is two actions of its thread. `SendLocked` finds the id, gives the
buffer to the client and copies the reference. `SendNotify` later calls
`update_buffer` with that copy. `pc` and `held` record a thread between
the two.

`add_buffer` stores the entry first and then calls the sink, under the
lock (`AddBuffer`). When `SinkMayThrow` holds, the sink's `add_buffer` may
throw. The lock belongs to the `try` block, so it is released as the
exception leaves it. The catch then sends `error_buffer` without the lock
and rethrows (`AddError`, with the thread at `pc = "error"` in between).
The entry stays in the map, and another thread's `remove_buffer` or
`send_buffer` can run between the two steps. Buffer
ids are allocated once, so `add_buffer` never sees an id twice (`added`).
`operator[]` changes nothing and is left out.

### How `DefaultInputDeviceHub.tla` corresponds to the code

`add_device` and `remove_device` run on the platform's thread:

- `AddDevice` registers the device under the next id. `RegisteredDevice::start`
  gives the device a seat, so it may send events (`HandleInput`) from then on.
- `RemoveDevice` stops the device and erases it.
- Both queue a closure on `observer_queue` (`oq`).
- `add_observer` and `remove_observer` also only queue a closure.

The main loop runs the closures in order. Each one holds `observer_guard`
for its whole body and is one action:

- `AddDeviceHandle` is `add_device_handle`.
- `RemoveDeviceHandle` is `remove_device_handle`, with its early return for
  an unknown id.
- `AddObserverClosure` and `RemoveObserverClosure` are the closures of
  `add_observer` and `remove_observer`.

The list of handles and the `MirInputConfig` hold the same ids, so they are
one set, `handles`. Each config sent to the frontend's `EventSink` is
appended to `sinkConfigs`. The `ServerStatusListener` calls go to `status`.
`views` is each observer's own record of what it was told:
`device_added` adds an id and `device_removed` takes it away.
`changes_complete` carries no data and is left out. Each observer object is
added at most once, and removed at most once after that.

### How `NestedInputPlatform.tla` corresponds to the code

The host side is `H == INSTANCE DefaultInputDeviceHub`. Its `sinkConfigs`
are the config messages the nested server's connection receives. Its
`events` are the input events the host seat sends to the nested server,
which has focus. The two arrive independently, each in order:

- `cfgRead` counts how many configs the config callback has been handed.
- `evRead` counts the same for the event callback.
- `evFrom` marks where the event callback's stream begins.

Every callback holds `devices_guard` and is one action:

- `ConfigChange` stores the config and queues `update_devices` (`aq` counts
  the queued closures).
- `InputEvent` emits an event of a known device to its destination. It
  stores the event of an unknown one in `unknown`.
- `UpdateDevices` runs a queued closure. It applies `UpdateDevicesLocked` to
  the latest stored config: removed devices leave the registry, new ones
  join it, and the stored events of the new devices are replayed. Then
  every stored event is cleared.
- `start()` is three steps. `Start` is its locked block: it fetches the
  host's current config and applies it. Then `devices_guard` is released.
  `SetConfigCallback` sets the config callback, and `SetEventCallback`
  sets the event callback. A config the host sends between `Start` and
  `SetConfigCallback` reaches no callback and is lost; `cfgLost` records
  it. Events sent before `SetEventCallback` are skipped in the same way
  (`evFrom`).
- `Stop` resets the callbacks and removes every device. It leaves queued
  closures on `action_queue`.

The nested registry is the set of ids the platform registered
(`ndevices`). Events that reach a registered device are appended to
`delivered`. The `input_device_state` branch of the event callback only
forwards key and button state, and is left out.

### How `AbstractShell.tla` corresponds to the code

The shell's collaborators are kept as the state they hold:

- `ring` is the session coordinator's list of open sessions, in opening order;
- `live` and `gone` are the surfaces the window manager has added and removed;
- `focused` and `observed` are the surfaces whose focus attribute is set, and those
  carrying `focus_surface_observer`;
- `target` is the input targeter's focus;
- `region` is the seat's confinement, named by the surface whose input bounds it holds;
- `coordFocus` is the session coordinator's focus.

`focusSession` and `focusSurface` are the two weak pointers. `Lock` is
`weak_ptr::lock()`: it gives no surface once the surface's object is in
`freed`. `FreeSurface` drops the last reference to a removed surface. It is
an environment step, because the shell does not decide when that happens.

The actions are:

- `SetFocusToLocked` is `set_focus_to_locked`, line by line. It runs only
  when the new surface differs from the locked current one:
  - reset the seat;
  - unfocus the old surface and remove its observer;
  - confine, target, focus and observe the new surface.
  Then it gives a new session to the coordinator.
- `SetFocusTo` takes the window manager's argument: a live surface with its
  owner, or nothing.
- `FocusNextSession` walks the sessions from the successor of the focused
  one until it comes round. It takes the first session with a default
  surface, which is its surface with the lowest id. A focused session that
  is already closed makes `successor_of` throw, so the action is disabled
  there.
- `modify_surface`'s `confine_pointer` branch is two steps:
  - `ModifyConfine`: the window manager applies the state, then
    `focused_surface() == surface` is checked under the mutex;
  - `ModifyApply`: the seat is set from the surface's state at that moment.
- The observer callback is two steps as well: `SurfaceMoved` locks
  `focus_surface` without the mutex, and `ConfineApply` sets the seat.
- `CloseSession` removes the session's surfaces and closes the session. It
  leaves focus alone, as the code does.

### How `DisplayServer.tla` corresponds to the code

`comps` records whether each component is started. For the display this
means active, and for the display changer it means config processing is
not paused.

`PauseSteps` and `ResumeSteps` list the calls of `pause()` and `resume()`
in code order. `PauseGuarded` and `ResumeGuarded` mark the ones wrapped by
`try_but_revert_if_unwinding`, which is every call but the last.

`Handler` is one whole handler call. It chooses the call that throws (or
none) and, for a caught `runtime_error`, a reverter that throws in turn (or
none). `Outcome` then computes the components as the code leaves them:

- the calls before the one that threw are applied;
- reverters run, latest first, down to the one that threw, which ends the
  process (`terminated`);
- any exception other than `runtime_error` leaves `run()` (`escaped`).

The `stuck` variable is GCC bug 62258: after a caught exception,
`std::uncaught_exception()` may stay true. The guards then call their
reverters on a normal return as well. `ReallyUnwindingCleared` is the
`really_unwinding = false` line that makes those calls do nothing.

The display calls the pause handler while it is active, and the resume
handler once a pause has succeeded. `stop()` may come at any time. The main
loop returns after the current handler, and `run()` then stops what it
started (`LoopExit`).

`RunStartFails(k)` is the `start()` of the k-th component throwing inside
`run()` (lines 208-212). Nothing reverts the components started before
it. The listener, told only after the last start, hears nothing, and the
exception leaves `run()` (`escaped`). What the throwing `start()` itself
left running is up to the component, so the model allows either.
`ServerLifecycle` has a matching `StartFails` step from `created` to
`aborted`.

`Mode` maps the state onto `ServerLifecycle`. It reads the mode from the
components themselves: paused when every component the handlers touch is
stopped.

### How `KMSDisplay.tla` and `DisplayStack.tla` correspond to the code

A configuration is a record of two sets: the outputs it lists as connected
(`conn`) and the ones it uses (`used`). Modes, positions, power mode and
gamma are left out. `crtc[o]` is what output `o` shows:

- `"ours"`: a display buffer of this `Display` drives it, or will after its
  scheduled `set_crtc`;
- `"cleared"`: `clear_crtc` ran on it;
- `"foreign"`: another session set it while this server did not hold the
  DRM master.

The display's actions translate these functions:

- **`Configuration`** is `configuration()`. When `dirty` is set it calls
  `update()` on `current_display_configuration` in place (line 140) and
  clears the flag, all under `configuration_mutex`.
- **`ConfigureLocked`** is `configure_locked`. A configuration compatible
  with the stored one keeps the display buffers. Any other gets new buffers
  for its used outputs and clears the connected unused outputs (`Scanout`,
  lines 279-299).
- **`Configure`** is `configure()`: it checks `valid()`, applies the
  configuration under the lock, then resumes the cursor.
- **`Pause`** is `pause()`: it suspends the cursor, then drops the master.
  The argument says whether `drop_master` succeeded.
- **`Resume`** is `resume()`. It takes the master back, schedules a CRTC
  reset for every display buffer, clears the connected unused outputs of the
  stored configuration, and resumes the cursor.
- **`ProcessEvents`** is the monitor's fd handler. It sets
  `dirty_configuration` without the lock (line 177); the change handler that
  follows is `DisplayStack`'s `ConfigureDisplay`.

`RealKMSDisplayConfiguration` is not in the sources. Its `update()` is
taken to list the kernel's connected outputs and keep the used outputs
still connected. `valid()` is taken to mean only connected outputs are used,
and `compatible()` to mean the same outputs are listed and used. Under that
reading, `apply_if_configuration_preserves_display_buffers` (lines 316-327)
is `ApplyIf`: when the configuration is compatible with the stored one it
runs `configure_locked` under the lock (without resuming the cursor), and
otherwise it refuses and changes nothing.

`DisplayStack` adds the following:

- **`PauseDisplay` and `ResumeDisplay`.** These give the display's part of
  each handler outcome that `DisplayServer`'s `Outcomes` enumerates.
  - `display->pause()` is pause's last call, made only when every earlier
    call succeeded.
  - `display->resume()` is resume's first call. Its reverter calls
    `pause()` when a later call throws, unless an earlier reverter threw.
- **`ml`.** This marks the main loop as being between the fd handler's two
  steps. `IpcConfiguration`, which stands for
  `CompositingScreencast::create_session` via `make_virtual_output`, can
  come in between.
- **`pending`.** This is the hardware configuration the display changer was
  handed (`MediatingDisplayChanger`, not in the sources). `ChangerApply`
  applies the policy's configuration of it while config processing is not
  paused, through `configure()` or, when it succeeds, through
  `apply_if_configuration_preserves_display_buffers`. Mir's default policies use every connected output, so
  `AnyPolicy = FALSE`. `TRUE` lets the policy leave connected outputs unused.

### How `AndroidDisplay.tla`, `CompositingScreencast.tla` and `AndroidStack.tla` correspond to the code

An Android configuration is a record with these fields:

- `ext`: whether the external display is connected;
- `fmt`: its pixel format;
- `power`: the recorded power mode of each panel;
- `virt`: whether the virtual output is set.

Positions, orientation, scale and form factor are copied through
unchanged, so they are left out. `hwPower` is what the HWC has actually
done to each panel. `extBuf` is `displays.display_present(external)`.
`pipe` counts the bytes written to the display-change pipe and not yet
read.

The display's definitions translate these functions:

- **`Init`** is the constructor. It records both panels off, then
  `set_powermode_all_displays` powers on the primary and a connected
  external panel. A failure there is ignored (some drivers report one
  although the panel is on), so the record may stay off. A display buffer
  is made for a connected external display.
- **`NotifyChange` and `AckChange`** are `DisplayChangePipe`'s write and
  read of one byte (lines 60-71).
- **`OnHotplug`** is `on_hotplug`: the dirty flag and one pipe byte.
- **`Updated` and `UpdatedPower`** are `update_configuration` (lines
  213-231). `power_mode` (lines 79-90) calls the HWC only when the record
  differs from the intended mode.
- **`Configuration`** is `configuration()`.
- **`Configure`** is `configure_locked`. The external display buffer is
  added or removed to match the recorded config. Then `for_each_output`
  applies each output of the new configuration in order (`Applied`,
  `PowerApplied`). An output whose format differs from the record throws
  (line 396), after the primary was applied and before the external.
- **`ApplyIf`** is `apply_if_configuration_preserves_display_buffers`: it
  refuses while an external display is recorded without a display buffer,
  and otherwise runs `configure_locked`.
- **`SetPowermodeAllDisplays` and `Destroy`** are
  `set_powermode_all_displays` and the destructor, which powers every
  recorded panel off. `power_mode_safe` swallows a failing HWC call, so a
  panel may be left lit with its record kept.
- **`SetVirtualOutput`** is the enable or disable function's write to
  `config` (lines 326 and 331). It takes no lock.

`mga::DisplayConfiguration` and `mga::VirtualOutput` are not in the
sources. The model takes the following of them:

- the configuration lists the primary, the external and the virtual
  output, in that order;
- it has one virtual-output slot;
- a virtual output runs its enable function when enabled, and its disable
  function when it is destroyed after being enabled.

The HWC is the environment. `HwcHotplug` toggles the external display,
gives a newly connected one either format with its panel off, and calls
`on_hotplug`.

A screencast session is one of these:

- `"free"`: no entry;
- `"null"`: an entry left by a throwing construction;
- `"live"`: a context without a virtual output;
- `"vo"`: a context that enabled a virtual output.

`session_mutex` is held to the end of each call, so one IPC thread (`ipc`)
stands for all of them. Its steps are these:

- **`CreateSession`** is `create_session` up to `make_virtual_output`,
  which calls `configuration()` and `needs_virtual_output` on the region.
  The region is primary, external or off every display.
- **`CreateThrows`** is a buffer allocation throwing in the context's
  constructor. Before C++17 the evaluation order of
  `session_contexts[id] = create_session_context(...)` is unspecified, so
  the model chooses whether `operator[]` left a null entry.
- **`Created`** stores a context that needs no virtual output.
- **`EnableVirtualOutput`** and **`Notify`** are `virtual_output->enable()`:
  the unlocked write, then `on_hotplug`. The context is stored after them.
- **`CreateSessionThrows`** is `configuration()` throwing inside
  `make_virtual_output` (through `update_configuration`'s `power_mode`,
  below). As in `CreateThrows`, a null entry may be left.
- **`DestroySession`** erases the entry. The destroyed context's virtual
  output runs its disable function. If a capture holds the context
  (`Held`), erasing it only drops the table's reference, and the capture
  (`cap.orphan`) now owns the last one.
- **`Capture`**, **`CaptureEnd`** and **`CaptureNotify`** are the capture
  thread (`cap`). `capture(id)` copies the context's `shared_ptr` under
  `session_mutex` (line 188) and captures after releasing it. When the
  capture ends and the table no longer holds the context, it is destroyed
  there. Its virtual output's disable writes `config` (`CaptureEnd`), then
  calls `on_hotplug` (`CaptureNotify`). `vos` counts the virtual outputs
  enabled and not yet disabled.

`AndroidStack` runs these on three threads:

- the IPC thread;
- the HWC's callback thread (`HwcHotplug`);
- the main loop.

The main loop's fd handler is `UpdateBegin` and `UpdateEnd` when the
configuration is dirty. `UpdateBegin` powers the panel and builds the new
config from `config.virt()`. `UpdateEnd` assigns it, hands it to the
display changer and reads the pipe byte. `UpdateThrows` is
`update_configuration`'s `power_mode` (line 219) throwing when the HWC
reports an error on a newly plugged panel. Unlike the constructor and the
destructor, it does not use `power_mode_safe`. The exception leaves the fd
handler before `ack_change` and leaves `main_loop->run()`
(`DisplayServer`'s `HandlerEscapes`, `pc = "escaped"`). `ConfigureDisplayClean`
is the same fd handler when an IPC thread's `configuration()` has already
cleaned the flag. Its `update_configuration` then finds
`configuration_dirty` false (line 215) and changes nothing. The handler
hands the record on and reads the byte, as on the dirty path. `snap` holds the
main loop's half-built config, and while it is non-empty
`configuration_mutex` is held. Every action that takes the lock waits for
it, except the virtual output's write. The display changer
(`ChangerApply`) applies its policy's configuration through `configure()`
or `apply_if_configuration_preserves_display_buffers`. Mir's default
policies power every output on (`AnyPolicy = FALSE`). `Destroy` is the
display's destructor, once the main loop has ended and no screencast call
is in progress; HWC hotplugs stop then.
`pause()` and `resume()` of this display do nothing, and it registers no
pause or resume handler, so the server's pause and resume do not take part.

### How `X11Display.tla` and `X11Stack.tla` correspond to the code

- **`ClipToDisplay`** is `clip_to_display` (lines 43-65). A request that
  does not fit the screen with a 150-pixel border in either dimension is
  replaced by the screen less the border in both.
- **`X11Window`** is the `X11Window` constructor (lines 108-206): a window
  of exactly the clipped size, whose size hints make it unresizable, on the
  first visual of the EGL config, whose red mask it keeps. Its failures
  throw before any display exists.
- **`PixelFormat`** is the constructor's choice of `argb_8888` for a red
  mask of `0xFF0000` and `abgr_8888` otherwise (lines 256-260).
- **`Init`** is the rest of the constructor: scale 1, normal orientation.
- **`Configuration`** is `configuration()`: one output built from `pf`,
  `actual_size`, `scale` and `orientation` as it reads them (`seen`).
- **`ConfigureBegin` and `ConfigureEnd`** are `configure()`, split between
  its write of `orientation` and its write of `scale`, since it takes no
  lock.

`X11Stack` runs `DisplayServer` with this display. X11 registers no
configuration-change, pause or resume handler and its
`apply_if_configuration_preserves_display_buffers` always refuses, so the
display changer applies configurations through `configure()` on the main
loop, and IPC threads call `configuration()` at any time.

`DisplayPlatforms` picks `"mesa-kms"`, `"android"` or `"x11"` in `Init`.
The stacks that were not loaded keep fixed values, so the state space is
the sum of the three stacks, not their product. Each property is that of
the loaded stack.

## 3. Runs

All runs use:

- `Capacity = 1`, so the socket is full after one message and every partial
  send failure of a two-signal chain happens;
- `MAX_POINTERS = 2`;
- `RESAMPLE_LATENCY = 1`;
- layouts `<<p1>>` and `<<p1, p2>>`, so `canAddSample` can fail;
- the actions `MOVE`, which is batched, and `UP`, which is not.

The three transport runs that pass publish only key events, not raw buffers
(`KeyTypes = {"Key"}`). `consume` builds both at once, in the same branch
and with the same status handling, so the second type would only double the
states. The violation runs keep both.

| Run | Config | Bounds | Checks | Result |
|---|---|---|---|---|
| `transport_safety` | `MCInputTransport.cfg` | 2 devices (symmetric), 3 seqs, clock 0..1, publisher may close | `TypeOK`, `AcksConserved`, `DeviceOrder` | pass, about 510k distinct states |
| `finish_acks` | `MCInputTransportAcks.cfg` | 1 device, 1 layout, 3 seqs, clock 0..1, publisher may close | `FinishAcksRefined`, `AllFinished` | pass, about 78k distinct states |
| `buffer_map_safety` | `MCBufferMap.cfg` | 2 threads, 2 buffers (both symmetric), 2 sends, sink may throw and expire | `TypeOK`, `SinkLifecycle` | pass |
| `buffer_map_race` | `MCBufferMapRace.cfg` | 2 threads, no throw | `UpdateOnlyAnnounced` | violated |
| `nested_input_safety` | `MCNestedInputPlatform.cfg` | 2 host devices, 2 ids, 2 events, 1 host observer | `TypeOK`, `DeliveredInOrder`, `RegistryFollowsHost`, `HandlesLagDevices`, `ObserversSeeHandles`, `StatusFollowsHandles`, `RegistryConverges`, `DevicesReachObservers` | pass, about 540k distinct states, about 3m |
| `nested_early_events` | `MCNestedInputPlatformEarly.cfg` | 2 host devices, 2 ids, 1 event | `EarlyEventsKept` | violated |
| `touch_resampling` | `MCInputTransportTouch.cfg` | 1 touch device, layouts `<<p1>>`/`<<p1,p2>>`, actions DOWN, MOVE, POINTER_DOWN/UP, UP, 3 seqs, clock 0..2, frame times up to 4, `RESAMPLE_MIN_DELTA = RESAMPLE_MAX_PREDICTION = 2` | `NoBackwardJump`, `ResampleNotBeforeSamples`, `ResampledCoordsFinite` | pass, about 1.8M distinct states |
| `display_platforms` | `MCDisplayPlatforms.cfg` | any of three platforms. KMS: 2 outputs, 2 hotplugs, 3 pause/resume calls each failing at any call or not. Android: 2 HWC hotplugs, 2 formats, 2 session ids, 4 screencast calls. X11: screens 1920x1080 and 1024x768, requests 1280x720 and 800x1000, 2 orientations, 2 scales, RGB and BGR visuals. The default policy | `TypeOK`, `PauseAllOrNothing`, `ScanoutFollowsKernel`, `ExternalFollowsHwc`, `WindowFitsScreen`, `VirtualOutputsReleased`, `ServerRefinesLifecycle`, `HotplugShown` (under `FairSpec`) | pass, about 865k distinct states, about 2m |
| `kms_cursor_after_failed_pause` | `MCDisplayPlatformsCursor.cfg` | same | `CursorFollowsMaster` | violated |
| `android_virtual_output_lost` | `MCDisplayPlatformsVirtual.cfg` | same | `VirtualOutputWhileNeeded` | violated |
| `shell_focus` | `MCAbstractShell.cfg` | 2 sessions, 3 surfaces (2 in one session), 1 thread | `TypeOK`, `FocusConsistent`, `NextSessionFindsSurface` | pass, about 97k distinct states |
| `shell_confine_race` | `MCAbstractShellConfine.cfg` | same | `ConfinementFollowsFocus` | violated |

The passing runs show the following:

- **`AcksConserved`.** At every state, each published seq is in exactly one
  place: the socket, the deferred message, a batch, a chain entry, the
  client's outstanding set, or the acknowledged signals.
- **`DeviceOrder`.** Motion samples of one device are handed to the client in
  publication order.
- **`FinishAcksRefined`.** The chain machinery implements `FinishAcks`.
- **`AllFinished`.** Under the fairness below, every published event is
  eventually acknowledged, unless the channel closes.
- **`NoBackwardJump`.** Once the client has been shown a resampled position
  of a finger at time T, a later sample of the same gesture stamped before T
  shows the same position, not the older raw one. This rests on
  `updateTouchState`'s rewrite and on the order of rewrite and id removal for
  `POINTER_UP`.
- **`ResampleNotBeforeSamples`.** The samples of every event are in time
  order. A resampled sample is never stamped before the real samples it
  extends. This needs the split at `frameTime - RESAMPLE_LATENCY` and the
  prediction clamp together.
- **`ResampledCoordsFinite`.** No resampling divides by a zero time delta,
  including when two samples share a timestamp.

- **`SinkLifecycle`.** The sink hears of a buffer first through `add`. It
  hears of each of `add`, `error` and `remove` at most once for that id.
  This holds although `error_buffer` runs after the lock is released and
  a `remove_buffer` may come first. It depends on `remove_buffer`'s checked
  find and on `send_buffer`'s `find` (the `SendLockedUnchecked` mutant
  breaks it). What may follow a removal or an error is a separate question
  (`UpdateOnlyAnnounced`, below).

- **`HandlesLagDevices`.** Start from the hub's handles and replay the
  queued closures over them. The result is the registered devices. So the
  handles lag the device list by exactly the queue.
- **`ObserversSeeHandles`.** Every observer in the list knows exactly the
  devices that have handles. This holds whatever the order of
  registrations, plugs and unplugs. It needs the `add_observer` closure's
  snapshot under the lock.
- **`StatusFollowsHandles`.** `ready` holds exactly while there is a
  handle. The status listener's calls alternate `ready` and `stop`.
- **`DevicesReachObservers`.** A registered device reaches the handles
  unless it is removed first.
- **`DeliveredInOrder`.** Each device's events reach the nested registry in
  the order the host sent them. Stored events are replayed before later
  ones pass straight through.
- **`RegistryFollowsHost`.** Once the nested side has taken in every config
  and run every queued update, its registry equals the host's handles.
  The one exception is `LastConfigLost`: the host's last config was sent in
  `start()`'s window between the locked fetch and the config callback. So
  that window is the only way the two registries can stay apart. The
  exception is real: TLC reaches it in six states, in which the host plugs
  a device in the window and the nested registry stays empty.
- **`RegistryConverges`.** Once the host stops changing, the nested
  registry comes to equal the host's handles and stays so while the
  platform runs, with the same exception.
- **`FocusConsistent`.** This holds while the focused surface's object
  exists:
  - it belongs to the focused session;
  - the coordinator has that session;
  - no other existing surface is marked focused, carries the focus observer
    or is the input targeter's focus.
  It holds whatever the order of session, surface and focus calls.
- **`PauseAllOrNothing`.** In the main loop, every component the handlers
  touch is stopped exactly while the display is paused. This holds even
  after a call that failed part way and was unwound.
- **`ServerRefinesLifecycle`.** `DisplayServer` implements
  `ServerLifecycle`. The listener hears `started`, `paused` and `resumed`
  exactly when the components go that way. A failed call changes nothing.
  Breaking it takes a caught exception followed by a successful call, and
  needs `really_unwinding` to work. A server whose start fails part way is
  never announced as started: the `RunStartFailsAnnounced` mutant, which
  tells the listener first, breaks it.
- **`ScanoutFollowsKernel`.** Take a main loop with no udev event waiting
  and a display changer with nothing pending. A server holding the DRM
  master then knows the kernel's outputs: every used output shows a
  display buffer of its own and every other connected output is cleared.
  This holds through hotplugs while paused, another session's modesets and
  IPC threads refreshing the configuration between the fd handler's two
  steps. It needs `resume()` to reset the CRTCs (the `ResumeNoReset`
  mutant breaks it).
- **`ExternalFollowsHwc`.** Take the Android main loop with no pipe byte
  unread, nothing pending at the display changer and no screencast call in
  progress. The recorded configuration then lists the external display
  exactly when the HWC has one connected, and a display buffer exists for
  it exactly then. This holds through replugs with another format, which
  make `configure_locked` throw part way. It also holds when an IPC
  thread's `configuration()` consumes the dirty flag before the main loop
  reads the byte. It needs `configure_locked` to add and remove the
  buffer before the throw (the `ConfigureKeepsExternal` mutant breaks it).
- **`VirtualOutputsReleased`.** With no screencast call in progress, the
  virtual outputs enabled and not yet disabled are exactly those of the
  table's contexts that enabled one, plus the one of a context that a
  capture still holds after `destroy_session` erased it. So every enabled
  virtual output is disabled exactly once, by whichever thread drops the
  last reference. This includes a session id reused while the old
  context is still held. The `DestroySessionEager` mutant, which disables
  under the capture, breaks it.
- **`HotplugShown`.** A hotplug the KMS server has been told of (a udev
  event waiting while it runs its main loop as the DRM master) is
  eventually scanned out. The configuration then lists the kernel's
  outputs, and each connected output is driven or cleared as it says.
  Only a VT switch that takes the master, or the end of the main loop,
  excuses it. The monitor's fd handler, `configure_display()`, the display
  changer and `configure_locked` all have to run, and an IPC thread's
  `configuration()` between them must not lose the refresh. The
  `ProcessEventsNoDirty` mutant, whose fd handler does not mark the
  configuration dirty, breaks it.
- **`WindowFitsScreen`.** The X11 window fits the host's screen with the
  150-pixel border in both dimensions, for every request, and cannot be
  resized. Every output `configuration()` reports, also while `configure()`
  is half done, has the window's size and the pixel format of its visual.
  The `ClipToDisplayBoth` mutant, which clips only a request too large in
  both dimensions, breaks it.
- **`NextSessionFindsSurface`.** `focus_next_session` puts focus on a live
  surface whenever an open session has one. Its walk must come round the
  end of the list.

The BufferMap, hub, nested, shell and display-server runs set
`CHECK_DEADLOCK FALSE`. The display server ends once `run()` returns, and
the Android stack also rests once its hotplugs and screencast calls run
out. The map is a passive object,
and it rests once its callers stop, here once the ids and sends run out.
The hub and the nested platform rest in the same way, once the bounded
device and observer calls are done. The shell rests once every session
is opened and closed and every surface freed.

For the display server, three handler calls allow a pause that fails and
is caught, then a pause that succeeds while `uncaught_exception()` is stuck,
then a resume. A call may fail at each of its seven component calls.

For the Android display, two hotplugs give an unplug and a replug, which
the dirty flag may coalesce into one update. They also give a replug with
the other format, which makes `configure_locked` throw. Two session ids and
four screencast calls allow two sessions that each enable the virtual
output, followed by destroying one of them. They also allow a construction
that throws and leaves a null entry, after which the next session takes
the other id. The fourth call is needed to create a session under an id
whose destroyed context a capture still holds (create, capture, destroy,
create).

For the X11 display, the 1280x720 request fits the large screen and not
the small one, and the 800x1000 request is too tall for both and too wide
for neither, so every branch of `clip_to_display` is taken, the one that
changes only one dimension's excess included. Two orientations and two
scales let a `configuration()` between `configure()`'s writes see a new
orientation with the old scale.

For the shell, two sessions give `focus_next_session` a walk that wraps
round. Two surfaces in one session make the default surface change when
the first is removed. One calling thread is enough to interleave a
two-step `modify_surface` or observer callback with any number of focus
changes, which the window manager makes atomically under `focus_mutex`.

The hub and the nested platform are checked together. Two ids allow either
of these:

- a device unplugged and plugged again, so the config goes `{1}`, `{}`, `{2}`;
- two devices at once.

One host observer is registered and removed at any point among these calls.
The two events allow two early events of one device, or one early event and
one live one.

A third id, or a second observer, takes the composite past seven million
states.

The transport runs use the view `StateView`. It hides the stale `mMsg` and
the coordinates of delivered events, which none of their properties read.
The touch run uses `TouchView` instead. It drops the finished-signal state
(`finished`, `toPublisher`, `mSeqChains`, `outstanding`), which neither the
publisher's sends nor the consume loop ever read.

Why the bounds are enough:

- Three seqs allow a batch of two samples followed by a third that flushes or
  defers.
- They also allow a chain of two links whose sends are split by a full
  socket.
- Two devices allow the LIFO order of `consumeBatch` to interleave them.
- Two clock values let `findSampleNoLaterThan` split a batch at a frame time.

Fairness in the display platforms (`FairSpec` in `DisplayPlatforms.tla`)
is only needed for `HotplugShown` on Mesa KMS. Each step is wrapped in
`KmsStep`, which also fixes the platform, so the fairness does not hold on
the other platforms' stuttering. `FairSpec` has weak fairness on the udev
monitor's fd handler (`ProcessEvents`), on its `configure_display()`
(`ConfigureDisplay`) and on the display changer's apply (`ChangerApply`).
The changer's `configure_for_hardware_change` queues its work on the same
main loop. No fairness is assumed for the Android main loop, the HWC, the kernel's hotplugs, VT
switches, `stop()`, the screencast calls or the capture thread.

Fairness in the hub and the nested platform:

- The hub's main loop keeps running queued closures: weak fairness on
  `QueueNext`.
- The host connection keeps delivering configs and events to the nested
  callbacks: weak fairness on `ConfigChange` and `InputEvent`.
- The nested input thread keeps dispatching `action_queue`: weak fairness on
  `UpdateDevices`.
- A `start()` that has begun returns: weak fairness on `SetConfigCallback`
  and `SetEventCallback`.
- No fairness is assumed for the platform's or the host's calls, or for
  `Start` and `Stop`.
- Each fairness condition is subscripted by the variables its own side owns
  (`hostVars`, `nestedVars`), because the two sides change separate
  variables.

Fairness (`Fairness` in `InputTransport.tla`):

- **Weak fairness on the consume loop.** It never blocks: every iteration
  returns or continues. `ConsumeLoopFair` is `WF_vars(ConsumeStep)` with the
  enabling condition written out. `<<ConsumeStep>>_vars` is enabled exactly
  when `cpc = "loop"`, because each iteration either reads a message or
  fails to, and either way changes the state. TLC does not reuse `LET`
  values while it evaluates `ENABLED`. Left to compute the enabling
  condition itself, it re-runs the touch fold of `consumeBatch`
  exponentially often.
- **Weak fairness on `receiveFinishedSignal`.** The server's looper reads the
  channel whenever it is readable.
- **Strong fairness on `consume(consumeBatches = true, frameTime = -1)`.**
  This is the caller's obligation in spec.md 4.4 and 6: the client must call
  `consume` again while `hasDeferredEvent()` or `hasPendingBatch()` holds.
- **Strong fairness on `sendFinishedSignal` for each outstanding seq.** The
  client must finish every event it receives. A retry after `WOULD_BLOCK` is
  its responsibility.

### Findings

1. **`shell_confine_race`.** `modify_surface` checks
   `focused_surface() == surface` under `focus_mutex` (line 184). It then
   releases the mutex and sets or resets the seat's confinement. A
   `set_focus_to` on another thread can come in between. The pointer is
   then left confined to a surface that has lost focus, or the new focus's
   confinement is reset.
   `update_focused_surface_confined_region` has the same window. It reads
   `focus_surface` without the mutex at all (line 94), which is a data race
   with the write at line 307.
2. **`android_virtual_output_lost`.** The virtual output's enable function
   (`android/server/display.cpp:326`) writes `config` without
   `configuration_mutex`, on the screencast's IPC thread. Meanwhile the
   main loop's `update_configuration` (lines 223-228, under the lock) reads
   `config.virt()` and then assigns a config built from it. An enable
   between the read and the assignment is lost. TLC's trace:
   - a hotplug is pending;
   - the main loop reads `config.virt()`;
   - a screencast off every display enables its virtual output;
   - the main loop assigns.
   The display settles with no virtual output although the session holds
   one. The unlocked write is also a data race. With the race closed
   (enable and destroy waiting for the lock), TLC still breaks the property
   another way. The configuration has one virtual-output slot, so of two
   sessions that each enabled one, destroying the first disables it for
   both.
3. **`buffer_map_race`.** `send_buffer` unlocks before it calls
   `update_buffer` (line 80). A `remove_buffer` on another thread can come in
   between. The sink is then told to update a buffer it was just told was
   removed.
4. **`kms_cursor_after_failed_pause`.** `Display::pause()` suspends the
   hardware cursor (`kms/display.cpp:195`) and then calls `drop_master`
   (196). When `drop_master` throws, `pause()` rethrows and leaves the
   cursor suspended. `DisplayServer::pause()` (`display_server.cpp:103`, its
   last call, with no reverter of its own) unwinds the other components back
   to running and returns false. The VT switch is refused and the server
   keeps the master and composites, but the hardware cursor stays hidden
   until a later `configure()` or `resume()`.
5. **`nested_early_events`.** `update_devices_locked` clears every stored
   event (`input_platform.cpp:336`), also the events of devices that the
   config it applies does not list yet. The host hub starts a device at once,
   but it sends the config listing that device later, from `observer_queue`.
   Take two devices plugged together:
   - the second device's first event arrives before any config lists it;
   - the update for the config listing only the first device discards that
     event;
   - when the second device is added, there is nothing to replay.

More disagreements are reached by the models but have no run of their own:

- **A sink whose `add_buffer` throws.** `BufferMap::add_buffer` stores the
  entry before it calls the sink (lines 51-53). When the sink throws, the
  entry stays, and a later `send_buffer` updates a buffer the sink was only
  sent an error for. To see it, check `UpdateOnlyAnnounced` with the
  constants of `MCBufferMapRace.cfg` changed to `Threads <- MCOneThread` and
  `SinkMayThrow = TRUE`. TLC finds the violation in four steps: the
throwing `add_buffer`, its `error_buffer`, then the two steps of a
`send_buffer`.
- **A stale compatibility check in KMS `configure`.** This one needs a
  policy that leaves connected outputs unused. Check `display_platforms` with
  `AnyPolicy = TRUE` and `ScanoutFollowsKernel` fails:
  - an output is plugged in while the server is paused and another session
    lights it;
  - `resume()` clears against the stored configuration, which does not list
    it yet;
  - `configuration()` then updates the stored configuration in place, so
    the policy's configuration compares compatible with it (line 343);
  - `configure_locked` skips the clear, and the output keeps the other
    session's picture.
  `compatible()` is not in the sources, and Mir's default policies use
  every connected output. The path is therefore recorded as a hazard.

- **A dead channel reported as no input.** `consume` overwrites the status
  of a failed `receiveMessage` with that of `consumeBatch` (line 417). A
  closed and drained channel is therefore reported as `WOULD_BLOCK`, not
  `DEAD_OBJECT`, where spec.md section 4.4 says the error is propagated. To
  see it, check the property `DeadChannelReported` under these changes to
  `MCInputTransport.cfg`:
  - `Devices <- MCOneDevice`;
  - `KeyTypes <- MCKeyTypes`;
  - `MaxSeq = 2`;
  - no symmetry and no view.
- **A replugged Android panel left dark.** Check
  `MCDisplayPlatforms.cfg` with `INVARIANT ExternalLitWhenRecorded` as its
  only property. TLC finds it violated in 8 states:
  - the external display is unplugged and plugged in again before the
    main loop runs, and the HWC leaves the new panel off;
  - one dirty update sees the record still `on`, so `power_mode` skips the
    HWC (line 219);
  - `configure_locked` skips it for the same reason.
  It rests on what the HWC does with a newly connected panel, which is not
  in the sources.
- **An Android HWC error that ends the server.** `update_configuration`
  powers a newly plugged external panel with `power_mode` (line 219), not
  with `power_mode_safe` as the constructor and destructor do. Yet the
  constructor's comment (line 182) says some drivers report such errors.
  The exception leaves the pipe's fd handler and `main_loop->run()`.
  Through `make_virtual_output` it leaves `create_session` as well. Check
  `MCDisplayPlatforms.cfg` with `SPECIFICATION Spec` and
  `INVARIANT MainLoopSurvives` as its only property. TLC finds it violated
  in 4 states: run, plug, a throwing power-on.
- **Panels left lit by the Android destructor.** Check
  `MCDisplayPlatforms.cfg` with `INVARIANT PanelsOffAfterDestroy` as its
  only property. TLC finds it violated in 5 states:
  - the constructor's `set_powermode_all_displays(on)` fails on a panel
    that the driver nevertheless turned on, and the record stays off (the
    comment at line 182 says such drivers exist);
  - the server stops;
  - the destructor's `set_powermode_all_displays(off)` finds the record
    already off and does not call the HWC, so the panel stays lit.
- **An X11 window larger than requested.** `clip_to_display` replaces a
  request too large in one dimension by the screen less the border in both,
  so the other dimension can grow: 800x1000 on a 1024x768 screen gives
  874x618. `WindowNotEnlarged` (in `X11Stack.tla`) says the request is never
  enlarged. Checked as the only invariant of `MCDisplayPlatforms.cfg`, it
  is violated in an initial state. Nothing in the sources says the clip
  must not enlarge, so it is recorded as a hazard.
- **A NULL from the event factory.** Set `FactoryMayFail = TRUE` in an
  `InputTransport` configuration and check `AcksConserved`. It fails:
  - `consume` returns `NO_MEMORY` after the message was already read, or
    after the batch was removed (lines 433, 446, 475, 503, 533);
  - those seqs are never acknowledged;
  - spec.md section 7 says the message is kept for a retry.

  Mir's own `PreallocatedInputEventFactory` never returns NULL, so Mir
  itself is not exposed.
- **A freed focused surface.** Once the focused surface's object is freed,
  `focus_surface.lock()` is null. `set_focus_to(nullptr, nullptr)` then
  compares equal and skips `reset_confinement_regions` and `clear_focus`
  (line 303). The seat stays confined to the bounds of a surface that is
  gone. The model reaches this. Whether it happens depends on when the
  window manager drops its last reference.

## 4. Plan

The modules still to write, in order:

1. Touch resampling is done (`TouchState.tla`). Still open there: a
   property that an interpolated coordinate lies between its two samples,
   and runs with a mouse tool type.
2. BufferMap is done (`BufferMap.tla`).
3. The device hub and the nested input platform are done
   (`DefaultInputDeviceHub.tla`, `NestedInputPlatform.tla`). Still open
   there: whether `action_queue` is still dispatched after `stop`, which
   depends on the input manager, not in the sources.
4. The shell's focus handling is done (`AbstractShell.tla`). Still open
   there: the session coordinator's list changing during
   `focus_next_session`'s walk. The walk is one step of the model, but the
   code does not hold the coordinator's lock between `successor_of` calls.
5. The display server's pause and resume are done (`DisplayServer.tla`,
   refined to `ServerLifecycle.tla`). They are composed with the Mesa KMS
   display (`KMSDisplay.tla`, `DisplayStack.tla`) and checked there,
   including a component failing to start inside `run()`.
6. `CompositingScreencast`'s session table is done, composed with the
   Android display (`CompositingScreencast.tla`, `AndroidStack.tla`),
   including `capture(id)` on its own thread and the context it may
   destroy. Still open there: a property on the null entries that a
   throwing construction leaves.
7. The Android display is done (`AndroidDisplay.tla`), checked with the KMS
   stack in `DisplayPlatforms.tla`, with
   `apply_if_configuration_preserves_display_buffers` and the destructor.
   Still open there: `on_vsync` and `last_frame_on`.
8. The X11 display is done (`X11Display.tla`, `X11Stack.tla`), the third
   platform of `DisplayPlatforms.tla`.
9. Still to write: the Android sync fence (`android/common/syncfence.cpp`)
   and the nested platform's input-device-state events.

## 5. Not modelled, and why

- **The Y axis and the other pointer coordinates.** They go through the
  same lines as X.
- **Tool types other than finger.** Every pointer of the touch run is a
  finger (`FingerIds`). `ShouldResampleTool` is modelled, but no run gives
  it a mouse.
- **`BAD_VALUE` from a malformed message.** The publisher's guards mean it
  never sends one. The channel model still treats an invalid head as
  `BAD_VALUE`.
- **Unknown message types.** The `UNKNOWN_ERROR` branches handle types that
  neither side sends.
- **The input sender that assigns seqs.** `input_sender.cpp` is not in the
  sources. `uint32_t` seq wrap-around is therefore not modelled; seq 0 is
  never published.
- **The nested registry's own hub.** The nested platform's registry is kept
  as the set of ids it registered. Its observers would behave as in
  `DefaultInputDeviceHub.tla`.
- **The window manager and the session coordinator.** They are not in the
  sources. The shell model takes their effect as given:
  - `add_surface` creates the surface;
  - `remove_surface` removes it;
  - `modify_surface` applies the confine state;
  - the coordinator keeps its open sessions in opening order.
  The window manager may call the focus operations at any time.
- **Prompt sessions, surface attributes, raise, displays, cursor and stream
  changes.** The shell only forwards these to the window manager or the
  prompt session manager.
- **The KMS display's GL, EGL and page-flip plumbing.** This covers
  `create_gl_context`, `for_each_display_sync_group`, `last_frame_on` and
  the construction of each display buffer's surfaces. They hand out objects
  and change no state the properties depend on. The hardware cursor's
  image and position are left out: only whether it is shown is modelled.
- **What a capture composites.** `ScreencastSessionContext::capture` and
  `capture(buffer)` go through `QueueingSchedule`, `ScreencastDisplayBuffer`
  and the compositor, which are not in the sources. The model keeps only the
  capture's hold on the context and the destruction it may run.
- **Android vsync.** `on_vsync` and `last_frame_on` count frames per
  output under `vsync_mutex`. No other state reads the count.
- **The Android sync fence.** `syncfence.cpp` wraps a kernel fence fd:
  `wait`, `wait_for`, `merge_with` and `copy_native_handle`. It is not
  modelled. Its fd-0 check (`wait` tests `fence_fd > 0`, `merge_with`
  tests `< 0`) and the fence dropped after a `wait_for` that timed out are
  the cases worth a model. Its only caller in the sources is the Android
  client's `driver_returns_buffer`, which waits at once, and the buffers
  that merge fences are not in the sources. So a model would check the
  object alone, in a run of its own. The project has no room for one: its
  twelve runs are all in use, and folding `finish_acks` into
  `transport_safety` to free one took 15 minutes without symmetry.
- **The nested platform's input-device-state events.** The event callback
  (`input_platform.cpp` lines 241-273) passes key and button state to the
  nested devices and drops the event while no device is registered. Adding
  it took the nested run past the time allowed for a run.
- **X11's GL context, display buffer and pixel pitch.** `create_gl_context`,
  the display buffer and the physical size (from the host's pixel pitch)
  hand out objects or copy data through; X11's `pause()` and `resume()`
  throw, but no handler that would call them is registered.
- **The display-change pipe's capacity.** `notify_change` throws when the
  non-blocking pipe is full. Its capacity is a kernel constant far beyond
  the bounded hotplugs. The model counts unread bytes without a limit.
- **Platform, driver, EGL and client-library code.** These are wrappers around
  kernel and GPU calls, with no control state of their own worth a model.
