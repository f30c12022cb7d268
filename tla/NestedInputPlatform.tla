-------------------------- MODULE NestedInputPlatform --------------------------
(***************************************************************************)
(* mir::graphics::nested::InputPlatform (src/server/graphics/nested/       *)
(* input_platform.cpp), composed with the host server's                    *)
(* DefaultInputDeviceHub that feeds it.                                    *)
(*                                                                         *)
(* The host hub sends its input config to the nested server's connection   *)
(* each time a handle is added or removed (sinkConfigs), and the events    *)
(* of its started devices go to the focused client, the nested server      *)
(* (events).  The two travel separately: the host connection hands them    *)
(* to the input-config callback and the input-event callback in the order  *)
(* each was sent, read up to cfgRead and evRead.  Every callback holds     *)
(* devices_guard for its whole body and is one action.  The config         *)
(* callback only stores the config and queues update_devices on the        *)
(* platform's action_queue; that closure runs later on the input thread.   *)
(*                                                                         *)
(* A nested InputDevice stands for a host device id.  The nested input     *)
(* registry is kept as the set of ids the platform has added to it and     *)
(* not removed (ndevices, the keys of the devices map); an event passed to *)
(* a registered device's destination is appended to delivered.  Events    *)
(* are named by their index in the host's events.                          *)
(***************************************************************************)
EXTENDS Naturals, Sequences, SequencesExt

CONSTANTS Devices, Observers, MaxIds, MaxEvents

VARIABLES
  devices, idGen, oq, handles, observers, obsCalls, views, ready, status,
  sinkConfigs, events,
  npc,          \* "init", "fetched", "cfgcb", "running", "stopped"
  inputConfig,  \* input_config: the ids of the last config received
  ndevices,     \* the devices map: ids added to the nested registry
  unknown,      \* unknown_device_events, flattened, in arrival order
  aq,           \* update_devices closures queued on action_queue
  cfgRead,      \* configs handed to the input-config callback
  evRead,       \* events handed to the input-event callback
  evFrom,       \* events sent before the callback was set
  delivered,    \* events emitted to a nested device's destination
  cfgLost       \* configs sent while start() had no config callback set

H == INSTANCE DefaultInputDeviceHub

hostVars == <<devices, idGen, oq, handles, observers, obsCalls, views, ready,
              status, sinkConfigs, events>>
nestedVars == <<npc, inputConfig, ndevices, unknown, aq, cfgRead, evRead,
                evFrom, delivered, cfgLost>>
vars == <<hostVars, nestedVars>>

Init ==
  /\ H!Init
  /\ npc = "init"
  /\ inputConfig = {}
  /\ ndevices = {}
  /\ unknown = <<>>
  /\ aq = 0
  /\ cfgRead = 0
  /\ evRead = 0
  /\ evFrom = 0
  /\ delivered = <<>>
  /\ cfgLost = {}

\* update_devices_locked: the devices map becomes the ids of input_config;
\* devices no longer listed are removed from the registry, new ones added,
\* and each new device first emits the events stored for its id while it
\* was unknown.  Then every stored event is discarded.
UpdateDevicesLocked(config) ==
  LET new == config \ ndevices
  IN /\ ndevices' = config
     /\ delivered' = delivered \o SelectSeq(unknown, LAMBDA n : events[n] \in new)
     /\ unknown' = <<>>

\* start, first block: under devices_guard, the host's current config is
\* fetched and applied.  Configs sent before it are covered by the fetch.
Start ==
  /\ npc = "init"
  /\ npc' = "fetched"
  /\ inputConfig' = handles
  /\ UpdateDevicesLocked(handles)
  /\ cfgRead' = Len(sinkConfigs)
  /\ UNCHANGED <<aq, evRead, evFrom, cfgLost>>

\* start, after devices_guard is released: the input-config callback is
\* set.  A config the host sent since the fetch was handed to no callback
\* and is lost.
SetConfigCallback ==
  /\ npc = "fetched"
  /\ npc' = "cfgcb"
  /\ cfgRead' = Len(sinkConfigs)
  /\ cfgLost' = cfgLost \cup (cfgRead + 1)..Len(sinkConfigs)
  /\ UNCHANGED <<inputConfig, ndevices, unknown, aq, evRead, evFrom, delivered>>

\* start, last: the input-event callback is set.  Events sent before it
\* were handed to no callback.
SetEventCallback ==
  /\ npc = "cfgcb"
  /\ npc' = "running"
  /\ evRead' = Len(events)
  /\ evFrom' = Len(events)
  /\ UNCHANGED <<inputConfig, ndevices, unknown, aq, cfgRead, delivered, cfgLost>>

\* Mutant: the callback queues update_devices but keeps the old config.
ConfigChangeNotStored ==
  /\ npc \in {"cfgcb", "running"}
  /\ cfgRead < Len(sinkConfigs)
  /\ cfgRead' = cfgRead + 1
  /\ aq' = aq + 1
  /\ UNCHANGED <<inputConfig, ndevices, unknown, evRead, evFrom, delivered, npc, cfgLost>>

\* Mutant: the callback stores the config but queues no update.
ConfigChangeNoUpdate ==
  /\ npc \in {"cfgcb", "running"}
  /\ cfgRead < Len(sinkConfigs)
  /\ cfgRead' = cfgRead + 1
  /\ inputConfig' = sinkConfigs[cfgRead + 1]
  /\ UNCHANGED <<aq, ndevices, unknown, evRead, evFrom, delivered, npc, cfgLost>>

\* The input-config callback: the new config is stored and update_devices
\* queued.
ConfigChange ==
  /\ npc \in {"cfgcb", "running"}
  /\ cfgRead < Len(sinkConfigs)
  /\ cfgRead' = cfgRead + 1
  /\ inputConfig' = sinkConfigs[cfgRead + 1]
  /\ aq' = aq + 1
  /\ UNCHANGED <<ndevices, unknown, evRead, evFrom, delivered, npc, cfgLost>>

\* Mutant: an unknown device's event is stored at the front.
InputEventStoreFront ==
  /\ npc = "running"
  /\ evRead < Len(events)
  /\ evRead' = evRead + 1
  /\ IF events[evRead + 1] \in ndevices
     THEN /\ delivered' = Append(delivered, evRead + 1)
          /\ UNCHANGED unknown
     ELSE /\ unknown' = <<evRead + 1>> \o unknown
          /\ UNCHANGED delivered
  /\ UNCHANGED <<npc, inputConfig, ndevices, aq, cfgRead, evFrom, cfgLost>>

\* Mutant: the callback emits the previous event, not the one it was given.
InputEventOffByOne ==
  /\ npc = "running"
  /\ evRead < Len(events)
  /\ evRead' = evRead + 1
  /\ IF events[evRead + 1] \in ndevices
     THEN /\ delivered' = Append(delivered, evRead)
          /\ UNCHANGED unknown
     ELSE /\ unknown' = Append(unknown, evRead + 1)
          /\ UNCHANGED delivered
  /\ UNCHANGED <<npc, inputConfig, ndevices, aq, cfgRead, evFrom, cfgLost>>

\* The input-event callback: an event of a known device is emitted to its
\* destination; one of a device not yet advertised is stored.
InputEvent ==
  /\ npc = "running"
  /\ evRead < Len(events)
  /\ evRead' = evRead + 1
  /\ IF events[evRead + 1] \in ndevices
     THEN /\ delivered' = Append(delivered, evRead + 1)
          /\ UNCHANGED unknown
     ELSE /\ unknown' = Append(unknown, evRead + 1)
          /\ UNCHANGED delivered
  /\ UNCHANGED <<npc, inputConfig, ndevices, aq, cfgRead, evFrom, cfgLost>>

\* update_devices, run from action_queue.
UpdateDevices ==
  /\ aq > 0
  /\ aq' = aq - 1
  /\ UpdateDevicesLocked(inputConfig)
  /\ UNCHANGED <<npc, inputConfig, cfgRead, evRead, evFrom, cfgLost>>

\* stop: the callbacks are reset, every device is removed from the
\* registry and the map cleared.  Closures already on action_queue stay.
Stop ==
  /\ npc = "running"
  /\ npc' = "stopped"
  /\ ndevices' = {}
  /\ UNCHANGED <<inputConfig, unknown, aq, cfgRead, evRead, evFrom, delivered,
                 cfgLost>>

NestedNext == Start \/ SetConfigCallback \/ SetEventCallback \/ ConfigChange \/ InputEvent \/ UpdateDevices \/ Stop

Next ==
  \/ H!Next /\ UNCHANGED nestedVars
  \/ NestedNext /\ UNCHANGED hostVars

\* The host's main loop, the host connection's callbacks and the nested
\* input thread running action_queue all keep making progress, and a
\* start() that has begun returns.
Fairness ==
  /\ WF_nestedVars(SetConfigCallback)
  /\ WF_nestedVars(SetEventCallback)
  /\ WF_hostVars(H!QueueNext)
  /\ WF_nestedVars(ConfigChange)
  /\ WF_nestedVars(InputEvent)
  /\ WF_nestedVars(UpdateDevices)

Spec == Init /\ [][Next]_vars /\ Fairness

-----------------------------------------------------------------------------
(* Properties                                                              *)

TypeOK ==
  /\ H!TypeOK
  /\ npc \in {"init", "fetched", "cfgcb", "running", "stopped"}
  /\ cfgLost \subseteq DOMAIN sinkConfigs
  /\ inputConfig \subseteq H!Ids
  /\ ndevices \subseteq H!Ids
  /\ unknown \in Seq(DOMAIN events)
  /\ aq \in Nat
  /\ cfgRead \in 0..Len(sinkConfigs)
  /\ evRead \in 0..Len(events)
  /\ evFrom \in 0..evRead
  /\ delivered \in Seq(DOMAIN events)

\* The events the nested server received and neither emitted nor stored.
Dropped == {n \in (evFrom + 1)..evRead : n \notin ToSet(delivered) \cup ToSet(unknown)}

\* An event the host sent from a device is not lost on the nested side
\* when that device gets advertised: events that arrive before their
\* device's config are stored in unknown_device_events and replayed when
\* update_devices_locked adds the device.
EarlyEventsKept == \A n \in Dropped : events[n] \notin ndevices

\* Each device's events reach the nested registry in the order the host
\* sent them: stored early events are replayed, under devices_guard,
\* before any later event of that device goes straight through.
DeliveredInOrder ==
  \A i, j \in DOMAIN delivered :
    i < j /\ events[delivered[i]] = events[delivered[j]]
      => delivered[i] < delivered[j]

\* The host's last config fell in start()'s window between the fetch and
\* the config callback, and nothing since has replaced it.
LastConfigLost == Len(sinkConfigs) \in cfgLost

\* Once the nested side has taken in every config the host sent and run
\* every queued update, its registry holds exactly the host's devices,
\* unless the host's last config was sent in start()'s unguarded window:
\* that window is the only way the two registries can stay apart.
RegistryFollowsHost ==
  npc = "running" /\ cfgRead = Len(sinkConfigs) /\ aq = 0 /\ ~LastConfigLost
    => ndevices = handles

\* The host hub's own guarantees, checked with the nested platform as a
\* client: its handles lag the registered devices by exactly the queued
\* add/remove closures, every registered observer (the nested server's
\* config subscription among them) knows exactly the handles, the status
\* listener alternates ready and stop with the first and last handle, and
\* a registered device reaches the handles unless removed first.
HandlesLagDevices == H!HandlesLagDevices
ObserversSeeHandles == H!ObserversSeeHandles
StatusFollowsHandles == H!StatusFollowsHandles
DevicesReachObservers == H!DevicesReachObservers

\* Once the host stops changing, the nested registry comes to hold the
\* host's devices and keeps them, while the platform runs, unless the
\* host's last config was lost in start()'s window.
RegistryConverges ==
  <>[](npc = "running" /\ ~LastConfigLost => ndevices = handles)

=============================================================================
