------------------------ MODULE DefaultInputDeviceHub ------------------------
(***************************************************************************)
(* mir::input::DefaultInputDeviceHub (src/server/input/                    *)
(* default_input_device_hub.cpp): the registry the input platforms add     *)
(* devices to, and the observers told of them.                             *)
(*                                                                         *)
(* add_device and remove_device run on the platform's thread: they change  *)
(* the list of RegisteredDevices at once, start or stop the device, and    *)
(* leave the rest to a closure put on the server's observer_queue.  The    *)
(* main loop runs those closures one at a time, in order; each holds       *)
(* observer_guard for its whole body and is one action here.  A device     *)
(* is an InputDevice object; its handle is named by its MirInputDeviceId.  *)
(* The list of handles and the MirInputConfig hold the same ids and are    *)
(* one set, handles.  Each observer's own record of the devices it was     *)
(* told of (device_added, device_removed) is kept in views.                *)
(***************************************************************************)
EXTENDS Naturals, Sequences, SequencesExt

CONSTANTS
  Devices,     \* InputDevice objects the platforms may add
  Observers,   \* InputDeviceObserver objects
  MaxIds,      \* bound on device_id_generator (add_device calls)
  MaxEvents    \* bound on events dispatched to the seat

ASSUME MaxIds \in Nat /\ MaxEvents \in Nat

VARIABLES
  devices,     \* the RegisteredDevice list: InputDevice -> its id
  idGen,       \* device_id_generator
  oq,          \* closures on observer_queue, in order
  handles,     \* ids of the handles (and of the MirInputConfig)
  observers,   \* the observer list, in order, duplicates kept
  obsCalls,    \* observer -> calls made for it: "none", "added", "removed"
  views,       \* observer -> the ids it was told were added and not removed
  ready,       \* the hub's ready flag
  status,      \* calls on the ServerStatusListener, in order
  sinkConfigs, \* configs sent to frontend::EventSink, in order
  events       \* events passed to the seat: the id of the sending device

hubVars == <<devices, idGen, oq, handles, observers, obsCalls, views, ready,
             status, sinkConfigs, events>>

Ids == 1..MaxIds

Closures ==
  [op: {"addHandle", "removeHandle"}, id: Ids] \cup
  [op: {"addObserver", "removeObserver"}, obs: Observers]

Init ==
  /\ devices = [d \in {} |-> 0]
  /\ idGen = 0
  /\ oq = <<>>
  /\ handles = {}
  /\ observers = <<>>
  /\ obsCalls = [o \in Observers |-> "none"]
  /\ views = [o \in Observers |-> {}]
  /\ ready = FALSE
  /\ status = <<>>
  /\ sinkConfigs = <<>>
  /\ events = <<>>

\* Mutant: the RegisteredDevice takes a second create_new_device_id().
AddDeviceTwoIds(d) ==
  /\ d \notin DOMAIN devices
  /\ idGen < MaxIds
  /\ idGen' = idGen + 2
  /\ devices' = devices @@ (d :> idGen + 2)
  /\ oq' = Append(oq, [op |-> "addHandle", id |-> idGen + 1])
  /\ UNCHANGED <<handles, observers, obsCalls, views, ready, status,
                 sinkConfigs, events>>

\* add_device: a device not yet managed gets the next id, is registered and
\* started (it may send events from now on), and its handle is passed to
\* the observer loop.  A device already managed throws logic_error.
AddDevice(d) ==
  /\ d \notin DOMAIN devices
  /\ idGen < MaxIds
  /\ idGen' = idGen + 1
  /\ devices' = devices @@ (d :> idGen + 1)
  /\ oq' = Append(oq, [op |-> "addHandle", id |-> idGen + 1])
  /\ UNCHANGED <<handles, observers, obsCalls, views, ready, status,
                 sinkConfigs, events>>

\* remove_device: the matching entry is stopped (its seat is reset, so it
\* sends nothing more), its id passed to the observer loop, and erased.  A
\* device not managed throws logic_error.
RemoveDevice(d) ==
  /\ d \in DOMAIN devices
  /\ oq' = Append(oq, [op |-> "removeHandle", id |-> devices[d]])
  /\ devices' = [e \in DOMAIN devices \ {d} |-> devices[e]]
  /\ UNCHANGED <<idGen, handles, observers, obsCalls, views, ready, status,
                 sinkConfigs, events>>

\* RegisteredDevice::handle_input: a started device's event goes to the
\* seat; a device whose seat was reset drops it.
HandleInput(d) ==
  /\ d \in DOMAIN devices
  /\ Len(events) < MaxEvents
  /\ events' = Append(events, devices[d])
  /\ UNCHANGED <<devices, idGen, oq, handles, observers, obsCalls, views,
                 ready, status, sinkConfigs>>

\* add_observer and remove_observer only queue a closure.  Each observer
\* object is added at most once and removed at most once after that.
AddObserver(o) ==
  /\ obsCalls[o] = "none"
  /\ obsCalls' = [obsCalls EXCEPT ![o] = "added"]
  /\ oq' = Append(oq, [op |-> "addObserver", obs |-> o])
  /\ UNCHANGED <<devices, idGen, handles, observers, views, ready, status,
                 sinkConfigs, events>>

RemoveObserver(o) ==
  /\ obsCalls[o] = "added"
  /\ obsCalls' = [obsCalls EXCEPT ![o] = "removed"]
  /\ oq' = Append(oq, [op |-> "removeObserver", obs |-> o])
  /\ UNCHANGED <<devices, idGen, handles, observers, views, ready, status,
                 sinkConfigs, events>>

\* The closure at the head of observer_queue, run by the main loop.
Running(op) == oq # <<>> /\ Head(oq).op = op

\* Mutant: the add_observer closure does not replay the existing handles.
AddObserverNoReplay ==
  /\ Running("addObserver")
  /\ observers' = Append(observers, Head(oq).obs)
  /\ oq' = Tail(oq)
  /\ UNCHANGED <<devices, idGen, handles, obsCalls, views, ready, status,
                 sinkConfigs, events>>

\* The add_observer closure: the observer joins the list and is told of
\* every handle, then changes_complete.
AddObserverClosure ==
  /\ Running("addObserver")
  /\ LET o == Head(oq).obs
     IN /\ observers' = Append(observers, o)
        /\ views' = [views EXCEPT ![o] = @ \cup handles]
  /\ oq' = Tail(oq)
  /\ UNCHANGED <<devices, idGen, handles, obsCalls, ready, status,
                 sinkConfigs, events>>

\* The remove_observer closure: every copy of the observer leaves the list.
RemoveObserverClosure ==
  /\ Running("removeObserver")
  /\ observers' = SelectSeq(observers, LAMBDA o : o # Head(oq).obs)
  /\ oq' = Tail(oq)
  /\ UNCHANGED <<devices, idGen, handles, obsCalls, views, ready, status,
                 sinkConfigs, events>>

\* Mutant: ready_for_user_input on every new handle (no !ready test).
AddDeviceHandleAlwaysReady ==
  /\ Running("addHandle")
  /\ LET id == Head(oq).id
     IN /\ handles' = handles \cup {id}
        /\ sinkConfigs' = Append(sinkConfigs, handles \cup {id})
        /\ views' = [o \in Observers |->
                       IF o \in ToSet(observers) THEN views[o] \cup {id}
                       ELSE views[o]]
  /\ ready' = TRUE
  /\ status' = Append(status, "ready")
  /\ oq' = Tail(oq)
  /\ UNCHANGED <<devices, idGen, observers, obsCalls, events>>

\* Mutant: the handle is stored only while the hub is not yet ready.
AddDeviceHandleOnlyFirst ==
  /\ Running("addHandle")
  /\ LET id == Head(oq).id
     IN /\ handles' = IF ready THEN handles ELSE handles \cup {id}
        /\ sinkConfigs' = Append(sinkConfigs, handles')
        /\ views' = [o \in Observers |->
                       IF o \in ToSet(observers) THEN views[o] \cup {id}
                       ELSE views[o]]
  /\ ready' = TRUE
  /\ status' = IF ready THEN status ELSE Append(status, "ready")
  /\ oq' = Tail(oq)
  /\ UNCHANGED <<devices, idGen, observers, obsCalls, events>>

\* add_device_handle: the handle joins the list and the config, the sink
\* gets the new config, every observer (once per copy in the list) is told
\* of the device, and the first device makes the hub ready.
AddDeviceHandle ==
  /\ Running("addHandle")
  /\ LET id == Head(oq).id
     IN /\ handles' = handles \cup {id}
        /\ sinkConfigs' = Append(sinkConfigs, handles \cup {id})
        /\ views' = [o \in Observers |->
                       IF o \in ToSet(observers) THEN views[o] \cup {id}
                       ELSE views[o]]
  /\ ready' = TRUE
  /\ status' = IF ready THEN status ELSE Append(status, "ready")
  /\ oq' = Tail(oq)
  /\ UNCHANGED <<devices, idGen, observers, obsCalls, events>>

\* remove_device_handle: an id with no handle returns at once; otherwise
\* every observer is told of the removal, the handle leaves the list and
\* the config, the sink gets the new config, and the last device going
\* stops user input.
RemoveDeviceHandle ==
  /\ Running("removeHandle")
  /\ LET id == Head(oq).id
     IN IF id \notin handles
        THEN UNCHANGED <<handles, sinkConfigs, views, ready, status>>
        ELSE /\ handles' = handles \ {id}
             /\ sinkConfigs' = Append(sinkConfigs, handles \ {id})
             /\ views' = [o \in Observers |->
                            IF o \in ToSet(observers) THEN views[o] \ {id}
                            ELSE views[o]]
             /\ ready' = (ready /\ handles' # {})
             /\ status' = IF ready /\ handles' = {}
                          THEN Append(status, "stop") ELSE status
  /\ oq' = Tail(oq)
  /\ UNCHANGED <<devices, idGen, observers, obsCalls, events>>

\* The platform's calls, on the platform's thread.
PlatformNext ==
  \E d \in Devices : AddDevice(d) \/ RemoveDevice(d) \/ HandleInput(d)

\* Calls of other components registering observers.
ObserverNext ==
  \E o \in Observers : AddObserver(o) \/ RemoveObserver(o)

\* One closure of observer_queue, run by the main loop.
QueueNext ==
  \/ AddObserverClosure
  \/ RemoveObserverClosure
  \/ AddDeviceHandle
  \/ RemoveDeviceHandle

Next == PlatformNext \/ ObserverNext \/ QueueNext

\* The main loop keeps running queued closures.
Spec == Init /\ [][Next]_hubVars /\ WF_hubVars(QueueNext)

-----------------------------------------------------------------------------
(* Properties                                                              *)

TypeOK ==
  /\ DOMAIN devices \subseteq Devices
  /\ \A d \in DOMAIN devices : devices[d] \in Ids
  /\ idGen \in 0..MaxIds
  /\ oq \in Seq(Closures)
  /\ handles \subseteq Ids
  /\ observers \in Seq(Observers)
  /\ views \in [Observers -> SUBSET Ids]
  /\ ready \in BOOLEAN
  /\ status \in Seq({"ready", "stop"})
  /\ events \in Seq(Ids)

\* Replaying the queued closures over the handles gives the devices
\* registered now: add_device and remove_device queue their closures in
\* the order they change the device list, and the main loop applies them
\* in that order, so the handles lag the devices by exactly the queue.
Pending(h, q) ==
  FoldLeft(LAMBDA s, c : CASE c.op = "addHandle" -> s \cup {c.id}
                           [] c.op = "removeHandle" -> s \ {c.id}
                           [] OTHER -> s, h, q)

HandlesLagDevices == Pending(handles, oq) = Range(devices)

\* Every observer in the list knows exactly the devices that have handles:
\* the add_observer closure's snapshot under observer_guard and the
\* notifications of later add_device_handle and remove_device_handle
\* calls neither miss nor repeat a device, whatever the order of
\* registrations, device changes and removals of other observers.
ObserversSeeHandles == \A o \in ToSet(observers) : views[o] = handles

\* The status listener hears ready_for_user_input when the first handle
\* arrives and stop_receiving_input when the last one goes, alternately.
StatusFollowsHandles ==
  /\ ready = (handles # {})
  /\ \A k \in DOMAIN status : status[k] = IF k % 2 = 1 THEN "ready" ELSE "stop"
  /\ (status # <<>> /\ Last(status) = "ready") = ready

\* A registered device reaches the handles, and so every observer, unless
\* it is removed first.
DevicesReachObservers ==
  \A d \in Devices, i \in Ids :
    (d \in DOMAIN devices /\ devices[d] = i)
      ~> (i \in handles \/ d \notin DOMAIN devices)

=============================================================================
