----------------------------- MODULE TunDevice -----------------------------
(***************************************************************************)
(* The tun device behind a registration: a receiving thread that handles a *)
(* RegistrationResponse writes the new address into current_device and, if *)
(* the address it saw before differs, stops the old device and starts a    *)
(* new one (handle/recv_data/server.rs; TunDeviceHelper and DeviceAdapter  *)
(* in tun_tap_device/tun_create_helper.rs; DeviceStop in                   *)
(* handle/tun_tap/mod.rs; the device thread, handle/tun_tap/unix.rs).      *)
(*                                                                         *)
(* TunDeviceHelper::stop keeps the device_stop lock while it waits for the *)
(* old thread: the guard lives to the end of the "if let".                 *)
(***************************************************************************)
EXTENDS Integers, FiniteSets

CONSTANTS
    Receivers,     \* threads that handle packets of the server
    TunIps,        \* addresses the server may assign
    MAX_DEVICES,   \* bound: devices created in one behaviour
    MAX_MESSAGES,  \* bound: RegistrationResponses handled in one behaviour
    FAULTS,        \* the service may be stopped, a device may fail
    NoTunIp, NoDev, NoThread

ASSUME DevicesAssumption == MAX_DEVICES \in Nat /\ MAX_MESSAGES \in Nat
ASSUME FaultsAssumption == FAULTS \in BOOLEAN
ASSUME TunNamesAssumption == NoTunIp \notin TunIps /\ NoThread \notin Receivers

Devices == 1 .. MAX_DEVICES
ASSUME NoDevAssumption == NoDev \notin Devices

VARIABLES
    virtual_ip,    \* current_device.virtual_ip
    adapter,       \* DeviceAdapter.tun: the device packets are written to
    device_stop,   \* TunDeviceHelper.device_stop: the device to be stopped
    lock,          \* holder of the device_stop lock between two actions
    stopped,       \* the stop manager has been stopped
    tun_device,    \* the device whose listener holds the name "tun_device"
    stop_fn,       \* stop_fn[d]: DeviceStop.f is set
    is_stopped,    \* is_stopped[d]: DeviceStop.stopped
    worker,        \* worker[d]: worker_cell of the thread of d is Some
    woken,         \* woken[d]: the poll of d's thread was woken
    thread,        \* thread[d]: where the thread of d is
    addr,          \* addr[d]: the address d was created with
    pc, response, old, dev,   \* of a receiver: place, response, address seen, device
    messages       \* responses handled so far

helperVars == <<adapter, device_stop, lock>>
deviceVars == <<stop_fn, is_stopped, worker, woken, thread, addr>>
tunVars == <<virtual_ip, helperVars, stopped, tun_device, deviceVars,
             pc, response, old, dev, messages>>

Goto(r, there) == pc' = [pc EXCEPT ![r] = there]

-----------------------------------------------------------------------------
(* A receiver handles a RegistrationResponse.                              *)

(* handle() loads current_device once, for the whole handler. *)
TakeResponse(r) ==
    /\ pc[r] = "idle" /\ messages < MAX_MESSAGES
    /\ messages' = messages + 1
    /\ old' = [old EXCEPT ![r] = virtual_ip]
    /\ \E i \in TunIps : response' = [response EXCEPT ![r] = i]
    /\ Goto(r, "update")
    /\ UNCHANGED <<virtual_ip, helperVars, stopped, tun_device, deviceVars, dev>>

(* A response that only starts the first device. *)
FirstOnly(r) == old[r] = NoTunIp
(* The compare_exchange loop, then the comparison with what was loaded. *)
Changed(r) == old[r] # response[r]
UpdateDevice(r) ==
    /\ pc[r] = "update"
    /\ virtual_ip' = response[r]
    /\ Goto(r, IF Changed(r) THEN "stop" ELSE "idle")
    /\ UNCHANGED <<helperVars, stopped, tun_device, deviceVars, response, old, dev, messages>>

(* A stop that leaves the device in the adapter. *)
NotRemoved == adapter
Removed == NoDev
(* TunDeviceHelper::stop: take the DeviceStop, keep the lock, and take the *)
(* device away from the writers.                                           *)
HelperStopTake(r) ==
    /\ pc[r] = "stop" /\ lock = NoThread
    /\ dev' = [dev EXCEPT ![r] = device_stop]
    /\ device_stop' = NoDev
    /\ IF device_stop = NoDev
       THEN UNCHANGED <<adapter, lock>> /\ Goto(r, "create")
       ELSE adapter' = Removed /\ lock' = r /\ Goto(r, "stopping")
    /\ UNCHANGED <<virtual_ip, stopped, tun_device, deviceVars, response, old, messages>>

(* device_stop.stop(): the stop function, once it is set, drops the Worker *)
(* of the thread, whose release calls the listener.                        *)
DeviceStopCall(r) ==
    /\ pc[r] = "stopping"
    /\ LET d == dev[r] IN
       IF stop_fn[d]
       THEN /\ stop_fn' = [stop_fn EXCEPT ![d] = FALSE]
            /\ worker' = [worker EXCEPT ![d] = FALSE]
            /\ woken' = [woken EXCEPT ![d] = @ \/ worker[d]]
            /\ tun_device' = IF worker[d] /\ tun_device = d THEN NoDev ELSE tun_device
       ELSE UNCHANGED <<stop_fn, worker, woken, tun_device>>
    /\ Goto(r, "check")
    /\ UNCHANGED <<virtual_ip, helperVars, stopped, is_stopped, thread, addr,
                   response, old, dev, messages>>

(* A guard that outlives the call. *)
StillLocked == lock
Unlocked == NoThread
(* A single call of stop() without waiting for the thread. *)
DoNotWait(r) == TRUE
(* is_stopped() after the sleep: leave the loop or call stop again. *)
MayLeaveLoop(r) == is_stopped[dev[r]]
DeviceStopCheck(r) ==
    /\ pc[r] = "check"
    /\ IF MayLeaveLoop(r)
       THEN lock' = Unlocked /\ Goto(r, "create")
       ELSE lock' = lock /\ Goto(r, "stopping")
    /\ UNCHANGED <<virtual_ip, adapter, device_stop, stopped, tun_device,
                   deviceVars, response, old, dev, messages>>

(* create_device may fail: the error is reported and nothing is started.   *)
CreateDevice(r) ==
    /\ pc[r] = "create"
    /\ \/ \E d \in Devices :
             /\ thread[d] = "unused" /\ \A e \in Devices : e < d => thread[e] # "unused"
             /\ thread' = [thread EXCEPT ![d] = "created"]
             /\ addr' = [addr EXCEPT ![d] = response[r]]
             /\ dev' = [dev EXCEPT ![r] = d]
             /\ Goto(r, "insert")
       \/ UNCHANGED <<thread, addr, dev>> /\ Goto(r, "idle")
    /\ UNCHANGED <<virtual_ip, helperVars, stopped, tun_device, stop_fn,
                   is_stopped, worker, woken, response, old, messages>>

(* TunDeviceHelper::start, DeviceAdapter::insert: the device is replaced,  *)
(* then the assertion that there was none.                                 *)
InsertDevice(r) ==
    /\ pc[r] = "insert"
    /\ adapter' = dev[r]
    /\ Goto(r, IF adapter = NoDev THEN "replace" ELSE "panic")
    /\ UNCHANGED <<virtual_ip, device_stop, lock, stopped, tun_device,
                   deviceVars, response, old, dev, messages>>

(* How a call of the system ends: it may fail where failures are modelled. *)
Outcome(succeeded) == IF FAULTS THEN {succeeded, "failed"} ELSE {succeeded}
(* start: device_stop.replace, its assertion, and the spawn of the thread; *)
(* the error of a spawn that fails is returned, with the DeviceStop and    *)
(* the device left where they are.                                         *)
StartDevice(r) ==
    /\ pc[r] = "replace" /\ lock = NoThread
    /\ device_stop' = dev[r]
    /\ IF device_stop = NoDev
       THEN /\ \E o \in Outcome("spawned") : thread' = [thread EXCEPT ![dev[r]] = o]
            /\ Goto(r, "idle")
       ELSE UNCHANGED thread /\ Goto(r, "panic")
    /\ UNCHANGED <<virtual_ip, adapter, lock, stopped, tun_device, stop_fn,
                   is_stopped, worker, woken, addr, response, old, dev, messages>>

-----------------------------------------------------------------------------
(* The thread of device d: start_simple.                                   *)

(* Poll::new and Waker::new: an error ends the thread without a report.    *)
NewPoll(d) ==
    /\ thread[d] = "spawned"
    /\ \E o \in Outcome("polling") : thread' = [thread EXCEPT ![d] = o]
    /\ UNCHANGED <<virtual_ip, helperVars, stopped, tun_device, stop_fn, is_stopped,
                   worker, woken, addr, pc, response, old, dev, messages>>

(* add_listener("tun_device"): refused after a stop, or while the name is  *)
(* taken; this error too ends the thread at once.                          *)
AddListener(d) ==
    /\ thread[d] = "polling"
    /\ IF stopped \/ tun_device # NoDev
       THEN UNCHANGED <<tun_device, worker>> /\ thread' = [thread EXCEPT ![d] = "refused"]
       ELSE /\ tun_device' = d
            /\ worker' = [worker EXCEPT ![d] = TRUE]
            /\ thread' = [thread EXCEPT ![d] = "registered"]
    /\ UNCHANGED <<virtual_ip, helperVars, stopped, stop_fn, is_stopped, woken,
                   addr, pc, response, old, dev, messages>>

SetStopFn(d) ==
    /\ thread[d] = "registered"
    /\ stop_fn' = [stop_fn EXCEPT ![d] = TRUE]
    /\ thread' = [thread EXCEPT ![d] = "reading"]
    /\ UNCHANGED <<virtual_ip, helperVars, stopped, tun_device, is_stopped,
                   worker, woken, addr, pc, response, old, dev, messages>>

(* start_simple0 returns: woken, or on an error of the device. *)
Leave(d) ==
    /\ thread[d] = "reading" /\ (woken[d] \/ FAULTS)
    /\ thread' = [thread EXCEPT ![d] = "left"]
    /\ UNCHANGED <<virtual_ip, helperVars, stopped, tun_device, stop_fn,
                   is_stopped, worker, woken, addr, pc, response, old, dev, messages>>

(* A thread that ends without device_stop.stopped(). *)
NotReported(d) == is_stopped
Reported(d) == [is_stopped EXCEPT ![d] = TRUE]
DeviceStopped(d) ==
    /\ thread[d] = "left"
    /\ is_stopped' = Reported(d)
    /\ thread' = [thread EXCEPT ![d] = "ending"]
    /\ UNCHANGED <<virtual_ip, helperVars, stopped, tun_device, stop_fn, worker,
                   woken, addr, pc, response, old, dev, messages>>

(* worker_cell.take(): whoever still has the Worker stops everything.      *)
TakeWorker(d) ==
    /\ thread[d] = "ending"
    /\ worker' = [worker EXCEPT ![d] = FALSE]
    /\ IF worker[d]
       THEN stopped' = TRUE /\ tun_device' = NoDev
       ELSE UNCHANGED <<stopped, tun_device>>
    /\ thread' = [thread EXCEPT ![d] = "gone"]
    /\ UNCHANGED <<virtual_ip, helperVars, stop_fn, is_stopped, woken, addr,
                   pc, response, old, dev, messages>>

(* The stop manager is stopped by another thread: it calls the listener.   *)
StopAll ==
    /\ FAULTS /\ ~ stopped
    /\ stopped' = TRUE /\ tun_device' = NoDev
    /\ woken' = [d \in Devices |-> woken[d] \/ tun_device = d]
    /\ UNCHANGED <<virtual_ip, helperVars, stop_fn, is_stopped, worker, thread,
                   addr, pc, response, old, dev, messages>>

-----------------------------------------------------------------------------
TunInit ==
    /\ virtual_ip = NoTunIp /\ adapter = NoDev /\ device_stop = NoDev
    /\ lock = NoThread /\ stopped = FALSE /\ tun_device = NoDev
    /\ stop_fn = [d \in Devices |-> FALSE] /\ is_stopped = [d \in Devices |-> FALSE]
    /\ worker = [d \in Devices |-> FALSE] /\ woken = [d \in Devices |-> FALSE]
    /\ thread = [d \in Devices |-> "unused"] /\ addr = [d \in Devices |-> NoTunIp]
    /\ pc = [r \in Receivers |-> "idle"] /\ response = [r \in Receivers |-> NoTunIp]
    /\ old = [r \in Receivers |-> NoTunIp] /\ dev = [r \in Receivers |-> NoDev]
    /\ messages = 0

HandleResponse(r) ==
    \/ UpdateDevice(r) \/ HelperStopTake(r) \/ DeviceStopCall(r)
    \/ DeviceStopCheck(r) \/ CreateDevice(r) \/ InsertDevice(r) \/ StartDevice(r)
Thread(d) == NewPoll(d) \/ AddListener(d) \/ SetStopFn(d) \/ DeviceStopped(d) \/ TakeWorker(d)

TunNext ==
    \/ \E r \in Receivers : TakeResponse(r) \/ HandleResponse(r)
    \/ \E d \in Devices : Thread(d) \/ Leave(d)
    \/ StopAll

(* Threads go on when they can; a woken device thread leaves its loop.     *)
TunFairness ==
    /\ \A r \in Receivers : WF_tunVars(HandleResponse(r))
    /\ \A d \in Devices : WF_tunVars(Thread(d)) /\ WF_tunVars(woken[d] /\ Leave(d))

TunSpec == TunInit /\ [][TunNext]_tunVars
TunFairSpec == TunSpec /\ TunFairness

-----------------------------------------------------------------------------
ThreadPlaces == {"unused", "created", "spawned", "failed", "polling", "refused",
                 "registered", "reading", "left", "ending", "gone"}
Live(d) == thread[d] \in {"registered", "reading"}

(* The types of the fields; who waits for a device holds the lock.         *)
TunTypeOK ==
    /\ virtual_ip \in TunIps \cup {NoTunIp} /\ stopped \in BOOLEAN
    /\ {adapter, device_stop, tun_device} \subseteq Devices \cup {NoDev}
    /\ lock \in Receivers \cup {NoThread}
    /\ {stop_fn, is_stopped, worker, woken} \subseteq [Devices -> BOOLEAN]
    /\ thread \in [Devices -> ThreadPlaces]
    /\ addr \in [Devices -> TunIps \cup {NoTunIp}]
    /\ pc \in [Receivers -> {"idle", "update", "stop", "stopping", "check",
                             "create", "insert", "replace", "panic"}]
    /\ {response, old} \subseteq [Receivers -> TunIps \cup {NoTunIp}]
    /\ dev \in [Receivers -> Devices \cup {NoDev}]
    /\ messages \in 0 .. MAX_MESSAGES
    /\ \A r \in Receivers : lock = r <=> pc[r] \in {"stopping", "check"}

(* The assertions of DeviceAdapter::insert and TunDeviceHelper::start hold *)
(* ("remove before insert", "stop before start"): a receiver that breaks   *)
(* them panics with the new device already in the adapter.                 *)
NoAssertionFails == \A r \in Receivers : pc[r] # "panic"

(* The old device is stopped before the new one is started: two threads    *)
(* never read a tun device and send its packets at the same time.          *)
OneDeviceLive == \A d, e \in Devices : Live(d) /\ Live(e) => d = e

(* When no response is being handled, the device packets are written to    *)
(* has the address of current_device, and is the one a stop would stop.    *)
DeviceHasCurrentIp ==
    (\A r \in Receivers : pc[r] = "idle") /\ adapter # NoDev =>
        addr[adapter] = virtual_ip /\ device_stop = adapter

(* "Make sure it has stopped": a receiver that stops the old device gets   *)
(* through.  It does not when the thread of the old device never came to   *)
(* run (no thread, no poll) or was refused by a stopped service: nobody    *)
(* reports then, and the receiver polls for ever.                          *)
ReplacementCompletes ==
    \A r \in Receivers : (pc[r] = "stopping") ~> (pc[r] = "create")

(* The thread of the device, or its poll, could not be made. *)
NeverRan(d) == d \in Devices /\ thread[d] = "failed"
(* A replacement goes through while the service runs and the thread of the *)
(* old device got its poll, although the stop function may not be set when *)
(* the receiver first calls stop(), the name of the listener may still be  *)
(* taken by the device before, or the thread may end on its own just then. *)
ReplacementCompletesInService ==
    \A r \in Receivers :
        (pc[r] = "stopping") ~>
            (pc[r] = "create" \/ stopped \/ NeverRan(dev[r]))

(* With the registrations handled one after another, the assertions of     *)
(* insert and start hold and one device at most is being read.             *)
OneAtATime == TunTypeOK /\ NoAssertionFails /\ OneDeviceLive
=============================================================================
