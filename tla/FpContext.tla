------------------------------ MODULE FpContext ------------------------------
(***************************************************************************)
(* The context (fp-context.c): enumeration, USB hotplug, the asynchronous  *)
(* initialisation of devices, their announcement to the API user, and      *)
(* their withdrawal after a removal, which waits for the user to close     *)
(* them.  Of a device only what the context depends on is kept: whether it *)
(* is open, its pending operation, and its removal.                        *)
(*                                                                         *)
(* An operator named Bad... is a wrong form of the one after it, which the *)
(* mutation runs put in its place; the specification does not use it.      *)
(***************************************************************************)
EXTENDS Integers, Sequences, FiniteSets

CONSTANTS
    Devices,    \* the USB devices that come and go, each plugged in once
    Supported,  \* those some driver takes (its score is the best and positive)
    MaxNesting  \* bound on main loops run from within device-removed handlers

ASSUME SupportedAssumption == Supported \subseteq Devices /\ IsFiniteSet(Devices)
ASSUME MaxNestingAssumption == MaxNesting \in Nat

VARIABLES
    context,          \* "alive" or "finalized"
    enumerate,        \* fp_context_enumerate: "no", "running" or "returned"
    pending_devices,
    devices,          \* the array of announced devices
    sources,          \* the idle sources that withdraw a device, in their order
    emitting,         \* device-removed emissions on the stack: the device and its index
    dev               \* the devices themselves

vars == <<context, enumerate, pending_devices, devices, sources, emitting, dev>>

Init ==
    /\ context = "alive"
    /\ enumerate = "no"
    /\ pending_devices = 0
    /\ devices = <<>>
    /\ sources = <<>>
    /\ emitting = <<>>
    /\ dev = [d \in Devices |->
                 [usb |-> "absent", init |-> "none", is_open |-> FALSE, op |-> "none",
                  is_removed |-> FALSE, owed |-> FALSE, watched |-> FALSE,
                  announced |-> 0, withdrawn |-> 0]]

Listed(d) == \E i \in 1..Len(devices) : devices[i] = d

\* The main loop runs, possibly from within a handler.
LoopRuns == Len(emitting) <= MaxNesting

-----------------------------------------------------------------------------
(* Discovery *)

\* usb_device_added_cb: a supported device is initialised asynchronously.
Probing(ds) == {d \in ds \intersect Supported : dev[d].init = "none"}

PendingWith(n) == pending_devices + n

\* A device is plugged in; GUsb tells once it enumerates.
Plug(d) ==
    /\ LoopRuns
    /\ dev[d].usb = "absent"
    /\ LET found == context = "alive" /\ enumerate # "no" /\ d \in Supported
       IN  /\ dev' = [dev EXCEPT ![d].usb = "plugged",
                                 ![d].init = IF found THEN "pending" ELSE @]
           /\ pending_devices' = PendingWith(IF found THEN 1 ELSE 0)
    /\ UNCHANGED <<context, enumerate, devices, sources, emitting>>

\* fp_context_enumerate up to its loop: what is there is initialised.
Enumerate ==
    /\ context = "alive" /\ enumerate = "no"
    /\ enumerate' = "running"
    /\ LET there == Probing({d \in Devices : dev[d].usb = "plugged"})
       IN  /\ dev' = [d \in Devices |->
                         IF d \in there THEN [dev[d] EXCEPT !.init = "pending"] ELSE dev[d]]
           /\ pending_devices' = PendingWith(Cardinality(there))
    /\ UNCHANGED <<context, devices, sources, emitting>>

\* The loop ends when no device is pending and the main loop has nothing to do.
EnumerateReturns ==
    /\ enumerate = "running"
    /\ pending_devices = 0 /\ sources = <<>> /\ emitting = <<>>
    /\ enumerate' = "returned"
    /\ UNCHANGED <<context, pending_devices, devices, sources, emitting, dev>>

\* Every end but a cancelled one is counted.
BadCounted(outcome) == outcome = "ok"
Counted(outcome) == outcome # "cancelled"

\* How an initialisation ends: that of a finalized context has been cancelled.
BadInitOutcomes == {"ok", "failed"}
InitOutcomes == IF context = "alive" THEN {"ok", "failed"} ELSE {"cancelled"}

\* async_device_init_done_cb.
InitDone(d, outcome) ==
    /\ LoopRuns
    /\ dev[d].init = "pending"
    /\ outcome \in InitOutcomes
    /\ pending_devices' = pending_devices - (IF Counted(outcome) THEN 1 ELSE 0)
    /\ IF outcome = "ok"
       THEN /\ devices' = Append(devices, d)
            /\ dev' = [dev EXCEPT ![d].init = "ok", ![d].announced = @ + 1]
       ELSE /\ dev' = [dev EXCEPT ![d].init = outcome]
            /\ UNCHANGED devices
    /\ UNCHANGED <<context, enumerate, sources, emitting>>

-----------------------------------------------------------------------------
(* Removal *)

\* device_removed_cb for device d in state s: an open device is withdrawn when it
\* is closed.
BadWaitForClose(s) == FALSE
WaitForClose(s) == s.is_open

AfterRemovedSignal(s) == [s EXCEPT !.owed = FALSE, !.watched = @ \/ WaitForClose(s)]

\* The idle sources attached by a "removed" signal and by a notify::open.
BadOnRemovedSignal(d, s) == <<>>
OnRemovedSignal(d, s) == IF WaitForClose(s) THEN <<>> ELSE <<d>>
OnNotifyOpen(d, s) == IF s.watched THEN <<d>> ELSE <<>>

\* fpi_device_remove: the signal of a busy device waits for its operation.
Removed(s) ==
    IF s.op = "none"
    THEN AfterRemovedSignal([s EXCEPT !.is_removed = TRUE])
    ELSE [s EXCEPT !.is_removed = TRUE, !.owed = TRUE]

\* usb_device_removed_cb looks among the announced devices only.
Unplug(d) ==
    /\ LoopRuns
    /\ dev[d].usb = "plugged"
    /\ LET noticed == context = "alive" /\ Listed(d) /\ ~dev[d].is_removed
           gone    == [dev[d] EXCEPT !.usb = "unplugged"]
       IN  /\ dev' = [dev EXCEPT ![d] = IF noticed THEN Removed(gone) ELSE gone]
           /\ sources' = IF noticed /\ dev[d].op = "none"
                         THEN sources \o OnRemovedSignal(d, dev[d]) ELSE sources
    /\ UNCHANGED <<context, enumerate, pending_devices, devices, emitting>>

IndexOf(d) == CHOOSE i \in 1..Len(devices) : devices[i] = d

\* G_SOURCE_REMOVE: the source is not dispatched again.
BadDispatched(queue) == queue
Dispatched(queue) == Tail(queue)

\* remove_device_idle_cb up to the handlers of device-removed.
RemoveDeviceIdle ==
    /\ LoopRuns
    /\ sources # <<>>
    /\ sources' = Dispatched(sources)
    /\ LET d == Head(sources)
       IN  IF Listed(d)
           THEN /\ emitting' = Append(emitting, [device |-> d, idx |-> IndexOf(d)])
                /\ dev' = [dev EXCEPT ![d].withdrawn = @ + 1]
           ELSE UNCHANGED <<emitting, dev>>
    /\ UNCHANGED <<context, enumerate, pending_devices, devices>>

\* g_ptr_array_remove_index_fast: the last element takes the place.
BadRemoveIndexFast(array, idx) ==
    [i \in 1..(Len(array) - 1) |-> array[i]]
RemoveIndexFast(array, idx) ==
    [i \in 1..(Len(array) - 1) |-> IF i = idx THEN array[Len(array)] ELSE array[i]]

\* The handlers return: what is at the index found before them is removed.
RemovedEmitted ==
    /\ emitting # <<>>
    /\ LET top == emitting[Len(emitting)]
       IN  devices' = IF top.idx <= Len(devices) THEN RemoveIndexFast(devices, top.idx)
                      ELSE devices
    /\ emitting' = SubSeq(emitting, 1, Len(emitting) - 1)
    /\ UNCHANGED <<context, enumerate, pending_devices, sources, dev>>

-----------------------------------------------------------------------------
(* The API user *)

\* The user starts an operation; one told of the removal only closes the device.
MayStart(s, op) ==
    /\ s.op = "none"
    /\ \/ op = "open" /\ ~s.is_open /\ ~s.is_removed
       \/ op = "close" /\ s.is_open
       \/ op = "other" /\ s.is_open /\ ~s.is_removed

Operations == {"open", "close", "other"}

Start(d, op) ==
    /\ context = "alive"
    /\ dev[d].announced > 0 /\ Listed(d)
    /\ MayStart(dev[d], op)
    /\ dev' = [dev EXCEPT ![d].op = op]
    /\ UNCHANGED <<context, enumerate, pending_devices, devices, sources, emitting>>

\* The task of device d returns, its callback starts the next operation or none,
\* then a waiting "removed" signal is emitted.
Return(d, ok, next) ==
    /\ LoopRuns
    /\ dev[d].op # "none"
    /\ LET turned   == dev[d].op = "close" \/ (dev[d].op = "open" /\ ok)
           returned == [dev[d] EXCEPT !.op = "none",
                                      !.is_open = IF turned THEN dev[d].op = "open" ELSE @]
           started  == [returned EXCEPT !.op = next]
           signalled == context = "alive" /\ dev[d].owed
       IN  /\ next = "none" \/ (context = "alive" /\ MayStart(returned, next))
           /\ dev' = [dev EXCEPT ![d] = IF signalled THEN AfterRemovedSignal(started) ELSE started]
           /\ sources' = sources
                  \o (IF turned /\ context = "alive" THEN OnNotifyOpen(d, dev[d]) ELSE <<>>)
                  \o (IF signalled THEN OnRemovedSignal(d, started) ELSE <<>>)
    /\ UNCHANGED <<context, enumerate, pending_devices, devices, emitting>>

\* The last reference goes, outside of the context's own handlers.
Finalize ==
    /\ context = "alive"
    /\ enumerate # "running" /\ emitting = <<>>
    /\ context' = "finalized"
    /\ devices' = <<>>
    /\ sources' = <<>>
    /\ UNCHANGED <<enumerate, pending_devices, emitting, dev>>

Finished ==
    /\ context = "finalized"
    /\ \A d \in Devices : dev[d].init # "pending"
    /\ UNCHANGED vars

-----------------------------------------------------------------------------

Next ==
    \/ Enumerate \/ EnumerateReturns
    \/ RemoveDeviceIdle \/ RemovedEmitted
    \/ Finalize \/ Finished
    \/ \E d \in Devices :
          \/ Plug(d)
          \/ Unplug(d)
          \/ \E outcome \in {"ok", "failed", "cancelled"} : InitDone(d, outcome)
          \/ \E op \in Operations : Start(d, op)
          \/ \E ok \in BOOLEAN, next \in Operations \union {"none"} : Return(d, ok, next)

Spec == Init /\ [][Next]_vars

(* The main loop dispatches, initialisations and operations end, handlers      *)
(* return, and the user closes a device that was removed ("The API user is     *)
(* still required to close a removed device", fp-device.c).                    *)
FairSpec ==
    /\ Spec
    /\ WF_vars(EnumerateReturns)
    /\ WF_vars(RemoveDeviceIdle)
    /\ WF_vars(RemovedEmitted)
    /\ \A d \in Devices :
          /\ WF_vars(\E outcome \in {"ok", "failed", "cancelled"} : InitDone(d, outcome))
          /\ SF_vars(\E ok \in BOOLEAN : Return(d, ok, "none"))
          /\ WF_vars(dev[d].is_removed /\ Start(d, "close"))

-----------------------------------------------------------------------------
(* Properties *)

\* The counter fp_context_enumerate waits for counts the initialisations under way
\* (async_device_init_done_cb, usb_device_added_cb).
PendingAreCounted ==
    context = "alive" =>
        pending_devices = Cardinality({d \in Devices : dev[d].init = "pending"})

\* The devices the user gets are, once each, those that were announced and are not
\* withdrawn, wherever the others stood in the array when they went.
ListMatchesSignals ==
    /\ \A i, j \in 1..Len(devices) : devices[i] = devices[j] => i = j
    /\ \A d \in Devices : dev[d].withdrawn <= dev[d].announced /\ dev[d].announced <= 1
    /\ context = "alive" /\ emitting = <<>> =>
           \A d \in Devices : Listed(d) <=> dev[d].announced > dev[d].withdrawn

\* Every device the context has taken up is accounted for, from its initialisation to
\* its withdrawal.
DevicesAreAccounted == PendingAreCounted /\ ListMatchesSignals

\* fp-context.c on device-removed: "It is guaranteed that the device has been
\* closed before this signal is emitted": for a user that does not reopen it.
ClosedBeforeWithdrawal ==
    [][\A d \in Devices :
          dev'[d].withdrawn > dev[d].withdrawn =>
              dev[d].is_removed /\ ~dev[d].is_open /\ dev[d].op = "none"]_vars

\* A finalized context emits nothing: late initialisations were cancelled, its
\* sources destroyed.
SilentWhenFinalized ==
    [][context = "finalized" =>
          \A d \in Devices : /\ dev'[d].announced = dev[d].announced
                             /\ dev'[d].withdrawn = dev[d].withdrawn]_vars

\* fp_context_enumerate returns, whatever fails or comes and goes meanwhile.
EnumerationEnds == enumerate = "running" ~> enumerate = "returned"

\* A device found to be removed is withdrawn from the context.
RemovedAreWithdrawn ==
    \A d \in Devices :
        dev[d].is_removed ~> dev[d].withdrawn = 1 \/ context = "finalized"

\* The user waits in vain neither for the enumeration nor for a withdrawal.
HotplugSettles == EnumerationEnds /\ RemovedAreWithdrawn

(* A statement of the documentation that the code does not keep *)

\* fp-context.c: device-removed "is emitted when a fingerprint reader is removed":
\* no device that was unplugged stays among the devices for ever.
UnpluggedAreWithdrawn ==
    \A d \in Devices : dev[d].usb = "unplugged" ~> ~Listed(d)
=============================================================================
