--------------------------- MODULE FpContext_proofs ---------------------------
(***************************************************************************)
(* Proofs about FpContext for every set of devices.  What the list of the  *)
(* devices says holds when no handler of device-removed runs a main loop;  *)
(* the count of the pending devices, the order of closing and withdrawal   *)
(* and the silence of a finalized context hold for any nesting.            *)
(***************************************************************************)
EXTENDS FpContext, FiniteSetTheorems, TLAPS

Device == [usb : {"absent", "plugged", "unplugged"},
           init : {"none", "pending", "ok", "failed", "cancelled"},
           is_open : BOOLEAN, op : Operations \union {"none"},
           is_removed : BOOLEAN, owed : BOOLEAN, watched : BOOLEAN,
           announced : {0, 1}, withdrawn : Nat]

TypeOK ==
    /\ context \in {"alive", "finalized"}
    /\ pending_devices \in Int
    /\ sources \in Seq(Devices)
    /\ dev \in [Devices -> Device]

\* Only the operations of a device in the right state run, and only a removed device
\* waits to be closed, which no open operation of it can undo.
DeviceInv(s) ==
    /\ s.usb = "absent" => s.init = "none"
    /\ s.op = "open" => ~s.is_open
    /\ s.op \in {"close", "other"} => s.is_open
    /\ s.owed \/ s.watched => s.is_removed
    /\ s.watched => s.op # "open"
    /\ s.announced = 1 => s.init = "ok"

\* A device an idle source withdraws is closed for good.
Gone(s) == s.is_removed /\ ~s.is_open /\ s.op = "none"

ContextInv ==
    /\ TypeOK
    /\ \A d \in Devices : DeviceInv(dev[d])
    /\ \A i \in 1..Len(sources) : Gone(dev[sources[i]])
    /\ context = "finalized" => sources = <<>>
    /\ PendingAreCounted

\* What ClosedBeforeWithdrawal and SilentWhenFinalized say of a step.
Withdraws == \A d \in Devices :
    dev'[d].withdrawn > dev[d].withdrawn =>
        dev[d].is_removed /\ ~dev[d].is_open /\ dev[d].op = "none"
Silent == context = "finalized" =>
    \A d \in Devices : /\ dev'[d].announced = dev[d].announced
                       /\ dev'[d].withdrawn = dev[d].withdrawn

\* The step announces and withdraws nothing.
SameSignals ==
    \A d \in Devices : /\ dev'[d].announced = dev[d].announced
                       /\ dev'[d].withdrawn = dev[d].withdrawn

-----------------------------------------------------------------------------
(* Steps of one device *)

\* The step turns device d into s and leaves the other devices alone.
Becomes(d, s) ==
    /\ s \in Device /\ dev' \in [Devices -> Device] /\ dev'[d] = s
    /\ \A e \in Devices \ {d} : dev'[e] = dev[e]

Pending == {d \in Devices : dev[d].init = "pending"}

\* One record set is one device become it.
LEMMA SetOne ==
    ASSUME TypeOK, NEW d \in Devices, NEW s \in Device, dev' = [dev EXCEPT ![d] = s]
    PROVE  Becomes(d, s)
BY DEF Becomes, TypeOK

\* A step that changes what is pending in device d at most changes the count by it.
LEMMA PendingCount ==
    ASSUME NEW d \in Devices, NEW s, Becomes(d, s), PendingAreCounted, context = "alive",
           pending_devices' = pending_devices
               + (IF s.init = "pending" THEN 1 ELSE 0)
               - (IF dev[d].init = "pending" THEN 1 ELSE 0)
    PROVE  PendingAreCounted'
<1>1. IsFiniteSet(Pending)
    BY SupportedAssumption, FS_Subset DEF Pending
<1>2. Cardinality(Pending) \in Nat /\ pending_devices = Cardinality(Pending)
    BY <1>1, FS_CardinalityType DEF PendingAreCounted, Pending
<1>3. Pending' = IF s.init = "pending" THEN Pending \union {d} ELSE Pending \ {d}
    BY DEF Pending, Becomes
<1>4. Cardinality(Pending') = Cardinality(Pending)
               + (IF s.init = "pending" THEN 1 ELSE 0)
               - (IF dev[d].init = "pending" THEN 1 ELSE 0)
    <2>1. CASE s.init = "pending"
        <3>1. Cardinality(Pending') = IF d \in Pending THEN Cardinality(Pending)
                                      ELSE Cardinality(Pending) + 1
            BY <1>1, <1>3, <2>1, FS_AddElement
        <3> QED
            BY <1>2, <2>1, <3>1 DEF Pending
    <2>2. CASE s.init # "pending"
        <3>1. Cardinality(Pending') = IF d \in Pending THEN Cardinality(Pending) - 1
                                      ELSE Cardinality(Pending)
            BY <1>1, <1>3, <2>2, FS_RemoveElement
        <3> QED
            BY <1>2, <2>2, <3>1 DEF Pending
    <2> QED
        BY <2>1, <2>2
<1> QED
    BY <1>2, <1>4 DEF PendingAreCounted, Pending

\* A step of device d, which may queue it for its withdrawal.
LEMMA DeviceStepKeeps ==
    ASSUME ContextInv, NEW d \in Devices, NEW s, Becomes(d, s),
           DeviceInv(s), Gone(dev[d]) => Gone(s),
           NEW q \in Seq({d}), sources' = sources \o q,
           q # <<>> => Gone(s) /\ context = "alive",
           context' = context, pending_devices' \in Int, PendingAreCounted',
           s.withdrawn = dev[d].withdrawn,
           context = "finalized" => s.announced = dev[d].announced
    PROVE  /\ ContextInv' /\ Withdraws /\ Silent
           /\ s.announced = dev[d].announced => SameSignals
<1>1. TypeOK /\ q \in Seq(Devices)
    BY DEF ContextInv
<1>2. TypeOK'
    BY <1>1 DEF TypeOK, Becomes
<1>3. \A e \in Devices : DeviceInv(dev'[e]) /\ (Gone(dev[e]) => Gone(dev'[e]))
    BY DEF ContextInv, Becomes
<1>4. ASSUME NEW i \in 1..Len(sources') PROVE Gone(dev'[sources'[i]])
    <2>1. CASE i \in 1..Len(sources)
        <3>1. sources'[i] = sources[i] /\ sources[i] \in Devices
            BY <1>1, <2>1 DEF TypeOK
        <3> QED
            BY <1>3, <2>1, <3>1 DEF ContextInv
    <2>2. CASE i \notin 1..Len(sources)
        <3>1. sources'[i] = d /\ q # <<>>
            BY <1>1, <2>2 DEF TypeOK
        <3> QED
            BY <3>1 DEF Becomes
    <2> QED
        BY <2>1, <2>2
<1>5. context' = "finalized" => sources' = <<>>
    BY DEF ContextInv
<1>6. \A e \in Devices : dev[e].withdrawn \in Nat
    BY <1>1 DEF TypeOK, Device
<1>7. \A e \in Devices : dev'[e].withdrawn = dev[e].withdrawn
    BY DEF Becomes
<1>8. Withdraws /\ Silent
    BY <1>6, <1>7 DEF Withdraws, Silent, Becomes
<1>9. s.announced = dev[d].announced => SameSignals
    BY DEF SameSignals, Becomes
<1> QED
    BY <1>2, <1>3, <1>4, <1>5, <1>8, <1>9 DEF ContextInv

\* A step that attaches no source.
LEMMA NoMoreSources ==
    ASSUME TypeOK, NEW d PROVE <<>> \in Seq({d}) /\ sources \o <<>> = sources
BY DEF TypeOK

\* The sources a step of device d attaches.
LEMMA AttachedSources ==
    ASSUME NEW d \in Devices, NEW q \in {<<>>, <<d>>}, NEW r \in {<<>>, <<d>>}
    PROVE  /\ q \in Seq({d}) /\ q \in Seq(Devices) /\ r \in Seq(Devices)
           /\ q \o r \in Seq({d})
           /\ q \o r # <<>> => q # <<>> \/ r # <<>>
<1>1. <<>> \in Seq({d}) /\ <<d>> \in Seq({d})
    OBVIOUS
<1>2. q \in Seq({d}) /\ r \in Seq({d})
    BY <1>1
<1>3. q \o r \in Seq({d})
    BY <1>2
<1>4. Seq({d}) \subseteq Seq(Devices)
    OBVIOUS
<1>5. <<>> \o <<>> = <<>>
    OBVIOUS
<1> QED
    BY <1>2, <1>3, <1>4, <1>5

\* What is pending stays so.
LEMMA PendingStays ==
    ASSUME ContextInv, NEW d \in Devices, NEW s, Becomes(d, s), s.init = dev[d].init,
           UNCHANGED <<context, pending_devices>>
    PROVE  PendingAreCounted' /\ pending_devices' \in Int
<1>1. Pending' = Pending
    BY DEF Pending, Becomes
<1> QED
    BY <1>1 DEF PendingAreCounted, Pending, ContextInv, TypeOK

\* A device that comes is counted once when it is taken up (usb_device_added_cb).
LEMMA PlugKeeps ==
    ASSUME ContextInv, NEW d \in Devices, Plug(d) PROVE ContextInv' /\ Withdraws /\ Silent /\ SameSignals
<1> DEFINE found == context = "alive" /\ enumerate # "no" /\ d \in Supported
           s == [dev[d] EXCEPT !.usb = "plugged",
                               !.init = IF found THEN "pending" ELSE dev[d].init]
<1>1. dev[d] \in Device /\ DeviceInv(dev[d]) /\ TypeOK
    BY DEF TypeOK, ContextInv
<1>2. s \in Device /\ dev' = [dev EXCEPT ![d] = s]
    BY <1>1 DEF Plug, Device, TypeOK
<1>3. dev[d].init = "none"
    BY <1>1 DEF Plug, DeviceInv
<1>4. Becomes(d, s)
    BY <1>1, <1>2, SetOne
<1>5. DeviceInv(s) /\ (Gone(dev[d]) => Gone(s))
    BY <1>1, <1>3 DEF DeviceInv, Gone, Device
<1>6. /\ s.init = IF found THEN "pending" ELSE "none"
      /\ s.withdrawn = dev[d].withdrawn /\ s.announced = dev[d].announced
    BY <1>1, <1>3 DEF Device
<1>7. pending_devices' = pending_devices + (IF found THEN 1 ELSE 0)
          /\ UNCHANGED <<context, enumerate, devices, sources, emitting>>
    BY DEF Plug, PendingWith
<1> HIDE DEF s, found
<1>8. PendingAreCounted' /\ pending_devices' \in Int
    <2>1. CASE context = "alive"
        BY <1>1, <1>3, <1>4, <1>6, <1>7, <2>1, PendingCount DEF ContextInv, TypeOK
    <2> QED
        BY <1>1, <1>7, <2>1 DEF PendingAreCounted, TypeOK
<1> QED
    BY <1>1, <1>4, <1>5, <1>6, <1>7, <1>8, NoMoreSources, DeviceStepKeeps

\* An initialisation that ends is no longer counted (async_device_init_done_cb).
LEMMA InitDoneKeeps ==
    ASSUME ContextInv, NEW d \in Devices, NEW outcome \in {"ok", "failed", "cancelled"},
           InitDone(d, outcome)
    PROVE  ContextInv' /\ Withdraws /\ Silent
<1> DEFINE s == IF outcome = "ok"
                THEN [dev[d] EXCEPT !.init = "ok", !.announced = dev[d].announced + 1]
                ELSE [dev[d] EXCEPT !.init = outcome]
<1>1. dev[d] \in Device /\ DeviceInv(dev[d]) /\ TypeOK /\ dev[d].init = "pending"
    BY DEF TypeOK, ContextInv, InitDone
<1>2. dev[d].announced = 0
    BY <1>1 DEF DeviceInv, Device
<1>3. s \in Device /\ dev' = [dev EXCEPT ![d] = s]
    <2>1. CASE outcome = "ok"
        <3>1. s = [dev[d] EXCEPT !.init = "ok", !.announced = 1]
            BY <1>2, <2>1
        <3>2. dev' = [dev EXCEPT ![d].init = "ok", ![d].announced = @ + 1]
            BY <2>1 DEF InitDone
        <3>3. dev' = [dev EXCEPT ![d] = [dev[d] EXCEPT !.init = "ok", !.announced = @ + 1]]
            BY <1>1, <3>2 DEF TypeOK
        <3>4. s \in Device
            BY <1>1, <3>1 DEF Device
        <3> QED
            BY <2>1, <3>3, <3>4
    <2>2. CASE outcome # "ok"
        BY <1>1, <2>2 DEF InitDone, Device, TypeOK
    <2> QED
        BY <2>1, <2>2
<1>4. Becomes(d, s)
    BY <1>1, <1>3, SetOne
<1>5. DeviceInv(s) /\ (Gone(dev[d]) => Gone(s))
    BY <1>1, <1>2 DEF DeviceInv, Gone, Device
<1>6. /\ s.init = outcome /\ s.withdrawn = dev[d].withdrawn
      /\ outcome # "ok" => s.announced = dev[d].announced
    BY <1>1 DEF Device
<1>7. /\ pending_devices' = pending_devices - (IF outcome # "cancelled" THEN 1 ELSE 0)
      /\ UNCHANGED <<context, enumerate, sources, emitting>>
      /\ IF context = "alive" THEN outcome # "cancelled" ELSE outcome # "ok"
    BY DEF InitDone, Counted, InitOutcomes
<1> HIDE DEF s
<1>8. PendingAreCounted' /\ pending_devices' \in Int
    <2>1. CASE context = "alive"
        BY <1>1, <1>4, <1>6, <1>7, <2>1, PendingCount DEF ContextInv, TypeOK
    <2> QED
        BY <1>1, <1>7, <2>1 DEF PendingAreCounted, TypeOK
<1> QED
    BY <1>1, <1>4, <1>5, <1>6, <1>7, <1>8, NoMoreSources, DeviceStepKeeps

\* The user starts no operation on a device that waits for its withdrawal.
LEMMA StartKeeps ==
    ASSUME ContextInv, NEW d \in Devices, NEW op \in Operations, Start(d, op)
    PROVE  ContextInv' /\ Withdraws /\ Silent /\ SameSignals
<1> DEFINE s == [dev[d] EXCEPT !.op = op]
<1>1. dev[d] \in Device /\ DeviceInv(dev[d]) /\ TypeOK
    BY DEF TypeOK, ContextInv
<1>2. s \in Device /\ dev' = [dev EXCEPT ![d] = s]
    BY <1>1 DEF Start, Device, TypeOK
<1>3. Becomes(d, s)
    BY <1>1, <1>2, SetOne
<1>4. /\ DeviceInv(s) /\ (Gone(dev[d]) => Gone(s)) /\ s.init = dev[d].init
      /\ s.withdrawn = dev[d].withdrawn /\ s.announced = dev[d].announced
    BY <1>1 DEF Start, MayStart, DeviceInv, Gone, Device, Operations
<1>5. UNCHANGED <<context, enumerate, pending_devices, devices, sources, emitting>>
    BY DEF Start
<1> HIDE DEF s
<1> QED
    BY <1>1, <1>3, <1>4, <1>5, PendingStays, NoMoreSources, DeviceStepKeeps

\* A removal queues the withdrawal of a closed device only (device_removed_cb).
LEMMA UnplugKeeps ==
    ASSUME ContextInv, NEW d \in Devices, Unplug(d) PROVE ContextInv' /\ Withdraws /\ Silent /\ SameSignals
<1> DEFINE noticed == context = "alive" /\ Listed(d) /\ ~dev[d].is_removed
           gone == [dev[d] EXCEPT !.usb = "unplugged"]
           s == IF noticed THEN Removed(gone) ELSE gone
           q == IF noticed /\ dev[d].op = "none" THEN OnRemovedSignal(d, dev[d]) ELSE <<>>
<1>1. dev[d] \in Device /\ DeviceInv(dev[d]) /\ TypeOK
    BY DEF TypeOK, ContextInv
<1>2. /\ s \in Device /\ dev' = [dev EXCEPT ![d] = s] /\ s.init = dev[d].init
      /\ s.withdrawn = dev[d].withdrawn /\ s.announced = dev[d].announced
    BY <1>1 DEF Unplug, Device, TypeOK, Removed, AfterRemovedSignal, WaitForClose
<1>3. Becomes(d, s)
    BY <1>1, <1>2, SetOne
<1>4. DeviceInv(s) /\ (Gone(dev[d]) => Gone(s))
    BY <1>1 DEF DeviceInv, Gone, Device, Removed, AfterRemovedSignal, WaitForClose
<1>5. UNCHANGED <<context, enumerate, pending_devices, devices, emitting>>
    BY DEF Unplug
<1>6. q # <<>> => /\ q = <<d>> /\ Gone(s) /\ context = "alive"
    BY <1>1 DEF OnRemovedSignal, WaitForClose, Gone, Removed, AfterRemovedSignal, Device
<1>7. sources' = sources \o q
    <2>1. CASE noticed /\ dev[d].op = "none"
        BY <2>1 DEF Unplug
    <2>2. CASE ~(noticed /\ dev[d].op = "none")
        <3>1. sources' = sources /\ q = <<>>
            BY <2>2 DEF Unplug
        <3> QED
            BY <1>1, <3>1, NoMoreSources
    <2> QED
        BY <2>1, <2>2
<1> HIDE DEF s, q
<1>8. q \in Seq({d})
    BY <1>6, AttachedSources
<1> QED
    BY <1>1, <1>2, <1>3, <1>4, <1>5, <1>6, <1>7, <1>8, PendingStays, DeviceStepKeeps

\* The end of an operation queues the withdrawals that waited for it.
LEMMA ReturnKeeps ==
    ASSUME ContextInv, NEW d \in Devices, NEW ok \in BOOLEAN,
           NEW next \in Operations \union {"none"}, Return(d, ok, next)
    PROVE  ContextInv' /\ Withdraws /\ Silent /\ SameSignals
<1> DEFINE turned == dev[d].op = "close" \/ (dev[d].op = "open" /\ ok)
           returned == [dev[d] EXCEPT !.op = "none",
                                      !.is_open = IF turned THEN dev[d].op = "open"
                                                  ELSE dev[d].is_open]
           started == [returned EXCEPT !.op = next]
           signalled == context = "alive" /\ dev[d].owed
           s == IF signalled THEN AfterRemovedSignal(started) ELSE started
           q1 == IF turned /\ context = "alive" THEN OnNotifyOpen(d, dev[d]) ELSE <<>>
           q2 == IF signalled THEN OnRemovedSignal(d, started) ELSE <<>>
<1>1. dev[d] \in Device /\ DeviceInv(dev[d]) /\ TypeOK /\ dev[d].op # "none"
    BY DEF TypeOK, ContextInv, Return
<1>2. /\ dev' = [dev EXCEPT ![d] = s] /\ sources' = (sources \o q1) \o q2
      /\ UNCHANGED <<context, enumerate, pending_devices, devices, emitting>>
      /\ next = "none" \/ MayStart(returned, next)
    BY DEF Return
<1>3. returned \in Device /\ returned.op = "none" /\ (turned => returned.is_open = (dev[d].op = "open"))
          /\ (~turned => returned.is_open = dev[d].is_open)
          /\ \A f \in {"usb", "init", "is_removed", "owed", "watched", "announced", "withdrawn"} :
                 returned[f] = dev[d][f]
    BY <1>1 DEF Device
<1> HIDE DEF returned
<1>4. started \in Device /\ started.op = next
          /\ \A f \in {"usb", "init", "is_open", "is_removed", "owed", "watched", "announced", "withdrawn"} :
                 started[f] = returned[f]
    BY <1>3 DEF Device
<1> HIDE DEF started
<1>5. s = IF signalled THEN [started EXCEPT !.owed = FALSE,
                                          !.watched = started.watched \/ started.is_open]
          ELSE started
    BY DEF AfterRemovedSignal, WaitForClose
<1> HIDE DEF signalled, s
<1>6. /\ s \in Device /\ s.op = next
      /\ \A f \in {"usb", "init", "is_open", "is_removed", "announced", "withdrawn"} :
             s[f] = returned[f]
      /\ s.watched = IF signalled THEN returned.watched \/ returned.is_open ELSE returned.watched
      /\ s.owed = IF signalled THEN FALSE ELSE returned.owed
    BY <1>3, <1>4, <1>5 DEF Device
<1>7. /\ Becomes(d, s) /\ s.init = dev[d].init
      /\ s.withdrawn = dev[d].withdrawn /\ s.announced = dev[d].announced
    BY <1>1, <1>2, <1>3, <1>6, SetOne
<1>8. dev[d].owed => dev[d].is_removed
    BY <1>1 DEF DeviceInv
<1>9. DeviceInv(s)
    BY <1>1, <1>2, <1>3, <1>6, <1>8
    DEF DeviceInv, MayStart, signalled, Device, Operations
<1>10. ~Gone(dev[d])
    BY <1>1 DEF Gone
<1>11. q1 # <<>> => q1 = <<d>> /\ Gone(s) /\ context = "alive"
    BY <1>1, <1>2, <1>3, <1>6 DEF OnNotifyOpen, DeviceInv, Gone, MayStart, Operations
<1>12. q2 # <<>> => q2 = <<d>> /\ Gone(s) /\ context = "alive"
    BY <1>1, <1>2, <1>3, <1>4, <1>6, <1>8
    DEF OnRemovedSignal, WaitForClose, signalled, DeviceInv, Gone, MayStart, Operations
<1> HIDE DEF q1, q2
<1>13. /\ q1 \o q2 \in Seq({d}) /\ q1 \in Seq(Devices) /\ q2 \in Seq(Devices)
       /\ q1 \o q2 # <<>> => q1 # <<>> \/ q2 # <<>>
    BY <1>11, <1>12, AttachedSources
<1>14. sources' = sources \o (q1 \o q2)
    BY <1>1, <1>2, <1>13 DEF TypeOK
<1>15. q1 \o q2 # <<>> => Gone(s) /\ context = "alive"
    BY <1>11, <1>12, <1>13
<1> QED
    BY <1>1, <1>2, <1>7, <1>9, <1>10, <1>13, <1>14, <1>15, PendingStays, DeviceStepKeeps
-----------------------------------------------------------------------------
(* The other steps *)

\* The enumeration counts every device it takes up.
LEMMA EnumerateKeeps ==
    ASSUME ContextInv, Enumerate PROVE ContextInv' /\ SameSignals
<1> DEFINE there == Probing({d \in Devices : dev[d].usb = "plugged"})
<1>1. TypeOK /\ \A d \in Devices : dev[d] \in Device /\ DeviceInv(dev[d])
    BY DEF TypeOK, ContextInv
<1>2. \A d \in there : d \in Devices /\ dev[d].usb = "plugged" /\ dev[d].init = "none"
    BY DEF Probing
<1>3. /\ pending_devices' = pending_devices + Cardinality(there)
      /\ UNCHANGED <<context, devices, sources, emitting>>
      /\ dev' = [d \in Devices |->
                    IF d \in there THEN [dev[d] EXCEPT !.init = "pending"] ELSE dev[d]]
    BY DEF Enumerate, PendingWith
<1> HIDE DEF there
<1>4. \A d \in Devices :
          /\ dev'[d] \in Device
          /\ dev'[d].init = IF d \in there THEN "pending" ELSE dev[d].init
          /\ \A f \in {"usb", "is_open", "op", "is_removed", "owed", "watched", "announced",
                        "withdrawn"} : dev'[d][f] = dev[d][f]
    BY <1>1, <1>3 DEF Device
<1>5. IsFiniteSet(Pending) /\ IsFiniteSet(there) /\ Pending \intersect there = {}
    BY <1>2, SupportedAssumption, FS_Subset DEF Pending
<1>6. Pending' = Pending \union there
    BY <1>2, <1>4 DEF Pending
<1>7. Cardinality(Pending') = Cardinality(Pending) + Cardinality(there)
    <2>1. Cardinality(Pending \union there)
              = Cardinality(Pending) + Cardinality(there) - Cardinality(Pending \intersect there)
        BY <1>5, FS_Union
    <2>2. Cardinality(Pending \intersect there) = 0
        BY <1>5, FS_EmptySet
    <2>3. Cardinality(Pending) \in Nat /\ Cardinality(there) \in Nat
        BY <1>5, FS_CardinalityType
    <2> QED
        BY <1>6, <2>1, <2>2, <2>3
<1>8. Cardinality(there) \in Nat
    BY <1>5, FS_CardinalityType
<1>9. PendingAreCounted'
    BY <1>3, <1>7 DEF PendingAreCounted, Pending, ContextInv
<1>10. TypeOK'
    BY <1>1, <1>3, <1>4, <1>8 DEF TypeOK
<1>11. \A d \in Devices : DeviceInv(dev'[d]) /\ (Gone(dev[d]) => Gone(dev'[d]))
    BY <1>1, <1>2, <1>4 DEF DeviceInv, Gone, Device
<1> QED
    BY <1>1, <1>3, <1>4, <1>9, <1>10, <1>11 DEF ContextInv, TypeOK, SameSignals

\* The queue without its head.
LEMMA TailOfSources ==
    ASSUME TypeOK, sources # <<>>
    PROVE  /\ Tail(sources) \in Seq(Devices) /\ Len(Tail(sources)) = Len(sources) - 1
           /\ Head(sources) = sources[1] /\ Head(sources) \in Devices
           /\ \A i \in 1..Len(Tail(sources)) :
                  i + 1 \in 1..Len(sources) /\ Tail(sources)[i] = sources[i + 1]
BY DEF TypeOK

\* A withdrawal leaves what is pending and what is gone (remove_device_idle_cb).
LEMMA RemoveDeviceIdleKeeps ==
    ASSUME ContextInv, RemoveDeviceIdle PROVE ContextInv'
<1> DEFINE d == Head(sources)
<1>1. TypeOK /\ sources # <<>> /\ sources' = Tail(sources) /\ d \in Devices
          /\ UNCHANGED <<context, enumerate, pending_devices, devices>>
    BY TailOfSources DEF ContextInv, RemoveDeviceIdle, Dispatched
<1>2. dev[d] \in Device /\ DeviceInv(dev[d])
    BY <1>1 DEF TypeOK, ContextInv
<1> HIDE DEF d
<1>3. \A e \in Devices :
          /\ dev'[e] \in Device
          /\ \A f \in {"usb", "init", "is_open", "op", "is_removed", "owed", "watched", "announced"} :
                 dev'[e][f] = dev[e][f]
    <2>1. dev' = dev \/ dev' = [dev EXCEPT ![d] = [dev[d] EXCEPT !.withdrawn = dev[d].withdrawn + 1]]
        BY <1>1 DEF RemoveDeviceIdle, TypeOK, d
    <2> DEFINE s == [dev[d] EXCEPT !.withdrawn = dev[d].withdrawn + 1]
    <2>2. /\ s \in Device
          /\ \A f \in {"usb", "init", "is_open", "op", "is_removed", "owed", "watched", "announced"} :
                 s[f] = dev[d][f]
        BY <1>2 DEF Device
    <2> HIDE DEF s
    <2>3. \A e \in Devices : dev[e] \in Device
        BY <1>1 DEF TypeOK
    <2>4. \A e \in Devices : dev'[e] = dev[e] \/ (e = d /\ dev'[e] = s)
        BY <1>1, <2>1 DEF TypeOK, s
    <2> QED
        BY <2>2, <2>3, <2>4
<1>4. dev' \in [Devices -> Device]
    BY <1>1, <1>3 DEF TypeOK, RemoveDeviceIdle
<1>5. TypeOK'
    BY <1>1, <1>4, TailOfSources DEF TypeOK
<1>6. \A e \in Devices : DeviceInv(dev'[e]) /\ (Gone(dev[e]) => Gone(dev'[e]))
    BY <1>1, <1>3 DEF ContextInv, DeviceInv, Gone
<1>7. \A i \in 1..Len(sources') : Gone(dev'[sources'[i]])
    BY <1>1, <1>6, TailOfSources DEF ContextInv, TypeOK
<1>8. Pending' = Pending
    BY <1>3 DEF Pending
<1>9. PendingAreCounted'
    BY <1>1, <1>8 DEF PendingAreCounted, Pending, ContextInv
<1>10. context' # "finalized"
    BY <1>1 DEF ContextInv
<1> QED
    BY <1>5, <1>6, <1>7, <1>9, <1>10 DEF ContextInv

\* The device at the head of the queue, the one withdrawn, is closed for good.
LEMMA IdleWithdrawsClosed ==
    ASSUME ContextInv, RemoveDeviceIdle PROVE Withdraws /\ Silent
<1>1. TypeOK /\ sources # <<>>
    BY DEF ContextInv, RemoveDeviceIdle
<1>2. Gone(dev[Head(sources)]) /\ Head(sources) \in Devices /\ context # "finalized"
    <2>1. 1 \in 1..Len(sources)
        BY <1>1 DEF TypeOK
    <2> QED
        BY <1>1, <2>1, TailOfSources DEF ContextInv
<1>3. \A e \in Devices \ {Head(sources)} : dev'[e] = dev[e]
    BY <1>1, <1>2 DEF RemoveDeviceIdle, TypeOK
<1>4. \A e \in Devices : dev[e].withdrawn \in Nat
    BY <1>1 DEF TypeOK, Device
<1>5. \A e \in Devices : dev'[e].withdrawn > dev[e].withdrawn => e = Head(sources)
    BY <1>3, <1>4
<1> QED
    BY <1>2, <1>5 DEF Withdraws, Silent, Gone

\* A finalized context has no source left.
LEMMA FinalizeKeeps ==
    ASSUME ContextInv, Finalize PROVE ContextInv' /\ SameSignals
<1>1. <<>> \in Seq(Devices) /\ Len(<<>>) = 0
    OBVIOUS
<1> QED
    BY <1>1 DEF Finalize, ContextInv, TypeOK, PendingAreCounted, SameSignals

\* No device is there.
LEMMA ContextInitially == Init => ContextInv
<1> SUFFICES ASSUME Init PROVE ContextInv
    OBVIOUS
<1>1. TypeOK
    BY DEF Init, TypeOK, Device, Operations
<1>2. \A d \in Devices : DeviceInv(dev[d])
    BY DEF Init, DeviceInv
<1>3. Pending = {}
    BY DEF Init, Pending
<1>4. PendingAreCounted
    BY <1>3, FS_EmptySet DEF PendingAreCounted, Pending, Init
<1> QED
    BY <1>1, <1>2, <1>4 DEF Init, ContextInv

\* Every step, whatever its nesting.
LEMMA NextKeepsContextInv ==
    ASSUME ContextInv, [Next]_vars PROVE ContextInv' /\ Withdraws /\ Silent
<1>0. SameSignals => Withdraws /\ Silent
    BY DEF SameSignals, Withdraws, Silent, ContextInv, TypeOK, Device
<1>1. CASE Enumerate
    BY <1>0, <1>1, EnumerateKeeps
<1>2. CASE EnumerateReturns \/ RemovedEmitted \/ Finished \/ UNCHANGED vars
    <2>1. UNCHANGED <<context, pending_devices, sources, dev>>
        BY <1>2 DEF EnumerateReturns, RemovedEmitted, Finished, vars
    <2>2. SameSignals
        BY <2>1 DEF SameSignals
    <2> QED
        BY <1>0, <2>1, <2>2 DEF ContextInv, TypeOK, PendingAreCounted
<1>3. CASE RemoveDeviceIdle
    BY <1>3, RemoveDeviceIdleKeeps, IdleWithdrawsClosed
<1>4. CASE Finalize
    BY <1>0, <1>4, FinalizeKeeps
<1>5. ASSUME NEW d \in Devices,
             \/ Plug(d) \/ Unplug(d)
             \/ \E outcome \in {"ok", "failed", "cancelled"} : InitDone(d, outcome)
             \/ \E op \in Operations : Start(d, op)
             \/ \E ok \in BOOLEAN, next \in Operations \union {"none"} : Return(d, ok, next)
      PROVE  ContextInv' /\ Withdraws /\ Silent
    BY <1>5, PlugKeeps, UnplugKeeps, InitDoneKeeps, StartKeeps, ReturnKeeps
<1> QED
    BY <1>1, <1>2, <1>3, <1>4, <1>5 DEF Next

\* The invariant holds in every reachable state.
LEMMA ContextInvariant == Spec => []ContextInv
<1>1. ContextInv /\ [Next]_vars => ContextInv'
    BY NextKeepsContextInv
<1> QED
    BY <1>1, ContextInitially, PTL DEF Spec

-----------------------------------------------------------------------------
(* The list of the devices *)

\* What the array holds is in it once.
Once(array) == \A i, j \in 1..Len(array) : array[i] = array[j] => i = j
In(d, array) == \E i \in 1..Len(array) : array[i] = d

\* A device whose withdrawal is emitted stands where it was found.
Emits(e) ==
    /\ emitting = <<e>> /\ context = "alive"
    /\ e.idx \in 1..Len(devices) /\ devices[e.idx] = e.device

ListInv ==
    /\ devices \in Seq(Devices) /\ Once(devices)
    /\ \A d \in Devices : dev[d].withdrawn <= dev[d].announced
    /\ \/ /\ emitting = <<>>
          /\ context = "alive" =>
                 \A d \in Devices : In(d, devices) <=> dev[d].announced > dev[d].withdrawn
       \/ \E e \in [device : Devices, idx : Nat] :
             /\ Emits(e)
             /\ \A d \in Devices : In(d, devices) <=>
                    dev[d].announced > dev[d].withdrawn \/ d = e.device
             /\ dev[e.device].withdrawn = dev[e.device].announced

\* The device at the index leaves the array, the others stay.
LEMMA RemoveIndexFastRemoves ==
    ASSUME NEW a \in Seq(Devices), NEW k \in 1..Len(a), Once(a)
    PROVE  LET r == RemoveIndexFast(a, k)
           IN  /\ r \in Seq(Devices) /\ Once(r)
               /\ \A d : In(d, r) <=> In(d, a) /\ d # a[k]
<1> DEFINE r == RemoveIndexFast(a, k)
<1>1. /\ r \in Seq(Devices) /\ Len(r) = Len(a) - 1
      /\ \A i \in 1..(Len(a) - 1) : r[i] = IF i = k THEN a[Len(a)] ELSE a[i]
    BY DEF RemoveIndexFast
<1>2. Len(a) \in Nat /\ k \in 1..Len(a) /\ Len(a) \in 1..Len(a)
    OBVIOUS
<1> HIDE DEF r
<1>3. Once(r)
    BY <1>1, <1>2 DEF Once
<1>4. ASSUME NEW d, In(d, r) PROVE In(d, a) /\ d # a[k]
    BY <1>1, <1>2, <1>4 DEF Once, In
<1>5. ASSUME NEW d, In(d, a), d # a[k] PROVE In(d, r)
    <2>1. PICK i \in 1..Len(a) : a[i] = d /\ i # k
        BY <1>5 DEF In
    <2>2. CASE i = Len(a)
        <3>1. k \in 1..Len(r) /\ r[k] = d
            BY <1>1, <1>2, <2>1, <2>2
        <3> QED
            BY <3>1 DEF In
    <2>3. CASE i # Len(a)
        <3>1. i \in 1..Len(r) /\ r[i] = d
            BY <1>1, <1>2, <2>1, <2>3
        <3> QED
            BY <3>1 DEF In
    <2> QED
        BY <2>2, <2>3
<1> QED
    BY <1>1, <1>3, <1>4, <1>5 DEF r

\* The array is empty.
LEMMA ListInitially == Init => ListInv
<1> SUFFICES ASSUME Init PROVE ListInv
    OBVIOUS
<1>1. <<>> \in Seq(Devices) /\ Len(<<>>) = 0
    OBVIOUS
<1>2. \A d \in Devices : dev[d].announced = 0 /\ dev[d].withdrawn = 0
    BY DEF Init
<1> QED
    BY <1>1, <1>2 DEF Init, ListInv, Once, In

\* A step that announces and withdraws nothing and leaves the array.
LEMMA SameListKeeps ==
    ASSUME ContextInv, ListInv, SameSignals, UNCHANGED <<devices, emitting, context>>
    PROVE  ListInv'
<1>1. \A d \in Devices : /\ dev'[d].announced = dev[d].announced
                         /\ dev'[d].withdrawn = dev[d].withdrawn
    BY DEF SameSignals
<1>2. CASE emitting = <<>>
    BY <1>1, <1>2 DEF ListInv, Once, In, Emits
<1>3. CASE emitting # <<>>
    <2>1. PICK e \in [device : Devices, idx : Nat] :
             /\ Emits(e)
             /\ \A d \in Devices : In(d, devices) <=>
                    dev[d].announced > dev[d].withdrawn \/ d = e.device
             /\ dev[e.device].withdrawn = dev[e.device].announced
        BY <1>3 DEF ListInv
    <2>2. Emits(e)'
        BY <2>1 DEF Emits
    <2>3. \A d \in Devices : In(d, devices') <=>
                    dev'[d].announced > dev'[d].withdrawn \/ d = e.device
        BY <1>1, <2>1
    <2>4. dev'[e.device].withdrawn = dev'[e.device].announced
        BY <1>1, <2>1
    <2>5. /\ devices' \in Seq(Devices) /\ Once(devices')
          /\ \A d \in Devices : dev'[d].withdrawn <= dev'[d].announced
        BY <1>1 DEF ListInv
    <2> QED
        BY <2>2, <2>3, <2>4, <2>5 DEF ListInv
<1> QED
    BY <1>2, <1>3

\* Without nesting a main loop runs only when no withdrawal is emitted.
LEMMA NoNestedLoop ==
    ASSUME MaxNesting = 0, ListInv, LoopRuns
    PROVE  /\ emitting = <<>>
           /\ context = "alive" =>
                 \A d \in Devices : In(d, devices) <=> dev[d].announced > dev[d].withdrawn
<1>1. ASSUME NEW e, emitting = <<e>> PROVE FALSE
    BY <1>1 DEF LoopRuns
<1>2. emitting = <<>>
    BY <1>1 DEF ListInv, Emits
<1> QED
    BY <1>1, <1>2 DEF ListInv, Emits

\* g_ptr_array_add.
LEMMA AppendAdds ==
    ASSUME NEW a \in Seq(Devices), NEW d \in Devices, Once(a), ~In(d, a)
    PROVE  /\ Append(a, d) \in Seq(Devices) /\ Once(Append(a, d))
           /\ \A e : In(e, Append(a, d)) <=> In(e, a) \/ e = d
<1> DEFINE r == Append(a, d)
<1>1. /\ r \in Seq(Devices) /\ Len(r) = Len(a) + 1 /\ r[Len(a) + 1] = d
      /\ \A i \in 1..Len(a) : r[i] = a[i]
    OBVIOUS
<1>2. Len(a) \in Nat
    OBVIOUS
<1> HIDE DEF r
<1>3. \A i \in 1..Len(r) : i \in 1..Len(a) \/ i = Len(a) + 1
    BY <1>1, <1>2
<1>4. Len(a) + 1 \in 1..Len(r) /\ \A i \in 1..Len(a) : i \in 1..Len(r) /\ a[i] # d
    BY <1>1, <1>2 DEF In
<1>5. Once(r)
    BY <1>1, <1>3, <1>4 DEF Once
<1>6. \A e : In(e, r) <=> In(e, a) \/ e = d
    BY <1>1, <1>3, <1>4 DEF In
<1> QED
    BY <1>1, <1>5, <1>6 DEF r

\* A device enters the array as it is announced, for the first time.
LEMMA InitDoneKeepsList ==
    ASSUME MaxNesting = 0, ContextInv, ListInv, NEW d \in Devices,
           NEW outcome \in {"ok", "failed", "cancelled"}, InitDone(d, outcome)
    PROVE  ListInv'
<1>1. dev[d] \in Device /\ DeviceInv(dev[d]) /\ TypeOK /\ dev[d].init = "pending"
          /\ dev \in [Devices -> Device] /\ LoopRuns
    BY DEF TypeOK, ContextInv, InitDone
<1>2. CASE outcome # "ok"
    <2>1. SameSignals
        BY <1>1, <1>2 DEF InitDone, SameSignals, Device
    <2> QED
        BY <1>2, <2>1, SameListKeeps DEF InitDone
<1>3. CASE outcome = "ok"
    <2>1. /\ devices' = Append(devices, d) /\ context = "alive"
          /\ UNCHANGED <<context, emitting>> /\ emitting = <<>>
          /\ \A e \in Devices : In(e, devices) <=> dev[e].announced > dev[e].withdrawn
        BY <1>1, <1>3, NoNestedLoop DEF InitDone, InitOutcomes
    <2>2. dev[d].announced = 0 /\ dev[d].withdrawn = 0
        BY <1>1 DEF DeviceInv, Device, ListInv
    <2>3. ~In(d, devices)
        BY <2>1, <2>2
    <2>4. /\ devices' \in Seq(Devices) /\ Once(devices')
          /\ \A e : In(e, devices') <=> In(e, devices) \/ e = d
        BY <2>1, <2>3, AppendAdds DEF ListInv
    <2>5. dev'[d].announced = 1 /\ dev'[d].withdrawn = 0
        <3>1. dev' = [dev EXCEPT ![d] = [dev[d] EXCEPT !.init = "ok", !.announced = @ + 1]]
            BY <1>1, <1>3 DEF InitDone
        <3> QED
            BY <1>1, <2>2, <3>1 DEF Device
    <2>6. \A e \in Devices \ {d} : dev'[e] = dev[e]
        BY <1>1, <1>3 DEF InitDone
    <2>7. \A e \in Devices : dev'[e].withdrawn <= dev'[e].announced
        BY <2>5, <2>6 DEF ListInv
    <2>8. \A e \in Devices : In(e, devices') <=> dev'[e].announced > dev'[e].withdrawn
        BY <2>1, <2>4, <2>5, <2>6
    <2> QED
        BY <2>1, <2>4, <2>7, <2>8 DEF ListInv
<1> QED
    BY <1>2, <1>3

\* g_ptr_array_find finds a listed device.
LEMMA IndexFound ==
    ASSUME NEW d, In(d, devices)
    PROVE  IndexOf(d) \in 1..Len(devices) /\ devices[IndexOf(d)] = d
BY DEF In, IndexOf

\* The withdrawal is emitted while the device still stands in the array.
LEMMA RemoveDeviceIdleKeepsList ==
    ASSUME MaxNesting = 0, ContextInv, ListInv, RemoveDeviceIdle
    PROVE  ListInv'
<1> DEFINE d == Head(sources)
<1>1. TypeOK /\ sources # <<>> /\ d \in Devices
          /\ UNCHANGED <<context, devices>> /\ LoopRuns /\ dev \in [Devices -> Device]
    BY TailOfSources DEF ContextInv, TypeOK, RemoveDeviceIdle
<1>2. context = "alive"
    BY <1>1 DEF ContextInv, TypeOK
<1>3. /\ emitting = <<>>
      /\ \A e \in Devices : In(e, devices) <=> dev[e].announced > dev[e].withdrawn
    BY <1>1, <1>2, NoNestedLoop
<1>4. CASE ~Listed(d)
    <2>1. UNCHANGED <<emitting, dev>>
        BY <1>4 DEF RemoveDeviceIdle
    <2> QED
        BY <1>1, <2>1, SameListKeeps DEF SameSignals
<1>5. CASE Listed(d)
    <2>1. /\ emitting' = Append(emitting, [device |-> d, idx |-> IndexOf(d)])
          /\ dev' = [dev EXCEPT ![d].withdrawn = @ + 1]
        BY <1>5 DEF RemoveDeviceIdle
    <2>2. IndexOf(d) \in 1..Len(devices) /\ devices[IndexOf(d)] = d /\ In(d, devices)
        BY <1>5, IndexFound DEF Listed, In
    <2>3. PICK e \in [device : Devices, idx : Nat] :
                 e = [device |-> d, idx |-> IndexOf(d)] /\ e.device = d /\ e.idx = IndexOf(d)
        <3>1. IndexOf(d) \in Nat
            BY <2>2 DEF ListInv
        <3>2. [device |-> d, idx |-> IndexOf(d)] \in [device : Devices, idx : Nat]
            BY <1>1, <3>1
        <3> QED
            BY <3>2
    <2>4. emitting' = <<e>>
        BY <1>3, <2>1, <2>3
    <2>5. Emits(e)'
        <3>1. e.idx \in 1..Len(devices) /\ devices[e.idx] = e.device
            BY <2>2, <2>3
        <3>2. context' = "alive" /\ devices' = devices
            BY <1>1, <1>2
        <3> QED
            BY <2>4, <3>1, <3>2 DEF Emits
    <2>6. dev[d] \in Device /\ dev[d].announced > dev[d].withdrawn
        BY <1>1, <1>3, <2>2
    <2>7. dev[d].announced = 1 /\ dev[d].withdrawn = 0
        BY <2>6 DEF Device
    <2>8. dev' = [dev EXCEPT ![d] = [dev[d] EXCEPT !.withdrawn = @ + 1]]
        BY <1>1, <2>1
    <2>9. dev'[d].announced = 1 /\ dev'[d].withdrawn = 1
        BY <1>1, <2>6, <2>7, <2>8 DEF Device
    <2> HIDE DEF d
    <2>10. \A f \in Devices \ {d} : dev'[f] = dev[f]
        BY <1>1, <2>8
    <2>11. \A f \in Devices : dev'[f].withdrawn <= dev'[f].announced
        BY <2>9, <2>10 DEF ListInv
    <2>12. \A f \in Devices : In(f, devices') <=>
                dev'[f].announced > dev'[f].withdrawn \/ f = e.device
        BY <1>1, <1>3, <2>2, <2>3, <2>9, <2>10
    <2>13. devices' \in Seq(Devices) /\ Once(devices')
        BY <1>1 DEF ListInv
    <2>14. dev'[e.device].withdrawn = dev'[e.device].announced
        BY <2>3, <2>9
    <2> QED
        BY <2>3, <2>5, <2>11, <2>12, <2>13, <2>14 DEF ListInv
<1> QED
    BY <1>4, <1>5

\* After the handlers the device, and no other, leaves the array.
LEMMA RemovedEmittedKeepsList ==
    ASSUME ContextInv, ListInv, RemovedEmitted PROVE ListInv'
<1>1. PICK e \in [device : Devices, idx : Nat] :
         /\ Emits(e)
         /\ \A d \in Devices : In(d, devices) <=>
                dev[d].announced > dev[d].withdrawn \/ d = e.device
         /\ dev[e.device].withdrawn = dev[e.device].announced
    BY DEF ListInv, RemovedEmitted
<1>2. Len(<<e>>) = 1 /\ <<e>>[1] = e /\ SubSeq(<<e>>, 1, 0) = <<>>
    OBVIOUS
<1>3. /\ emitting = <<e>> /\ e.idx \in 1..Len(devices) /\ devices[e.idx] = e.device
      /\ devices \in Seq(Devices) /\ Once(devices)
    BY <1>1 DEF Emits, ListInv
<1>4. devices' = RemoveIndexFast(devices, e.idx) /\ emitting' = SubSeq(<<e>>, 1, 0)
    BY <1>2, <1>3 DEF RemovedEmitted
<1>5. /\ devices' \in Seq(Devices) /\ Once(devices')
      /\ \A d : In(d, devices') <=> In(d, devices) /\ d # e.device
    BY <1>3, <1>4, RemoveIndexFastRemoves
<1>6. UNCHANGED <<context, dev>>
    BY DEF RemovedEmitted
<1>7. \A d \in Devices : dev[d] \in Device
    BY DEF ContextInv, TypeOK
<1>8. \A d \in Devices : In(d, devices') <=> dev[d].announced > dev[d].withdrawn
    BY <1>1, <1>5, <1>7 DEF Device
<1> QED
    BY <1>2, <1>4, <1>5, <1>6, <1>8 DEF ListInv

\* A finalized context has an empty array.
LEMMA FinalizeKeepsList ==
    ASSUME ListInv, Finalize PROVE ListInv'
<1>1. <<>> \in Seq(Devices) /\ Len(<<>>) = 0
    OBVIOUS
<1> QED
    BY <1>1 DEF Finalize, ListInv, Once

\* Every step, when no handler runs a main loop.
LEMMA NextKeepsListInv ==
    ASSUME MaxNesting = 0, ContextInv, ListInv, [Next]_vars PROVE ListInv'
<1>1. CASE Enumerate
    BY <1>1, EnumerateKeeps, SameListKeeps DEF Enumerate
<1>2. CASE EnumerateReturns \/ Finished \/ UNCHANGED vars
    BY <1>2, SameListKeeps DEF EnumerateReturns, Finished, vars, SameSignals
<1>3. CASE RemoveDeviceIdle
    BY <1>3, RemoveDeviceIdleKeepsList
<1>4. CASE RemovedEmitted
    BY <1>4, RemovedEmittedKeepsList
<1>5. CASE Finalize
    BY <1>5, FinalizeKeepsList
<1>6. ASSUME NEW d \in Devices,
             \E outcome \in {"ok", "failed", "cancelled"} : InitDone(d, outcome)
      PROVE  ListInv'
    BY <1>6, InitDoneKeepsList
<1>7. ASSUME NEW d \in Devices, Plug(d) \/ Unplug(d) PROVE ListInv'
    BY <1>7, PlugKeeps, UnplugKeeps, SameListKeeps DEF Plug, Unplug
<1>8. ASSUME NEW d \in Devices, \E op \in Operations : Start(d, op) PROVE ListInv'
    BY <1>8, StartKeeps, SameListKeeps DEF Start
<1>9. ASSUME NEW d \in Devices,
             \E ok \in BOOLEAN, next \in Operations \union {"none"} : Return(d, ok, next)
      PROVE  ListInv'
    BY <1>9, ReturnKeeps, SameListKeeps DEF Return
<1> QED
    BY <1>1, <1>2, <1>3, <1>4, <1>5, <1>6, <1>7, <1>8, <1>9 DEF Next

\* The invariant of the array holds in every reachable state.
LEMMA ListInvariant == ASSUME MaxNesting = 0 PROVE Spec => []ListInv
<1>1. ContextInv /\ ListInv /\ [Next]_vars => ListInv'
    BY NextKeepsListInv
<1> QED
    BY <1>1, ListInitially, ContextInvariant, PTL DEF Spec

\* The two invariants give the property the runs check.
LEMMA ListInvMatchesSignals ==
    ASSUME ContextInv, ListInv PROVE ListMatchesSignals
<1>1. \A i, j \in 1..Len(devices) : devices[i] = devices[j] => i = j
    BY DEF ListInv, Once
<1>2. \A d \in Devices : dev[d].withdrawn <= dev[d].announced /\ dev[d].announced <= 1
    <2>1. \A d \in Devices : dev[d].announced \in {0, 1}
        BY DEF ContextInv, TypeOK, Device
    <2> QED
        BY <2>1 DEF ListInv
<1>3. ASSUME context = "alive", emitting = <<>>, NEW d \in Devices
      PROVE  Listed(d) <=> dev[d].announced > dev[d].withdrawn
    BY <1>3 DEF ListInv, Listed, In, Emits
<1> QED
    BY <1>1, <1>2, <1>3 DEF ListMatchesSignals

-----------------------------------------------------------------------------

\* The counter fp_context_enumerate waits for is the number of the initialisations under
\* way, whatever comes, goes and fails and however deep main loops nest.
THEOREM PendingAreCountedCorrect == Spec => []PendingAreCounted
<1>1. ContextInv => PendingAreCounted
    BY DEF ContextInv
<1> QED
    BY <1>1, ContextInvariant, PTL

\* When no handler of device-removed runs a main loop, the array holds once each the
\* devices announced and not withdrawn: the swap of g_ptr_array_remove_index_fast loses
\* none of the others.
THEOREM DevicesAreAccountedCorrect ==
    ASSUME MaxNesting = 0 PROVE Spec => []DevicesAreAccounted
<1>1. ContextInv /\ ListInv => DevicesAreAccounted
    BY ListInvMatchesSignals DEF ContextInv, DevicesAreAccounted
<1> QED
    BY <1>1, ContextInvariant, ListInvariant, PTL

\* A device is withdrawn only when it is removed, closed and idle: a queued withdrawal
\* is not overtaken by an operation of the user.
THEOREM ClosedBeforeWithdrawalCorrect == Spec => ClosedBeforeWithdrawal
<1>1. ContextInv /\ [Next]_vars => [Withdraws]_vars
    BY NextKeepsContextInv
<1>2. [][Withdraws]_vars => ClosedBeforeWithdrawal
    BY PTL DEF ClosedBeforeWithdrawal, Withdraws
<1> QED
    BY <1>1, <1>2, ContextInvariant, PTL DEF Spec

\* No device is announced or withdrawn by a finalized context, although the cancelled
\* initialisations of its devices still end and operations still return.
THEOREM SilentWhenFinalizedCorrect == Spec => SilentWhenFinalized
<1>1. ContextInv /\ [Next]_vars => [Silent]_vars
    BY NextKeepsContextInv
<1>2. [][Silent]_vars => SilentWhenFinalized
    BY PTL DEF SilentWhenFinalized, Silent
<1> QED
    BY <1>1, <1>2, ContextInvariant, PTL DEF Spec
=============================================================================
