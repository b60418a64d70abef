--------------------------- MODULE FpDevice_proofs ---------------------------
(***************************************************************************)
(* Proofs about FpDevice for every set of offered operations, every driver *)
(* class and every bound, and about FpTemperature, the other part of       *)
(* fpi-device.c, for all thresholds, rates and delays, when no handler of  *)
(* notify::temperature starts an operation.                                *)
(***************************************************************************)
EXTENDS FpDevice, FpTemperature, TLAPS

LEMMA ActionNames ==
    /\ LongActions \intersect ShortActions = {}
    /\ LongActions \subseteq Actions
    /\ ShortActions \subseteq Actions
    /\ "NONE" \notin Actions
BY DEF Actions, LongActions, ShortActions

-----------------------------------------------------------------------------
(* Type correctness: one lemma per action, in it one step per part of TypeOK *)
(* that the action may change; counters are kept apart from the flags.       *)

LEMMA InitType ==
    ASSUME Init PROVE TypeOK
<1> USE DEF Init
<1>1. TypeCounters
    BY MaxCriticalAssumption, MaxNestingAssumption DEF TypeCounters
<1>2. TypeAction /\ TypeDriver
    BY DEF TypeAction, TypeDriver
<1>3. TypeCancel /\ TypeCritical
    BY DEF TypeCancel, TypeCritical
<1>4. TypeSuspend /\ TypeReturn
    BY DEF TypeSuspend, TypeReturn
<1>5. TypeFlags
    BY DEF TypeFlags
<1> QED
    BY <1>1, <1>2, <1>3, <1>4, <1>5 DEF TypeOK

LEMMA BeginType ==
    ASSUME TypeOK, NEW act \in Actions, NEW drv \in {"queued", "busy"}, Begin(act, drv) PROVE TypeOK'
<1> USE DEF TypeOK, Begin
<1>1. TypeCounters'
    BY DEF TypeCounters, criticalVars, returnVars, removeVars
<1>2. TypeCancel'
    BY DEF TypeCancel, SetupTaskCancellable
<1>3. TypeAction' /\ TypeCritical' /\ TypeSuspend'
    BY DEF TypeAction, TypeCritical, TypeSuspend, criticalVars, suspendVars
<1>4. TypeReturn' /\ TypeFlags' /\ TypeDriver'
    BY DEF TypeReturn, TypeFlags, TypeDriver, returnVars, removeVars
<1> QED
    BY <1>1, <1>2, <1>3, <1>4

LEMMA IdleProbeType ==
    ASSUME TypeOK, IdleProbe PROVE TypeOK'
<1> USE DEF TypeOK, IdleProbe
<1>1. TypeCounters'
    BY DEF TypeCounters, criticalVars, returnVars, removeVars
<1>2. TypeAction' /\ TypeCancel' /\ TypeCritical'
    BY DEF TypeAction, TypeCancel, TypeCritical, cancelVars, criticalVars
<1>3. TypeSuspend' /\ TypeReturn' /\ TypeFlags'
    BY DEF TypeSuspend, TypeReturn, TypeFlags, suspendVars, returnVars, removeVars
<1>4. TypeDriver'
    BY DEF TypeDriver
<1> QED
    BY <1>1, <1>2, <1>3, <1>4

LEMMA ExternalCancelType ==
    ASSUME TypeOK, ExternalCancel PROVE TypeOK'
<1> USE DEF TypeOK, ExternalCancel
<1>1. TypeCounters'
    BY DEF TypeCounters, criticalVars, returnVars, removeVars
<1>2. TypeCancel'
    BY DEF TypeCancel, CancelInternal
<1>3. TypeAction' /\ TypeCritical' /\ TypeSuspend'
    BY DEF TypeAction, TypeCritical, TypeSuspend, criticalVars, suspendVars
<1>4. TypeReturn' /\ TypeFlags' /\ TypeDriver'
    BY DEF TypeReturn, TypeFlags, TypeDriver, returnVars, removeVars, driverVars
<1> QED
    BY <1>1, <1>2, <1>3, <1>4

LEMMA CancelInIdleType ==
    ASSUME TypeOK, CancelInIdle PROVE TypeOK'
<1> USE DEF TypeOK, CancelInIdle
<1>1. TypeCounters'
    BY DEF TypeCounters, returnVars, removeVars
<1>2. TypeCancel'
    BY DEF TypeCancel
<1>3. TypeCritical'
    BY DEF TypeCritical
<1>4. TypeDriver'
    BY DEF TypeDriver
<1>5. TypeFlags'
    BY DEF TypeFlags, removeVars
<1>6. TypeAction' /\ TypeSuspend' /\ TypeReturn'
    BY DEF TypeAction, TypeSuspend, TypeReturn, suspendVars, returnVars
<1> QED
    BY <1>1, <1>2, <1>3, <1>4, <1>5, <1>6

LEMMA BecomeHotType ==
    ASSUME TypeOK, BecomeHot PROVE TypeOK'
<1> USE DEF TypeOK, BecomeHot
<1>1. TypeCounters'
    BY DEF TypeCounters, criticalVars, returnVars, removeVars
<1>2. TypeCancel'
    BY DEF TypeCancel, CancelInternal
<1>3. TypeAction' /\ TypeCritical' /\ TypeSuspend'
    BY DEF TypeAction, TypeCritical, TypeSuspend, criticalVars, suspendVars
<1>4. TypeReturn' /\ TypeFlags' /\ TypeDriver'
    BY DEF TypeReturn, TypeFlags, TypeDriver, returnVars, removeVars, driverVars
<1> QED
    BY <1>1, <1>2, <1>3, <1>4

LEMMA CoolDownType ==
    ASSUME TypeOK, CoolDown PROVE TypeOK'
<1> USE DEF TypeOK, CoolDown
<1>1. TypeCounters'
    BY DEF TypeCounters, criticalVars, returnVars, removeVars
<1>2. TypeAction'
    BY DEF TypeAction
<1>3. TypeCancel'
    BY DEF TypeCancel, cancelVars
<1>4. TypeFlags'
    BY DEF TypeFlags, removeVars
<1>5. TypeCritical' /\ TypeSuspend'
    BY DEF TypeCritical, TypeSuspend, criticalVars, suspendVars
<1>6. TypeReturn' /\ TypeDriver'
    BY DEF TypeReturn, TypeDriver, returnVars, driverVars
<1> QED
    BY <1>1, <1>2, <1>3, <1>4, <1>5, <1>6

LEMMA SuspendType ==
    ASSUME TypeOK, Suspend PROVE TypeOK'
<1> USE DEF TypeOK, Suspend
<1>1. TypeCounters'
    BY DEF TypeCounters, removeVars
<1>2. TypeCancel'
    BY DEF TypeCancel, DeviceSuspend, SuspendComplete, CancelInternal
<1>3. TypeCritical'
    BY DEF TypeCritical, DeviceSuspend
<1>4. TypeSuspend'
    BY DEF TypeSuspend, DeviceSuspend, SuspendComplete
<1>5. TypeReturn'
    BY DEF TypeReturn, DeviceSuspend, SuspendComplete, Handlers
<1>6. TypeDriver'
    BY DEF TypeDriver, DeviceSuspend
<1>7. TypeAction' /\ TypeFlags'
    BY DEF TypeAction, TypeFlags, removeVars
<1> QED
    BY <1>1, <1>2, <1>3, <1>4, <1>5, <1>6, <1>7

LEMMA ResumeType ==
    ASSUME TypeOK, Resume PROVE TypeOK'
<1> USE DEF TypeOK, Resume
<1>1. TypeCounters'
    BY DEF TypeCounters, removeVars, returnVars
<1>2. TypeCritical'
    BY DEF TypeCritical, DeviceResume
<1>3. TypeSuspend'
    BY DEF TypeSuspend, DeviceResume, ResumeComplete
<1>4. TypeFlags'
    BY DEF TypeFlags, DeviceResume, removeVars
<1>5. TypeDriver'
    BY DEF TypeDriver, DeviceResume
<1>6. TypeAction' /\ TypeCancel' /\ TypeReturn'
    BY DEF TypeAction, TypeCancel, TypeReturn, cancelVars, returnVars
<1> QED
    BY <1>1, <1>2, <1>3, <1>4, <1>5, <1>6

LEMMA DriverSuspendCompleteType ==
    ASSUME TypeOK, DriverSuspendComplete PROVE TypeOK'
<1> USE DEF TypeOK, DriverSuspendComplete
<1>1. TypeCounters'
    BY DEF TypeCounters, criticalVars, removeVars
<1>2. TypeCancel'
    BY DEF TypeCancel, SuspendComplete, CancelInternal
<1>3. TypeSuspend'
    BY DEF TypeSuspend, SuspendComplete
<1>4. TypeReturn'
    BY DEF TypeReturn, SuspendComplete, Handlers
<1>5. TypeAction' /\ TypeCritical'
    BY DEF TypeAction, TypeCritical, criticalVars
<1>6. TypeFlags' /\ TypeDriver'
    BY DEF TypeFlags, TypeDriver, removeVars
<1> QED
    BY <1>1, <1>2, <1>3, <1>4, <1>5, <1>6

LEMMA DriverResumeCompleteType ==
    ASSUME TypeOK, DriverResumeComplete PROVE TypeOK'
<1> USE DEF TypeOK, DriverResumeComplete
<1>1. TypeCounters'
    BY DEF TypeCounters, criticalVars, removeVars, returnVars
<1>2. TypeSuspend'
    BY DEF TypeSuspend, ResumeComplete
<1>3. TypeAction' /\ TypeCancel' /\ TypeCritical'
    BY DEF TypeAction, TypeCancel, TypeCritical, cancelVars, criticalVars
<1>4. TypeReturn' /\ TypeFlags' /\ TypeDriver'
    BY DEF TypeReturn, TypeFlags, TypeDriver, removeVars, returnVars
<1> QED
    BY <1>1, <1>2, <1>3, <1>4

LEMMA CriticalEnterType ==
    ASSUME TypeOK, CriticalEnter PROVE TypeOK'
<1> USE DEF TypeOK, CriticalEnter
<1>1. TypeCounters'
    BY MaxCriticalAssumption DEF TypeCounters, returnVars, removeVars
<1>2. TypeCritical'
    BY DEF TypeCritical
<1>3. TypeAction' /\ TypeCancel' /\ TypeSuspend'
    BY DEF TypeAction, TypeCancel, TypeSuspend, cancelVars, suspendVars
<1>4. TypeReturn' /\ TypeFlags' /\ TypeDriver'
    BY DEF TypeReturn, TypeFlags, TypeDriver, returnVars, removeVars, driverVars
<1> QED
    BY <1>1, <1>2, <1>3, <1>4

LEMMA CriticalLeaveType ==
    ASSUME TypeOK, CriticalLeave PROVE TypeOK'
<1> USE DEF TypeOK, CriticalLeave
<1>1. TypeCounters'
    BY MaxCriticalAssumption DEF TypeCounters, InCriticalSection, returnVars, removeVars
<1>2. TypeCritical'
    BY DEF TypeCritical, FlushAfterLeave
<1>3. TypeAction' /\ TypeCancel' /\ TypeSuspend'
    BY DEF TypeAction, TypeCancel, TypeSuspend, cancelVars, suspendVars
<1>4. TypeReturn' /\ TypeFlags' /\ TypeDriver'
    BY DEF TypeReturn, TypeFlags, TypeDriver, returnVars, removeVars, driverVars
<1> QED
    BY <1>1, <1>2, <1>3, <1>4

LEMMA CriticalFlushType ==
    ASSUME TypeOK, CriticalFlush PROVE TypeOK'
<1> USE DEF TypeOK, CriticalFlush
<1>1. TypeCounters'
    BY DEF TypeCounters, removeVars
<1>2. TypeCancel'
    BY DEF TypeCancel, DeviceSuspend, SuspendComplete, CancelInternal
<1>3. TypeCritical'
    BY DEF TypeCritical, DeviceSuspend, DeviceResume
<1>4. TypeSuspend'
    BY DEF TypeSuspend, DeviceSuspend, SuspendComplete, DeviceResume, ResumeComplete,
       suspendVars
<1>5. TypeReturn'
    BY DEF TypeReturn, DeviceSuspend, SuspendComplete, Handlers
<1>6. TypeFlags'
    BY DEF TypeFlags, DeviceResume, removeVars
<1>7. TypeDriver'
    BY DEF TypeDriver, DeviceSuspend, DeviceResume
<1>8. TypeAction'
    BY DEF TypeAction
<1> QED
    BY <1>1, <1>2, <1>3, <1>4, <1>5, <1>6, <1>7, <1>8

LEMMA DriverCompleteType ==
    ASSUME TypeOK, NEW result \in {"ok", "error"}, DriverComplete(result) PROVE TypeOK'
<1> USE DEF TypeOK, DriverComplete
<1>1. TypeCounters'
    BY DEF TypeCounters, criticalVars, returnVars, removeVars
<1>2. TypeAction'
    BY DEF TypeAction
<1>3. TypeCancel'
    BY DEF TypeCancel, ClearCancelAction
<1>4. TypeCritical' /\ TypeSuspend' /\ TypeReturn'
    BY DEF TypeCritical, TypeSuspend, TypeReturn, criticalVars, suspendVars, returnVars
<1>5. TypeFlags' /\ TypeDriver'
    BY DEF TypeFlags, TypeDriver, removeVars
<1> QED
    BY <1>1, <1>2, <1>3, <1>4, <1>5

LEMMA ReturnInIdleType ==
    ASSUME TypeOK, ReturnInIdle PROVE TypeOK'
<1> USE DEF TypeOK, ReturnInIdle
<1>1. TypeCounters'
    BY MaxNestingAssumption DEF TypeCounters, criticalVars, removeVars
<1>2. TypeAction'
    BY DEF TypeAction
<1>3. TypeCancel'
    BY DEF TypeCancel
<1>4. TypeReturn'
    BY DEF TypeReturn, Handlers
<1>5. TypeFlags'
    BY DEF TypeFlags, removeVars
<1>6. TypeCritical' /\ TypeSuspend' /\ TypeDriver'
    BY DEF TypeCritical, TypeSuspend, TypeDriver, criticalVars, suspendVars, driverVars
<1> QED
    BY <1>1, <1>2, <1>3, <1>4, <1>5, <1>6

LEMMA TaskNotifyType ==
    ASSUME TypeOK, NEW handler \in Handlers, TaskNotify(handler) PROVE TypeOK'
<1> USE DEF TypeOK, TaskNotify
<1>1. TypeCounters'
    BY DEF TypeCounters, criticalVars
<1>2. TypeSuspend'
    BY DEF TypeSuspend
<1>3. TypeReturn'
    BY DEF TypeReturn, Handlers
<1>4. TypeFlags'
    BY DEF TypeFlags
<1>5. TypeAction' /\ TypeCancel'
    BY DEF TypeAction, TypeCancel, cancelVars
<1>6. TypeCritical' /\ TypeDriver'
    BY DEF TypeCritical, TypeDriver, criticalVars, driverVars
<1> QED
    BY <1>1, <1>2, <1>3, <1>4, <1>5, <1>6

LEMMA ReturnDoneType ==
    ASSUME TypeOK, ReturnDone PROVE TypeOK'
<1> USE DEF TypeOK, ReturnDone
<1>1. TypeCounters'
    BY MaxNestingAssumption DEF TypeCounters, criticalVars, removeVars
<1>2. TypeReturn'
    BY DEF TypeReturn
<1>3. TypeAction' /\ TypeCancel' /\ TypeCritical'
    BY DEF TypeAction, TypeCancel, TypeCritical, cancelVars, criticalVars
<1>4. TypeSuspend' /\ TypeFlags' /\ TypeDriver'
    BY DEF TypeSuspend, TypeFlags, TypeDriver, suspendVars, removeVars, driverVars
<1> QED
    BY <1>1, <1>2, <1>3, <1>4

LEMMA RemoveType ==
    ASSUME TypeOK, Remove PROVE TypeOK'
<1> USE DEF TypeOK, Remove
<1>1. TypeCounters'
    BY DEF TypeCounters, criticalVars
<1>2. TypeReturn'
    BY DEF TypeReturn, RemovedHandler, Handlers
<1>3. TypeFlags'
    BY DEF TypeFlags
<1>4. TypeAction' /\ TypeCancel' /\ TypeCritical'
    BY DEF TypeAction, TypeCancel, TypeCritical, cancelVars, criticalVars
<1>5. TypeSuspend' /\ TypeDriver'
    BY DEF TypeSuspend, TypeDriver, suspendVars, driverVars
<1> QED
    BY <1>1, <1>2, <1>3, <1>4, <1>5

LEMMA StutterType ==
    ASSUME TypeOK, UNCHANGED vars PROVE TypeOK'
<1> USE DEF TypeOK, vars
<1>1. TypeCounters'
    BY DEF TypeCounters, criticalVars, returnVars, removeVars
<1>2. TypeAction' /\ TypeCancel' /\ TypeCritical'
    BY DEF TypeAction, TypeCancel, TypeCritical, cancelVars, criticalVars
<1>3. TypeSuspend' /\ TypeReturn' /\ TypeFlags' /\ TypeDriver'
    BY DEF TypeSuspend, TypeReturn, TypeFlags, TypeDriver, suspendVars, returnVars,
           removeVars, driverVars
<1> QED
    BY <1>1, <1>2, <1>3

\* The starts of operations all go through Begin.
LEMMA StartsBegin ==
    ASSUME \/ InitAsync \/ Open \/ Close \/ Enroll \/ Verify \/ Identify \/ Capture
           \/ DeletePrint \/ ListPrints \/ ClearStorage
    PROVE  /\ action = "NONE"
           /\ \E act \in Actions, drv \in {"queued", "busy"} : Begin(act, drv)
<1>1. CASE InitAsync
    BY <1>1 DEF InitAsync, Actions, ShortActions
<1>2. CASE Open \/ Close \/ DeletePrint \/ ListPrints \/ ClearStorage
    BY <1>2
    DEF Open, Close, DeletePrint, ListPrints, ClearStorage, Admitted, Busy, Actions,
        ShortActions
<1>3. CASE Enroll \/ Verify \/ Identify \/ Capture
    BY <1>3 DEF Enroll, Verify, Identify, Capture, Admitted, Busy, Actions, LongActions
<1> QED
    BY <1>1, <1>2, <1>3

\* Every report of the driver goes through DriverComplete.
LEMMA DriverActs ==
    ASSUME Driver
    PROVE  \/ CriticalEnter \/ CriticalLeave
           \/ \E result \in {"ok", "error"} : DriverComplete(result)
           \/ DriverSuspendComplete \/ DriverResumeComplete
BY DEF Driver, ActionError, Complete, ProbeComplete, OpenComplete, CloseComplete,
       EnrollComplete, VerifyComplete, IdentifyComplete, CaptureComplete, DeleteComplete,
       ListComplete, ClearStorageComplete

LEMMA NextType ==
    ASSUME TypeOK, [Next]_vars PROVE TypeOK'
<1>1. CASE \/ InitAsync \/ Open \/ Close \/ Enroll \/ Verify \/ Identify \/ Capture
           \/ DeletePrint \/ ListPrints \/ ClearStorage
    BY <1>1, StartsBegin, BeginType
<1>2. CASE ExternalCancel \/ Suspend \/ Resume
    BY <1>2, ExternalCancelType, SuspendType, ResumeType
<1>3. CASE Remove \/ Discarded \/ UNCHANGED vars
    BY <1>3, RemoveType, StutterType DEF Discarded
<1>4. CASE MainLoop
    BY <1>4, IdleProbeType, CancelInIdleType, CriticalFlushType, ReturnInIdleType,
       TaskNotifyType, ReturnDoneType, BecomeHotType, CoolDownType
    DEF MainLoop, Handlers
<1>5. CASE Driver
    BY <1>5, DriverActs, CriticalEnterType, CriticalLeaveType, DriverCompleteType,
       DriverSuspendCompleteType, DriverResumeCompleteType
<1> QED
    BY <1>1, <1>2, <1>3, <1>4, <1>5 DEF Next, User, Context

\* Type correctness of the device's private data (FpDevicePrivate).
THEOREM TypeCorrect == Spec => []TypeOK
<1>1. Init => TypeOK
    BY InitType
<1>2. TypeOK /\ [Next]_vars => TypeOK'
    BY NextType
<1>3. QED
    BY <1>1, <1>2, PTL DEF Spec

-----------------------------------------------------------------------------
(* The invariant behind cancellation and critical sections.  The three       *)
(* properties are inductive together with two facts about what may outlast   *)
(* an operation: a result waiting in the idle source belongs to the current  *)
(* action, and so do the flush source and a queued cancel, which a probe     *)
(* whose vfunc was not called yet does not have.                             *)

ReturnBelongsToAction == idle_return # "none" => action # "NONE"

FlushBelongsToAction ==
    flush \/ cancel_queued => action # "NONE" /\ driver # "queued"

\* What a suspend request does to the cancellation of the current action.
LEMMA SuspendCancels ==
    ASSUME DeviceSuspend
    PROVE  \/ UNCHANGED <<reason, cancellable, idle_cancel>>
           \/ action # "NONE" /\ CancelInternal
BY ActionNames DEF DeviceSuspend, SuspendComplete, SuspendWaits, Actions, LongActions

DeviceInv ==
    /\ DriverWorksForTask
    /\ CancelBelongsToAction
    /\ QueuedRequestsAreFlushed
    /\ ReturnBelongsToAction
    /\ FlushBelongsToAction

LEMMA BeginInv ==
    ASSUME DeviceInv, action = "NONE", NEW act \in Actions, NEW drv \in {"queued", "busy"}, Begin(act, drv) PROVE DeviceInv'
<1> USE DEF DeviceInv, Begin
<1>1. WithinSection' <=> WithinSection
    BY DEF WithinSection, criticalVars
<1>2. DriverWorksForTask'
    BY ActionNames DEF DriverWorksForTask, ReturnBelongsToAction
<1>3. CancelBelongsToAction'
    BY ActionNames
    DEF CancelBelongsToAction, DriverWorksForTask, QueuedRequestsAreFlushed,
        FlushBelongsToAction, ReturnBelongsToAction, criticalVars, SetupTaskCancellable
<1>4. QueuedRequestsAreFlushed'
    BY <1>1 DEF QueuedRequestsAreFlushed, DriverWorksForTask, FlushBelongsToAction,
       criticalVars
<1>5. ReturnBelongsToAction'
    BY ActionNames DEF ReturnBelongsToAction, DriverWorksForTask
<1>6. FlushBelongsToAction'
    BY DEF FlushBelongsToAction, QueuedRequestsAreFlushed, DriverWorksForTask,
       CancelBelongsToAction, criticalVars
<1> QED
    BY <1>2, <1>3, <1>4, <1>5, <1>6

LEMMA IdleProbeInv ==
    ASSUME DeviceInv, IdleProbe PROVE DeviceInv'
<1> USE DEF DeviceInv, IdleProbe
<1>1. WithinSection' <=> WithinSection
    BY DEF WithinSection, criticalVars
<1>2. DriverWorksForTask'
    BY DEF DriverWorksForTask
<1>3. CancelBelongsToAction'
    BY DEF CancelBelongsToAction, DriverWorksForTask, QueuedRequestsAreFlushed,
       FlushBelongsToAction, ReturnBelongsToAction, cancelVars, criticalVars
<1>4. QueuedRequestsAreFlushed'
    BY <1>1 DEF QueuedRequestsAreFlushed, DriverWorksForTask, FlushBelongsToAction,
       criticalVars
<1>5. ReturnBelongsToAction'
    BY DEF ReturnBelongsToAction, DriverWorksForTask
<1>6. FlushBelongsToAction'
    BY DEF FlushBelongsToAction, QueuedRequestsAreFlushed, DriverWorksForTask,
       CancelBelongsToAction, criticalVars
<1> QED
    BY <1>2, <1>3, <1>4, <1>5, <1>6

LEMMA ExternalCancelInv ==
    ASSUME DeviceInv, ExternalCancel PROVE DeviceInv'
<1> USE DEF DeviceInv, ExternalCancel
<1>1. WithinSection' <=> WithinSection
    BY DEF WithinSection, criticalVars
<1>2. DriverWorksForTask'
    BY DEF DriverWorksForTask, driverVars
<1>3. CancelBelongsToAction'
    BY DEF CancelBelongsToAction, DriverWorksForTask, QueuedRequestsAreFlushed,
           FlushBelongsToAction, ReturnBelongsToAction, criticalVars, driverVars,
           CancelInternal
<1>4. QueuedRequestsAreFlushed'
    BY <1>1 DEF QueuedRequestsAreFlushed, DriverWorksForTask, FlushBelongsToAction,
       criticalVars, driverVars
<1>5. ReturnBelongsToAction'
    BY DEF ReturnBelongsToAction, DriverWorksForTask
<1>6. FlushBelongsToAction'
    BY DEF FlushBelongsToAction, QueuedRequestsAreFlushed, DriverWorksForTask,
       CancelBelongsToAction, criticalVars, driverVars
<1> QED
    BY <1>2, <1>3, <1>4, <1>5, <1>6

LEMMA CancelInIdleInv ==
    ASSUME DeviceInv, TypeOK, CancelInIdle PROVE DeviceInv'
<1> USE DEF DeviceInv, CancelInIdle
<1>1. (WithinSection' <=> WithinSection) /\ (MustQueue <=> WithinSection)
    BY DEF WithinSection, MustQueue
<1>2. DriverWorksForTask'
    BY DEF DriverWorksForTask
<1>3. CancelBelongsToAction'
    BY DEF CancelBelongsToAction, DriverWorksForTask, QueuedRequestsAreFlushed,
       FlushBelongsToAction, ReturnBelongsToAction, TypeOK, TypeDriver
<1>4. QueuedRequestsAreFlushed'
    BY <1>1 DEF QueuedRequestsAreFlushed, DriverWorksForTask, FlushBelongsToAction
<1>5. ReturnBelongsToAction'
    BY DEF ReturnBelongsToAction, DriverWorksForTask
<1>6. FlushBelongsToAction'
    BY DEF FlushBelongsToAction, QueuedRequestsAreFlushed, DriverWorksForTask,
       CancelBelongsToAction
<1> QED
    BY <1>2, <1>3, <1>4, <1>5, <1>6

LEMMA BecomeHotInv ==
    ASSUME DeviceInv, BecomeHot PROVE DeviceInv'
<1> USE DEF DeviceInv, BecomeHot
<1>1. WithinSection' <=> WithinSection
    BY DEF WithinSection, criticalVars
<1>2. DriverWorksForTask'
    BY DEF DriverWorksForTask, driverVars
<1>3. CancelBelongsToAction'
    BY DEF CancelBelongsToAction, DriverWorksForTask, QueuedRequestsAreFlushed,
           FlushBelongsToAction, ReturnBelongsToAction, criticalVars, driverVars,
           CancelInternal, LongActions
<1>4. QueuedRequestsAreFlushed'
    BY <1>1 DEF QueuedRequestsAreFlushed, DriverWorksForTask, FlushBelongsToAction,
       criticalVars, driverVars
<1>5. ReturnBelongsToAction'
    BY DEF ReturnBelongsToAction, DriverWorksForTask
<1>6. FlushBelongsToAction'
    BY DEF FlushBelongsToAction, QueuedRequestsAreFlushed, DriverWorksForTask,
       CancelBelongsToAction, criticalVars, driverVars
<1> QED
    BY <1>2, <1>3, <1>4, <1>5, <1>6

LEMMA CoolDownInv ==
    ASSUME DeviceInv, CoolDown PROVE DeviceInv'
<1> USE DEF DeviceInv, CoolDown
<1>1. WithinSection' <=> WithinSection
    BY DEF WithinSection, criticalVars
<1>2. DriverWorksForTask'
    BY DEF DriverWorksForTask, driverVars
<1>3. CancelBelongsToAction'
    BY DEF CancelBelongsToAction, DriverWorksForTask, QueuedRequestsAreFlushed,
       FlushBelongsToAction, ReturnBelongsToAction, cancelVars, criticalVars, driverVars
<1>4. QueuedRequestsAreFlushed'
    BY <1>1 DEF QueuedRequestsAreFlushed, DriverWorksForTask, FlushBelongsToAction,
       criticalVars, driverVars
<1>5. ReturnBelongsToAction'
    BY DEF ReturnBelongsToAction, DriverWorksForTask
<1>6. FlushBelongsToAction'
    BY DEF FlushBelongsToAction, QueuedRequestsAreFlushed, DriverWorksForTask,
       CancelBelongsToAction, criticalVars, driverVars
<1> QED
    BY <1>2, <1>3, <1>4, <1>5, <1>6

LEMMA SuspendInv ==
    ASSUME DeviceInv, Suspend PROVE DeviceInv'
<1> USE DEF DeviceInv, Suspend
<1>1. (WithinSection' <=> WithinSection) /\ (MustQueue <=> WithinSection)
    BY DEF WithinSection, MustQueue
<1>2. DriverWorksForTask'
    BY DEF DriverWorksForTask
<1>3. CancelBelongsToAction'
    <2>1. CASE UNCHANGED <<reason, cancellable, idle_cancel>>
        BY <2>1 DEF CancelBelongsToAction
    <2>2. CASE action # "NONE" /\ CancelInternal
        BY <2>2 DEF CancelBelongsToAction, CancelInternal
    <2> QED
        BY <2>1, <2>2, SuspendCancels
<1>4. QueuedRequestsAreFlushed'
    BY <1>1 DEF QueuedRequestsAreFlushed, DriverWorksForTask, FlushBelongsToAction,
       DeviceSuspend
<1>5. ReturnBelongsToAction'
    BY DEF ReturnBelongsToAction, DriverWorksForTask
<1>6. FlushBelongsToAction'
    BY DEF FlushBelongsToAction, QueuedRequestsAreFlushed, DriverWorksForTask,
       CancelBelongsToAction
<1> QED
    BY <1>2, <1>3, <1>4, <1>5, <1>6

LEMMA ResumeInv ==
    ASSUME DeviceInv, Resume PROVE DeviceInv'
<1> USE DEF DeviceInv, Resume
<1>1. (WithinSection' <=> WithinSection) /\ (MustQueue <=> WithinSection)
    BY DEF WithinSection, MustQueue
<1>2. DriverWorksForTask'
    BY DEF DriverWorksForTask
<1>3. CancelBelongsToAction'
    BY DEF CancelBelongsToAction, DriverWorksForTask, QueuedRequestsAreFlushed,
       FlushBelongsToAction, ReturnBelongsToAction, cancelVars
<1>4. QueuedRequestsAreFlushed'
    BY <1>1 DEF QueuedRequestsAreFlushed, DriverWorksForTask, FlushBelongsToAction,
       DeviceResume
<1>5. ReturnBelongsToAction'
    BY DEF ReturnBelongsToAction, DriverWorksForTask
<1>6. FlushBelongsToAction'
    BY DEF FlushBelongsToAction, QueuedRequestsAreFlushed, DriverWorksForTask,
       CancelBelongsToAction
<1> QED
    BY <1>2, <1>3, <1>4, <1>5, <1>6

LEMMA DriverSuspendCompleteInv ==
    ASSUME DeviceInv, DriverSuspendComplete PROVE DeviceInv'
<1> USE DEF DeviceInv, DriverSuspendComplete
<1>1. WithinSection' <=> WithinSection
    BY DEF WithinSection, criticalVars
<1>2. DriverWorksForTask'
    BY DEF DriverWorksForTask
<1>3. CancelBelongsToAction'
    BY DEF CancelBelongsToAction, DriverWorksForTask, QueuedRequestsAreFlushed,
           FlushBelongsToAction, ReturnBelongsToAction, criticalVars, SuspendComplete,
           SuspendWaits, CancelInternal
<1>4. QueuedRequestsAreFlushed'
    BY <1>1 DEF QueuedRequestsAreFlushed, DriverWorksForTask, FlushBelongsToAction,
       criticalVars
<1>5. ReturnBelongsToAction'
    BY DEF ReturnBelongsToAction, DriverWorksForTask
<1>6. FlushBelongsToAction'
    BY DEF FlushBelongsToAction, QueuedRequestsAreFlushed, DriverWorksForTask,
       CancelBelongsToAction, criticalVars
<1> QED
    BY <1>2, <1>3, <1>4, <1>5, <1>6

LEMMA DriverResumeCompleteInv ==
    ASSUME DeviceInv, DriverResumeComplete PROVE DeviceInv'
<1> USE DEF DeviceInv, DriverResumeComplete
<1>1. WithinSection' <=> WithinSection
    BY DEF WithinSection, criticalVars
<1>2. DriverWorksForTask'
    BY DEF DriverWorksForTask
<1>3. CancelBelongsToAction'
    BY DEF CancelBelongsToAction, DriverWorksForTask, QueuedRequestsAreFlushed,
       FlushBelongsToAction, ReturnBelongsToAction, cancelVars, criticalVars
<1>4. QueuedRequestsAreFlushed'
    BY <1>1 DEF QueuedRequestsAreFlushed, DriverWorksForTask, FlushBelongsToAction,
       criticalVars
<1>5. ReturnBelongsToAction'
    BY DEF ReturnBelongsToAction, DriverWorksForTask
<1>6. FlushBelongsToAction'
    BY DEF FlushBelongsToAction, QueuedRequestsAreFlushed, DriverWorksForTask,
       CancelBelongsToAction, criticalVars
<1> QED
    BY <1>2, <1>3, <1>4, <1>5, <1>6

LEMMA CriticalEnterInv ==
    ASSUME DeviceInv, TypeOK, CriticalEnter PROVE DeviceInv'
<1> USE DEF DeviceInv, CriticalEnter
<1>1. WithinSection'
    BY DEF WithinSection, TypeOK, TypeCounters
<1>2. DriverWorksForTask'
    BY DEF DriverWorksForTask, driverVars
<1>3. CancelBelongsToAction'
    BY DEF CancelBelongsToAction, DriverWorksForTask, QueuedRequestsAreFlushed,
       FlushBelongsToAction, ReturnBelongsToAction, cancelVars, driverVars
<1>4. QueuedRequestsAreFlushed'
    BY <1>1 DEF QueuedRequestsAreFlushed, DriverWorksForTask, FlushBelongsToAction,
       driverVars
<1>5. ReturnBelongsToAction'
    BY DEF ReturnBelongsToAction, DriverWorksForTask
<1>6. FlushBelongsToAction'
    BY DEF FlushBelongsToAction, QueuedRequestsAreFlushed, DriverWorksForTask,
       CancelBelongsToAction, driverVars
<1> QED
    BY <1>2, <1>3, <1>4, <1>5, <1>6

LEMMA CriticalLeaveInv ==
    ASSUME DeviceInv, TypeOK, CriticalLeave PROVE DeviceInv'
<1> USE DEF DeviceInv, CriticalLeave
<1>1. WithinSection /\ (WithinSection' <=> critical_section # 1)
    BY DEF WithinSection, InCriticalSection, TypeOK, TypeCounters
<1>2. DriverWorksForTask'
    BY DEF DriverWorksForTask, driverVars
<1>3. CancelBelongsToAction'
    BY DEF CancelBelongsToAction, DriverWorksForTask, QueuedRequestsAreFlushed,
       FlushBelongsToAction, ReturnBelongsToAction, cancelVars, driverVars
<1>4. QueuedRequestsAreFlushed'
    BY <1>1 DEF QueuedRequestsAreFlushed, DriverWorksForTask, FlushBelongsToAction,
       driverVars, FlushAfterLeave
<1>5. ReturnBelongsToAction'
    BY DEF ReturnBelongsToAction, DriverWorksForTask
<1>6. FlushBelongsToAction'
    BY <1>1 DEF FlushBelongsToAction, QueuedRequestsAreFlushed, DriverWorksForTask,
       CancelBelongsToAction, driverVars, FlushAfterLeave
<1> QED
    BY <1>2, <1>3, <1>4, <1>5, <1>6

LEMMA CriticalFlushInv ==
    ASSUME DeviceInv, TypeOK, CriticalFlush PROVE DeviceInv'
<1> USE DEF DeviceInv, CriticalFlush
<1>1. (WithinSection' <=> WithinSection) /\ (MustQueue <=> WithinSection)
    BY DEF WithinSection, MustQueue
<1>2. DriverWorksForTask'
    BY DEF DriverWorksForTask
<1>3. CancelBelongsToAction'
    <2>1. CASE cancel_queued
        BY <2>1
        DEF CancelBelongsToAction, DriverWorksForTask, FlushBelongsToAction, TypeOK,
            TypeDriver
    <2>2. CASE ~cancel_queued /\ suspend_queued
        <3>1. UNCHANGED <<cancel_queued, drv_cancelled>> /\ DeviceSuspend
            BY <2>2
        <3>2. CASE UNCHANGED <<reason, cancellable, idle_cancel>>
            BY <3>1, <3>2 DEF CancelBelongsToAction
        <3>3. CASE action # "NONE" /\ CancelInternal
            BY <3>1, <3>3 DEF CancelBelongsToAction, CancelInternal
        <3> QED
            BY <3>1, <3>2, <3>3, SuspendCancels
    <2>3. CASE ~cancel_queued /\ ~suspend_queued
        <3>1. UNCHANGED <<cancel_queued, drv_cancelled, reason, cancellable, idle_cancel>>
            BY <2>3
        <3> QED
            BY <3>1 DEF CancelBelongsToAction
    <2> QED
        BY <2>1, <2>2, <2>3
<1>4. QueuedRequestsAreFlushed'
    <2>1. ~WithinSection /\ ~MustQueue
        BY <1>1 DEF QueuedRequestsAreFlushed
    <2>2. CASE cancel_queued
        BY <1>1, <2>1, <2>2 DEF QueuedRequestsAreFlushed
    <2>3. CASE ~cancel_queued /\ suspend_queued
        BY <1>1, <2>1, <2>3 DEF QueuedRequestsAreFlushed
    <2>4. CASE ~cancel_queued /\ ~suspend_queued /\ resume_queued
        BY <1>1, <2>1, <2>4 DEF QueuedRequestsAreFlushed
    <2>5. CASE ~cancel_queued /\ ~suspend_queued /\ ~resume_queued
        <3>1. /\ cancel_queued' = cancel_queued
              /\ suspend_queued' = suspend_queued
              /\ resume_queued' = resume_queued
            BY <2>5
        <3>2. ~cancel_queued' /\ ~suspend_queued' /\ ~resume_queued'
            BY <2>5, <3>1
        <3> QED
            BY <1>1, <2>1, <3>2 DEF QueuedRequestsAreFlushed
    <2> QED
        BY <2>2, <2>3, <2>4, <2>5
<1>5. ReturnBelongsToAction'
    BY DEF ReturnBelongsToAction, DriverWorksForTask
<1>6. FlushBelongsToAction'
    BY DEF FlushBelongsToAction, QueuedRequestsAreFlushed, DriverWorksForTask,
       CancelBelongsToAction
<1> QED
    BY <1>2, <1>3, <1>4, <1>5, <1>6

LEMMA DriverCompleteInv ==
    ASSUME DeviceInv, NEW result \in {"ok", "error"}, DriverComplete(result) PROVE DeviceInv'
<1> USE DEF DeviceInv, DriverComplete
<1>1. ~WithinSection /\ ~WithinSection'
    BY DEF WithinSection, criticalVars
<1>2. DriverWorksForTask'
    BY DEF DriverWorksForTask
<1>3. CancelBelongsToAction'
    BY DEF CancelBelongsToAction, DriverWorksForTask, QueuedRequestsAreFlushed,
       FlushBelongsToAction, ReturnBelongsToAction, criticalVars, ClearCancelAction
<1>4. QueuedRequestsAreFlushed'
    BY <1>1 DEF QueuedRequestsAreFlushed, DriverWorksForTask, FlushBelongsToAction,
       criticalVars
<1>5. ReturnBelongsToAction'
    BY DEF ReturnBelongsToAction, DriverWorksForTask
<1>6. FlushBelongsToAction'
    BY DEF FlushBelongsToAction, QueuedRequestsAreFlushed, DriverWorksForTask,
       CancelBelongsToAction, criticalVars
<1> QED
    BY <1>2, <1>3, <1>4, <1>5, <1>6

LEMMA ReturnInIdleInv ==
    ASSUME DeviceInv, ReturnInIdle PROVE DeviceInv'
<1> USE DEF DeviceInv, ReturnInIdle
<1>1. WithinSection' <=> WithinSection
    BY DEF WithinSection, criticalVars
<1>2. DriverWorksForTask'
    BY DEF DriverWorksForTask, driverVars
<1>3. CancelBelongsToAction'
    BY DEF CancelBelongsToAction, DriverWorksForTask, QueuedRequestsAreFlushed,
       FlushBelongsToAction, ReturnBelongsToAction, criticalVars, driverVars
<1>4. QueuedRequestsAreFlushed'
    BY <1>1 DEF QueuedRequestsAreFlushed, DriverWorksForTask, FlushBelongsToAction,
       criticalVars, driverVars
<1>5. ReturnBelongsToAction'
    BY DEF ReturnBelongsToAction, DriverWorksForTask
<1>6. FlushBelongsToAction'
    BY DEF FlushBelongsToAction, QueuedRequestsAreFlushed, DriverWorksForTask,
       CancelBelongsToAction, criticalVars, driverVars
<1> QED
    BY <1>2, <1>3, <1>4, <1>5, <1>6

LEMMA TaskNotifyInv ==
    ASSUME DeviceInv, NEW handler \in Handlers, TaskNotify(handler) PROVE DeviceInv'
<1> USE DEF DeviceInv, TaskNotify
<1>1. WithinSection' <=> WithinSection
    BY DEF WithinSection, criticalVars
<1>2. DriverWorksForTask'
    BY DEF DriverWorksForTask, driverVars
<1>3. CancelBelongsToAction'
    BY DEF CancelBelongsToAction, DriverWorksForTask, QueuedRequestsAreFlushed,
       FlushBelongsToAction, ReturnBelongsToAction, cancelVars, criticalVars, driverVars
<1>4. QueuedRequestsAreFlushed'
    BY <1>1 DEF QueuedRequestsAreFlushed, DriverWorksForTask, FlushBelongsToAction,
       criticalVars, driverVars
<1>5. ReturnBelongsToAction'
    BY DEF ReturnBelongsToAction, DriverWorksForTask
<1>6. FlushBelongsToAction'
    BY DEF FlushBelongsToAction, QueuedRequestsAreFlushed, DriverWorksForTask,
       CancelBelongsToAction, criticalVars, driverVars
<1> QED
    BY <1>2, <1>3, <1>4, <1>5, <1>6

LEMMA ReturnDoneInv ==
    ASSUME DeviceInv, ReturnDone PROVE DeviceInv'
<1> USE DEF DeviceInv, ReturnDone
<1>1. WithinSection' <=> WithinSection
    BY DEF WithinSection, criticalVars
<1>2. DriverWorksForTask'
    BY DEF DriverWorksForTask, driverVars
<1>3. CancelBelongsToAction'
    BY DEF CancelBelongsToAction, DriverWorksForTask, QueuedRequestsAreFlushed,
       FlushBelongsToAction, ReturnBelongsToAction, cancelVars, criticalVars, driverVars
<1>4. QueuedRequestsAreFlushed'
    BY <1>1 DEF QueuedRequestsAreFlushed, DriverWorksForTask, FlushBelongsToAction,
       criticalVars, driverVars
<1>5. ReturnBelongsToAction'
    BY DEF ReturnBelongsToAction, DriverWorksForTask
<1>6. FlushBelongsToAction'
    BY DEF FlushBelongsToAction, QueuedRequestsAreFlushed, DriverWorksForTask,
       CancelBelongsToAction, criticalVars, driverVars
<1> QED
    BY <1>2, <1>3, <1>4, <1>5, <1>6

LEMMA RemoveInv ==
    ASSUME DeviceInv, Remove PROVE DeviceInv'
<1> USE DEF DeviceInv, Remove
<1>1. WithinSection' <=> WithinSection
    BY DEF WithinSection, criticalVars
<1>2. DriverWorksForTask'
    BY DEF DriverWorksForTask, driverVars
<1>3. CancelBelongsToAction'
    BY DEF CancelBelongsToAction, DriverWorksForTask, QueuedRequestsAreFlushed,
       FlushBelongsToAction, ReturnBelongsToAction, cancelVars, criticalVars, driverVars
<1>4. QueuedRequestsAreFlushed'
    BY <1>1 DEF QueuedRequestsAreFlushed, DriverWorksForTask, FlushBelongsToAction,
       criticalVars, driverVars
<1>5. ReturnBelongsToAction'
    BY DEF ReturnBelongsToAction, DriverWorksForTask
<1>6. FlushBelongsToAction'
    BY DEF FlushBelongsToAction, QueuedRequestsAreFlushed, DriverWorksForTask,
       CancelBelongsToAction, criticalVars, driverVars
<1> QED
    BY <1>2, <1>3, <1>4, <1>5, <1>6

LEMMA StutterInv ==
    ASSUME DeviceInv, UNCHANGED vars PROVE DeviceInv'
<1> USE DEF DeviceInv, vars
<1>1. WithinSection' <=> WithinSection
    BY DEF WithinSection, criticalVars
<1>2. DriverWorksForTask'
    BY DEF DriverWorksForTask, driverVars
<1>3. CancelBelongsToAction'
    BY DEF CancelBelongsToAction, DriverWorksForTask, QueuedRequestsAreFlushed,
       FlushBelongsToAction, ReturnBelongsToAction, cancelVars, criticalVars, driverVars
<1>4. QueuedRequestsAreFlushed'
    BY <1>1 DEF QueuedRequestsAreFlushed, DriverWorksForTask, FlushBelongsToAction,
       criticalVars, driverVars
<1>5. ReturnBelongsToAction'
    BY DEF ReturnBelongsToAction, DriverWorksForTask
<1>6. FlushBelongsToAction'
    BY DEF FlushBelongsToAction, QueuedRequestsAreFlushed, DriverWorksForTask,
       CancelBelongsToAction, criticalVars, driverVars
<1> QED
    BY <1>2, <1>3, <1>4, <1>5, <1>6

LEMMA NextInv ==
    ASSUME TypeOK, DeviceInv, [Next]_vars PROVE DeviceInv'
<1>1. CASE \/ InitAsync \/ Open \/ Close \/ Enroll \/ Verify \/ Identify \/ Capture
           \/ DeletePrint \/ ListPrints \/ ClearStorage
    BY <1>1, StartsBegin, BeginInv
<1>2. CASE ExternalCancel \/ Suspend \/ Resume
    BY <1>2, ExternalCancelInv, SuspendInv, ResumeInv
<1>3. CASE Remove \/ Discarded \/ UNCHANGED vars
    BY <1>3, RemoveInv, StutterInv DEF Discarded
<1>4. CASE MainLoop
    BY <1>4, IdleProbeInv, CancelInIdleInv, CriticalFlushInv, ReturnInIdleInv,
       TaskNotifyInv, ReturnDoneInv, BecomeHotInv, CoolDownInv
    DEF MainLoop, Handlers
<1>5. CASE Driver
    BY <1>5, DriverActs, CriticalEnterInv, CriticalLeaveInv, DriverCompleteInv,
       DriverSuspendCompleteInv, DriverResumeCompleteInv
<1> QED
    BY <1>1, <1>2, <1>3, <1>4, <1>5 DEF Next, User, Context

LEMMA InitInv ==
    ASSUME Init PROVE DeviceInv
BY DEF Init, DeviceInv, DriverWorksForTask, CancelBelongsToAction,
       QueuedRequestsAreFlushed, WithinSection, ReturnBelongsToAction,
       FlushBelongsToAction

LEMMA DeviceInvariant == Spec => []DeviceInv
<1>1. Init => DeviceInv
    BY InitInv
<1>2. TypeOK /\ DeviceInv /\ [Next]_vars => DeviceInv'
    BY NextInv
<1>3. QED
    BY <1>1, <1>2, TypeCorrect, PTL DEF Spec

\* The driver is at work exactly while a task is current and unreported
\* (the busy guards of fp-device.c and fpi_device_return_task_in_idle).
THEOREM DriverWorksForTaskCorrect == Spec => []DriverWorksForTask
<1>1. DeviceInv => DriverWorksForTask
    BY DEF DeviceInv
<1>2. QED
    BY <1>1, DeviceInvariant, PTL

\* No cancellation outlives the operation it was meant for: connected handlers,
\* the idle source, a queued cancel and a vfunc call belong to the current action
\* (clear_device_cancel_action, fpi_device_critical_section_flush_idle_cb).
THEOREM CancelBelongsToActionCorrect == Spec => []CancelBelongsToAction
<1>1. DeviceInv => CancelBelongsToAction
    BY DEF DeviceInv
<1>2. QED
    BY <1>1, DeviceInvariant, PTL

\* A request queued for a critical section keeps its section or its flush source
\* (fpi_device_critical_enter and fpi_device_critical_leave).
THEOREM QueuedRequestsAreFlushedCorrect == Spec => []QueuedRequestsAreFlushed
<1>1. DeviceInv => QueuedRequestsAreFlushed
    BY DEF DeviceInv
<1>2. QED
    BY <1>1, DeviceInvariant, PTL

-----------------------------------------------------------------------------
(* The "removed" signal.  The property is inductive together with the fact   *)
(* that the handler is connected to one task only, and only by a removal.    *)

RemovedHandlerOnce ==
    /\ ~("removed" \in notify /\ "removed" \in ret_notify)
    /\ "removed" \in notify \/ "removed" \in ret_notify => is_removed

RemovedInv == RemovedSignalOwed /\ RemovedHandlerOnce

\* Steps that leave the signal and its handler alone.
LEMMA RemovedFrame ==
    ASSUME RemovedInv,
           UNCHANGED <<is_removed, removed_emitted, ret_notify>>,
           "removed" \in notify' <=> "removed" \in notify,
           action' # "NONE" \/ action' = action
    PROVE  RemovedInv'
<1>1. "removed" \in (notify \union ret_notify)' <=> "removed" \in notify \union ret_notify
    OBVIOUS
<1>2. RemovedSignalOwed'
    BY <1>1 DEF RemovedInv, RemovedSignalOwed
<1>3. RemovedHandlerOnce'
    BY DEF RemovedInv, RemovedHandlerOnce
<1> QED
    BY <1>2, <1>3 DEF RemovedInv

\* A suspend request connects other handlers than that of the removal.
LEMMA SuspendNotifies ==
    ASSUME DeviceSuspend
    PROVE  "removed" \in notify' <=> "removed" \in notify
BY DEF DeviceSuspend, SuspendComplete

LEMMA NextRemoved ==
    ASSUME RemovedInv, [Next]_vars PROVE RemovedInv'
<1>1. CASE \/ InitAsync \/ Open \/ Close \/ Enroll \/ Verify \/ Identify \/ Capture
           \/ DeletePrint \/ ListPrints \/ ClearStorage
    BY <1>1, StartsBegin, ActionNames, RemovedFrame DEF Begin, removeVars, returnVars
<1>2. CASE ExternalCancel \/ Resume
    BY <1>2, RemovedFrame DEF ExternalCancel, Resume, removeVars, returnVars
<1>3. CASE Suspend
    BY <1>3, SuspendNotifies, RemovedFrame DEF Suspend, removeVars
<1>4. CASE DriverSuspendComplete
    BY <1>4, RemovedFrame DEF DriverSuspendComplete, SuspendComplete, removeVars
<1>5. CASE DriverResumeComplete
    BY <1>5, RemovedFrame DEF DriverResumeComplete, removeVars, returnVars
<1>6. CASE IdleProbe \/ CancelInIdle
    BY <1>6, RemovedFrame DEF IdleProbe, CancelInIdle, removeVars, returnVars
<1>7. CASE BecomeHot \/ CoolDown
    BY <1>7, RemovedFrame DEF BecomeHot, CoolDown, removeVars, returnVars
<1>8. CASE CriticalFlush
    BY <1>8, SuspendNotifies, RemovedFrame DEF CriticalFlush, removeVars, returnVars
<1>9. CASE CriticalEnter \/ CriticalLeave
    BY <1>9, RemovedFrame DEF CriticalEnter, CriticalLeave, removeVars, returnVars
<1>10. ASSUME NEW result \in {"ok", "error"}, DriverComplete(result)
      PROVE  RemovedInv'
    BY <1>10, RemovedFrame DEF DriverComplete, removeVars, returnVars
<1>11. CASE ReturnDone \/ Discarded \/ UNCHANGED vars
    BY <1>11, RemovedFrame DEF ReturnDone, Discarded, vars, removeVars, returnVars
<1>12. CASE ReturnInIdle
    <2>1. /\ UNCHANGED <<is_removed, removed_emitted>>
          /\ ret_notify' = ret_notify \union notify /\ notify' = {}
        BY <1>12 DEF ReturnInIdle, removeVars
    <2>2. RemovedSignalOwed'
        <3>1. notify' \union ret_notify' = notify \union ret_notify
            BY <2>1
        <3> QED
            BY <2>1, <3>1 DEF RemovedInv, RemovedSignalOwed
    <2>3. RemovedHandlerOnce'
        BY <2>1 DEF RemovedInv, RemovedHandlerOnce
    <2> QED
        BY <2>2, <2>3 DEF RemovedInv
<1>13. ASSUME NEW handler \in Handlers, TaskNotify(handler)
      PROVE  RemovedInv'
    <2>1. UNCHANGED <<action, is_removed, notify>> /\ ret_notify' = ret_notify \ {handler}
        BY <1>13 DEF TaskNotify
    <2>2. CASE handler = "removed"
        <3>1. removed_emitted' = removed_emitted + 1 /\ "removed" \in ret_notify
            BY <1>13, <2>2 DEF TaskNotify
        <3>2. is_removed /\ "removed" \notin notify /\ removed_emitted = 0
            BY <3>1 DEF RemovedInv, RemovedHandlerOnce, RemovedSignalOwed
        <3>3. removed_emitted' = 1 /\ is_removed' /\ "removed" \notin (notify \union ret_notify)'
            BY <2>1, <2>2, <3>1, <3>2
        <3> QED
            BY <2>1, <3>2, <3>3 DEF RemovedInv, RemovedSignalOwed, RemovedHandlerOnce
    <2>3. CASE handler # "removed"
        <3>1. removed_emitted' = removed_emitted
            BY <1>13, <2>3 DEF TaskNotify
        <3>2. "removed" \in ret_notify' <=> "removed" \in ret_notify
            BY <2>1, <2>3
        <3> QED
            BY <2>1, <3>1, <3>2 DEF RemovedInv, RemovedSignalOwed, RemovedHandlerOnce
    <2> QED
        BY <2>2, <2>3
<1>14. CASE Remove
    <2>1. ~is_removed /\ is_removed' /\ UNCHANGED <<action, ret_notify>>
        BY <1>14 DEF Remove, CanBeRemoved
    <2>2. removed_emitted = 0 /\ "removed" \notin notify /\ "removed" \notin ret_notify
        BY <2>1 DEF RemovedInv, RemovedSignalOwed, RemovedHandlerOnce
    <2>3. CASE action # "NONE"
        <3>1. notify' = notify \union {"removed"} /\ removed_emitted' = removed_emitted
            BY <1>14, <2>3 DEF Remove, RemovedHandler
        <3> QED
            BY <2>1, <2>2, <2>3, <3>1
            DEF RemovedInv, RemovedSignalOwed, RemovedHandlerOnce
    <2>4. CASE action = "NONE"
        <3>1. notify' = notify /\ removed_emitted' = 1
            BY <1>14, <2>2, <2>4 DEF Remove
        <3> QED
            BY <2>1, <2>2, <2>4, <3>1
            DEF RemovedInv, RemovedSignalOwed, RemovedHandlerOnce
    <2> QED
        BY <2>3, <2>4
<1> QED
    BY <1>1, <1>2, <1>3, <1>4, <1>5, <1>6, <1>7, <1>8,
       <1>9, <1>10, <1>11, <1>12, <1>13, <1>14, DriverActs
    DEF Next, User, Context, MainLoop, Handlers

LEMMA RemovedInvariant == Spec => []RemovedInv
<1>1. Init => RemovedInv
    BY DEF Init, RemovedInv, RemovedSignalOwed, RemovedHandlerOnce
<1>2. RemovedInv /\ [Next]_vars => RemovedInv'
    BY NextRemoved
<1>3. QED
    BY <1>1, <1>2, PTL DEF Spec

\* Once the device is removed its "removed" signal is owed exactly once: it was
\* emitted, or one pending task will emit it (fpi_device_remove).
THEOREM RemovedSignalOwedCorrect == Spec => []RemovedSignalOwed
<1>1. RemovedInv => RemovedSignalOwed
    BY DEF RemovedInv
<1>2. QED
    BY <1>1, RemovedInvariant, PTL

-----------------------------------------------------------------------------
(* Critical sections *)

\* Within a critical section no cancel, suspend or resume vfunc is called, from
\* whichever path (fpi-device.h, fpi_device_critical_enter).
THEOREM NoVfuncInCriticalSectionCorrect == Spec => NoVfuncInCriticalSection
<1> DEFINE Quiet == /\ drv_cancelled' => drv_cancelled
                    /\ drv_suspend' \in {"none", drv_suspend}
<1>1. ASSUME DeviceInv, WithinSection, [Next]_vars
      PROVE  Quiet
    <2>1. MustQueue /\ ~flush
        BY <1>1 DEF MustQueue, WithinSection, DeviceInv, QueuedRequestsAreFlushed
    <2>2. CASE \/ InitAsync \/ Open \/ Close \/ Enroll \/ Verify \/ Identify \/ Capture
               \/ DeletePrint \/ ListPrints \/ ClearStorage
        BY <2>2, StartsBegin DEF Begin
    <2>3. CASE CancelInIdle \/ Suspend \/ Resume
        BY <2>1, <2>3 DEF CancelInIdle, Suspend, Resume, DeviceSuspend, DeviceResume
    <2>4. CASE CriticalFlush
        BY <2>1, <2>4 DEF CriticalFlush
    <2>5. CASE \/ ExternalCancel \/ IdleProbe \/ BecomeHot \/ CoolDown \/ ReturnInIdle
               \/ ReturnDone \/ Remove
        <3>1. UNCHANGED <<drv_cancelled, drv_suspend>>
            BY <2>5
            DEF ExternalCancel, IdleProbe, BecomeHot, CoolDown, ReturnInIdle, ReturnDone,
                Remove, driverVars
        <3> QED
            BY <3>1
    <2>6. CASE Discarded \/ UNCHANGED vars
        BY <2>6 DEF Discarded, vars, driverVars
    <2>7. CASE \/ DriverSuspendComplete \/ DriverResumeComplete
               \/ CriticalEnter \/ CriticalLeave
        BY <2>7
        DEF DriverSuspendComplete, DriverResumeComplete, CriticalEnter, CriticalLeave,
            driverVars
    <2>8. ASSUME NEW handler \in Handlers, TaskNotify(handler)
          PROVE  Quiet
        BY <2>8 DEF TaskNotify, driverVars
    <2>9. ASSUME NEW result \in {"ok", "error"}, DriverComplete(result)
          PROVE  Quiet
        BY <2>9 DEF DriverComplete
    <2> QED
        BY <1>1, <2>2, <2>3, <2>4, <2>5, <2>6, <2>7, <2>8, <2>9, DriverActs
        DEF Next, User, Context, MainLoop, Handlers
<1>2. DeviceInv /\ [Next]_vars => [WithinSection => Quiet]_vars
    BY <1>1
<1>3. QED
    BY <1>2, DeviceInvariant, PTL DEF Spec, NoVfuncInCriticalSection

-----------------------------------------------------------------------------
(* Answers to suspend and resume calls.  SuspendTaskOwned is inductive in the *)
(* form that says what each route of an answer means: which of the two calls  *)
(* it answers and whether the device is suspended meanwhile.                  *)

Waiting(handler) == handler \in notify \/ handler \in ret_notify

RouteMeaning ==
    /\ suspend_queued => suspend_resume_task = "suspend" /\ ~is_suspended
    /\ resume_queued => suspend_resume_task = "resume" /\ is_suspended
    /\ drv_suspend = "suspending" => suspend_resume_task = "suspend" /\ ~is_suspended
    /\ drv_suspend = "resuming" => suspend_resume_task = "resume" /\ is_suspended
    /\ Waiting("complete_suspend_resume") => suspend_resume_task = "suspend" /\ ~is_suspended
    /\ Waiting("suspend_completed") => suspend_resume_task = "suspend" /\ is_suspended

RoutesExclude ==
    /\ suspend_queued \/ resume_queued => drv_suspend = "none"
    /\ suspend_queued => ~Waiting("complete_suspend_resume")
    /\ drv_suspend = "suspending" => ~Waiting("complete_suspend_resume")
    /\ \A handler \in {"complete_suspend_resume", "suspend_completed"} :
          ~(handler \in notify /\ handler \in ret_notify)

TaskHasRoute ==
    suspend_resume_task # "none" =>
        \/ suspend_queued \/ resume_queued \/ drv_suspend # "none"
        \/ Waiting("complete_suspend_resume") \/ Waiting("suspend_completed")

AnswerInv == RouteMeaning /\ RoutesExclude /\ TaskHasRoute

\* Steps that neither ask nor answer.
LEMMA AnswerFrame ==
    ASSUME AnswerInv,
           UNCHANGED <<suspend_queued, resume_queued, suspend_resume_task, is_suspended,
                       drv_suspend>>,
           \A handler \in {"complete_suspend_resume", "suspend_completed"} :
               /\ (handler \in notify)' = (handler \in notify)
               /\ (handler \in ret_notify)' = (handler \in ret_notify)
    PROVE  AnswerInv'
BY DEF AnswerInv, RouteMeaning, RoutesExclude, TaskHasRoute, Waiting

\* A suspend request, made by the user or out of the queue when no route is left.
LEMMA DeviceSuspendAnswer ==
    ASSUME ~is_suspended, ~resume_queued, drv_suspend = "none",
           ~Waiting("complete_suspend_resume"), ~Waiting("suspend_completed"),
           DeviceSuspend, UNCHANGED <<resume_queued, ret_notify>>
    PROVE  AnswerInv'
<1> USE DEF AnswerInv, RouteMeaning, RoutesExclude, TaskHasRoute, Waiting
<1>1. CASE IdleForSuspend /\ SuspendComplete("none") /\ ~suspend_queued' /\ UNCHANGED drv_suspend
    BY <1>1 DEF SuspendComplete, SuspendWaits
<1>2. CASE /\ suspend_resume_task' = "suspend"
           /\ IF MustQueue THEN suspend_queued' /\ UNCHANGED drv_suspend
              ELSE ~suspend_queued' /\ drv_suspend' = "suspending"
           /\ UNCHANGED <<is_suspended, notify>>
    BY <1>2
<1>3. CASE SuspendComplete("NOT_SUPPORTED") /\ ~suspend_queued' /\ UNCHANGED drv_suspend
    BY <1>3 DEF SuspendComplete, SuspendWaits
<1>4. CASE /\ notify' = notify \union {"complete_suspend_resume"}
           /\ suspend_resume_task' = "suspend"
           /\ ~suspend_queued'
           /\ UNCHANGED <<is_suspended, drv_suspend>>
    BY <1>4
<1> QED
    BY <1>1, <1>2, <1>3, <1>4 DEF DeviceSuspend

\* A resume request, likewise.
LEMMA DeviceResumeAnswer ==
    ASSUME is_suspended, ~suspend_queued, drv_suspend = "none",
           ~Waiting("complete_suspend_resume"), ~Waiting("suspend_completed"),
           DeviceResume, UNCHANGED <<suspend_queued, notify, ret_notify>>
    PROVE  AnswerInv'
BY DEF AnswerInv, RouteMeaning, RoutesExclude, TaskHasRoute, Waiting, DeviceResume,
       ResumeComplete

LEMMA NextAnswer ==
    ASSUME TypeOK, DeviceInv, AnswerInv, [Next]_vars PROVE AnswerInv'
<1> USE DEF AnswerInv
<1>1. CASE \/ InitAsync \/ Open \/ Close \/ Enroll \/ Verify \/ Identify \/ Capture
           \/ DeletePrint \/ ListPrints \/ ClearStorage
    BY <1>1, StartsBegin, AnswerFrame DEF Begin, criticalVars, suspendVars, returnVars
<1>2. CASE ExternalCancel \/ IdleProbe \/ BecomeHot \/ CoolDown
    <2>1. UNCHANGED <<criticalVars, suspendVars, returnVars, drv_suspend>>
        BY <1>2 DEF ExternalCancel, IdleProbe, BecomeHot, CoolDown, driverVars
    <2> QED
        BY <2>1, AnswerFrame DEF criticalVars, suspendVars, returnVars
<1>3. CASE CancelInIdle
    BY <1>3, AnswerFrame DEF CancelInIdle, suspendVars, returnVars
<1>4. CASE CriticalEnter \/ CriticalLeave
    BY <1>4, AnswerFrame
    DEF CriticalEnter, CriticalLeave, suspendVars, returnVars, driverVars
<1>5. ASSUME NEW result \in {"ok", "error"}, DriverComplete(result)
      PROVE  AnswerInv'
    BY <1>5, AnswerFrame DEF DriverComplete, criticalVars, suspendVars, returnVars
<1>6. CASE ReturnDone \/ Discarded \/ UNCHANGED vars
    <2>1. UNCHANGED <<criticalVars, suspendVars, notify, ret_notify, drv_suspend>>
        BY <1>6 DEF ReturnDone, Discarded, vars, driverVars, returnVars
    <2> QED
        BY <2>1, AnswerFrame DEF criticalVars, suspendVars
<1>7. CASE Remove
    BY <1>7, AnswerFrame DEF Remove, RemovedHandler, criticalVars, suspendVars, driverVars
<1>8. CASE Suspend
    <2>1. suspend_resume_task = "none" /\ ~is_suspended
        BY <1>8 DEF Suspend, SuspendRefused
    <2>2. /\ ~resume_queued /\ drv_suspend = "none"
          /\ ~Waiting("complete_suspend_resume") /\ ~Waiting("suspend_completed")
        BY <2>1 DEF RouteMeaning, TypeOK, TypeDriver
    <2> QED
        BY <1>8, <2>1, <2>2, DeviceSuspendAnswer DEF Suspend
<1>9. CASE Resume
    <2>1. suspend_resume_task = "none" /\ is_suspended
        BY <1>9 DEF Resume
    <2>2. /\ ~suspend_queued /\ drv_suspend = "none"
          /\ ~Waiting("complete_suspend_resume") /\ ~Waiting("suspend_completed")
        BY <2>1 DEF RouteMeaning, TypeOK, TypeDriver
    <2> QED
        BY <1>9, <2>1, <2>2, DeviceResumeAnswer DEF Resume, returnVars
<1>10. CASE DriverSuspendComplete
    <2>1. /\ drv_suspend = "suspending" /\ drv_suspend' = "none"
          /\ UNCHANGED <<suspend_queued, resume_queued, ret_notify>>
          /\ SuspendComplete("none") \/ SuspendComplete("NOT_SUPPORTED")
        BY <1>10 DEF DriverSuspendComplete, criticalVars
    <2>2. /\ ~is_suspended /\ ~suspend_queued /\ ~resume_queued
          /\ ~Waiting("complete_suspend_resume") /\ ~Waiting("suspend_completed")
        BY <2>1 DEF RouteMeaning, RoutesExclude
    <2> QED
        BY <2>1, <2>2
        DEF SuspendComplete, RouteMeaning, RoutesExclude, TaskHasRoute, Waiting
<1>11. CASE DriverResumeComplete
    <2>1. /\ drv_suspend = "resuming" /\ drv_suspend' = "none" /\ ResumeComplete
          /\ UNCHANGED <<suspend_queued, resume_queued, notify, ret_notify>>
        BY <1>11 DEF DriverResumeComplete, criticalVars, returnVars
    <2>2. /\ ~suspend_queued /\ ~resume_queued
          /\ ~Waiting("complete_suspend_resume") /\ ~Waiting("suspend_completed")
        BY <2>1 DEF RouteMeaning, RoutesExclude
    <2> QED
        BY <2>1, <2>2
        DEF ResumeComplete, RouteMeaning, RoutesExclude, TaskHasRoute, Waiting
<1>12. CASE CriticalFlush
    <2>1. flush /\ UNCHANGED ret_notify
        BY <1>12 DEF CriticalFlush
    <2>2. CASE cancel_queued \/ ~(suspend_queued \/ resume_queued)
        BY <1>12, <2>2, AnswerFrame DEF CriticalFlush, suspendVars
    <2>3. CASE ~cancel_queued /\ suspend_queued
        <3>1. /\ ~is_suspended /\ ~resume_queued /\ drv_suspend = "none"
              /\ ~Waiting("complete_suspend_resume") /\ ~Waiting("suspend_completed")
            BY <2>3 DEF RouteMeaning, RoutesExclude
        <3>2. DeviceSuspend /\ UNCHANGED resume_queued
            BY <1>12, <2>3 DEF CriticalFlush
        <3> QED
            BY <2>1, <3>1, <3>2, DeviceSuspendAnswer
    <2>4. CASE ~cancel_queued /\ ~suspend_queued /\ resume_queued
        <3>1. /\ is_suspended /\ drv_suspend = "none"
              /\ ~Waiting("complete_suspend_resume") /\ ~Waiting("suspend_completed")
            BY <2>4 DEF RouteMeaning, RoutesExclude, Waiting
        <3>2. DeviceResume /\ UNCHANGED <<suspend_queued, notify>>
            BY <1>12, <2>4 DEF CriticalFlush
        <3> QED
            BY <2>1, <2>4, <3>1, <3>2, DeviceResumeAnswer
    <2> QED
        BY <2>2, <2>3, <2>4
<1>13. CASE ReturnInIdle
    <2>1. /\ UNCHANGED <<suspend_queued, resume_queued, suspend_resume_task, is_suspended,
                         drv_suspend>>
          /\ ret_notify' = ret_notify \union notify /\ notify' = {}
        BY <1>13 DEF ReturnInIdle, criticalVars, suspendVars, driverVars
    <2>2. \A handler : Waiting(handler)' <=> Waiting(handler)
        BY <2>1 DEF Waiting
    <2> QED
        BY <2>1, <2>2 DEF RouteMeaning, RoutesExclude, TaskHasRoute
<1>14. ASSUME NEW handler \in Handlers, TaskNotify(handler)
      PROVE  AnswerInv'
    <2>1. /\ UNCHANGED <<suspend_queued, resume_queued, is_suspended, drv_suspend, notify>>
          /\ handler \in ret_notify /\ ret_notify' = ret_notify \ {handler}
        BY <1>14 DEF TaskNotify, criticalVars, driverVars
    <2>2. CASE handler = "removed"
        BY <1>14, <2>1, <2>2, AnswerFrame DEF TaskNotify
    <2>3. CASE handler # "removed"
        <3>1. suspend_resume_task' = "none" /\ Waiting(handler)
            BY <1>14, <2>1, <2>3 DEF TaskNotify, Waiting
        <3>2. /\ ~suspend_queued /\ ~resume_queued /\ drv_suspend = "none"
              /\ ~Waiting("complete_suspend_resume")' /\ ~Waiting("suspend_completed")'
            BY <2>1, <2>3, <3>1
            DEF RouteMeaning, RoutesExclude, Waiting, Handlers, TypeOK, TypeDriver
        <3> QED
            BY <2>1, <3>1, <3>2 DEF RouteMeaning, RoutesExclude, TaskHasRoute, Waiting
    <2> QED
        BY <2>2, <2>3
<1> QED
    BY <1>1, <1>2, <1>3, <1>4, <1>5, <1>6, <1>7, <1>8, <1>9, <1>10, <1>11, <1>12, <1>13,
       <1>14, DriverActs
    DEF Next, User, Context, MainLoop, Handlers

\* Every suspend or resume call that was not answered has exactly one place from
\* which it will be, and without a call there is none (fpi_device_suspend,
\* fpi_device_resume and their completions).
THEOREM SuspendTaskOwnedCorrect == Spec => []SuspendTaskOwned
<1>1. Init => AnswerInv
    BY DEF Init, AnswerInv, RouteMeaning, RoutesExclude, TaskHasRoute, Waiting
<1>2. TypeOK /\ DeviceInv /\ AnswerInv /\ [Next]_vars => AnswerInv'
    BY NextAnswer
<1>3. RemovedInv /\ TypeOK /\ AnswerInv => SuspendTaskOwned
    <2> SUFFICES ASSUME RemovedInv, TypeOK, AnswerInv PROVE SuspendTaskOwned
        OBVIOUS
    <2> USE DEF AnswerInv, Waiting
    <2>1. \A route : route \in AnswerRoutes <=>
              \/ route = "suspend_queued" /\ suspend_queued
              \/ route = "resume_queued" /\ resume_queued
              \/ route = "vfunc" /\ drv_suspend # "none"
              \/ route = "complete_suspend_resume" /\ Waiting(route)
              \/ route = "suspend_completed" /\ Waiting(route)
        BY DEF AnswerRoutes, TypeOK, TypeReturn, Handlers
    <2>2. drv_suspend \in {"none", "suspending", "resuming"}
        BY DEF TypeOK, TypeDriver
    <2>3. suspend_resume_task = "none" <=> AnswerRoutes = {}
        BY <2>1, <2>2 DEF RouteMeaning, TaskHasRoute
    <2>4. \A r1, r2 \in AnswerRoutes : r1 = r2
        BY <2>1, <2>2 DEF RouteMeaning, RoutesExclude
    <2>5. notify \intersect ret_notify = {}
        BY DEF RoutesExclude, RemovedInv, RemovedHandlerOnce, TypeOK, TypeReturn, Handlers
    <2> QED
        BY <2>3, <2>4, <2>5 DEF SuspendTaskOwned
<1>4. Spec => []RemovedInv
    BY RemovedInvariant
<1>5. QED
    BY <1>1, <1>2, <1>3, <1>4, TypeCorrect, DeviceInvariant, PTL DEF Spec

\* Every request the device has accepted is owned by one thing that will answer it:
\* those queued for a critical section, the suspend and resume calls, the signal of a
\* removal (fpi_device_suspend, fpi_device_resume, fpi_device_remove).
THEOREM RequestsAreOwnedCorrect == Spec => []RequestsAreOwned
<1>1. QueuedRequestsAreFlushed /\ SuspendTaskOwned /\ RemovedSignalOwed => RequestsAreOwned
    BY DEF RequestsAreOwned
<1>2. QED
    BY <1>1, QueuedRequestsAreFlushedCorrect, SuspendTaskOwnedCorrect,
       RemovedSignalOwedCorrect, PTL

-----------------------------------------------------------------------------
(* FpDevice implements DevicePromise.  Besides the invariants above this needs *)
(* that a device which is not ready yet, or is dead, was only probed.          *)

LifeInv ==
    /\ life # "ready" =>
          /\ action \in {"NONE", "PROBE"}
          /\ ~is_open /\ ~is_suspended /\ suspend_resume_task = "none"
    /\ life = "ready" => action # "PROBE"

LEMMA NextLife ==
    ASSUME TypeOK, AnswerInv, LifeInv, [Next]_vars PROVE LifeInv'
<1> USE DEF LifeInv
<1>1. CASE InitAsync
    BY <1>1 DEF InitAsync, Begin, suspendVars
<1>2. CASE \/ Open \/ Close \/ Enroll \/ Verify \/ Identify \/ Capture
           \/ DeletePrint \/ ListPrints \/ ClearStorage
    <2>1. life = "ready" /\ \E act \in Actions \ {"PROBE"} : Begin(act, "busy")
        BY <1>2
        DEF Open, Close, Enroll, Verify, Identify, Capture, DeletePrint, ListPrints,
            ClearStorage, Admitted, Actions, LongActions, ShortActions
    <2> QED
        BY <2>1 DEF Begin
<1>3. CASE Suspend \/ Resume
    BY <1>3 DEF Suspend, Resume
<1>4. CASE DriverSuspendComplete \/ DriverResumeComplete
    BY <1>4 DEF DriverSuspendComplete, DriverResumeComplete
<1>5. CASE CriticalFlush
    <2>1. UNCHANGED <<life, action, is_open>>
        BY <1>5 DEF CriticalFlush
    <2>2. CASE cancel_queued \/ (~suspend_queued /\ ~resume_queued)
        <3>1. UNCHANGED suspendVars
            BY <1>5, <2>2 DEF CriticalFlush
        <3> QED
            BY <2>1, <3>1 DEF suspendVars
    <2>3. CASE suspend_queued \/ resume_queued
        <3>1. suspend_resume_task # "none"
            BY <2>3 DEF AnswerInv, RouteMeaning
        <3> QED
            BY <2>1, <3>1
    <2> QED
        BY <2>2, <2>3
<1>6. CASE ReturnInIdle
    BY <1>6 DEF ReturnInIdle, suspendVars, TypeOK, TypeAction
<1>7. ASSUME NEW handler \in Handlers, TaskNotify(handler)
      PROVE  LifeInv'
    BY <1>7 DEF TaskNotify
<1>8. CASE \/ ExternalCancel \/ IdleProbe \/ CancelInIdle \/ BecomeHot \/ CoolDown
           \/ ReturnDone \/ Remove \/ CriticalEnter \/ CriticalLeave
    <2>1. UNCHANGED <<life, action, is_open, suspendVars>>
        BY <1>8
        DEF ExternalCancel, IdleProbe, CancelInIdle, BecomeHot, CoolDown, ReturnDone,
            Remove, CriticalEnter, CriticalLeave
    <2> QED
        BY <2>1 DEF suspendVars
<1>9. ASSUME NEW result \in {"ok", "error"}, DriverComplete(result)
      PROVE  LifeInv'
    BY <1>9 DEF DriverComplete, suspendVars
<1>10. CASE Discarded \/ UNCHANGED vars
    BY <1>10 DEF Discarded, vars, suspendVars
<1> QED
    BY <1>1, <1>2, <1>3, <1>4, <1>5, <1>6, <1>7, <1>8, <1>9, <1>10, DriverActs
    DEF Next, User, Context, MainLoop, Handlers

\* Everything the refinement rests on.
RefinementInv ==
    /\ TypeOK /\ DeviceInv /\ RemovedInv /\ AnswerInv /\ LifeInv

LEMMA RefinementInvariant == Spec => []RefinementInv
<1>1. Init => AnswerInv /\ LifeInv
    BY DEF Init, AnswerInv, RouteMeaning, RoutesExclude, TaskHasRoute, Waiting, LifeInv
<1>2. TypeOK /\ DeviceInv /\ AnswerInv /\ LifeInv /\ [Next]_vars => AnswerInv' /\ LifeInv'
    BY NextAnswer, NextLife
<1>3. TypeOK /\ DeviceInv /\ RemovedInv /\ AnswerInv /\ LifeInv => RefinementInv
    BY DEF RefinementInv
<1>4. QED
    BY <1>1, <1>2, <1>3, TypeCorrect, DeviceInvariant, RemovedInvariant, PTL DEF Spec

\* The variables the promise is about.
PromiseFrame ==
    UNCHANGED <<action, idle_return, is_open, is_suspended, suspend_resume_task,
                is_removed, removed_emitted>>

LEMMA FrameStutters ==
    ASSUME PromiseFrame PROVE UNCHANGED Promise!vars
BY DEF PromiseFrame, Promise!vars, Promise!task, Promise!sleep

LEMMA BeginAsks ==
    ASSUME TypeOK, DeviceInv, NEW act \in Actions, NEW drv \in {"queued", "busy"},
           action = "NONE", Begin(act, drv),
           is_open <=> act \notin {"PROBE", "OPEN"},
           is_suspended => act = "CLEAR_STORAGE"
    PROVE  Promise!Ask(act)
<1>1. UNCHANGED <<idle_return, is_open, is_suspended, suspend_resume_task,
                  is_removed, removed_emitted>>
    BY DEF Begin, suspendVars, removeVars
<1>2. action' = act
    BY DEF Begin
<1> QED
    BY <1>1, <1>2 DEF Promise!Ask, Promise!sleep

\* Driver and main loop steps of a suspend request: the device is switched off, or
\* the request is passed on.
LEMMA QueuedSuspendTurnsOff ==
    ASSUME suspend_resume_task = "suspend", ~is_suspended, DeviceSuspend,
           UNCHANGED <<action, idle_return, is_open, is_removed, removed_emitted>>
    PROVE  Promise!TurnOff \/ PromiseFrame
<1>1. CASE is_suspended' /\ suspend_resume_task' \in {"none", "suspend"}
    BY <1>1 DEF Promise!TurnOff, Promise!task
<1>2. CASE UNCHANGED <<is_suspended, suspend_resume_task>>
    BY <1>2 DEF PromiseFrame
<1>3. \/ is_suspended' /\ suspend_resume_task' \in {"none", "suspend"}
      \/ UNCHANGED <<is_suspended, suspend_resume_task>>
    BY DEF DeviceSuspend, SuspendComplete
<1> QED
    BY <1>1, <1>2, <1>3

LEMMA QueuedResumeTurnsOn ==
    ASSUME suspend_resume_task = "resume", is_suspended, DeviceResume,
           UNCHANGED <<action, idle_return, is_open, is_removed, removed_emitted>>
    PROVE  Promise!TurnOn \/ Promise!AnswerRequest \/ PromiseFrame
<1>1. CASE ~is_suspended' /\ suspend_resume_task' = "none"
    BY <1>1 DEF Promise!TurnOn, Promise!task
<1>2. CASE is_suspended' = is_suspended /\ suspend_resume_task' = "none"
    BY <1>2 DEF Promise!AnswerRequest, Promise!task
<1>3. CASE UNCHANGED <<is_suspended, suspend_resume_task>>
    BY <1>3 DEF PromiseFrame
<1> QED
    BY <1>1, <1>2, <1>3 DEF DeviceResume, ResumeComplete

LEMMA SuspendSuspends ==
    ASSUME TypeOK, AnswerInv, Suspend PROVE Promise!Suspend
<1>1. ~is_suspended /\ ~is_removed /\ suspend_resume_task = "none"
    BY DEF Suspend, SuspendRefused
<1>2. UNCHANGED <<action, idle_return, is_open, is_removed, removed_emitted>>
    BY DEF Suspend, removeVars
<1>3. \/ is_suspended' = TRUE /\ suspend_resume_task' \in {"none", "suspend"}
      \/ is_suspended' = is_suspended /\ suspend_resume_task' = "suspend"
    BY DEF Suspend, DeviceSuspend, SuspendComplete
<1> QED
    BY <1>1, <1>2, <1>3 DEF Promise!Suspend, Promise!task

LEMMA ResumeResumes ==
    ASSUME Resume PROVE Promise!Resume \/ PromiseFrame
<1>1. is_suspended /\ ~is_removed /\ suspend_resume_task = "none"
    BY DEF Resume
<1>2. UNCHANGED <<action, idle_return, is_open, is_removed, removed_emitted>>
    BY DEF Resume, removeVars
<1>3. \/ ~is_suspended' /\ suspend_resume_task' = "none"
      \/ is_suspended' = is_suspended /\ suspend_resume_task' \in {"none", "resume"}
    BY DEF Resume, DeviceResume, ResumeComplete
<1> QED
    BY <1>1, <1>2, <1>3 DEF Promise!Resume, Promise!task, PromiseFrame

LEMMA ReturnAnswers ==
    ASSUME TypeOK, DeviceInv, ReturnInIdle PROVE Promise!Answer
<1>1. action # "NONE" /\ idle_return # "none"
    BY DEF DeviceInv, ReturnBelongsToAction, ReturnInIdle
<1>2. action' = "NONE" /\ idle_return' = "none"
    BY DEF ReturnInIdle
<1>3. UNCHANGED <<is_suspended, suspend_resume_task, is_removed, removed_emitted>>
    BY DEF ReturnInIdle, suspendVars, removeVars
<1>4. is_open' = \/ action = "OPEN" /\ idle_return = "ok"
                 \/ action # "CLOSE" /\ is_open
    BY DEF ReturnInIdle, TypeOK, TypeFlags
<1> QED
    BY <1>1, <1>2, <1>3, <1>4 DEF Promise!Answer, Promise!sleep

LEMMA RemoveRemoves ==
    ASSUME TypeOK, RemovedInv, Remove PROVE Promise!Remove
<1>1. ~is_removed /\ removed_emitted = 0
    BY DEF Remove, CanBeRemoved, RemovedInv, RemovedSignalOwed, TypeOK, TypeFlags
<1>2. UNCHANGED <<action, idle_return, is_open, is_suspended, suspend_resume_task>>
    BY DEF Remove, suspendVars
<1>3. is_removed' /\ removed_emitted' = IF action # "NONE" THEN 0 ELSE 1
    BY <1>1 DEF Remove
<1> QED
    BY <1>1, <1>2, <1>3 DEF Promise!Remove, Promise!task, Promise!sleep

LEMMA NotifyTells ==
    ASSUME TypeOK, RemovedInv, AnswerInv, NEW handler \in Handlers, TaskNotify(handler)
    PROVE  Promise!Tell \/ Promise!AnswerRequest
<1>1. UNCHANGED <<action, idle_return, is_open, is_suspended, is_removed>>
    BY DEF TaskNotify
<1>2. CASE handler = "removed"
    <2>1. is_removed /\ removed_emitted = 0
        BY <1>2
        DEF TaskNotify, RemovedInv, RemovedSignalOwed, RemovedHandlerOnce, TypeOK,
            TypeFlags
    <2>2. removed_emitted' = 1 /\ UNCHANGED suspend_resume_task
        BY <1>2, <2>1 DEF TaskNotify
    <2> QED
        BY <1>1, <2>1, <2>2 DEF Promise!Tell, Promise!task, Promise!sleep
<1>3. CASE handler # "removed"
    <2>1. suspend_resume_task # "none"
        BY <1>3 DEF TaskNotify, Handlers, AnswerInv, RouteMeaning, Waiting
    <2>2. suspend_resume_task' = "none" /\ UNCHANGED removed_emitted
        BY <1>3 DEF TaskNotify
    <2> QED
        BY <1>1, <2>1, <2>2 DEF Promise!AnswerRequest, Promise!task
<1> QED
    BY <1>2, <1>3

\* Every step of the device is a step of the promise, or one its user does not see.
LEMMA NextKeepsPromise ==
    ASSUME RefinementInv, [Next]_vars PROVE [Promise!Next]_(Promise!vars)
<1> USE DEF RefinementInv
<1>1. CASE InitAsync
    <2>1. action = "NONE" /\ Begin("PROBE", "queued") /\ ~is_open /\ ~is_suspended
        BY <1>1 DEF InitAsync, LifeInv
    <2>2. "PROBE" \in Actions
        BY DEF Actions, ShortActions
    <2>3. Promise!Ask("PROBE")
        BY <2>1, <2>2, BeginAsks
    <2> QED
        BY <2>2, <2>3 DEF Promise!Next
<1>2. CASE \/ Open \/ Close \/ Enroll \/ Verify \/ Identify \/ Capture
           \/ DeletePrint \/ ListPrints \/ ClearStorage
    <2>1. PICK act \in Actions : /\ action = "NONE" /\ Begin(act, "busy")
                                 /\ is_open <=> act \notin {"PROBE", "OPEN"}
                                 /\ is_suspended => act = "CLEAR_STORAGE"
        BY <1>2
        DEF Open, Close, Enroll, Verify, Identify, Capture, DeletePrint, ListPrints,
            ClearStorage, Admitted, Busy, Actions, LongActions, ShortActions
    <2>2. Promise!Ask(act)
        BY <2>1, BeginAsks
    <2> QED
        BY <2>2 DEF Promise!Next
<1>3. CASE Suspend
    BY <1>3, SuspendSuspends DEF Promise!Next
<1>4. CASE Resume
    BY <1>4, ResumeResumes, FrameStutters DEF Promise!Next
<1>5. CASE DriverSuspendComplete
    <2>1. suspend_resume_task = "suspend" /\ ~is_suspended
        BY <1>5 DEF DriverSuspendComplete, AnswerInv, RouteMeaning
    <2>2. is_suspended' = TRUE /\ suspend_resume_task' \in {"none", "suspend"}
        BY <1>5 DEF DriverSuspendComplete, SuspendComplete
    <2>3. UNCHANGED <<action, idle_return, is_open, is_removed, removed_emitted>>
        BY <1>5 DEF DriverSuspendComplete, removeVars
    <2>4. Promise!TurnOff
        BY <2>1, <2>2, <2>3 DEF Promise!TurnOff, Promise!task
    <2> QED
        BY <2>4 DEF Promise!Next
<1>6. CASE DriverResumeComplete
    <2>1. suspend_resume_task = "resume" /\ is_suspended
        BY <1>6 DEF DriverResumeComplete, AnswerInv, RouteMeaning
    <2>2. ~is_suspended' /\ suspend_resume_task' = "none"
        BY <1>6 DEF DriverResumeComplete, ResumeComplete
    <2>3. UNCHANGED <<action, idle_return, is_open, is_removed, removed_emitted>>
        BY <1>6 DEF DriverResumeComplete, removeVars
    <2>4. Promise!TurnOn
        BY <2>1, <2>2, <2>3 DEF Promise!TurnOn, Promise!task
    <2> QED
        BY <2>4 DEF Promise!Next
<1>7. CASE CriticalFlush
    <2>1. UNCHANGED <<action, idle_return, is_open, is_removed, removed_emitted>>
        BY <1>7 DEF CriticalFlush, removeVars
    <2>2. CASE ~cancel_queued /\ suspend_queued
        <3>1. DeviceSuspend /\ suspend_resume_task = "suspend" /\ ~is_suspended
            BY <1>7, <2>2 DEF CriticalFlush, AnswerInv, RouteMeaning
        <3> QED
            BY <2>1, <3>1, QueuedSuspendTurnsOff, FrameStutters DEF Promise!Next
    <2>3. CASE ~cancel_queued /\ ~suspend_queued /\ resume_queued
        <3>1. DeviceResume /\ suspend_resume_task = "resume" /\ is_suspended
            BY <1>7, <2>3 DEF CriticalFlush, AnswerInv, RouteMeaning
        <3> QED
            BY <2>1, <3>1, QueuedResumeTurnsOn, FrameStutters DEF Promise!Next
    <2>4. CASE cancel_queued \/ (~suspend_queued /\ ~resume_queued)
        <3>1. UNCHANGED suspendVars
            BY <1>7, <2>4 DEF CriticalFlush
        <3>2. PromiseFrame
            BY <2>1, <3>1 DEF PromiseFrame, suspendVars
        <3> QED
            BY <3>2, FrameStutters
    <2> QED
        BY <2>2, <2>3, <2>4
<1>8. ASSUME NEW result \in {"ok", "error"}, DriverComplete(result)
      PROVE  Promise!Next
    <2>1. action # "NONE" /\ idle_return = "none" /\ idle_return' = result
        BY <1>8 DEF DriverComplete, DeviceInv, DriverWorksForTask
    <2>2. UNCHANGED <<action, is_open, is_suspended, suspend_resume_task,
                      is_removed, removed_emitted>>
        BY <1>8 DEF DriverComplete, suspendVars, removeVars
    <2>3. Promise!Report(result)
        BY <2>1, <2>2 DEF Promise!Report, Promise!sleep
    <2> QED
        BY <2>3 DEF Promise!Next
<1>9. CASE ReturnInIdle
    BY <1>9, ReturnAnswers DEF Promise!Next
<1>10. CASE Remove
    BY <1>10, RemoveRemoves DEF Promise!Next
<1>11. ASSUME NEW handler \in Handlers, TaskNotify(handler)
       PROVE  Promise!Next
    BY <1>11, NotifyTells DEF Promise!Next
<1>12. CASE \/ ExternalCancel \/ IdleProbe \/ CancelInIdle \/ BecomeHot \/ CoolDown
            \/ ReturnDone \/ CriticalEnter \/ CriticalLeave
    <2>1. UNCHANGED <<action, idle_return, is_open, suspendVars, removeVars>>
        BY <1>12
        DEF ExternalCancel, IdleProbe, CancelInIdle, BecomeHot, CoolDown, ReturnDone,
            CriticalEnter, CriticalLeave
    <2>2. PromiseFrame
        BY <2>1 DEF PromiseFrame, suspendVars, removeVars
    <2> QED
        BY <2>2, FrameStutters
<1>13. CASE Discarded \/ UNCHANGED vars
    <2>1. PromiseFrame
        BY <1>13 DEF PromiseFrame, Discarded, vars, suspendVars, removeVars
    <2> QED
        BY <2>1, FrameStutters
<1> QED
    BY <1>1, <1>2, <1>3, <1>4, <1>5, <1>6, <1>7, <1>8, <1>9, <1>10, <1>11, <1>12, <1>13,
       DriverActs
    DEF Next, User, Context, MainLoop, Handlers

\* A device implements the promise to its user: with its cancellations, critical
\* sections, queued requests and callbacks hidden, operations are answered one at a
\* time and once, suspend and resume calls alternate and are answered, a removal is
\* told once (fp-device.c, fpi-device.c).
THEOREM DeviceKeepsPromise == Spec => KeepsDevicePromise
<1>1. Init => Promise!Init
    BY DEF Init, Promise!Init
<1>2. RefinementInv /\ [Next]_vars => [Promise!Next]_(Promise!vars)
    BY NextKeepsPromise
<1>3. QED
    BY <1>1, <1>2, RefinementInvariant, PTL DEF Spec, KeepsDevicePromise, Promise!Spec

-----------------------------------------------------------------------------
(* A suspended device.  A suspend that had to cancel its action is answered by *)
(* the return of that action; only clear_storage starts on a suspended device. *)

SuspendedInv ==
    /\ reason = "BUSY" => "suspend_completed" \in notify
    /\ drv_suspend = "suspending" => "SUSPEND" \in Vfuncs
    /\ resume_queued => action \in LongActions
    /\ is_suspended /\ action \in LongActions =>
           "SUSPEND" \in Vfuncs \/ "suspend_completed" \in notify

\* What holds besides as long as no clear_storage starts while suspended.
ShortInv ==
    /\ ~assert_failed
    /\ is_suspended /\ action \in ShortActions => "suspend_completed" \in notify

\* Steps that leave the action and what concerns its suspend alone.
LEMMA SuspendedFrame ==
    ASSUME SuspendedInv,
           UNCHANGED <<action, drv_suspend, resume_queued, is_suspended, notify>>,
           reason' = reason \/ reason' # "BUSY"
    PROVE  SuspendedInv' /\ (ShortInv /\ assert_failed' = assert_failed => ShortInv')
BY DEF SuspendedInv, ShortInv

\* Only clear_storage starts on a suspended device (fp_device_clear_storage).
LEMMA StartsAwake ==
    ASSUME LifeInv,
           \/ InitAsync \/ Open \/ Close \/ Enroll \/ Verify \/ Identify \/ Capture
           \/ DeletePrint \/ ListPrints \/ ClearStorage
    PROVE  /\ action = "NONE"
           /\ UNCHANGED <<reason, drv_suspend, resume_queued, is_suspended, notify, assert_failed>>
           /\ is_suspended => action' = "CLEAR_STORAGE"
                              /\ "CLEAR_STORAGE" \in Offered \intersect Vfuncs
<1>1. CASE InitAsync
    BY <1>1 DEF InitAsync, Begin, LifeInv, criticalVars, suspendVars, returnVars
<1>2. CASE Open \/ Close \/ DeletePrint \/ ListPrints
    BY <1>2 DEF Open, Close, DeletePrint, ListPrints, Admitted, Busy, Begin, criticalVars,
                suspendVars, returnVars
<1>3. CASE Enroll \/ Verify \/ Identify \/ Capture
    BY <1>3 DEF Enroll, Verify, Identify, Capture, Admitted, Busy, Begin, criticalVars,
                suspendVars, returnVars
<1>4. CASE ClearStorage
    BY <1>4 DEF ClearStorage, Admitted, Busy, Begin, criticalVars, suspendVars, returnVars
<1> QED
    BY <1>1, <1>2, <1>3, <1>4

\* A suspend request, made by the user or out of the queue.
LEMMA DeviceSuspendSuspended ==
    ASSUME SuspendedInv, ~is_suspended, ~resume_queued, DeviceSuspend,
           UNCHANGED <<action, resume_queued, assert_failed>>
    PROVE  SuspendedInv' /\ (ShortInv => ShortInv')
BY ActionNames
DEF SuspendedInv, ShortInv, DeviceSuspend, IdleForSuspend, SuspendComplete, SuspendWaits

\* A resume request finds no suspend that waits for its action: no short operation runs.
LEMMA DeviceResumeSuspended ==
    ASSUME SuspendedInv, DeviceResume, drv_suspend # "suspending", "suspend_completed" \notin notify,
           is_suspended, UNCHANGED <<action, notify, reason>>
    PROVE  SuspendedInv' /\ (ShortInv => ShortInv')
<1>1. SuspendedInv'
    BY ActionNames DEF SuspendedInv, DeviceResume, ResumeComplete
<1>2. ASSUME ShortInv PROVE action \notin ShortActions /\ UNCHANGED assert_failed
    BY <1>2, ActionNames DEF ShortInv, DeviceResume
<1>3. ShortInv => ShortInv'
    BY <1>2 DEF ShortInv
<1> QED
    BY <1>1, <1>3

\* Every step.
LEMMA NextSuspended ==
    ASSUME RefinementInv, SuspendedInv, [Next]_vars
    PROVE  /\ SuspendedInv'
           /\ ShortInv /\ "CLEAR_STORAGE" \notin Offered \intersect Vfuncs => ShortInv'
<1> USE DEF RefinementInv, AnswerInv
<1>1. CASE \/ InitAsync \/ Open \/ Close \/ Enroll \/ Verify \/ Identify \/ Capture
           \/ DeletePrint \/ ListPrints \/ ClearStorage
    BY <1>1, StartsAwake, ActionNames
    DEF SuspendedInv, ShortInv, ShortActions, LongActions
<1>2. CASE Suspend
    <2>1. ~is_suspended /\ ~resume_queued
        BY <1>2 DEF Suspend, SuspendRefused, RouteMeaning
    <2> QED
        BY <1>2, <2>1, DeviceSuspendSuspended DEF Suspend
<1>3. CASE Resume
    <2>1. is_suspended /\ drv_suspend # "suspending" /\ "suspend_completed" \notin notify
        BY <1>3 DEF Resume, RouteMeaning, Waiting
    <2> QED
        BY <1>3, <2>1, DeviceResumeSuspended DEF Resume, returnVars, cancelVars
<1>4. CASE DriverSuspendComplete
    <2>1. /\ drv_suspend = "suspending" /\ drv_suspend' = "none"
          /\ UNCHANGED <<action, resume_queued, assert_failed>>
          /\ \/ action \in LongActions /\ SuspendComplete("none")
             \/ SuspendComplete("NOT_SUPPORTED")
        BY <1>4 DEF DriverSuspendComplete, criticalVars
    <2> QED
        BY <2>1, ActionNames DEF SuspendComplete, SuspendWaits, SuspendedInv, ShortInv
<1>5. CASE DriverResumeComplete
    BY <1>5
    DEF DriverResumeComplete, ResumeComplete, SuspendedInv, ShortInv, criticalVars,
        cancelVars, returnVars
<1>6. CASE CriticalFlush
    <2>1. UNCHANGED action
        BY <1>6 DEF CriticalFlush
    <2>2. CASE cancel_queued \/ ~(suspend_queued \/ resume_queued)
        BY <1>6, <2>1, <2>2, SuspendedFrame DEF CriticalFlush, suspendVars
    <2>3. CASE ~cancel_queued /\ suspend_queued
        <3>1. ~is_suspended /\ ~resume_queued
            BY <2>3 DEF RouteMeaning
        <3>2. DeviceSuspend /\ UNCHANGED <<resume_queued, assert_failed>>
            BY <1>6, <2>3 DEF CriticalFlush
        <3> QED
            BY <2>1, <3>1, <3>2, DeviceSuspendSuspended
    <2>4. CASE ~cancel_queued /\ ~suspend_queued /\ resume_queued
        <3>1. is_suspended /\ drv_suspend # "suspending" /\ "suspend_completed" \notin notify
            BY <2>4 DEF RouteMeaning, Waiting
        <3>2. DeviceResume /\ UNCHANGED <<notify, reason>>
            BY <1>6, <2>4 DEF CriticalFlush
        <3> QED
            BY <2>1, <3>1, <3>2, DeviceResumeSuspended
    <2> QED
        BY <2>2, <2>3, <2>4
<1>7. CASE ReturnInIdle
    <2>1. ~resume_queued
        BY <1>7 DEF ReturnInIdle, DeviceInv, QueuedRequestsAreFlushed, DriverWorksForTask
    <2>2. /\ action' = "NONE" /\ reason' = "none" /\ notify' = {}
          /\ UNCHANGED <<drv_suspend, resume_queued, is_suspended, assert_failed>>
        BY <1>7 DEF ReturnInIdle, criticalVars, suspendVars, driverVars
    <2> QED
        BY <2>1, <2>2, ActionNames DEF SuspendedInv, ShortInv
<1>8. ASSUME NEW handler \in Handlers, TaskNotify(handler)
      PROVE  SuspendedInv' /\ (ShortInv => ShortInv')
    <2>1. handler = "complete_suspend_resume" => suspend_resume_task # "none"
        BY <1>8 DEF TaskNotify, RouteMeaning, Waiting
    <2>2. UNCHANGED <<action, drv_suspend, resume_queued, is_suspended, notify, reason>>
        BY <1>8 DEF TaskNotify, criticalVars, driverVars, cancelVars
    <2>3. ~assert_failed => ~assert_failed'
        BY <1>8, <2>1 DEF TaskNotify
    <2> QED
        BY <2>2, <2>3 DEF SuspendedInv, ShortInv
<1>9. CASE CancelInIdle
    <2>1. UNCHANGED <<action, drv_suspend, resume_queued, is_suspended, notify, reason>>
        BY <1>9 DEF CancelInIdle, suspendVars, returnVars
    <2>2. ~assert_failed => ~assert_failed'
        BY <1>9 DEF CancelInIdle, DeviceInv, CancelBelongsToAction
    <2> QED
        BY <2>1, <2>2 DEF SuspendedInv, ShortInv
<1>10. CASE Remove
    <2>1. /\ UNCHANGED <<action, drv_suspend, resume_queued, is_suspended, reason, assert_failed>>
          /\ notify \subseteq notify'
        BY <1>10 DEF Remove, criticalVars, suspendVars, driverVars, cancelVars
    <2> QED
        BY <2>1 DEF SuspendedInv, ShortInv
<1>11. CASE BecomeHot
    BY <1>11, SuspendedFrame
    DEF BecomeHot, criticalVars, suspendVars, driverVars, returnVars
<1>12. CASE \/ ExternalCancel \/ IdleProbe \/ CoolDown \/ ReturnDone
            \/ CriticalEnter \/ CriticalLeave \/ Discarded \/ UNCHANGED vars
    <2>1. UNCHANGED <<action, drv_suspend, resume_queued, is_suspended, notify, reason, assert_failed>>
        BY <1>12
        DEF ExternalCancel, IdleProbe, CoolDown, ReturnDone, CriticalEnter, CriticalLeave,
            Discarded, vars, criticalVars, suspendVars, driverVars, returnVars, cancelVars
    <2> QED
        BY <2>1, SuspendedFrame
<1>13. ASSUME NEW result \in {"ok", "error"}, DriverComplete(result)
      PROVE  SuspendedInv' /\ (ShortInv => ShortInv')
    BY <1>13, SuspendedFrame DEF DriverComplete, criticalVars, suspendVars, returnVars
<1> QED
    BY <1>1, <1>2, <1>3, <1>4, <1>5, <1>6, <1>7, <1>8, <1>9, <1>10, <1>11, <1>12, <1>13,
       DriverActs
    DEF Next, User, Context, MainLoop, Handlers

\* The invariant holds in every reachable state.
LEMMA SuspendedInvariant == Spec => []SuspendedInv
<1>1. Init => SuspendedInv
    BY DEF Init, SuspendedInv, LongActions
<1>2. RefinementInv /\ SuspendedInv /\ [Next]_vars => SuspendedInv'
    BY NextSuspended
<1>3. QED
    BY <1>1, <1>2, RefinementInvariant, PTL DEF Spec

\* A suspended device whose suspend call was answered runs a long operation only if its
\* driver has a suspend vfunc, never one the suspend has to cancel, for every driver
\* class and every set of operations (fpi_device_suspend_complete).
THEOREM SuspendedWithoutLongActionCorrect == Spec => []SuspendedWithoutLongAction
<1>1. RefinementInv /\ SuspendedInv => SuspendedWithoutLongAction
    BY DEF RefinementInv, AnswerInv, RouteMeaning, Waiting, SuspendedInv,
           SuspendedWithoutLongAction
<1>2. QED
    BY <1>1, RefinementInvariant, SuspendedInvariant, PTL

\* No assertion of the request handling fails, unless the user can start clear_storage,
\* the one operation that does not look whether the device is suspended: a resume then
\* meets a short operation (fpi_device_resume).
THEOREM NoAssertionFailsCorrect ==
    ASSUME "CLEAR_STORAGE" \notin Offered \intersect Vfuncs
    PROVE  Spec => []NoAssertionFails
<1>1. Init => ShortInv
    BY DEF Init, ShortInv
<1>2. RefinementInv /\ SuspendedInv /\ ShortInv /\ [Next]_vars => ShortInv'
    BY NextSuspended
<1>3. ShortInv => NoAssertionFails
    BY DEF ShortInv, NoAssertionFails
<1>4. QED
    BY <1>1, <1>2, <1>3, RefinementInvariant, SuspendedInvariant, PTL DEF Spec

-----------------------------------------------------------------------------
(* FpTemperature: integers *)

\* The smaller and the larger one of two numbers.
LEMMA MinOfTwo ==
    ASSUME NEW a \in Int, NEW b \in Int
    PROVE  Min({a, b}) = IF a <= b THEN a ELSE b
<1> DEFINE m == IF a <= b THEN a ELSE b
<1>1. m \in {a, b} /\ \A y \in {a, b} : m <= y
    OBVIOUS
<1>2. \A x \in {a, b} : (\A y \in {a, b} : x <= y) => x = m
    OBVIOUS
<1> QED
    BY <1>1, <1>2 DEF Min

LEMMA MaxOfTwo ==
    ASSUME NEW a \in Int, NEW b \in Int
    PROVE  Max({a, b}) = IF a <= b THEN b ELSE a
<1> DEFINE m == IF a <= b THEN b ELSE a
<1>1. m \in {a, b} /\ \A y \in {a, b} : m >= y
    OBVIOUS
<1>2. \A x \in {a, b} : (\A y \in {a, b} : x >= y) => x = m
    OBVIOUS
<1> QED
    BY <1>1, <1>2 DEF Max

\* The smallest and the largest one of a single number.
LEMMA OneOf ==
    ASSUME NEW a \in Int
    PROVE  Min({a}) = a /\ Max({a}) = a
<1>1. a <= a
    OBVIOUS
<1> QED
    BY <1>1 DEF Min, Max

\* What a quotient rounds off.
LEMMA DivBounds ==
    ASSUME NEW n \in Nat, NEW d \in Nat \ {0}
    PROVE  /\ n \div d \in Nat
           /\ d * (n \div d) <= n
           /\ n < d * (n \div d) + d
BY Z3

\* Quotients grow with what is divided.
LEMMA DivMonotone ==
    ASSUME NEW n \in Nat, NEW m \in Nat, NEW d \in Nat \ {0}, n <= m
    PROVE  n \div d <= m \div d
BY DivBounds, Z3

\* A way that was made in p ticks of d levels had taken no more than p whole ticks.
LEMMA Overtaken ==
    ASSUME NEW n \in Nat, NEW d \in Nat \ {0}, NEW p \in Nat, d * p > n
    PROVE  n \div d <= p
BY DivBounds, Z3

-----------------------------------------------------------------------------
(* FpTemperature: the inductive invariant.  At rest the temperature fits   *)
(* the ratio of the last update, and the timeout is due no later than      *)
(* Delay after the ratio can have left that temperature.                   *)

Temperatures == {"COLD", "WARM", "HOT"}
Update == [is_active : BOOLEAN, then : {"START", "RETURN"}, notified : BOOLEAN]

TempTypeOK ==
    /\ current_action \in {"NONE", "SHORT", "LONG"}
    /\ cancelled \in BOOLEAN
    /\ temp_current \in Temperatures
    /\ temp_current_ratio \in 0..Top
    /\ temp_last_active \in BOOLEAN
    /\ passed \in 0..Top
    /\ temp_timeout \in Int

\* An update is the only one; before it has set its timeout nothing has happened since.
UpdateRuns(update) ==
    /\ updates = <<update>>
    /\ passed = 0
    /\ temp_last_active = update.is_active
    /\ IF update.then = "START" THEN current_action = "NONE" /\ update.is_active
       ELSE update.is_active <=> current_action = "LONG"

\* The ratios an update calls by each temperature.
Classified(temp, ratio) ==
    \/ temp = "COLD" /\ ratio < ColdThresh
    \/ temp = "WARM" /\ ColdThresh <= ratio /\ ratio < WarmHotThresh
    \/ temp = "HOT" /\ HotWarmThresh <= ratio

\* Where a ratio that rises or falls leaves what fits the temperature, and how far off
\* that is.  A cold ratio that falls and a hot one that rises never do.
Border(temp, is_active) ==
    IF is_active THEN IF temp = "COLD" THEN ColdThresh ELSE WarmHotThresh
    ELSE IF temp = "HOT" THEN HotWarmThresh ELSE ColdThresh
Leaves(temp, is_active) == IF is_active THEN temp # "HOT" ELSE temp # "COLD"
Ticks(temp, ratio, is_active) ==
    IF is_active THEN (Border(temp, is_active) - ratio) \div HotRate
    ELSE (ratio - Border(temp, is_active)) \div ColdRate

TimeoutIsSet ==
    Leaves(temp_current, temp_last_active) =>
        /\ temp_timeout >= 0
        /\ \/ temp_timeout = 0
           \/ temp_timeout + passed
                  <= Ticks(temp_current, temp_current_ratio, temp_last_active) + Delay

AtRest ==
    /\ updates = <<>>
    /\ ActivityIsKnown
    /\ Fits(temp_current, temp_current_ratio)
    /\ TimeoutIsSet

TempInv ==
    /\ TempTypeOK
    /\ \/ AtRest
       \/ \E update \in Update :
              UpdateRuns(update) /\ Classified(temp_current, temp_current_ratio)

-----------------------------------------------------------------------------
(* FpTemperature: the ratio *)

\* The ratio moves the way the device does, within its range.
LEMMA RatioMoves ==
    ASSUME TempTypeOK
    PROVE  /\ Ratio \in 0..Top
           /\ temp_last_active =>
                  /\ temp_current_ratio <= Ratio
                  /\ Ratio <= temp_current_ratio + HotRate * passed
           /\ ~temp_last_active =>
                  /\ Ratio <= temp_current_ratio
                  /\ temp_current_ratio - ColdRate * passed <= Ratio
<1> DEFINE up == HotRate * passed
           down == ColdRate * passed
<1>1. up \in Nat /\ down \in Nat
    BY RateAssumption DEF TempTypeOK
<1>2. Top \in Nat
    BY ThresholdAssumption
<1> HIDE DEF up, down
<1>3. CASE temp_last_active
    <2>1. temp_current_ratio + up \in Int
        BY <1>1 DEF TempTypeOK
    <2>2. Ratio = Min({temp_current_ratio + up, Top})
        BY <1>3 DEF Ratio, up
    <2>3. Ratio = IF temp_current_ratio + up <= Top THEN temp_current_ratio + up ELSE Top
        BY <1>2, <2>1, <2>2, MinOfTwo
    <2> QED
        BY <1>1, <1>2, <1>3, <2>3 DEF TempTypeOK, up
<1>4. CASE ~temp_last_active
    <2>1. temp_current_ratio - down \in Int
        BY <1>1 DEF TempTypeOK
    <2>2. Ratio = Max({temp_current_ratio - down, 0})
        BY <1>4 DEF Ratio, down
    <2>3. Ratio = IF temp_current_ratio - down <= 0 THEN 0 ELSE temp_current_ratio - down
        BY <1>2, <2>1, <2>2, MaxOfTwo
    <2> QED
        BY <1>1, <1>2, <1>4, <2>3 DEF TempTypeOK, down
<1> QED
    BY <1>3, <1>4

\* fpi_device_update_temp calls every ratio by a temperature, which fits it.
LEMMA TemperatureClassifies ==
    ASSUME NEW old \in Temperatures, NEW ratio \in 0..Top
    PROVE  /\ Temperature(old, ratio) \in Temperatures
           /\ Classified(Temperature(old, ratio), ratio)
BY ThresholdAssumption DEF Temperature, Temperatures, Classified

\* What an update calls a ratio fits it.
LEMMA ClassifiedFits ==
    ASSUME NEW temp \in Temperatures, NEW ratio \in 0..Top, Classified(temp, ratio)
    PROVE  Fits(temp, ratio)
BY ThresholdAssumption DEF Classified, Fits

-----------------------------------------------------------------------------
(* FpTemperature: the timeout *)

\* A temperature that fits the ratio is left in a number of ticks.
LEMMA TicksAreNat ==
    ASSUME NEW temp \in Temperatures, NEW ratio \in 0..Top, NEW is_active \in BOOLEAN,
           Fits(temp, ratio), Leaves(temp, is_active)
    PROVE  Ticks(temp, ratio, is_active) \in Nat
<1>1. CASE is_active
    <2>1. Border(temp, is_active) - ratio \in Nat
        BY <1>1, ThresholdAssumption DEF Border, Fits, Leaves, Temperatures
    <2> QED
        BY <1>1, <2>1, DivBounds, RateAssumption DEF Ticks
<1>2. CASE ~is_active
    <2>1. ratio - Border(temp, is_active) \in Nat
        BY <1>2, ThresholdAssumption DEF Border, Fits, Leaves, Temperatures
    <2> QED
        BY <1>2, <2>1, DivBounds, RateAssumption DEF Ticks
<1> QED
    BY <1>1, <1>2

\* fpi_device_update_temp always finds an interval or NoTimeout.
LEMMA IntervalIsInt ==
    ASSUME NEW ratio \in 0..Top, NEW is_active \in BOOLEAN
    PROVE  TimeUntilUpdate(ratio, is_active) \in Int
<1> DEFINE thresholds == NextThresholds(ratio, is_active)
<1>0. /\ {ColdThresh, HotWarmThresh, WarmHotThresh} \subseteq Int
      /\ HotRate \in Nat \ {0} /\ ColdRate \in Nat \ {0} /\ Delay \in Nat
      /\ NoTimeout \in Int
    BY ThresholdAssumption, RateAssumption DEF NoTimeout
<1>1. thresholds \in {{}, {ColdThresh}, {HotWarmThresh}, {WarmHotThresh},
                     {ColdThresh, HotWarmThresh}, {ColdThresh, WarmHotThresh}}
    BY DEF NextThresholds
<1> HIDE DEF thresholds
<1>2. thresholds # {} => Min(thresholds) \in Int /\ Max(thresholds) \in Int
    BY <1>0, <1>1, MinOfTwo, MaxOfTwo, OneOf
<1>3. \A n \in Int, d \in Nat \ {0} : n \div d \in Int
    BY Z3
<1>4. thresholds # {} => /\ (Min(thresholds) - ratio) \div HotRate + Delay \in Int
                         /\ (ratio - Max(thresholds)) \div ColdRate + Delay \in Int
    BY <1>0, <1>2, <1>3
<1> QED
    BY <1>0, <1>4 DEF TimeUntilUpdate, thresholds

\* The next threshold is no further off than the border of the temperature.
LEMMA NextThresholdIsBefore ==
    ASSUME NEW temp \in Temperatures, NEW ratio \in 0..Top, NEW is_active \in BOOLEAN,
           Classified(temp, ratio), Leaves(temp, is_active)
    PROVE  /\ TimeUntilUpdate(ratio, is_active) \in Nat
           /\ TimeUntilUpdate(ratio, is_active) <= Ticks(temp, ratio, is_active) + Delay
<1> DEFINE thresholds == NextThresholds(ratio, is_active)
<1>0. /\ {ColdThresh, HotWarmThresh, WarmHotThresh} \subseteq Int
      /\ ColdThresh < HotWarmThresh /\ HotWarmThresh < WarmHotThresh
      /\ HotRate \in Nat \ {0} /\ ColdRate \in Nat \ {0} /\ Delay \in Nat
    BY ThresholdAssumption, RateAssumption
<1>1. CASE is_active
    <2>1. thresholds \in {{ColdThresh, WarmHotThresh}, {WarmHotThresh}}
              /\ (temp = "COLD" => thresholds = {ColdThresh, WarmHotThresh})
        BY <1>0, <1>1 DEF NextThresholds, Classified, Leaves, Temperatures
    <2>2. ratio < WarmHotThresh /\ (ColdThresh \in thresholds => ratio < ColdThresh)
        BY <1>0, <1>1 DEF NextThresholds, Classified, Leaves, Temperatures
    <2>3. TimeUntilUpdate(ratio, is_active) = (Min(thresholds) - ratio) \div HotRate + Delay
        BY <1>1, <2>1 DEF TimeUntilUpdate
    <2>4. Border(temp, is_active) = IF temp = "COLD" THEN ColdThresh ELSE WarmHotThresh
        BY <1>1 DEF Border
    <2> HIDE DEF thresholds
    <2>5. Min(thresholds) \in Int /\ ratio <= Min(thresholds)
              /\ Min(thresholds) <= Border(temp, is_active)
        <3>1. CASE thresholds = {ColdThresh, WarmHotThresh}
            <4>1. Min(thresholds) = ColdThresh /\ ColdThresh \in thresholds
                BY <1>0, <3>1, MinOfTwo
            <4> QED
                BY <1>0, <2>2, <2>4, <4>1
        <3>2. CASE thresholds = {WarmHotThresh} /\ temp # "COLD"
            <4>1. Min(thresholds) = WarmHotThresh
                BY <1>0, <3>2, OneOf
            <4> QED
                BY <1>0, <2>2, <2>4, <3>2, <4>1
        <3>3. thresholds = {WarmHotThresh} => temp # "COLD"
            BY <1>0, <2>1
        <3> QED
            BY <2>1, <3>1, <3>2, <3>3
    <2> DEFINE near == Min(thresholds) - ratio
               far == Border(temp, is_active) - ratio
    <2>6. near \in Nat /\ far \in Nat /\ near <= far
        BY <1>0, <2>4, <2>5
    <2> HIDE DEF near, far
    <2>7. near \div HotRate \in Nat /\ far \div HotRate \in Nat
              /\ near \div HotRate <= far \div HotRate
        BY <1>0, <2>6, DivBounds, DivMonotone
    <2>8. /\ TimeUntilUpdate(ratio, is_active) = near \div HotRate + Delay
          /\ Ticks(temp, ratio, is_active) = far \div HotRate
        BY <1>1, <2>3 DEF near, far, Ticks
    <2> QED
        BY <1>0, <2>7, <2>8
<1>2. CASE ~is_active
    <2>1. thresholds \in {{ColdThresh, HotWarmThresh}, {ColdThresh}}
              /\ (temp = "HOT" => thresholds = {ColdThresh, HotWarmThresh})
        BY <1>0, <1>2 DEF NextThresholds, Classified, Leaves, Temperatures
    <2>2. ColdThresh <= ratio /\ (HotWarmThresh \in thresholds => HotWarmThresh <= ratio)
        BY <1>0, <1>2 DEF NextThresholds, Classified, Leaves, Temperatures
    <2>3. TimeUntilUpdate(ratio, is_active) = (ratio - Max(thresholds)) \div ColdRate + Delay
        BY <1>2, <2>1 DEF TimeUntilUpdate
    <2>4. Border(temp, is_active) = IF temp = "HOT" THEN HotWarmThresh ELSE ColdThresh
        BY <1>2 DEF Border
    <2> HIDE DEF thresholds
    <2>5. Max(thresholds) \in Int /\ Max(thresholds) <= ratio
              /\ Border(temp, is_active) <= Max(thresholds)
        <3>1. CASE thresholds = {ColdThresh, HotWarmThresh}
            <4>1. Max(thresholds) = HotWarmThresh /\ HotWarmThresh \in thresholds
                BY <1>0, <3>1, MaxOfTwo
            <4> QED
                BY <1>0, <2>2, <2>4, <4>1
        <3>2. CASE thresholds = {ColdThresh} /\ temp # "HOT"
            <4>1. Max(thresholds) = ColdThresh
                BY <1>0, <3>2, OneOf
            <4> QED
                BY <1>0, <2>2, <2>4, <3>2, <4>1
        <3>3. thresholds = {ColdThresh} => temp # "HOT"
            BY <1>0, <2>1
        <3> QED
            BY <2>1, <3>1, <3>2, <3>3
    <2> DEFINE near == ratio - Max(thresholds)
               far == ratio - Border(temp, is_active)
    <2>6. near \in Nat /\ far \in Nat /\ near <= far
        BY <1>0, <2>4, <2>5
    <2> HIDE DEF near, far
    <2>7. near \div ColdRate \in Nat /\ far \div ColdRate \in Nat
              /\ near \div ColdRate <= far \div ColdRate
        BY <1>0, <2>6, DivBounds, DivMonotone
    <2>8. /\ TimeUntilUpdate(ratio, is_active) = near \div ColdRate + Delay
          /\ Ticks(temp, ratio, is_active) = far \div ColdRate
        BY <1>2, <2>3 DEF near, far, Ticks
    <2> QED
        BY <1>0, <2>7, <2>8
<1> QED
    BY <1>1, <1>2

-----------------------------------------------------------------------------
(* FpTemperature: the steps *)

\* The cold device satisfies the invariant although it has no timeout.
LEMMA TempInitially == TempInit => TempInv
<1> SUFFICES ASSUME TempInit PROVE TempInv
    OBVIOUS
<1>1. TempTypeOK
    <2>1. ColdThresh \in 0..Top /\ 0 \in 0..Top
        BY ThresholdAssumption
    <2>2. NoTimeout \in Int
        BY DEF NoTimeout
    <2> QED
        BY <2>1, <2>2 DEF TempInit, TempTypeOK, Temperatures
<1>2. ActivityIsKnown /\ Fits(temp_current, temp_current_ratio)
    BY ThresholdAssumption DEF TempInit, ActivityIsKnown, Fits
<1>3. TimeoutIsSet
    BY DEF TempInit, TimeoutIsSet, Leaves
<1> QED
    BY <1>1, <1>2, <1>3 DEF TempInit, TempInv, AtRest

\* The part of an update before the signal, called at rest with what its caller does.
LEMMA UpdateTempKeeps ==
    ASSUME TempInv, AtRest, NEW is_active \in BOOLEAN, NEW then \in {"START", "RETURN"},
           UpdateTemp(is_active, then), UNCHANGED temp_timeout,
           current_action' \in {"NONE", "SHORT", "LONG"}, cancelled' \in BOOLEAN,
           IF then = "START" THEN current_action' = "NONE" /\ is_active
           ELSE is_active <=> current_action' = "LONG"
    PROVE  TempInv'
<1> DEFINE temp == Temperature(temp_current, Ratio)
<1>1. TempTypeOK /\ Ratio \in 0..Top /\ temp_current \in Temperatures
    BY RatioMoves DEF TempInv, TempTypeOK
<1>2. temp \in Temperatures /\ Classified(temp, Ratio)
    BY <1>1, TemperatureClassifies
<1>3. /\ temp_current_ratio' = Ratio /\ passed' = 0 /\ temp_last_active' = is_active
      /\ temp_current' = temp
    BY DEF UpdateTemp
<1> DEFINE record == [is_active |-> is_active, then |-> then,
                      notified |-> temp # temp_current]
<1>4. PICK update \in Update :
          /\ updates' = Append(updates, update)
          /\ update.is_active = is_active /\ update.then = then
    <2>1. record \in Update /\ record.is_active = is_active /\ record.then = then
        BY DEF Update
    <2>2. updates' = Append(updates, record)
        BY DEF UpdateTemp
    <2> HIDE DEF record
    <2> QED
        BY <2>1, <2>2
<1> HIDE DEF temp
<1>5. updates' = <<update>>
    BY <1>4 DEF AtRest
<1>6. TempTypeOK'
    BY <1>1, <1>2, <1>3, ThresholdAssumption DEF TempTypeOK
<1>7. IF update.then = "START" THEN current_action' = "NONE" /\ update.is_active
      ELSE update.is_active <=> current_action' = "LONG"
    BY <1>4
<1>8. UpdateRuns(update)'
    BY <1>3, <1>4, <1>5, <1>7 DEF UpdateRuns
<1> QED
    BY <1>2, <1>3, <1>4, <1>6, <1>8 DEF TempInv

\* The part of an update after the signal sets the timeout, and starts the operation
\* or updates again.
LEMMA UpdateTempDoneKeeps ==
    ASSUME TempInv, UpdateTempDone PROVE TempInv'
<1>1. PICK update \in Update :
          UpdateRuns(update) /\ Classified(temp_current, temp_current_ratio)
    BY DEF TempInv, AtRest, UpdateTempDone
<1>2. TempTypeOK
    BY DEF TempInv
<1>3. Seqs!Last(updates) = update /\ Seqs!Front(updates) = <<>>
    BY <1>1 DEF UpdateRuns, Seqs!Last, Seqs!Front
<1>4. /\ SetTimeout(update.is_active)
      /\ UNCHANGED <<temp_current, temp_current_ratio, passed>>
    BY <1>3 DEF UpdateTempDone
<1>5. TempTypeOK'
    <2>1. temp_timeout' \in Int
        <3> DEFINE interval == TimeUntilUpdate(temp_current_ratio, update.is_active)
        <3>1. CASE interval = NoTimeout
            BY <1>4, <3>1 DEF SetTimeout, NoTimeout
        <3>2. CASE interval # NoTimeout
            <4>1. interval \in Int
                BY <1>1, <1>2, IntervalIsInt DEF TempTypeOK, Update
            <4>2. PICK lag \in 0..MaxLag : temp_timeout' = Max({interval - lag, 0})
                BY <1>4, <3>2 DEF SetTimeout
            <4> HIDE DEF interval
            <4> QED
                BY <4>1, <4>2, MaxOfTwo, RateAssumption
        <3> QED
            BY <3>1, <3>2
    <2> QED
        BY <1>2, <1>4, <2>1 DEF UpdateTempDone, TempTypeOK
<1>6. CASE update.then = "START" /\ IsHot
    <2> DEFINE again == [is_active |-> FALSE, then |-> "RETURN", notified |-> FALSE]
    <2>1. again \in Update /\ again.is_active = FALSE /\ again.then = "RETURN"
        BY DEF Update
    <2>2. updates' = <<>> \o <<again>> /\ temp_last_active' = FALSE /\ current_action' = current_action
        BY <1>3, <1>6 DEF UpdateTempDone
    <2> HIDE DEF again
    <2>3. updates' = <<again>>
        BY <2>2
    <2>4. current_action' = "NONE"
        BY <1>1, <1>6, <2>2 DEF UpdateRuns
    <2>5. UpdateRuns(again)'
        BY <1>1, <1>4, <2>1, <2>2, <2>3, <2>4 DEF UpdateRuns
    <2> QED
        BY <1>1, <1>4, <1>5, <2>1, <2>5 DEF TempInv
<1>7. CASE ~(update.then = "START" /\ IsHot)
    <2>1. updates' = <<>> /\ temp_last_active' = temp_last_active
        BY <1>2, <1>3, <1>7 DEF UpdateTempDone, TempTypeOK
    <2>2. current_action' = IF update.then = "START" THEN "LONG" ELSE current_action
        BY <1>3, <1>7 DEF UpdateTempDone
    <2>3. ActivityIsKnown'
        BY <1>1, <2>1, <2>2 DEF UpdateRuns, ActivityIsKnown, Update
    <2>4. Fits(temp_current, temp_current_ratio)'
        BY <1>1, <1>2, <1>4, ClassifiedFits DEF TempTypeOK
    <2>5. TimeoutIsSet'
        <3> SUFFICES ASSUME Leaves(temp_current, temp_last_active)
                     PROVE  TimeoutIsSet'
            BY <1>4, <2>1 DEF TimeoutIsSet
        <3> DEFINE interval == TimeUntilUpdate(temp_current_ratio, temp_last_active)
                   ticks == Ticks(temp_current, temp_current_ratio, temp_last_active)
        <3>1. interval \in Nat /\ interval <= ticks + Delay /\ ticks \in Nat
            BY <1>1, <1>2, NextThresholdIsBefore, ClassifiedFits, TicksAreNat DEF TempTypeOK
        <3>2. interval # NoTimeout
            BY <3>1 DEF NoTimeout
        <3>3. PICK lag \in 0..MaxLag : temp_timeout' = Max({interval - lag, 0})
            BY <1>1, <1>4, <3>2 DEF SetTimeout, UpdateRuns
        <3>4. ticks' = ticks /\ passed' = 0
            BY <1>1, <1>4, <2>1 DEF UpdateRuns
        <3> HIDE DEF interval
        <3>5. temp_timeout' = IF interval - lag <= 0 THEN 0 ELSE interval - lag
            BY <3>1, <3>3, MaxOfTwo, RateAssumption
        <3>6. temp_timeout' >= 0 /\ temp_timeout' <= ticks + Delay
            BY <3>1, <3>5, RateAssumption
        <3> QED
            BY <1>5, <3>1, <3>4, <3>6, RateAssumption DEF TimeoutIsSet, TempTypeOK
    <2> QED
        BY <1>5, <2>1, <2>3, <2>4, <2>5 DEF TempInv, AtRest
<1> QED
    BY <1>6, <1>7

\* What NoCoolingWhileActive says of a step.
NoCooling ==
    current_action = "LONG" /\ current_action' = "LONG" =>
        /\ temp_current = "HOT" => temp_current' = "HOT"
        /\ temp_current = "WARM" => temp_current' # "COLD"

\* A device that is active when it is updated by its timeout has not cooled down.
LEMMA TimeoutDoesNotCool ==
    ASSUME TempInv, AtRest, UpdateTempTimeout PROVE NoCooling
<1> SUFFICES ASSUME current_action = "LONG" PROVE NoCooling
    BY DEF NoCooling
<1>1. temp_last_active
    BY DEF AtRest, ActivityIsKnown
<1>2. Ratio \in 0..Top /\ temp_current_ratio <= Ratio
    BY <1>1, RatioMoves DEF TempInv
<1>3. temp_current_ratio \in 0..Top /\ Fits(temp_current, temp_current_ratio)
    BY DEF TempInv, TempTypeOK, AtRest
<1>4. temp_current' = Temperature(temp_current, Ratio)
    BY DEF UpdateTempTimeout, UpdateTemp
<1> QED
    BY <1>2, <1>3, <1>4, ThresholdAssumption DEF NoCooling, Temperature, Fits

\* A timeout that is counted down with the time that passes.
LEMMA CountedDown ==
    ASSUME NEW t \in Int, NEW p \in Int, NEW u \in Int, NEW q \in Int, NEW n \in Int,
           t > 0, t + p <= n, u = t - 1, q <= p + 1
    PROVE  u >= 0 /\ u + q <= n
OBVIOUS

\* Time counts the timeout down.
LEMMA TickKeeps ==
    ASSUME TempInv, Tick PROVE TempInv'
<1>1. TempTypeOK /\ AtRest
    BY DEF TempInv, UpdateRuns, Tick
<1>2. passed' \in 0..Top /\ passed' <= passed + 1
    <2>1. passed + 1 \in Int /\ Top \in Nat /\ passed \in 0..Top
        BY <1>1, ThresholdAssumption DEF TempTypeOK
    <2>2. passed' = IF passed + 1 <= Top THEN passed + 1 ELSE Top
        BY <2>1, MinOfTwo DEF Tick
    <2> QED
        BY <2>1, <2>2
<1>3. temp_timeout' = IF temp_timeout > 0 THEN temp_timeout - 1 ELSE temp_timeout
    BY DEF Tick
<1>4. UNCHANGED <<current_action, cancelled, temp_current, temp_current_ratio, temp_last_active, updates>>
    BY DEF Tick
<1>5. TempTypeOK'
    BY <1>1, <1>2, <1>3, <1>4 DEF TempTypeOK
<1>6. TimeoutIsSet'
    <2> SUFFICES ASSUME Leaves(temp_current, temp_last_active)
                 PROVE  TimeoutIsSet'
        BY <1>4 DEF TimeoutIsSet
    <2> DEFINE ticks == Ticks(temp_current, temp_current_ratio, temp_last_active)
    <2>1. ticks' = ticks
        BY <1>4
    <2>2. ticks \in Nat /\ Delay \in Nat
        BY <1>1, TicksAreNat, RateAssumption DEF AtRest, TempTypeOK
    <2>3. temp_timeout >= 0 /\ (temp_timeout = 0 \/ temp_timeout + passed <= ticks + Delay)
        BY <1>1 DEF AtRest, TimeoutIsSet
    <2> HIDE DEF ticks
    <2>4. temp_timeout \in Int /\ passed \in Int /\ passed' \in Int
        BY <1>1, <1>2, ThresholdAssumption DEF TempTypeOK
    <2>5. temp_timeout' >= 0 /\ (temp_timeout' = 0 \/ temp_timeout' + passed' <= ticks + Delay)
        <3>1. CASE temp_timeout = 0
            BY <1>3, <3>1
        <3>2. CASE temp_timeout > 0
            <4>1. temp_timeout' = temp_timeout - 1
                BY <1>3, <3>2
            <4>2. temp_timeout + passed <= ticks + Delay
                BY <2>3, <2>4, <3>2
            <4>3. passed' <= passed + 1
                BY <1>2
            <4>4. temp_timeout' \in Int
                BY <2>4, <4>1
            <4>5. ticks + Delay \in Int
                BY <2>2
            <4>6. temp_timeout' >= 0 /\ temp_timeout' + passed' <= ticks + Delay
                BY <2>4, <3>2, <4>1, <4>2, <4>3, <4>4, <4>5, CountedDown
            <4> QED
                BY <4>6
        <3> QED
            BY <2>3, <2>4, <3>1, <3>2
    <2> QED
        BY <2>1, <2>5 DEF TimeoutIsSet, ticks
<1> QED
    BY <1>1, <1>4, <1>5, <1>6 DEF TempInv, AtRest, ActivityIsKnown

\* Every step keeps the invariant, and nothing that is active cools down.
LEMMA NextKeepsTempInv ==
    ASSUME ~HandlerStarts, TempInv, [TempNext]_tempVars PROVE TempInv' /\ NoCooling
<1>1. updates = <<>> => TempTypeOK /\ AtRest
    BY DEF TempInv, UpdateRuns
<1>2. CASE UpdateTempDone
    BY <1>2, UpdateTempDoneKeeps DEF NoCooling, UpdateTempDone, Temperatures
<1>3. CASE StartLong
    <2>1. AtRest /\ TempTypeOK
        BY <1>1, <1>3 DEF StartLong, UserRuns
    <2>2. current_action = "NONE" /\ UpdateTemp(TRUE, "START") /\ UNCHANGED <<current_action, cancelled, temp_timeout>>
        BY <1>3 DEF StartLong
    <2>3. TempInv'
        BY <2>1, <2>2, UpdateTempKeeps DEF TempTypeOK
    <2> QED
        BY <2>2, <2>3 DEF NoCooling
<1>4. CASE StartShort
    <2>1. AtRest /\ TempTypeOK
        BY <1>1, <1>4 DEF StartShort, UserRuns
    <2> QED
        BY <1>4, <2>1 DEF StartShort, NoCooling, TempInv, TempTypeOK, AtRest, ActivityIsKnown,
                          TimeoutIsSet, ratioVars
<1>5. CASE TaskReturn
    <2>1. AtRest /\ TempTypeOK
        BY <1>1, <1>5 DEF TaskReturn
    <2>2. current_action' = "NONE" /\ cancelled' = FALSE /\ UpdateTemp(FALSE, "RETURN") /\ UNCHANGED temp_timeout
        BY <1>5 DEF TaskReturn
    <2>3. TempInv'
        BY <2>1, <2>2, UpdateTempKeeps
    <2> QED
        BY <2>2, <2>3 DEF NoCooling
<1>6. CASE UpdateTempTimeout
    <2>1. AtRest /\ TempTypeOK
        BY <1>1, <1>6 DEF UpdateTempTimeout
    <2>2. /\ UpdateTemp(temp_last_active, "RETURN")
          /\ UNCHANGED <<current_action, cancelled, temp_timeout>>
        BY <1>6 DEF UpdateTempTimeout
    <2>3. TempInv'
        BY <2>1, <2>2, UpdateTempKeeps DEF TempTypeOK, AtRest, ActivityIsKnown
    <2> QED
        BY <1>6, <2>1, <2>3, TimeoutDoesNotCool
<1>7. CASE Tick
    BY <1>7, TickKeeps DEF NoCooling, Tick
<1>8. CASE UNCHANGED tempVars
    BY <1>8 DEF tempVars, ratioVars, NoCooling, TempInv, TempTypeOK, AtRest, ActivityIsKnown,
                TimeoutIsSet, UpdateRuns
<1> QED
    BY <1>2, <1>3, <1>4, <1>5, <1>6, <1>7, <1>8 DEF TempNext

\* The invariant holds in every behaviour.
LEMMA TempInvariant == ~HandlerStarts => (TempSpec => []TempInv)
<1> SUFFICES ASSUME ~HandlerStarts PROVE TempSpec => []TempInv
    OBVIOUS
<1>1. TempInv /\ [TempNext]_tempVars => TempInv'
    BY NextKeepsTempInv
<1> QED
    BY <1>1, TempInitially, PTL DEF TempSpec

-----------------------------------------------------------------------------
(* FpTemperature: what follows from it *)

\* A ratio that has left what fits the temperature did so within the ticks the timeout
\* was set for, so that it is due after Delay at the latest.
LEMMA LeftMeansDue == TempInv => UpdatedAtThreshold
<1> SUFFICES ASSUME TempInv, updates = <<>>, ~Fits(temp_current, Ratio)
             PROVE  temp_timeout \in 0..Delay
    BY DEF UpdatedAtThreshold
<1>1. TempTypeOK /\ AtRest
    BY DEF TempInv, UpdateRuns
<1>2. /\ temp_current \in Temperatures /\ temp_last_active \in BOOLEAN
      /\ temp_current_ratio \in 0..Top /\ passed \in Nat /\ temp_timeout \in Int
      /\ Fits(temp_current, temp_current_ratio) /\ Ratio \in 0..Top
    BY <1>1, RatioMoves, ThresholdAssumption DEF TempTypeOK, AtRest
<1> DEFINE ticks == Ticks(temp_current, temp_current_ratio, temp_last_active)
           border == Border(temp_current, temp_last_active)
<1>3. /\ {ColdThresh, HotWarmThresh, WarmHotThresh, Top} \subseteq Nat
      /\ ColdThresh < HotWarmThresh /\ HotWarmThresh < WarmHotThresh
      /\ HotRate \in Nat \ {0} /\ ColdRate \in Nat \ {0} /\ Delay \in Nat
    BY ThresholdAssumption, RateAssumption
<1>4. Leaves(temp_current, temp_last_active) /\ ticks <= passed
    <2>1. CASE temp_last_active
        <3> DEFINE way == border - temp_current_ratio
                   up == HotRate * passed
        <3>1. up \in Nat
            BY <1>2, <1>3
        <3>2. temp_current_ratio <= Ratio /\ Ratio <= temp_current_ratio + up
            BY <1>1, <2>1, RatioMoves
        <3> HIDE DEF up
        <3>3. Leaves(temp_current, temp_last_active) /\ way \in Nat /\ up > way
            BY <1>2, <1>3, <2>1, <3>1, <3>2 DEF Leaves, Fits, Border, Temperatures
        <3>4. ticks = way \div HotRate
            BY <2>1 DEF Ticks
        <3> HIDE DEF way, ticks
        <3> QED
            BY <1>2, <1>3, <3>3, <3>4, Overtaken DEF up
    <2>2. CASE ~temp_last_active
        <3> DEFINE way == temp_current_ratio - border
                   down == ColdRate * passed
        <3>1. down \in Nat
            BY <1>2, <1>3
        <3>2. Ratio <= temp_current_ratio /\ temp_current_ratio - down <= Ratio
            BY <1>1, <2>2, RatioMoves
        <3> HIDE DEF down
        <3>3. Leaves(temp_current, temp_last_active) /\ way \in Nat /\ down > way
            BY <1>2, <1>3, <2>2, <3>1, <3>2 DEF Leaves, Fits, Border, Temperatures
        <3>4. ticks = way \div ColdRate
            BY <2>2 DEF Ticks
        <3> HIDE DEF way, ticks
        <3> QED
            BY <1>2, <1>3, <3>3, <3>4, Overtaken DEF down
    <2> QED
        BY <1>2, <2>1, <2>2
<1>5. ticks \in Nat
    BY <1>2, <1>4, TicksAreNat
<1>6. temp_timeout >= 0 /\ (temp_timeout = 0 \/ temp_timeout + passed <= ticks + Delay)
    BY <1>1, <1>4 DEF AtRest, TimeoutIsSet
<1> HIDE DEF ticks
<1> QED
    BY <1>2, <1>3, <1>4, <1>5, <1>6

\* No step leaves a hot device with a long operation that is not cancelled: the end of an
\* update cancels one that is current, and starts none on a hot device.
LEMMA NextKeepsHotIsCancelled ==
    ASSUME TempInv, HotIsCancelled, [TempNext]_tempVars PROVE HotIsCancelled'
<1>1. CASE UpdateTempDone
    <2>1. PICK update \in Update : UpdateRuns(update)
        BY <1>1 DEF TempInv, AtRest, UpdateTempDone
    <2>2. Seqs!Last(updates) = update
        BY <2>1 DEF UpdateRuns, Seqs!Last
    <2> DEFINE started == update.then = "START" /\ ~IsHot
    <2>3. /\ current_action' = IF started THEN "LONG" ELSE current_action
          /\ cancelled' = (~started /\ (cancelled \/ HotCancels))
          /\ temp_current' = temp_current
        BY <1>1, <2>2 DEF UpdateTempDone
    <2>4. CASE started
        BY <2>3, <2>4 DEF HotIsCancelled, IsHot
    <2>5. CASE ~started
        BY <2>3, <2>5 DEF HotIsCancelled, HotCancels, IsHot
    <2> QED
        BY <2>4, <2>5
<1>2. ASSUME NEW is_active, NEW then, UpdateTemp(is_active, then) PROVE HotIsCancelled'
    <2>1. PICK before : updates = <<>> \/ updates = <<before>>
        BY DEF TempInv, AtRest, UpdateRuns
    <2>2. PICK update : updates' = Append(updates, update)
        BY <1>2 DEF UpdateTemp
    <2>3. updates' # <<>>
        <3>1. CASE updates = <<>>
            BY <2>2, <3>1
        <3>2. CASE updates = <<before>>
            BY <2>2, <3>2
        <3> QED
            BY <2>1, <3>1, <3>2
    <2> QED
        BY <2>3 DEF HotIsCancelled
<1>3. CASE StartLong
    BY <1>2, <1>3 DEF StartLong
<1>4. CASE StartShort
    BY <1>4 DEF StartShort, HotIsCancelled
<1>5. CASE TaskReturn
    BY <1>2, <1>5 DEF TaskReturn
<1>6. CASE UpdateTempTimeout
    BY <1>2, <1>6 DEF UpdateTempTimeout
<1>7. CASE Tick
    BY <1>7 DEF Tick, HotIsCancelled
<1>8. CASE UNCHANGED tempVars
    BY <1>8 DEF tempVars, ratioVars, HotIsCancelled
<1> QED
    BY <1>1, <1>3, <1>4, <1>5, <1>6, <1>7, <1>8 DEF TempNext

\* The temperature follows what the device does: one that no longer fits is about to be
\* updated, the model takes the device for active exactly while a long operation is
\* current, and a hot device has cancelled it (fpi_device_update_temp and its callers).
THEOREM TemperatureIsKnownCorrect == ~HandlerStarts => (TempSpec => []TemperatureIsKnown)
<1> SUFFICES ASSUME ~HandlerStarts PROVE TempSpec => []TemperatureIsKnown
    OBVIOUS
<1>1. TempInv => ActivityIsKnown
    BY DEF TempInv, UpdateRuns, AtRest, ActivityIsKnown
<1>2. TempInv /\ HotIsCancelled => TemperatureIsKnown
    BY <1>1, LeftMeansDue DEF TemperatureIsKnown
<1>3. TempInit => HotIsCancelled
    BY DEF TempInit, HotIsCancelled
<1>4. TempInv /\ HotIsCancelled /\ [TempNext]_tempVars => HotIsCancelled'
    BY NextKeepsHotIsCancelled
<1> QED
    BY <1>2, <1>3, <1>4, TempInvariant, PTL DEF TempSpec

\* Nothing cools down while a long operation is current.
THEOREM NoCoolingCorrect == ~HandlerStarts => (TempSpec => NoCoolingWhileActive)
<1> SUFFICES ASSUME ~HandlerStarts PROVE TempSpec => NoCoolingWhileActive
    OBVIOUS
<1>1. TempInv /\ [TempNext]_tempVars => [NoCooling]_tempVars
    BY NextKeepsTempInv
<1>2. [][NoCooling]_tempVars => NoCoolingWhileActive
    BY PTL DEF NoCoolingWhileActive, NoCooling
<1> QED
    BY <1>1, <1>2, TempInvariant, PTL DEF TempSpec
=============================================================================
