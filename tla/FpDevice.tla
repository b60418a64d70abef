------------------------------ MODULE FpDevice ------------------------------
(***************************************************************************)
(* The life of one FpDevice: the single pending action, its cancellation,  *)
(* the driver's critical sections, the completion from an idle source,     *)
(* suspend and resume, overheating and removal (fp-device.c and the        *)
(* request side of fpi-device.c).                                          *)
(*                                                                         *)
(* Everything runs on one thread.  A step is one dispatch of the main      *)
(* loop, one call of the API user or one call a driver makes into the      *)
(* library; user calls and driver calls may come at any time (they are     *)
(* made from callbacks and vfuncs), the library's own sources are ordered  *)
(* by priority: critical section flush (HIGH) > return (DEFAULT) >         *)
(* cancel (DEFAULT_IDLE).                                                  *)
(*                                                                         *)
(* An operator named Bad... is a wrong form of the one after it, which the *)
(* mutation runs put in its place; the specification does not use it.      *)
(***************************************************************************)
EXTENDS Naturals

CONSTANTS
    Offered,      \* the operations the API user starts; "SUSPEND" if it suspends
    Vfuncs,       \* the vfuncs the driver's class fills in
    MaxCritical,  \* bound on the nesting of critical sections
    MaxNesting    \* bound on main loops run from within user callbacks

LongActions  == {"ENROLL", "VERIFY", "IDENTIFY", "CAPTURE"}
ShortActions == {"PROBE", "OPEN", "CLOSE", "DELETE", "LIST", "CLEAR_STORAGE"}
Actions      == LongActions \union ShortActions

ASSUME OfferedAssumption ==
    Offered \subseteq (Actions \ {"PROBE"}) \union {"SUSPEND"}
ASSUME VfuncsAssumption ==
    Vfuncs \subseteq Actions \union {"CANCEL", "SUSPEND", "RESUME"}
ASSUME MaxCriticalAssumption ==
    MaxCritical \in Nat
ASSUME MaxNestingAssumption ==
    MaxNesting \in Nat

VARIABLES
    life,             \* object life: "new" until async init, then "ready" or "dead"
    action,           \* priv->current_action; current_task is set iff # "NONE"
    hooked,           \* the two cancellables' handlers are connected
    cancellable,      \* priv->current_cancellable has been cancelled
    external,         \* the user's GCancellable of the task: "none", "armed", "cancelled"
    reason,           \* priv->current_cancellation_reason
    idle_cancel,      \* priv->current_idle_cancel_source is attached
    idle_return,      \* priv->current_task_idle_return_source and its result
    critical_section, \* priv->critical_section
    flush,            \* priv->critical_section_flush_source is attached
    cancel_queued,
    suspend_queued,
    resume_queued,
    suspend_resume_task,  \* "none", "suspend" or "resume"
    suspend_error,
    is_open,
    is_suspended,
    is_removed,
    removed_emitted,  \* how often the "removed" signal was emitted
    notify,           \* notify::completed handlers connected to current_task
    returning,        \* how many task returns are on the stack (user callbacks)
    ret_notify,       \* notify::completed handlers of those tasks still to run
    hot,              \* priv->temp_current = FP_TEMPERATURE_HOT
    driver,           \* "idle", "queued" (probe vfunc in a timeout) or "busy"
    drv_cancelled,    \* cls->cancel was called for what the driver is doing
    drv_suspend,      \* suspend or resume vfunc called, answer outstanding
    assert_failed     \* a g_assert has failed (the model goes on as if it were disabled)

cancelVars   == <<hooked, cancellable, external, reason, idle_cancel>>
criticalVars == <<critical_section, flush, cancel_queued, suspend_queued, resume_queued>>
suspendVars  == <<suspend_resume_task, suspend_error, is_suspended>>
returnVars   == <<notify, returning, ret_notify>>
removeVars   == <<is_removed, removed_emitted>>
driverVars   == <<driver, drv_cancelled, drv_suspend>>

vars == <<life, action, cancelVars, idle_return, criticalVars, suspendVars,
          is_open, removeVars, returnVars, hot, driverVars, assert_failed>>

Init ==
    /\ life = "new"
    /\ action = "NONE"
    /\ hooked = FALSE
    /\ cancellable = FALSE
    /\ external = "none"
    /\ reason = "none"
    /\ idle_cancel = FALSE
    /\ idle_return = "none"
    /\ critical_section = 0
    /\ flush = FALSE
    /\ cancel_queued = FALSE
    /\ suspend_queued = FALSE
    /\ resume_queued = FALSE
    /\ suspend_resume_task = "none"
    /\ suspend_error = "none"
    /\ is_open = FALSE
    /\ is_suspended = FALSE
    /\ is_removed = FALSE
    /\ removed_emitted = 0
    /\ notify = {}
    /\ returning = 0
    /\ ret_notify = {}
    /\ hot = FALSE
    /\ driver = "idle"
    /\ drv_cancelled = FALSE
    /\ drv_suspend = "none"
    /\ assert_failed = FALSE

-----------------------------------------------------------------------------
(* Starting an operation *)

\* One operation at a time, none while suspended (clear_storage does not look).
BadBusy(op) == is_suspended /\ op # "CLEAR_STORAGE"
Busy(op) == action # "NONE" \/ (is_suspended /\ op # "CLEAR_STORAGE")

\* setup_task_cancellable: a fresh internal cancellable, slave of the user's.
BadSetupTaskCancellable(ext) ==
    /\ hooked' = ("CANCEL" \in Vfuncs)
    /\ cancellable' = FALSE
    /\ external' = ext
SetupTaskCancellable(ext) ==
    /\ hooked' = TRUE
    /\ cancellable' = FALSE
    /\ external' = ext

\* The driver of a started operation is at work, its task is current.
Begin(act, task_driver) ==
    /\ action' = act
    /\ \E ext \in {"none", "armed"} : SetupTaskCancellable(ext)
    /\ driver' = task_driver
    /\ UNCHANGED <<life, reason, idle_cancel, idle_return, criticalVars, suspendVars,
                   is_open, removeVars, returnVars, hot, drv_cancelled, drv_suspend, assert_failed>>

InitAsync ==
    /\ life = "new" /\ action = "NONE"
    /\ Begin("PROBE", "queued")

\* Long operations are refused while the sensor is hot.
TooHot == hot

\* A refused call answers its own task at once and changes nothing here.
Admitted(op) ==
    /\ life = "ready" /\ op \in Offered
    /\ is_open <=> op # "OPEN"
    /\ ~Busy(op)

Open         == Admitted("OPEN") /\ Begin("OPEN", "busy")
Close        == Admitted("CLOSE") /\ Begin("CLOSE", "busy")
Enroll       == Admitted("ENROLL") /\ ~TooHot /\ Begin("ENROLL", "busy")
\* A driver without a verify vfunc identifies against a gallery of one.
Verify       == /\ Admitted("VERIFY") /\ ~TooHot
                /\ {"VERIFY", "IDENTIFY"} \intersect Vfuncs # {}
                /\ Begin(IF "VERIFY" \in Vfuncs THEN "VERIFY" ELSE "IDENTIFY", "busy")
Identify     == Admitted("IDENTIFY") /\ ~TooHot /\ "IDENTIFY" \in Vfuncs /\ Begin("IDENTIFY", "busy")
Capture      == Admitted("CAPTURE") /\ ~TooHot /\ "CAPTURE" \in Vfuncs /\ Begin("CAPTURE", "busy")
DeletePrint  == Admitted("DELETE") /\ "DELETE" \in Vfuncs /\ Begin("DELETE", "busy")
ListPrints   == Admitted("LIST") /\ "LIST" \in Vfuncs /\ Begin("LIST", "busy")
ClearStorage == Admitted("CLEAR_STORAGE") /\ "CLEAR_STORAGE" \in Vfuncs /\ Begin("CLEAR_STORAGE", "busy")

\* The timeout of init_async: call the probe vfunc, or complete at once.
IdleProbe ==
    /\ driver = "queued"
    /\ ~flush
    /\ driver' = "busy"
    /\ UNCHANGED <<life, action, cancelVars, idle_return, criticalVars, suspendVars,
                   is_open, removeVars, returnVars, hot, drv_cancelled, drv_suspend, assert_failed>>

-----------------------------------------------------------------------------
(* Cancellation *)

\* clear_device_cancel_action: destroy the idle cancel source, disconnect both handlers.
BadClearCancelAction == hooked' = FALSE /\ UNCHANGED idle_cancel
ClearCancelAction ==
    /\ hooked' = FALSE
    /\ idle_cancel' = FALSE

\* No vfunc is called inside a critical section: the request is queued.
BadMustQueue == critical_section > 1
MustQueue == critical_section > 0

\* g_cancellable_cancel on the internal cancellable: its handler attaches the
\* idle source that will call cls->cancel.
CancelInternal ==
    /\ cancellable' = TRUE
    /\ idle_cancel' = (idle_cancel \/ (~cancellable /\ hooked /\ "CANCEL" \in Vfuncs))

\* The user cancels the GCancellable passed to the pending operation.
ExternalCancel ==
    /\ action # "NONE"
    /\ external = "armed"
    /\ external' = "cancelled"
    /\ IF hooked THEN CancelInternal ELSE UNCHANGED <<cancellable, idle_cancel>>
    /\ UNCHANGED <<life, action, hooked, reason, idle_return, criticalVars, suspendVars,
                   is_open, removeVars, returnVars, hot, driverVars, assert_failed>>

CancelInIdle ==
    /\ idle_cancel
    /\ ~flush /\ driver # "queued" /\ idle_return = "none"
    /\ idle_cancel' = FALSE
    /\ IF MustQueue
       THEN cancel_queued' = TRUE /\ UNCHANGED drv_cancelled
       ELSE drv_cancelled' = TRUE /\ UNCHANGED cancel_queued
    /\ assert_failed' = (assert_failed \/ action = "NONE")
    /\ UNCHANGED <<life, action, hooked, cancellable, external, reason, idle_return,
                   critical_section, flush, suspend_queued, resume_queued, suspendVars,
                   is_open, removeVars, returnVars, hot, driver, drv_suspend>>

\* The temperature model finds the device hot, in its timer or in an update made
\* when an operation starts or returns: long operations are cancelled from within.
BecomeHot ==
    /\ flush => action = "NONE"
    /\ ~hot
    /\ hot' = TRUE
    /\ IF action \in LongActions
       THEN /\ reason' = IF reason = "none" THEN "TOO_HOT" ELSE reason
            /\ CancelInternal
       ELSE UNCHANGED <<reason, cancellable, idle_cancel>>
    /\ UNCHANGED <<life, action, hooked, external, idle_return, criticalVars, suspendVars,
                   is_open, removeVars, returnVars, driverVars, assert_failed>>

\* Nothing cools down while a long operation keeps the sensor active.
CoolDown ==
    /\ hot
    /\ action \notin LongActions
    /\ hot' = FALSE
    /\ UNCHANGED <<life, action, cancelVars, idle_return, criticalVars, suspendVars,
                   is_open, removeVars, returnVars, driverVars, assert_failed>>

-----------------------------------------------------------------------------
(* Suspend and resume *)

\* A suspend that failed waits for the action it has to cancel.
BadSuspendWaits(error) == FALSE
SuspendWaits(error) == error # "none" /\ action # "NONE"

\* fpi_device_suspend_complete and fpi_device_suspend_completed.
SuspendComplete(error) ==
    /\ is_suspended' = TRUE
    /\ IF ~SuspendWaits(error)
       THEN /\ suspend_resume_task' = "none"
            /\ suspend_error' = "none"
            /\ UNCHANGED <<notify, reason, cancellable, idle_cancel>>
       ELSE /\ suspend_resume_task' = "suspend"
            /\ suspend_error' = error
            /\ notify' = notify \union {"suspend_completed"}
            /\ reason' = IF reason = "none" THEN "BUSY" ELSE reason
            /\ CancelInternal

\* fpi_device_resume_complete.
ResumeComplete ==
    /\ is_suspended' = FALSE
    /\ suspend_resume_task' = "none"

\* Only an idle device is suspended on the spot.
BadIdleForSuspend == action \notin LongActions
IdleForSuspend == action = "NONE"

\* fpi_device_suspend, called by fp_device_suspend and by the flush.
DeviceSuspend ==
    \/ /\ IdleForSuspend
       /\ SuspendComplete("none")
       /\ suspend_queued' = FALSE
       /\ UNCHANGED drv_suspend
    \/ /\ action \in LongActions
       /\ "SUSPEND" \in Vfuncs
       /\ suspend_resume_task' = "suspend"
       /\ IF MustQueue
          THEN suspend_queued' = TRUE /\ UNCHANGED drv_suspend
          ELSE suspend_queued' = FALSE /\ drv_suspend' = "suspending"
       /\ UNCHANGED <<is_suspended, suspend_error, notify, reason, cancellable, idle_cancel>>
    \/ /\ action \in LongActions
       /\ "SUSPEND" \notin Vfuncs
       /\ SuspendComplete("NOT_SUPPORTED")
       /\ suspend_queued' = FALSE
       /\ UNCHANGED drv_suspend
    \/ /\ action \in ShortActions
       /\ notify' = notify \union {"complete_suspend_resume"}
       /\ suspend_resume_task' = "suspend"
       /\ suspend_queued' = FALSE
       /\ UNCHANGED <<is_suspended, suspend_error, reason, cancellable, idle_cancel, drv_suspend>>

\* fpi_device_resume, called by fp_device_resume and by the flush.
DeviceResume ==
    \/ /\ action = "NONE" \/ (action \in LongActions /\ "RESUME" \notin Vfuncs)
       /\ ResumeComplete
       /\ resume_queued' = FALSE
       /\ UNCHANGED <<drv_suspend, assert_failed>>
    \/ /\ action \in LongActions
       /\ "RESUME" \in Vfuncs
       /\ suspend_resume_task' = "resume"
       /\ IF MustQueue
          THEN resume_queued' = TRUE /\ UNCHANGED drv_suspend
          ELSE resume_queued' = FALSE /\ drv_suspend' = "resuming"
       /\ UNCHANGED <<is_suspended, assert_failed>>
    \/ /\ action \in ShortActions      \* g_assert_not_reached
       /\ assert_failed' = TRUE
       /\ suspend_resume_task' = "none"
       /\ resume_queued' = FALSE
       /\ UNCHANGED <<is_suspended, drv_suspend>>

BadSuspendRefused == is_suspended \/ is_removed
SuspendRefused == suspend_resume_task # "none" \/ is_suspended \/ is_removed

\* fp_device_suspend.
Suspend ==
    /\ life = "ready" /\ "SUSPEND" \in Offered
    /\ ~SuspendRefused
    /\ DeviceSuspend
    /\ UNCHANGED <<life, action, hooked, external, idle_return, critical_section, flush,
                   cancel_queued, resume_queued, is_open, removeVars, returning,
                   ret_notify, hot, driver, drv_cancelled, assert_failed>>

\* fp_device_resume.
Resume ==
    /\ life = "ready"
    /\ suspend_resume_task = "none" /\ is_suspended
    /\ ~is_removed
    /\ DeviceResume
    /\ UNCHANGED <<life, action, cancelVars, idle_return, critical_section, flush,
                   cancel_queued, suspend_queued, suspend_error, is_open, removeVars,
                   returnVars, hot, driver, drv_cancelled>>

\* The driver answers its suspend vfunc.  It may report success only while the
\* action goes on and will continue after the resume.
DriverSuspendComplete ==
    /\ drv_suspend = "suspending"
    /\ suspend_resume_task # "none" /\ suspend_error = "none"
    /\ drv_suspend' = "none"
    /\ \/ action \in LongActions /\ driver = "busy" /\ SuspendComplete("none")
       \/ SuspendComplete("NOT_SUPPORTED")
    /\ UNCHANGED <<life, action, hooked, external, idle_return, criticalVars, is_open,
                   removeVars, returning, ret_notify, hot, driver, drv_cancelled, assert_failed>>

DriverResumeComplete ==
    /\ drv_suspend = "resuming"
    /\ suspend_resume_task # "none"
    /\ drv_suspend' = "none"
    /\ ResumeComplete
    /\ UNCHANGED <<life, action, cancelVars, idle_return, criticalVars, suspend_error,
                   is_open, removeVars, returnVars, hot, driver, drv_cancelled, assert_failed>>

-----------------------------------------------------------------------------
(* Critical sections *)

CriticalEnter ==
    /\ driver = "busy"
    /\ critical_section < MaxCritical
    /\ critical_section' = critical_section + 1
    /\ flush' = FALSE
    /\ UNCHANGED <<life, action, cancelVars, idle_return, cancel_queued, suspend_queued,
                   resume_queued, suspendVars, is_open, removeVars, returnVars, hot,
                   driverVars, assert_failed>>

\* Leaving the outermost section attaches the flush source unless it is there.
BadFlushAfterLeave == flush
FlushAfterLeave == flush \/ critical_section = 1

\* critical_leave refuses to leave more often than critical_enter was called.
BadInCriticalSection == TRUE
InCriticalSection == critical_section > 0

CriticalLeave ==
    /\ driver = "busy"
    /\ InCriticalSection
    /\ critical_section' = critical_section - 1
    /\ flush' = FlushAfterLeave
    /\ UNCHANGED <<life, action, cancelVars, idle_return, cancel_queued, suspend_queued,
                   resume_queued, suspendVars, is_open, removeVars, returnVars, hot,
                   driverVars, assert_failed>>

\* One dispatch of the flush source: cancel, else suspend, else resume, else done.
CriticalFlush ==
    /\ flush
    /\ UNCHANGED <<life, action, hooked, external, idle_return, critical_section, is_open,
                   removeVars, returning, ret_notify, hot, driver>>
    /\ \/ /\ cancel_queued
          /\ cancel_queued' = FALSE
          /\ drv_cancelled' = (drv_cancelled \/ (action # "NONE" /\ idle_return = "none"))
          /\ UNCHANGED <<flush, suspend_queued, resume_queued, suspendVars, notify, reason,
                         cancellable, idle_cancel, drv_suspend, assert_failed>>
       \/ /\ ~cancel_queued /\ suspend_queued
          /\ DeviceSuspend
          /\ UNCHANGED <<flush, cancel_queued, resume_queued, drv_cancelled, assert_failed>>
       \/ /\ ~cancel_queued /\ ~suspend_queued /\ resume_queued
          /\ DeviceResume
          /\ UNCHANGED <<flush, cancel_queued, suspend_queued, suspend_error, notify, reason,
                         cancellable, idle_cancel, drv_cancelled>>
       \/ /\ ~cancel_queued /\ ~suspend_queued /\ ~resume_queued
          /\ flush' = FALSE
          /\ UNCHANGED <<cancel_queued, suspend_queued, resume_queued, suspendVars, notify,
                         reason, cancellable, idle_cancel, drv_cancelled, drv_suspend, assert_failed>>

-----------------------------------------------------------------------------
(* Completion *)

\* What every completion does: the cancel hooks go, the result waits in an idle
\* source.  The driver has left all its critical sections.
DriverComplete(result) ==
    /\ driver = "busy"
    /\ critical_section = 0
    /\ driver' = "idle"
    /\ drv_cancelled' = FALSE
    /\ ClearCancelAction
    /\ idle_return' = result
    /\ UNCHANGED <<life, action, cancellable, external, reason, criticalVars, suspendVars,
                   is_open, removeVars, returnVars, hot, drv_suspend, assert_failed>>

\* The driver ends the current action with the call made for it.
ProbeComplete(result)        == action = "PROBE" /\ DriverComplete(result)
OpenComplete(result)         == action = "OPEN" /\ DriverComplete(result)
CloseComplete(result)        == action = "CLOSE" /\ DriverComplete(result)
EnrollComplete(result)       == action = "ENROLL" /\ DriverComplete(result)
VerifyComplete(result)       == action = "VERIFY" /\ DriverComplete(result)
IdentifyComplete(result)     == action = "IDENTIFY" /\ DriverComplete(result)
CaptureComplete(result)      == action = "CAPTURE" /\ DriverComplete(result)
DeleteComplete(result)       == action = "DELETE" /\ DriverComplete(result)
ListComplete(result)         == action = "LIST" /\ DriverComplete(result)
ClearStorageComplete(result) == action = "CLEAR_STORAGE" /\ DriverComplete(result)

Complete(result) ==
    \/ ProbeComplete(result) \/ OpenComplete(result) \/ CloseComplete(result)
    \/ EnrollComplete(result) \/ VerifyComplete(result) \/ IdentifyComplete(result)
    \/ CaptureComplete(result) \/ DeleteComplete(result) \/ ListComplete(result)
    \/ ClearStorageComplete(result)

\* fpi_device_action_error: the completion of the current action, with an error.
ActionError == Complete("error")

\* fp_device_task_return_in_idle_cb up to the user's callback.
ReturnInIdle ==
    /\ idle_return # "none"
    /\ ~flush
    /\ returning < MaxNesting
    /\ action' = "NONE"
    /\ idle_return' = "none"
    /\ cancellable' = FALSE
    /\ external' = "none"
    /\ reason' = "none"
    /\ is_open' = IF action = "OPEN" /\ idle_return = "ok" THEN TRUE
                  ELSE IF action = "CLOSE" THEN FALSE ELSE is_open
    /\ life' = IF action # "PROBE" THEN life
               ELSE IF idle_return = "ok" /\ ~is_removed /\ external # "cancelled"
                    THEN "ready" ELSE "dead"
    /\ returning' = returning + 1
    /\ ret_notify' = ret_notify \union notify
    /\ notify' = {}
    /\ UNCHANGED <<hooked, idle_cancel, criticalVars, suspendVars, removeVars, hot,
                   driverVars, assert_failed>>

\* After the user's callback GTask emits notify::completed.
TaskNotify(handler) ==
    /\ returning > 0
    /\ handler \in ret_notify
    /\ ret_notify' = ret_notify \ {handler}
    /\ \/ /\ handler = "removed"
          /\ removed_emitted' = removed_emitted + 1
          /\ UNCHANGED <<suspend_resume_task, suspend_error, assert_failed>>
       \/ /\ handler = "complete_suspend_resume"
          /\ assert_failed' = (assert_failed \/ suspend_resume_task = "none")
          /\ suspend_resume_task' = "none"
          /\ UNCHANGED <<suspend_error, removed_emitted>>
       \/ /\ handler = "suspend_completed"
          /\ suspend_resume_task' = "none"
          /\ suspend_error' = "none"
          /\ UNCHANGED <<removed_emitted, assert_failed>>
    /\ UNCHANGED <<life, action, cancelVars, idle_return, criticalVars, is_suspended, is_open,
                   is_removed, notify, returning, hot, driverVars>>

ReturnDone ==
    /\ returning > 0
    /\ returning = 1 => ret_notify = {}
    /\ returning' = returning - 1
    /\ UNCHANGED <<life, action, cancelVars, idle_return, criticalVars, suspendVars, is_open,
                   removeVars, notify, ret_notify, hot, driverVars, assert_failed>>

-----------------------------------------------------------------------------
(* Removal *)

BadCanBeRemoved == TRUE
CanBeRemoved == ~is_removed

\* With an operation pending the signal is left to notify::completed.
BadRemovedHandler == {}
RemovedHandler == {"removed"}

\* fpi_device_remove.
Remove ==
    /\ CanBeRemoved
    /\ life # "dead"
    /\ is_removed' = TRUE
    /\ IF action # "NONE"
       THEN notify' = notify \union RemovedHandler /\ UNCHANGED removed_emitted
       ELSE removed_emitted' = removed_emitted + 1 /\ UNCHANGED notify
    /\ UNCHANGED <<life, action, cancelVars, idle_return, criticalVars, suspendVars, is_open,
                   returning, ret_notify, hot, driverVars, assert_failed>>

\* The context drops a device whose probe failed; nothing happens to it any more.
Discarded ==
    /\ life = "dead"
    /\ returning = 0
    /\ UNCHANGED vars

-----------------------------------------------------------------------------

User == \/ Open \/ Close
        \/ Enroll \/ Verify \/ Identify \/ Capture
        \/ DeletePrint \/ ListPrints \/ ClearStorage
        \/ ExternalCancel
        \/ Suspend
        \/ Resume

Context == InitAsync \/ Remove \/ Discarded

MainLoop == \/ IdleProbe
            \/ CancelInIdle
            \/ CriticalFlush
            \/ ReturnInIdle
            \/ \E handler \in {"removed", "complete_suspend_resume", "suspend_completed"} :
                   TaskNotify(handler)
            \/ ReturnDone
            \/ BecomeHot
            \/ CoolDown

Driver == \/ CriticalEnter
          \/ CriticalLeave
          \/ \E result \in {"ok", "error"} : Complete(result)
          \/ ActionError
          \/ DriverSuspendComplete
          \/ DriverResumeComplete

Next == User \/ Context \/ MainLoop \/ Driver

Spec == Init /\ [][Next]_vars

(* The main loop dispatches its sources; a driver is not always inside a      *)
(* critical section, answers suspend and resume, and ends an action that is   *)
(* short, cancelled or whose device is gone (fpi-device.h: "Drivers must      *)
(* eventually call the corresponding function to finish the operation" and    *)
(* "must also handle cancellation properly for any long running operation").  *)
DriverMustFinish ==
    \/ action \in ShortActions
    \/ drv_cancelled
    \/ cancellable /\ "CANCEL" \notin Vfuncs
    \/ is_removed

MainLoopFairness ==
    /\ WF_vars(IdleProbe)
    /\ SF_vars(CancelInIdle)
    /\ SF_vars(CriticalFlush)
    /\ WF_vars(ReturnInIdle)
    /\ \A handler \in {"removed", "complete_suspend_resume", "suspend_completed"} :
           WF_vars(TaskNotify(handler))
    /\ WF_vars(ReturnDone)

DriverFairness ==
    /\ WF_vars(CriticalLeave)
    /\ SF_vars(critical_section = 1 /\ CriticalLeave)
    /\ SF_vars(DriverMustFinish /\ \E result \in {"ok", "error"} : Complete(result))
    /\ WF_vars(DriverSuspendComplete)
    /\ WF_vars(DriverResumeComplete)

FairSpec == Spec /\ MainLoopFairness /\ DriverFairness

-----------------------------------------------------------------------------
(* Properties *)

Handlers == {"removed", "complete_suspend_resume", "suspend_completed"}

TypeAction ==
    /\ life \in {"new", "ready", "dead"}
    /\ action \in Actions \union {"NONE"}
    /\ idle_return \in {"none", "ok", "error"}

TypeCancel ==
    /\ hooked \in BOOLEAN
    /\ cancellable \in BOOLEAN
    /\ external \in {"none", "armed", "cancelled"}
    /\ reason \in {"none", "TOO_HOT", "BUSY"}
    /\ idle_cancel \in BOOLEAN

TypeCritical ==
    /\ flush \in BOOLEAN
    /\ cancel_queued \in BOOLEAN
    /\ suspend_queued \in BOOLEAN
    /\ resume_queued \in BOOLEAN

TypeSuspend ==
    /\ suspend_resume_task \in {"none", "suspend", "resume"}
    /\ suspend_error \in {"none", "NOT_SUPPORTED"}
    /\ is_suspended \in BOOLEAN

TypeReturn ==
    /\ notify \subseteq Handlers
    /\ ret_notify \subseteq Handlers

TypeFlags ==
    /\ is_open \in BOOLEAN
    /\ is_removed \in BOOLEAN
    /\ hot \in BOOLEAN
    /\ assert_failed \in BOOLEAN

TypeDriver ==
    /\ driver \in {"idle", "queued", "busy"}
    /\ drv_cancelled \in BOOLEAN
    /\ drv_suspend \in {"none", "suspending", "resuming"}

TypeCounters ==
    /\ critical_section \in 0..MaxCritical
    /\ returning \in 0..MaxNesting
    /\ removed_emitted \in Nat

\* Every field of the device's private data keeps to its range.
TypeOK ==
    /\ TypeCounters
    /\ TypeAction
    /\ TypeCancel
    /\ TypeCritical
    /\ TypeSuspend
    /\ TypeReturn
    /\ TypeFlags
    /\ TypeDriver

\* The driver works exactly while a task is current and not yet reported: no
\* second operation reaches a busy driver, no task loses its driver
\* (fp-device.c start guards, fpi_device_return_task_in_idle).
DriverWorksForTask ==
    driver # "idle" <=> action # "NONE" /\ idle_return = "none"

\* A cancellation never outlives the operation it was meant for: an idle cancel
\* source, a queued cancel and a cancel vfunc call all belong to a current,
\* cancelled, unreported action (clear_device_cancel_action and the flush).
CancelBelongsToAction ==
    /\ hooked => action # "NONE" /\ idle_return = "none"
    /\ idle_cancel => hooked /\ cancellable
    /\ cancel_queued => action # "NONE" /\ cancellable
    /\ drv_cancelled => driver = "busy" /\ cancellable
    /\ reason # "none" => action # "NONE" /\ cancellable

WithinSection == critical_section > 0

\* A request put aside for a critical section is never forgotten: the section is
\* still entered, or the flush source is attached (critical_enter/leave, flush).
QueuedRequestsAreFlushed ==
    /\ cancel_queued \/ suspend_queued \/ resume_queued => WithinSection \/ flush
    /\ WithinSection => driver = "busy" /\ ~flush

\* A suspend or resume task has exactly one place from which it will be answered;
\* without a task there is none, so no answer finds the task gone
\* (suspend_resume_task in fpi_device_suspend/resume and their completions).
AnswerRoutes ==
    {route \in {"suspend_queued", "resume_queued", "vfunc",
                "complete_suspend_resume", "suspend_completed"} :
        \/ route = "suspend_queued" /\ suspend_queued
        \/ route = "resume_queued" /\ resume_queued
        \/ route = "vfunc" /\ drv_suspend # "none"
        \/ route \in notify
        \/ route \in ret_notify}

SuspendTaskOwned ==
    /\ suspend_resume_task = "none" <=> AnswerRoutes = {}
    /\ \A r1, r2 \in AnswerRoutes : r1 = r2
    /\ notify \intersect ret_notify = {}

\* The "removed" signal is owed exactly once after a removal: emitted, or waiting
\* for the operation that was pending (fpi_device_remove).
RemovedSignalOwed ==
    /\ removed_emitted = IF is_removed /\ "removed" \notin notify \union ret_notify THEN 1 ELSE 0
    /\ "removed" \in notify => action # "NONE"

\* No request to the device is lost or answered twice, whether it waits for a critical
\* section, for a vfunc or for the operation that is pending (fpi_device_suspend,
\* fpi_device_resume, fpi_device_remove, the flush of a critical section).
RequestsAreOwned == QueuedRequestsAreFlushed /\ SuspendTaskOwned /\ RemovedSignalOwed

\* No g_assert of the request handling fails (the cancel idle callback, the
\* completion of a suspend task, resume during a short operation).
NoAssertionFails == ~assert_failed

\* fpi-device.h: cancel, suspend and resume "will not be called while the device
\* is within" a critical section, from whichever of the paths they come.
NoVfuncInCriticalSection ==
    [][WithinSection =>
          /\ drv_cancelled' => drv_cancelled
          /\ drv_suspend' \in {"none", drv_suspend}]_vars

\* A suspended device whose suspend call has been answered runs a long operation
\* only if its driver agreed to keep it, never one the suspend has to cancel
\* (fpi_device_suspend_complete, fpi_device_suspend_completed).
SuspendedWithoutLongAction ==
    is_suspended /\ suspend_resume_task = "none" /\ action \in LongActions =>
        "SUSPEND" \in Vfuncs /\ reason # "BUSY"

\* A cancelled operation returns.
CancelledOperationReturns == (action # "NONE" /\ cancellable) ~> action = "NONE"

\* An operation whose user cancels it returns, also without a cancel vfunc.
UserCancelReturns == (external = "cancelled" /\ action # "NONE") ~> action = "NONE"

\* A suspend or resume call is answered.
SuspendResumeReturns == suspend_resume_task # "none" ~> suspend_resume_task = "none"

\* After a removal the "removed" signal is emitted.
RemovedSignalArrives == is_removed ~> removed_emitted = 1

\* What the device owes its user comes: the return of a cancelled operation, the answer
\* to a suspend or resume call, the signal after a removal.
RequestsReturn == CancelledOperationReturns /\ SuspendResumeReturns /\ RemovedSignalArrives

\* The device is what its user sees of it: one operation at a time that is answered
\* once, suspend and resume calls that alternate, one signal after the removal.
Promise == INSTANCE DevicePromise WITH
    Operations  <- Actions,
    NoOperation <- "NONE",
    operation   <- action,
    outcome     <- idle_return,
    open        <- is_open,
    power       <- IF is_suspended THEN "off" ELSE "on",
    request     <- suspend_resume_task,
    removal     <- IF ~is_removed THEN "present"
                   ELSE IF removed_emitted = 0 THEN "removed" ELSE "told"

KeepsDevicePromise == Promise!Spec

(* Statements of the documentation and comments that the code does not keep *)

\* fp-device.c: "the call to close the device can be made immediately from the
\* signal handler".
RemovedDeviceCanBeClosed ==
    removed_emitted = 1 /\ is_open /\ action = "NONE" => ~Busy("CLOSE")
=============================================================================
