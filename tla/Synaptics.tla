------------------------------ MODULE Synaptics ------------------------------
(***************************************************************************)
(* A sensor that matches on the chip (drivers/synaptics/synaptics.c).  One *)
(* command runs at a time, as a state machine that sends it, reads answers *)
(* and waits for an interrupt in between.  The driver is in a critical     *)
(* section of its device except while it waits: only then it is cancelled  *)
(* or suspended.  An answer is handed to the callback of the command,      *)
(* which may end the operation, send another command, or leave the end to  *)
(* the removal of the finger.                                              *)
(*                                                                         *)
(* A call of the driver into libfprint is a function from syn to syn, since *)
(* one callback makes several of them; sensor stands for the hardware.     *)
(* Left out are the bytes of the messages, their sequence numbers, of which *)
(* a wrong one is only warned of, and the removal and temperature of the   *)
(* device, which FpDevice and FpTemperature model.                         *)
(***************************************************************************)
EXTENDS Naturals

CONSTANTS
    GallerySize,  \* how many prints an identify operation has
    NrStages,     \* ENROLL_SAMPLES
    Percents,     \* what the sensor says of the progress of an enroll command
    Provoked      \* which of the situations below may come about

ASSUME GallerySizeAssumption == GallerySize \in Nat \ {0}
ASSUME NrStagesAssumption == NrStages \in Nat \ {0}
ASSUME PercentsAssumption == Percents \subseteq 0..100 /\ {0, 100} \subseteq Percents

(* suspend_completing: an operation that the driver could suspend ends while  *)
(*   the suspend call is put aside, or is suspended when it has just ended;   *)
(* quiet_interrupt: an interrupt of such an operation announces nothing;      *)
(* bad_print: a print of the gallery has no valid user id;                    *)
(* asks_too_many: the sensor asks for more prints than there are;             *)
(* crossed_cancel: the answer to a cancel command comes after another one     *)
(*   that ended the command;                                                  *)
(* cancel_lost: the cancel command does not reach the sensor;                 *)
(* late_answer: a command fails since its answer took too long, which is      *)
(*   then read as the answer of the next one;                                 *)
(* stale_error: an identify operation that holds back an error is cancelled   *)
(*   or fails before the finger is removed.                                   *)
Situations == {"suspend_completing", "quiet_interrupt", "bad_print", "asks_too_many",
               "crossed_cancel", "cancel_lost", "late_answer", "stale_error"}
ASSUME ProvokedAssumption == Provoked \subseteq Situations

VARIABLES
    syn,     \* FpiDeviceSynaptics and what FpDevice holds of the current action
    sensor   \* the command it runs and what it has still to say

vars == <<syn, sensor>>

Matching == {"VERIFY", "IDENTIFY"}
Long     == Matching \union {"ENROLL"}
Short    == {"PROBE", "OPEN", "CLOSE", "DELETE", "CLEAR_STORAGE"}

\* ssm to stage are the driver's; ssm is "none" without a cmd_ssm, callback its data.
\* Of the device: report and progress are what the user was told, result what waits to
\* be returned, failed the assertions that did not hold.
Init ==
    /\ syn = [ssm |-> "none", callback |-> "none", pending |-> "none", transfer |-> "none",
              on_removal |-> FALSE, delay_error |-> "none", suspended |-> FALSE,
              starting |-> FALSE, finger |-> FALSE, id_idx |-> 0, bad |-> GallerySize,
              stage |-> 0,
              life |-> "new", action |-> "NONE", open |-> FALSE, is_suspended |-> FALSE,
              critical |-> 0, queued |-> {}, flush |-> FALSE, cancelled |-> FALSE,
              cancel_due |-> FALSE, task |-> "none", report |-> "none", progress |-> 0,
              result |-> "none", failed |-> {}]
    /\ sensor = [op |-> "none", ready |-> FALSE, percent |-> 0, touching |-> FALSE,
                 cancel |-> FALSE, late |-> "none", verdict |-> "none"]

Asserted(s, holds, name) == IF holds THEN s ELSE [s EXCEPT !.failed = @ \union {name}]
Provokes(situation, holds) == holds => situation \in Provoked

-----------------------------------------------------------------------------
(* Calls into libfprint *)

\* fpi_device_critical_enter and fpi_device_critical_leave
Enter(s) ==
    [Asserted(s, s.action # "NONE", "critical_enter")
        EXCEPT !.critical = IF s.action = "NONE" THEN @ ELSE @ + 1,
               !.flush = @ /\ s.action = "NONE"]
Leave(s) ==
    IF s.action = "NONE" \/ s.critical = 0 THEN Asserted(s, FALSE, "critical_leave")
    ELSE [s EXCEPT !.critical = @ - 1, !.flush = @ \/ s.critical = 1]

\* The completions: the cancellation is unhooked, the result is returned in idle.  A
\* verify or identify operation without an error returns what it has reported.
Outcome(s, error) ==
    IF error # "none" THEN error
    ELSE IF s.action \notin Matching THEN "ok"
    ELSE IF s.report = "none" THEN "general"
    ELSE s.report
Complete(s, act, error) ==
    IF s.action # act THEN Asserted(s, FALSE, "complete")
    ELSE [Asserted(s, s.result = "none", "completed_twice")
             EXCEPT !.result = Outcome(s, error), !.cancel_due = FALSE]

\* fpi_device_verify_report and fpi_device_identify_report
Report(s, report) ==
    IF s.report # "none" THEN Asserted(s, FALSE, "report") ELSE [s EXCEPT !.report = report]

\* The internal cancellable is cancelled, which is hooked until the completion.
Cancelled(s) ==
    [s EXCEPT !.cancelled = TRUE, !.cancel_due = @ \/ (~s.cancelled /\ s.result = "none")]

\* fpi_device_suspend_complete: with an error the running action is cancelled first.
SuspendComplete(s, error) ==
    LET t == [Asserted(s, s.task # "none", "suspend_complete") EXCEPT !.is_suspended = TRUE]
    IN  IF error = "none" THEN [t EXCEPT !.task = "none"]
        ELSE Cancelled([t EXCEPT !.task = "at_return"])

ResumeComplete(s) == [s EXCEPT !.is_suspended = FALSE, !.task = "none"]

-----------------------------------------------------------------------------
(* synaptics_cmd_run_state: what the machine does when it gets to a state *)

GetResp(s) == [s EXCEPT !.ssm = "GET_RESP", !.transfer = "read"]

SendPending(s) ==
    IF s.pending = "none" THEN GetResp(s)
    ELSE [s EXCEPT !.ssm = "SEND_PENDING", !.transfer = s.pending, !.pending = "none"]

\* Only dev_init makes the cancellable for the interrupt transfer.
WaitInterrupt(s) ==
    [Leave(s) EXCEPT !.ssm = "WAIT_INTERRUPT",
                     !.transfer = IF s.callback = "PROBE" THEN "interrupt_bare" ELSE "interrupt"]

SendAsync(s) == [s EXCEPT !.ssm = "SEND_ASYNC", !.transfer = "async"]

Restart(s) == SendPending(s)

SuspendedState(s) ==
    SuspendComplete([Leave(s) EXCEPT !.ssm = "SUSPENDED", !.transfer = "none"], "none")

ResumeState(s) == WaitInterrupt(Enter(s))

\* synaptics_sensor_cmd: a command with a callback gets a machine of its own, one
\* without goes on with the machine of the command it follows.
SensorCmd(s, cmd, callback) ==
    LET t == [Asserted(Asserted(s, s.pending = "none", "cmd_pending_transfer"),
                       s.ssm = "none" <=> callback # "none", "callback")
                 EXCEPT !.pending = cmd]
    IN  IF s.ssm = "none" THEN SendPending(Enter([t EXCEPT !.callback = callback])) ELSE t

-----------------------------------------------------------------------------
(* The callbacks of the commands: an answer, "none" for no answer, or an error *)

\* The section in which an action starts ends with the first callback.
BadStarted(s) == IF s.starting THEN Leave(s) ELSE s
Started(s) == IF s.starting THEN [Leave(s) EXCEPT !.starting = FALSE] ELSE s

\* verify_ and identify_complete_after_finger_removal
AfterRemoval(s, error) ==
    IF ~s.finger THEN Complete(s, s.callback, error)
    ELSE [Asserted(s, error = "none" \/ s.delay_error = "none", "delay_error")
             EXCEPT !.on_removal = TRUE,
                    !.delay_error = IF @ = "none" THEN error ELSE @]

VerifyAnswer(s, answer) ==
    CASE answer = "ok" -> AfterRemoval(Report(s, "match"), "none")
      [] answer = "no_match" -> AfterRemoval(Report(s, "no_match"), "none")
      [] answer = "retry" -> AfterRemoval(Report(s, "retry"), "none")
      [] answer = "no_record" -> Complete(s, "VERIFY", "not_found")
      [] answer = "other" -> Complete(s, "VERIFY", "error")
      [] OTHER -> s

\* compose_and_send_identify_msg: the prints of the gallery go out one by one.
ComposeIdentify(s) ==
    IF s.id_idx >= GallerySize \/ s.id_idx = s.bad THEN Complete(s, "IDENTIFY", "error")
    ELSE [SensorCmd(s, IF s.id_idx = 0 THEN "command" ELSE "next_user",
                    IF s.id_idx = 0 THEN "IDENTIFY" ELSE "none") EXCEPT !.id_idx = @ + 1]

IdentifyAnswer(s, answer) ==
    CASE answer = "next_id" -> ComposeIdentify(s)
      [] answer = "ok" -> AfterRemoval(Report(s, "match"), "none")
      [] answer \in {"no_match", "unknown"} -> AfterRemoval(Report(s, "no_match"), "none")
      [] answer = "retry" -> AfterRemoval(Report(s, "retry"), "none")
      [] answer = "no_record" -> AfterRemoval(s, "not_found")
      [] answer = "other" -> Complete(s, "IDENTIFY", "error")
      [] OTHER -> s

\* A percentage of the enrollment as stages: the last one is passed with 100 % only.
DoneStages(percent) ==
    LET stages == (percent * NrStages + 99) \div 100
    IN  IF percent < 100 /\ stages >= NrStages THEN NrStages - 1 ELSE stages

Later(s, stages) == [s EXCEPT !.stage = stages, !.progress = stages]

BadEnrollAnswer(s, answer, percent) ==
    CASE answer = "percent" /\ s.stage < DoneStages(percent) -> Later(s, DoneStages(percent))
      [] answer = "ok" -> Complete(s, "ENROLL", "none")
      [] answer = "other" -> Complete(s, "ENROLL", "error")
      [] OTHER -> s
EnrollAnswer(s, answer, percent) ==
    CASE answer = "ready" -> [s EXCEPT !.stage = 0]
      [] answer = "percent" /\ s.stage < DoneStages(percent) -> Later(s, DoneStages(percent))
      [] answer = "ok" -> Complete(s, "ENROLL", "none")
      [] answer = "other" -> Complete(s, "ENROLL", "error")
      [] OTHER -> s

\* Deleting has a section of its own, left before the completion.
BadDeleteAnswer(s, answer) ==
    CASE answer \in {"ok", "no_record"} -> Complete(s, "DELETE", "none")
      [] answer = "other" -> Complete(Leave(s), "DELETE", "error")
      [] OTHER -> s
DeleteAnswer(s, answer) ==
    CASE answer \in {"ok", "no_record"} -> Complete(Leave(s), "DELETE", "none")
      [] answer = "other" -> Complete(Leave(s), "DELETE", "error")
      [] OTHER -> s

ClearStorageAnswer(s, answer) ==
    CASE answer \in {"ok", "no_record"} -> Complete(s, "CLEAR_STORAGE", "none")
      [] answer = "other" -> Complete(s, "CLEAR_STORAGE", "error")
      [] OTHER -> s

\* prob_msg_cb and fps_init_msg_cb: a busy sensor is told to cancel.
InitAnswer(s, answer) ==
    CASE answer = "ok" -> Complete(s, s.callback, "none")
      [] answer = "busy" -> SensorCmd(s, "cancel", "none")
      [] OTHER -> Complete(s, s.callback, "error")

CloseAnswer(s, answer) ==
    Complete(s, "CLOSE", IF answer = "ok" THEN "none" ELSE "error")

Answered(s, answer, percent) ==
    CASE s.callback = "VERIFY" -> VerifyAnswer(Started(s), answer)
      [] s.callback = "IDENTIFY" -> IdentifyAnswer(Started(s), answer)
      [] s.callback = "ENROLL" -> EnrollAnswer(Started(s), answer, percent)
      [] s.callback = "DELETE" -> DeleteAnswer(s, answer)
      [] s.callback = "CLEAR_STORAGE" -> ClearStorageAnswer(s, answer)
      [] s.callback \in {"PROBE", "OPEN"} -> InitAnswer(s, answer)
      [] s.callback = "CLOSE" -> CloseAnswer(s, answer)

\* The machine ended without an answer: with an error, or since the finger is gone.
\* A sensor that was told to cancel what it did before is ready.
Ended(s, error) ==
    CASE s.callback \in Long -> Complete(Started(s), s.callback, error)
      [] s.callback = "DELETE" -> Complete(Leave(s), "DELETE", error)
      [] s.callback \in {"PROBE", "OPEN"} /\ error = "cancelled" -> Complete(s, s.callback, "none")
      [] OTHER -> Complete(s, s.callback, error)

\* cmd_ssm_done
BadSsmDone(s, error) ==
    LET t == [s EXCEPT !.ssm = "none", !.transfer = "none"]
    IN  Leave(IF error # "none" \/ s.on_removal THEN Ended(t, error) ELSE t)
SsmDone(s, error) ==
    LET t == [s EXCEPT !.ssm = "none", !.transfer = "none"]
    IN  [Leave(IF error # "none" \/ s.on_removal THEN Ended(t, error) ELSE t)
            EXCEPT !.on_removal = FALSE]

-----------------------------------------------------------------------------
(* The callbacks of the transfers *)

\* The answers that are the last of a command (resp.complete)
Final == {"ok", "unknown", "retry", "no_match", "no_record", "other", "busy"}

BadFingerReport(s, id) ==
    LET t == [s EXCEPT !.finger = id = "finger_on"]
    IN  IF id = "finger_on" \/ ~s.on_removal THEN WaitInterrupt(t)
        ELSE SsmDone([t EXCEPT !.delay_error = "none"], "none")
FingerReport(s, id) ==
    LET t == [s EXCEPT !.finger = id = "finger_on"]
    IN  IF id = "finger_on" \/ ~s.on_removal THEN WaitInterrupt(t)
        ELSE SsmDone([t EXCEPT !.delay_error = "none"], s.delay_error)

\* What becomes of the machine after the callback
AfterAnswer(s, id) ==
    IF s.pending # "none" THEN SendPending(s)
    ELSE IF id \notin Final \/ s.on_removal THEN WaitInterrupt(s)
    ELSE SsmDone(s, "none")

\* cmd_receive_cb
Received(s, id, percent) ==
    CASE id \in {"finger_on", "finger_off"} -> FingerReport(s, id)
      [] id = "cancel_ok" -> SsmDone(s, "cancelled")
      [] id = "cancel_fail" -> SsmDone(s, "error")
      [] id = "ignored" -> WaitInterrupt(s)
      [] OTHER -> AfterAnswer(Answered(s, id, percent), id)

\* cmd_interrupt_cb of a transfer that was cancelled
BadInterrupted(s) == GetResp(Enter(s))
Interrupted(s) == IF s.suspended THEN SuspendedState(Enter(s)) ELSE GetResp(Enter(s))

\* An interrupt that announces nothing is waited for again, and not cancellable then.
QuietInterrupt(s) == [Leave(Enter(s)) EXCEPT !.transfer = "interrupt_bare"]

-----------------------------------------------------------------------------
(* The vfuncs.  cancel: a command is sent besides the one that runs. *)

CancelVfunc(s) ==
    [s EXCEPT !.transfer = IF @ = "interrupt" THEN "interrupt_cancelled" ELSE @]

SuspendVfunc(s) ==
    IF s.action \notin Matching THEN SuspendComplete(s, "not_supported")
    ELSE CancelVfunc([Asserted(Asserted(s, s.ssm # "none", "cmd_ssm"),
                               s.ssm = "WAIT_INTERRUPT", "wait_interrupt")
                         EXCEPT !.suspended = TRUE])

ResumeVfunc(s) ==
    IF s.action \notin Matching \/ s.ssm # "SUSPENDED" \/ ~s.suspended
    THEN Asserted(s, FALSE, "resume")
    ELSE ResumeComplete(ResumeState([s EXCEPT !.suspended = FALSE]))

\* The start of an operation, in the ways it may go
ProbeOrOpen(s, act) ==
    {Complete(s, act, "error"), SensorCmd(s, "command", act)}

Starting(s) == Enter([s EXCEPT !.starting = TRUE])

StartIdentify(s) ==
    {Complete(Report(s, "no_match"), "IDENTIFY", "none")}    \* an empty gallery
    \union {ComposeIdentify([Starting(s) EXCEPT !.id_idx = 0, !.bad = bad]) :
               bad \in IF "bad_print" \in Provoked THEN 0..GallerySize ELSE {GallerySize}}

Vfunc(s, act) ==
    CASE act \in {"PROBE", "OPEN"} -> ProbeOrOpen(s, act)
      [] act = "VERIFY" ->
             {Complete(s, act, "error"), SensorCmd(Starting(s), "command", act)}
      [] act = "IDENTIFY" -> StartIdentify(s)
      [] act = "ENROLL" -> {SensorCmd(Starting(s), "command", act)}
      [] act = "DELETE" -> {Complete(s, act, "error"), SensorCmd(Enter(s), "command", act)}
      [] act \in {"CLEAR_STORAGE", "CLOSE"} -> {SensorCmd(s, "command", act)}

-----------------------------------------------------------------------------
(* The sensor *)

\* What a command that runs may be answered next
Answers ==
    LET verdicts == {"ok", "retry", "no_match"}
        refusals == {"no_record", "other"}
    IN  CASE sensor.op = "VERIFY" ->
                 IF sensor.touching THEN {"captured"} \union verdicts \union refusals
                 ELSE {"ready"} \union refusals
          [] sensor.op = "IDENTIFY" /\ ~sensor.ready ->
                 IF syn.id_idx < GallerySize \/ "asks_too_many" \in Provoked
                 THEN {"next_id", "other"} ELSE {"ready"} \union refusals
          [] sensor.op = "IDENTIFY" ->
                 refusals \union IF sensor.touching THEN verdicts \union {"unknown"} ELSE {}
          [] sensor.op = "ENROLL" ->
                 {"other"} \union (IF sensor.ready THEN {"percent"} ELSE {"ready"})
                 \union IF sensor.percent = 100 THEN {"ok"} ELSE {}
          [] sensor.op = "DELETE" -> {"progress", "ok"} \union refusals
          [] sensor.op = "CLEAR_STORAGE" -> {"progress", "ok"} \union refusals
          [] sensor.op \in {"PROBE", "OPEN"} -> {"ok", "busy", "other"}
          [] sensor.op = "CLOSE" -> {"ok", "other"}
          [] sensor.op = "cancelling" -> {"cancel_ok", "cancel_fail"}
          [] OTHER -> {}

FingerMoves ==
    IF sensor.touching THEN {"finger_off"}
    ELSE IF sensor.ready THEN {"finger_on"} ELSE {}

\* What may be read next, apart from an event that the driver ignores
Messages ==
    IF sensor.late # "none" THEN {sensor.late}
    ELSE (IF sensor.cancel THEN {"cancel_ok", "cancel_fail"} ELSE {})
         \union IF sensor.cancel /\ "crossed_cancel" \notin Provoked THEN {}
                ELSE Answers \union FingerMoves

Ends == Final \union {"cancel_ok", "cancel_fail"}

\* What has been said, and is over with it
Says(id, percent) ==
    LET over == id \in Ends
    IN  sensor' = [sensor EXCEPT
            !.late = "none",
            !.cancel = @ /\ id \notin {"cancel_ok", "cancel_fail"},
            !.op = IF over /\ sensor.late = "none" THEN "none" ELSE @,
            !.ready = (@ \/ id = "ready") /\ (over => sensor.late # "none"),
            !.percent = IF id = "percent" THEN percent ELSE @,
            !.touching = (@ \/ id = "finger_on") /\ id # "finger_off",
            !.verdict = IF id \in Final /\ sensor.late = "none" THEN id ELSE @]

-----------------------------------------------------------------------------
(* Steps *)

\* Syn becomes s, in which an operation that the driver can suspend does not end while
\* it is to be suspended, and none ends while an error is held back.
Becomes(s) ==
    /\ syn' = s
    /\ Provokes("suspend_completing",
                s.result # "none" /\ s.action \in Matching /\ "suspend" \in s.queued)
    /\ Provokes("stale_error", s.delay_error # "none" /\ (s.cancelled \/ s.result # "none"))

\* No source of the main loop comes before the flush of a critical section.
Dispatched(transfer) == ~syn.flush /\ syn.transfer = transfer

\* A suspended device starts nothing; of CLEAR_STORAGE, which the code lets through, see
\* FpDevice.
Start(act) ==
    /\ syn.action = "NONE" /\ ~syn.is_suspended
    /\ IF act = "PROBE" THEN syn.life = "new" ELSE syn.life = "ready" /\ (syn.open <=> act # "OPEN")
    /\ \E s \in Vfunc([syn EXCEPT !.action = act, !.cancelled = FALSE, !.report = "none",
                                  !.progress = 0], act) : Becomes(s)
    /\ UNCHANGED sensor

UserCancel ==
    /\ syn.action # "NONE" /\ syn.result = "none" /\ ~syn.cancelled
    /\ Becomes(Cancelled(syn))
    /\ UNCHANGED sensor

\* fpi_device_suspend
Suspended(s) ==
    IF s.action = "NONE" THEN SuspendComplete(s, "none")
    ELSE IF s.action \in Short THEN [s EXCEPT !.task = "at_return"]
    ELSE IF s.critical > 0 THEN [s EXCEPT !.queued = @ \union {"suspend"}]
    ELSE SuspendVfunc(s)

\* fpi_device_resume
Resumed(s) ==
    IF s.action = "NONE" THEN ResumeComplete(s)
    ELSE IF s.action \in Short THEN Asserted(s, FALSE, "resume")
    ELSE IF s.critical > 0 THEN [s EXCEPT !.queued = @ \union {"resume"}]
    ELSE ResumeVfunc(s)

UserSuspend ==
    /\ syn.life = "ready" /\ syn.task = "none" /\ ~syn.is_suspended
    /\ Provokes("suspend_completing", syn.result # "none" /\ syn.action \in Matching)
    /\ Becomes(Suspended([syn EXCEPT !.task = "suspend"]))
    /\ UNCHANGED sensor

UserResume ==
    /\ syn.is_suspended /\ syn.task = "none"
    /\ Becomes(Resumed([syn EXCEPT !.task = "resume"]))
    /\ UNCHANGED sensor

\* The cancel command goes out besides the running one, and may get lost.
CancelReaches ==
    \/ sensor' = [sensor EXCEPT !.cancel = TRUE]
    \/ "cancel_lost" \in Provoked /\ UNCHANGED sensor

CancelInIdle ==
    /\ syn.cancel_due /\ ~syn.flush
    /\ LET s == [syn EXCEPT !.cancel_due = FALSE]
       IN  IF s.critical > 0
           THEN Becomes([s EXCEPT !.queued = @ \union {"cancel"}]) /\ UNCHANGED sensor
           ELSE Becomes(CancelVfunc(s)) /\ CancelReaches

\* fpi_device_critical_section_flush_idle_cb
CriticalFlush ==
    /\ syn.flush
    /\ IF "cancel" \in syn.queued
       THEN LET s == [syn EXCEPT !.queued = @ \ {"cancel"}]
            IN  IF syn.result # "none" THEN Becomes(s) /\ UNCHANGED sensor
                ELSE Becomes(CancelVfunc(s)) /\ CancelReaches
       ELSE /\ UNCHANGED sensor
            /\ Becomes(IF "suspend" \in syn.queued
                       THEN Suspended([syn EXCEPT !.queued = @ \ {"suspend"}])
                       ELSE IF "resume" \in syn.queued
                       THEN Resumed([syn EXCEPT !.queued = @ \ {"resume"}])
                       ELSE [syn EXCEPT !.flush = FALSE])

\* fp_device_task_return_in_idle_cb
ReturnInIdle ==
    /\ syn.result # "none" /\ ~syn.flush
    /\ Becomes([syn EXCEPT
           !.action = "NONE", !.result = "none", !.cancelled = FALSE,
           !.life = IF syn.action # "PROBE" THEN @
                    ELSE IF syn.result = "ok" THEN "ready" ELSE "dead",
           !.open = (@ /\ syn.action # "CLOSE") \/ (syn.action = "OPEN" /\ syn.result = "ok"),
           !.task = IF @ = "at_return" THEN "none" ELSE @])
    /\ UNCHANGED sensor

\* The transfers of SEND_PENDING and SEND_ASYNC, then the read of GET_RESP
CommandSent ==
    /\ Dispatched("command")
    /\ sensor' = [sensor EXCEPT !.op = syn.callback, !.ready = FALSE, !.percent = 0,
                                !.verdict = "none"]
    /\ Becomes(GetResp(syn))
NextUserSent == Dispatched("next_user") /\ Becomes(GetResp(syn)) /\ UNCHANGED sensor
CancelSent ==
    /\ Dispatched("cancel")
    /\ sensor' = [sensor EXCEPT !.op = "cancelling"]
    /\ Becomes(GetResp(syn))
AsyncSent == Dispatched("async") /\ Becomes(Restart(syn)) /\ UNCHANGED sensor
Sent == CommandSent \/ NextUserSent \/ CancelSent \/ AsyncSent

\* A sensor that cannot be reached has nothing to say afterwards.
GivesUp == sensor' = [sensor EXCEPT !.op = "none", !.ready = FALSE, !.cancel = FALSE]

SendFails ==
    /\ ~syn.flush /\ syn.transfer \in {"command", "next_user", "cancel", "async"}
    /\ GivesUp
    /\ Becomes(SsmDone(syn, "error"))

Read(id) ==
    /\ Dispatched("read")
    /\ \E percent \in Percents :
           /\ IF id = "percent" THEN percent >= sensor.percent ELSE percent = 0
           /\ Says(id, percent)
           /\ Becomes(Received(syn, id, percent))
ReadMessage == \E id \in Messages : Read(id)

\* An event without a sequence number
ReadEvent ==
    /\ Dispatched("read")
    /\ Becomes(Received(syn, "ignored", 0))
    /\ UNCHANGED sensor

\* Nothing to be made sense of came in time.  The sensor gives up, or answers later.
ReadFails ==
    /\ Dispatched("read")
    /\ \E late \in {"none"} \union (IF "late_answer" \in Provoked THEN Answers ELSE {}) :
           sensor' = [sensor EXCEPT !.op = "none", !.ready = FALSE, !.cancel = FALSE, !.late = late]
    /\ Becomes(SsmDone(syn, "error"))

Waiting == {"interrupt", "interrupt_bare"}

Interrupt ==
    /\ ~syn.flush /\ syn.transfer \in Waiting
    /\ Messages # {}
    /\ Becomes(SendAsync(Enter(syn)))
    /\ UNCHANGED sensor

InterruptSaysNothing ==
    /\ ~syn.flush /\ syn.transfer \in Waiting
    /\ Provokes("quiet_interrupt", syn.action \in Matching)
    /\ Becomes(QuietInterrupt(syn))
    /\ UNCHANGED sensor

InterruptFails ==
    /\ ~syn.flush /\ syn.transfer \in Waiting
    /\ GivesUp
    /\ Becomes(SsmDone(Enter(syn), "error"))

InterruptCancelled ==
    /\ Dispatched("interrupt_cancelled")
    /\ Becomes(Interrupted(syn))
    /\ UNCHANGED sensor

\* Without a command nobody is told that the finger is gone.
FingerGone ==
    /\ syn.ssm = "none" /\ sensor.touching
    /\ sensor' = [sensor EXCEPT !.touching = FALSE]
    /\ UNCHANGED syn

User == (\E act \in Long \union Short : Start(act)) \/ UserCancel \/ UserSuspend \/ UserResume
MainLoop == CancelInIdle \/ CriticalFlush \/ ReturnInIdle
Transfers == \/ Sent \/ SendFails
             \/ ReadMessage \/ ReadEvent \/ ReadFails
             \/ Interrupt \/ InterruptSaysNothing \/ InterruptFails \/ InterruptCancelled

\* A device whose probe failed is dropped.
Discarded == syn.life = "dead" /\ UNCHANGED vars

Next == User \/ MainLoop \/ Transfers \/ FingerGone \/ Discarded

Spec == Init /\ [][Next]_vars

\* The main loop dispatches its sources and the transfers end.  A sensor answers a new
\* command and one that cancels, and does not go on forever with one that needs no finger.
FirstAnswer == syn.starting /\ \E id \in Messages \intersect Answers : Read(id)
LastAnswer  == syn.action \in Short /\ \E id \in Messages \intersect Ends : Read(id)
CancelAnswer == \E id \in Messages \intersect {"cancel_ok", "cancel_fail"} : Read(id)
Announced == syn.starting \/ syn.action \in Short \/ sensor.cancel

FairSpec ==
    /\ Spec
    /\ SF_vars(CancelInIdle) /\ WF_vars(CriticalFlush) /\ WF_vars(ReturnInIdle)
    /\ WF_vars(Sent) /\ WF_vars(ReadMessage \/ ReadEvent \/ ReadFails) /\ WF_vars(InterruptCancelled)
    /\ SF_vars(Announced /\ Interrupt)
    /\ SF_vars(FirstAnswer) /\ SF_vars(LastAnswer) /\ SF_vars(CancelAnswer)

-----------------------------------------------------------------------------
(* Properties *)

\* The assertions of suspend, resume and synaptics_sensor_cmd hold, no critical section
\* is left that was not entered, no operation completed that is not there or twice, no
\* result reported twice, no error held back over another.
SynapticsAssertionsHold == syn.failed = {}

\* When an operation has returned, no command of it runs, all its critical sections are
\* left and their requests dealt with, and no flag of it is there for the next one to
\* find (cmd_ssm_done, the callbacks, action_starting).
NothingRemains ==
    syn.action = "NONE" =>
        /\ syn.ssm = "none" /\ syn.pending = "none" /\ syn.transfer = "none"
        /\ syn.critical = 0 /\ syn.queued = {} /\ ~syn.flush /\ ~syn.cancel_due
        /\ ~syn.starting /\ ~syn.on_removal /\ ~syn.suspended /\ syn.delay_error = "none"

CommandsKeepOrder == SynapticsAssertionsHold /\ NothingRemains

\* What an operation returns is what the sensor said to the command of this operation,
\* also when the end waited for the finger to be removed; a cancelled operation was to
\* be cancelled, and an enrolled print has passed all its stages.
ReportIsOwn ==
    CASE syn.report = "match" -> sensor.verdict = "ok"
      [] syn.report = "retry" -> sensor.verdict = "retry"
      [] OTHER -> TRUE
ResultIsOwn ==
    CASE syn.result = "cancelled" -> syn.cancelled
      [] syn.result = "not_found" -> sensor.verdict = "no_record"
      [] syn.result = "ok" /\ syn.action = "ENROLL" ->
             sensor.verdict = "ok" /\ syn.progress = NrStages
      [] syn.result = "ok" /\ syn.action \in {"DELETE", "CLEAR_STORAGE"} ->
             sensor.verdict \in {"ok", "no_record"}
      [] OTHER -> syn.result # "general"
AnswersAreOwn == syn.action # "NONE" => ReportIsOwn /\ ResultIsOwn

\* An operation that is cancelled or does not wait for a finger returns, unless it goes
\* on after a suspend, and a suspend call is answered.
MustReturn == syn.action \in Short \/ (syn.action \in Long /\ syn.cancelled)
CallsReturn ==
    /\ MustReturn ~> syn.action = "NONE" \/ syn.is_suspended
    /\ syn.task # "none" ~> syn.task = "none"

(* A statement of a comment that the code does not keep *)

\* suspend: "We are guaranteed to have a cmd_ssm running at this time."
SuspendFindsCommand == {"cmd_ssm", "wait_interrupt"} \intersect syn.failed = {}
=============================================================================
