---------------------------- MODULE VirtualDevice ----------------------------
(***************************************************************************)
(* The virtual device with storage (drivers/virtual-device.c,              *)
(* virtual-device-storage.c), which a client drives with commands over a   *)
(* socket.  A vfunc takes commands from a queue; when these do not end the *)
(* action it returns, and is called again from its start after a delay, a  *)
(* new command, a removal or a cancellation.  So every vfunc runs several  *)
(* times for one action, and what it has done before is in vdev.           *)
(***************************************************************************)
EXTENDS Integers, FiniteSets, Sequences, SequencesExt

CONSTANTS
    Ids,            \* the prints a client may name
    NoId,
    Commands,       \* the commands that are queued, records of cmd and id
    NrStages,       \* nr_enroll_stages
    MaxCommands,    \* how many commands a client sends in all
    Provoked        \* which of the situations below that the driver does not stand
                    \* may come about

CommandNames == {"INSERT", "REMOVE", "SCAN", "CONT", "ERROR", "RETRY", "FINGER", "SLEEP"}

ASSUME IdsAssumption == IsFiniteSet(Ids) /\ NoId \notin Ids
ASSUME CommandsAssumption ==
    /\ Commands \subseteq [cmd : CommandNames, id : Ids \union {NoId}, synthetic : {FALSE}]
    /\ \A c \in Commands : c.cmd = "SCAN" => c.id \in Ids
ASSUME NrStagesAssumption == NrStages \in Nat \ {0}
ASSUME MaxCommandsAssumption == MaxCommands \in Nat

(* late_command: a command comes between the completion and the return of an  *)
(*   action, whose vfunc is then called again;                                *)
(* unplug_waiting: the device is unplugged while the driver waits for a       *)
(*   command, for which maybe_continue_current_action is not prepared;        *)
(* cancel_in_callback: the user cancels in the callback of a report that is   *)
(*   followed by a delay;                                                     *)
(* sleep_again: a second delay comes while a command was put back for later;  *)
(* cancel_injected: that command was taken again and the action is cancelled; *)
(* stale_stages: an enroll operation starts after one that failed half-way.   *)
Situations == {"late_command", "unplug_waiting", "cancel_in_callback", "sleep_again",
               "cancel_injected", "stale_stages"}
ASSUME ProvokedAssumption == Provoked \subseteq Situations

VARIABLES
    vdev,    \* FpDeviceVirtualDevice and what FpDevice holds of the current action
    sent     \* how many commands were sent

vars == <<vdev, sent>>

Scanning == {"VERIFY", "IDENTIFY", "ENROLL"}
Managing == {"OPEN", "CLOSE", "LIST", "DELETE", "CLEAR_STORAGE"}

\* pending to listening are the driver's.  Of the device: finger, the flags of the
\* finger status; report, what the first report said; print, the id of the enrolled
\* print; progress, the stages reported; results, the results that are to be returned.
Init ==
    /\ vdev = [pending |-> <<>>, storage |-> {}, wait |-> FALSE, sleep |-> FALSE,
               stages |-> 0, reported |-> FALSE, supports |-> TRUE, injected |-> FALSE,
               keep_alive |-> FALSE, listening |-> FALSE,
               action |-> "NONE", open |-> FALSE, removed |-> FALSE, cancelled |-> FALSE,
               cancel_due |-> FALSE, finger |-> {}, report |-> "none", print |-> NoId,
               progress |-> 0, results |-> <<>>, failed |-> {}]
    /\ sent = 0

Asserted(v, holds, name) == IF holds THEN v ELSE [v EXCEPT !.failed = @ \union {name}]

-----------------------------------------------------------------------------
(* process_cmds *)

Command(name, id) == [cmd |-> name, id |-> id, synthetic |-> FALSE]

\* Whether a command ends the loop.  Without a scan one that is not understood does,
\* with a scan it is skipped.
Stops(c, scan) ==
    IF scan THEN c.cmd \in {"SLEEP", "ERROR", "SCAN", "RETRY"}
    ELSE c.cmd \notin {"INSERT", "REMOVE"}
FirstStop(cs, scan) == SelectInSeq(cs, LAMBDA c : Stops(c, scan))

\* The effect of commands that do not end it: of an id the last one counts.
StoredAfter(v, cs) ==
    {id \in Ids :
        LET last == SelectLastInSeq(cs, LAMBDA c : c.cmd \in {"INSERT", "REMOVE"} /\ c.id = id)
        IN  IF last = 0 THEN id \in v.storage ELSE cs[last].cmd = "INSERT"}
FingerAfter(v, cs) ==
    v.finger \union (IF \E i \in DOMAIN cs : cs[i].cmd = "FINGER" THEN {"present"} ELSE {})
Applied(v, cs) ==
    [v EXCEPT !.storage = StoredAfter(v, cs), !.finger = FingerAfter(v, cs)]

Answer(v, done, id, error) == [vdev |-> v, done |-> done, id |-> id, error |-> error]

\* No command has ended the loop.
BadAwaitCommand(v, scan, ignore_wait) ==
    IF ignore_wait THEN Answer(v, TRUE, NoId, "none")
    ELSE Answer([Asserted(v, ~v.wait, "wait_command_id") EXCEPT !.wait = ~scan],
                FALSE, NoId, "none")
AwaitCommand(v, scan, ignore_wait) ==
    IF ignore_wait THEN Answer(v, TRUE, NoId, "none")
    ELSE Answer([Asserted(v, ~v.wait, "wait_command_id")
                     EXCEPT !.wait = ~scan \/ v.removed], FALSE, NoId, "none")

\* The device after the commands up to the one that stops the loop, and that command
Taken(v, scan) ==
    LET stop == FirstStop(v.pending, scan)
        last == IF stop = 0 THEN Len(v.pending) ELSE stop
        skipped == SubSeq(v.pending, 1, IF stop = 0 THEN last ELSE stop - 1)
    IN  [Applied(v, skipped) EXCEPT !.pending = SubSeq(@, last + 1, Len(@))]
StopCommand(v, scan) ==
    IF FirstStop(v.pending, scan) = 0 THEN Command("none", NoId)
    ELSE v.pending[FirstStop(v.pending, scan)]

Stopped(v, c, scan, ignore_wait) ==
    CASE c.cmd = "SLEEP" ->
             Answer([Asserted(v, ~v.sleep, "sleep_timeout_id") EXCEPT !.sleep = TRUE],
                    FALSE, NoId, "none")
      [] c.cmd = "ERROR" -> Answer(v, TRUE, NoId, "error")
      [] c.cmd = "CONT" /\ ~scan -> Answer(v, TRUE, NoId, "none")
      [] c.cmd = "SCAN" /\ scan -> Answer(v, TRUE, c.id, "none")
      [] c.cmd = "RETRY" /\ scan -> Answer(v, TRUE, NoId, "retry")
      [] OTHER -> AwaitCommand(v, scan, ignore_wait)

ProcessCmds(v, scan, ignore_wait) ==
    IF v.cancelled /\ v.action # "NONE" THEN Answer(v, TRUE, NoId, "cancelled")
    ELSE Stopped(Taken(v, scan), StopCommand(v, scan), scan, ignore_wait)

\* start_scan_command: the finger is needed unless the device sleeps.
StartScan(v) ==
    LET r == ProcessCmds([v EXCEPT !.injected = @ /\ v.finger # {}], TRUE, FALSE)
        needed == IF r.done \/ ~r.vdev.sleep THEN {"needed"} ELSE {}
        present == IF r.done /\ r.error = "none" THEN {"present"} ELSE {}
    IN  Answer([r.vdev EXCEPT !.finger = @ \union needed \union present],
               r.done, r.id, r.error)

FingerGone(v) == [v EXCEPT !.finger = @ \ {"present"}]

\* should_wait_to_sleep: a delay that follows a scan makes the vfunc run again, with the
\* scan put back in front if nothing else is queued.
Injected(id, error) ==
    IF id # NoId THEN <<[Command("SCAN", id) EXCEPT !.synthetic = TRUE]>>
    ELSE IF error = "error" THEN <<[Command("ERROR", NoId) EXCEPT !.synthetic = TRUE]>>
    ELSE <<>>

SleepFirst(v, id, error) ==
    LET r == ProcessCmds(v, FALSE, FALSE)
        asleep == Asserted(Asserted(r.vdev, ~v.injected, "injected_synthetic_cmd"),
                           r.vdev.sleep, "not_sleeping")
        injected == Injected(id, error)
    IN  IF error = "cancelled" THEN r.vdev
        ELSE IF r.vdev.pending # <<>> \/ injected = <<>> THEN asleep
        ELSE [asleep EXCEPT !.pending = injected, !.injected = TRUE]

ShouldWait(v, id, error) ==
    IF ~v.sleep /\ v.pending # <<>> /\ Head(v.pending).cmd = "SLEEP"
    THEN SleepFirst(v, id, error) ELSE v
Waits(v, error) == v.sleep /\ error # "cancelled"

-----------------------------------------------------------------------------
(* Reports and completions.  A report calls the user, who may cancel.         *)

Provokes(situation, holds) == holds => situation \in Provoked

Cancelled(v) == [v EXCEPT !.cancelled = TRUE, !.cancel_due = TRUE]
Reported(v) ==
    {v} \union IF "cancel_in_callback" \in Provoked /\ ~v.cancelled THEN {Cancelled(v)} ELSE {}

\* fpi_device_verify_report, fpi_device_identify_report: only the first one counts.
Report(v, report) ==
    IF v.report # "none" THEN {v} ELSE Reported([v EXCEPT !.report = report])

EnrollProgress(v) == Reported([v EXCEPT !.progress = v.stages])

\* The handlers of the cancellables are gone, the result is returned in idle.
Completed(v, result) ==
    [v EXCEPT !.cancel_due = FALSE, !.results = Append(@, result),
              !.finger = IF v.action \in Scanning THEN {} ELSE @]
Complete(v, result) == vdev' = Completed(v, result)

-----------------------------------------------------------------------------
(* The vfuncs, as steps from what vdev has become: \E x \in {e} names a value. *)

\* Without an error the result is what was reported.
ScanResult(v, error) ==
    IF error \in {"error", "cancelled"} THEN error
    ELSE IF v.report = "none" THEN "general" ELSE v.report

\* The print that is verified is that of an id, the gallery has prints of all ids.
Matches(v, id) ==
    IF id \in v.storage /\ (v.action = "IDENTIFY" \/ id = v.print) THEN "match"
    ELSE "no_match"

\* What dev_verify and dev_identify report of a scan
MatchReported(r) ==
    IF r.error = "retry" THEN Report(r.vdev, "retry")
    ELSE IF r.id = NoId \/ r.vdev.reported THEN {r.vdev}
    ELSE Report([r.vdev EXCEPT !.reported = TRUE], Matches(r.vdev, r.id))

BadMatched(v, result) == Complete(v, result)
Matched(v, result) == Complete([v EXCEPT !.reported = FALSE], result)

\* After a retry nothing is left of the error.
VerifyOrIdentify(v) ==
    \E r \in {StartScan(v)} :
        IF ~r.done THEN vdev' = r.vdev
        ELSE \E told \in MatchReported(r) :
             LET error == IF r.error = "retry" THEN "none" ELSE r.error
             IN  \E slept \in {ShouldWait(FingerGone(told), r.id, error)} :
                     IF Waits(slept, error) THEN vdev' = slept
                     ELSE Matched(slept, ScanResult(slept, error))

\* A stage of dev_enroll is over: it is called again in idle or after a delay.
NextStage(v, id) == vdev' = [ShouldWait(v, id, "none") EXCEPT !.sleep = TRUE]

Duplicate(v, id) ==
    \E slept \in {ShouldWait(v, id, "none")} :
        IF Waits(slept, "none") THEN vdev' = slept ELSE Complete(slept, "duplicate")

Enrolled(v, id) ==
    vdev' = [Completed([v EXCEPT !.storage = @ \union {id}], "enrolled") EXCEPT !.stages = 0]

StagePassed(v, id) ==
    \E told \in EnrollProgress([FingerGone(v) EXCEPT
                    !.stages = v.stages + 1, !.print = IF v.stages = 0 THEN id ELSE @]) :
        IF told.stages = NrStages THEN Enrolled(told, id) ELSE NextStage(told, id)

Mismatch(v, id) ==
    \E told \in EnrollProgress(Asserted(v, v.print # NoId, "fpi-data")) : NextStage(told, id)

EnrollScanned(v, id) ==
    IF id \in v.storage THEN Duplicate(v, id)
    ELSE IF v.stages > 0 /\ v.print # id THEN Mismatch(v, id)
    ELSE StagePassed(v, id)

BadEnrollFailed(v, error) ==
    \E slept \in {ShouldWait(v, NoId, error)} :
        IF Waits(slept, error) THEN vdev' = slept ELSE Complete(slept, error)
EnrollFailed(v, error) ==
    \E slept \in {ShouldWait(v, NoId, error)} :
        IF Waits(slept, error) THEN vdev' = slept
        ELSE Complete([slept EXCEPT !.stages = 0], error)

Enroll(v) ==
    \E r \in {StartScan(v)} :
        IF ~r.done THEN vdev' = r.vdev
        ELSE IF r.id # NoId THEN EnrollScanned(r.vdev, r.id)
        ELSE IF r.error = "retry"
        THEN \E told \in EnrollProgress(FingerGone(r.vdev)) : NextStage(told, NoId)
        ELSE EnrollFailed(FingerGone(r.vdev), r.error)

\* dev_list, dev_clear_storage and dev_delete, which deletes the print of v.print.
Managed(v, error) ==
    IF error # "none" THEN Complete(v, error)
    ELSE CASE v.action = "LIST" -> Complete(v, "done")
      [] v.action = "CLEAR_STORAGE" -> Complete([v EXCEPT !.storage = {}], "done")
      [] v.action = "DELETE" ->
             Complete([v EXCEPT !.storage = @ \ {v.print}],
                      IF v.print \in v.storage THEN "done" ELSE "not_found")

\* dev_init.  The listener is started unless it was kept alive, which may fail.
Opened(v, error) ==
    \/ Complete([v EXCEPT !.listening = @ \/ error = "none"],
                IF error = "none" THEN "done" ELSE error)
    \/ ~v.listening /\ error = "none" /\ Complete(v, "error")

\* dev_deinit; after an error everything stays as it was.
Closed(v, error) ==
    IF error # "none" THEN Complete(v, error)
    ELSE Complete([v EXCEPT !.listening = @ /\ v.keep_alive,
                            !.supports = v.keep_alive => @,
                            !.stages = 0, !.reported = FALSE], "done")

Manage(v, ignore_wait) ==
    \E r \in {ProcessCmds(v, FALSE, ignore_wait \/ v.action \in {"OPEN", "CLOSE"})} :
        IF ~r.done THEN vdev' = r.vdev
        ELSE CASE v.action = "OPEN" -> Opened(r.vdev, r.error)
          [] v.action = "CLOSE" -> Closed(r.vdev, r.error)
          [] OTHER -> Managed(r.vdev, r.error)

Vfunc(v, ignore_wait) ==
    CASE v.action \in {"VERIFY", "IDENTIFY"} -> VerifyOrIdentify(v)
      [] v.action = "ENROLL" -> Enroll(v)
      [] v.action \in Managing -> Manage(v, ignore_wait)
      [] OTHER -> vdev' = v

\* maybe_continue_current_action, after something has changed vdev to next
Continue(next, ignore_wait) ==
    \E v \in {next} :
        IF v.sleep THEN vdev' = v
        ELSE Vfunc(Asserted(v, ~v.wait, "wait_command_id"), ignore_wait)

-----------------------------------------------------------------------------
(* Steps *)

\* The user starts an operation; verify and delete are of a print of some id.
Start(act, id) ==
    /\ vdev.action = "NONE" /\ vdev.results = <<>>
    /\ act = "OPEN" <=> ~vdev.open
    /\ Provokes("stale_stages", act = "ENROLL" /\ vdev.stages > 0)
    /\ \E v \in {[vdev EXCEPT !.action = act, !.cancelled = FALSE, !.report = "none",
                               !.progress = 0, !.print = id]} : Vfunc(v, FALSE)
    /\ UNCHANGED sent

UserStarts ==
    \/ \E act \in {"VERIFY", "DELETE"}, id \in Ids : Start(act, id)
    \/ \E act \in (Scanning \union Managing) \ {"VERIFY", "DELETE"} : Start(act, NoId)

UserCancel ==
    /\ vdev.action # "NONE" /\ vdev.results = <<>> /\ ~vdev.cancelled
    /\ Provokes("cancel_injected",
                vdev.injected /\ (vdev.pending = <<>> \/ ~Head(vdev.pending).synthetic))
    /\ vdev' = Cancelled(vdev)
    /\ UNCHANGED sent

\* dev_cancel, called from the idle source
DropInjected(v) ==
    IF ~v.injected THEN v
    ELSE [Asserted(v, v.pending # <<>> /\ Head(v.pending).synthetic, "injected_synthetic_cmd")
              EXCEPT !.injected = FALSE, !.pending = SubSeq(@, 2, Len(@))]

BadCancelVfunc ==
    /\ vdev.cancel_due
    /\ LET dropped == DropInjected([vdev EXCEPT !.cancel_due = FALSE])
       IN  IF ~vdev.supports THEN vdev' = dropped
           ELSE Continue([dropped EXCEPT !.sleep = FALSE], FALSE)
    /\ UNCHANGED sent
CancelVfunc ==
    /\ vdev.cancel_due
    /\ LET dropped == DropInjected([vdev EXCEPT !.cancel_due = FALSE])
       IN  IF ~vdev.supports THEN vdev' = dropped
           ELSE Continue([dropped EXCEPT !.sleep = FALSE, !.wait = FALSE], FALSE)
    /\ UNCHANGED sent

\* fp_device_task_return_in_idle_cb
ReturnInIdle ==
    /\ vdev.results # <<>>
    /\ vdev' = [vdev EXCEPT
           !.action = "NONE", !.results = Tail(@), !.cancelled = FALSE,
           !.open = CASE vdev.action = "OPEN" -> Head(vdev.results) = "done"
                      [] vdev.action = "CLOSE" -> FALSE
                      [] OTHER -> @]
    /\ UNCHANGED sent

\* sleep_timeout_cb
SleepTimeout ==
    /\ vdev.sleep
    /\ Continue([vdev EXCEPT !.sleep = FALSE], FALSE)
    /\ UNCHANGED sent

\* wait_for_command_timeout
WaitTimeout ==
    /\ vdev.wait
    /\ LET over == [vdev EXCEPT !.wait = FALSE]
       IN  IF vdev.action \in {"LIST", "DELETE"} THEN Continue(over, TRUE)
           ELSE Complete(Asserted(over, vdev.action # "NONE", "action_error"), "timed_out")
    /\ UNCHANGED sent

\* recv_instruction_cb, as long as there is a listener.
Receives ==
    /\ vdev.listening /\ sent < MaxCommands
    /\ Provokes("late_command", vdev.results # <<>>)
    /\ sent' = sent + 1

CommandArrives(c) ==
    /\ Receives
    /\ Provokes("sleep_again", c.cmd = "SLEEP" /\ vdev.injected)
    /\ Continue([vdev EXCEPT !.pending = Append(@, [c EXCEPT !.synthetic = FALSE]),
                              !.wait = FALSE], FALSE)

Unplug ==
    /\ Receives
    /\ Provokes("unplug_waiting", vdev.wait)
    /\ Continue([vdev EXCEPT !.removed = TRUE], FALSE)

SetCancellation ==
    /\ Receives
    /\ \E enabled \in BOOLEAN : vdev' = [vdev EXCEPT !.supports = enabled]

SetKeepAlive ==
    /\ Receives
    /\ \E enabled \in BOOLEAN : vdev' = [vdev EXCEPT !.keep_alive = enabled]

Client == (\E c \in Commands : CommandArrives(c)) \/ Unplug \/ SetCancellation \/ SetKeepAlive
Timers == SleepTimeout \/ WaitTimeout

Next == UserStarts \/ UserCancel \/ CancelVfunc \/ ReturnInIdle \/ Timers \/ Client

Spec == Init /\ [][Next]_vars

\* The main loop dispatches its sources; neither the user nor the client has to act.
FairSpec ==
    /\ Spec
    /\ WF_vars(CancelVfunc) /\ WF_vars(ReturnInIdle)
    /\ WF_vars(SleepTimeout) /\ WF_vars(WaitTimeout)

-----------------------------------------------------------------------------
(* Properties *)

\* No assertion of the driver fails (maybe_continue_current_action, process_cmds,
\* should_wait_to_sleep), no delay is armed over another one, no action is completed
\* that is not there, no id is compared with that of a print that has none.
VirtualAssertionsHold == vdev.failed = {}

\* A vfunc runs again and again for one action, but leaves nothing to the next one: no
\* timer, no match that was reported, no stages that were passed, except when an enroll
\* operation that has passed some ends with a duplicate or the device was removed.
NothingLeftOver ==
    /\ vdev.action = "NONE" \/ vdev.results # <<>> =>
           /\ ~vdev.sleep /\ ~vdev.wait /\ ~vdev.cancel_due
           /\ vdev.reported => vdev.removed
    /\ vdev.results # <<>> /\ vdev.stages > 0 =>
           vdev.removed \/ vdev.action # "ENROLL" \/ Head(vdev.results) = "duplicate"

\* The result rests on reports of this operation: a verify or identify operation that
\* succeeds has reported, an enroll operation has reported every stage once and stored
\* the print of all of them.
ResultsWereReported ==
    \A i \in DOMAIN vdev.results :
        /\ vdev.results[i] = "general" => vdev.removed
        /\ vdev.results[i] = "enrolled" =>
               vdev.progress = NrStages /\ vdev.print \in vdev.storage

\* Each operation stands for itself: it neither leaves something to the next one nor
\* rests on the reports of another.
OperationsAreSeparate == NothingLeftOver /\ ResultsWereReported

\* Operations that do not need a finger end, those that do once the device is removed or
\* the driver, which supports it, is to cancel them, however many delays it was given.
HasToEnd ==
    \/ vdev.action \in Managing
    \/ vdev.action \in Scanning /\ (vdev.removed \/ (vdev.cancel_due /\ vdev.supports))
CannotBeCancelled == vdev.action \in Scanning /\ ~vdev.removed /\ ~vdev.supports
OperationsEnd == HasToEnd ~> vdev.action = "NONE" \/ CannotBeCancelled
=============================================================================
