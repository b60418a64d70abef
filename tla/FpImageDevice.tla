---------------------------- MODULE FpImageDevice ----------------------------
(***************************************************************************)
(* An image device between the start of a capturing operation and its      *)
(* completion (fp-image-device.c, fpi-image-device.c): activation, finger  *)
(* reports, captured images whose minutiae a thread detects meanwhile,     *)
(* retries, errors, cancellation and deactivation.                         *)
(*                                                                         *)
(* dev is FpImageDevicePrivate together with what the code calls out to:   *)
(* the vfunc the driver was last given (driver), the result handed to      *)
(* FpDevice (result) and the match report (reported).  The helpers of the  *)
(* code are functions from dev to dev, composed in the order of the calls. *)
(***************************************************************************)
EXTENDS Naturals

CONSTANTS
    NrStages,               \* fp_device_get_nr_enroll_stages
    ErrorsDuringEnrollScan  \* drivers report fatal errors while the minutiae of an
                            \* enroll stage are detected (a finding of its own)

ASSUME NrStagesAssumption == NrStages \in Nat \ {0}
ASSUME ErrorsAssumption == ErrorsDuringEnrollScan \in BOOLEAN

VARIABLES
    dev,
    action,   \* the current action of FpDevice
    is_open,
    cancel    \* "no", "requested" (cancellable cancelled) or "called" (cls->cancel too)

vars == <<dev, action, is_open, cancel>>

CaptureActions == {"ENROLL", "IDENTIFY", "CAPTURE"}
Errors == {"retry", "fatal", "cancelled"}

Init ==
    /\ dev = [state |-> "INACTIVE", active |-> FALSE, finger_present |-> FALSE,
              enroll_stage |-> 0, minutiae_scan_active |-> FALSE,
              action_error |-> "none", capture_image |-> FALSE,
              driver |-> "off", result |-> "none", reported |-> "none",
              invalid |-> {}, failed |-> {}]
    /\ action = "NONE"
    /\ is_open = FALSE
    /\ cancel = "no"

-----------------------------------------------------------------------------
(* Helpers of fpi-image-device.c *)

\* valid_transitions.
ValidTransitions ==
    {<<"INACTIVE", "ACTIVATING">>,
     <<"ACTIVATING", "IDLE">>, <<"ACTIVATING", "INACTIVE">>,
     <<"IDLE", "AWAIT_FINGER_ON">>, <<"IDLE", "CAPTURE">>, <<"IDLE", "DEACTIVATING">>,
     <<"AWAIT_FINGER_ON", "CAPTURE">>, <<"AWAIT_FINGER_ON", "DEACTIVATING">>,
     <<"CAPTURE", "AWAIT_FINGER_OFF">>, <<"CAPTURE", "IDLE">>, <<"CAPTURE", "DEACTIVATING">>,
     <<"AWAIT_FINGER_OFF", "IDLE">>, <<"AWAIT_FINGER_OFF", "DEACTIVATING">>,
     <<"DEACTIVATING", "INACTIVE">>}

\* An invalid transition is warned about and made all the same.
ChangeState(d, state) ==
    [d EXCEPT !.state = state,
              !.invalid = @ \union ({<<d.state, state>>} \ ValidTransitions)]

\* A failed g_assert or unexpected warning is noted, the model goes on.
Assert(d, holds, name) == IF holds THEN d ELSE [d EXCEPT !.failed = @ \union {name}]

Activate(d) ==
    [ChangeState(Assert(d, ~d.active, "active"), "ACTIVATING") EXCEPT !.driver = "activating"]

Deactivate(d, cancelling) ==
    IF ~d.active \/ d.state = "DEACTIVATING" THEN d
    ELSE [ChangeState(Assert(d, cancelling \/ d.state = "IDLE", "not_idle"), "DEACTIVATING")
          EXCEPT !.driver = "deactivating"]

\* An enrolling device waits for the end of the scan and for the finger to go.
BadEnrollMaybeAwaitFingerOn(d) ==
    IF d.finger_present THEN d ELSE ChangeState(d, "AWAIT_FINGER_ON")
EnrollMaybeAwaitFingerOn(d) ==
    IF d.minutiae_scan_active \/ d.finger_present THEN d
    ELSE ChangeState(d, "AWAIT_FINGER_ON")

\* A completion of FpDevice: the result waits for the idle source.
Complete(d, result) ==
    [Assert(d, d.result = "none" /\ action # "NONE", "completed_twice") EXCEPT !.result = result]

\* The first error is kept, but any error replaces a retry.
BadKeptError(d, error) == IF error = "none" THEN d.action_error ELSE error
KeptError(d, error) ==
    IF error = "none" \/ d.action_error \in {"fatal", "cancelled"} THEN d.action_error ELSE error

\* What a completion without error tells the user: an identify operation has
\* reported its match before, a capture returns the image it has.
Success(d) ==
    CASE action = "ENROLL" -> "ok"
      [] action = "IDENTIFY" -> IF d.reported = "none" THEN "fatal"
                                ELSE IF d.reported = "retry" THEN "retry" ELSE "ok"
      [] action = "CAPTURE" -> IF d.capture_image THEN "ok" ELSE "fatal"
      [] OTHER -> "not_reached"

\* The action completes when the device is inactive and no scan is pending.
BadMayComplete(d) == ~d.active
BadMayCompleteActive(d) == ~d.minutiae_scan_active
MayComplete(d) == ~d.active /\ ~d.minutiae_scan_active

MaybeCompleteAction(d, error) ==
    LET kept  == KeptError(d, error)
        shown == IF kept = "none" /\ cancel # "no" THEN "cancelled" ELSE kept
    IN  IF ~MayComplete(d)
        THEN [d EXCEPT !.action_error = kept]
        ELSE [Complete(d, IF shown = "none" THEN Success(d) ELSE shown)
              EXCEPT !.action_error = "none", !.capture_image = FALSE]

\* An operation that cannot go on deactivates the device whatever its state.
BadAborted(d, error) == MaybeCompleteAction(d, error)
Aborted(d, error) == Deactivate(MaybeCompleteAction(d, error), TRUE)

\* fpi_device_identify_report takes the first report only.
IdentifyReport(d, what) ==
    [d EXCEPT !.reported = IF @ = "none" THEN what ELSE @]

-----------------------------------------------------------------------------
(* Operations of the API user *)

Open ==
    /\ action = "NONE" /\ ~is_open
    /\ action' = "OPEN"
    /\ dev' = [dev EXCEPT !.driver = "opening"]
    /\ UNCHANGED <<is_open, cancel>>

Close ==
    /\ action = "NONE" /\ is_open
    /\ action' = "CLOSE"
    /\ dev' = [Assert(dev, ~dev.active, "active") EXCEPT !.driver = "closing"]
    /\ UNCHANGED <<is_open, cancel>>

\* fp_image_device_start_capture_action up to the activate vfunc.
Started(d) ==
    LET clean == Assert(Assert([d EXCEPT !.enroll_stage = 0], ~d.finger_present, "finger"),
                        ~d.minutiae_scan_active, "scan")
    IN  Activate(clean)

Start(act) ==
    /\ action = "NONE" /\ is_open
    /\ action' = act
    /\ \/ dev' = Started(dev)
       \/ act = "CAPTURE"   \* without waiting for the finger: not supported
          /\ dev' = [dev EXCEPT !.result = "fatal"]
    /\ UNCHANGED <<is_open, cancel>>

\* The cancellable of the operation is cancelled; FpDevice calls the cancel vfunc
\* from an idle source unless the operation was completed before.
UserCancel ==
    /\ action \in CaptureActions
    /\ dev.result = "none" /\ cancel = "no"
    /\ cancel' = "requested"
    /\ UNCHANGED <<dev, action, is_open>>

CancelAction ==
    /\ cancel = "requested" /\ dev.result = "none"
    /\ cancel' = "called"
    /\ dev' = Deactivate(dev, TRUE)
    /\ UNCHANGED <<action, is_open>>

\* FpDevice returns the task from its idle source.
ReturnInIdle ==
    /\ dev.result # "none"
    /\ is_open' = IF action = "OPEN" THEN dev.result = "ok" ELSE is_open /\ action # "CLOSE"
    /\ action' = "NONE"
    /\ cancel' = "no"
    /\ dev' = [dev EXCEPT !.result = "none", !.reported = "none"]

-----------------------------------------------------------------------------
(* Reports of the driver *)

OpenedOrClosed(d, error) ==
    [Complete(d, IF error = "none" THEN "ok" ELSE error)
     EXCEPT !.state = "INACTIVE", !.driver = "off"]

OpenComplete(error) ==
    /\ dev.driver = "opening"
    /\ dev' = OpenedOrClosed(dev, error)
    /\ UNCHANGED <<action, is_open, cancel>>

CloseComplete(error) ==
    /\ dev.driver = "closing"
    /\ dev' = OpenedOrClosed(dev, error)
    /\ UNCHANGED <<action, is_open, cancel>>

ActivationEnded(d, error) ==
    IF error # "none" THEN [Complete(d, error) EXCEPT !.driver = "off"]
    ELSE [ChangeState(ChangeState(d, "IDLE"), "AWAIT_FINGER_ON")
          EXCEPT !.active = TRUE, !.driver = "running"]

ActivateComplete(error) ==
    /\ dev.driver = "activating"
    /\ dev' = ActivationEnded(dev, error)
    /\ UNCHANGED <<action, is_open, cancel>>

\* Ignored (g_return_if_fail) unless the device is deactivating.
BadDeactivated(d) == [ChangeState(d, "INACTIVE") EXCEPT !.active = FALSE, !.driver = "off"]
Deactivated(d) ==
    [ChangeState(d, "INACTIVE")
     EXCEPT !.active = FALSE, !.finger_present = FALSE, !.driver = "off"]

DeactivateComplete(error) ==
    /\ dev.driver = "deactivating"
    /\ dev' = MaybeCompleteAction(Deactivated(dev), error)
    /\ UNCHANGED <<action, is_open, cancel>>

\* Outside of an enroll operation the end of a scan deactivates the device.
BadFingerGone(d) == EnrollMaybeAwaitFingerOn(ChangeState(d, "IDLE"))
FingerGone(d) ==
    LET idle == ChangeState(d, "IDLE")
    IN  IF action = "ENROLL" THEN EnrollMaybeAwaitFingerOn(idle) ELSE Deactivate(idle, FALSE)

FingerStatus(d, present) ==
    LET seen == [d EXCEPT !.finger_present = present]
    IN  IF present /\ d.state = "AWAIT_FINGER_ON" THEN ChangeState(seen, "CAPTURE")
        ELSE IF ~present /\ d.state = "AWAIT_FINGER_OFF" THEN FingerGone(seen)
        ELSE seen

\* A driver does not report that a finger it is reading out was lifted, unless the
\* operation was cancelled and no image follows.
ReportFingerStatus(present) ==
    /\ dev.driver \in {"running", "deactivating"}
    /\ present \/ dev.state # "CAPTURE" \/ cancel # "no"
    /\ dev' = FingerStatus(dev, present)
    /\ UNCHANGED <<action, is_open, cancel>>

Captured(d) == ChangeState([d EXCEPT !.minutiae_scan_active = TRUE], "AWAIT_FINGER_OFF")

ImageCaptured ==
    /\ dev.driver = "running" /\ dev.state = "CAPTURE"
    /\ dev' = Captured(dev)
    /\ UNCHANGED <<action, is_open, cancel>>

\* fpi_image_device_retry_scan for each of the operations.
Retried(d) ==
    CASE action = "ENROLL" -> ChangeState(d, "AWAIT_FINGER_OFF")
      [] action = "IDENTIFY" -> Aborted(IdentifyReport(d, "retry"), "none")
      [] OTHER -> Aborted(d, "retry")

RetryScan ==
    /\ dev.driver = "running" /\ dev.state \in {"AWAIT_FINGER_ON", "CAPTURE"}
    /\ dev' = Retried(dev)
    /\ UNCHANGED <<action, is_open, cancel>>

\* A session error of an inactive device fails its activation; a cancellation
\* error of a cancelled action is ignored, which changes nothing here; that of
\* a device which is deactivated already is kept for the end of the action.
SessionError(error) ==
    \/ error # "none" /\ ActivateComplete(error)
    \/ /\ dev.driver \in {"running", "deactivating"} /\ error # "none"
       /\ error = "cancelled" => cancel = "no"
       /\ dev.minutiae_scan_active /\ action = "ENROLL" => ErrorsDuringEnrollScan
       /\ dev' = Aborted(dev, error)
       /\ UNCHANGED <<action, is_open, cancel>>

-----------------------------------------------------------------------------
(* The end of a minutiae detection *)

\* An error frees the progress report's error, which the last stage uses again.
BadEnrollProgress(d, outcome) ==
    LET staged == IF outcome = "print" THEN [d EXCEPT !.enroll_stage = @ + 1] ELSE d
    IN  IF staged.enroll_stage # NrStages - 1 THEN EnrollMaybeAwaitFingerOn(staged)
        ELSE Deactivate(MaybeCompleteAction(staged, "none"), FALSE)
EnrollProgress(d, outcome) ==
    LET staged == IF outcome = "print" THEN [d EXCEPT !.enroll_stage = @ + 1] ELSE d
    IN  IF staged.enroll_stage # NrStages THEN EnrollMaybeAwaitFingerOn(staged)
        ELSE Deactivate(MaybeCompleteAction(Assert(staged, outcome = "print", "use_after_free"),
                                            "none"), FALSE)

IdentifyMatched(d, outcome) ==
    CASE outcome = "match_failed" -> MaybeCompleteAction(d, "fatal")
      [] OTHER -> MaybeCompleteAction(
                      IdentifyReport(d, IF outcome = "retry" THEN "retry" ELSE "result"), "none")

\* Outcomes: a print, a retry (no minutiae found), a print that cannot be made
\* from the image, or a match that fails; a cancelled task always is an error.
Scanned(d, outcome) ==
    IF cancel # "no" THEN Aborted(d, "cancelled")
    ELSE IF action = "CAPTURE"
    THEN MaybeCompleteAction([d EXCEPT !.capture_image = TRUE],
                             IF outcome = "retry" THEN "retry" ELSE "none")
    ELSE IF outcome = "add_failed" THEN Aborted(d, "fatal")
    ELSE IF action = "ENROLL" THEN EnrollProgress(d, outcome)
    ELSE IF action = "IDENTIFY" THEN IdentifyMatched(d, outcome)
    ELSE Assert(d, FALSE, "not_reached")

MinutiaeDetected(outcome) ==
    /\ dev.minutiae_scan_active
    /\ outcome \in {"add_failed", "match_failed"} => action # "CAPTURE"
    /\ outcome = "match_failed" => action = "IDENTIFY"
    /\ dev' = Scanned([dev EXCEPT !.minutiae_scan_active = FALSE], outcome)
    /\ UNCHANGED <<action, is_open, cancel>>

-----------------------------------------------------------------------------

Outcomes == {"print", "retry", "add_failed", "match_failed"}

User == \/ Open \/ Close
        \/ \E act \in CaptureActions : Start(act)
        \/ UserCancel

MainLoop == \/ CancelAction
            \/ ReturnInIdle
            \/ \E outcome \in Outcomes : MinutiaeDetected(outcome)

Driver == \/ \E error \in {"none", "fatal"} : OpenComplete(error)
          \/ \E error \in {"none", "fatal"} : CloseComplete(error)
          \/ \E error \in {"none", "fatal"} : ActivateComplete(error)
          \/ \E error \in {"none", "fatal"} : DeactivateComplete(error)
          \/ \E present \in BOOLEAN : ReportFingerStatus(present)
          \/ ImageCaptured
          \/ RetryScan
          \/ \E error \in {"fatal", "cancelled"} : SessionError(error)

Next == User \/ MainLoop \/ Driver

Spec == Init /\ [][Next]_vars

(* The main loop runs its sources, the detection thread ends, the driver      *)
(* answers its vfuncs ("must eventually call the corresponding function to    *)
(* finish the operation"), reads out a finger it sees and reports that it has *)
(* been lifted.  Nobody has to put a finger on the sensor.                    *)
FairSpec ==
    /\ Spec
    /\ WF_vars(CancelAction)
    /\ WF_vars(ReturnInIdle)
    /\ WF_vars(\E outcome \in Outcomes : MinutiaeDetected(outcome))
    /\ WF_vars(\E error \in {"none", "fatal"} : OpenComplete(error) \/ CloseComplete(error))
    /\ WF_vars(\E error \in {"none", "fatal"} : ActivateComplete(error))
    /\ WF_vars(\E error \in {"none", "fatal"} : DeactivateComplete(error))
    /\ WF_vars(dev.state = "AWAIT_FINGER_OFF" /\ ReportFingerStatus(FALSE))
    /\ WF_vars(ImageCaptured \/ (dev.state = "CAPTURE" /\ RetryScan))

-----------------------------------------------------------------------------
(* Properties *)

\* The library and the driver agree on which of them has to act: a vfunc that
\* was called is awaited by the state, and an active device has a driver at work.
DriverAndStateAgree ==
    /\ dev.active <=> dev.driver \in {"running", "deactivating"}
    /\ dev.state = "DEACTIVATING" <=> dev.driver = "deactivating"
    /\ dev.state \in {"IDLE", "AWAIT_FINGER_ON", "CAPTURE", "AWAIT_FINGER_OFF"}
           <=> dev.driver = "running"
    /\ dev.driver # "off" => action # "NONE" /\ dev.result = "none"

\* No second image is taken while the minutiae of the first are still detected:
\* the race the comment in fpi_image_device_minutiae_detected fears.
OneScanAtATime ==
    dev.state \in {"AWAIT_FINGER_ON", "CAPTURE"} => ~dev.minutiae_scan_active

\* An operation leaves nothing behind for the next one: no active device, no
\* scan, finger, error or image (the asserts of start_capture_action).
NothingLeftBehind ==
    dev.result # "none" \/ action = "NONE" =>
        /\ ~dev.active /\ ~dev.minutiae_scan_active /\ ~dev.finger_present
        /\ dev.action_error = "none" /\ ~dev.capture_image

\* Library, driver and detection thread are where the state of the device says.
StateIsConsistent == DriverAndStateAgree /\ OneScanAtATime /\ NothingLeftBehind

\* No assertion fails, nothing completes twice, no freed error is used.  Of the
\* transitions the code warns about only those of a failed activation tried again and
\* of a retry before the finger was seen are made, and of its other warnings only
\* "not_idle" is given.
NoAssertionFails ==
    /\ dev.failed \subseteq {"not_idle"}
    /\ dev.invalid \subseteq {<<"ACTIVATING", "ACTIVATING">>,
                              <<"AWAIT_FINGER_ON", "AWAIT_FINGER_OFF">>}

\* A success is a complete one: all stages enrolled, a match reported
\* (maybe_complete_action, fpi_device_identify_complete).
SuccessIsComplete ==
    dev.result = "ok" =>
        /\ action = "ENROLL" => dev.enroll_stage = NrStages
        /\ action = "IDENTIFY" => dev.reported = "result"

\* An operation ends with the first fatal error or cancellation it met, whatever
\* errors its scan and its deactivation report afterwards (maybe_complete_action).
FirstErrorWins ==
    [][dev.result = "none" /\ dev.action_error \in {"fatal", "cancelled"}
          /\ dev'.result # "none" => dev'.result = dev.action_error]_vars

\* An operation that met an error or was cancelled returns (the cancel vfunc does
\* nothing to a device that is still activating, fpi_image_device_deactivate).
AbortedOperationReturns ==
    (dev.action_error \in {"fatal", "cancelled"} \/ (cancel = "requested" /\ dev.active))
        ~> action = "NONE"

\* Once the image is there, an identify or capture operation returns.
ScannedOperationReturns ==
    (dev.minutiae_scan_active /\ action \in {"IDENTIFY", "CAPTURE"}) ~> action = "NONE"

\* Operations return, whichever of the driver and the detection thread is the last to
\* end (maybe_complete_action).
OperationsReturn == AbortedOperationReturns /\ ScannedOperationReturns

(* Statements of the documentation and comments that the code does not keep *)

\* fpi_image_device_session_error: "This effectively aborts the current ongoing
\* action".
SessionErrorAborts == dev.action_error = "fatal" ~> action = "NONE"
=============================================================================
