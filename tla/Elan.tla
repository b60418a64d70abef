-------------------------------- MODULE Elan --------------------------------
(***************************************************************************)
(* The ElanTech driver (drivers/elan.c).  Every wait for a finger begins   *)
(* with a calibration; each scan is captured frame by frame, reported and  *)
(* followed by a command that stops the capture, whatever happened.  A     *)
(* deactivation while a scan goes on waits for that command.               *)
(***************************************************************************)
EXTENDS ImageDriver

CONSTANTS
    ElanMinFrames,   \* ELAN_MIN_FRAMES (7)
    ElanMaxFrames,   \* ELAN_MAX_FRAMES (30)
    ElanAttempts     \* ELAN_CALIBRATION_ATTEMPTS (10 or more)

ASSUME ElanAssumption ==
    /\ ElanMinFrames \in Nat \ {0} /\ ElanMaxFrames \in Nat \ {0} /\ ElanAttempts \in Nat \ {0}
    /\ ElanMinFrames <= ElanMaxFrames

\* state is that of the one machine that runs; reading: its command has been written
\* and the answer is read.
ElanInit == [state |-> "none", reading |-> FALSE, active |-> FALSE, deactivating |-> FALSE,
             num_frames |-> 0, calib_atts_left |-> 0, calib_status |-> 0, failed |-> {}]

\* elan_run_cmd
ElanCmd(d, state) == [d EXCEPT !.state = state, !.reading = FALSE]
ElanResetState(d) == [d EXCEPT !.calib_status = 0, !.num_frames = 0]

\* Commands without an answer.
ElanSkipRead == {"LED_ON", "STOP"}

-----------------------------------------------------------------------------
(* The ends of the machines *)

\* stop_capture_complete
BadElanStopped(d, error) ==
    Runs([d EXCEPT !.state = "none", !.deactivating = FALSE],
         IF d.deactivating THEN Call("deactivate_complete", error)
         ELSE IF error = "none" THEN Call("report_finger_status", "off")
         ELSE Call("session_error", error))
ElanStopped(d, error) ==
    Runs([d EXCEPT !.state = "none", !.active = FALSE, !.deactivating = FALSE],
         IF d.deactivating THEN Call("deactivate_complete", error)
         ELSE IF error = "none" THEN Call("report_finger_status", "off")
         ELSE Call("session_error", error))

\* elan_stop_capture, which follows a report of the capture or calibration.
ElanStopCapture(d, report) == Runs(ElanCmd(ElanResetState(d), "STOP"), report)

\* capture_complete: enough frames are an image, too few of them a short swipe.
ElanCaptured(d) ==
    ElanStopCapture(d, IF d.num_frames >= ElanMinFrames THEN None("image_captured")
                       ELSE None("retry_scan"))

ElanFails(d, error) == ElanStopCapture(d, Call("session_error", error))

\* calibrate_complete
ElanCapture(d) == Runs(ElanCmd(ElanResetState(d), "LED_ON"), <<>>)

-----------------------------------------------------------------------------
(* The states of the machines after the command of one was answered *)

\* CALIBRATE_GET_STATUS
ElanGetStatus(d) ==
    IF d.calib_atts_left = 1 THEN ElanFails(d, "fatal")
    ELSE Runs(ElanCmd([d EXCEPT !.calib_atts_left = @ - 1], "GET_STATUS"), <<>>)

\* CALIBRATE_CHECK_STATUS wants to see the device busy (1) before it is done (3).
ElanCheckStatus(d, status) ==
    IF d.calib_status = 1 /\ status = 3
    THEN Runs(ElanCmd([d EXCEPT !.calib_status = 3], "GET_BACKGROUND"), <<>>)
    ELSE Runs([d EXCEPT !.state = "CHECK_STATUS",
                        !.calib_status = IF @ = 0 /\ status = 1 THEN 1 ELSE @], <<>>)

\* Only some firmware is calibrated, and the mean may show that there is no need.
ElanCalibrateNext(d) ==
    CASE d.state = "GET_BACKGROUND" -> ElanCapture(d) \/ Runs(ElanCmd(d, "GET_MEAN"), <<>>)
      [] d.state = "GET_MEAN" ->
             ElanCapture(d) \/ ElanGetStatus([d EXCEPT !.calib_status = 0])
      [] d.state = "GET_STATUS" -> \E status \in {1, 3} : ElanCheckStatus(d, status)

\* CAPTURE_READ_DATA: a finger is there, the device is busy, or it makes no sense.
ElanFingerRead(d) ==
    \/ Runs(ElanCmd(d, "READ_DATA"), Call("report_finger_status", "on"))
    \/ Runs([d EXCEPT !.state = "NOT_READY"], <<>>)
    \/ ElanFails(d, "fatal")

\* CAPTURE_CHECK_ENOUGH_FRAMES; a frame that is nowhere brighter than the background
\* ends the capture.
ElanFrameRead(d) ==
    LET read == [d EXCEPT !.num_frames = @ + 1]
    IN  \/ ElanFails(d, "fatal")
        \/ IF read.num_frames < ElanMaxFrames THEN Runs(ElanCmd(read, "WAIT_FINGER"), <<>>)
           ELSE ElanCaptured(read)

ElanCaptureNext(d) ==
    CASE d.state = "LED_ON" -> Runs(ElanCmd(d, "WAIT_FINGER"), <<>>)
      [] d.state = "WAIT_FINGER" -> ElanFingerRead(d)
      [] d.state = "READ_DATA" -> ElanFrameRead(d)

\* The last command of the activation is for one of the devices only.
ElanActivateNext(d) ==
    CASE d.state = "GET_FW_VER" -> Runs(ElanCmd(d, "GET_SENSOR_DIM"), <<>>)
      [] d.state = "GET_SENSOR_DIM" ->
             \/ Runs(ElanCmd(d, "CMD_1"), <<>>)
             \/ Runs([d EXCEPT !.state = "none"], None("activate_complete"))
      [] d.state = "CMD_1" -> Runs([d EXCEPT !.state = "none"], None("activate_complete"))

ElanActivating == {"GET_FW_VER", "GET_SENSOR_DIM", "CMD_1"}
ElanCalibrating == {"GET_BACKGROUND", "GET_MEAN", "GET_STATUS"}
ElanCapturing == {"LED_ON", "WAIT_FINGER", "READ_DATA"}

-----------------------------------------------------------------------------
(* elan_cmd_cb *)

ElanAnswered(d) ==
    IF d.state \notin ElanSkipRead /\ ~d.reading THEN Runs([d EXCEPT !.reading = TRUE], <<>>)
    ELSE CASE d.state \in ElanActivating -> ElanActivateNext(d)
           [] d.state \in ElanCalibrating -> ElanCalibrateNext(d)
           [] d.state \in ElanCapturing -> ElanCaptureNext(d)
           [] OTHER -> ElanStopped(d, "none")

ElanFailed(d, error) ==
    IF d.state = "STOP" THEN ElanStopped(d, error)
    ELSE IF d.state \in ElanActivating
    THEN Runs([d EXCEPT !.state = "none"], Call("activate_complete", error))
    ELSE ElanFails(d, error)

\* A finger that is waited for in vain ends the capture as if it were complete.
ElanTimedOut(d) == d.state = "WAIT_FINGER" /\ cancel = "no" /\ ElanCaptured(d)

\* stop_cmd is never cancelled.
BadElanOutcomes(d) == ActionOutcomes
ElanOutcomes(d) == IF d.state = "STOP" THEN TransferOutcomes ELSE ActionOutcomes

ElanTransfer ==
    /\ drv.state \in ElanActivating \union ElanCalibrating \union ElanCapturing \union {"STOP"}
    /\ \/ \E error \in ElanOutcomes(drv) :
              IF error = "none" THEN ElanAnswered(drv) ELSE ElanFailed(drv, error)
       \/ ElanTimedOut(drv)

\* The delays of CALIBRATE_CHECK_STATUS and CAPTURE_READ_DATA.
ElanTimeout ==
    \/ drv.state = "CHECK_STATUS" /\ ElanGetStatus(drv)
    \/ drv.state = "NOT_READY" /\ Runs(ElanCmd(drv, "WAIT_FINGER"), <<>>)

ElanMainLoop == MainLoopRuns("elan") /\ (ElanTransfer \/ ElanTimeout)

-----------------------------------------------------------------------------

\* elan_calibrate
ElanCalibrate ==
    IF drv.active THEN [drv EXCEPT !.failed = @ \union {"active"}]
    ELSE ElanCmd([ElanResetState(drv) EXCEPT !.active = TRUE, !.calib_atts_left = ElanAttempts],
                 "GET_BACKGROUND")

ElanActivate ==
    /\ Vfunc("activate")
    /\ Returns(ElanCmd(ElanResetState(drv), "GET_FW_VER"), <<>>)

ElanChangeState ==
    /\ Vfunc("change_state")
    /\ Returns(IF Head(calls).arg = "AWAIT_FINGER_ON" THEN ElanCalibrate ELSE drv, <<>>)

ElanDeactivate ==
    /\ Vfunc("deactivate")
    /\ IF drv.active THEN Returns([drv EXCEPT !.deactivating = TRUE], <<>>)
       ELSE Returns(drv, None("deactivate_complete"))

ElanVfuncs == driver = "elan" /\ (ElanActivate \/ ElanChangeState \/ ElanDeactivate)

\* Nothing of the driver is left when it is not active.
ElanQuiet == drv.state = "none" /\ ~drv.active /\ ~drv.deactivating
=============================================================================
