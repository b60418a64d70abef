------------------------------- MODULE Uru4000 -------------------------------
(***************************************************************************)
(* The DigitalPersona driver (drivers/uru4000.c).  Three activities go on  *)
(* next to each other: interrupts, which one transfer after the other      *)
(* waits for until it is cancelled; control transfers, answered in the     *)
(* order they were submitted; and one image transfer.  A state of the      *)
(* device that comes while an image is transferred waits for its end.      *)
(***************************************************************************)
EXTENDS ImageDriver

CONSTANTS
    UruTries,  \* how often a machine reads hwstat (100) before it gives up
    UruPending, \* how many control transfers may be pending when a finger is reported
    UruKeys,   \* how many blocks of an image change the key (15 blocks)
    UruFaults  \* "init": the activation may fail; "reboot": the device takes more
               \* than one reading to reboot; each is a finding of its own

ASSUME UruTriesAssumption == UruTries \in Nat \ {0}
ASSUME UruPendingAssumption == UruPending \in Nat \ {0}
ASSUME UruKeysAssumption == UruKeys \in Nat
ASSUME UruFaultsAssumption == UruFaults \subseteq {"init", "reboot"}

\* irq: the interrupt transfer is "off", "running" or "stopping" (cancelled, with the
\* stopped callback set); control: the callbacks of the control transfers; init, sub
\* and imaging: the states of the machines; img: img_transfer is not NULL.
UruInit == [irq |-> "off", irq_cb |-> "none", control |-> <<>>, activate_state |-> "INACTIVE",
            init |-> "none", sub |-> "none", tries |-> 0, timeouts |-> 0, timeout |-> FALSE,
            img |-> FALSE, imaging |-> "none", keys |-> 0, failed |-> {}]

UruAssert(d, holds, name) == IF holds THEN d ELSE [d EXCEPT !.failed = @ \union {name}]

\* write_regs and read_regs of a machine or of a change of the state.
UruControl(d, callback) == [d EXCEPT !.control = Append(@, callback)]

UruStartIrqHandler(d) ==
    [UruAssert(d, d.irq = "off", "irq_cancellable") EXCEPT !.irq = "running"]

-----------------------------------------------------------------------------
(* execute_state_change and the imaging loop *)

\* The interrupt handler is needed to learn of a finger.
UruAwaitFinger(d) ==
    IF d.irq = "off" THEN Returns(d, Call("session_error", "fatal"))
    ELSE Returns(UruControl([d EXCEPT !.irq_cb = "finger"], "mode"), <<>>)

UruStartCapture(d) ==
    UruControl([d EXCEPT !.irq_cb = "none", !.img = TRUE, !.imaging = "CAPTURE",
                         !.keys = 0], "mode")

UruExecuteStateChange(d) ==
    CASE d.activate_state = "DEACTIVATING" ->
             Returns(UruControl([d EXCEPT !.irq_cb = "none"], "off"), <<>>)
      [] d.activate_state \in {"AWAIT_FINGER_ON", "AWAIT_FINGER_OFF"} -> UruAwaitFinger(d)
      [] d.activate_state = "CAPTURE" -> Returns(UruStartCapture(d), <<>>)
      [] OTHER -> Returns(d, <<>>)

\* dev_change_state
BadUruChangeState ==
    /\ Vfunc("change_state")
    /\ UruExecuteStateChange([drv EXCEPT !.activate_state = Head(calls).arg])
UruChangeState ==
    /\ Vfunc("change_state")
    /\ LET told == [drv EXCEPT !.activate_state = Head(calls).arg]
       IN  IF drv.img THEN Returns(told, <<>>) ELSE UruExecuteStateChange(told)

\* imaging_complete, after it has reported an error.
UruImagingComplete ==
    /\ Vfunc("imaging_complete")
    /\ UruExecuteStateChange([drv EXCEPT !.img = FALSE, !.imaging = "none"])

\* The end of IMAGING_REPORT_IMAGE, after the image was reported.
UruImageReported ==
    /\ Vfunc("image_reported")
    /\ IF drv.activate_state = "CAPTURE" THEN Returns([drv EXCEPT !.imaging = "CAPTURE"], <<>>)
       ELSE Returns(drv, None("imaging_complete"))

UruImagingFailed(d) ==
    Runs([d EXCEPT !.imaging = "failed"], Call("session_error", "fatal") \o None("imaging_complete"))

\* A block that does not fit into the image fails the machine.
UruReportImage(d) ==
    \/ UruImagingFailed(d)
    \/ Runs([d EXCEPT !.imaging = "REPORT_IMAGE"],
            None("image_captured") \o None("image_reported"))

UruSendIndex(d) == Runs(UruControl([d EXCEPT !.imaging = "SEND_INDEX"], "ssm"), <<>>)

\* IMAGING_SEND_INDEX: a bad image is read again, one that is not encrypted reported.
UruImageRead ==
    \/ Runs([drv EXCEPT !.imaging = "CAPTURE"], <<>>)
    \/ UruReportImage(drv)
    \/ UruSendIndex(drv)

UruDecode(d) ==
    \/ UruReportImage(d)
    \/ d.keys < UruKeys /\ UruSendIndex([d EXCEPT !.keys = @ + 1])

\* The answer of the image transfer, which has no timeout and cannot be cancelled.
UruImageTransfer ==
    /\ drv.imaging = "CAPTURE"
    /\ UruImagingFailed(drv) \/ UruImageRead

-----------------------------------------------------------------------------
(* Activation *)

\* activate_initsm_complete
UruActivated(d, error) ==
    Runs([d EXCEPT !.init = "none", !.sub = "none", !.timeout = FALSE, !.irq_cb = "none"],
         Call("activate_complete", error))

UruInitFails(d) == "init" \in UruFaults /\ UruActivated(d, "fatal")

UruInitRead(d, state) == Runs(UruControl([d EXCEPT !.init = state], "ssm"), <<>>)

UruDone(d) == UruInitRead([d EXCEPT !.timeout = FALSE, !.irq_cb = "none"], "GET_VERSION")

\* The scan power interrupt may have come while the device was powered up.
UruAwaitScanPower(d) ==
    IF d.timeouts < 0 THEN UruDone(d)
    ELSE Runs([d EXCEPT !.init = "AWAIT_SCAN_POWER", !.sub = "none", !.timeout = TRUE], <<>>)

BadUruPowerup(d) ==
    IF d.irq = "off" THEN UruInitFails(d)
    ELSE UruInitRead([d EXCEPT !.sub = "SET_HWSTAT", !.tries = UruTries], "POWERUP")
UruPowerup(d) ==
    IF d.irq = "off" THEN UruInitFails(d)
    ELSE UruInitRead([d EXCEPT !.irq_cb = "init", !.sub = "SET_HWSTAT", !.tries = UruTries],
                     "POWERUP")

\* powerup_run_state: the device is powered up once hwstat says so.
UruPowerupNext(d) ==
    CASE d.sub = "SET_HWSTAT" -> Runs(UruControl([d EXCEPT !.sub = "GET_HWSTAT"], "ssm"), <<>>)
      [] d.sub = "GET_HWSTAT" ->
             \/ UruAwaitScanPower([d EXCEPT !.sub = "none"])
             \/ d.tries = 1 /\ UruInitFails(d)
             \/ d.tries > 1 /\ Runs([d EXCEPT !.tries = @ - 1, !.sub = "PAUSE"], <<>>)
      [] d.sub = "CHALLENGE" -> Runs(UruControl([d EXCEPT !.sub = "RESPONSE"], "ssm"), <<>>)
      [] d.sub = "RESPONSE" -> Runs(UruControl([d EXCEPT !.sub = "SET_HWSTAT"], "ssm"), <<>>)

\* Devices with auth_cr are challenged before every other attempt.
UruPowerupPause ==
    /\ drv.sub = "PAUSE"
    /\ \E state \in {"SET_HWSTAT", "CHALLENGE"} :
           Runs(UruControl([drv EXCEPT !.sub = state], "ssm"), <<>>)

UruCheckPowerdown(d) == UruInitRead(d, "CHECK_HWSTAT_POWERDOWN") \/ UruPowerup(d)

\* rebootpwr_run_state.  REBOOTPWR_PAUSE takes the delay for the state it jumps to:
\* the machine is in state 10, where nothing goes on.
UruRebootNext(d) ==
    CASE d.sub = "SET_HWSTAT" -> Runs(UruControl([d EXCEPT !.sub = "GET_HWSTAT"], "ssm"), <<>>)
      [] d.sub = "GET_HWSTAT" ->
             \/ UruCheckPowerdown([d EXCEPT !.sub = "none"])
             \/ "reboot" \in UruFaults /\ Runs([d EXCEPT !.sub = "10"], <<>>)

UruInitNext(d) ==
    CASE d.init = "GET_HWSTAT" ->
             \/ UruInitRead([d EXCEPT !.sub = "SET_HWSTAT"], "REBOOT_POWER")
             \/ UruCheckPowerdown(d)
      [] d.init = "REBOOT_POWER" -> UruRebootNext(d)
      [] d.init = "CHECK_HWSTAT_POWERDOWN" -> UruPowerup(d)
      [] d.init = "POWERUP" -> UruPowerupNext(d)
      [] d.init = "GET_VERSION" -> UruActivated(d, "none")

\* init_scanpwr_timeout: the interrupt was not seen, everything is tried again.
UruScanpwrTimeout ==
    /\ drv.timeout
    /\ LET d == [drv EXCEPT !.irq_cb = "none", !.timeout = FALSE, !.timeouts = @ + 1]
       IN  IF d.timeouts = 3 THEN UruInitFails(d) ELSE UruInitRead(d, "GET_HWSTAT")

\* dev_activate
UruActivate ==
    /\ Vfunc("activate")
    /\ Returns(UruControl([UruStartIrqHandler(drv) EXCEPT !.timeouts = 0,
                                                          !.init = "GET_HWSTAT"], "ssm"), <<>>)

-----------------------------------------------------------------------------
(* Interrupts *)

UruInitIrq(type) ==
    IF type # "scanpwr" THEN Runs(drv, <<>>)
    ELSE IF drv.init = "AWAIT_SCAN_POWER" THEN UruDone(drv)
    ELSE Runs([drv EXCEPT !.timeouts = 0 - 1], <<>>)

\* irq_handler starts the next transfer before it calls the callback.
UruIrq(type) ==
    /\ drv.irq = "running"
    /\ CASE drv.irq_cb = "init" -> UruInitIrq(type)
         [] drv.irq_cb = "finger" /\ type \in {"on", "off"} ->
                Len(drv.control) < UruPending /\ Runs(drv, Call("report_finger_status", type))
         [] OTHER -> Runs(drv, <<>>)

\* An error ends the interrupts.  It fails the machine of an activation even when a
\* machine of that one is still running.
UruIrqError ==
    /\ drv.irq = "running" /\ MayFail
    /\ action = "ENROLL" /\ drv.irq_cb = "none" => ErrorsDuringEnrollScan
    /\ LET off == [drv EXCEPT !.irq = "off"]
       IN  CASE drv.irq_cb = "init" ->
                    UruInitFails(UruAssert(off, drv.sub = "none", "freed_machine"))
             [] drv.irq_cb = "finger" -> Runs(off, Call("session_error", "fatal"))
             [] OTHER -> (drv.init # "none" => "init" \in UruFaults) /\ Runs(off, <<>>)

UruIrqCancelled ==
    /\ drv.irq = "stopping"
    /\ Runs([drv EXCEPT !.irq = "off"], None("deactivate_complete"))

-----------------------------------------------------------------------------
(* The answer of the first control transfer *)

BadUruStopIrqHandler(d) == Runs(d, None("deactivate_complete"))
UruStopIrqHandler(d) ==
    IF d.irq = "off" THEN Runs(d, None("deactivate_complete"))
    ELSE Runs([d EXCEPT !.irq = "stopping"], <<>>)

UruImagingNext(d) ==
    IF d.imaging = "SEND_INDEX" THEN Runs(UruControl([d EXCEPT !.imaging = "READ_KEY"], "ssm"), <<>>)
    ELSE UruDecode(d)

UruAnswered(d, callback, error) ==
    CASE callback = "mode" ->
             Runs(d, IF error = "none" THEN <<>> ELSE Call("session_error", error))
      [] callback = "off" -> UruStopIrqHandler(d)
      [] callback = "ssm" /\ d.init # "none" ->
             IF error = "none" THEN UruInitNext(d) ELSE UruInitFails(d)
      [] callback = "ssm" /\ d.init = "none" ->
             IF error = "none" THEN UruImagingNext(d) ELSE UruImagingFailed(d)

UruControlTransfer ==
    /\ drv.control # <<>>
    /\ \E error \in TransferOutcomes :
           UruAnswered([drv EXCEPT !.control = Tail(@)], Head(drv.control), error)

-----------------------------------------------------------------------------

UruMainLoop ==
    /\ MainLoopRuns("uru4000")
    /\ \/ UruImageTransfer \/ UruPowerupPause \/ UruScanpwrTimeout
       \/ \E type \in {"on", "off", "scanpwr"} : UruIrq(type)
       \/ UruIrqError \/ UruIrqCancelled \/ UruControlTransfer

\* The deactivate vfunc does nothing: UruChangeState was told before.
UruVfuncs ==
    /\ driver = "uru4000"
    /\ \/ UruActivate \/ UruChangeState \/ UruImagingComplete \/ UruImageReported
       \/ Vfunc("deactivate") /\ Returns(drv, <<>>)

\* Nothing of the driver is left when it is not active.
UruQuiet ==
    /\ drv.irq = "off" /\ drv.control = <<>> /\ ~drv.img /\ ~drv.timeout
    /\ drv.init = "none" /\ drv.sub = "none"
=============================================================================
