---------------------------- MODULE ImageDrivers ----------------------------
(***************************************************************************)
(* The image device together with the driver that runs it, one of three:   *)
(* a polling loop (Nb1010), interrupts next to transfers (Uru4000) and a   *)
(* chain of machines (Elan).  FpImageDevice lets an orderly driver do what *)
(* it likes; this module shows that these are orderly, and that they come  *)
(* to an end with the library they call.                                   *)
(***************************************************************************)
EXTENDS Nb1010, Uru4000, Elan

DriversInit ==
    /\ Init
    /\ calls = <<>>
    /\ \/ driver = "nb1010" /\ drv = NbInit
       \/ driver = "uru4000" /\ drv = UruInit
       \/ driver = "elan" /\ drv = ElanInit

Calls == CallLibrary \/ OpenOrClose \/ NbVfuncs \/ UruVfuncs \/ ElanVfuncs
MainLoopOfDriver == NbMainLoop \/ UruMainLoop \/ ElanMainLoop

DriversNext == UserCalls \/ LibraryMainLoop \/ Calls \/ MainLoopOfDriver

DriversSpec == DriversInit /\ [][DriversNext]_driversVars

\* What the bus or the clock brings about without the sensor.
SourceOfDriver ==
    \/ NbMainLoop
    \/ ElanMainLoop
    \/ /\ MainLoopRuns("uru4000")
       /\ \/ UruControlTransfer \/ UruIrqCancelled \/ UruPowerupPause \/ UruScanpwrTimeout
          \/ drv.init = "AWAIT_SCAN_POWER" /\ UruIrq("scanpwr")

(* The main loop runs on: calls are made, sources that are ready time and     *)
(* again are dispatched, the detection thread ends, transfers with a timeout  *)
(* and delays are over at some time.  Neither a finger nor an image that the  *)
(* sensor has yet to send is assumed, only that a device which is powered up  *)
(* says so before it was asked for the third time.                            *)
DriversFairSpec ==
    /\ DriversSpec
    /\ WF_driversVars(Calls)
    /\ SF_driversVars(LibraryMainLoop)
    /\ SF_driversVars(SourceOfDriver)

-----------------------------------------------------------------------------
(* Properties *)

\* Whatever happens on the bus, the calls of the drivers have the device move as
\* FpImageDevice says that orderly drivers do: no report in a state or at a time that it
\* does not foresee (fpi_image_device_report_finger_status, _image_captured, _retry_scan,
\* _session_error, _activate_complete, _deactivate_complete).
DriversAreOrderly == Spec

\* The library refuses a call (g_return_if_fail) in one case only: uru4000 does not look
\* at the state before it reports an image that came while the device was deactivated.
CallsAreAccepted ==
    calls # <<>> =>
        \/ Accepted(Head(calls).call)
        \/ driver = "uru4000" /\ Head(calls).call = "image_captured"
               /\ dev.state = "DEACTIVATING"

Quiet == CASE driver = "nb1010" -> NbQuiet
           [] driver = "uru4000" -> UruQuiet
           [] OTHER -> ElanQuiet

\* When an operation has its result, no transfer, timeout or machine of the driver is
\* left that could act on the next one or on a closed device (m_loop_complete,
\* irq_handler, imaging_complete, stop_capture_complete).
DriverIsQuiet == calls = <<>> /\ (dev.result # "none" \/ action = "NONE") => Quiet

\* No machine is started over another one that runs or has ended under its transfers.
DriverStateIsSound ==
    IF driver = "nb1010" THEN drv.ssm # "replaced" ELSE drv.failed = {}

\* What a driver has under way belongs to the operation that runs, each once, and so does
\* what it reports.
DriverKeepsOrder == CallsAreAccepted /\ DriverIsQuiet /\ DriverStateIsSound

\* The answer of the sensor to an image transfer, which has no timeout.
AwaitsSensor == driver = "uru4000" /\ drv.img /\ drv.imaging = "CAPTURE"

\* An activation ends one way or the other (activate_initsm_complete, activate_complete);
\* rebootpwr_run_state: the machine "fails after 100 tries".
ActivationEnds == dev.driver = "activating" ~> dev.driver # "activating"

\* A device that is to be deactivated gets inactive, and an operation that was cancelled
\* while the device was active returns, unless the sensor owes an image.
DeactivationEnds ==
    /\ dev.state = "DEACTIVATING" ~> dev.state = "INACTIVE" \/ AwaitsSensor
    /\ dev.active /\ cancel = "requested" ~> action = "NONE" \/ AwaitsSensor

\* No operation hangs in its activation or deactivation.
TransitionsEnd == ActivationEnds /\ DeactivationEnds
=============================================================================
