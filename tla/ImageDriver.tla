----------------------------- MODULE ImageDriver -----------------------------
(***************************************************************************)
(* How a driver and the library call each other (fpi-image-device.c,       *)
(* fp-image-device.c).  One thread runs both: a function of the library    *)
(* that a driver calls may call a vfunc of the driver before it returns.   *)
(* calls holds the calls that are still to be made in this iteration of    *)
(* the main loop, the next one first; nothing else happens before it is    *)
(* empty.  Every nested call is the last thing its caller does, unless the *)
(* caller puts a call of its own behind it.                                *)
(*                                                                         *)
(* dev, action, is_open and cancel are those of FpImageDevice, whose       *)
(* effects the calls have; its guards on the driver are left to be shown.  *)
(***************************************************************************)
EXTENDS FpImageDevice, Sequences

VARIABLES
    driver,  \* which of the drivers runs the device
    drv,     \* its private data
    calls

libraryVars == <<dev, action, is_open, cancel>>
driversVars == <<libraryVars, driver, drv, calls>>

Call(name, arg) == <<[call |-> name, arg |-> arg]>>
None(name) == Call(name, "none")

\* A state a driver is told of by its change_state handler; activate and deactivate
\* follow the state of their name.  The driver ignores IDLE, which may follow first.
Vfuncs(state) ==
    Call("change_state", state) \o
    CASE state = "ACTIVATING" -> None("activate")
      [] state = "DEACTIVATING" -> None("deactivate")
      [] OTHER -> <<>>

\* What the library calls on its way from dev to d.
Told(d) == IF d.state = dev.state THEN <<>> ELSE Vfuncs(d.state)

-----------------------------------------------------------------------------
(* Calls of the driver into the library *)

\* The g_return_if_fail conditions; a call that does not meet them does nothing.
Accepted(call) ==
    CASE call = "image_captured" -> dev.state = "CAPTURE" /\ action \in CaptureActions
      [] call = "retry_scan" -> dev.state # "INACTIVE" /\ action \in CaptureActions
      [] call = "activate_complete" ->
             ~dev.active /\ dev.state = "ACTIVATING" /\ action \in CaptureActions
      [] call = "deactivate_complete" -> dev.active /\ dev.state = "DEACTIVATING"
      [] call = "open_complete" -> ~dev.active /\ action = "OPEN"
      [] call = "close_complete" -> ~dev.active /\ action = "CLOSE"
      [] OTHER -> TRUE

SessionErrorEffect(error) ==
    IF ~dev.active /\ action # "NONE"
    THEN IF Accepted("activate_complete") THEN ActivationEnded(dev, error) ELSE dev
    ELSE IF (error = "cancelled" /\ cancel # "no") \/ dev.state = "INACTIVE" THEN dev
    ELSE Aborted(dev, error)

Effect(c) ==
    IF ~Accepted(c.call) THEN dev
    ELSE CASE c.call = "report_finger_status" ->
             IF dev.state = "INACTIVE" THEN dev ELSE FingerStatus(dev, c.arg = "on")
      [] c.call = "session_error" -> SessionErrorEffect(c.arg)
      [] c.call = "image_captured" -> Captured(dev)
      [] c.call = "retry_scan" -> Retried(dev)
      [] c.call = "activate_complete" -> ActivationEnded(dev, c.arg)
      [] c.call = "deactivate_complete" -> MaybeCompleteAction(Deactivated(dev), c.arg)
      [] OTHER -> OpenedOrClosed(dev, c.arg)

LibraryCalls == {"report_finger_status", "session_error", "image_captured", "retry_scan",
                 "activate_complete", "deactivate_complete", "open_complete",
                 "close_complete"}

\* An enroll operation that is retried is told AWAIT_FINGER_OFF even if it was there.
CallLibrary ==
    /\ calls # <<>> /\ Head(calls).call \in LibraryCalls
    /\ dev' = Effect(Head(calls))
    /\ calls' = (IF Head(calls).call = "retry_scan" /\ action = "ENROLL"
                 THEN Vfuncs("AWAIT_FINGER_OFF") ELSE Told(dev')) \o Tail(calls)
    /\ UNCHANGED <<action, is_open, cancel, driver, drv>>

-----------------------------------------------------------------------------
(* Steps of the driver, which ends in drv d and has then made the calls more *)

\* A vfunc, or what a function of the driver does after a call.
Vfunc(name) == calls # <<>> /\ Head(calls).call = name
Returns(d, more) ==
    /\ drv' = d
    /\ calls' = more \o Tail(calls)
    /\ UNCHANGED <<libraryVars, driver>>

\* A source of the main loop: a timeout or the callback of a transfer.
MainLoopRuns(name) == calls = <<>> /\ driver = name
Runs(d, more) ==
    /\ drv' = d
    /\ calls' = more
    /\ UNCHANGED <<libraryVars, driver>>

\* What a transfer may end with.  Without ErrorsDuringEnrollScan the bus is in order
\* while the minutiae of an enroll stage are detected.
MayFail == dev.minutiae_scan_active /\ action = "ENROLL" => ErrorsDuringEnrollScan
TransferOutcomes == {"none"} \union (IF MayFail THEN {"fatal"} ELSE {})

\* A transfer that was submitted with the cancellable of the action: its task returns
\* nothing else once that is cancelled.
ActionOutcomes == IF cancel # "no" THEN {"cancelled"} ELSE TransferOutcomes

\* img_open and img_close claim and release the USB interface.
OpenOrClose ==
    \E error \in {"none", "fatal"} :
        \/ Vfunc("open") /\ Returns(drv, Call("open_complete", error))
        \/ Vfunc("close") /\ Returns(drv, Call("close_complete", error))

-----------------------------------------------------------------------------
(* What the main loop has the library do *)

LibraryRuns(step) == calls = <<>> /\ step /\ UNCHANGED <<driver, drv>>

UserCalls ==
    \/ LibraryRuns(Open) /\ calls' = None("open")
    \/ LibraryRuns(Close) /\ calls' = None("close")
    \/ \E act \in CaptureActions :
           /\ LibraryRuns(Start(act))
           /\ calls' = IF dev'.driver = "activating" THEN Vfuncs("ACTIVATING") ELSE <<>>
    \/ LibraryRuns(UserCancel) /\ calls' = <<>>

LibraryMainLoop ==
    \/ LibraryRuns(CancelAction) /\ calls' = Told(dev')
    \/ LibraryRuns(ReturnInIdle) /\ calls' = <<>>
    \/ \E outcome \in Outcomes :
           LibraryRuns(MinutiaeDetected(outcome)) /\ calls' = Told(dev')
=============================================================================
