------------------------- MODULE FpImageDevice_proofs -------------------------
(***************************************************************************)
(* Proofs about FpImageDevice for every number of enroll stages and every  *)
(* driver that reports no fatal error while the minutiae of an enroll      *)
(* stage are detected; and, with its invariant, that the three drivers of  *)
(* ImageDrivers are such drivers.                                          *)
(***************************************************************************)
EXTENDS ImageDrivers, Integers, SequenceTheorems, TLAPS

States == {"INACTIVE", "ACTIVATING", "IDLE", "AWAIT_FINGER_ON", "CAPTURE",
           "AWAIT_FINGER_OFF", "DEACTIVATING"}
Actions == CaptureActions \union {"NONE", "OPEN", "CLOSE"}
DriverStates == {"off", "opening", "closing", "activating", "running", "deactivating"}
Assertions == {"active", "not_idle", "completed_twice", "finger", "scan",
               "use_after_free", "not_reached"}

Device == [state : States, active : BOOLEAN, finger_present : BOOLEAN,
           enroll_stage : Nat, minutiae_scan_active : BOOLEAN,
           action_error : Errors \union {"none"}, capture_image : BOOLEAN,
           driver : DriverStates, result : Errors \union {"none", "ok"},
           reported : {"none", "retry", "result"},
           invalid : SUBSET (States \X States), failed : SUBSET Assertions]

TypeOK ==
    /\ dev \in Device
    /\ action \in Actions
    /\ is_open \in BOOLEAN
    /\ cancel \in {"no", "requested", "called"}

\* What the driver and the main loop still have to do belongs to the current action.
WorkBelongsToAction ==
    /\ dev.driver = "opening" => action = "OPEN"
    /\ dev.driver = "closing" => action = "CLOSE"
    /\ dev.driver \in {"activating", "running", "deactivating"} => action \in CaptureActions
    /\ dev.driver = "activating" => dev.state = "ACTIVATING"
    /\ dev.result # "none" => action # "NONE"
    /\ cancel # "no" => action \in CaptureActions

ScanBelongsToAction ==
    dev.minutiae_scan_active =>
        /\ action \in CaptureActions /\ dev.result = "none"
        /\ dev.driver \in {"running", "deactivating", "off"}

\* An inactive device that scans nothing has no error or image left.
QuietWhenInactive ==
    ~dev.active =>
        /\ ~dev.finger_present
        /\ dev.state \in {"INACTIVE", "ACTIVATING"}
        /\ ~dev.minutiae_scan_active => dev.action_error = "none" /\ ~dev.capture_image

\* An enroll operation goes on while stages are missing and is deactivated
\* after the last one, for an error or when cancelled.
EnrollGoesOn ==
    action = "ENROLL" =>
        /\ dev.driver \in {"activating", "running"} \/ dev.minutiae_scan_active
               => dev.enroll_stage < NrStages
        /\ dev.minutiae_scan_active /\ dev.driver # "running" => cancel = "called"
        /\ dev.driver = "deactivating" /\ dev.action_error = "none" /\ cancel = "no"
               => dev.enroll_stage = NrStages

\* Only an enroll operation is idle; an image is one of a finger that is there.
FingerIsKnown ==
    /\ dev.state = "IDLE" => action = "ENROLL"
    /\ cancel = "no" /\ dev.state = "CAPTURE" => dev.finger_present
    /\ cancel = "no" /\ dev.state = "AWAIT_FINGER_OFF" /\ dev.minutiae_scan_active
           => dev.finger_present

ImageInv ==
    /\ TypeOK
    /\ DriverAndStateAgree /\ OneScanAtATime /\ NothingLeftBehind
    /\ NoAssertionFails /\ SuccessIsComplete
    /\ WorkBelongsToAction /\ ScanBelongsToAction /\ QuietWhenInactive
    /\ EnrollGoesOn /\ FingerIsKnown

Fields == {"state", "active", "finger_present", "enroll_stage", "minutiae_scan_active",
           "action_error", "capture_image", "driver", "result", "reported", "invalid", "failed"}

\* The device d becomes r, which differs from it in the given fields only.
OnlyIn(fields, d, r) == r \in Device /\ \A f \in Fields \ fields : r[f] = d[f]

Allowed == {<<"ACTIVATING", "ACTIVATING">>, <<"AWAIT_FINGER_ON", "AWAIT_FINGER_OFF">>}

\* NoAssertionFails, of any device.
Unfailed(d) == d.failed \subseteq {"not_idle"} /\ d.invalid \subseteq Allowed

-----------------------------------------------------------------------------
(* The helpers on one device *)

\* One field of a device is set: the others and its type are kept.
LEMMA SetDriver ==
    ASSUME NEW d \in Device, NEW v \in DriverStates
    PROVE  OnlyIn({"driver"}, d, [d EXCEPT !.driver = v]) /\ [d EXCEPT !.driver = v].driver = v
BY DEF Device, OnlyIn, Fields

LEMMA SetFinger ==
    ASSUME NEW d \in Device, NEW v \in BOOLEAN
    PROVE  /\ OnlyIn({"finger_present"}, d, [d EXCEPT !.finger_present = v])
           /\ [d EXCEPT !.finger_present = v].finger_present = v
BY DEF Device, OnlyIn, Fields

LEMMA SetScan ==
    ASSUME NEW d \in Device, NEW v \in BOOLEAN
    PROVE  /\ OnlyIn({"minutiae_scan_active"}, d, [d EXCEPT !.minutiae_scan_active = v])
           /\ [d EXCEPT !.minutiae_scan_active = v].minutiae_scan_active = v
BY DEF Device, OnlyIn, Fields

LEMMA SetStage ==
    ASSUME NEW d \in Device, NEW v \in Nat
    PROVE  /\ OnlyIn({"enroll_stage"}, d, [d EXCEPT !.enroll_stage = v])
           /\ [d EXCEPT !.enroll_stage = v].enroll_stage = v
BY DEF Device, OnlyIn, Fields

LEMMA SetImage ==
    ASSUME NEW d \in Device, NEW v \in BOOLEAN
    PROVE  /\ OnlyIn({"capture_image"}, d, [d EXCEPT !.capture_image = v])
           /\ [d EXCEPT !.capture_image = v].capture_image = v
BY DEF Device, OnlyIn, Fields

LEMMA SetError ==
    ASSUME NEW d \in Device, NEW v \in Errors \union {"none"}
    PROVE  /\ OnlyIn({"action_error"}, d, [d EXCEPT !.action_error = v])
           /\ [d EXCEPT !.action_error = v].action_error = v
BY DEF Device, OnlyIn, Fields

LEMMA SetResult ==
    ASSUME NEW d \in Device, NEW v \in Errors \union {"none", "ok"}
    PROVE  /\ OnlyIn({"result"}, d, [d EXCEPT !.result = v])
           /\ [d EXCEPT !.result = v].result = v
BY DEF Device, OnlyIn, Fields

LEMMA SetActive ==
    ASSUME NEW d \in Device, NEW v \in BOOLEAN
    PROVE  /\ OnlyIn({"active"}, d, [d EXCEPT !.active = v])
           /\ [d EXCEPT !.active = v].active = v
BY DEF Device, OnlyIn, Fields

LEMMA SetState ==
    ASSUME NEW d \in Device, NEW v \in States
    PROVE  /\ OnlyIn({"state"}, d, [d EXCEPT !.state = v])
           /\ [d EXCEPT !.state = v].state = v
BY DEF Device, OnlyIn, Fields

LEMMA SetInvalid ==
    ASSUME NEW d \in Device, NEW v \in SUBSET (States \X States)
    PROVE  /\ OnlyIn({"invalid"}, d, [d EXCEPT !.invalid = v])
           /\ [d EXCEPT !.invalid = v].invalid = v
BY DEF Device, OnlyIn, Fields

LEMMA SetFailed ==
    ASSUME NEW d \in Device, NEW v \in SUBSET Assertions
    PROVE  /\ OnlyIn({"failed"}, d, [d EXCEPT !.failed = v])
           /\ [d EXCEPT !.failed = v].failed = v
BY DEF Device, OnlyIn, Fields

LEMMA SetReported ==
    ASSUME NEW d \in Device, NEW v \in {"none", "retry", "result"}
    PROVE  /\ OnlyIn({"reported"}, d, [d EXCEPT !.reported = v])
           /\ [d EXCEPT !.reported = v].reported = v
BY DEF Device, OnlyIn, Fields

\* fp_image_device_change_state moves the state; a transition that is valid or among
\* the allowed ones is no failure.
LEMMA ChangeStateMakes ==
    ASSUME NEW d \in Device, Unfailed(d), NEW state \in States,
           <<d.state, state>> \in ValidTransitions \union Allowed
    PROVE  /\ OnlyIn({"state", "invalid"}, d, ChangeState(d, state))
           /\ ChangeState(d, state).state = state
           /\ Unfailed(ChangeState(d, state))
<1> DEFINE made    == [d EXCEPT !.state = state]
           invalid == d.invalid \union ({<<d.state, state>>} \ ValidTransitions)
<1>1. OnlyIn({"state"}, d, made) /\ made.state = state
    BY SetState
<1>2. made.invalid = d.invalid /\ made.failed = d.failed /\ made \in Device
    BY <1>1 DEF OnlyIn, Fields
<1>3. invalid \in SUBSET (States \X States) /\ invalid \subseteq Allowed
    BY DEF Device, Unfailed
<1>4. ChangeState(d, state) = [made EXCEPT !.invalid = invalid]
    BY DEF ChangeState, Device
<1> HIDE DEF made, invalid
<1>5. /\ OnlyIn({"invalid"}, made, ChangeState(d, state))
      /\ ChangeState(d, state).invalid = invalid
    BY <1>2, <1>3, <1>4, SetInvalid
<1> QED
    BY <1>1, <1>2, <1>3, <1>5 DEF OnlyIn, Fields, Unfailed

\* An assertion that holds leaves the device alone.
LEMMA AssertHolds ==
    ASSUME NEW d \in Device, NEW name \in Assertions, NEW holds \in BOOLEAN
    PROVE  /\ holds => Assert(d, holds, name) = d
           /\ OnlyIn({"failed"}, d, Assert(d, holds, name))
           /\ Assert(d, holds, name).failed \subseteq d.failed \union {name}
<1>1. d.failed \union {name} \in SUBSET Assertions
    BY DEF Device
<1>2. CASE holds
    BY <1>2 DEF Assert, OnlyIn
<1>3. CASE ~holds
    <2>1. Assert(d, holds, name) = [d EXCEPT !.failed = d.failed \union {name}]
        BY <1>3 DEF Assert, Device
    <2> QED
        BY <1>1, <1>3, <2>1, SetFailed
<1> QED
    BY <1>2, <1>3

Working == {"IDLE", "AWAIT_FINGER_ON", "CAPTURE", "AWAIT_FINGER_OFF"}

\* The driver is told to deactivate the device.
Deactivates(d, r) ==
    /\ OnlyIn({"state", "invalid", "driver", "failed"}, d, r)
    /\ r.state = "DEACTIVATING" /\ r.driver = "deactivating"
    /\ Unfailed(r)

\* fpi_image_device_deactivate: the driver is told, unless it is told already or
\* still activates.
LEMMA DeactivateMakes ==
    ASSUME NEW d \in Device, Unfailed(d), NEW cancelling \in BOOLEAN
    PROVE  /\ ~d.active \/ d.state = "DEACTIVATING" => Deactivate(d, cancelling) = d
           /\ d.active /\ d.state \in Working => Deactivates(d, Deactivate(d, cancelling))
<1>1. CASE ~d.active \/ d.state = "DEACTIVATING"
    BY <1>1 DEF Deactivate, Working
<1>2. CASE d.active /\ d.state \in Working
    <2> DEFINE holds == (cancelling \/ d.state = "IDLE")
               checked == Assert(d, holds, "not_idle")
               changed == ChangeState(checked, "DEACTIVATING")
    <2>1. holds \in BOOLEAN /\ "not_idle" \in Assertions /\ "DEACTIVATING" \in States
        BY DEF Assertions, States
    <2> HIDE DEF holds
    <2>2. OnlyIn({"failed"}, d, checked) /\ checked.failed \subseteq d.failed \union {"not_idle"}
        BY <2>1, AssertHolds
    <2>3. checked \in Device /\ checked.state = d.state /\ Unfailed(checked)
        BY <2>2 DEF OnlyIn, Fields, Unfailed
    <2>4. <<d.state, "DEACTIVATING">> \in ValidTransitions
        BY <1>2 DEF Working, ValidTransitions
    <2>5. Deactivate(d, cancelling) = [changed EXCEPT !.driver = "deactivating"]
        BY <1>2 DEF Deactivate, Working, holds
    <2> HIDE DEF checked
    <2>6. /\ OnlyIn({"state", "invalid"}, checked, changed)
          /\ changed.state = "DEACTIVATING" /\ Unfailed(changed)
        BY <2>1, <2>3, <2>4, ChangeStateMakes
    <2> HIDE DEF changed
    <2>7. changed \in Device /\ "deactivating" \in DriverStates
        BY <2>6 DEF OnlyIn, DriverStates
    <2>8. /\ OnlyIn({"driver"}, changed, Deactivate(d, cancelling))
          /\ Deactivate(d, cancelling).driver = "deactivating"
        BY <2>5, <2>7, SetDriver
    <2> QED
        BY <1>2, <2>2, <2>6, <2>8 DEF OnlyIn, Fields, Unfailed, Deactivates, Working
<1> QED
    BY <1>1, <1>2 DEF Working

\* The error that is kept is one of the two, the old one if it is final.
LEMMA KeptErrorIsError ==
    ASSUME NEW d \in Device, NEW error \in Errors \union {"none"}
    PROVE  /\ KeptError(d, error) \in Errors \union {"none"}
           /\ error # "none" => KeptError(d, error) # "none"
           /\ d.action_error \in {"fatal", "cancelled"} => KeptError(d, error) = d.action_error
BY DEF KeptError, Device, Errors

\* What an operation ends with that kept the given error.
Shown(d, kept) ==
    IF kept = "none" /\ cancel # "no" THEN "cancelled"
    ELSE IF kept = "none" THEN Success(d) ELSE kept

\* An error is kept until the action may complete.
Keeps(d, r, error) ==
    OnlyIn({"action_error"}, d, r) /\ r.action_error = KeptError(d, error)

\* The action completes.
Completes(d, r, error) ==
    /\ OnlyIn({"action_error", "capture_image", "result"}, d, r)
    /\ r.action_error = "none" /\ ~r.capture_image
    /\ r.result = Shown(d, KeptError(d, error))
    /\ r.result # "none"

\* fp_image_device_maybe_complete_action either keeps the error for later or
\* completes the action with what is Shown.
LEMMA MaybeCompleteMakes ==
    ASSUME NEW d \in Device, Unfailed(d), NEW error \in Errors \union {"none"}
    PROVE  LET r == MaybeCompleteAction(d, error)
           IN  /\ d.active \/ d.minutiae_scan_active => Keeps(d, r, error)
               /\ ~d.active /\ ~d.minutiae_scan_active /\ d.result = "none"
                     /\ action \in CaptureActions => Completes(d, r, error)
               /\ d.active \/ d.minutiae_scan_active \/ (d.result = "none"
                     /\ action \in CaptureActions) => Unfailed(r)
<1> DEFINE r == MaybeCompleteAction(d, error)
<1>1. CASE d.active \/ d.minutiae_scan_active
    <2>1. r = [d EXCEPT !.action_error = KeptError(d, error)]
        BY <1>1 DEF MaybeCompleteAction, MayComplete
    <2>2. Keeps(d, r, error)
        BY <2>1, KeptErrorIsError, SetError DEF Keeps
    <2>3. Unfailed(r)
        BY <2>2 DEF Keeps, OnlyIn, Fields, Unfailed
    <2> QED
        BY <1>1, <2>2, <2>3
<1>2. CASE ~d.active /\ ~d.minutiae_scan_active /\ d.result = "none" /\ action \in CaptureActions
    <2> DEFINE shown == Shown(d, KeptError(d, error))
               told  == [d EXCEPT !.result = shown]
               clean == [told EXCEPT !.action_error = "none"]
    <2>1. Success(d) \in {"ok", "fatal", "retry"}
        BY <1>2 DEF Success, CaptureActions, Device
    <2>2. shown \in Errors \union {"ok"}
        BY <2>1, KeptErrorIsError DEF Shown, Errors
    <2>3. Complete(d, shown) = told
        BY <1>2 DEF Complete, Assert, CaptureActions
    <2>4. r = [Complete(d, shown) EXCEPT !.action_error = "none", !.capture_image = FALSE]
        BY <1>2 DEF MaybeCompleteAction, MayComplete, Shown
    <2> HIDE DEF shown
    <2>5. OnlyIn({"result"}, d, told) /\ told.result = shown /\ told \in Device
        BY <2>2, SetResult DEF OnlyIn
    <2>6. r = [clean EXCEPT !.capture_image = FALSE]
        BY <2>3, <2>4
    <2> HIDE DEF told, r
    <2>7. OnlyIn({"action_error"}, told, clean) /\ clean.action_error = "none" /\ clean \in Device
        BY <2>5, SetError DEF OnlyIn
    <2> HIDE DEF clean
    <2>8. OnlyIn({"capture_image"}, clean, r) /\ r.capture_image = FALSE
        BY <2>6, <2>7, SetImage
    <2>9. OnlyIn({"action_error", "capture_image", "result"}, d, r)
        BY <2>5, <2>7, <2>8 DEF OnlyIn
    <2>10. r.action_error = "none" /\ r.result = shown
        BY <2>5, <2>7, <2>8 DEF OnlyIn, Fields
    <2>11. Unfailed(r) /\ r.result # "none"
        BY <2>9, <2>10, <2>2 DEF OnlyIn, Fields, Unfailed, Errors
    <2> QED
        BY <1>2, <2>8, <2>9, <2>10, <2>11 DEF Completes, shown, r
<1> QED
    BY <1>1, <1>2

\* An aborted operation keeps its error, and is deactivated or completes.
LEMMA AbortedMakes ==
    ASSUME NEW d \in Device, Unfailed(d), NEW error \in Errors \union {"none"},
           d.active => d.state \in Working \union {"DEACTIVATING"},
           d.result = "none", action \in CaptureActions
    PROVE  LET r == Aborted(d, error)
           IN  /\ Unfailed(r)
               /\ d.active /\ d.state \in Working =>
                      /\ OnlyIn({"action_error", "state", "invalid", "driver", "failed"}, d, r)
                      /\ r.action_error = KeptError(d, error)
                      /\ r.state = "DEACTIVATING" /\ r.driver = "deactivating"
               /\ d.active /\ d.state = "DEACTIVATING" => Keeps(d, r, error)
               /\ ~d.active /\ d.minutiae_scan_active => Keeps(d, r, error)
               /\ ~d.active /\ ~d.minutiae_scan_active => Completes(d, r, error)
<1> DEFINE r == Aborted(d, error)
           m == MaybeCompleteAction(d, error)
<1>1. r = Deactivate(m, TRUE)
    BY DEF Aborted
<1>2. /\ d.active \/ d.minutiae_scan_active => Keeps(d, m, error)
      /\ ~d.active /\ ~d.minutiae_scan_active => Completes(d, m, error)
      /\ Unfailed(m)
    BY MaybeCompleteMakes
<1> HIDE DEF r, m
<1>3. m \in Device /\ m.active = d.active /\ m.state = d.state
    BY <1>2 DEF Keeps, Completes, OnlyIn, Fields, Device
<1>4. /\ ~d.active \/ d.state = "DEACTIVATING" => r = m
      /\ d.active /\ d.state \in Working => Deactivates(m, r)
    BY <1>1, <1>2, <1>3, DeactivateMakes
<1>5. CASE d.active /\ d.state \in Working
    <2>1. Deactivates(m, r) /\ Keeps(d, m, error)
        BY <1>2, <1>4, <1>5
    <2>2. OnlyIn({"action_error", "state", "invalid", "driver", "failed"}, d, r)
        BY <2>1 DEF Deactivates, Keeps, OnlyIn
    <2>3. r.action_error = KeptError(d, error)
        BY <2>1 DEF Deactivates, Keeps, OnlyIn, Fields
    <2> QED
        BY <1>5, <2>1, <2>2, <2>3 DEF Deactivates, Working, r
<1>6. CASE ~d.active \/ d.state = "DEACTIVATING"
    BY <1>2, <1>4, <1>6 DEF r, Working
<1> QED
    BY <1>5, <1>6

-----------------------------------------------------------------------------
(* The steps *)

\* What ImageInv says of the types and the failures.
LEMMA InvUnfailed == ImageInv => Unfailed(dev) /\ dev \in Device /\ action \in Actions
BY DEF ImageInv, TypeOK, NoAssertionFails, Unfailed, Allowed

\* Unfailed is NoAssertionFails said of one device.
LEMMA UnfailedIsNoAssertion == Unfailed(dev)' => NoAssertionFails'
BY DEF NoAssertionFails, Unfailed, Allowed

\* The closed device satisfies the invariant.
LEMMA ImageInitially == Init => ImageInv
<1> SUFFICES ASSUME Init PROVE ImageInv
    OBVIOUS
<1>1. TypeOK
    BY DEF Init, TypeOK, Device, States, DriverStates, Errors, Actions
<1> QED
    BY <1>1
    DEF Init, ImageInv, DriverAndStateAgree, OneScanAtATime, NothingLeftBehind,
        NoAssertionFails, SuccessIsComplete, WorkBelongsToAction, ScanBelongsToAction,
        QuietWhenInactive, EnrollGoesOn, FingerIsKnown, CaptureActions

\* What FirstErrorWins says of a step.
ErrorWins ==
    dev.result = "none" /\ dev.action_error \in {"fatal", "cancelled"} /\ dev'.result # "none"
        => dev'.result = dev.action_error

\* The only completion of an action sets its result and nothing else.
LEMMA CompleteMakes ==
    ASSUME NEW d \in Device, d.result = "none", action # "NONE",
           NEW result \in Errors \union {"ok"}
    PROVE  /\ OnlyIn({"result"}, d, Complete(d, result)) /\ Complete(d, result).result = result
           /\ Complete(d, result) \in Device
<1>1. Complete(d, result) = [d EXCEPT !.result = result]
    BY DEF Complete, Assert
<1> QED
    BY <1>1, SetResult DEF OnlyIn

\* fp_device_open keeps the invariant.
LEMMA OpenKeeps ==
    ASSUME ImageInv, Open PROVE ImageInv' /\ ErrorWins
<1>1. OnlyIn({"driver"}, dev, dev') /\ dev'.driver = "opening"
    BY InvUnfailed, SetDriver DEF Open, DriverStates
<1>2. TypeOK' /\ Unfailed(dev)'
    BY <1>1, InvUnfailed DEF Open, OnlyIn, Fields, TypeOK, Unfailed, ImageInv, Actions
<1> QED
    BY <1>1, <1>2, UnfailedIsNoAssertion
    DEF Open, OnlyIn, Fields, ImageInv, DriverAndStateAgree, OneScanAtATime,
        NothingLeftBehind, SuccessIsComplete, WorkBelongsToAction, ScanBelongsToAction,
        QuietWhenInactive, EnrollGoesOn, FingerIsKnown, CaptureActions, ErrorWins

\* fp_device_close keeps the invariant: there is nothing to wait for.
LEMMA CloseKeeps ==
    ASSUME ImageInv, Close PROVE ImageInv' /\ ErrorWins
<1>1. dev' = [dev EXCEPT !.driver = "closing"]
    BY DEF Close, Assert, ImageInv, NothingLeftBehind
<1>2. OnlyIn({"driver"}, dev, dev') /\ dev'.driver = "closing"
    BY <1>1, InvUnfailed, SetDriver DEF DriverStates
<1>3. TypeOK' /\ Unfailed(dev)'
    BY <1>2, InvUnfailed DEF Close, OnlyIn, Fields, TypeOK, Unfailed, ImageInv, Actions
<1> QED
    BY <1>2, <1>3, UnfailedIsNoAssertion
    DEF Close, OnlyIn, Fields, ImageInv, DriverAndStateAgree, OneScanAtATime,
        NothingLeftBehind, SuccessIsComplete, WorkBelongsToAction, ScanBelongsToAction,
        QuietWhenInactive, EnrollGoesOn, FingerIsKnown, CaptureActions, ErrorWins

\* fp_image_device_start_capture_action keeps the invariant.
LEMMA StartKeeps ==
    ASSUME ImageInv, NEW act \in CaptureActions, Start(act) PROVE ImageInv' /\ ErrorWins
<1>0. /\ dev \in Device /\ Unfailed(dev) /\ ~dev.active /\ ~dev.finger_present
      /\ ~dev.minutiae_scan_active /\ dev.state \in {"INACTIVE", "ACTIVATING"}
    BY InvUnfailed DEF Start, ImageInv, NothingLeftBehind, QuietWhenInactive
<1>1. CASE dev' = Started(dev)
    <2> DEFINE c == [dev EXCEPT !.enroll_stage = 0]
               a == ChangeState(c, "ACTIVATING")
    <2>1. OnlyIn({"enroll_stage"}, dev, c) /\ c.enroll_stage = 0 /\ c \in Device
        BY <1>0, SetStage DEF OnlyIn
    <2>2. Unfailed(c) /\ ~c.active /\ ~c.finger_present /\ ~c.minutiae_scan_active
              /\ c.state \in {"INACTIVE", "ACTIVATING"}
        BY <1>0, <2>1 DEF OnlyIn, Fields, Unfailed
    <2>3. dev' = Activate(c)
        BY <1>1, <2>2 DEF Started, Assert
    <2> HIDE DEF c
    <2>4. dev' = [a EXCEPT !.driver = "activating"]
        BY <2>2, <2>3 DEF Activate, Assert
    <2>5. OnlyIn({"state", "invalid"}, c, a) /\ a.state = "ACTIVATING" /\ Unfailed(a)
        BY <2>1, <2>2, ChangeStateMakes DEF States, ValidTransitions, Allowed
    <2> HIDE DEF a
    <2>6. OnlyIn({"driver"}, a, dev') /\ dev'.driver = "activating"
        <3>1. a \in Device /\ "activating" \in DriverStates
            BY <2>5 DEF OnlyIn, DriverStates
        <3> QED
            BY <2>4, <3>1, SetDriver
    <2>7. OnlyIn({"enroll_stage", "state", "invalid", "driver"}, dev, dev')
        BY <2>1, <2>5, <2>6 DEF OnlyIn
    <2>8. dev'.enroll_stage = 0 /\ dev'.state = "ACTIVATING" /\ Unfailed(dev)'
        BY <2>1, <2>5, <2>6 DEF OnlyIn, Fields, Unfailed
    <2>9. TypeOK'
        BY <2>7 DEF Start, OnlyIn, TypeOK, ImageInv, Actions
    <2> QED
        BY <2>6, <2>7, <2>8, <2>9, UnfailedIsNoAssertion, NrStagesAssumption
        DEF Start, OnlyIn, Fields, ImageInv, DriverAndStateAgree, OneScanAtATime,
            NothingLeftBehind, SuccessIsComplete, WorkBelongsToAction,
            ScanBelongsToAction, QuietWhenInactive, EnrollGoesOn, FingerIsKnown,
            CaptureActions, ErrorWins
<1>2. CASE act = "CAPTURE" /\ dev' = [dev EXCEPT !.result = "fatal"]
    <2>1. OnlyIn({"result"}, dev, dev') /\ dev'.result = "fatal"
        BY <1>0, <1>2, SetResult DEF Errors
    <2>2. TypeOK' /\ Unfailed(dev)'
        BY <1>0, <2>1 DEF Start, OnlyIn, Fields, TypeOK, ImageInv, Actions, Unfailed
    <2> QED
        BY <1>2, <2>1, <2>2, UnfailedIsNoAssertion
        DEF Start, OnlyIn, Fields, ImageInv, DriverAndStateAgree, OneScanAtATime,
            NothingLeftBehind, SuccessIsComplete, WorkBelongsToAction,
            ScanBelongsToAction, QuietWhenInactive, EnrollGoesOn, FingerIsKnown,
            CaptureActions, ErrorWins
<1> QED
    BY <1>1, <1>2 DEF Start

\* fp_device_cancel keeps the invariant: its idle callback is not run yet.
LEMMA UserCancelKeeps ==
    ASSUME ImageInv, UserCancel PROVE ImageInv' /\ ErrorWins
BY DEF UserCancel, TypeOK, NoAssertionFails, OnlyIn, Fields, ImageInv,
       DriverAndStateAgree, OneScanAtATime, NothingLeftBehind, SuccessIsComplete,
       WorkBelongsToAction, ScanBelongsToAction, QuietWhenInactive, EnrollGoesOn,
       FingerIsKnown, CaptureActions, ErrorWins

\* fp_image_device_cancel_action keeps the invariant: the device is deactivated.
LEMMA CancelActionKeeps ==
    ASSUME ImageInv, CancelAction PROVE ImageInv' /\ ErrorWins
<1>0. dev \in Device /\ Unfailed(dev)
    BY InvUnfailed
<1>1. CASE ~dev.active \/ dev.state = "DEACTIVATING"
    <2>1. dev' = dev
        BY <1>0, <1>1, DeactivateMakes DEF CancelAction
    <2> QED
        BY <1>1, <2>1
        DEF CancelAction, TypeOK, NoAssertionFails, OnlyIn, Fields, ImageInv,
            DriverAndStateAgree, OneScanAtATime, NothingLeftBehind, SuccessIsComplete,
            WorkBelongsToAction, ScanBelongsToAction, QuietWhenInactive, EnrollGoesOn,
            FingerIsKnown, CaptureActions, ErrorWins
<1>2. CASE dev.active /\ dev.state # "DEACTIVATING"
    <2>1. dev.state \in Working
        BY <1>0, <1>2 DEF ImageInv, DriverAndStateAgree, Working
    <2>2. Deactivates(dev, dev')
        BY <1>0, <1>2, <2>1, DeactivateMakes DEF CancelAction
    <2>3. TypeOK'
        BY <2>2 DEF Deactivates, OnlyIn, CancelAction, TypeOK, ImageInv
    <2> QED
        BY <1>2, <2>2, <2>3, UnfailedIsNoAssertion
        DEF Deactivates, CancelAction, OnlyIn, Fields, ImageInv, DriverAndStateAgree,
            OneScanAtATime, NothingLeftBehind, SuccessIsComplete, WorkBelongsToAction,
            ScanBelongsToAction, QuietWhenInactive, EnrollGoesOn, FingerIsKnown,
            CaptureActions, ErrorWins
<1> QED
    BY <1>1, <1>2

\* The return of a completed action keeps the invariant.
LEMMA ReturnInIdleKeeps ==
    ASSUME ImageInv, ReturnInIdle PROVE ImageInv' /\ ErrorWins
<1> DEFINE r == [dev EXCEPT !.result = "none"]
<1>1. OnlyIn({"result"}, dev, r) /\ r.result = "none" /\ r \in Device
    BY InvUnfailed, SetResult DEF OnlyIn
<1>2. dev' = [r EXCEPT !.reported = "none"]
    BY DEF ReturnInIdle
<1> HIDE DEF r
<1>3. OnlyIn({"reported"}, r, dev') /\ dev'.reported = "none"
    BY <1>1, <1>2, SetReported
<1>4. OnlyIn({"result", "reported"}, dev, dev') /\ dev'.result = "none"
    BY <1>1, <1>3 DEF OnlyIn, Fields
<1>5. TypeOK' /\ Unfailed(dev)'
    BY <1>4, InvUnfailed
    DEF ReturnInIdle, OnlyIn, Fields, TypeOK, Unfailed, ImageInv, Actions
<1> QED
    BY <1>3, <1>4, <1>5, UnfailedIsNoAssertion
    DEF ReturnInIdle, OnlyIn, Fields, ImageInv, DriverAndStateAgree, OneScanAtATime,
        NothingLeftBehind, SuccessIsComplete, WorkBelongsToAction, ScanBelongsToAction,
        QuietWhenInactive, EnrollGoesOn, FingerIsKnown, CaptureActions, ErrorWins

\* fpi_image_device_open_complete and _close_complete keep the invariant.
LEMMA OpenedOrClosedKeeps ==
    ASSUME ImageInv, NEW error \in {"none", "fatal"}, dev.driver \in {"opening", "closing"},
           dev' = OpenedOrClosed(dev, error), UNCHANGED <<action, is_open, cancel>>
    PROVE  ImageInv' /\ ErrorWins
<1> DEFINE c == Complete(dev, IF error = "none" THEN "ok" ELSE error)
           r == [c EXCEPT !.state = "INACTIVE"]
<1>1. /\ dev \in Device /\ Unfailed(dev) /\ dev.result = "none"
      /\ action \notin CaptureActions \union {"NONE"}
    BY InvUnfailed DEF ImageInv, DriverAndStateAgree, WorkBelongsToAction, CaptureActions
<1>2. OnlyIn({"result"}, dev, c) /\ c \in Device /\ c.result # "none"
    BY <1>1, CompleteMakes DEF Errors
<1>3. dev' = [c EXCEPT !.state = "INACTIVE", !.driver = "off"]
    BY DEF OpenedOrClosed
<1> HIDE DEF c
<1>4. OnlyIn({"state"}, c, r) /\ r.state = "INACTIVE" /\ r \in Device
    BY <1>2, SetState DEF OnlyIn, States
<1>5. dev' = [r EXCEPT !.driver = "off"]
    BY <1>3
<1> HIDE DEF r
<1>6. OnlyIn({"driver"}, r, dev') /\ dev'.driver = "off"
    <2>1. r \in Device /\ "off" \in DriverStates
        BY <1>4 DEF DriverStates
    <2> QED
        BY <1>5, <2>1, SetDriver
<1>7. OnlyIn({"result", "state", "driver"}, dev, dev')
    BY <1>2, <1>4, <1>6 DEF OnlyIn
<1>8. dev'.state = "INACTIVE" /\ dev'.result # "none"
    BY <1>2, <1>4, <1>6 DEF OnlyIn, Fields
<1>9. TypeOK' /\ Unfailed(dev)'
    BY <1>1, <1>7 DEF OnlyIn, Fields, TypeOK, ImageInv, Unfailed
<1> QED
    BY <1>1, <1>6, <1>7, <1>8, <1>9, UnfailedIsNoAssertion
    DEF OnlyIn, Fields, ImageInv, DriverAndStateAgree, OneScanAtATime, NothingLeftBehind,
        SuccessIsComplete, WorkBelongsToAction, ScanBelongsToAction, QuietWhenInactive,
        EnrollGoesOn, FingerIsKnown, CaptureActions, ErrorWins

\* fpi_image_device_activate_complete keeps the invariant: it fails the action or
\* waits for a finger.
LEMMA ActivateCompleteKeeps ==
    ASSUME ImageInv, NEW error \in {"none", "fatal", "cancelled"}, ActivateComplete(error)
    PROVE  ImageInv' /\ ErrorWins
<1>0. /\ dev \in Device /\ Unfailed(dev) /\ dev.state = "ACTIVATING" /\ ~dev.active
      /\ action \in CaptureActions /\ dev.result = "none"
    BY InvUnfailed
    DEF ActivateComplete, ImageInv, WorkBelongsToAction, DriverAndStateAgree
<1>1. CASE error = "none"
    <2> DEFINE i == ChangeState(dev, "IDLE")
               a == ChangeState(i, "AWAIT_FINGER_ON")
               r == [a EXCEPT !.active = TRUE]
    <2>1. OnlyIn({"state", "invalid"}, dev, i) /\ i.state = "IDLE" /\ Unfailed(i) /\ i \in Device
        BY <1>0, ChangeStateMakes DEF States, ValidTransitions, OnlyIn
    <2>2. dev' = [a EXCEPT !.active = TRUE, !.driver = "running"]
        BY <1>1 DEF ActivateComplete, ActivationEnded
    <2> HIDE DEF i
    <2>3. /\ OnlyIn({"state", "invalid"}, i, a) /\ a.state = "AWAIT_FINGER_ON"
          /\ Unfailed(a) /\ a \in Device
        BY <2>1, ChangeStateMakes DEF States, ValidTransitions, OnlyIn
    <2> HIDE DEF a
    <2>4. dev' = [r EXCEPT !.driver = "running"]
        BY <2>2
    <2>5. OnlyIn({"active"}, a, r) /\ r.active = TRUE /\ r \in Device
        BY <2>3, SetActive DEF OnlyIn
    <2> HIDE DEF r
    <2>6. OnlyIn({"driver"}, r, dev') /\ dev'.driver = "running"
        BY <2>4, <2>5, SetDriver DEF DriverStates
    <2>7. OnlyIn({"state", "invalid", "active", "driver"}, dev, dev')
        BY <2>1, <2>3, <2>5, <2>6 DEF OnlyIn
    <2>8. dev'.state = "AWAIT_FINGER_ON" /\ dev'.active = TRUE /\ Unfailed(dev)'
        BY <2>3, <2>5, <2>6 DEF OnlyIn, Fields, Unfailed
    <2>9. TypeOK'
        BY <2>7 DEF OnlyIn, TypeOK, ImageInv, ActivateComplete
    <2> QED
        BY <2>6, <2>7, <2>8, <2>9, UnfailedIsNoAssertion
        DEF ActivateComplete, OnlyIn, Fields, ImageInv, DriverAndStateAgree,
            OneScanAtATime, NothingLeftBehind, SuccessIsComplete, WorkBelongsToAction,
            ScanBelongsToAction, QuietWhenInactive, EnrollGoesOn, FingerIsKnown,
            CaptureActions, ErrorWins
<1>2. CASE error # "none"
    <2> DEFINE c == Complete(dev, error)
    <2>1. OnlyIn({"result"}, dev, c) /\ c.result = error /\ c \in Device
        BY <1>0, <1>2, CompleteMakes DEF Errors, CaptureActions
    <2>2. dev' = [c EXCEPT !.driver = "off"]
        BY <1>2 DEF ActivateComplete, ActivationEnded
    <2> HIDE DEF c
    <2>3. OnlyIn({"driver"}, c, dev') /\ dev'.driver = "off"
        BY <2>1, <2>2, SetDriver DEF DriverStates
    <2>4. OnlyIn({"result", "driver"}, dev, dev') /\ dev'.result = error
        BY <2>1, <2>3 DEF OnlyIn, Fields
    <2>5. TypeOK' /\ Unfailed(dev)'
        BY <1>0, <2>4 DEF OnlyIn, Fields, TypeOK, ImageInv, Unfailed, ActivateComplete
    <2> QED
        BY <1>0, <1>2, <2>3, <2>4, <2>5, UnfailedIsNoAssertion
        DEF ActivateComplete, OnlyIn, Fields, ImageInv, DriverAndStateAgree,
            OneScanAtATime, NothingLeftBehind, SuccessIsComplete, WorkBelongsToAction,
            ScanBelongsToAction, QuietWhenInactive, EnrollGoesOn, FingerIsKnown,
            CaptureActions, ErrorWins
<1> QED
    BY <1>1, <1>2

\* fpi_image_device_deactivate_complete keeps the invariant: the action completes
\* unless a scan is still pending.
LEMMA DeactivateCompleteKeeps ==
    ASSUME ImageInv, NEW error \in {"none", "fatal"}, DeactivateComplete(error)
    PROVE  ImageInv' /\ ErrorWins
<1> DEFINE c == ChangeState(dev, "INACTIVE")
           a == [c EXCEPT !.active = FALSE]
           f == [a EXCEPT !.finger_present = FALSE]
           d == Deactivated(dev)
<1>0. /\ dev \in Device /\ Unfailed(dev) /\ dev.state = "DEACTIVATING" /\ dev.active
      /\ action \in CaptureActions /\ dev.result = "none"
    BY InvUnfailed
    DEF DeactivateComplete, ImageInv, WorkBelongsToAction, DriverAndStateAgree
<1>1. /\ OnlyIn({"state", "invalid"}, dev, c) /\ c.state = "INACTIVE"
      /\ Unfailed(c) /\ c \in Device
    BY <1>0, ChangeStateMakes DEF States, ValidTransitions, OnlyIn
<1>2. d = [c EXCEPT !.active = FALSE, !.finger_present = FALSE, !.driver = "off"]
    BY DEF Deactivated
<1> HIDE DEF c, d
<1>3. OnlyIn({"active"}, c, a) /\ a.active = FALSE /\ a \in Device
    BY <1>1, SetActive DEF OnlyIn
<1>4. d = [f EXCEPT !.driver = "off"]
    BY <1>2
<1> HIDE DEF a
<1>5. OnlyIn({"finger_present"}, a, f) /\ f.finger_present = FALSE /\ f \in Device
    BY <1>3, SetFinger DEF OnlyIn
<1> HIDE DEF f
<1>6. "off" \in DriverStates
    BY DEF DriverStates
<1>7. OnlyIn({"driver"}, f, d) /\ d.driver = "off" /\ d \in Device
    BY <1>4, <1>5, <1>6, SetDriver DEF OnlyIn
<1>8. OnlyIn({"state", "invalid", "active", "finger_present", "driver"}, dev, d)
    BY <1>1, <1>3, <1>5, <1>7 DEF OnlyIn
<1>9. d.state = "INACTIVE" /\ d.active = FALSE /\ d.finger_present = FALSE /\ Unfailed(d)
    BY <1>1, <1>3, <1>5, <1>7 DEF OnlyIn, Fields, Unfailed
<1>10. /\ d.minutiae_scan_active => Keeps(d, dev', error)
       /\ ~d.minutiae_scan_active => Completes(d, dev', error)
       /\ Unfailed(dev)'
    <2>1. dev' = MaybeCompleteAction(d, error)
        BY DEF DeactivateComplete, d
    <2>2. d.result = "none"
        BY <1>0, <1>8 DEF OnlyIn, Fields
    <2>3. error \in Errors \union {"none"}
        BY DEF Errors
    <2> QED
        BY <1>0, <1>7, <1>9, <2>1, <2>2, <2>3, MaybeCompleteMakes
<1>11. CASE d.minutiae_scan_active
    <2>1. /\ OnlyIn({"state", "invalid", "active", "finger_present", "driver",
                     "action_error"}, dev, dev')
          /\ dev'.state = "INACTIVE" /\ dev'.active = FALSE /\ dev'.finger_present = FALSE
          /\ dev'.driver = "off"
        BY <1>7, <1>8, <1>9, <1>10, <1>11 DEF Keeps, OnlyIn, Fields
    <2>2. TypeOK'
        BY <2>1 DEF OnlyIn, TypeOK, ImageInv, DeactivateComplete
    <2> QED
        BY <1>8, <1>10, <1>11, <2>1, <2>2, UnfailedIsNoAssertion
        DEF DeactivateComplete, OnlyIn, Fields, ImageInv, DriverAndStateAgree,
            OneScanAtATime, NothingLeftBehind, SuccessIsComplete, WorkBelongsToAction,
            ScanBelongsToAction, QuietWhenInactive, EnrollGoesOn, FingerIsKnown,
            CaptureActions, ErrorWins
<1>12. CASE ~d.minutiae_scan_active
    <2>1. /\ OnlyIn({"state", "invalid", "active", "finger_present", "driver",
                     "action_error", "capture_image", "result"}, dev, dev')
          /\ dev'.state = "INACTIVE" /\ dev'.active = FALSE /\ dev'.finger_present = FALSE
          /\ dev'.driver = "off" /\ dev'.action_error = "none" /\ ~dev'.capture_image
          /\ dev'.result = Shown(d, KeptError(d, error)) /\ dev'.result # "none"
        BY <1>7, <1>8, <1>9, <1>10, <1>12 DEF Completes, OnlyIn, Fields
    <2>2. TypeOK'
        BY <2>1 DEF OnlyIn, TypeOK, ImageInv, DeactivateComplete
    <2>3. d.minutiae_scan_active = dev.minutiae_scan_active /\ d.action_error = dev.action_error
             /\ d.reported = dev.reported /\ d.enroll_stage = dev.enroll_stage
        BY <1>8 DEF OnlyIn, Fields
    <2>4. SuccessIsComplete'
        <3> SUFFICES ASSUME dev'.result = "ok" PROVE SuccessIsComplete'
            BY DEF SuccessIsComplete
        <3>1. KeptError(d, error) = "none" /\ cancel = "no" /\ Success(d) = "ok"
            BY <1>7, <2>1, KeptErrorIsError DEF Shown, Errors
        <3>2. dev.action_error = "none"
            BY <2>3, <3>1 DEF KeptError
        <3>3. dev'.enroll_stage = dev.enroll_stage /\ dev'.reported = dev.reported
            BY <2>1 DEF OnlyIn, Fields
        <3> QED
            BY <1>0, <2>3, <3>1, <3>2, <3>3
            DEF Success, Device, SuccessIsComplete, ImageInv, EnrollGoesOn,
                DeactivateComplete, CaptureActions
    <2>5. ErrorWins
        BY <1>7, <2>1, <2>3, KeptErrorIsError DEF ErrorWins, Shown, Errors
    <2>6. ~dev.minutiae_scan_active
        BY <1>12, <2>3
    <2> QED
        BY <1>0, <1>10, <2>1, <2>2, <2>4, <2>5, <2>6, UnfailedIsNoAssertion
        DEF DeactivateComplete, OnlyIn, Fields, ImageInv, DriverAndStateAgree,
            OneScanAtATime, NothingLeftBehind, WorkBelongsToAction, ScanBelongsToAction,
            QuietWhenInactive, EnrollGoesOn, FingerIsKnown, CaptureActions
<1> QED
    BY <1>11, <1>12

\* fpi_image_device_image_captured keeps the invariant: one scan starts.
LEMMA ImageCapturedKeeps ==
    ASSUME ImageInv, ImageCaptured PROVE ImageInv' /\ ErrorWins
<1> DEFINE d == [dev EXCEPT !.minutiae_scan_active = TRUE]
<1>1. OnlyIn({"minutiae_scan_active"}, dev, d) /\ d.minutiae_scan_active = TRUE /\ d \in Device
    BY InvUnfailed, SetScan DEF OnlyIn
<1>2. Unfailed(d) /\ d.state = "CAPTURE"
    BY <1>1, InvUnfailed DEF ImageCaptured, OnlyIn, Fields, Unfailed
<1>3. dev' = ChangeState(d, "AWAIT_FINGER_OFF")
    BY DEF ImageCaptured, Captured
<1> HIDE DEF d
<1>4. OnlyIn({"state", "invalid"}, d, dev') /\ dev'.state = "AWAIT_FINGER_OFF" /\ Unfailed(dev)'
    BY <1>1, <1>2, <1>3, ChangeStateMakes DEF States, ValidTransitions
<1>5. /\ OnlyIn({"minutiae_scan_active", "state", "invalid"}, dev, dev')
      /\ dev'.minutiae_scan_active = TRUE
    BY <1>1, <1>4 DEF OnlyIn, Fields
<1>6. TypeOK'
    BY <1>5 DEF ImageCaptured, OnlyIn, TypeOK, ImageInv
<1> QED
    BY <1>4, <1>5, <1>6, UnfailedIsNoAssertion
    DEF ImageCaptured, OnlyIn, Fields, ImageInv, DriverAndStateAgree, OneScanAtATime,
        NothingLeftBehind, SuccessIsComplete, WorkBelongsToAction, ScanBelongsToAction,
        QuietWhenInactive, EnrollGoesOn, FingerIsKnown, CaptureActions, ErrorWins

\* A report of the finger, in each state that answers to it.
LEMMA ReportFingerStatusKeeps ==
    ASSUME ImageInv, NEW present \in BOOLEAN, ReportFingerStatus(present)
    PROVE  ImageInv' /\ ErrorWins
<1> DEFINE seen == [dev EXCEPT !.finger_present = present]
           idle == ChangeState(seen, "IDLE")
<1>0. OnlyIn({"finger_present"}, dev, seen) /\ seen.finger_present = present /\ seen \in Device
    BY InvUnfailed, SetFinger DEF OnlyIn
<1>1. Unfailed(seen) /\ seen.state = dev.state /\ seen.active = dev.active
        /\ seen.minutiae_scan_active = dev.minutiae_scan_active /\ dev.active = TRUE
        /\ action \in CaptureActions /\ dev.result = "none"
    BY <1>0, InvUnfailed DEF OnlyIn, Fields, Unfailed, ReportFingerStatus, ImageInv,
       DriverAndStateAgree, WorkBelongsToAction, Device
<1>2. dev' = FingerStatus(dev, present)
    BY DEF ReportFingerStatus
<1>3. CASE present /\ dev.state = "AWAIT_FINGER_ON"
    <2>1. dev' = ChangeState(seen, "CAPTURE")
        BY <1>2, <1>3 DEF FingerStatus
    <2> HIDE DEF seen
    <2>2. OnlyIn({"state", "invalid"}, seen, dev') /\ dev'.state = "CAPTURE" /\ Unfailed(dev)'
        BY <1>0, <1>1, <1>3, <2>1, ChangeStateMakes DEF States, ValidTransitions
    <2>3. OnlyIn({"finger_present", "state", "invalid"}, dev, dev') /\ dev'.finger_present = TRUE
        BY <1>0, <1>3, <2>2 DEF OnlyIn, Fields
    <2>4. TypeOK'
        BY <2>3 DEF OnlyIn, TypeOK, ImageInv, ReportFingerStatus
    <2> QED
        BY <1>3, <2>2, <2>3, <2>4, UnfailedIsNoAssertion
        DEF ReportFingerStatus, OnlyIn, Fields, ImageInv, DriverAndStateAgree,
            OneScanAtATime, NothingLeftBehind, SuccessIsComplete, WorkBelongsToAction,
            ScanBelongsToAction, QuietWhenInactive, EnrollGoesOn, FingerIsKnown,
            CaptureActions, ErrorWins
<1>4. CASE ~present /\ dev.state = "AWAIT_FINGER_OFF"
    <2>1. dev' = FingerGone(seen)
        BY <1>1, <1>2, <1>4 DEF FingerStatus
    <2> HIDE DEF seen
    <2>2. OnlyIn({"state", "invalid"}, seen, idle) /\ idle.state = "IDLE" /\ Unfailed(idle)
            /\ idle \in Device
        <3>1. "IDLE" \in States /\ <<seen.state, "IDLE">> \in ValidTransitions
            BY <1>1, <1>4 DEF States, ValidTransitions
        <3> QED
            BY <1>0, <1>1, <3>1, ChangeStateMakes DEF OnlyIn
    <2>3. /\ idle.finger_present = FALSE /\ idle.active = TRUE
          /\ idle.minutiae_scan_active = dev.minutiae_scan_active
        BY <1>0, <1>1, <1>4, <2>2 DEF OnlyIn, Fields
    <2>4. dev' = IF action = "ENROLL" THEN EnrollMaybeAwaitFingerOn(idle)
                 ELSE Deactivate(idle, FALSE)
        BY <2>1 DEF FingerGone
    <2>5. dev.driver = "running"
        BY <1>4 DEF ImageInv, DriverAndStateAgree
    <2> HIDE DEF idle
    <2>6. CASE action = "ENROLL" /\ dev.minutiae_scan_active
        <3>1. dev' = idle
            BY <2>3, <2>4, <2>6 DEF EnrollMaybeAwaitFingerOn
        <3>2. OnlyIn({"finger_present", "state", "invalid"}, dev, dev')
            BY <1>0, <2>2, <3>1 DEF OnlyIn
        <3>3. TypeOK'
            BY <3>2 DEF OnlyIn, TypeOK, ImageInv, ReportFingerStatus
        <3> QED
            BY <2>2, <2>3, <2>5, <2>6, <3>1, <3>2, <3>3, UnfailedIsNoAssertion
            DEF ReportFingerStatus, OnlyIn, Fields, ImageInv, DriverAndStateAgree,
                OneScanAtATime, NothingLeftBehind, SuccessIsComplete, WorkBelongsToAction,
                ScanBelongsToAction, QuietWhenInactive, EnrollGoesOn, FingerIsKnown,
                CaptureActions, ErrorWins
    <2>7. CASE action = "ENROLL" /\ ~dev.minutiae_scan_active
        <3>1. dev' = ChangeState(idle, "AWAIT_FINGER_ON")
            BY <2>3, <2>4, <2>7 DEF EnrollMaybeAwaitFingerOn
        <3>2. /\ OnlyIn({"state", "invalid"}, idle, dev') /\ dev'.state = "AWAIT_FINGER_ON"
              /\ Unfailed(dev)'
            BY <2>2, <3>1, ChangeStateMakes DEF States, ValidTransitions
        <3>3. OnlyIn({"finger_present", "state", "invalid"}, dev, dev')
            BY <1>0, <2>2, <3>2 DEF OnlyIn
        <3>4. TypeOK'
            BY <3>3 DEF OnlyIn, TypeOK, ImageInv, ReportFingerStatus
        <3> QED
            BY <2>3, <2>5, <2>7, <3>2, <3>3, <3>4, UnfailedIsNoAssertion
            DEF ReportFingerStatus, OnlyIn, Fields, ImageInv, DriverAndStateAgree,
                OneScanAtATime, NothingLeftBehind, SuccessIsComplete, WorkBelongsToAction,
                ScanBelongsToAction, QuietWhenInactive, EnrollGoesOn, FingerIsKnown,
                CaptureActions, ErrorWins
    <2>8. CASE action # "ENROLL"
        <3>1. Deactivates(idle, dev')
            BY <2>2, <2>3, <2>4, <2>8, DeactivateMakes DEF Working
        <3>2. OnlyIn({"finger_present", "state", "invalid", "driver", "failed"}, dev, dev')
            BY <1>0, <2>2, <3>1 DEF OnlyIn, Deactivates
        <3>3. TypeOK'
            BY <3>2 DEF OnlyIn, TypeOK, ImageInv, ReportFingerStatus
        <3> QED
            BY <2>3, <2>5, <2>8, <3>1, <3>2, <3>3, UnfailedIsNoAssertion
            DEF Deactivates, ReportFingerStatus, OnlyIn, Fields, ImageInv,
                DriverAndStateAgree, OneScanAtATime, NothingLeftBehind, SuccessIsComplete,
                WorkBelongsToAction, ScanBelongsToAction, QuietWhenInactive, EnrollGoesOn,
                FingerIsKnown, CaptureActions, ErrorWins
    <2> QED
        BY <2>6, <2>7, <2>8
<1>5. CASE /\ ~(present /\ dev.state = "AWAIT_FINGER_ON")
           /\ ~(~present /\ dev.state = "AWAIT_FINGER_OFF")
    <2>1. dev' = seen
        BY <1>1, <1>2, <1>5 DEF FingerStatus
    <2>2. TypeOK'
        BY <1>0, <2>1 DEF TypeOK, ImageInv, ReportFingerStatus
    <2> HIDE DEF seen
    <2> QED
        BY <1>0, <1>1, <1>5, <2>1, <2>2, UnfailedIsNoAssertion
        DEF ReportFingerStatus, OnlyIn, Fields, ImageInv, DriverAndStateAgree,
            OneScanAtATime, NothingLeftBehind, SuccessIsComplete, WorkBelongsToAction,
            ScanBelongsToAction, QuietWhenInactive, EnrollGoesOn, FingerIsKnown,
            CaptureActions, ErrorWins
<1> QED
    BY <1>3, <1>4, <1>5

\* A step that aborts the operation, once its scan has ended or its match is reported.
LEMMA AbortKeeps ==
    ASSUME ImageInv, action \in CaptureActions, dev.result = "none",
           NEW d, OnlyIn({"minutiae_scan_active", "reported"}, dev, d),
           dev.driver \in {"running", "deactivating"} \/ dev.minutiae_scan_active,
           d.minutiae_scan_active = dev.minutiae_scan_active \/ ~d.minutiae_scan_active,
           NEW error \in Errors \union {"none"}, error # "none" \/ action # "ENROLL",
           d.minutiae_scan_active /\ action = "ENROLL" =>
               dev.driver = "deactivating" \/ cancel = "called",
           dev.driver = "off" => ~d.minutiae_scan_active,
           dev' = Aborted(d, error), UNCHANGED <<action, is_open, cancel>>
    PROVE  ImageInv' /\ ErrorWins
<1>1. /\ d \in Device /\ Unfailed(d) /\ d.state = dev.state /\ d.active = dev.active
      /\ d.result = "none" /\ d.action_error = dev.action_error /\ d.driver = dev.driver
      /\ d.enroll_stage = dev.enroll_stage
    BY InvUnfailed DEF OnlyIn, Fields, Unfailed
<1>2. d.active => d.state \in Working \union {"DEACTIVATING"}
    BY <1>1 DEF ImageInv, DriverAndStateAgree, Working
<1>3. error # "none" => KeptError(d, error) # "none"
    BY <1>1, KeptErrorIsError
<1>4. CASE d.active /\ d.state \in Working
    <2>1. /\ OnlyIn({"action_error", "state", "invalid", "driver", "failed"}, d, dev')
          /\ dev'.state = "DEACTIVATING" /\ dev'.driver = "deactivating" /\ Unfailed(dev)'
          /\ dev'.action_error = KeptError(d, error)
        BY <1>1, <1>2, <1>4, AbortedMakes
    <2>2. OnlyIn({"minutiae_scan_active", "reported", "action_error", "state", "invalid",
                  "driver", "failed"}, dev, dev')
          /\ dev'.minutiae_scan_active = d.minutiae_scan_active
        BY <2>1 DEF OnlyIn, Fields
    <2>3. TypeOK'
        BY <2>2 DEF OnlyIn, TypeOK, ImageInv
    <2>4. dev.driver = "running"
        BY <1>1, <1>4 DEF Working, ImageInv, DriverAndStateAgree
    <2> QED
        BY <1>1, <1>3, <1>4, <2>1, <2>2, <2>3, <2>4, UnfailedIsNoAssertion
        DEF OnlyIn, Fields, ImageInv, DriverAndStateAgree, OneScanAtATime,
            NothingLeftBehind, SuccessIsComplete, WorkBelongsToAction,
            ScanBelongsToAction, QuietWhenInactive, EnrollGoesOn, FingerIsKnown,
            CaptureActions, ErrorWins
<1>5. CASE (d.active /\ d.state = "DEACTIVATING") \/ (~d.active /\ d.minutiae_scan_active)
    <2>1. OnlyIn({"action_error"}, d, dev') /\ dev'.action_error = KeptError(d, error)
             /\ Unfailed(dev)'
        BY <1>1, <1>2, <1>5, AbortedMakes DEF Keeps
    <2>2. OnlyIn({"minutiae_scan_active", "reported", "action_error"}, dev, dev')
          /\ dev'.minutiae_scan_active = d.minutiae_scan_active
        BY <2>1 DEF OnlyIn, Fields
    <2>3. TypeOK'
        BY <2>2 DEF OnlyIn, TypeOK, ImageInv
    <2>4. dev.driver = "deactivating"
        BY <1>1, <1>5 DEF ImageInv, DriverAndStateAgree, ScanBelongsToAction
    <2> QED
        BY <1>1, <1>3, <1>5, <2>1, <2>2, <2>3, <2>4, UnfailedIsNoAssertion
        DEF OnlyIn, Fields, ImageInv, DriverAndStateAgree, OneScanAtATime,
            NothingLeftBehind, SuccessIsComplete, WorkBelongsToAction,
            ScanBelongsToAction, QuietWhenInactive, EnrollGoesOn, FingerIsKnown,
            CaptureActions, ErrorWins
<1>6. CASE ~d.active /\ ~d.minutiae_scan_active
    <2>1. /\ OnlyIn({"action_error", "capture_image", "result"}, d, dev')
          /\ dev'.action_error = "none" /\ ~dev'.capture_image
          /\ dev'.result = Shown(d, KeptError(d, error)) /\ dev'.result # "none"
          /\ Unfailed(dev)'
        BY <1>1, <1>2, <1>6, AbortedMakes DEF Completes
    <2>2. OnlyIn({"minutiae_scan_active", "reported", "action_error", "capture_image",
                  "result"}, dev, dev')
          /\ dev'.minutiae_scan_active = FALSE /\ dev'.reported = d.reported
        BY <1>6, <2>1, <1>1 DEF OnlyIn, Fields, Device
    <2>3. TypeOK'
        BY <2>2 DEF OnlyIn, TypeOK, ImageInv
    <2>4. SuccessIsComplete'
        <3> SUFFICES ASSUME dev'.result = "ok" PROVE SuccessIsComplete'
            BY DEF SuccessIsComplete
        <3>1. KeptError(d, error) = "none" /\ Success(d) = "ok"
            BY <1>1, <2>1, KeptErrorIsError DEF Shown, Errors
        <3> QED
            BY <1>1, <1>3, <2>2, <3>1
            DEF Success, Device, SuccessIsComplete, CaptureActions
    <2>5. ErrorWins
        BY <1>1, <2>1, KeptErrorIsError DEF ErrorWins, Shown, Errors
    <2>6. dev.driver = "off"
        BY <1>1, <1>6 DEF ImageInv, DriverAndStateAgree, ScanBelongsToAction
    <2> QED
        BY <1>1, <1>6, <2>1, <2>2, <2>3, <2>4, <2>5, <2>6, UnfailedIsNoAssertion
        DEF OnlyIn, Fields, ImageInv, DriverAndStateAgree, OneScanAtATime,
            NothingLeftBehind, WorkBelongsToAction, ScanBelongsToAction,
            QuietWhenInactive, EnrollGoesOn, FingerIsKnown, CaptureActions
<1> QED
    BY <1>2, <1>4, <1>5, <1>6

\* fpi_image_device_session_error keeps the invariant.
LEMMA SessionErrorKeeps ==
    ASSUME ~ErrorsDuringEnrollScan, ImageInv, NEW error \in {"fatal", "cancelled"},
           SessionError(error)
    PROVE  ImageInv' /\ ErrorWins
<1>1. CASE ActivateComplete(error)
    BY <1>1, ActivateCompleteKeeps
<1>2. CASE ~ActivateComplete(error)
    <2>1. /\ dev.driver \in {"running", "deactivating"}
          /\ ~(dev.minutiae_scan_active /\ action = "ENROLL")
          /\ dev' = Aborted(dev, error) /\ UNCHANGED <<action, is_open, cancel>>
        BY <1>2 DEF SessionError
    <2>2. /\ action \in CaptureActions /\ dev.result = "none"
          /\ OnlyIn({"minutiae_scan_active", "reported"}, dev, dev)
        BY <2>1, InvUnfailed
        DEF ImageInv, WorkBelongsToAction, DriverAndStateAgree, OnlyIn
    <2> QED
        BY <2>1, <2>2, AbortKeeps DEF Errors
<1> QED
    BY <1>1, <1>2

\* fpi_image_device_retry_scan keeps the invariant.
LEMMA RetryScanKeeps ==
    ASSUME ImageInv, RetryScan PROVE ImageInv' /\ ErrorWins
<1>0. /\ dev \in Device /\ Unfailed(dev) /\ dev.driver = "running"
      /\ dev.state \in {"AWAIT_FINGER_ON", "CAPTURE"} /\ ~dev.minutiae_scan_active
      /\ action \in CaptureActions /\ dev.result = "none"
      /\ UNCHANGED <<action, is_open, cancel>>
    BY InvUnfailed
    DEF RetryScan, ImageInv, WorkBelongsToAction, DriverAndStateAgree, OneScanAtATime
<1>1. CASE action = "ENROLL"
    <2>1. dev' = ChangeState(dev, "AWAIT_FINGER_OFF")
        BY <1>1 DEF RetryScan, Retried
    <2>2. "AWAIT_FINGER_OFF" \in States
             /\ <<dev.state, "AWAIT_FINGER_OFF">> \in ValidTransitions \union Allowed
        BY <1>0 DEF States, ValidTransitions, Allowed
    <2>3. /\ OnlyIn({"state", "invalid"}, dev, dev') /\ dev'.state = "AWAIT_FINGER_OFF"
          /\ Unfailed(dev)'
        BY <1>0, <2>1, <2>2, ChangeStateMakes
    <2>4. TypeOK'
        BY <1>0, <2>3 DEF OnlyIn, TypeOK, ImageInv
    <2> QED
        BY <1>0, <1>1, <2>3, <2>4, UnfailedIsNoAssertion
        DEF OnlyIn, Fields, ImageInv, DriverAndStateAgree, OneScanAtATime,
            NothingLeftBehind, SuccessIsComplete, WorkBelongsToAction,
            ScanBelongsToAction, QuietWhenInactive, EnrollGoesOn, FingerIsKnown,
            CaptureActions, ErrorWins
<1>2. CASE action = "IDENTIFY"
    <2> DEFINE d == IdentifyReport(dev, "retry")
               what == IF dev.reported = "none" THEN "retry" ELSE dev.reported
    <2>1. dev' = Aborted(d, "none")
        BY <1>2 DEF RetryScan, Retried
    <2>2. d = [dev EXCEPT !.reported = what] /\ what \in {"none", "retry", "result"}
        BY <1>0 DEF IdentifyReport, Device
    <2> HIDE DEF d, what
    <2>3. OnlyIn({"reported"}, dev, d)
        BY <1>0, <2>2, SetReported
    <2>4. OnlyIn({"minutiae_scan_active", "reported"}, dev, d)
            /\ d.minutiae_scan_active = dev.minutiae_scan_active
        BY <2>3 DEF OnlyIn, Fields
    <2> QED
        BY <1>0, <1>2, <2>1, <2>4, AbortKeeps
<1>3. CASE action = "CAPTURE"
    <2>1. dev' = Aborted(dev, "retry")
        BY <1>3 DEF RetryScan, Retried
    <2>2. OnlyIn({"minutiae_scan_active", "reported"}, dev, dev)
        BY <1>0 DEF OnlyIn
    <2> QED
        BY <1>0, <1>3, <2>1, <2>2, AbortKeeps DEF Errors
<1> QED
    BY <1>0, <1>1, <1>2, <1>3 DEF CaptureActions

\* The end of a scan that lets its identify or capture operation complete.
LEMMA ScanCompletes ==
    ASSUME ImageInv, dev.minutiae_scan_active, action \in {"IDENTIFY", "CAPTURE"},
           NEW d, OnlyIn({"minutiae_scan_active", "reported", "capture_image"}, dev, d),
           ~d.minutiae_scan_active, NEW error \in Errors \union {"none"},
           dev' = MaybeCompleteAction(d, error), UNCHANGED <<action, is_open, cancel>>
    PROVE  ImageInv' /\ ErrorWins
<1>1. /\ d \in Device /\ Unfailed(d) /\ d.state = dev.state /\ d.active = dev.active
      /\ d.result = "none" /\ d.action_error = dev.action_error /\ d.driver = dev.driver
      /\ d.enroll_stage = dev.enroll_stage /\ dev.result = "none" /\ action \in CaptureActions
    BY InvUnfailed
    DEF OnlyIn, Fields, Unfailed, ImageInv, ScanBelongsToAction, CaptureActions
<1>2. /\ d.active => Keeps(d, dev', error)
      /\ ~d.active => Completes(d, dev', error)
      /\ Unfailed(dev)'
    BY <1>1, MaybeCompleteMakes
<1>3. CASE d.active
    <2>1. OnlyIn({"minutiae_scan_active", "reported", "capture_image", "action_error"}, dev, dev')
          /\ ~dev'.minutiae_scan_active
        BY <1>2, <1>3 DEF Keeps, OnlyIn, Fields
    <2>2. TypeOK'
        BY <2>1 DEF OnlyIn, TypeOK, ImageInv
    <2> QED
        BY <1>1, <1>2, <1>3, <2>1, <2>2, UnfailedIsNoAssertion
        DEF OnlyIn, Fields, ImageInv, DriverAndStateAgree, OneScanAtATime,
            NothingLeftBehind, SuccessIsComplete, WorkBelongsToAction,
            ScanBelongsToAction, QuietWhenInactive, EnrollGoesOn, FingerIsKnown,
            CaptureActions, ErrorWins
<1>4. CASE ~d.active
    <2>1. /\ OnlyIn({"minutiae_scan_active", "reported", "action_error", "capture_image",
                     "result"}, dev, dev')
          /\ ~dev'.minutiae_scan_active /\ dev'.reported = d.reported
          /\ dev'.action_error = "none" /\ ~dev'.capture_image
          /\ dev'.result = Shown(d, KeptError(d, error)) /\ dev'.result # "none"
        BY <1>2, <1>4 DEF Completes, OnlyIn, Fields
    <2>2. TypeOK'
        BY <2>1 DEF OnlyIn, TypeOK, ImageInv
    <2>3. SuccessIsComplete'
        <3> SUFFICES ASSUME dev'.result = "ok" PROVE SuccessIsComplete'
            BY DEF SuccessIsComplete
        <3>1. Success(d) = "ok"
            BY <1>1, <2>1, KeptErrorIsError DEF Shown, Errors
        <3> QED
            BY <1>1, <2>1, <3>1 DEF Success, Device, SuccessIsComplete
    <2>4. ErrorWins
        BY <1>1, <2>1, KeptErrorIsError DEF ErrorWins, Shown, Errors
    <2>5. dev.driver = "off"
        BY <1>1, <1>4 DEF ImageInv, DriverAndStateAgree, ScanBelongsToAction
    <2> QED
        BY <1>1, <1>2, <1>4, <2>1, <2>2, <2>3, <2>4, <2>5, UnfailedIsNoAssertion
        DEF OnlyIn, Fields, ImageInv, DriverAndStateAgree, OneScanAtATime,
            NothingLeftBehind, WorkBelongsToAction, ScanBelongsToAction,
            QuietWhenInactive, EnrollGoesOn, FingerIsKnown, CaptureActions
<1> QED
    BY <1>3, <1>4

\* The end of the scan of a stage, of an operation that was not cancelled.
LEMMA StageKeeps ==
    ASSUME ImageInv, dev.minutiae_scan_active, action = "ENROLL", cancel = "no",
           NEW d, OnlyIn({"minutiae_scan_active"}, dev, d), ~d.minutiae_scan_active,
           NEW outcome \in {"print", "retry", "match_failed"},
           dev' = EnrollProgress(d, outcome), UNCHANGED <<action, is_open, cancel>>
    PROVE  ImageInv' /\ ErrorWins
<1> DEFINE staged == IF outcome = "print" THEN [d EXCEPT !.enroll_stage = d.enroll_stage + 1]
                     ELSE d
<1>1. /\ d \in Device /\ dev.active = TRUE /\ dev.driver = "running" /\ dev.result = "none"
      /\ dev.state \in {"AWAIT_FINGER_OFF", "IDLE"}
      /\ dev.state = "AWAIT_FINGER_OFF" => dev.finger_present
      /\ dev.enroll_stage \in Nat /\ dev.enroll_stage < NrStages /\ Unfailed(dev)
    BY InvUnfailed
    DEF OnlyIn, ImageInv, EnrollGoesOn, DriverAndStateAgree, OneScanAtATime,
        FingerIsKnown, ScanBelongsToAction, Device
<1>2. /\ OnlyIn({"minutiae_scan_active", "enroll_stage"}, dev, staged)
      /\ ~staged.minutiae_scan_active
      /\ staged.enroll_stage = IF outcome = "print" THEN dev.enroll_stage + 1
                               ELSE dev.enroll_stage
    <2>1. d.enroll_stage = dev.enroll_stage /\ d.enroll_stage + 1 \in Nat
        BY <1>1 DEF OnlyIn, Fields
    <2>2. CASE outcome = "print"
        <3>1. staged = [d EXCEPT !.enroll_stage = d.enroll_stage + 1]
            BY <2>2
        <3>2. OnlyIn({"enroll_stage"}, d, staged) /\ staged.enroll_stage = d.enroll_stage + 1
            BY <1>1, <2>1, <3>1, SetStage
        <3> HIDE DEF staged
        <3> QED
            BY <2>1, <2>2, <3>2 DEF OnlyIn, Fields
    <2>3. CASE outcome # "print"
        BY <2>1, <2>3 DEF OnlyIn, Fields
    <2> QED
        BY <2>2, <2>3
<1>3. dev' = IF staged.enroll_stage # NrStages THEN EnrollMaybeAwaitFingerOn(staged)
             ELSE Deactivate(MaybeCompleteAction(
                      Assert(staged, outcome = "print", "use_after_free"), "none"), FALSE)
    BY DEF EnrollProgress
<1> HIDE DEF staged
<1>4. /\ staged \in Device /\ Unfailed(staged) /\ staged.state = dev.state
      /\ staged.active = TRUE /\ staged.finger_present = dev.finger_present
    BY <1>1, <1>2 DEF OnlyIn, Fields, Unfailed
<1>5. CASE staged.enroll_stage # NrStages
    <2>1. staged.enroll_stage < NrStages
        BY <1>1, <1>2, <1>5, NrStagesAssumption
    <2>2. CASE dev.finger_present
        <3>1. dev' = staged
            BY <1>3, <1>4, <1>5, <2>2 DEF EnrollMaybeAwaitFingerOn
        <3>2. TypeOK'
            BY <1>4, <3>1 DEF TypeOK, ImageInv
        <3> QED
            BY <1>1, <1>2, <1>4, <2>1, <2>2, <3>1, <3>2, UnfailedIsNoAssertion
            DEF OnlyIn, Fields, ImageInv, DriverAndStateAgree, OneScanAtATime,
                NothingLeftBehind, SuccessIsComplete, WorkBelongsToAction,
                ScanBelongsToAction, QuietWhenInactive, EnrollGoesOn, FingerIsKnown,
                CaptureActions, ErrorWins
    <2>3. CASE ~dev.finger_present
        <3>1. dev' = ChangeState(staged, "AWAIT_FINGER_ON") /\ staged.state = "IDLE"
            BY <1>1, <1>2, <1>3, <1>4, <1>5, <2>3 DEF EnrollMaybeAwaitFingerOn
        <3>2. "AWAIT_FINGER_ON" \in States
                 /\ <<staged.state, "AWAIT_FINGER_ON">> \in ValidTransitions
            BY <3>1 DEF States, ValidTransitions
        <3>3. /\ OnlyIn({"state", "invalid"}, staged, dev') /\ dev'.state = "AWAIT_FINGER_ON"
              /\ Unfailed(dev)'
            BY <1>4, <3>1, <3>2, ChangeStateMakes
        <3>4. /\ OnlyIn({"minutiae_scan_active", "enroll_stage", "state", "invalid"}, dev, dev')
              /\ ~dev'.minutiae_scan_active /\ dev'.enroll_stage = staged.enroll_stage
            BY <1>2, <3>3 DEF OnlyIn, Fields
        <3>5. TypeOK'
            BY <3>4 DEF OnlyIn, TypeOK, ImageInv
        <3> QED
            BY <1>1, <2>1, <3>3, <3>4, <3>5, UnfailedIsNoAssertion
            DEF OnlyIn, Fields, ImageInv, DriverAndStateAgree, OneScanAtATime,
                NothingLeftBehind, SuccessIsComplete, WorkBelongsToAction,
                ScanBelongsToAction, QuietWhenInactive, EnrollGoesOn, FingerIsKnown,
                CaptureActions, ErrorWins
    <2> QED
        BY <2>2, <2>3
<1>6. CASE staged.enroll_stage = NrStages
    <2> DEFINE m == MaybeCompleteAction(staged, "none")
    <2>1. outcome = "print"
        BY <1>1, <1>2, <1>6, NrStagesAssumption
    <2>2. dev' = Deactivate(m, FALSE)
        BY <1>3, <1>6, <2>1 DEF Assert
    <2>3. Keeps(staged, m, "none") /\ Unfailed(m)
        BY <1>4, MaybeCompleteMakes DEF Errors
    <2> HIDE DEF m
    <2>4. m \in Device /\ m.active = TRUE /\ m.state = dev.state
        BY <1>4, <2>3 DEF Keeps, OnlyIn, Fields
    <2>5. Deactivates(m, dev')
        BY <1>1, <2>2, <2>3, <2>4, DeactivateMakes DEF Working
    <2>6. /\ OnlyIn({"minutiae_scan_active", "enroll_stage", "action_error", "state", "invalid",
                     "driver", "failed"}, dev, dev')
          /\ ~dev'.minutiae_scan_active /\ dev'.enroll_stage = NrStages
        BY <1>2, <1>6, <2>3, <2>5 DEF Keeps, Deactivates, OnlyIn, Fields
    <2>7. TypeOK'
        BY <2>6 DEF OnlyIn, TypeOK, ImageInv
    <2> QED
        BY <1>1, <2>5, <2>6, <2>7, UnfailedIsNoAssertion
        DEF Deactivates, OnlyIn, Fields, ImageInv, DriverAndStateAgree, OneScanAtATime,
            NothingLeftBehind, SuccessIsComplete, WorkBelongsToAction,
            ScanBelongsToAction, QuietWhenInactive, EnrollGoesOn, FingerIsKnown,
            CaptureActions, ErrorWins
<1> QED
    BY <1>5, <1>6

\* The end of a minutiae detection keeps the invariant, also when the device was
\* deactivated meanwhile.
LEMMA MinutiaeDetectedKeeps ==
    ASSUME ImageInv, NEW outcome \in Outcomes, MinutiaeDetected(outcome)
    PROVE  ImageInv' /\ ErrorWins
<1> DEFINE d == [dev EXCEPT !.minutiae_scan_active = FALSE]
<1>1. /\ OnlyIn({"minutiae_scan_active"}, dev, d) /\ d.minutiae_scan_active = FALSE
      /\ d \in Device
    BY InvUnfailed, SetScan DEF OnlyIn
<1>2. dev' = Scanned(d, outcome) /\ UNCHANGED <<action, is_open, cancel>>
    BY DEF MinutiaeDetected
<1> HIDE DEF d
<1>3. OnlyIn({"minutiae_scan_active", "reported"}, dev, d)
    BY <1>1 DEF OnlyIn
<1>4. dev.minutiae_scan_active /\ action \in CaptureActions /\ dev.result = "none"
    BY DEF MinutiaeDetected, ImageInv, ScanBelongsToAction
<1>5. CASE cancel # "no"
    <2>1. dev' = Aborted(d, "cancelled")
        BY <1>2, <1>5 DEF Scanned
    <2> QED
        BY <1>1, <1>2, <1>3, <1>4, <2>1, AbortKeeps DEF Errors
<1>6. CASE cancel = "no" /\ action = "CAPTURE"
    <2> DEFINE c == [d EXCEPT !.capture_image = TRUE]
               error == IF outcome = "retry" THEN "retry" ELSE "none"
    <2>1. dev' = MaybeCompleteAction(c, error)
        BY <1>2, <1>6 DEF Scanned
    <2>2. OnlyIn({"capture_image"}, d, c)
        BY <1>1, SetImage
    <2> HIDE DEF c
    <2>3. /\ OnlyIn({"minutiae_scan_active", "reported", "capture_image"}, dev, c)
          /\ ~c.minutiae_scan_active
        BY <1>1, <2>2 DEF OnlyIn, Fields
    <2> QED
        BY <1>2, <1>4, <1>6, <2>1, <2>3, ScanCompletes DEF Errors
<1>7. CASE cancel = "no" /\ action # "CAPTURE" /\ outcome = "add_failed"
    <2>1. dev' = Aborted(d, "fatal")
        BY <1>2, <1>7 DEF Scanned
    <2> QED
        BY <1>1, <1>2, <1>3, <1>4, <2>1, AbortKeeps DEF Errors
<1>8. CASE cancel = "no" /\ action = "ENROLL" /\ outcome # "add_failed"
    <2>1. dev' = EnrollProgress(d, outcome)
        BY <1>2, <1>8 DEF Scanned
    <2>2. outcome \in {"print", "retry", "match_failed"}
        BY <1>8 DEF Outcomes
    <2> QED
        BY <1>1, <1>2, <1>4, <1>8, <2>1, <2>2, StageKeeps
<1>9. CASE cancel = "no" /\ action = "IDENTIFY" /\ outcome # "add_failed"
    <2>1. dev' = IdentifyMatched(d, outcome)
        BY <1>2, <1>9 DEF Scanned
    <2>2. CASE outcome = "match_failed"
        <3>1. dev' = MaybeCompleteAction(d, "fatal")
            BY <2>1, <2>2 DEF IdentifyMatched
        <3>2. OnlyIn({"minutiae_scan_active", "reported", "capture_image"}, dev, d)
            BY <1>1 DEF OnlyIn
        <3> QED
            BY <1>1, <1>2, <1>4, <1>9, <3>1, <3>2, ScanCompletes DEF Errors
    <2>3. CASE outcome # "match_failed"
        <3> DEFINE what == IF d.reported = "none"
                           THEN (IF outcome = "retry" THEN "retry" ELSE "result")
                           ELSE d.reported
                   r == IdentifyReport(d, IF outcome = "retry" THEN "retry" ELSE "result")
        <3>1. dev' = MaybeCompleteAction(r, "none")
            BY <2>1, <2>3 DEF IdentifyMatched
        <3>2. r = [d EXCEPT !.reported = what] /\ what \in {"none", "retry", "result"}
            BY <1>1 DEF IdentifyReport, Device
        <3> HIDE DEF r, what
        <3>3. OnlyIn({"reported"}, d, r)
            BY <1>1, <3>2, SetReported
        <3>4. /\ OnlyIn({"minutiae_scan_active", "reported", "capture_image"}, dev, r)
              /\ ~r.minutiae_scan_active
            BY <1>1, <3>3 DEF OnlyIn, Fields
        <3> QED
            BY <1>2, <1>4, <1>9, <3>1, <3>4, ScanCompletes
    <2> QED
        BY <2>2, <2>3
<1> QED
    BY <1>4, <1>5, <1>6, <1>7, <1>8, <1>9 DEF CaptureActions, ImageInv, TypeOK

\* Every step keeps the invariant, and no completion replaces an error that was met.
LEMMA NextKeepsImageInv ==
    ASSUME ~ErrorsDuringEnrollScan, ImageInv, [Next]_vars PROVE ImageInv' /\ (Next => ErrorWins)
<1>1. CASE User
    BY <1>1, OpenKeeps, CloseKeeps, StartKeeps, UserCancelKeeps DEF User
<1>2. CASE MainLoop
    BY <1>2, CancelActionKeeps, ReturnInIdleKeeps, MinutiaeDetectedKeeps DEF MainLoop
<1>3. CASE Driver
    <2>1. ASSUME NEW error \in {"none", "fatal"}, OpenComplete(error)
          PROVE  ImageInv' /\ ErrorWins
        BY <2>1, OpenedOrClosedKeeps DEF OpenComplete
    <2>2. ASSUME NEW error \in {"none", "fatal"}, CloseComplete(error)
          PROVE  ImageInv' /\ ErrorWins
        BY <2>2, OpenedOrClosedKeeps DEF CloseComplete
    <2>3. ASSUME NEW error \in {"none", "fatal"}, ActivateComplete(error)
          PROVE  ImageInv' /\ ErrorWins
        BY <2>3, ActivateCompleteKeeps
    <2> QED
        BY <1>3, <2>1, <2>2, <2>3, DeactivateCompleteKeeps, ReportFingerStatusKeeps,
           ImageCapturedKeeps, RetryScanKeeps, SessionErrorKeeps DEF Driver
<1>4. CASE UNCHANGED vars
    BY <1>4
    DEF vars, TypeOK, NoAssertionFails, OnlyIn, Fields, ImageInv, DriverAndStateAgree,
        OneScanAtATime, NothingLeftBehind, SuccessIsComplete, WorkBelongsToAction,
        ScanBelongsToAction, QuietWhenInactive, EnrollGoesOn, FingerIsKnown,
        CaptureActions, ErrorWins
<1> QED
    BY <1>1, <1>2, <1>3, <1>4 DEF Next

\* The invariant holds in every behaviour.
LEMMA ImageInvariant == ~ErrorsDuringEnrollScan => (Spec => []ImageInv)
<1> SUFFICES ASSUME ~ErrorsDuringEnrollScan PROVE Spec => []ImageInv
    OBVIOUS
<1>1. ImageInv /\ [Next]_vars => ImageInv'
    BY NextKeepsImageInv
<1> QED
    BY <1>1, ImageInitially, PTL DEF Spec

\* Library, driver and detection thread stay where the state of the device says
\* (fpi_image_device_activate, _deactivate and fp_image_device_change_state), for any
\* number of enroll stages.
THEOREM StateIsConsistentCorrect ==
    ~ErrorsDuringEnrollScan => (Spec => []StateIsConsistent)
<1>1. ImageInv => StateIsConsistent
    BY DEF ImageInv, StateIsConsistent
<1> QED
    BY <1>1, ImageInvariant, PTL

\* No assertion of fpi-image-device.c fails, no action completes twice and no freed
\* error is used.
THEOREM NoAssertionFailsCorrect ==
    ~ErrorsDuringEnrollScan => (Spec => []NoAssertionFails)
<1>1. ImageInv => NoAssertionFails
    BY DEF ImageInv
<1> QED
    BY <1>1, ImageInvariant, PTL

\* An action that succeeds has enrolled all its stages, reported a match or got its
\* image (fp_image_device_maybe_complete_action).
THEOREM SuccessIsCompleteCorrect ==
    ~ErrorsDuringEnrollScan => (Spec => []SuccessIsComplete)
<1>1. ImageInv => SuccessIsComplete
    BY DEF ImageInv
<1> QED
    BY <1>1, ImageInvariant, PTL

\* An action ends with the first fatal error or cancellation it met.
THEOREM FirstErrorWinsCorrect ==
    ~ErrorsDuringEnrollScan => (Spec => FirstErrorWins)
<1> SUFFICES ASSUME ~ErrorsDuringEnrollScan PROVE Spec => FirstErrorWins
    OBVIOUS
<1>1. ImageInv /\ [Next]_vars => [ErrorWins]_vars
    BY NextKeepsImageInv
<1>2. [][ErrorWins]_vars => FirstErrorWins
    BY PTL DEF FirstErrorWins, ErrorWins
<1> QED
    BY <1>1, <1>2, ImageInvariant, PTL DEF Spec

\* An operation goes on without an error until its image is there.
ErrorInv ==
    dev.driver = "running" /\ (action = "ENROLL" \/ dev.state # "AWAIT_FINGER_OFF")
        => dev.action_error = "none"

\* No operation of a capture runs the driver, whose data rest.
OutsideCalls ==
    CASE dev.driver = "off" -> {<<>>, Call("change_state", "INACTIVE")}
      [] dev.driver = "opening" ->
             {None("open"), Call("open_complete", "none"), Call("open_complete", "fatal")}
      [] dev.driver = "closing" ->
             {None("close"), Call("close_complete", "none"), Call("close_complete", "fatal")}
      [] dev.driver = "activating" -> {Vfuncs("ACTIVATING"), None("activate")}
      [] OTHER -> {}
Outside == calls \in OutsideCalls

-----------------------------------------------------------------------------
NbPolling == {"WAIT_PRINT", "REQUEST_PRINT", "CHECK_PRINT"}
NbReading == {"READ_PRINT_PRESTART", "READ_PRINT_START", "READ_PRINT_POLL"}
\* What nb1010 keeps: the state of its machine, whether it is to stop, the lines read.
NbData == [ssm : NbPolling \union NbReading \union {"none"}, reply : BOOLEAN,
           deactivating : BOOLEAN, partial_received : Nat]

\* The machine ended for the cancellation of an action that is not deactivated yet.
NbCancelled == drv.ssm = "none" /\ cancel # "no"

\* nb1010 polls for a finger, reads the print, or rests between two stages.
NbRuns ==
    /\ calls = <<>> /\ dev.driver = "running" /\ drv.deactivating = FALSE
    /\ \/ dev.state = "AWAIT_FINGER_ON" /\ (drv.ssm \in NbPolling \/ NbCancelled)
       \/ dev.state = "CAPTURE" /\ (drv.ssm \in NbReading \/ NbCancelled)
       \/ dev.state = "IDLE" /\ drv.ssm = "none"

\* No stage is detected or to be repeated.
NbUnscanned == dev.minutiae_scan_active = FALSE /\ dev.action_error # "retry"

\* Its machine is still to end before the driver can say that it is deactivated.
NbStops ==
    /\ calls = <<>> /\ dev.driver = "deactivating" /\ drv.deactivating = TRUE
    /\ drv.ssm # "none" /\ NbUnscanned

\* Calls to the library are to be made.
NbReports ==
    /\ dev.driver = "running" /\ drv.deactivating = FALSE
    /\ \/ /\ calls \in {None("image_captured") \o Call("report_finger_status", "off")}
          /\ dev.state = "CAPTURE" /\ drv.ssm = "none"
       \/ /\ calls \in {Call("change_state", "AWAIT_FINGER_OFF")
                            \o Call("report_finger_status", "off"),
                        Call("report_finger_status", "off")}
          /\ dev.state = "AWAIT_FINGER_OFF" /\ drv.ssm = "none"
       \/ /\ calls = Call("report_finger_status", "on")
          /\ dev.state = "AWAIT_FINGER_ON" /\ drv.ssm = "READ_PRINT_PRESTART"
       \/ /\ \/ calls = Call("session_error", "fatal")
             \/ calls = Call("session_error", "cancelled") /\ cancel # "no"
          /\ dev.state \in {"AWAIT_FINGER_ON", "CAPTURE"} /\ drv.ssm = "none"

\* The driver is to be told the state.
NbIsTold ==
    /\ dev.driver = "running" /\ drv.deactivating = FALSE
    /\ \/ /\ calls = Call("change_state", "AWAIT_FINGER_ON")
          /\ dev.state = "AWAIT_FINGER_ON" /\ drv.ssm = "none"
       \/ /\ calls = Call("change_state", "CAPTURE")
          /\ dev.state = "CAPTURE" /\ drv.ssm = "READ_PRINT_PRESTART"
       \/ /\ calls = Call("change_state", "IDLE")
          /\ dev.state = "IDLE" /\ drv.ssm = "none"

\* The driver is to be deactivated or has been.
NbIsStopped ==
    /\ dev.driver = "deactivating"
    /\ \/ /\ calls \in {Vfuncs("DEACTIVATING"), None("deactivate")}
          /\ drv.ssm # "none" => NbUnscanned
       \/ /\ \/ calls \in {Call("deactivate_complete", "none"),
                           Call("deactivate_complete", "fatal")}
             \/ calls = Call("deactivate_complete", "cancelled") /\ cancel # "no" /\ NbUnscanned
          /\ drv.ssm = "none"

\* activate_complete is to be called.
NbIsActivated ==
    /\ dev.driver = "activating" /\ calls = None("activate_complete")
    /\ drv.ssm = "none" /\ drv.deactivating = FALSE

NbInv ==
    /\ drv \in NbData
    /\ \/ Outside /\ drv.ssm = "none"
       \/ NbRuns \/ NbStops \/ NbReports \/ NbIsTold \/ NbIsStopped \/ NbIsActivated

-----------------------------------------------------------------------------
ElanScanning == ElanCalibrating \union {"CHECK_STATUS"} \union ElanCapturing \union {"NOT_READY"}
\* What elan keeps, with the state of the one machine that runs.
ElanData == [state : ElanActivating \union ElanScanning \union {"none", "STOP"},
             reading : BOOLEAN, active : BOOLEAN, deactivating : BOOLEAN, num_frames : Nat,
             calib_atts_left : Int, calib_status : {0, 1, 3}, failed : {{}}]

\* No machine runs.
ElanRests == drv.state = "none" /\ drv.active = FALSE /\ drv.deactivating = FALSE
ElanActs(states) == drv.state \in states /\ drv.active = TRUE
ElanEnded == drv.state = "none" /\ drv.active = FALSE

\* The activation machine runs, or its outcome is to be reported.
ElanActivates ==
    /\ dev.driver = "activating" /\ drv.active = FALSE /\ drv.deactivating = FALSE
    /\ \/ calls = <<>> /\ drv.state \in ElanActivating
       \/ /\ drv.state = "none"
          /\ \E error \in {"none", "fatal", "cancelled"} : calls = Call("activate_complete", error)

\* elan calibrates and waits for a finger, reads frames, stops or rests.
ElanRuns ==
    /\ calls = <<>> /\ dev.driver = "running" /\ drv.deactivating = FALSE
    /\ \/ /\ dev.state = "AWAIT_FINGER_ON"
          /\ ElanActs(ElanScanning \ {"READ_DATA"}) /\ drv.num_frames = 0
       \/ dev.state = "CAPTURE" /\ ElanActs({"READ_DATA", "WAIT_FINGER", "NOT_READY"})
       \/ /\ dev.state \in {"AWAIT_FINGER_ON", "CAPTURE"} /\ cancel # "no"
          /\ ElanActs({"STOP"}) \/ ElanEnded
       \/ dev.state = "AWAIT_FINGER_OFF" /\ ElanActs({"STOP"})
       \/ dev.state = "IDLE" /\ ElanEnded

\* A scan that goes on is one of a cancelled action.
ElanGoesOn ==
    \/ ElanActs({"STOP"})
    \/ ElanActs(ElanScanning) /\ cancel # "no" /\ dev.minutiae_scan_active = FALSE

\* Its machine is still to end before the driver can say that it is deactivated.
ElanStops ==
    /\ calls = <<>> /\ dev.driver = "deactivating" /\ drv.deactivating = TRUE /\ ElanGoesOn

\* An error now would meet the detection of an enroll stage.
Enrolling == dev.minutiae_scan_active /\ action = "ENROLL"

\* Calls to the library are to be made.
ElanReports ==
    \/ /\ dev.driver = "running" /\ drv.deactivating = FALSE
       /\ \/ /\ calls = None("image_captured")
             /\ dev.state = "CAPTURE" /\ ElanActs({"STOP"})
          \/ /\ calls = None("retry_scan")
             /\ dev.state \in {"AWAIT_FINGER_ON", "CAPTURE"} /\ ElanActs({"STOP"})
          \/ /\ calls = Call("report_finger_status", "on")
             /\ dev.state \in {"AWAIT_FINGER_ON", "CAPTURE"} /\ ElanActs({"READ_DATA"})
          \/ /\ calls = Call("report_finger_status", "off") /\ ElanEnded
             /\ \/ dev.state = "AWAIT_FINGER_OFF"
                \/ dev.state \in {"AWAIT_FINGER_ON", "CAPTURE"} /\ cancel # "no"
          \/ /\ \/ calls = Call("session_error", "fatal")
                \/ calls = Call("session_error", "cancelled") /\ cancel # "no"
             /\ dev.state \in {"AWAIT_FINGER_ON", "CAPTURE"} /\ ElanActs({"STOP"})
          \/ calls = Call("session_error", "fatal") /\ ElanEnded /\ ~Enrolling
    \/ /\ dev.driver = "deactivating" /\ drv.deactivating = TRUE /\ ElanActs({"STOP"})
       /\ \/ calls = Call("session_error", "fatal")
          \/ calls = Call("session_error", "cancelled") /\ cancel # "no"
       /\ dev.minutiae_scan_active = FALSE

\* The driver is to be told the state.
ElanIsTold ==
    /\ dev.driver = "running" /\ drv.deactivating = FALSE
    /\ \/ /\ calls = Call("change_state", "AWAIT_FINGER_ON")
          /\ dev.state = "AWAIT_FINGER_ON" /\ ElanEnded
       \/ /\ calls = Call("change_state", "CAPTURE")
          /\ dev.state = "CAPTURE" /\ ElanActs({"READ_DATA"})
       \/ /\ calls = Call("change_state", "AWAIT_FINGER_OFF")
          /\ dev.state = "AWAIT_FINGER_OFF" /\ ElanActs({"STOP"})
       \/ /\ calls = Call("change_state", "IDLE")
          /\ dev.state = "IDLE" /\ ElanEnded

\* The driver is to be deactivated or has been.
ElanIsStopped ==
    /\ dev.driver = "deactivating" /\ drv.deactivating = FALSE
    /\ \/ /\ calls \in {Vfuncs("DEACTIVATING"), None("deactivate")}
          /\ ElanGoesOn \/ ElanEnded
       \/ /\ calls \in {Call("deactivate_complete", "none"), Call("deactivate_complete", "fatal")}
          /\ ElanEnded

ElanInv ==
    /\ drv \in ElanData
    /\ \/ Outside /\ ElanRests
       \/ ElanActivates \/ ElanRuns \/ ElanStops \/ ElanReports \/ ElanIsTold \/ ElanIsStopped

-----------------------------------------------------------------------------
Callbacks == {"mode", "off", "ssm"}
\* What uru4000 keeps: interrupts, the queue of control transfers and two machines.
UruData == [irq : {"off", "running", "stopping"}, irq_cb : {"none", "init", "finger"},
            control : Seq(Callbacks), activate_state : States,
            init : {"none", "GET_HWSTAT", "REBOOT_POWER", "CHECK_HWSTAT_POWERDOWN", "POWERUP",
                    "AWAIT_SCAN_POWER", "GET_VERSION"},
            sub : {"none", "SET_HWSTAT", "GET_HWSTAT", "CHALLENGE", "RESPONSE", "PAUSE"},
            tries : Int, timeouts : Int, timeout : BOOLEAN, img : BOOLEAN,
            imaging : {"none", "CAPTURE", "SEND_INDEX", "READ_KEY", "REPORT_IMAGE", "failed"},
            keys : Nat, failed : {{}}]
\* Only changes of the mode are pending.
Modes(q) == \A i \in 1 .. Len(q) : q[i] = "mode"
\* The last transfer is one with another callback.
EndsWith(q, callback) ==
    /\ Len(q) > 0 /\ q[Len(q)] = callback
    /\ \A i \in 1 .. Len(q) : i # Len(q) => q[i] = "mode"

UruNoInit == drv.init = "none" /\ drv.sub = "none" /\ drv.timeout = FALSE
UruNoImage == drv.img = FALSE /\ drv.imaging = "none"

\* Nothing is under way on the bus.
UruRests ==
    /\ drv.irq = "off" /\ drv.irq_cb = "none" /\ drv.control = <<>> /\ UruNoInit /\ UruNoImage

\* The init machine runs: a transfer, a pause or the wait for power is under way.
UruActivates ==
    /\ calls = <<>> /\ dev.driver = "activating" /\ UruNoImage
    /\ drv.irq = "running" /\ drv.irq_cb \in {"none", "init"}
    /\ \/ /\ drv.timeout = FALSE /\ drv.control = <<"ssm">>
          /\ \/ /\ drv.init \in {"GET_HWSTAT", "CHECK_HWSTAT_POWERDOWN", "GET_VERSION"}
                /\ drv.sub = "none"
             \/ drv.init = "REBOOT_POWER" /\ drv.sub \in {"SET_HWSTAT", "GET_HWSTAT"}
             \/ /\ drv.init = "POWERUP"
                /\ drv.sub \in {"SET_HWSTAT", "GET_HWSTAT", "CHALLENGE", "RESPONSE"}
       \/ /\ drv.timeout = FALSE /\ drv.control = <<>> /\ drv.init = "POWERUP" /\ drv.sub = "PAUSE"
       \/ /\ drv.timeout = TRUE /\ drv.control = <<>>
          /\ drv.init = "AWAIT_SCAN_POWER" /\ drv.sub = "none"

\* activate_complete is to be called.
UruIsActivated ==
    /\ dev.driver = "activating" /\ calls = None("activate_complete")
    /\ drv.irq = "running" /\ drv.irq_cb = "none" /\ drv.control = <<>> /\ UruNoInit /\ UruNoImage

\* The interrupts of an enroll operation do not end before it is deactivated.
UruIrqFits ==
    /\ drv.irq \in {"running", "off"}
    /\ action = "ENROLL" /\ dev.driver = "running" => drv.irq = "running"

\* The interrupts are waited for.
UruAwaits ==
    /\ dev.driver = "running" /\ dev.state \in {"AWAIT_FINGER_ON", "AWAIT_FINGER_OFF", "IDLE"}
    /\ drv.irq = "running" /\ drv.irq_cb = "finger" /\ Modes(drv.control)
    /\ UruNoInit /\ UruNoImage
    /\ calls \in {<<>>, Call("report_finger_status", "on"), Call("report_finger_status", "off")}

\* An image is transferred.
UruTransfers ==
    /\ drv.img = TRUE /\ drv.irq_cb = "none" /\ UruNoInit /\ drv.irq \in {"running", "off"}
    /\ dev.minutiae_scan_active = FALSE
    /\ \/ drv.imaging = "CAPTURE" /\ Modes(drv.control)
       \/ drv.imaging \in {"SEND_INDEX", "READ_KEY"} /\ EndsWith(drv.control, "ssm")

\* An image is transferred to a device that waits for it.
UruImages ==
    /\ calls = <<>> /\ dev.driver = "running" /\ dev.state = "CAPTURE"
    /\ UruTransfers /\ UruIrqFits /\ drv.activate_state = "CAPTURE"

\* The sensor is to be switched off.
UruSwitchesOff ==
    /\ UruNoImage /\ drv.irq_cb = "none" /\ UruNoInit
    /\ drv.irq \in {"running", "off"} /\ EndsWith(drv.control, "off")

\* The sensor is switched off, after the image if one is transferred.
UruStops ==
    /\ dev.driver = "deactivating"
    /\ \/ /\ calls \in {<<>>, None("deactivate"), Call("session_error", "fatal")}
          /\ drv.activate_state = "DEACTIVATING"
          /\ UruTransfers \/ UruSwitchesOff
          /\ calls = Call("session_error", "fatal") => ~Enrolling
       \/ /\ calls = <<>> /\ UruNoImage /\ drv.irq_cb = "none" /\ UruNoInit
          /\ drv.irq = "stopping" /\ drv.control = <<>>
       \/ calls = Vfuncs("DEACTIVATING") /\ UruTransfers
       \/ /\ calls = Vfuncs("DEACTIVATING") /\ UruNoImage /\ UruNoInit
          /\ drv.irq \in {"running", "off"} /\ Modes(drv.control)
       \/ calls = Call("deactivate_complete", "none") /\ UruRests

\* The image transfer has ended.
UruImaged ==
    /\ drv.img = TRUE /\ drv.irq_cb = "none" /\ UruNoInit /\ drv.irq \in {"running", "off"}
    /\ Modes(drv.control)

UruReportsImage ==
    /\ UruImaged /\ UruIrqFits
    /\ \/ /\ dev.driver = "running" /\ dev.state = "CAPTURE"
          /\ drv.activate_state = "CAPTURE"
          /\ calls \in {None("image_captured") \o None("image_reported"),
                        Call("session_error", "fatal") \o None("imaging_complete")}
       \/ /\ dev.driver = "running" /\ dev.state = "AWAIT_FINGER_OFF"
          /\ \/ calls \in {Call("change_state", "AWAIT_FINGER_OFF") \o None("image_reported")}
             \/ /\ calls \in {None("image_reported"), None("imaging_complete")}
                /\ drv.activate_state = "AWAIT_FINGER_OFF"
       \/ /\ dev.driver = "deactivating" /\ dev.minutiae_scan_active = FALSE
          /\ \/ calls \in {Vfuncs("DEACTIVATING") \o None("imaging_complete")}
             \/ /\ drv.activate_state = "DEACTIVATING"
                /\ calls \in {None("deactivate") \o None("imaging_complete"),
                          None("imaging_complete"), None("image_reported"),
                          None("image_captured") \o None("image_reported"),
                          Call("session_error", "fatal") \o None("imaging_complete")}

\* The interrupts have failed.
UruReportsError ==
    /\ dev.driver = "running" /\ calls = Call("session_error", "fatal") /\ ~Enrolling
    /\ \/ dev.state = "CAPTURE" /\ UruTransfers
       \/ /\ dev.state # "CAPTURE" /\ UruNoImage /\ UruNoInit
          /\ drv.irq \in {"running", "off"} /\ Modes(drv.control)

\* The driver is to be told the state.
UruIsTold ==
    /\ dev.driver = "running" /\ Modes(drv.control) /\ UruNoInit /\ UruNoImage /\ UruIrqFits
    /\ \/ calls = Call("change_state", "AWAIT_FINGER_ON") /\ dev.state = "AWAIT_FINGER_ON"
       \/ calls = Call("change_state", "CAPTURE") /\ dev.state = "CAPTURE"
       \/ /\ calls = Call("change_state", "IDLE") /\ dev.state = "IDLE"
          /\ drv.irq = "running" /\ drv.irq_cb = "finger"

UruPhases ==
       \/ Outside /\ UruRests
       \/ UruActivates \/ UruIsActivated \/ UruAwaits \/ UruImages \/ UruStops \/ UruReportsImage
       \/ UruReportsError \/ UruIsTold

UruInv == drv \in UruData /\ UruPhases

\* What a driver has under way fits the state of the device and the calls to be made.
DriversInv ==
    /\ ImageInv /\ ErrorInv
    /\ CASE driver = "nb1010" -> NbInv
         [] driver = "elan" -> ElanInv
         [] driver = "uru4000" -> UruInv
         [] OTHER -> FALSE

\* What a step does to the device as its driver sees it.
Same == dev'.state = dev.state /\ dev'.driver = dev.driver
Stops == dev'.state = "DEACTIVATING" /\ dev'.driver = "deactivating"
Moves(state) == dev'.state = state /\ dev'.driver = "running"
SameScan == dev'.minutiae_scan_active = dev.minutiae_scan_active

\* Of a report of the finger the one that is waited for moves the device.
LEMMA ReportMoves ==
    ASSUME ImageInv, ErrorInv, NEW present \in BOOLEAN, ReportFingerStatus(present)
    PROVE  /\ ErrorInv' /\ SameScan
           /\ present /\ dev.state = "AWAIT_FINGER_ON" => Moves("CAPTURE")
           /\ ~present /\ dev.state = "AWAIT_FINGER_OFF" =>
                  \/ action = "ENROLL" /\ (Moves("IDLE") \/ Moves("AWAIT_FINGER_ON"))
                  \/ action # "ENROLL" /\ Stops
           /\ dev.state # (IF present THEN "AWAIT_FINGER_ON" ELSE "AWAIT_FINGER_OFF") => Same
<1> DEFINE seen == [dev EXCEPT !.finger_present = present]
           idle == ChangeState(seen, "IDLE")
<1>0. OnlyIn({"finger_present"}, dev, seen) /\ seen.finger_present = present /\ seen \in Device
    BY InvUnfailed, SetFinger DEF OnlyIn
<1>1. Unfailed(seen) /\ seen.state = dev.state /\ seen.active = TRUE /\ seen.driver = dev.driver
        /\ seen.minutiae_scan_active = dev.minutiae_scan_active
        /\ seen.action_error = dev.action_error
    BY <1>0, InvUnfailed
    DEF OnlyIn, Fields, Unfailed, ReportFingerStatus, ImageInv, DriverAndStateAgree, Device
<1>2. dev' = FingerStatus(dev, present) /\ action' = action
    BY DEF ReportFingerStatus
<1>3. dev.state \in {"AWAIT_FINGER_ON", "AWAIT_FINGER_OFF"} => dev.driver = "running"
    BY DEF ImageInv, DriverAndStateAgree
<1>4. CASE present /\ dev.state = "AWAIT_FINGER_ON"
    <2>1. dev' = ChangeState(seen, "CAPTURE")
        BY <1>2, <1>4 DEF FingerStatus
    <2> HIDE DEF seen
    <2>2. OnlyIn({"state", "invalid"}, seen, dev') /\ dev'.state = "CAPTURE"
        BY <1>0, <1>1, <1>4, <2>1, ChangeStateMakes DEF States, ValidTransitions
    <2> QED
        BY <1>1, <1>2, <1>3, <1>4, <2>2 DEF OnlyIn, Fields, Moves, SameScan, ErrorInv
<1>5. CASE ~present /\ dev.state = "AWAIT_FINGER_OFF"
    <2>1. dev' = FingerGone(seen)
        BY <1>1, <1>2, <1>5 DEF FingerStatus
    <2> HIDE DEF seen
    <2>2. OnlyIn({"state", "invalid"}, seen, idle) /\ idle.state = "IDLE" /\ Unfailed(idle)
            /\ idle \in Device
        <3>1. "IDLE" \in States /\ <<seen.state, "IDLE">> \in ValidTransitions
            BY <1>1, <1>5 DEF States, ValidTransitions
        <3> QED
            BY <1>0, <1>1, <3>1, ChangeStateMakes DEF OnlyIn
    <2>3. /\ idle.active = TRUE /\ idle.driver = "running"
          /\ idle.minutiae_scan_active = dev.minutiae_scan_active
          /\ idle.action_error = dev.action_error
        BY <1>1, <1>3, <1>5, <2>2 DEF OnlyIn, Fields
    <2>4. dev' = IF action = "ENROLL" THEN EnrollMaybeAwaitFingerOn(idle)
                 ELSE Deactivate(idle, FALSE)
        BY <2>1 DEF FingerGone
    <2> HIDE DEF idle
    <2>5. CASE action = "ENROLL" /\ dev' = idle
        BY <1>2, <1>3, <1>5, <2>2, <2>3, <2>5 DEF Moves, SameScan, ErrorInv
    <2>6. CASE action = "ENROLL" /\ dev' = ChangeState(idle, "AWAIT_FINGER_ON")
        <3>1. /\ OnlyIn({"state", "invalid"}, idle, dev') /\ dev'.state = "AWAIT_FINGER_ON"
            BY <2>2, <2>6, ChangeStateMakes DEF States, ValidTransitions
        <3> QED
            BY <1>2, <1>3, <1>5, <2>3, <2>6, <3>1 DEF OnlyIn, Fields, Moves, SameScan, ErrorInv
    <2>7. CASE action # "ENROLL"
        <3>1. Deactivates(idle, dev')
            BY <2>2, <2>3, <2>4, <2>7, DeactivateMakes DEF Working
        <3> QED
            BY <1>5, <2>3, <2>7, <3>1 DEF OnlyIn, Fields, Deactivates, Stops, SameScan, ErrorInv
    <2> QED
        BY <2>4, <2>5, <2>6, <2>7 DEF EnrollMaybeAwaitFingerOn
<1>6. CASE dev.state # IF present THEN "AWAIT_FINGER_ON" ELSE "AWAIT_FINGER_OFF"
    <2>1. dev' = seen
        BY <1>1, <1>2, <1>6 DEF FingerStatus
    <2> HIDE DEF seen
    <2> QED
        BY <1>1, <1>2, <1>6, <2>1 DEF Same, SameScan, ErrorInv
<1> QED
    BY <1>4, <1>5, <1>6

\* An aborted operation is deactivated, if it was not before.
LEMMA AbortMoves ==
    ASSUME ImageInv, dev.driver \in {"running", "deactivating"},
           NEW d, OnlyIn({"minutiae_scan_active", "reported"}, dev, d),
           NEW error \in Errors \union {"none"}, dev' = Aborted(d, error)
    PROVE  Stops /\ dev'.minutiae_scan_active = d.minutiae_scan_active /\ ErrorInv'
<1>1. /\ d \in Device /\ Unfailed(d) /\ d.state = dev.state /\ d.active = TRUE
      /\ d.result = "none" /\ d.driver = dev.driver
      /\ dev.state \in Working \union {"DEACTIVATING"} /\ action \in CaptureActions
      /\ dev.state = "DEACTIVATING" => dev.driver = "deactivating"
    BY InvUnfailed
    DEF OnlyIn, Fields, Unfailed, ImageInv, DriverAndStateAgree, WorkBelongsToAction, Working,
        Device
<1>2. CASE d.state \in Working
    BY <1>1, <1>2, AbortedMakes DEF OnlyIn, Fields, Stops, ErrorInv
<1>3. CASE d.state = "DEACTIVATING"
    <2>1. Keeps(d, dev', error)
        BY <1>1, <1>3, AbortedMakes
    <2> QED
        BY <1>1, <1>3, <2>1 DEF Keeps, OnlyIn, Fields, Stops, ErrorInv
<1> QED
    BY <1>1, <1>2, <1>3

\* A session error deactivates a device that is active.
LEMMA SessionErrorMoves ==
    ASSUME ImageInv, NEW error \in {"fatal", "cancelled"}, SessionError(error),
           dev.driver \in {"running", "deactivating"}
    PROVE  Stops /\ SameScan /\ ErrorInv'
<1>1. dev' = Aborted(dev, error)
    BY DEF SessionError, ActivateComplete
<1>2. OnlyIn({"minutiae_scan_active", "reported"}, dev, dev)
    BY InvUnfailed DEF OnlyIn
<1> QED
    BY <1>1, <1>2, AbortMoves DEF Errors, SameScan

\* An image starts a scan and the finger is awaited to go.
LEMMA ImageCapturedMoves ==
    ASSUME ImageInv, ErrorInv, ImageCaptured
    PROVE  Moves("AWAIT_FINGER_OFF") /\ dev'.minutiae_scan_active = TRUE /\ ErrorInv'
<1> DEFINE d == [dev EXCEPT !.minutiae_scan_active = TRUE]
<1>1. OnlyIn({"minutiae_scan_active"}, dev, d) /\ d.minutiae_scan_active = TRUE /\ d \in Device
    BY InvUnfailed, SetScan DEF OnlyIn
<1>2. Unfailed(d) /\ d.state = "CAPTURE"
    BY <1>1, InvUnfailed DEF ImageCaptured, OnlyIn, Fields, Unfailed
<1>3. dev' = ChangeState(d, "AWAIT_FINGER_OFF")
    BY DEF ImageCaptured, Captured
<1> HIDE DEF d
<1>4. OnlyIn({"state", "invalid"}, d, dev') /\ dev'.state = "AWAIT_FINGER_OFF"
    BY <1>1, <1>2, <1>3, ChangeStateMakes DEF States, ValidTransitions
<1> QED
    BY <1>1, <1>4 DEF ImageCaptured, OnlyIn, Fields, Moves, ErrorInv

\* A scan that is to be tried again waits for the finger to go or ends the operation.
LEMMA RetryScanMoves ==
    ASSUME ImageInv, ErrorInv, RetryScan
    PROVE  /\ ErrorInv' /\ SameScan
           /\ action = "ENROLL" => Moves("AWAIT_FINGER_OFF")
           /\ action # "ENROLL" => Stops
<1>0. /\ dev \in Device /\ Unfailed(dev) /\ dev.driver = "running"
      /\ dev.state \in {"AWAIT_FINGER_ON", "CAPTURE"}
      /\ action \in CaptureActions /\ action' = action
    BY InvUnfailed
    DEF RetryScan, ImageInv, WorkBelongsToAction
<1>1. CASE action = "ENROLL"
    <2>1. dev' = ChangeState(dev, "AWAIT_FINGER_OFF")
        BY <1>1 DEF RetryScan, Retried
    <2>2. "AWAIT_FINGER_OFF" \in States
             /\ <<dev.state, "AWAIT_FINGER_OFF">> \in ValidTransitions \union Allowed
        BY <1>0 DEF States, ValidTransitions, Allowed
    <2>3. OnlyIn({"state", "invalid"}, dev, dev') /\ dev'.state = "AWAIT_FINGER_OFF"
        BY <1>0, <2>1, <2>2, ChangeStateMakes
    <2> QED
        BY <1>0, <1>1, <2>3 DEF OnlyIn, Fields, Moves, SameScan, ErrorInv
<1>2. CASE action = "IDENTIFY"
    <2> DEFINE d == IdentifyReport(dev, "retry")
               what == IF dev.reported = "none" THEN "retry" ELSE dev.reported
    <2>1. dev' = Aborted(d, "none")
        BY <1>2 DEF RetryScan, Retried
    <2>2. d = [dev EXCEPT !.reported = what] /\ what \in {"none", "retry", "result"}
        BY <1>0 DEF IdentifyReport, Device
    <2> HIDE DEF d, what
    <2>3. OnlyIn({"reported"}, dev, d)
        BY <1>0, <2>2, SetReported
    <2>4. OnlyIn({"minutiae_scan_active", "reported"}, dev, d)
            /\ d.minutiae_scan_active = dev.minutiae_scan_active
        BY <2>3 DEF OnlyIn, Fields
    <2> QED
        BY <1>0, <1>2, <2>1, <2>4, AbortMoves DEF SameScan
<1>3. CASE action = "CAPTURE"
    <2>1. dev' = Aborted(dev, "retry")
        BY <1>3 DEF RetryScan, Retried
    <2>2. OnlyIn({"minutiae_scan_active", "reported"}, dev, dev)
        BY <1>0 DEF OnlyIn
    <2> QED
        BY <1>0, <1>3, <2>1, <2>2, AbortMoves DEF Errors, SameScan
<1> QED
    BY <1>0, <1>1, <1>2, <1>3 DEF CaptureActions

\* The activated device awaits a finger.
LEMMA ActivateMoves ==
    ASSUME ImageInv, NEW error \in {"none", "fatal", "cancelled"}, ActivateComplete(error)
    PROVE  /\ ErrorInv' /\ SameScan
           /\ error = "none" => Moves("AWAIT_FINGER_ON")
           /\ error # "none" => dev'.state = dev.state /\ dev'.driver = "off"
<1>0. /\ dev \in Device /\ Unfailed(dev) /\ dev.state = "ACTIVATING" /\ action \in CaptureActions
      /\ dev.result = "none" /\ dev.action_error = "none"
    BY InvUnfailed
    DEF ActivateComplete, ImageInv, WorkBelongsToAction, DriverAndStateAgree,
        QuietWhenInactive, ScanBelongsToAction
<1>1. CASE error = "none"
    <2> DEFINE i == ChangeState(dev, "IDLE")
               a == ChangeState(i, "AWAIT_FINGER_ON")
    <2>1. OnlyIn({"state", "invalid"}, dev, i) /\ i.state = "IDLE" /\ Unfailed(i) /\ i \in Device
        BY <1>0, ChangeStateMakes DEF States, ValidTransitions, OnlyIn
    <2>2. dev' = [a EXCEPT !.active = TRUE, !.driver = "running"]
        BY <1>1 DEF ActivateComplete, ActivationEnded
    <2> HIDE DEF i
    <2>3. OnlyIn({"state", "invalid"}, i, a) /\ a.state = "AWAIT_FINGER_ON" /\ a \in Device
        BY <2>1, ChangeStateMakes DEF States, ValidTransitions, OnlyIn
    <2> HIDE DEF a
    <2>4. /\ dev'.state = a.state /\ dev'.driver = "running"
          /\ dev'.minutiae_scan_active = a.minutiae_scan_active
          /\ dev'.action_error = a.action_error
        BY <2>2, <2>3 DEF Device
    <2> QED
        BY <1>0, <1>1, <2>1, <2>3, <2>4 DEF OnlyIn, Fields, Moves, SameScan, ErrorInv
<1>2. CASE error # "none"
    <2> DEFINE c == Complete(dev, error)
    <2>1. OnlyIn({"result"}, dev, c) /\ c \in Device
        BY <1>0, <1>2, CompleteMakes DEF Errors, CaptureActions
    <2>2. dev' = [c EXCEPT !.driver = "off"]
        BY <1>2 DEF ActivateComplete, ActivationEnded
    <2> HIDE DEF c
    <2>3. OnlyIn({"driver"}, c, dev') /\ dev'.driver = "off"
        BY <2>1, <2>2, SetDriver DEF DriverStates
    <2> QED
        BY <1>2, <2>1, <2>3 DEF OnlyIn, Fields, SameScan, ErrorInv
<1> QED
    BY <1>1, <1>2

\* The deactivated device is inactive.
LEMMA DeactivateMoves ==
    ASSUME ImageInv, NEW error \in {"none", "fatal"}, DeactivateComplete(error)
    PROVE  dev'.state = "INACTIVE" /\ dev'.driver = "off" /\ ErrorInv'
<1>1. ImageInv'
    BY DeactivateCompleteKeeps
<1> DEFINE c == ChangeState(dev, "INACTIVE")
           d == Deactivated(dev)
<1>2. /\ dev \in Device /\ Unfailed(dev) /\ dev.state = "DEACTIVATING"
      /\ action \in CaptureActions /\ dev.result = "none"
    BY InvUnfailed
    DEF DeactivateComplete, ImageInv, WorkBelongsToAction, DriverAndStateAgree
<1>3. OnlyIn({"state", "invalid"}, dev, c) /\ c.state = "INACTIVE" /\ Unfailed(c)
    BY <1>2, ChangeStateMakes DEF States, ValidTransitions
<1>4. d = [c EXCEPT !.active = FALSE, !.finger_present = FALSE, !.driver = "off"]
    BY DEF Deactivated
<1> HIDE DEF c, d
<1>5. /\ d.state = "INACTIVE" /\ d.driver = "off" /\ d.result = "none" /\ Unfailed(d)
      /\ d \in Device
    <2> DEFINE a == [c EXCEPT !.active = FALSE]
               f == [a EXCEPT !.finger_present = FALSE]
    <2>1. OnlyIn({"active"}, c, a) /\ a \in Device
        BY <1>3, SetActive DEF OnlyIn
    <2>2. d = [f EXCEPT !.driver = "off"]
        BY <1>4
    <2> HIDE DEF a
    <2>3. OnlyIn({"finger_present"}, a, f) /\ f \in Device
        BY <2>1, SetFinger DEF OnlyIn
    <2> HIDE DEF f
    <2>4. "off" \in DriverStates
        BY DEF DriverStates
    <2>5. OnlyIn({"driver"}, f, d) /\ d.driver = "off"
        BY <2>2, <2>3, <2>4, SetDriver
    <2> QED
        BY <1>2, <1>3, <2>1, <2>3, <2>5 DEF OnlyIn, Fields, Unfailed
<1>6. dev' = MaybeCompleteAction(d, error) /\ error \in Errors \union {"none"}
    BY DEF DeactivateComplete, Errors, d
<1>7. \/ Keeps(d, dev', error)
      \/ Completes(d, dev', error)
    BY <1>2, <1>5, <1>6, MaybeCompleteMakes DEF Device
<1> QED
    BY <1>5, <1>7 DEF Keeps, Completes, OnlyIn, Fields, ErrorInv

\* The opened or closed device is inactive.
LEMMA OpenedOrClosedMoves ==
    ASSUME ImageInv, NEW error \in {"none", "fatal"}, dev.driver \in {"opening", "closing"},
           dev' = OpenedOrClosed(dev, error)
    PROVE  dev'.state = "INACTIVE" /\ dev'.driver = "off" /\ ErrorInv'
<1> DEFINE c == Complete(dev, IF error = "none" THEN "ok" ELSE error)
<1>1. /\ dev \in Device /\ dev.result = "none" /\ action # "NONE"
    BY InvUnfailed DEF ImageInv, DriverAndStateAgree
<1>2. OnlyIn({"result"}, dev, c) /\ c \in Device
    BY <1>1, CompleteMakes DEF Errors
<1>3. dev' = [c EXCEPT !.state = "INACTIVE", !.driver = "off"]
    BY DEF OpenedOrClosed
<1> HIDE DEF c
<1> QED
    BY <1>2, <1>3 DEF Device, ErrorInv

\* The cancel vfunc deactivates a device that is active.
LEMMA CancelMoves ==
    ASSUME ImageInv, ErrorInv, CancelAction
    PROVE  /\ ErrorInv' /\ SameScan /\ dev'.action_error = dev.action_error
           /\ dev.driver = "running" => Stops
           /\ dev.driver # "running" => Same
<1>0. dev \in Device /\ Unfailed(dev) /\ action' = action
    BY InvUnfailed DEF CancelAction
<1>1. CASE dev.driver # "running"
    <2>1. dev' = dev
        BY <1>0, <1>1, DeactivateMakes DEF CancelAction, ImageInv, DriverAndStateAgree
    <2> QED
        BY <1>0, <1>1, <2>1 DEF Same, SameScan, ErrorInv
<1>2. CASE dev.driver = "running"
    <2>1. dev.active /\ dev.state \in Working
        BY <1>0, <1>2 DEF ImageInv, DriverAndStateAgree, Working
    <2>2. Deactivates(dev, dev')
        BY <1>0, <2>1, DeactivateMakes DEF CancelAction
    <2> QED
        BY <1>2, <2>2 DEF Deactivates, OnlyIn, Fields, Stops, SameScan, ErrorInv
<1> QED
    BY <1>1, <1>2

\* Nothing else is asked of the driver of a device that is opened, closed or started.
LEMMA OpenMoves == ASSUME ImageInv, Open PROVE dev'.driver = "opening" /\ dev'.state = dev.state
<1>1. dev' = [dev EXCEPT !.driver = "opening"]
    BY DEF Open
<1> QED
    BY <1>1, InvUnfailed DEF Device

\* Closing a device leaves its state as it is.
LEMMA CloseMoves == ASSUME ImageInv, Close PROVE dev'.driver = "closing" /\ dev'.state = dev.state
<1>1. dev' = [dev EXCEPT !.driver = "closing"]
    BY DEF Close, Assert, ImageInv, NothingLeftBehind
<1> QED
    BY <1>1, InvUnfailed DEF Device

\* A capture operation has the device activated, or ends at once.
LEMMA StartMoves ==
    ASSUME ImageInv, NEW act \in CaptureActions, Start(act)
    PROVE  /\ ErrorInv'
           /\ \/ dev'.driver = "activating"
              \/ dev'.driver = "off"
<1>0. /\ dev \in Device /\ dev.driver = "off" /\ Unfailed(dev) /\ dev.active = FALSE
      /\ dev.finger_present = FALSE /\ dev.minutiae_scan_active = FALSE
      /\ dev.state \in {"INACTIVE", "ACTIVATING"}
    BY InvUnfailed
    DEF Start, ImageInv, DriverAndStateAgree, NothingLeftBehind, QuietWhenInactive, Device
<1>1. CASE dev' = Started(dev)
    <2> DEFINE c == [dev EXCEPT !.enroll_stage = 0]
               a == ChangeState(c, "ACTIVATING")
    <2>1. c \in Device /\ c.active = FALSE /\ c.finger_present = FALSE
            /\ c.minutiae_scan_active = FALSE
            /\ Unfailed(c) /\ c.state \in {"INACTIVE", "ACTIVATING"}
        BY <1>0, SetStage DEF OnlyIn, Fields, Unfailed
    <2>2. dev' = Activate(c)
        BY <1>1, <2>1 DEF Started, Assert
    <2> HIDE DEF c
    <2>3. dev' = [a EXCEPT !.driver = "activating"]
        BY <2>1, <2>2 DEF Activate, Assert
    <2>4. a \in Device
        BY <2>1, ChangeStateMakes DEF States, ValidTransitions, Allowed, OnlyIn
    <2> HIDE DEF a
    <2> QED
        BY <2>3, <2>4 DEF Device, ErrorInv
<1>2. CASE dev' = [dev EXCEPT !.result = "fatal"]
    BY <1>0, <1>2 DEF Device, ErrorInv
<1> QED
    BY <1>1, <1>2 DEF Start

\* The return of an action is none of the driver's business.
LEMMA ReturnMoves ==
    ASSUME ImageInv, ReturnInIdle PROVE ErrorInv' /\ dev.driver = "off" /\ dev'.driver = "off"
<1>1. dev' = [dev EXCEPT !.result = "none", !.reported = "none"]
    BY DEF ReturnInIdle
<1>2. dev.driver = "off" /\ dev \in Device
    BY InvUnfailed DEF ReturnInIdle, ImageInv, DriverAndStateAgree
<1> QED
    BY <1>1, <1>2 DEF Device, ErrorInv

\* The end of a scan lets an idle device go on, or deactivates one that works.
LEMMA DetectedMoves ==
    ASSUME ImageInv, ErrorInv, NEW outcome \in Outcomes, MinutiaeDetected(outcome)
    PROVE  /\ ErrorInv' /\ dev'.minutiae_scan_active = FALSE
           /\ \/ Same
              \/ dev.state = "IDLE" /\ Moves("AWAIT_FINGER_ON")
              \/ dev.driver = "running" /\ Stops
<1> DEFINE d == [dev EXCEPT !.minutiae_scan_active = FALSE]
<1>1. /\ OnlyIn({"minutiae_scan_active"}, dev, d) /\ d.minutiae_scan_active = FALSE
      /\ d \in Device
    BY InvUnfailed, SetScan DEF OnlyIn
<1>2. dev' = Scanned(d, outcome) /\ UNCHANGED <<action, cancel>>
    BY DEF MinutiaeDetected
<1> HIDE DEF d
<1>3. /\ action \in CaptureActions /\ dev.result = "none" /\ dev.minutiae_scan_active
      /\ dev.driver \in {"running", "deactivating", "off"}
      /\ dev.driver = "running" => dev.state \in {"IDLE", "AWAIT_FINGER_OFF"}
      /\ dev.state = "IDLE" => action = "ENROLL"
      /\ dev.driver = "running" => dev.active = TRUE
      /\ dev.driver = "off" => dev.active = FALSE
      /\ dev.driver = "deactivating" <=> dev.state = "DEACTIVATING"
      /\ dev \in Device /\ Unfailed(dev)
    BY InvUnfailed
    DEF MinutiaeDetected, ImageInv, ScanBelongsToAction, DriverAndStateAgree, OneScanAtATime,
        FingerIsKnown, Device
<1>4. /\ d.state = dev.state /\ d.driver = dev.driver /\ d.active = dev.active
      /\ d.result = "none" /\ d.action_error = dev.action_error
      /\ d.finger_present = dev.finger_present /\ Unfailed(d)
    BY <1>1, <1>3 DEF OnlyIn, Fields, Unfailed
<1>5. ASSUME NEW error \in Errors, dev' = Aborted(d, error) PROVE
          /\ ErrorInv' /\ dev'.minutiae_scan_active = FALSE
          /\ Same \/ (dev.driver = "running" /\ Stops)
    <2>1. CASE dev.driver \in {"running", "deactivating"}
        <3>1. Stops /\ dev'.minutiae_scan_active = FALSE /\ ErrorInv'
            <4>1. OnlyIn({"minutiae_scan_active", "reported"}, dev, d)
                BY <1>1 DEF OnlyIn
            <4> QED
                BY <1>1, <1>5, <2>1, <4>1, AbortMoves
        <3> QED
            BY <1>3, <2>1, <3>1 DEF Same, Stops
    <2>2. CASE dev.driver = "off"
        <3>1. Completes(d, dev', error)
            BY <1>1, <1>3, <1>4, <1>5, <2>2, AbortedMakes
        <3> QED
            BY <1>1, <1>4, <2>2, <3>1 DEF Completes, OnlyIn, Fields, Same, ErrorInv
    <2> QED
        BY <1>3, <2>1, <2>2
\* An operation other than an enroll operation goes on as before.
<1>6. ASSUME NEW e, e \in Device, Unfailed(e), e.state = dev.state, e.driver = dev.driver,
             e.active = dev.active, e.result = "none", e.minutiae_scan_active = FALSE,
             action # "ENROLL", NEW error \in Errors \union {"none"},
             dev' = MaybeCompleteAction(e, error) PROVE
          ErrorInv' /\ dev'.minutiae_scan_active = FALSE /\ Same
    <2>1. Keeps(e, dev', error) \/ Completes(e, dev', error)
        BY <1>3, <1>6, MaybeCompleteMakes DEF Device
    <2> QED
        BY <1>2, <1>3, <1>6, <2>1 DEF Keeps, Completes, OnlyIn, Fields, Same, ErrorInv
<1>7. CASE cancel # "no"
    <2>1. dev' = Aborted(d, "cancelled")
        BY <1>2, <1>7 DEF Scanned
    <2> QED
        BY <1>5, <2>1 DEF Errors
<1>8. CASE cancel = "no" /\ action = "CAPTURE"
    <2> DEFINE c == [d EXCEPT !.capture_image = TRUE]
               error == IF outcome = "retry" THEN "retry" ELSE "none"
    <2>1. dev' = MaybeCompleteAction(c, error)
        BY <1>2, <1>8 DEF Scanned
    <2>2. OnlyIn({"capture_image"}, d, c)
        BY <1>1, SetImage
    <2>3. error \in Errors \union {"none"}
        BY DEF Errors
    <2> HIDE DEF c, error
    <2>4. /\ c \in Device /\ Unfailed(c) /\ c.state = dev.state /\ c.driver = dev.driver
          /\ c.active = dev.active /\ c.result = "none" /\ c.minutiae_scan_active = FALSE
        BY <1>1, <1>4, <2>2 DEF OnlyIn, Fields, Unfailed
    <2> QED
        BY <1>6, <1>8, <2>1, <2>3, <2>4
<1>9. CASE cancel = "no" /\ action # "CAPTURE" /\ outcome = "add_failed"
    <2>1. dev' = Aborted(d, "fatal")
        BY <1>2, <1>9 DEF Scanned
    <2> QED
        BY <1>5, <2>1 DEF Errors
<1>10. CASE cancel = "no" /\ action = "IDENTIFY" /\ outcome # "add_failed"
    <2>1. dev' = IdentifyMatched(d, outcome)
        BY <1>2, <1>10 DEF Scanned
    <2>2. CASE outcome = "match_failed"
        <3>1. dev' = MaybeCompleteAction(d, "fatal")
            BY <2>1, <2>2 DEF IdentifyMatched
        <3> QED
            BY <1>1, <1>4, <1>6, <1>10, <3>1 DEF Errors
    <2>3. CASE outcome # "match_failed"
        <3> DEFINE what == IF d.reported = "none"
                           THEN (IF outcome = "retry" THEN "retry" ELSE "result")
                           ELSE d.reported
                   r == IdentifyReport(d, IF outcome = "retry" THEN "retry" ELSE "result")
        <3>1. dev' = MaybeCompleteAction(r, "none")
            BY <2>1, <2>3 DEF IdentifyMatched
        <3>2. r = [d EXCEPT !.reported = what] /\ what \in {"none", "retry", "result"}
            BY <1>1 DEF IdentifyReport, Device
        <3> HIDE DEF r, what
        <3>3. OnlyIn({"reported"}, d, r)
            BY <1>1, <3>2, SetReported
        <3>4. /\ r \in Device /\ Unfailed(r) /\ r.state = dev.state /\ r.driver = dev.driver
              /\ r.active = dev.active /\ r.result = "none" /\ r.minutiae_scan_active = FALSE
            BY <1>1, <1>4, <3>3 DEF OnlyIn, Fields, Unfailed
        <3> QED
            BY <1>6, <1>10, <3>1, <3>4
    <2> QED
        BY <2>2, <2>3
<1>11. CASE cancel = "no" /\ action = "ENROLL" /\ outcome # "add_failed"
    <2> DEFINE staged == IF outcome = "print" THEN [d EXCEPT !.enroll_stage = d.enroll_stage + 1]
                         ELSE d
    <2>1. /\ dev.driver = "running" /\ dev.state \in {"IDLE", "AWAIT_FINGER_OFF"}
          /\ dev.state = "AWAIT_FINGER_OFF" => dev.finger_present
        BY <1>3, <1>11 DEF ImageInv, EnrollGoesOn, FingerIsKnown
    <2>2. OnlyIn({"enroll_stage"}, d, staged)
        <3>1. d.enroll_stage + 1 \in Nat
            BY <1>1 DEF Device
        <3> QED
            BY <1>1, <3>1, SetStage DEF OnlyIn
    <2>3. dev' = IF staged.enroll_stage # NrStages THEN EnrollMaybeAwaitFingerOn(staged)
                 ELSE Deactivate(MaybeCompleteAction(
                          Assert(staged, outcome = "print", "use_after_free"), "none"), FALSE)
        BY <1>2, <1>11 DEF Scanned, EnrollProgress
    <2> HIDE DEF staged
    <2>4. /\ staged \in Device /\ Unfailed(staged) /\ staged.state = dev.state
          /\ staged.driver = "running" /\ staged.active = TRUE
          /\ staged.minutiae_scan_active = FALSE
          /\ staged.finger_present = dev.finger_present
          /\ staged.action_error = dev.action_error
        BY <1>1, <1>3, <1>4, <2>1, <2>2 DEF OnlyIn, Fields, Unfailed
    <2>5. dev.action_error = "none"
        BY <1>11, <2>1 DEF ErrorInv
    <2>6. CASE dev' = staged
        BY <1>2, <2>1, <2>4, <2>5, <2>6 DEF Same, ErrorInv
    <2>7. CASE dev' = ChangeState(staged, "AWAIT_FINGER_ON") /\ ~staged.finger_present
        <3>1. staged.state = "IDLE"
            BY <2>1, <2>4, <2>7
        <3>2. OnlyIn({"state", "invalid"}, staged, dev') /\ dev'.state = "AWAIT_FINGER_ON"
            BY <2>4, <2>7, <3>1, ChangeStateMakes DEF States, ValidTransitions
        <3> QED
            BY <1>2, <2>4, <2>5, <3>1, <3>2 DEF OnlyIn, Fields, Moves, ErrorInv
    <2>8. CASE staged.enroll_stage = NrStages
        <3> DEFINE u == Assert(staged, outcome = "print", "use_after_free")
                   m == MaybeCompleteAction(u, "none")
        <3>1. dev' = Deactivate(m, FALSE)
            BY <2>3, <2>8
        <3>2. outcome = "print"
            <4> SUFFICES ASSUME outcome # "print" PROVE FALSE
                OBVIOUS
            <4>1. d.enroll_stage = NrStages
                BY <2>8 DEF staged
            <4> QED
                BY <1>1, <1>3, <1>11, <2>1, <4>1, NrStagesAssumption
                DEF OnlyIn, Fields, ImageInv, EnrollGoesOn, Device
        <3>3. u = staged
            BY <3>2 DEF Assert
        <3> HIDE DEF u
        <3>4. Keeps(staged, m, "none") /\ Unfailed(m)
            BY <2>4, <3>3, MaybeCompleteMakes DEF Errors
        <3> HIDE DEF m
        <3>5. m \in Device /\ m.active = TRUE /\ m.state \in Working
                /\ m.minutiae_scan_active = FALSE
            BY <2>1, <2>4, <3>4 DEF Keeps, OnlyIn, Fields, Working
        <3>6. Deactivates(m, dev')
            BY <3>1, <3>4, <3>5, DeactivateMakes
        <3> QED
            BY <2>1, <3>5, <3>6 DEF Deactivates, OnlyIn, Fields, Stops, ErrorInv
    <2> QED
        BY <2>3, <2>4, <2>6, <2>7, <2>8 DEF EnrollMaybeAwaitFingerOn
<1> QED
    BY <1>3, <1>7, <1>8, <1>9, <1>10, <1>11 DEF CaptureActions

\* The next call, and the ones behind it.
Pending(call, arg, rest) ==
    calls # <<>> /\ Head(calls).call = call /\ Head(calls).arg = arg /\ Tail(calls) = rest

\* A sequence with a first element and a tail.
LEMMA HeadBefore ==
    ASSUME NEW S, NEW c \in S, NEW q \in Seq(S)
    PROVE  <<c>> \o q # <<>> /\ Head(<<c>> \o q) = c /\ Tail(<<c>> \o q) = q
           /\ <<c>> \o q \in Seq(S)
<1> DEFINE s == <<c>> \o q
<1>1. <<c>> \in Seq(S) /\ Len(<<c>>) = 1 /\ <<c>>[1] = c
    OBVIOUS
<1>2. s \in Seq(S) /\ Len(s) = 1 + Len(q) /\ s[1] = c
      /\ \A i \in 1 .. Len(q) : s[i + 1] = q[i]
    BY <1>1, ConcatProperties
<1> HIDE DEF s
<1>3. Len(q) \in Nat /\ s # <<>>
    BY <1>2, LenProperties, EmptySeq
<1>4. Tail(s) \in Seq(S) /\ Len(Tail(s)) = Len(q) /\ Head(s) = c
      /\ \A i \in 1 .. Len(q) : Tail(s)[i] = q[i]
    BY <1>2, <1>3, HeadTailProperties
<1>5. Tail(s) = q
    BY <1>4, SeqEqual
<1> QED
    BY <1>2, <1>3, <1>4, <1>5 DEF s

\* The empty sequence before and behind another one.
LEMMA WithoutMore ==
    ASSUME NEW S, NEW q \in Seq(S) PROVE q \o <<>> = q /\ <<>> \o q = q
BY ConcatEmptySeq

\* One call, two and three of them, that are made in this order.
LEMMA OneCall ==
    ASSUME NEW name, NEW arg
    PROVE  /\ Call(name, arg) \o <<>> = Call(name, arg)
           /\ <<>> \o Call(name, arg) = Call(name, arg)
           /\ calls = Call(name, arg) => Pending(name, arg, <<>>)
<1> DEFINE c == [call |-> name, arg |-> arg]
           S == {c}
<1>1. c \in S /\ <<>> \in Seq(S) /\ <<c>> \in Seq(S)
    OBVIOUS
<1>2. <<c>> \o <<>> = <<c>> /\ <<>> \o <<c>> = <<c>>
    BY <1>1, WithoutMore
<1>3. <<c>> # <<>> /\ Head(<<c>>) = c /\ Tail(<<c>>) = <<>>
    BY <1>1, <1>2, HeadBefore
<1>4. Call(name, arg) = <<c>> /\ c.call = name /\ c.arg = arg
    BY DEF Call
<1> HIDE DEF c
<1> QED
    BY <1>2, <1>3, <1>4, Zenon DEF Pending

\* Of two calls the first is made first.
LEMMA TwoCalls ==
    ASSUME NEW name, NEW arg, NEW second, NEW its
    PROVE  LET both == Call(name, arg) \o Call(second, its)
           IN  /\ both \o <<>> = both
               /\ calls = both => Pending(name, arg, Call(second, its))
<1> DEFINE c == [call |-> name, arg |-> arg]
           d == [call |-> second, arg |-> its]
           S == {c, d}
           both == <<c>> \o <<d>>
<1>1. c \in S /\ <<d>> \in Seq(S)
    OBVIOUS
<1>2. both # <<>> /\ Head(both) = c /\ Tail(both) = <<d>> /\ both \in Seq(S)
    BY <1>1, HeadBefore
<1>3. both \o <<>> = both
    BY <1>2, WithoutMore
<1>4. Call(name, arg) = <<c>> /\ Call(second, its) = <<d>> /\ c.call = name /\ c.arg = arg
    BY DEF Call
<1> HIDE DEF c, d
<1> QED
    BY <1>2, <1>3, <1>4, Zenon DEF Pending

\* Of three calls the first is made first.
LEMMA ThreeCalls ==
    ASSUME NEW name, NEW arg, NEW second, NEW its, NEW third, NEW last
    PROVE  LET all == (Call(name, arg) \o Call(second, its)) \o Call(third, last)
           IN  calls = all => Pending(name, arg, Call(second, its) \o Call(third, last))
<1> DEFINE c == [call |-> name, arg |-> arg]
           d == [call |-> second, arg |-> its]
           e == [call |-> third, arg |-> last]
           S == {c, d, e}
           all == <<c>> \o (<<d>> \o <<e>>)
<1>1. c \in S /\ <<c>> \in Seq(S) /\ <<d>> \in Seq(S) /\ <<e>> \in Seq(S)
    OBVIOUS
<1>2. (<<c>> \o <<d>>) \o <<e>> = all
    BY <1>1, ConcatAssociative
<1>3. <<d>> \o <<e>> \in Seq(S)
    BY <1>1, ConcatProperties
<1>4. all # <<>> /\ Head(all) = c /\ Tail(all) = <<d>> \o <<e>>
    BY <1>1, <1>3, HeadBefore
<1> QED
    BY <1>2, <1>4 DEF Call, Pending

\* The vfuncs of a change of the state.
LEMMA VfuncsAre ==
    /\ Vfuncs("ACTIVATING") = Call("change_state", "ACTIVATING") \o Call("activate", "none")
    /\ Vfuncs("DEACTIVATING") = Call("change_state", "DEACTIVATING") \o Call("deactivate", "none")
    /\ \A state \in States \ {"ACTIVATING", "DEACTIVATING"} :
           Vfuncs(state) = Call("change_state", state)
BY OneCall DEF Vfuncs, None

\* What the driver is told of a move of the device.
LEMMA ToldAre ==
    /\ Same => Told(dev') = <<>>
    /\ \A state \in States \ {"ACTIVATING", "DEACTIVATING"} :
           dev'.state = state /\ dev.state # state => Told(dev') = Call("change_state", state)
    /\ Stops /\ dev.state = "DEACTIVATING" => Told(dev') = <<>>
    /\ Stops /\ dev.state # "DEACTIVATING" => Told(dev') = Vfuncs("DEACTIVATING")
BY VfuncsAre DEF Told, Same, Stops

\* While calls are to be made nothing else happens.
LEMMA OnlyCalls ==
    ASSUME DriversNext, NEW name, NEW arg, NEW rest, Pending(name, arg, rest)
    PROVE  /\ name \in LibraryCalls => CallLibrary
           /\ name = "open" =>
                  \E error \in {"none", "fatal"} : Returns(drv, Call("open_complete", error))
           /\ name = "close" =>
                  \E error \in {"none", "fatal"} : Returns(drv, Call("close_complete", error))
           /\ name \notin LibraryCalls \union {"open", "close"} =>
                  NbVfuncs \/ UruVfuncs \/ ElanVfuncs
           /\ UNCHANGED driver
<1>1. Calls
    BY DEF DriversNext, UserCalls, LibraryMainLoop, LibraryRuns, MainLoopOfDriver, NbMainLoop,
           UruMainLoop, ElanMainLoop, MainLoopRuns, Pending
<1>2. CASE CallLibrary
    BY <1>2 DEF CallLibrary, Pending, LibraryCalls
<1>3. CASE OpenOrClose
    BY <1>3 DEF OpenOrClose, Vfunc, Pending, LibraryCalls, Returns
<1>4. CASE NbVfuncs
    BY <1>4 DEF NbVfuncs, NbActivate, NbChangeState, NbDeactivate, Vfunc, Pending, LibraryCalls,
                Returns
<1>5. CASE UruVfuncs
    BY <1>5 DEF UruVfuncs, UruActivate, UruChangeState, UruImagingComplete, UruImageReported,
                UruExecuteStateChange, UruAwaitFinger, Vfunc, Pending, LibraryCalls, Returns
<1>6. CASE ElanVfuncs
    BY <1>6 DEF ElanVfuncs, ElanActivate, ElanChangeState, ElanDeactivate, Vfunc, Pending,
                LibraryCalls, Returns
<1> QED
    BY <1>1, <1>2, <1>3, <1>4, <1>5, <1>6 DEF Calls

\* What no call of the driver changes but the device.
Kept == UNCHANGED <<action, is_open, cancel, driver, drv>>

\* A call into the library.
LEMMA LibraryMakes ==
    ASSUME DriversNext, NEW name \in LibraryCalls, NEW arg, NEW rest, Pending(name, arg, rest),
           name # "retry_scan"
    PROVE  /\ Kept /\ dev' = Effect(Head(calls)) /\ calls' = Told(dev') \o rest
           /\ Head(calls).call = name /\ Head(calls).arg = arg
<1>1. CallLibrary
    BY OnlyCalls
<1> QED
    BY <1>1 DEF CallLibrary, Pending, Kept

\* The call fpi_image_device_report_finger_status is made.
LEMMA ReportIsMade ==
    ASSUME ImageInv, ErrorInv, DriversNext, NEW arg \in {"on", "off"}, NEW rest,
           Pending("report_finger_status", arg, rest),
           dev.driver \in {"running", "deactivating"},
           arg = "on" \/ dev.state # "CAPTURE" \/ cancel # "no"
    PROVE  /\ Next /\ Kept /\ ErrorInv' /\ SameScan
           /\ calls' = Told(dev') \o rest
           /\ arg = "on" /\ dev.state = "AWAIT_FINGER_ON" =>
                  Moves("CAPTURE") /\ Told(dev') = Call("change_state", "CAPTURE")
           /\ arg = "off" /\ dev.state = "AWAIT_FINGER_OFF" =>
                  \/ action = "ENROLL" /\ Moves("IDLE") /\ Told(dev') = Call("change_state", "IDLE")
                  \/ /\ action = "ENROLL" /\ Moves("AWAIT_FINGER_ON")
                     /\ Told(dev') = Call("change_state", "AWAIT_FINGER_ON")
                  \/ Stops /\ Told(dev') = Vfuncs("DEACTIVATING")
           /\ dev.state # (IF arg = "on" THEN "AWAIT_FINGER_ON" ELSE "AWAIT_FINGER_OFF") =>
                  Same /\ Told(dev') = <<>>
<1>1. /\ Kept /\ dev' = Effect(Head(calls)) /\ calls' = Told(dev') \o rest
      /\ Head(calls).call = "report_finger_status" /\ Head(calls).arg = arg
    BY LibraryMakes DEF LibraryCalls
<1>2. dev' = FingerStatus(dev, arg = "on")
    BY <1>1 DEF Effect, Accepted, ImageInv, DriverAndStateAgree
<1>3. (arg = "on") \in BOOLEAN /\ ReportFingerStatus(arg = "on")
    BY <1>1, <1>2 DEF ReportFingerStatus, Kept
<1>4. Next
    BY <1>3 DEF Next, Driver
<1> QED
    BY <1>1, <1>3, <1>4, ReportMoves, ToldAre DEF Moves, States

\* The call fpi_image_device_session_error is made.
LEMMA SessionErrorIsMade ==
    ASSUME ImageInv, DriversNext, NEW error \in {"fatal", "cancelled"}, NEW rest,
           Pending("session_error", error, rest),
           dev.driver \in {"running", "deactivating"},
           error = "cancelled" => cancel # "no",
           error = "fatal" => ~(dev.minutiae_scan_active /\ action = "ENROLL")
    PROVE  /\ [Next]_vars /\ Kept /\ calls' = Told(dev') \o rest
           /\ error = "cancelled" => dev' = dev /\ Told(dev') = <<>>
           /\ error = "fatal" => Next /\ Stops /\ SameScan /\ ErrorInv'
           /\ error = "fatal" /\ dev.driver = "running" => Told(dev') = Vfuncs("DEACTIVATING")
           /\ error = "fatal" /\ dev.driver = "deactivating" => Told(dev') = <<>>
<1>1. /\ Kept /\ dev' = Effect(Head(calls)) /\ calls' = Told(dev') \o rest
      /\ Head(calls).call = "session_error" /\ Head(calls).arg = error
    BY LibraryMakes DEF LibraryCalls
<1>2. dev.active /\ dev.state # "INACTIVE"
        /\ (dev.driver = "deactivating" <=> dev.state = "DEACTIVATING")
    BY DEF ImageInv, DriverAndStateAgree
<1>3. dev' = IF error = "cancelled" THEN dev ELSE Aborted(dev, error)
    BY <1>1, <1>2 DEF Effect, Accepted, SessionErrorEffect
<1>4. CASE error = "cancelled"
    BY <1>1, <1>3, <1>4 DEF Kept, vars, Told
<1>5. CASE error = "fatal"
    <2>1. SessionError(error)
        BY <1>1, <1>3, <1>5 DEF SessionError, Kept
    <2> QED
        BY <1>1, <1>2, <1>5, <2>1, SessionErrorMoves, ToldAre DEF Next, Driver
<1> QED
    BY <1>4, <1>5

\* The call fpi_image_device_image_captured is made.
LEMMA ImageIsMade ==
    ASSUME ImageInv, ErrorInv, DriversNext, NEW rest, Pending("image_captured", "none", rest),
           dev.driver = "running", dev.state = "CAPTURE"
    PROVE  /\ Next /\ Kept /\ calls' = Call("change_state", "AWAIT_FINGER_OFF") \o rest
           /\ Moves("AWAIT_FINGER_OFF") /\ ErrorInv'
<1>1. /\ Kept /\ dev' = Effect(Head(calls)) /\ calls' = Told(dev') \o rest
      /\ Head(calls).call = "image_captured"
    BY LibraryMakes DEF LibraryCalls
<1>2. action \in CaptureActions
    BY DEF ImageInv, WorkBelongsToAction
<1>3. dev' = Captured(dev)
    BY <1>1, <1>2 DEF Effect, Accepted
<1>4. ImageCaptured
    BY <1>1, <1>3 DEF ImageCaptured, Kept
<1> QED
    BY <1>1, <1>4, ImageCapturedMoves, ToldAre DEF Next, Driver, Moves, States

\* An image that comes too late is refused.
LEMMA ImageIsRefused ==
    ASSUME DriversNext, NEW rest, Pending("image_captured", "none", rest),
           dev.state = "DEACTIVATING"
    PROVE  UNCHANGED vars /\ Kept /\ calls' = <<>> \o rest
<1>1. /\ Kept /\ dev' = Effect(Head(calls)) /\ calls' = Told(dev') \o rest
      /\ Head(calls).call = "image_captured"
    BY LibraryMakes DEF LibraryCalls
<1>2. dev' = dev
    BY <1>1 DEF Effect, Accepted
<1> QED
    BY <1>1, <1>2 DEF Kept, vars, Told

\* The call fpi_image_device_retry_scan is made.
LEMMA RetryIsMade ==
    ASSUME ImageInv, ErrorInv, DriversNext, NEW rest, Pending("retry_scan", "none", rest),
           dev.driver = "running", dev.state \in {"AWAIT_FINGER_ON", "CAPTURE"}
    PROVE  /\ Next /\ Kept /\ ErrorInv' /\ SameScan
           /\ \/ /\ Moves("AWAIT_FINGER_OFF")
                 /\ calls' = Call("change_state", "AWAIT_FINGER_OFF") \o rest
              \/ Stops /\ calls' = Vfuncs("DEACTIVATING") \o rest
<1>1. CallLibrary
    BY OnlyCalls DEF LibraryCalls
<1>2. action \in CaptureActions
    BY DEF ImageInv, WorkBelongsToAction
<1>3. /\ Kept /\ dev' = Effect(Head(calls)) /\ Head(calls).call = "retry_scan"
      /\ calls' = (IF action = "ENROLL" THEN Vfuncs("AWAIT_FINGER_OFF") ELSE Told(dev')) \o rest
    BY <1>1 DEF CallLibrary, Pending, Kept
<1>4. dev' = Retried(dev)
    BY <1>2, <1>3 DEF Effect, Accepted
<1>5. RetryScan
    BY <1>3, <1>4 DEF RetryScan, Kept
<1>6. Vfuncs("AWAIT_FINGER_OFF") = Call("change_state", "AWAIT_FINGER_OFF")
    BY VfuncsAre DEF States
<1> QED
    BY <1>3, <1>5, <1>6, RetryScanMoves, ToldAre DEF Next, Driver

\* The call fpi_image_device_activate_complete is made.
LEMMA ActivationIsMade ==
    ASSUME ImageInv, DriversNext, NEW error \in {"none", "fatal", "cancelled"}, NEW rest,
           Pending("activate_complete", error, rest), dev.driver = "activating"
    PROVE  /\ Next /\ Kept /\ ErrorInv'
           /\ error = "none" => /\ Moves("AWAIT_FINGER_ON")
                                /\ calls' = Call("change_state", "AWAIT_FINGER_ON") \o rest
           /\ error # "none" => dev'.driver = "off" /\ calls' = <<>> \o rest
<1>1. /\ Kept /\ dev' = Effect(Head(calls)) /\ calls' = Told(dev') \o rest
      /\ Head(calls).call = "activate_complete" /\ Head(calls).arg = error
    BY LibraryMakes DEF LibraryCalls
<1>2. action \in CaptureActions /\ ~dev.active /\ dev.state = "ACTIVATING"
    BY DEF ImageInv, WorkBelongsToAction, DriverAndStateAgree
<1>3. dev' = ActivationEnded(dev, error)
    BY <1>1, <1>2 DEF Effect, Accepted
<1>4. ActivateComplete(error)
    BY <1>1, <1>3 DEF ActivateComplete, Kept
<1>5. Next
    BY <1>4 DEF Next, Driver, SessionError
<1>6. CASE error = "none"
    BY <1>1, <1>2, <1>4, <1>5, <1>6, ActivateMoves, ToldAre DEF Moves, States
<1>7. CASE error # "none"
    BY <1>1, <1>4, <1>5, <1>7, ActivateMoves DEF Told
<1> QED
    BY <1>6, <1>7

\* The call fpi_image_device_deactivate_complete is made.
LEMMA DeactivationIsMade ==
    ASSUME ImageInv, DriversNext, NEW error \in {"none", "fatal"}, NEW rest,
           Pending("deactivate_complete", error, rest), dev.driver = "deactivating"
    PROVE  /\ Next /\ Kept /\ ErrorInv' /\ dev'.driver = "off"
           /\ calls' = Call("change_state", "INACTIVE") \o rest
<1>1. /\ Kept /\ dev' = Effect(Head(calls)) /\ calls' = Told(dev') \o rest
      /\ Head(calls).call = "deactivate_complete" /\ Head(calls).arg = error
    BY LibraryMakes DEF LibraryCalls
<1>2. dev.active /\ dev.state = "DEACTIVATING"
    BY DEF ImageInv, DriverAndStateAgree
<1>3. dev' = MaybeCompleteAction(Deactivated(dev), error)
    BY <1>1, <1>2 DEF Effect, Accepted
<1>4. DeactivateComplete(error)
    BY <1>1, <1>3 DEF DeactivateComplete, Kept
<1> QED
    BY <1>1, <1>2, <1>4, DeactivateMoves, ToldAre DEF Next, Driver, States

\* A device whose deactivation is cancelled with its operation ends as one whose
\* deactivation succeeds.
LEMMA CancelledDeactivation ==
    ASSUME ImageInv, DriversNext, NEW rest, Pending("deactivate_complete", "cancelled", rest),
           dev.driver = "deactivating", cancel # "no", dev.minutiae_scan_active = FALSE,
           dev.action_error # "retry"
    PROVE  /\ Next /\ Kept /\ ErrorInv' /\ dev'.driver = "off"
           /\ calls' = Call("change_state", "INACTIVE") \o rest
<1>1. /\ Kept /\ dev' = Effect(Head(calls)) /\ calls' = Told(dev') \o rest
      /\ Head(calls).call = "deactivate_complete" /\ Head(calls).arg = "cancelled"
    BY LibraryMakes DEF LibraryCalls
<1>2. dev.active /\ dev.state = "DEACTIVATING"
    BY DEF ImageInv, DriverAndStateAgree
<1> DEFINE d == Deactivated(dev)
<1>3. dev' = MaybeCompleteAction(d, "cancelled")
    BY <1>1, <1>2 DEF Effect, Accepted
<1>4. /\ d.active = FALSE /\ d.minutiae_scan_active = FALSE
      /\ d.action_error = dev.action_error /\ dev.action_error \in {"none", "fatal", "cancelled"}
    <2>1. dev \in Device
        BY InvUnfailed
    <2>2. d = [[dev EXCEPT !.state = "INACTIVE",
                           !.invalid = @ \union ({<<dev.state, "INACTIVE">>} \ ValidTransitions)]
               EXCEPT !.active = FALSE, !.finger_present = FALSE, !.driver = "off"]
        BY DEF Deactivated, ChangeState
    <2> QED
        BY <2>1, <2>2 DEF Device, Errors
<1> HIDE DEF d
<1>5. MaybeCompleteAction(d, "cancelled") = MaybeCompleteAction(d, "none")
    BY <1>4 DEF MaybeCompleteAction, MayComplete, KeptError
<1>6. DeactivateComplete("none")
    BY <1>1, <1>3, <1>5 DEF DeactivateComplete, Kept, d
<1> QED
    BY <1>1, <1>2, <1>6, DeactivateMoves, ToldAre DEF Next, Driver, States

\* The call fpi_image_device_open_complete or close_complete is made.
LEMMA OpeningIsMade ==
    ASSUME ImageInv, DriversNext, NEW error \in {"none", "fatal"}, NEW rest,
           NEW name \in {"open_complete", "close_complete"}, Pending(name, error, rest),
           dev.driver = IF name = "open_complete" THEN "opening" ELSE "closing"
    PROVE  /\ Next /\ Kept /\ ErrorInv' /\ dev'.driver = "off"
           /\ Told(dev') \in {<<>>, Call("change_state", "INACTIVE")}
           /\ calls' = Told(dev') \o rest
<1>1. /\ Kept /\ dev' = Effect(Head(calls)) /\ calls' = Told(dev') \o rest
      /\ Head(calls).call = name /\ Head(calls).arg = error
    BY LibraryMakes DEF LibraryCalls
<1>2. ~dev.active /\ action = IF name = "open_complete" THEN "OPEN" ELSE "CLOSE"
    BY DEF ImageInv, WorkBelongsToAction, DriverAndStateAgree
<1>3. dev' = OpenedOrClosed(dev, error)
    BY <1>1, <1>2 DEF Effect, Accepted
<1>4. Next
    BY <1>1, <1>3 DEF Next, Driver, OpenComplete, CloseComplete, Kept
<1>5. dev'.state = "INACTIVE" /\ dev'.driver = "off" /\ ErrorInv'
    BY <1>3, OpenedOrClosedMoves
<1> QED
    BY <1>1, <1>4, <1>5, ToldAre DEF Told, States

\* Without a call to be made a source of the main loop is dispatched.
LEMMA OnlyMainLoop ==
    ASSUME DriversNext, calls = <<>> PROVE UserCalls \/ LibraryMainLoop \/ MainLoopOfDriver
BY DEF DriversNext, Calls, CallLibrary, OpenOrClose, NbVfuncs, NbActivate, NbChangeState,
       NbDeactivate, UruVfuncs, UruActivate, UruChangeState, UruImagingComplete,
       UruImageReported, ElanVfuncs, ElanActivate, ElanChangeState, ElanDeactivate, Vfunc

\* The user cancels an operation or calls for a device whose driver rests.
LEMMA UserStep ==
    ASSUME ImageInv, ErrorInv, calls = <<>>, UserCalls
    PROVE  /\ [Next]_vars /\ ErrorInv' /\ UNCHANGED <<driver, drv>>
           /\ \/ dev' = dev /\ action' = action /\ cancel' # "no" /\ calls' = <<>>
              \/ dev.driver = "off" /\ Outside'
<1>1. CASE LibraryRuns(Open) /\ calls' = None("open")
    <2>1. dev.driver = "off" /\ dev'.driver = "opening"
        BY <1>1, OpenMoves DEF LibraryRuns, Open, ImageInv, DriverAndStateAgree
    <2>2. ErrorInv' /\ Next
        BY <1>1, <2>1 DEF ErrorInv, LibraryRuns, Next, User
    <2> QED
        BY <1>1, <2>1, <2>2 DEF LibraryRuns, Outside, OutsideCalls
<1>2. CASE LibraryRuns(Close) /\ calls' = None("close")
    <2>1. dev.driver = "off" /\ dev'.driver = "closing"
        BY <1>2, CloseMoves DEF LibraryRuns, Close, ImageInv, DriverAndStateAgree
    <2>2. ErrorInv' /\ Next
        BY <1>2, <2>1 DEF ErrorInv, LibraryRuns, Next, User
    <2> QED
        BY <1>2, <2>1, <2>2 DEF LibraryRuns, Outside, OutsideCalls
<1>3. ASSUME NEW act \in CaptureActions, LibraryRuns(Start(act)),
             calls' = IF dev'.driver = "activating" THEN Vfuncs("ACTIVATING") ELSE <<>>
      PROVE  [Next]_vars /\ ErrorInv' /\ UNCHANGED <<driver, drv>> /\ dev.driver = "off" /\ Outside'
    <2>1. Start(act) /\ UNCHANGED <<driver, drv>>
        BY <1>3 DEF LibraryRuns
    <2>2. ErrorInv' /\ dev'.driver \in {"activating", "off"}
        BY <2>1, StartMoves
    <2>3. dev.driver = "off" /\ Next
        BY <2>1 DEF Start, ImageInv, DriverAndStateAgree, Next, User
    <2> QED
        BY <1>3, <2>1, <2>2, <2>3 DEF Outside, OutsideCalls
<1>4. CASE LibraryRuns(UserCancel) /\ calls' = <<>>
    <2>1. ErrorInv' /\ Next
        BY <1>4 DEF ErrorInv, LibraryRuns, UserCancel, Next, User
    <2> QED
        BY <1>4, <2>1 DEF LibraryRuns, UserCancel
<1> QED
    BY <1>1, <1>2, <1>3, <1>4 DEF UserCalls

\* The end of a scan, a cancellation and the return of the action.
LEMMA LibraryStep ==
    ASSUME ImageInv, ErrorInv, calls = <<>>, LibraryMainLoop
    PROVE  /\ [Next]_vars /\ ErrorInv' /\ UNCHANGED <<driver, drv>>
           /\ \/ dev.driver = "off" /\ Outside'
              \/ /\ action' = action /\ (cancel # "no" => cancel' # "no")
                 /\ \/ /\ Same /\ calls' = <<>>
                       /\ \/ SameScan /\ dev'.action_error = dev.action_error
                          \/ dev.minutiae_scan_active = TRUE /\ dev'.minutiae_scan_active = FALSE
                    \/ /\ dev.state = "IDLE" /\ Moves("AWAIT_FINGER_ON")
                       /\ calls' = Call("change_state", "AWAIT_FINGER_ON")
                    \/ /\ dev.driver = "running" /\ Stops /\ calls' = Vfuncs("DEACTIVATING")
                       /\ \/ /\ SameScan /\ cancel' # "no"
                             /\ dev'.action_error = dev.action_error
                          \/ /\ dev'.minutiae_scan_active = FALSE
                             /\ dev.state \in {"IDLE", "AWAIT_FINGER_OFF"}
<1>1. CASE LibraryRuns(CancelAction) /\ calls' = Told(dev')
    <2>1. CancelAction /\ UNCHANGED <<driver, drv>> /\ cancel' = "called" /\ action' = action
        BY <1>1 DEF LibraryRuns, CancelAction
    <2>2. Next
        BY <2>1 DEF Next, MainLoop
    <2>3. dev.driver = "running" => dev.state # "DEACTIVATING"
        BY DEF ImageInv, DriverAndStateAgree
    <2> QED
        BY <1>1, <2>1, <2>2, <2>3, CancelMoves, ToldAre
<1>2. CASE LibraryRuns(ReturnInIdle) /\ calls' = <<>>
    <2>1. ReturnInIdle /\ UNCHANGED <<driver, drv>>
        BY <1>2 DEF LibraryRuns
    <2>2. ErrorInv' /\ dev.driver = "off" /\ dev'.driver = "off" /\ Next
        BY <2>1, ReturnMoves DEF Next, MainLoop
    <2> QED
        BY <1>2, <2>1, <2>2 DEF Outside, OutsideCalls
<1>3. ASSUME NEW outcome \in Outcomes, LibraryRuns(MinutiaeDetected(outcome)),
             calls' = Told(dev')
      PROVE  /\ Next /\ ErrorInv' /\ UNCHANGED <<driver, drv, action, cancel>>
             /\ dev.minutiae_scan_active = TRUE /\ dev'.minutiae_scan_active = FALSE
             /\ \/ Same /\ calls' = <<>>
                \/ /\ dev.state = "IDLE" /\ Moves("AWAIT_FINGER_ON")
                   /\ calls' = Call("change_state", "AWAIT_FINGER_ON")
                \/ /\ dev.driver = "running" /\ Stops /\ calls' = Vfuncs("DEACTIVATING")
                   /\ dev.state \in {"IDLE", "AWAIT_FINGER_OFF"}
    <2>1. MinutiaeDetected(outcome) /\ UNCHANGED <<driver, drv, action, cancel>>
        BY <1>3 DEF LibraryRuns, MinutiaeDetected
    <2>2. Next
        BY <2>1 DEF Next, MainLoop
    <2>3. dev.minutiae_scan_active = TRUE
        BY <2>1, InvUnfailed DEF MinutiaeDetected, Device
    <2>4. dev.driver = "running" => dev.state \in {"IDLE", "AWAIT_FINGER_OFF"}
        BY <2>3 DEF ImageInv, DriverAndStateAgree, OneScanAtATime
    <2> QED
        BY <1>3, <2>1, <2>2, <2>3, <2>4, DetectedMoves, ToldAre DEF Moves, States
<1> QED
    BY <1>1, <1>2, <1>3 DEF LibraryMainLoop

\* The calls with which the driver is not at work yet or no longer.
LEMMA OutsideMakes ==
    ASSUME ImageInv, ErrorInv, DriversNext, Outside, calls # <<>>
    PROVE  \/ [Next]_vars /\ ErrorInv' /\ UNCHANGED <<driver, drv>> /\ Outside'
           \/ dev.driver = "off" /\ Pending("change_state", "INACTIVE", <<>>)
           \/ dev.driver = "activating"
                  /\ Pending("change_state", "ACTIVATING", Call("activate", "none"))
           \/ dev.driver = "activating" /\ Pending("activate", "none", <<>>)
<1>1. CASE dev.driver = "off"
    <2>1. calls = Call("change_state", "INACTIVE")
        BY <1>1 DEF Outside, OutsideCalls
    <2> QED
        BY <1>1, <2>1, OneCall
<1>2. CASE dev.driver = "activating"
    <2>1. \/ calls = Call("change_state", "ACTIVATING") \o Call("activate", "none")
          \/ calls = Call("activate", "none")
        BY <1>2, VfuncsAre DEF Outside, OutsideCalls, None
    <2> QED
        BY <1>2, <2>1, OneCall, TwoCalls
<1>3. ASSUME NEW name \in {"open", "close"}, calls = Call(name, "none"),
             dev.driver = IF name = "open" THEN "opening" ELSE "closing"
      PROVE  [Next]_vars /\ ErrorInv' /\ UNCHANGED <<driver, drv>> /\ Outside'
    <2>1. Pending(name, "none", <<>>)
        BY <1>3, OneCall
    <2>2. PICK error \in {"none", "fatal"} :
              Returns(drv, Call(IF name = "open" THEN "open_complete" ELSE "close_complete", error))
        BY <2>1, OnlyCalls
    <2> DEFINE done == IF name = "open" THEN "open_complete" ELSE "close_complete"
    <2>3. calls' = Call(done, error) /\ UNCHANGED <<libraryVars, driver, drv>>
        BY <2>1, <2>2, OneCall DEF Returns, Pending
    <2>4. [Next]_vars /\ ErrorInv'
        BY <2>3 DEF libraryVars, vars, ErrorInv
    <2> QED
        BY <1>3, <2>3, <2>4 DEF Outside, OutsideCalls, libraryVars
<1>4. ASSUME NEW name \in {"open_complete", "close_complete"}, NEW error \in {"none", "fatal"},
             calls = Call(name, error),
             dev.driver = IF name = "open_complete" THEN "opening" ELSE "closing"
      PROVE  [Next]_vars /\ ErrorInv' /\ UNCHANGED <<driver, drv>> /\ Outside'
    <2>1. Pending(name, error, <<>>)
        BY <1>4, OneCall
    <2>2. /\ Next /\ Kept /\ ErrorInv' /\ dev'.driver = "off"
          /\ Told(dev') \in {<<>>, Call("change_state", "INACTIVE")}
          /\ calls' = Told(dev') \o <<>>
        BY <1>4, <2>1, OpeningIsMade
    <2>3. <<>> \o <<>> = <<>>
        BY WithoutMore
    <2>4. calls' \in {<<>>, Call("change_state", "INACTIVE")}
        BY <2>2, <2>3, OneCall
    <2> QED
        BY <2>2, <2>4 DEF Outside, OutsideCalls, Kept
<1>5. CASE dev.driver = "opening"
    <2>1. \/ calls = Call("open", "none")
          \/ calls = Call("open_complete", "none") \/ calls = Call("open_complete", "fatal")
        BY <1>5 DEF Outside, OutsideCalls, None
    <2> QED
        BY <1>3, <1>4, <1>5, <2>1
<1>6. CASE dev.driver = "closing"
    <2>1. \/ calls = Call("close", "none")
          \/ calls = Call("close_complete", "none") \/ calls = Call("close_complete", "fatal")
        BY <1>6 DEF Outside, OutsideCalls, None
    <2> QED
        BY <1>3, <1>4, <1>6, <2>1
<1> QED
    BY <1>1, <1>2, <1>5, <1>6 DEF Outside, OutsideCalls

\* A step of the driver that leaves the library alone.
LEMMA RunsKeep ==
    ASSUME ErrorInv, UNCHANGED libraryVars PROVE [Next]_vars /\ ErrorInv'
BY DEF libraryVars, vars, ErrorInv

\* The machine goes on in another state, or ends as it was told.
LEMMA NbRunningGoesOn ==
    ASSUME ImageInv, driver = "nb1010", NbRuns, NEW d \in NbData, d.ssm # "none",
           d.deactivating = FALSE, Runs(d, <<>>),
           \/ dev.state = "AWAIT_FINGER_ON" /\ d.ssm \in NbPolling
           \/ dev.state = "CAPTURE" /\ d.ssm \in NbReading
    PROVE  NbInv'
BY DEF NbInv, NbRuns, Runs, libraryVars

\* The delay between two polls is over.
LEMMA NbTimeoutKeeps ==
    ASSUME ImageInv, driver = "nb1010", NbInv, calls = <<>>, NbRuns \/ NbStops, NbTimeout
    PROVE  NbInv' /\ UNCHANGED <<libraryVars, driver>>
<1>1. drv.ssm = "WAIT_PRINT" /\ drv \in NbData
    BY DEF NbTimeout, NbInv
<1>2. CASE NbRuns
    <2> DEFINE d == [drv EXCEPT !.ssm = "REQUEST_PRINT", !.reply = FALSE]
    <2>1. Runs(d, <<>>)
        BY <1>1, <1>2 DEF NbTimeout, NbEnter, NbRuns
    <2>2. d \in NbData /\ d.ssm = "REQUEST_PRINT" /\ d.deactivating = FALSE
        <3>1. drv.deactivating = FALSE
            BY <1>2 DEF NbRuns
        <3> QED
            BY <1>1, <3>1 DEF NbData, NbPolling
    <2>3. dev.state = "AWAIT_FINGER_ON"
        BY <1>1, <1>2 DEF NbRuns, NbReading, NbCancelled
    <2> HIDE DEF d
    <2> QED
        <3>1. NbInv'
            BY <1>2, <2>1, <2>2, <2>3, NbRunningGoesOn DEF NbPolling
        <3> QED
            BY <2>1, <3>1 DEF Runs
<1>3. CASE NbStops
    <2>1. Runs([drv EXCEPT !.ssm = "none"], Call("deactivate_complete", "none"))
        BY <1>1, <1>3 DEF NbTimeout, NbEnter, NbStops, NbLoopComplete
    <2> QED
        BY <1>1, <1>3, <2>1 DEF NbInv, NbStops, NbIsStopped, Runs, NbData, libraryVars
<1> QED
    BY <1>2, <1>3

\* The machine that was to be deactivated has ended.
LEMMA NbEnds ==
    ASSUME NbStops, NEW d \in NbData, NEW error \in {"none", "fatal", "cancelled"},
           error = "cancelled" => cancel # "no",
           Runs([d EXCEPT !.ssm = "none"], Call("deactivate_complete", error))
    PROVE  NbInv'
<1>1. [d EXCEPT !.ssm = "none"] \in NbData /\ [d EXCEPT !.ssm = "none"].ssm = "none"
    BY DEF NbData
<1>2. /\ drv' \in NbData /\ drv'.ssm = "none" /\ calls' = Call("deactivate_complete", error)
      /\ UNCHANGED libraryVars
    BY <1>1 DEF Runs
<1>3. NbIsStopped'
    BY <1>2 DEF NbIsStopped, NbStops, NbUnscanned, libraryVars
<1> QED
    BY <1>2, <1>3 DEF NbInv

\* A transfer of a driver that is to be stopped ends.
LEMMA NbStopsKeeps ==
    ASSUME driver = "nb1010", NbInv, NbStops, NbTransfer, ~ErrorsDuringEnrollScan
    PROVE  NbInv' /\ UNCHANGED <<libraryVars, driver>>
<1>1. drv \in NbData /\ drv.deactivating = TRUE /\ drv.ssm \notin {"none", "WAIT_PRINT"}
    BY DEF NbTransfer, NbInv, NbStops
<1> DEFINE Ends(d, error) ==
               Runs([d EXCEPT !.ssm = "none"], Call("deactivate_complete", error))
<1>2. ASSUME NEW d \in NbData, NEW error \in {"none", "fatal", "cancelled"},
             error = "cancelled" => cancel # "no", Ends(d, error)
      PROVE  NbInv' /\ UNCHANGED <<libraryVars, driver>>
    <2>1. NbInv'
        BY <1>2, NbEnds
    <2> QED
        BY <1>2, <2>1 DEF Runs
<1> DEFINE e == [drv EXCEPT !.partial_received = 0]
<1>3. e \in NbData /\ e.deactivating = TRUE
    BY <1>1 DEF NbData
<1>4. PICK error \in ActionOutcomes :
          IF error # "none" THEN NbLoopComplete(drv, error) ELSE NbTransferred
    BY DEF NbTransfer
<1>5. error \in {"none", "fatal", "cancelled"} /\ (error = "cancelled" => cancel # "no")
    BY DEF ActionOutcomes, TransferOutcomes
<1>6. CASE error # "none"
    BY <1>1, <1>2, <1>4, <1>5, <1>6 DEF NbLoopComplete
<1>7. ASSUME NEW d \in NbData, d.deactivating = TRUE, NbLoopComplete(d, "none")
      PROVE  NbInv' /\ UNCHANGED <<libraryVars, driver>>
    <2>1. Ends(d, "none")
        BY <1>7 DEF NbLoopComplete
    <2> QED
        BY <1>2, <2>1
<1>8. CASE error = "none"
    <2> HIDE DEF e
    <2>1. NbTransferred
        BY <1>4, <1>8
    <2>2. \/ NbLoopComplete(drv, "none")
          \/ NbLoopComplete(e, "none")
        <3>1. drv.ssm \in {"REQUEST_PRINT", "CHECK_PRINT", "READ_PRINT_PRESTART",
                           "READ_PRINT_START", "READ_PRINT_POLL"}
            BY <1>1 DEF NbData, NbPolling, NbReading
        <3>2. \A next, more : /\ NbEnter(drv, next, more) => NbLoopComplete(drv, "none")
                              /\ NbEnter(e, next, more) => NbLoopComplete(e, "none")
            BY <1>1, <1>3 DEF NbEnter
        <3>3. CASE drv.ssm = "REQUEST_PRINT"
            BY <2>1, <3>2, <3>3 DEF NbTransferred
        <3>4. CASE drv.ssm = "CHECK_PRINT"
            BY <2>1, <3>2, <3>4 DEF NbTransferred, NbCheckFingerprint
        <3>5. CASE drv.ssm \in {"READ_PRINT_PRESTART", "READ_PRINT_START"}
            <4>1. \E next : NbIgnoreData(next)
                BY <2>1, <3>5 DEF NbTransferred
            <4> QED
                BY <1>1, <3>2, <4>1 DEF NbIgnoreData, e
        <3>6. CASE drv.ssm = "READ_PRINT_POLL"
            BY <1>1, <2>1, <3>6 DEF NbTransferred, NbReadCapture
        <3> QED
            BY <3>1, <3>3, <3>4, <3>5, <3>6
    <2> QED
        BY <1>1, <1>3, <1>7, <2>2
<1> QED
    BY <1>6, <1>8

\* A transfer of a driver that polls or reads ends.
LEMMA NbRunsKeeps ==
    ASSUME ImageInv, driver = "nb1010", NbInv, NbRuns, NbTransfer, ~ErrorsDuringEnrollScan
    PROVE  NbInv' /\ UNCHANGED <<libraryVars, driver>>
<1>1. /\ drv \in NbData /\ drv.deactivating = FALSE /\ drv.ssm \notin {"none", "WAIT_PRINT"}
      /\ dev.driver = "running" /\ dev.state \in {"AWAIT_FINGER_ON", "CAPTURE"}
      /\ dev.state = "AWAIT_FINGER_ON" <=> drv.ssm \in {"REQUEST_PRINT", "CHECK_PRINT"}
      /\ dev.state = "CAPTURE" <=> drv.ssm \in NbReading
    BY DEF NbTransfer, NbInv, NbRuns, NbCancelled, NbPolling, NbReading
<1>2. PICK error \in ActionOutcomes :
          IF error # "none" THEN NbLoopComplete(drv, error) ELSE NbTransferred
    BY DEF NbTransfer
<1>3. CASE error # "none"
    <2>1. Runs([drv EXCEPT !.ssm = "none"], Call("session_error", error))
        BY <1>1, <1>2, <1>3 DEF NbLoopComplete
    <2>2. [drv EXCEPT !.ssm = "none"] \in NbData /\ [drv EXCEPT !.ssm = "none"].ssm = "none"
            /\ [drv EXCEPT !.ssm = "none"].deactivating = FALSE
        BY <1>1 DEF NbData
    <2>3. /\ drv' \in NbData /\ drv'.ssm = "none" /\ drv'.deactivating = FALSE
          /\ calls' = Call("session_error", error) /\ UNCHANGED <<libraryVars, driver>>
        BY <2>1, <2>2 DEF Runs
    <2>4. error = "fatal" \/ (error = "cancelled" /\ cancel # "no")
        BY <1>3 DEF ActionOutcomes, TransferOutcomes
    <2>5. NbReports'
        BY <1>1, <2>3, <2>4 DEF NbReports, libraryVars
    <2> QED
        BY <2>3, <2>5 DEF NbInv
<1>4. CASE error = "none"
    <2>1. NbTransferred
        BY <1>2, <1>4
    <2>2. ASSUME NEW d \in NbData, d.ssm # "none", d.deactivating = FALSE, Runs(d, <<>>),
                 \/ dev.state = "AWAIT_FINGER_ON" /\ d.ssm \in NbPolling
                 \/ dev.state = "CAPTURE" /\ d.ssm \in NbReading
          PROVE  NbInv' /\ UNCHANGED <<libraryVars, driver>>
        <3>1. NbInv'
            BY <2>2, NbRunningGoesOn
        <3> QED
            BY <2>2, <3>1 DEF Runs
    <2> DEFINE In(d, state) == [d EXCEPT !.ssm = state, !.reply = FALSE]
    <2>3. ASSUME NEW d \in NbData, d.deactivating = FALSE,
                 NEW state \in NbPolling \union NbReading
          PROVE  /\ In(d, state) \in NbData /\ In(d, state).ssm = state /\ state # "none"
                 /\ In(d, state).deactivating = FALSE
                 /\ \A more : NbEnter(d, state, more) => Runs(In(d, state), more)
        BY <2>3 DEF NbData, NbEnter, NbPolling, NbReading
    <2> HIDE DEF In
    <2>4. CASE drv.ssm = "REQUEST_PRINT"
        <3>1. Runs(In(drv, "CHECK_PRINT"), <<>>)
            BY <1>1, <2>1, <2>3, <2>4 DEF NbTransferred, NbPolling
        <3> QED
            BY <1>1, <2>2, <2>3, <2>4, <3>1 DEF NbPolling
    <2>5. CASE drv.ssm = "CHECK_PRINT"
        <3>1. \/ Runs(In(drv, "WAIT_PRINT"), <<>>)
              \/ Runs(In(drv, "READ_PRINT_PRESTART"), Call("report_finger_status", "on"))
            BY <1>1, <2>1, <2>3, <2>5 DEF NbTransferred, NbCheckFingerprint, NbPolling, NbReading
        <3>2. CASE Runs(In(drv, "WAIT_PRINT"), <<>>)
            BY <1>1, <2>2, <2>3, <2>5, <3>2 DEF NbPolling
        <3>3. CASE Runs(In(drv, "READ_PRINT_PRESTART"), Call("report_finger_status", "on"))
            <4>1. /\ drv' \in NbData /\ drv'.ssm = "READ_PRINT_PRESTART"
                  /\ drv'.deactivating = FALSE /\ UNCHANGED <<libraryVars, driver>>
                  /\ calls' = Call("report_finger_status", "on")
                BY <1>1, <2>3, <3>3 DEF Runs, NbReading
            <4>2. NbReports'
                BY <1>1, <2>5, <4>1 DEF NbReports, libraryVars
            <4> QED
                BY <4>1, <4>2 DEF NbInv
        <3> QED
            BY <3>1, <3>2, <3>3
    <2>6. ASSUME NEW next \in NbReading, drv.ssm \in {"READ_PRINT_PRESTART", "READ_PRINT_START"},
                 NbIgnoreData(next)
          PROVE  NbInv' /\ UNCHANGED <<libraryVars, driver>>
        <3> DEFINE r == [drv EXCEPT !.reply = TRUE]
                   z == [drv EXCEPT !.partial_received = 0]
        <3>1. /\ r \in NbData /\ r.ssm = drv.ssm /\ r.deactivating = FALSE
              /\ z \in NbData /\ z.deactivating = FALSE
            BY <1>1 DEF NbData
        <3>2. Runs(r, <<>>) \/ NbEnter(z, next, <<>>)
            BY <2>6 DEF NbIgnoreData
        <3> HIDE DEF r, z
        <3>3. drv.ssm \in NbReading
            BY <2>6 DEF NbReading
        <3>4. CASE Runs(r, <<>>)
            BY <1>1, <2>2, <3>1, <3>3, <3>4
        <3>5. CASE NbEnter(z, next, <<>>)
            <4>1. Runs(In(z, next), <<>>) /\ In(z, next) \in NbData /\ In(z, next).ssm = next
                    /\ next # "none" /\ In(z, next).deactivating = FALSE
                BY <2>3, <3>1, <3>5
            <4> QED
                BY <1>1, <2>2, <3>3, <4>1
        <3> QED
            BY <3>2, <3>4, <3>5
    <2>7. CASE drv.ssm = "READ_PRINT_POLL"
        <3> DEFINE r == [drv EXCEPT !.partial_received = @ + 1]
        <3>1. r \in NbData /\ r.ssm = drv.ssm /\ r.deactivating = FALSE
            BY <1>1 DEF NbData
        <3>2. NbReadCapture
            BY <2>1, <2>7 DEF NbTransferred
        <3>3. Runs(r, <<>>) \/ NbSubmitPrint(r)
            BY <1>1, <3>2 DEF NbReadCapture
        <3> HIDE DEF r
        <3>4. CASE Runs(r, <<>>)
            BY <1>1, <2>2, <2>7, <3>1, <3>4 DEF NbReading
        <3>5. CASE NbSubmitPrint(r)
            <4>1. Runs([r EXCEPT !.ssm = "none"],
                       None("image_captured") \o Call("report_finger_status", "off"))
                BY <3>1, <3>5 DEF NbSubmitPrint
            <4>2. [r EXCEPT !.ssm = "none"] \in NbData /\ [r EXCEPT !.ssm = "none"].ssm = "none"
                    /\ [r EXCEPT !.ssm = "none"].deactivating = FALSE
                BY <3>1 DEF NbData
            <4>3. /\ drv' \in NbData /\ drv'.ssm = "none" /\ drv'.deactivating = FALSE
                  /\ UNCHANGED <<libraryVars, driver>>
                  /\ calls' = None("image_captured") \o Call("report_finger_status", "off")
                BY <4>1, <4>2 DEF Runs
            <4>4. NbReports'
                BY <1>1, <2>7, <4>3 DEF NbReports, libraryVars, NbReading
            <4> QED
                BY <4>3, <4>4 DEF NbInv
        <3> QED
            BY <3>3, <3>4, <3>5
    <2>8. drv.ssm \in {"REQUEST_PRINT", "CHECK_PRINT", "READ_PRINT_PRESTART",
                       "READ_PRINT_START", "READ_PRINT_POLL"}
        BY <1>1 DEF NbData, NbPolling, NbReading
    <2> QED
        BY <2>1, <2>4, <2>5, <2>6, <2>7, <2>8 DEF NbTransferred, NbReading
<1> QED
    BY <1>3, <1>4

\* Calls that are followed by no other.
LEMMA NoMore ==
    /\ <<>> \o <<>> = <<>>
    /\ Vfuncs("DEACTIVATING") \o <<>> = Vfuncs("DEACTIVATING")
    /\ \A name, arg : /\ Call(name, arg) \o <<>> = Call(name, arg)
                      /\ <<>> \o Call(name, arg) = Call(name, arg)
    /\ \A name : None(name) = Call(name, "none") /\ None(name) \o <<>> = None(name)
BY OneCall, TwoCalls, VfuncsAre, WithoutMore DEF None

\* Neither a call nor two calls are an empty list.
LEMMA NotEmpty ==
    /\ \A name, arg : Call(name, arg) # <<>>
    /\ \A name : None(name) # <<>>
    /\ Vfuncs("DEACTIVATING") # <<>>
    /\ \A name, arg, second, its : Call(name, arg) \o Call(second, its) # <<>>
    /\ \A name, second, its : None(name) \o Call(second, its) # <<>>
<1>1. \A name, arg : Call(name, arg) # <<>>
    BY DEF Call
<1>2. ASSUME NEW name, NEW arg, NEW second, NEW its
      PROVE  Call(name, arg) \o Call(second, its) # <<>>
    <2> DEFINE c == [call |-> name, arg |-> arg]
               d == [call |-> second, arg |-> its]
               S == {c, d}
    <2>1. c \in S /\ <<d>> \in Seq(S)
        OBVIOUS
    <2>2. <<c>> \o <<d>> # <<>>
        BY <2>1, HeadBefore
    <2> QED
        BY <2>2 DEF Call
<1> QED
    BY <1>1, <1>2, VfuncsAre DEF None

\* What the vfuncs of nb1010 change.
LEMMA NbVfuncMakes ==
    ASSUME DriversNext, driver = "nb1010", NEW name \in {"activate", "change_state", "deactivate"},
           NEW arg, NEW rest, Pending(name, arg, rest)
    PROVE  /\ UNCHANGED <<libraryVars, driver>>
           /\ name = "activate" => /\ drv' = [drv EXCEPT !.deactivating = FALSE]
                                   /\ calls' = None("activate_complete") \o rest
           /\ name = "deactivate" =>
                  /\ drv' = [drv EXCEPT !.deactivating = TRUE]
                  /\ drv.ssm = "none" => calls' = None("deactivate_complete") \o rest
                  /\ drv.ssm # "none" => calls' = <<>> \o rest
           /\ name = "change_state" =>
                  /\ calls' = <<>> \o rest
                  /\ drv' = IF arg # "AWAIT_FINGER_ON" THEN drv
                            ELSE [drv EXCEPT !.ssm = IF @ = "none" THEN "WAIT_PRINT"
                                                     ELSE "replaced"]
<1>1. NbActivate \/ NbChangeState \/ NbDeactivate
    BY OnlyCalls DEF LibraryCalls, NbVfuncs, UruVfuncs, ElanVfuncs
<1>2. Head(calls).call = name /\ Head(calls).arg = arg /\ Tail(calls) = rest
    BY DEF Pending
<1>3. CASE name = "activate"
    BY <1>1, <1>2, <1>3 DEF NbActivate, NbChangeState, NbDeactivate, Vfunc, Returns
<1>4. CASE name = "deactivate"
    BY <1>1, <1>2, <1>4 DEF NbActivate, NbChangeState, NbDeactivate, Vfunc, Returns
<1>5. CASE name = "change_state"
    BY <1>1, <1>2, <1>5 DEF NbActivate, NbChangeState, NbDeactivate, Vfunc, Returns
<1> QED
    BY <1>3, <1>4, <1>5

\* What the driver reports.
LEMMA NbReportsKeeps ==
    ASSUME ImageInv, ErrorInv, NbInv, driver = "nb1010", NbReports, DriversNext
    PROVE  [Next]_vars /\ ErrorInv' /\ NbInv' /\ driver' = driver
<1>0. drv \in NbData /\ dev.driver = "running" /\ drv.deactivating = FALSE
    BY DEF NbInv, NbReports
<1>1. CASE calls = None("image_captured") \o Call("report_finger_status", "off")
           /\ dev.state = "CAPTURE" /\ drv.ssm = "none"
    <2>1. Pending("image_captured", "none", Call("report_finger_status", "off"))
        BY <1>1, TwoCalls, NoMore
    <2>2. /\ Next /\ Kept /\ Moves("AWAIT_FINGER_OFF") /\ ErrorInv'
          /\ calls' = Call("change_state", "AWAIT_FINGER_OFF")
                      \o Call("report_finger_status", "off")
        BY <1>0, <1>1, <2>1, ImageIsMade
    <2>3. NbReports'
        BY <1>0, <1>1, <2>2 DEF NbReports, Kept, Moves
    <2> QED
        BY <1>0, <2>2, <2>3 DEF NbInv, Kept
<1>2. CASE calls = Call("change_state", "AWAIT_FINGER_OFF") \o Call("report_finger_status", "off")
           /\ dev.state = "AWAIT_FINGER_OFF" /\ drv.ssm = "none"
    <2>1. Pending("change_state", "AWAIT_FINGER_OFF", Call("report_finger_status", "off"))
        BY <1>2, TwoCalls
    <2>2. /\ UNCHANGED <<libraryVars, driver, drv>>
          /\ calls' = Call("report_finger_status", "off")
        BY <2>1, NbVfuncMakes, NoMore
    <2>3. NbReports'
        BY <1>0, <1>2, <2>2 DEF NbReports, libraryVars
    <2> QED
        BY <1>0, <2>2, <2>3, RunsKeep DEF NbInv
<1>3. CASE calls = Call("report_finger_status", "off")
           /\ dev.state = "AWAIT_FINGER_OFF" /\ drv.ssm = "none"
    <2>1. Pending("report_finger_status", "off", <<>>)
        BY <1>3, OneCall
    <2>2. /\ Next /\ Kept /\ ErrorInv' /\ calls' = Told(dev') \o <<>>
          /\ \/ Moves("IDLE") /\ Told(dev') = Call("change_state", "IDLE")
             \/ /\ Moves("AWAIT_FINGER_ON")
                /\ Told(dev') = Call("change_state", "AWAIT_FINGER_ON")
             \/ Stops /\ Told(dev') = Vfuncs("DEACTIVATING")
        BY <1>0, <1>3, <2>1, ReportIsMade
    <2>3. \/ Moves("IDLE") /\ calls' = Call("change_state", "IDLE")
          \/ Moves("AWAIT_FINGER_ON") /\ calls' = Call("change_state", "AWAIT_FINGER_ON")
          \/ Stops /\ calls' = Vfuncs("DEACTIVATING")
        BY <2>2, NoMore
    <2>4. NbIsTold' \/ NbIsStopped'
        BY <1>0, <1>3, <2>2, <2>3 DEF NbIsTold, NbIsStopped, Kept, Moves, Stops
    <2> QED
        BY <1>0, <2>2, <2>4 DEF NbInv, Kept
<1>4. CASE calls = Call("report_finger_status", "on")
           /\ dev.state = "AWAIT_FINGER_ON" /\ drv.ssm = "READ_PRINT_PRESTART"
    <2>1. Pending("report_finger_status", "on", <<>>)
        BY <1>4, OneCall
    <2>2. /\ Next /\ Kept /\ ErrorInv' /\ calls' = Told(dev') \o <<>>
          /\ Moves("CAPTURE") /\ Told(dev') = Call("change_state", "CAPTURE")
        BY <1>0, <1>4, <2>1, ReportIsMade
    <2>3. NbIsTold'
        BY <1>0, <1>4, <2>2, NoMore DEF NbIsTold, Kept, Moves
    <2> QED
        BY <1>0, <2>2, <2>3 DEF NbInv, Kept
<1>5. CASE /\ \/ calls = Call("session_error", "fatal")
              \/ calls = Call("session_error", "cancelled") /\ cancel # "no"
           /\ dev.state \in {"AWAIT_FINGER_ON", "CAPTURE"} /\ drv.ssm = "none"
    <2>0. ~dev.minutiae_scan_active
        BY <1>5 DEF ImageInv, OneScanAtATime
    <2>1. CASE calls = Call("session_error", "fatal")
        <3>1. Pending("session_error", "fatal", <<>>)
            BY <2>1, OneCall
        <3>2. /\ Next /\ Kept /\ Stops /\ ErrorInv'
              /\ calls' = Vfuncs("DEACTIVATING") \o <<>>
            BY <1>0, <2>0, <3>1, SessionErrorIsMade
        <3>3. NbIsStopped'
            BY <1>5, <3>2, NoMore DEF NbIsStopped, Kept, Stops
        <3> QED
            BY <1>0, <3>2, <3>3 DEF NbInv, Kept
    <2>2. CASE calls = Call("session_error", "cancelled") /\ cancel # "no"
        <3>1. Pending("session_error", "cancelled", <<>>)
            BY <2>2, OneCall
        <3>2. dev' = dev /\ Kept /\ calls' = <<>>
            BY <1>0, <2>2, <3>1, SessionErrorIsMade, NoMore
        <3>3. NbRuns'
            BY <1>0, <1>5, <2>2, <3>2 DEF NbRuns, NbCancelled, Kept
        <3> QED
            BY <1>0, <3>2, <3>3, RunsKeep DEF NbInv, Kept, libraryVars
    <2> QED
        BY <1>5, <2>1, <2>2
<1> QED
    BY <1>1, <1>2, <1>3, <1>4, <1>5 DEF NbReports

\* What the driver is told while an operation runs.
LEMMA NbIsToldKeeps ==
    ASSUME ImageInv, ErrorInv, NbInv, driver = "nb1010", NbIsTold, DriversNext
    PROVE  [Next]_vars /\ ErrorInv' /\ NbInv' /\ driver' = driver
<1>0. drv \in NbData /\ dev.driver = "running" /\ drv.deactivating = FALSE
    BY DEF NbInv, NbIsTold
<1>1. CASE calls = Call("change_state", "AWAIT_FINGER_ON")
           /\ dev.state = "AWAIT_FINGER_ON" /\ drv.ssm = "none"
    <2>1. Pending("change_state", "AWAIT_FINGER_ON", <<>>)
        BY <1>1, OneCall
    <2>2. /\ UNCHANGED <<libraryVars, driver>> /\ calls' = <<>>
          /\ drv' = [drv EXCEPT !.ssm = IF @ = "none" THEN "WAIT_PRINT" ELSE "replaced"]
        BY <2>1, NbVfuncMakes, NoMore
    <2>3. drv' = [drv EXCEPT !.ssm = "WAIT_PRINT"]
        BY <1>1, <2>2
    <2>4. drv' \in NbData /\ drv'.ssm = "WAIT_PRINT" /\ drv'.deactivating = FALSE
        BY <1>0, <2>3 DEF NbData, NbPolling
    <2>5. NbRuns'
        BY <1>0, <1>1, <2>2, <2>4 DEF NbRuns, libraryVars, NbPolling
    <2> QED
        BY <2>2, <2>4, <2>5, RunsKeep DEF NbInv
<1>2. CASE /\ drv.ssm = "READ_PRINT_PRESTART" /\ dev.state = "CAPTURE"
           /\ calls = Call("change_state", "CAPTURE")
    <2>1. Pending("change_state", "CAPTURE", <<>>)
        BY <1>2, OneCall
    <2>2. UNCHANGED <<libraryVars, driver, drv>> /\ calls' = <<>>
        BY <2>1, NbVfuncMakes, NoMore
    <2>3. NbRuns'
        BY <1>0, <1>2, <2>2 DEF NbRuns, libraryVars, NbReading
    <2> QED
        BY <1>0, <2>2, <2>3, RunsKeep DEF NbInv
<1>3. CASE /\ drv.ssm = "none" /\ dev.state = "IDLE" /\ calls = Call("change_state", "IDLE")
    <2>1. Pending("change_state", "IDLE", <<>>)
        BY <1>3, OneCall
    <2>2. UNCHANGED <<libraryVars, driver, drv>> /\ calls' = <<>>
        BY <2>1, NbVfuncMakes, NoMore
    <2>3. NbRuns'
        BY <1>0, <1>3, <2>2 DEF NbRuns, libraryVars
    <2> QED
        BY <1>0, <2>2, <2>3, RunsKeep DEF NbInv
<1> QED
    BY <1>1, <1>2, <1>3 DEF NbIsTold

\* The deactivation of the driver.
LEMMA NbIsStoppedKeeps ==
    ASSUME ImageInv, ErrorInv, NbInv, driver = "nb1010", NbIsStopped, DriversNext
    PROVE  [Next]_vars /\ ErrorInv' /\ NbInv' /\ driver' = driver
<1>0. drv \in NbData /\ dev.driver = "deactivating"
    BY DEF NbInv, NbIsStopped
<1>1. CASE calls = Vfuncs("DEACTIVATING") /\ (drv.ssm # "none" => NbUnscanned)
    <2>1. Pending("change_state", "DEACTIVATING", Call("deactivate", "none"))
        BY <1>1, VfuncsAre, TwoCalls
    <2>2. UNCHANGED <<libraryVars, driver, drv>> /\ calls' = None("deactivate")
        BY <2>1, NbVfuncMakes, NoMore
    <2>3. NbIsStopped'
        BY <1>0, <1>1, <2>2 DEF NbIsStopped, libraryVars, NbUnscanned
    <2> QED
        BY <1>0, <2>2, <2>3, RunsKeep DEF NbInv
<1>2. CASE calls = None("deactivate") /\ (drv.ssm # "none" => NbUnscanned)
    <2>1. Pending("deactivate", "none", <<>>)
        BY <1>2, OneCall, NoMore
    <2>2. /\ UNCHANGED <<libraryVars, driver>>
          /\ drv' = [drv EXCEPT !.deactivating = TRUE]
          /\ drv.ssm = "none" => calls' = None("deactivate_complete") \o <<>>
          /\ drv.ssm # "none" => calls' = <<>> \o <<>>
        BY <2>1, NbVfuncMakes
    <2>3. drv' \in NbData /\ drv'.ssm = drv.ssm /\ drv'.deactivating = TRUE
        BY <1>0, <2>2 DEF NbData
    <2>4. CASE drv.ssm = "none"
        <3>1. NbIsStopped'
            BY <1>0, <2>2, <2>3, <2>4, NoMore DEF NbIsStopped, libraryVars
        <3> QED
            BY <2>2, <2>3, <3>1, RunsKeep DEF NbInv
    <2>5. CASE drv.ssm # "none"
        <3>1. NbStops'
            BY <1>0, <1>2, <2>2, <2>3, <2>5, NoMore DEF NbStops, libraryVars, NbUnscanned
        <3> QED
            BY <2>2, <2>3, <3>1, RunsKeep DEF NbInv
    <2> QED
        BY <2>4, <2>5
<1>3. CASE /\ \/ calls \in {Call("deactivate_complete", "none"),
                            Call("deactivate_complete", "fatal")}
              \/ calls = Call("deactivate_complete", "cancelled") /\ cancel # "no" /\ NbUnscanned
           /\ drv.ssm = "none"
    <2>1. PICK error \in {"none", "fatal", "cancelled"} :
              /\ calls = Call("deactivate_complete", error)
              /\ error = "cancelled" => cancel # "no" /\ NbUnscanned
        BY <1>3
    <2>2. Pending("deactivate_complete", error, <<>>)
        BY <2>1, OneCall
    <2>3. /\ Next /\ Kept /\ ErrorInv' /\ dev'.driver = "off"
          /\ calls' = Call("change_state", "INACTIVE") \o <<>>
        <3>1. CASE error = "cancelled"
            BY <1>0, <2>1, <2>2, <3>1, CancelledDeactivation DEF NbUnscanned
        <3>2. CASE error # "cancelled"
            BY <1>0, <2>2, <3>2, DeactivationIsMade
        <3> QED
            BY <3>1, <3>2
    <2>4. Outside' /\ drv'.ssm = "none" /\ drv' \in NbData
        BY <1>0, <1>3, <2>3, NoMore DEF Outside, OutsideCalls, Kept
    <2> QED
        BY <2>3, <2>4 DEF NbInv, Kept
<1> QED
    BY <1>1, <1>2, <1>3 DEF NbIsStopped

\* The driver and the calls before and behind its work.
LEMMA NbOutsideKeeps ==
    ASSUME ImageInv, ErrorInv, NbInv, driver = "nb1010", DriversNext, calls # <<>>,
           \/ Outside /\ drv.ssm = "none"
           \/ NbIsActivated
    PROVE  [Next]_vars /\ ErrorInv' /\ NbInv' /\ driver' = driver
<1>0. drv \in NbData /\ drv.ssm = "none"
    BY DEF NbInv, NbIsActivated
<1>1. CASE [Next]_vars /\ ErrorInv' /\ UNCHANGED <<driver, drv>> /\ Outside'
    BY <1>0, <1>1 DEF NbInv
<1>2. CASE dev.driver = "off" /\ Pending("change_state", "INACTIVE", <<>>)
    <2>1. UNCHANGED <<libraryVars, driver, drv>> /\ calls' = <<>>
        BY <1>2, NbVfuncMakes, NoMore
    <2>2. Outside'
        BY <1>2, <2>1 DEF Outside, OutsideCalls, libraryVars
    <2> QED
        BY <1>0, <2>1, <2>2, RunsKeep DEF NbInv
<1>3. CASE dev.driver = "activating"
           /\ Pending("change_state", "ACTIVATING", Call("activate", "none"))
    <2>1. UNCHANGED <<libraryVars, driver, drv>> /\ calls' = None("activate")
        BY <1>3, NbVfuncMakes, NoMore
    <2>2. Outside'
        BY <1>3, <2>1 DEF Outside, OutsideCalls, libraryVars
    <2> QED
        BY <1>0, <2>1, <2>2, RunsKeep DEF NbInv
<1>4. CASE dev.driver = "activating" /\ Pending("activate", "none", <<>>)
    <2>1. /\ UNCHANGED <<libraryVars, driver>> /\ drv' = [drv EXCEPT !.deactivating = FALSE]
          /\ calls' = None("activate_complete") \o <<>>
        BY <1>4, NbVfuncMakes
    <2>2. drv' \in NbData /\ drv'.ssm = "none" /\ drv'.deactivating = FALSE
        BY <1>0, <2>1 DEF NbData
    <2>3. NbIsActivated'
        BY <1>4, <2>1, <2>2, NoMore DEF NbIsActivated, libraryVars
    <2> QED
        BY <2>1, <2>2, <2>3, RunsKeep DEF NbInv
<1>5. CASE NbIsActivated
    <2>1. Pending("activate_complete", "none", <<>>) /\ dev.driver = "activating"
        BY <1>5, OneCall, NoMore DEF NbIsActivated
    <2>2. /\ Next /\ Kept /\ ErrorInv' /\ Moves("AWAIT_FINGER_ON")
          /\ calls' = Call("change_state", "AWAIT_FINGER_ON")
        BY <2>1, ActivationIsMade, NoMore
    <2>3. NbIsTold'
        BY <1>5, <2>2 DEF NbIsActivated, NbIsTold, Kept, Moves
    <2> QED
        BY <1>0, <2>2, <2>3 DEF NbInv, Kept
<1> QED
    BY <1>1, <1>2, <1>3, <1>4, <1>5, OutsideMakes

\* The main loop.
LEMMA NbMainLoopKeeps ==
    ASSUME ImageInv, ErrorInv, NbInv, driver = "nb1010", DriversNext, calls = <<>>,
           ~ErrorsDuringEnrollScan
    PROVE  [Next]_vars /\ ErrorInv' /\ NbInv' /\ driver' = driver
<1>0. /\ drv \in NbData
      /\ \/ Outside /\ drv.ssm = "none"
         \/ NbRuns
         \/ NbStops
    BY NotEmpty DEF NbInv, NbReports, NbIsTold, NbIsStopped, NbIsActivated
<1>1. CASE MainLoopOfDriver
    <2>1. NbTimeout \/ NbTransfer
        BY <1>1 DEF MainLoopOfDriver, NbMainLoop, UruMainLoop, ElanMainLoop, MainLoopRuns
    <2>2. NbRuns \/ NbStops
        BY <1>0, <2>1 DEF NbTimeout, NbTransfer
    <2>3. NbInv' /\ UNCHANGED <<libraryVars, driver>>
        BY <2>1, <2>2, NbTimeoutKeeps, NbStopsKeeps, NbRunsKeeps
    <2> QED
        BY <2>3, RunsKeep
<1>2. CASE UserCalls
    <2>1. CASE dev' = dev /\ action' = action /\ cancel' # "no" /\ calls' = <<>>
               /\ UNCHANGED drv
        <3>1. Outside => Outside'
            BY <2>1 DEF Outside, OutsideCalls
        <3>2. (NbRuns => NbRuns') /\ (NbStops => NbStops')
            BY <2>1 DEF NbRuns, NbStops, NbCancelled, NbUnscanned
        <3> QED
            BY <1>0, <1>2, <2>1, <3>1, <3>2, UserStep DEF NbInv
    <2>2. CASE dev.driver = "off" /\ Outside'
        <3>1. drv.ssm = "none"
            BY <1>0, <2>2 DEF NbRuns, NbStops
        <3> QED
            BY <1>0, <1>2, <2>2, <3>1, UserStep DEF NbInv
    <2> QED
        BY <1>2, <2>1, <2>2, UserStep
<1>3. CASE LibraryMainLoop
    <2>0. [Next]_vars /\ ErrorInv' /\ UNCHANGED <<driver, drv>>
        BY <1>3, LibraryStep
    <2>1. CASE dev.driver = "off" /\ Outside'
        <3>1. drv.ssm = "none"
            BY <1>0, <2>1 DEF NbRuns, NbStops
        <3> QED
            BY <1>0, <2>0, <2>1, <3>1 DEF NbInv
    <2>2. CASE /\ Same /\ calls' = <<>> /\ (cancel # "no" => cancel' # "no")
               /\ \/ SameScan /\ dev'.action_error = dev.action_error
                  \/ dev.minutiae_scan_active = TRUE /\ dev'.minutiae_scan_active = FALSE
        <3>1. Outside => Outside'
            BY <2>2 DEF Outside, OutsideCalls, Same
        <3>2. (NbRuns => NbRuns') /\ (NbStops => NbStops')
            BY <2>0, <2>2 DEF NbRuns, NbStops, NbCancelled, NbUnscanned, Same, SameScan
        <3> QED
            BY <1>0, <2>0, <3>1, <3>2 DEF NbInv
    <2>3. CASE dev.state = "IDLE" /\ Moves("AWAIT_FINGER_ON")
               /\ calls' = Call("change_state", "AWAIT_FINGER_ON")
        <3>1. dev.driver = "running"
            BY <2>3 DEF ImageInv, DriverAndStateAgree
        <3>2. NbRuns
            BY <1>0, <3>1 DEF NbStops, Outside, OutsideCalls
        <3>3. NbIsTold'
            BY <2>0, <2>3, <3>2 DEF NbRuns, NbIsTold, Moves
        <3> QED
            BY <1>0, <2>0, <3>3 DEF NbInv
    <2>4. CASE /\ dev.driver = "running" /\ Stops /\ calls' = Vfuncs("DEACTIVATING")
               /\ \/ SameScan /\ cancel' # "no" /\ dev'.action_error = dev.action_error
                  \/ /\ dev'.minutiae_scan_active = FALSE
                     /\ dev.state \in {"IDLE", "AWAIT_FINGER_OFF"}
        <3>1. NbRuns
            BY <1>0, <2>4 DEF NbStops, Outside, OutsideCalls
        <3>2. drv.ssm # "none" => dev.state \in {"AWAIT_FINGER_ON", "CAPTURE"}
            BY <3>1 DEF NbRuns
        <3>3. drv.ssm # "none" => NbUnscanned'
            <4>1. drv.ssm # "none" =>
                      dev.minutiae_scan_active = FALSE /\ dev.action_error = "none"
                BY <2>4, <3>2, InvUnfailed
                DEF ImageInv, OneScanAtATime, ErrorInv, Device
            <4> QED
                BY <2>4, <3>2, <4>1 DEF NbUnscanned, SameScan
        <3>4. NbIsStopped'
            BY <2>0, <2>4, <3>3 DEF NbIsStopped, Stops
        <3> QED
            BY <1>0, <2>0, <3>4 DEF NbInv
    <2> QED
        BY <1>3, <2>1, <2>2, <2>3, <2>4, LibraryStep
<1> QED
    BY <1>1, <1>2, <1>3, OnlyMainLoop

\* Every step of nb1010 with the library is one of the device.
LEMMA NbNext ==
    ASSUME ImageInv, ErrorInv, NbInv, driver = "nb1010", DriversNext, ~ErrorsDuringEnrollScan
    PROVE  [Next]_vars /\ ErrorInv' /\ NbInv' /\ driver' = driver
<1>1. CASE calls = <<>>
    BY <1>1, NbMainLoopKeeps
<1>2. CASE calls # <<>>
    BY <1>2, NbOutsideKeeps, NbReportsKeeps, NbIsToldKeeps, NbIsStoppedKeeps
    DEF NbInv, NbRuns, NbStops
<1> QED
    BY <1>1, <1>2

ElanStates == ElanActivating \union ElanScanning \union {"none", "STOP"}

\* e is d in the given state of its machine.
ElanIn(d, state, e) ==
    e \in ElanData /\ e.state = state /\ e.active = d.active /\ e.deactivating = d.deactivating

\* A command of elan is one of its data in the state that sends it.
LEMMA ElanCmdMakes ==
    ASSUME NEW d \in ElanData, NEW state \in ElanStates
    PROVE  ElanIn(d, state, ElanCmd(d, state)) /\ ElanCmd(d, state).num_frames = d.num_frames
BY DEF ElanData, ElanStates, ElanIn, ElanCmd

\* elan_dev_reset_state leaves no frames.
LEMMA ElanResetMakes ==
    ASSUME NEW d \in ElanData
    PROVE  ElanIn(d, d.state, ElanResetState(d)) /\ ElanResetState(d).num_frames = 0
BY DEF ElanData, ElanIn, ElanResetState

\* A scan that ends is followed by the command that stops the capture.
LEMMA ElanStopCaptureMakes ==
    ASSUME NEW d \in ElanData, NEW report, ElanStopCapture(d, report)
    PROVE  \E e : ElanIn(d, "STOP", e) /\ Runs(e, report)
<1> DEFINE r == ElanResetState(d)
<1>1. ElanIn(d, d.state, r)
    BY ElanResetMakes
<1>2. Runs(ElanCmd(r, "STOP"), report)
    BY DEF ElanStopCapture
<1> HIDE DEF r
<1>3. ElanIn(r, "STOP", ElanCmd(r, "STOP"))
    BY <1>1, ElanCmdMakes DEF ElanIn, ElanStates
<1> QED
    BY <1>1, <1>2, <1>3 DEF ElanIn

\* A step that sends a command does nothing else.
LEMMA ElanCommandMakes ==
    ASSUME NEW d \in ElanData, NEW state \in ElanStates, NEW more, Runs(ElanCmd(d, state), more)
    PROVE  \E e : ElanIn(d, state, e) /\ e.num_frames = d.num_frames /\ Runs(e, more)
BY ElanCmdMakes

\* The scan begins anew with the frames.
LEMMA ElanCaptureMakes ==
    ASSUME NEW d \in ElanData, ElanCapture(d)
    PROVE  \E e : ElanIn(d, "LED_ON", e) /\ e.num_frames = 0 /\ Runs(e, <<>>)
<1> DEFINE r == ElanResetState(d)
<1>1. ElanIn(d, d.state, r) /\ r.num_frames = 0
    BY ElanResetMakes
<1>2. Runs(ElanCmd(r, "LED_ON"), <<>>)
    BY DEF ElanCapture
<1> HIDE DEF r
<1>3. ElanIn(r, "LED_ON", ElanCmd(r, "LED_ON")) /\ ElanCmd(r, "LED_ON").num_frames = 0
    BY <1>1, ElanCmdMakes DEF ElanIn, ElanStates, ElanScanning, ElanCapturing
<1> QED
    BY <1>1, <1>2, <1>3 DEF ElanIn

\* A step of a scan, which goes on, reports or fails.
ElanGoes(d) ==
    \E e : /\ ElanIn(d, e.state, e) /\ Runs(e, <<>>)
           /\ \/ /\ d.state # "READ_DATA" /\ e.state \in ElanScanning \ {"READ_DATA"}
                 /\ d.num_frames = 0 => e.num_frames = 0
                 /\ d.state \in {"WAIT_FINGER", "NOT_READY"} =>
                        e.state \in {"WAIT_FINGER", "NOT_READY"}
              \/ d.state = "READ_DATA" /\ e.state \in {"READ_DATA", "WAIT_FINGER"}
ElanFailing(d) ==
    \E e, error : /\ ElanIn(d, "STOP", e) /\ Runs(e, Call("session_error", error))
                  /\ error = "fatal" \/ (error = "cancelled" /\ cancel # "no")
ElanFinger(d) ==
    /\ d.state = "WAIT_FINGER" /\ cancel = "no"
    /\ \E e : ElanIn(d, "READ_DATA", e) /\ Runs(e, Call("report_finger_status", "on"))
ElanImage(d) ==
    /\ d.state \in {"WAIT_FINGER", "READ_DATA"} /\ cancel = "no"
    /\ d.state = "READ_DATA" \/ d.num_frames > 0
    /\ \E e : ElanIn(d, "STOP", e) /\ Runs(e, None("image_captured"))
ElanShort(d) ==
    /\ d.state \in {"WAIT_FINGER", "READ_DATA"} /\ cancel = "no"
    /\ \E e : ElanIn(d, "STOP", e) /\ Runs(e, None("retry_scan"))
ElanScans(d) == ElanGoes(d) \/ ElanFailing(d) \/ ElanFinger(d) \/ ElanImage(d) \/ ElanShort(d)

\* A machine that fails has the driver stopped and the error reported.
LEMMA ElanFailsMakes ==
    ASSUME NEW d \in ElanData, NEW error, ElanFails(d, error),
           error = "fatal" \/ (error = "cancelled" /\ cancel # "no")
    PROVE  ElanFailing(d)
BY ElanStopCaptureMakes DEF ElanFails, ElanFailing

\* Of the frames of a scan there are enough for an image, or too few.
LEMMA ElanCapturedMakes ==
    ASSUME NEW d \in ElanData, ElanCaptured(d), d.state \in {"WAIT_FINGER", "READ_DATA"},
           cancel = "no"
    PROVE  ElanImage(d) \/ ElanShort(d)
<1>1. CASE d.num_frames >= ElanMinFrames
    <2>1. ElanStopCapture(d, None("image_captured"))
        BY <1>1 DEF ElanCaptured
    <2>2. d.num_frames > 0
        BY <1>1, ElanAssumption DEF ElanData
    <2> QED
        BY <2>1, <2>2, ElanStopCaptureMakes DEF ElanImage
<1>2. CASE ~(d.num_frames >= ElanMinFrames)
    <2>1. ElanStopCapture(d, None("retry_scan"))
        BY <1>2 DEF ElanCaptured
    <2> QED
        BY <2>1, ElanStopCaptureMakes DEF ElanShort
<1> QED
    BY <1>1, <1>2

\* A command that was answered, or a delay that is over, has the next one sent.
LEMMA ElanCmdGoes ==
    ASSUME NEW d \in ElanData, NEW c \in ElanData, NEW state \in ElanScanning \ {"READ_DATA"},
           c.active = d.active, c.deactivating = d.deactivating, d.state # "READ_DATA",
           d.num_frames = 0 => c.num_frames = 0,
           d.state \in {"WAIT_FINGER", "NOT_READY"} => state \in {"WAIT_FINGER", "NOT_READY"},
           Runs(ElanCmd(c, state), <<>>)
    PROVE  ElanGoes(d)
<1>1. PICK e : ElanIn(c, state, e) /\ e.num_frames = c.num_frames /\ Runs(e, <<>>)
    BY ElanCommandMakes DEF ElanStates
<1>2. ElanIn(d, e.state, e) /\ e.state = state
    BY <1>1 DEF ElanIn
<1> QED
    BY <1>1, <1>2 DEF ElanGoes

\* The mean of the calibration was read.
LEMMA ElanGetStatusMakes ==
    ASSUME NEW d \in ElanData, d.state \in {"GET_MEAN", "CHECK_STATUS"}, NEW c \in ElanData,
           ElanIn(d, d.state, c), c.num_frames = d.num_frames, ElanGetStatus(c)
    PROVE  ElanGoes(d) \/ ElanFailing(d)
<1>1. CASE c.calib_atts_left = 1
    <2>1. ElanFails(c, "fatal")
        BY <1>1 DEF ElanGetStatus
    <2>2. ElanFailing(c)
        BY <2>1, ElanFailsMakes
    <2> QED
        BY <2>2 DEF ElanFailing, ElanIn
<1>2. CASE c.calib_atts_left # 1
    <2> DEFINE b == [c EXCEPT !.calib_atts_left = @ - 1]
    <2>1. Runs(ElanCmd(b, "GET_STATUS"), <<>>)
        BY <1>2 DEF ElanGetStatus
    <2>2. b \in ElanData /\ b.active = d.active /\ b.deactivating = d.deactivating
            /\ b.num_frames = d.num_frames
        BY DEF ElanIn, ElanData
    <2> HIDE DEF b
    <2> QED
        BY <2>1, <2>2, ElanCmdGoes DEF ElanScanning, ElanCalibrating
<1> QED
    BY <1>1, <1>2

\* The status of the calibration was read.
LEMMA ElanCheckStatusMakes ==
    ASSUME NEW d \in ElanData, d.state = "GET_STATUS", NEW status \in {1, 3},
           ElanCheckStatus(d, status)
    PROVE  ElanGoes(d)
<1>1. CASE d.calib_status = 1 /\ status = 3
    <2> DEFINE b == [d EXCEPT !.calib_status = 3]
    <2>1. Runs(ElanCmd(b, "GET_BACKGROUND"), <<>>)
        BY <1>1 DEF ElanCheckStatus
    <2>2. b \in ElanData /\ b.active = d.active /\ b.deactivating = d.deactivating
            /\ b.num_frames = d.num_frames
        BY DEF ElanData
    <2> HIDE DEF b
    <2> QED
        BY <2>1, <2>2, ElanCmdGoes DEF ElanScanning, ElanCalibrating
<1>2. CASE ~(d.calib_status = 1 /\ status = 3)
    <2> DEFINE c == IF d.calib_status = 0 /\ status = 1 THEN 1 ELSE d.calib_status
               e == [d EXCEPT !.state = "CHECK_STATUS",
                              !.calib_status = IF @ = 0 /\ status = 1 THEN 1 ELSE @]
    <2>1. Runs(e, <<>>)
        BY <1>2 DEF ElanCheckStatus
    <2>2. c \in {0, 1, 3} /\ e = [d EXCEPT !.state = "CHECK_STATUS", !.calib_status = c]
        BY DEF ElanData
    <2> HIDE DEF c, e
    <2>3. ElanIn(d, "CHECK_STATUS", e) /\ e.num_frames = d.num_frames
        BY <2>2 DEF ElanIn, ElanData, ElanScanning
    <2> QED
        BY <2>1, <2>3 DEF ElanGoes, ElanIn, ElanScanning
<1> QED
    BY <1>1, <1>2

\* A calibrated sensor is told to scan.
LEMMA ElanLedOnMakes ==
    ASSUME NEW d \in ElanData, d.state \in ElanCalibrating, ElanCapture(d) PROVE ElanGoes(d)
<1>1. PICK e : ElanIn(d, "LED_ON", e) /\ e.num_frames = 0 /\ Runs(e, <<>>)
    BY ElanCaptureMakes
<1> QED
    BY <1>1 DEF ElanGoes, ElanIn, ElanScanning, ElanCapturing, ElanCalibrating

\* A step of the calibration leaves the driver calibrating, scanning or failing.
LEMMA ElanCalibrateMakes ==
    ASSUME NEW d \in ElanData, d.state \in ElanCalibrating, ElanCalibrateNext(d)
    PROVE  ElanGoes(d) \/ ElanFailing(d)
<1>1. CASE d.state = "GET_BACKGROUND"
    <2>1. ElanCapture(d) \/ Runs(ElanCmd(d, "GET_MEAN"), <<>>)
        BY <1>1 DEF ElanCalibrateNext
    <2> QED
        BY <1>1, <2>1, ElanLedOnMakes, ElanCmdGoes DEF ElanScanning, ElanCalibrating
<1>2. CASE d.state = "GET_MEAN"
    <2> DEFINE c == [d EXCEPT !.calib_status = 0]
    <2>1. ElanCapture(d) \/ ElanGetStatus(c)
        BY <1>2 DEF ElanCalibrateNext
    <2>2. c \in ElanData /\ ElanIn(d, d.state, c) /\ c.num_frames = d.num_frames
        BY DEF ElanData, ElanIn
    <2> HIDE DEF c
    <2> QED
        BY <1>2, <2>1, <2>2, ElanLedOnMakes, ElanGetStatusMakes
<1>3. CASE d.state = "GET_STATUS"
    <2>1. \E status \in {1, 3} : ElanCheckStatus(d, status)
        BY <1>3 DEF ElanCalibrateNext
    <2> QED
        BY <1>3, <2>1, ElanCheckStatusMakes
<1> QED
    BY <1>1, <1>2, <1>3 DEF ElanCalibrating

\* A frame was read.
LEMMA ElanFrameMakes ==
    ASSUME NEW d \in ElanData, d.state = "READ_DATA", cancel = "no", ElanFrameRead(d)
    PROVE  ElanScans(d)
<1> DEFINE read == [d EXCEPT !.num_frames = @ + 1]
<1>1. read \in ElanData /\ ElanIn(d, "READ_DATA", read)
    BY DEF ElanData, ElanIn
<1>2. ElanFails(d, "fatal") \/ Runs(ElanCmd(read, "WAIT_FINGER"), <<>>) \/ ElanCaptured(read)
    BY DEF ElanFrameRead
<1> HIDE DEF read
<1>3. CASE ElanFails(d, "fatal")
    BY <1>3, ElanFailsMakes DEF ElanScans
<1>4. CASE Runs(ElanCmd(read, "WAIT_FINGER"), <<>>)
    <2>1. PICK e : ElanIn(read, "WAIT_FINGER", e) /\ Runs(e, <<>>)
        BY <1>1, <1>4, ElanCommandMakes DEF ElanStates, ElanScanning, ElanCapturing
    <2> QED
        BY <1>1, <2>1 DEF ElanScans, ElanGoes, ElanIn
<1>5. CASE ElanCaptured(read)
    <2>1. ElanImage(read) \/ ElanShort(read)
        BY <1>1, <1>5, ElanCapturedMakes DEF ElanIn
    <2> QED
        BY <1>1, <2>1 DEF ElanScans, ElanImage, ElanShort, ElanIn
<1> QED
    BY <1>2, <1>3, <1>4, <1>5

\* A step of the capture machine.
LEMMA ElanCaptureNextMakes ==
    ASSUME NEW d \in ElanData, d.state \in ElanCapturing, cancel = "no", ElanCaptureNext(d)
    PROVE  ElanScans(d)
<1>1. CASE d.state = "LED_ON"
    <2>1. Runs(ElanCmd(d, "WAIT_FINGER"), <<>>)
        BY <1>1 DEF ElanCaptureNext
    <2> QED
        BY <1>1, <2>1, ElanCmdGoes DEF ElanScans, ElanScanning, ElanCapturing
<1>2. CASE d.state = "WAIT_FINGER"
    <2> DEFINE w == [d EXCEPT !.state = "NOT_READY"]
    <2>1. \/ Runs(ElanCmd(d, "READ_DATA"), Call("report_finger_status", "on"))
          \/ Runs(w, <<>>)
          \/ ElanFails(d, "fatal")
        BY <1>2 DEF ElanCaptureNext, ElanFingerRead
    <2>2. ElanIn(d, "NOT_READY", w) /\ w.num_frames = d.num_frames
        BY DEF ElanIn, ElanData, ElanScanning
    <2> HIDE DEF w
    <2>3. CASE Runs(ElanCmd(d, "READ_DATA"), Call("report_finger_status", "on"))
        <3>1. \E e : ElanIn(d, "READ_DATA", e) /\ Runs(e, Call("report_finger_status", "on"))
            BY <2>3, ElanCommandMakes DEF ElanStates, ElanScanning, ElanCapturing
        <3> QED
            BY <1>2, <3>1 DEF ElanScans, ElanFinger
    <2>4. CASE Runs(w, <<>>)
        BY <1>2, <2>2, <2>4 DEF ElanScans, ElanGoes, ElanIn, ElanScanning
    <2>5. CASE ElanFails(d, "fatal")
        BY <2>5, ElanFailsMakes DEF ElanScans
    <2> QED
        BY <2>1, <2>3, <2>4, <2>5
<1>3. CASE d.state = "READ_DATA"
    BY <1>3, ElanFrameMakes DEF ElanCaptureNext
<1> QED
    BY <1>1, <1>2, <1>3 DEF ElanCapturing

\* The command of a scan is written and answered.
LEMMA ElanAnsweredMakes ==
    ASSUME NEW d \in ElanData, d.state \in ElanCalibrating \union ElanCapturing, cancel = "no",
           ElanAnswered(d)
    PROVE  ElanScans(d)
<1> DEFINE r == [d EXCEPT !.reading = TRUE]
<1>1. CASE Runs(r, <<>>)
    <2>1. ElanIn(d, d.state, r) /\ r.num_frames = d.num_frames
        BY DEF ElanIn, ElanData
    <2> HIDE DEF r
    <2> QED
        BY <1>1, <2>1 DEF ElanScans, ElanGoes, ElanIn, ElanScanning
<1>2. CASE ~Runs(r, <<>>)
    <2>1. CASE d.state \in ElanCalibrating
        <3>1. ElanCalibrateNext(d)
            BY <1>2, <2>1 DEF ElanAnswered, ElanCalibrating, ElanCapturing, ElanActivating,
                              ElanSkipRead
        <3> QED
            BY <2>1, <3>1, ElanCalibrateMakes DEF ElanScans
    <2>2. CASE d.state \in ElanCapturing
        <3>1. ElanCaptureNext(d)
            BY <1>2, <2>2 DEF ElanAnswered, ElanCalibrating, ElanCapturing, ElanActivating,
                              ElanSkipRead
        <3> QED
            BY <2>2, <3>1, ElanCaptureNextMakes DEF ElanScans
    <2> QED
        BY <2>1, <2>2
<1> QED
    BY <1>1, <1>2

\* Whatever ends a transfer or a delay of a scan, the driver goes on, reports or stops.
LEMMA ElanScanMakes ==
    ASSUME drv \in ElanData, drv.state \in ElanScanning, ElanTransfer \/ ElanTimeout
    PROVE  ElanScans(drv)
<1>1. CASE ElanTransfer
    <2>1. drv.state \in ElanCalibrating \union ElanCapturing
        BY <1>1 DEF ElanTransfer, ElanScanning, ElanActivating, ElanCalibrating, ElanCapturing
    <2>2. \/ \E error \in ActionOutcomes :
                 IF error = "none" THEN ElanAnswered(drv) ELSE ElanFailed(drv, error)
          \/ ElanTimedOut(drv)
        BY <1>1, <2>1 DEF ElanTransfer, ElanOutcomes, ElanCalibrating, ElanCapturing
    <2>3. ASSUME NEW error \in ActionOutcomes,
                 IF error = "none" THEN ElanAnswered(drv) ELSE ElanFailed(drv, error)
          PROVE  ElanScans(drv)
        <3>1. CASE error = "none"
            <4>1. cancel = "no"
                BY <3>1 DEF ActionOutcomes
            <4> QED
                BY <2>1, <2>3, <3>1, <4>1, ElanAnsweredMakes
        <3>2. CASE error # "none"
            <4>1. error = "fatal" \/ (error = "cancelled" /\ cancel # "no")
                BY <3>2 DEF ActionOutcomes, TransferOutcomes
            <4>2. ElanFails(drv, error)
                BY <2>1, <2>3, <3>2
                DEF ElanFailed, ElanActivating, ElanCalibrating, ElanCapturing
            <4> QED
                BY <4>1, <4>2, ElanFailsMakes DEF ElanScans
        <3> QED
            BY <3>1, <3>2
    <2>4. CASE ElanTimedOut(drv)
        BY <2>4, ElanCapturedMakes DEF ElanTimedOut, ElanScans
    <2> QED
        BY <2>2, <2>3, <2>4
<1>2. CASE drv.state = "CHECK_STATUS" /\ ElanGetStatus(drv)
    <2>1. ElanIn(drv, drv.state, drv)
        BY DEF ElanIn
    <2> QED
        BY <1>2, <2>1, ElanGetStatusMakes DEF ElanScans
<1>3. CASE drv.state = "NOT_READY" /\ Runs(ElanCmd(drv, "WAIT_FINGER"), <<>>)
    BY <1>3, ElanCmdGoes DEF ElanScans, ElanScanning, ElanCapturing
<1> QED
    BY <1>1, <1>2, <1>3 DEF ElanTimeout

\* The command that stops a scan has ended.
LEMMA ElanStopMakes ==
    ASSUME drv \in ElanData, drv.state = "STOP", ElanTransfer \/ ElanTimeout
    PROVE  \E e \in ElanData, error \in TransferOutcomes :
               /\ e.state = "none" /\ e.active = FALSE /\ e.deactivating = FALSE
               /\ Runs(e, IF drv.deactivating = TRUE THEN Call("deactivate_complete", error)
                          ELSE IF error = "none" THEN Call("report_finger_status", "off")
                          ELSE Call("session_error", error))
<1> DEFINE e == [drv EXCEPT !.state = "none", !.active = FALSE, !.deactivating = FALSE]
<1>1. e \in ElanData /\ e.state = "none" /\ e.active = FALSE /\ e.deactivating = FALSE
    BY DEF ElanData
<1>2. PICK error \in TransferOutcomes : ElanStopped(drv, error)
    <2>1. ElanTransfer
        BY DEF ElanTimeout
    <2>2. PICK error \in TransferOutcomes :
              IF error = "none" THEN ElanAnswered(drv) ELSE ElanFailed(drv, error)
        BY <2>1 DEF ElanTransfer, ElanOutcomes, ElanTimedOut
    <2> QED
        <3>1. ElanAnswered(drv) => ElanStopped(drv, "none")
            BY DEF ElanAnswered, ElanSkipRead, ElanActivating, ElanCalibrating, ElanCapturing
        <3>2. ElanFailed(drv, error) => ElanStopped(drv, error)
            BY DEF ElanFailed
        <3> QED
            BY <2>2, <3>1, <3>2
<1>3. drv.deactivating \in BOOLEAN
    BY DEF ElanData
<1>4. Runs(e, IF drv.deactivating = TRUE THEN Call("deactivate_complete", error)
              ELSE IF error = "none" THEN Call("report_finger_status", "off")
              ELSE Call("session_error", error))
    BY <1>2, <1>3 DEF ElanStopped
<1> HIDE DEF e
<1> QED
    BY <1>1, <1>4

\* A machine of the activation goes on or has ended.
LEMMA ElanActivatesMakes ==
    ASSUME drv \in ElanData, drv.state \in ElanActivating, ElanTransfer \/ ElanTimeout
    PROVE  \E e : /\ ElanIn(drv, e.state, e)
                  /\ \/ e.state \in ElanActivating /\ Runs(e, <<>>)
                     \/ /\ e.state = "none"
                        /\ \E error \in {"none", "fatal", "cancelled"} :
                               Runs(e, Call("activate_complete", error))
<1>1. ElanTransfer /\ ~ElanTimedOut(drv)
    BY DEF ElanTimeout, ElanTimedOut, ElanActivating
<1>2. PICK error \in ActionOutcomes :
          IF error = "none" THEN ElanAnswered(drv) ELSE ElanFailed(drv, error)
    BY <1>1 DEF ElanTransfer, ElanOutcomes, ElanActivating
<1> DEFINE r == [drv EXCEPT !.reading = TRUE]
           n == [drv EXCEPT !.state = "none"]
<1>3. ElanIn(drv, drv.state, r) /\ ElanIn(drv, "none", n)
    BY DEF ElanIn, ElanData
<1>4. error \in {"none", "fatal", "cancelled"}
    BY DEF ActionOutcomes, TransferOutcomes
<1>5. \/ Runs(r, <<>>)
      \/ \E state \in ElanActivating : Runs(ElanCmd(drv, state), <<>>)
      \/ Runs(n, None("activate_complete"))
      \/ Runs(n, Call("activate_complete", error))
    <2>1. CASE error = "none"
        <3>1. Runs(r, <<>>) \/ ElanActivateNext(drv)
            <4>1. ElanAnswered(drv)
                BY <1>2, <2>1
            <4>2. drv.state \notin ElanSkipRead
                BY DEF ElanActivating, ElanSkipRead
            <4>3. CASE ~drv.reading
                BY <4>1, <4>2, <4>3, Zenon DEF ElanAnswered
            <4>4. CASE drv.reading
                <5> HIDE DEF r
                <5>1. ElanActivateNext(drv)
                    BY <4>1, <4>2, <4>4
                    DEF ElanAnswered, ElanActivating, ElanCalibrating, ElanCapturing
                <5> QED
                    BY <5>1
            <4> QED
                BY <4>3, <4>4
        <3>2. ElanActivateNext(drv) =>
                  \/ Runs(ElanCmd(drv, "GET_SENSOR_DIM"), <<>>)
                  \/ Runs(ElanCmd(drv, "CMD_1"), <<>>)
                  \/ Runs(n, None("activate_complete"))
            BY DEF ElanActivateNext, ElanActivating
        <3> HIDE DEF r, n
        <3> QED
            BY <3>1, <3>2 DEF ElanActivating
    <2>2. CASE error # "none"
        BY <1>2, <2>2 DEF ElanFailed, ElanActivating
    <2> QED
        BY <2>1, <2>2
<1> HIDE DEF r, n
<1>6. CASE Runs(r, <<>>)
    BY <1>3, <1>6 DEF ElanIn
<1>7. ASSUME NEW state \in ElanActivating, Runs(ElanCmd(drv, state), <<>>)
      PROVE  \E e : ElanIn(drv, e.state, e) /\ e.state \in ElanActivating /\ Runs(e, <<>>)
    <2>1. PICK e : ElanIn(drv, state, e) /\ Runs(e, <<>>)
        BY <1>7, ElanCommandMakes DEF ElanStates
    <2> QED
        BY <2>1 DEF ElanIn
<1>8. CASE Runs(n, None("activate_complete")) \/ Runs(n, Call("activate_complete", error))
    BY <1>3, <1>4, <1>8 DEF ElanIn, None
<1> QED
    BY <1>5, <1>6, <1>7, <1>8

\* What the vfuncs of elan change.
LEMMA ElanVfuncMakes ==
    ASSUME DriversNext, driver = "elan", NEW name \in {"activate", "change_state", "deactivate"},
           NEW arg, NEW rest, Pending(name, arg, rest)
    PROVE  /\ UNCHANGED <<libraryVars, driver>>
           /\ name = "activate" =>
                  drv' = ElanCmd(ElanResetState(drv), "GET_FW_VER") /\ calls' = <<>> \o rest
           /\ name = "deactivate" /\ drv.active =>
                  drv' = [drv EXCEPT !.deactivating = TRUE] /\ calls' = <<>> \o rest
           /\ name = "deactivate" /\ ~drv.active =>
                  drv' = drv /\ calls' = None("deactivate_complete") \o rest
           /\ name = "change_state" =>
                  /\ calls' = <<>> \o rest
                  /\ drv' = IF arg = "AWAIT_FINGER_ON" THEN ElanCalibrate ELSE drv
<1>1. ElanActivate \/ ElanChangeState \/ ElanDeactivate
    BY OnlyCalls DEF LibraryCalls, NbVfuncs, UruVfuncs, ElanVfuncs
<1>2. Head(calls).call = name /\ Head(calls).arg = arg /\ Tail(calls) = rest
    BY DEF Pending
<1>3. CASE name = "activate"
    BY <1>1, <1>2, <1>3 DEF ElanActivate, ElanChangeState, ElanDeactivate, Vfunc, Returns
<1>4. CASE name = "deactivate"
    BY <1>1, <1>2, <1>4 DEF ElanActivate, ElanChangeState, ElanDeactivate, Vfunc, Returns
<1>5. CASE name = "change_state"
    BY <1>1, <1>2, <1>5 DEF ElanActivate, ElanChangeState, ElanDeactivate, Vfunc, Returns
<1> QED
    BY <1>3, <1>4, <1>5

\* A step of the driver leads to another phase of the driver.
LEMMA ElanStepKeeps ==
    ASSUME ErrorInv, driver = "elan", UNCHANGED <<libraryVars, driver>>, drv' \in ElanData,
           ElanActivates' \/ ElanRuns' \/ ElanStops' \/ ElanReports' \/ ElanIsTold'
               \/ ElanIsStopped' \/ (Outside' /\ ElanRests')
    PROVE  [Next]_vars /\ ErrorInv' /\ ElanInv' /\ driver' = driver
BY RunsKeep DEF ElanInv

\* So does a call into the library.
LEMMA ElanCallKeeps ==
    ASSUME ElanInv, [Next]_vars, Kept, ErrorInv',
           ElanActivates' \/ ElanRuns' \/ ElanStops' \/ ElanReports' \/ ElanIsTold'
               \/ ElanIsStopped' \/ (Outside' /\ ElanRests')
    PROVE  [Next]_vars /\ ErrorInv' /\ ElanInv' /\ driver' = driver
BY DEF ElanInv, Kept

-----------------------------------------------------------------------------
\* elan is activated: the outcome is reported.
LEMMA ElanActivatesKeeps ==
    ASSUME ImageInv, ErrorInv, ElanInv, driver = "elan", ElanActivates, DriversNext, calls # <<>>
    PROVE  [Next]_vars /\ ErrorInv' /\ ElanInv' /\ driver' = driver
<1>1. PICK error \in {"none", "fatal", "cancelled"} : calls = Call("activate_complete", error)
    BY DEF ElanActivates
<1>2. /\ dev.driver = "activating" /\ Pending("activate_complete", error, <<>>)
      /\ drv.state = "none" /\ drv.active = FALSE /\ drv.deactivating = FALSE
    BY <1>1, OneCall DEF ElanActivates
<1>3. /\ Next /\ Kept /\ ErrorInv'
      /\ error = "none" => /\ Moves("AWAIT_FINGER_ON")
                           /\ calls' = Call("change_state", "AWAIT_FINGER_ON") \o <<>>
      /\ error # "none" => dev'.driver = "off" /\ calls' = <<>> \o <<>>
    BY <1>2, ActivationIsMade
<1>4. CASE error = "none"
    <2>1. ElanIsTold'
        BY <1>2, <1>3, <1>4, NoMore DEF ElanIsTold, ElanEnded, Kept, Moves
    <2> QED
        BY <1>3, <2>1, ElanCallKeeps
<1>5. CASE error # "none"
    <2>1. Outside' /\ ElanRests'
        BY <1>2, <1>3, <1>5, NoMore DEF Outside, OutsideCalls, ElanRests, Kept
    <2> QED
        BY <1>3, <2>1, ElanCallKeeps
<1> QED
    BY <1>4, <1>5

\* A call of elan to the library is made.
LEMMA ElanReportsKeeps ==
    ASSUME ImageInv, ErrorInv, ElanInv, driver = "elan", ElanReports, DriversNext
    PROVE  [Next]_vars /\ ErrorInv' /\ ElanInv' /\ driver' = driver
<1>1. CASE /\ dev.driver = "running" /\ drv.deactivating = FALSE
           /\ calls = None("image_captured") /\ dev.state = "CAPTURE" /\ ElanActs({"STOP"})
    <2>1. Pending("image_captured", "none", <<>>)
        BY <1>1, OneCall, NoMore
    <2>2. /\ Next /\ Kept /\ Moves("AWAIT_FINGER_OFF") /\ ErrorInv'
          /\ calls' = Call("change_state", "AWAIT_FINGER_OFF") \o <<>>
        BY <1>1, <2>1, ImageIsMade
    <2>3. ElanIsTold'
        BY <1>1, <2>2, NoMore DEF ElanIsTold, ElanActs, Kept, Moves
    <2> QED
        BY <2>2, <2>3, ElanCallKeeps
<1>2. CASE /\ dev.driver = "running" /\ drv.deactivating = FALSE /\ calls = None("retry_scan")
           /\ dev.state \in {"AWAIT_FINGER_ON", "CAPTURE"} /\ ElanActs({"STOP"})
    <2>1. Pending("retry_scan", "none", <<>>)
        BY <1>2, OneCall, NoMore
    <2>2. /\ Next /\ Kept /\ ErrorInv'
          /\ \/ /\ Moves("AWAIT_FINGER_OFF")
                /\ calls' = Call("change_state", "AWAIT_FINGER_OFF") \o <<>>
             \/ Stops /\ calls' = Vfuncs("DEACTIVATING") \o <<>>
        BY <1>2, <2>1, RetryIsMade
    <2>3. ElanIsTold' \/ ElanIsStopped'
        BY <1>2, <2>2, NoMore
        DEF ElanIsTold, ElanIsStopped, ElanGoesOn, ElanActs, Kept, Moves, Stops
    <2> QED
        BY <2>2, <2>3, ElanCallKeeps
<1>3. CASE /\ dev.driver = "running" /\ drv.deactivating = FALSE
           /\ calls = Call("report_finger_status", "on")
           /\ dev.state \in {"AWAIT_FINGER_ON", "CAPTURE"} /\ ElanActs({"READ_DATA"})
    <2>1. Pending("report_finger_status", "on", <<>>)
        BY <1>3, OneCall
    <2>2. /\ Next /\ Kept /\ ErrorInv' /\ calls' = Told(dev') \o <<>>
          /\ dev.state = "AWAIT_FINGER_ON" =>
                 Moves("CAPTURE") /\ Told(dev') = Call("change_state", "CAPTURE")
          /\ dev.state # "AWAIT_FINGER_ON" => Same /\ Told(dev') = <<>>
        BY <1>3, <2>1, ReportIsMade
    <2>3. ElanIsTold' \/ ElanRuns'
        BY <1>3, <2>2, NoMore DEF ElanIsTold, ElanRuns, ElanActs, Kept, Moves, Same
    <2> QED
        BY <2>2, <2>3, ElanCallKeeps
<1>4. CASE /\ dev.driver = "running" /\ drv.deactivating = FALSE
           /\ calls = Call("report_finger_status", "off") /\ ElanEnded
           /\ \/ dev.state = "AWAIT_FINGER_OFF"
              \/ dev.state \in {"AWAIT_FINGER_ON", "CAPTURE"} /\ cancel # "no"
    <2>1. Pending("report_finger_status", "off", <<>>)
        BY <1>4, OneCall
    <2>2. /\ Next /\ Kept /\ ErrorInv' /\ calls' = Told(dev') \o <<>>
          /\ dev.state = "AWAIT_FINGER_OFF" =>
                 \/ Moves("IDLE") /\ Told(dev') = Call("change_state", "IDLE")
                 \/ /\ Moves("AWAIT_FINGER_ON")
                    /\ Told(dev') = Call("change_state", "AWAIT_FINGER_ON")
                 \/ Stops /\ Told(dev') = Vfuncs("DEACTIVATING")
          /\ dev.state # "AWAIT_FINGER_OFF" => Same /\ Told(dev') = <<>>
        BY <1>4, <2>1, ReportIsMade
    <2>3. CASE dev.state = "AWAIT_FINGER_OFF"
        <3>1. ElanIsTold' \/ ElanIsStopped'
            BY <1>4, <2>2, <2>3, NoMore
            DEF ElanIsTold, ElanIsStopped, ElanEnded, Kept, Moves, Stops
        <3> QED
            BY <2>2, <3>1, ElanCallKeeps
    <2>4. CASE dev.state # "AWAIT_FINGER_OFF"
        <3>1. ElanRuns'
            BY <1>4, <2>2, <2>4, NoMore DEF ElanRuns, ElanEnded, Kept, Same
        <3> QED
            BY <2>2, <3>1, ElanCallKeeps
    <2> QED
        BY <2>3, <2>4
<1>5. CASE /\ calls = Call("session_error", "fatal") /\ ~Enrolling
           /\ \/ dev.driver = "running" /\ drv.deactivating = FALSE
                     /\ (ElanActs({"STOP"}) \/ ElanEnded)
              \/ dev.driver = "deactivating" /\ drv.deactivating = TRUE /\ ElanActs({"STOP"})
    <2>1. Pending("session_error", "fatal", <<>>)
        BY <1>5, OneCall
    <2>2. /\ Next /\ Kept /\ Stops /\ ErrorInv' /\ calls' = Told(dev') \o <<>>
          /\ dev.driver = "running" => Told(dev') = Vfuncs("DEACTIVATING")
          /\ dev.driver = "deactivating" => Told(dev') = <<>>
        BY <1>5, <2>1, SessionErrorIsMade DEF Enrolling
    <2>3. ElanIsStopped' \/ ElanStops'
        BY <1>5, <2>2, NoMore
        DEF ElanIsStopped, ElanStops, ElanGoesOn, ElanEnded, ElanActs, Kept, Stops
    <2> QED
        BY <2>2, <2>3, ElanCallKeeps
<1>6. CASE /\ calls = Call("session_error", "cancelled") /\ cancel # "no" /\ ElanActs({"STOP"})
           /\ \/ dev.driver = "running" /\ drv.deactivating = FALSE
                     /\ dev.state \in {"AWAIT_FINGER_ON", "CAPTURE"}
              \/ dev.driver = "deactivating" /\ drv.deactivating = TRUE
    <2>1. Pending("session_error", "cancelled", <<>>)
        BY <1>6, OneCall
    <2>2. dev' = dev /\ Kept /\ calls' = Told(dev') \o <<>> /\ Told(dev') = <<>>
        BY <1>6, <2>1, SessionErrorIsMade
    <2>3. ElanRuns' \/ ElanStops'
        BY <1>6, <2>2, NoMore DEF ElanRuns, ElanStops, ElanGoesOn, ElanActs, Kept
    <2>4. [Next]_vars /\ ErrorInv'
        BY <2>2, RunsKeep DEF Kept, libraryVars
    <2> QED
        BY <2>2, <2>3, <2>4, ElanCallKeeps
<1>7. \/ dev.driver = "running" /\ dev.state \in {"AWAIT_FINGER_ON", "CAPTURE"} => ~Enrolling
      \/ dev.driver = "deactivating" /\ dev.minutiae_scan_active = FALSE
    BY DEF ElanReports, Enrolling, ImageInv, OneScanAtATime
<1>8. dev.driver = "running" /\ dev.state \in {"AWAIT_FINGER_ON", "CAPTURE"} => ~Enrolling
    BY DEF ImageInv, OneScanAtATime, Enrolling
<1>9. CASE dev.driver = "running"
    BY <1>1, <1>2, <1>3, <1>4, <1>5, <1>6, <1>8, <1>9 DEF ElanReports
<1>10. CASE dev.driver = "deactivating"
    BY <1>5, <1>6, <1>10 DEF ElanReports, Enrolling
<1> QED
    BY <1>9, <1>10 DEF ElanReports

\* elan is told a state: it scans, goes on or rests.
LEMMA ElanIsToldKeeps ==
    ASSUME ImageInv, ErrorInv, ElanInv, driver = "elan", ElanIsTold, DriversNext
    PROVE  [Next]_vars /\ ErrorInv' /\ ElanInv' /\ driver' = driver
<1>0. drv \in ElanData /\ dev.driver = "running" /\ drv.deactivating = FALSE
    BY DEF ElanInv, ElanIsTold
<1>1. CASE /\ calls = Call("change_state", "AWAIT_FINGER_ON")
           /\ dev.state = "AWAIT_FINGER_ON" /\ ElanEnded
    <2>1. Pending("change_state", "AWAIT_FINGER_ON", <<>>)
        BY <1>1, OneCall
    <2>2. /\ UNCHANGED <<libraryVars, driver>> /\ calls' = <<>> \o <<>>
          /\ drv' = IF "AWAIT_FINGER_ON" = "AWAIT_FINGER_ON" THEN ElanCalibrate ELSE drv
        BY <2>1, ElanVfuncMakes
    <2> DEFINE r == ElanResetState(drv)
               s == [r EXCEPT !.active = TRUE, !.calib_atts_left = ElanAttempts]
    <2>3. drv' = ElanCmd(s, "GET_BACKGROUND")
        BY <1>1, <2>2 DEF ElanCalibrate, ElanEnded
    <2>4. r \in ElanData /\ r.deactivating = FALSE /\ r.num_frames = 0
        BY <1>0, ElanResetMakes DEF ElanIn
    <2> HIDE DEF r
    <2>5. s \in ElanData /\ s.deactivating = FALSE /\ s.num_frames = 0 /\ s.active = TRUE
        <3>1. ElanAttempts \in Int
            BY ElanAssumption
        <3> QED
            BY <2>4, <3>1 DEF ElanData
    <2> HIDE DEF s
    <2>6. ElanIn(s, "GET_BACKGROUND", drv') /\ drv'.num_frames = 0
        BY <2>3, <2>5, ElanCmdMakes DEF ElanStates, ElanScanning, ElanCalibrating
    <2>7. drv' \in ElanData /\ drv'.state = "GET_BACKGROUND" /\ drv'.active = TRUE
            /\ drv'.deactivating = FALSE /\ drv'.num_frames = 0
        BY <2>5, <2>6 DEF ElanIn
    <2>8. ElanRuns'
        BY <1>0, <1>1, <2>2, <2>7, NoMore
        DEF ElanRuns, ElanActs, ElanScanning, ElanCalibrating, libraryVars
    <2> QED
        BY <2>2, <2>7, <2>8, ElanStepKeeps
<1>2. ASSUME NEW state \in {"CAPTURE", "AWAIT_FINGER_OFF", "IDLE"}, dev.state = state,
             calls = Call("change_state", state),
             \/ state = "CAPTURE" /\ ElanActs({"READ_DATA"})
             \/ state = "AWAIT_FINGER_OFF" /\ ElanActs({"STOP"})
             \/ state = "IDLE" /\ ElanEnded
      PROVE  [Next]_vars /\ ErrorInv' /\ ElanInv' /\ driver' = driver
    <2>1. Pending("change_state", state, <<>>)
        BY <1>2, OneCall
    <2>2. UNCHANGED <<libraryVars, driver, drv>> /\ calls' = <<>> \o <<>>
        BY <1>2, <2>1, ElanVfuncMakes
    <2>3. ElanRuns'
        BY <1>0, <1>2, <2>2, NoMore DEF ElanRuns, ElanActs, ElanEnded, libraryVars
    <2> QED
        BY <1>0, <2>2, <2>3, ElanStepKeeps
<1> QED
    BY <1>1, <1>2 DEF ElanIsTold

\* elan is deactivated, at once or once its machine has ended.
LEMMA ElanIsStoppedKeeps ==
    ASSUME ImageInv, ErrorInv, ElanInv, driver = "elan", ElanIsStopped, DriversNext
    PROVE  [Next]_vars /\ ErrorInv' /\ ElanInv' /\ driver' = driver
<1>0. drv \in ElanData /\ dev.driver = "deactivating" /\ drv.deactivating = FALSE
    BY DEF ElanInv, ElanIsStopped
<1>1. CASE calls = Vfuncs("DEACTIVATING") /\ (ElanGoesOn \/ ElanEnded)
    <2>1. Pending("change_state", "DEACTIVATING", Call("deactivate", "none"))
        BY <1>1, VfuncsAre, TwoCalls
    <2>2. UNCHANGED <<libraryVars, driver, drv>> /\ calls' = <<>> \o Call("deactivate", "none")
        BY <2>1, ElanVfuncMakes
    <2>3. ElanIsStopped'
        BY <1>0, <1>1, <2>2, NoMore
        DEF ElanIsStopped, ElanGoesOn, ElanActs, ElanEnded, libraryVars
    <2> QED
        BY <1>0, <2>2, <2>3, ElanStepKeeps
<1>2. CASE calls = None("deactivate") /\ ElanGoesOn
    <2>1. Pending("deactivate", "none", <<>>) /\ drv.active
        BY <1>2, OneCall, NoMore DEF ElanGoesOn, ElanActs
    <2>2. /\ UNCHANGED <<libraryVars, driver>> /\ drv' = [drv EXCEPT !.deactivating = TRUE]
          /\ calls' = <<>> \o <<>>
        BY <2>1, ElanVfuncMakes
    <2>3. drv' \in ElanData /\ drv'.state = drv.state /\ drv'.active = drv.active
            /\ drv'.deactivating = TRUE
        BY <1>0, <2>2 DEF ElanData
    <2>4. ElanStops'
        BY <1>0, <1>2, <2>2, <2>3, NoMore DEF ElanStops, ElanGoesOn, ElanActs, libraryVars
    <2> QED
        BY <2>2, <2>3, <2>4, ElanStepKeeps
<1>3. CASE calls = None("deactivate") /\ ElanEnded
    <2>1. Pending("deactivate", "none", <<>>) /\ ~drv.active
        BY <1>3, OneCall, NoMore DEF ElanEnded
    <2>2. UNCHANGED <<libraryVars, driver, drv>> /\ calls' = None("deactivate_complete") \o <<>>
        BY <2>1, ElanVfuncMakes
    <2>3. ElanIsStopped'
        BY <1>0, <1>3, <2>2, NoMore DEF ElanIsStopped, ElanEnded, libraryVars
    <2> QED
        BY <1>0, <2>2, <2>3, ElanStepKeeps
<1>4. CASE /\ calls \in {Call("deactivate_complete", "none"), Call("deactivate_complete", "fatal")}
           /\ ElanEnded
    <2>1. PICK error \in {"none", "fatal"} : calls = Call("deactivate_complete", error)
        BY <1>4
    <2>2. Pending("deactivate_complete", error, <<>>)
        BY <2>1, OneCall
    <2>3. /\ Next /\ Kept /\ ErrorInv' /\ dev'.driver = "off"
          /\ calls' = Call("change_state", "INACTIVE") \o <<>>
        BY <1>0, <2>2, DeactivationIsMade
    <2>4. Outside' /\ ElanRests'
        BY <1>0, <1>4, <2>3, NoMore DEF Outside, OutsideCalls, ElanRests, ElanEnded, Kept
    <2> QED
        BY <2>3, <2>4, ElanCallKeeps
<1> QED
    BY <1>1, <1>2, <1>3, <1>4 DEF ElanIsStopped

\* Outside of a capture the calls leave elan at rest, or activate it.
LEMMA ElanOutsideKeeps ==
    ASSUME ImageInv, ErrorInv, ElanInv, driver = "elan", DriversNext, calls # <<>>,
           Outside, ElanRests
    PROVE  [Next]_vars /\ ErrorInv' /\ ElanInv' /\ driver' = driver
<1>0. drv \in ElanData
    BY DEF ElanInv
<1>1. CASE [Next]_vars /\ ErrorInv' /\ UNCHANGED <<driver, drv>> /\ Outside'
    BY <1>0, <1>1 DEF ElanInv, ElanRests
<1>2. CASE dev.driver = "off" /\ Pending("change_state", "INACTIVE", <<>>)
    <2>1. UNCHANGED <<libraryVars, driver, drv>> /\ calls' = <<>> \o <<>>
        BY <1>2, ElanVfuncMakes
    <2>2. Outside' /\ ElanRests'
        BY <1>2, <2>1, NoMore DEF Outside, OutsideCalls, ElanRests, libraryVars
    <2> QED
        BY <1>0, <2>1, <2>2, ElanStepKeeps
<1>3. CASE dev.driver = "activating"
           /\ Pending("change_state", "ACTIVATING", Call("activate", "none"))
    <2>1. UNCHANGED <<libraryVars, driver, drv>> /\ calls' = <<>> \o Call("activate", "none")
        BY <1>3, ElanVfuncMakes
    <2>2. Outside' /\ ElanRests'
        BY <1>3, <2>1, NoMore DEF Outside, OutsideCalls, ElanRests, libraryVars
    <2> QED
        BY <1>0, <2>1, <2>2, ElanStepKeeps
<1>4. CASE dev.driver = "activating" /\ Pending("activate", "none", <<>>)
    <2> DEFINE r == ElanResetState(drv)
    <2>1. /\ UNCHANGED <<libraryVars, driver>> /\ drv' = ElanCmd(r, "GET_FW_VER")
          /\ calls' = <<>> \o <<>>
        BY <1>4, ElanVfuncMakes
    <2>2. ElanIn(drv, drv.state, r)
        BY <1>0, ElanResetMakes
    <2> HIDE DEF r
    <2>3. ElanIn(r, "GET_FW_VER", drv')
        BY <2>1, <2>2, ElanCmdMakes DEF ElanIn, ElanStates, ElanActivating
    <2>4. drv' \in ElanData /\ drv'.state = "GET_FW_VER" /\ drv'.active = FALSE
            /\ drv'.deactivating = FALSE
        BY <2>2, <2>3 DEF ElanIn, ElanRests
    <2>5. ElanActivates'
        BY <1>4, <2>1, <2>4, NoMore DEF ElanActivates, ElanActivating, libraryVars
    <2> QED
        BY <2>1, <2>4, <2>5, ElanStepKeeps
<1> QED
    BY <1>1, <1>2, <1>3, <1>4, OutsideMakes

\* A step of the driver in the main loop.
LEMMA ElanMainLoopKeeps ==
    ASSUME ImageInv, ErrorInv, ElanInv, driver = "elan", calls = <<>>,
           ElanActivates \/ ElanRuns \/ ElanStops, ElanTransfer \/ ElanTimeout,
           ~ErrorsDuringEnrollScan
    PROVE  [Next]_vars /\ ErrorInv' /\ ElanInv' /\ driver' = driver
<1>0. drv \in ElanData
    BY DEF ElanInv
<1>1. CASE ElanActivates
    <2>0. dev.driver = "activating" /\ drv.active = FALSE /\ drv.deactivating = FALSE
            /\ drv.state \in ElanActivating
        BY <1>1, NotEmpty DEF ElanActivates
    <2>1. PICK e : /\ ElanIn(drv, e.state, e)
                   /\ \/ e.state \in ElanActivating /\ Runs(e, <<>>)
                      \/ /\ e.state = "none"
                         /\ \E error \in {"none", "fatal", "cancelled"} :
                                Runs(e, Call("activate_complete", error))
        BY <1>0, <2>0, ElanActivatesMakes
    <2>2. drv' = e /\ UNCHANGED <<libraryVars, driver>>
        BY <2>1 DEF Runs
    <2>3. ElanActivates'
        BY <2>0, <2>1, <2>2 DEF ElanActivates, ElanIn, Runs, libraryVars
    <2> QED
        BY <2>1, <2>2, <2>3, ElanStepKeeps DEF ElanIn
<1>2. CASE drv.state = "STOP" /\ (ElanRuns \/ ElanStops)
    <2>1. PICK e \in ElanData, error \in TransferOutcomes :
               /\ e.state = "none" /\ e.active = FALSE /\ e.deactivating = FALSE
               /\ Runs(e, IF drv.deactivating = TRUE THEN Call("deactivate_complete", error)
                          ELSE IF error = "none" THEN Call("report_finger_status", "off")
                          ELSE Call("session_error", error))
        BY <1>0, <1>2, ElanStopMakes
    <2>2. drv' = e /\ UNCHANGED <<libraryVars, driver>>
        BY <2>1 DEF Runs
    <2>3. error = "none" \/ (error = "fatal" /\ ~Enrolling)
        BY DEF TransferOutcomes, MayFail, Enrolling
    <2>4. CASE ElanStops
        <3>1. calls' = Call("deactivate_complete", error) /\ dev.driver = "deactivating"
            BY <2>1, <2>4 DEF Runs, ElanStops
        <3>2. ElanIsStopped'
            BY <2>1, <2>2, <2>3, <3>1 DEF ElanIsStopped, ElanEnded, libraryVars
        <3> QED
            BY <2>1, <2>2, <3>2, ElanStepKeeps
    <2>5. CASE ElanRuns
        <3>1. /\ dev.driver = "running" /\ drv.deactivating = FALSE
              /\ \/ dev.state = "AWAIT_FINGER_OFF"
                 \/ dev.state \in {"AWAIT_FINGER_ON", "CAPTURE"} /\ cancel # "no"
            BY <1>2, <2>5
            DEF ElanRuns, ElanActs, ElanEnded, ElanScanning, ElanCalibrating, ElanCapturing
        <3>2. calls' = IF error = "none" THEN Call("report_finger_status", "off")
                       ELSE Call("session_error", error)
            BY <2>1, <3>1 DEF Runs
        <3>3. ElanReports'
            BY <2>1, <2>2, <2>3, <3>1, <3>2 DEF ElanReports, ElanEnded, Enrolling, libraryVars
        <3> QED
            BY <2>1, <2>2, <3>3, ElanStepKeeps
    <2> QED
        BY <1>2, <2>4, <2>5
<1>3. CASE drv.state \in ElanScanning /\ (ElanRuns \/ ElanStops)
    <2>0. ElanScans(drv)
        BY <1>0, <1>3, ElanScanMakes
    <2>1. drv.state # "STOP" /\ drv.state # "none"
        BY <1>3 DEF ElanScanning, ElanCalibrating, ElanCapturing
    <2>2. /\ drv.active = TRUE
          /\ ElanStops => /\ drv.deactivating = TRUE /\ dev.driver = "deactivating"
                          /\ cancel # "no" /\ dev.minutiae_scan_active = FALSE
          /\ ElanRuns =>
                 /\ drv.deactivating = FALSE /\ dev.driver = "running"
                 /\ \/ /\ dev.state = "AWAIT_FINGER_ON" /\ drv.num_frames = 0
                       /\ drv.state # "READ_DATA"
                    \/ dev.state = "CAPTURE"
                       /\ drv.state \in {"READ_DATA", "WAIT_FINGER", "NOT_READY"}
        BY <1>3, <2>1 DEF ElanStops, ElanGoesOn, ElanRuns, ElanActs, ElanEnded
    <2>3. ASSUME NEW e, NEW state, NEW more, ElanIn(drv, state, e), Runs(e, more)
          PROVE  /\ drv' = e /\ calls' = more /\ UNCHANGED <<libraryVars, driver>>
                 /\ drv' \in ElanData /\ drv'.state = state /\ drv'.active = TRUE
                 /\ drv'.deactivating = drv.deactivating
        BY <2>2, <2>3 DEF ElanIn, Runs
    <2>4. CASE ElanGoes(drv)
        <3>1. PICK e : /\ ElanIn(drv, e.state, e) /\ Runs(e, <<>>)
                       /\ \/ /\ drv.state # "READ_DATA" /\ e.state \in ElanScanning \ {"READ_DATA"}
                             /\ drv.num_frames = 0 => e.num_frames = 0
                             /\ drv.state \in {"WAIT_FINGER", "NOT_READY"} =>
                                    e.state \in {"WAIT_FINGER", "NOT_READY"}
                          \/ drv.state = "READ_DATA" /\ e.state \in {"READ_DATA", "WAIT_FINGER"}
            BY <2>4 DEF ElanGoes
        <3>2. /\ drv' = e /\ calls' = <<>> /\ UNCHANGED <<libraryVars, driver>>
              /\ drv' \in ElanData /\ drv'.active = TRUE
              /\ drv'.deactivating = drv.deactivating
            BY <2>3, <3>1
        <3>3. e.state \in ElanScanning
            BY <3>1 DEF ElanScanning, ElanCapturing
        <3>4. ElanStops => ElanStops'
            BY <2>2, <3>2, <3>3 DEF ElanStops, ElanGoesOn, ElanActs, libraryVars
        <3>5. ElanRuns => ElanRuns'
            BY <2>2, <3>1, <3>2, <3>3 DEF ElanRuns, ElanActs, libraryVars
        <3> QED
            BY <1>3, <3>2, <3>4, <3>5, ElanStepKeeps
    <2>5. CASE ElanFailing(drv)
        <3>1. PICK e, error : /\ ElanIn(drv, "STOP", e) /\ Runs(e, Call("session_error", error))
                              /\ error = "fatal" \/ (error = "cancelled" /\ cancel # "no")
            BY <2>5 DEF ElanFailing
        <3>2. /\ drv' = e /\ calls' = Call("session_error", error)
              /\ UNCHANGED <<libraryVars, driver>> /\ drv' \in ElanData /\ drv'.state = "STOP"
              /\ drv'.active = TRUE /\ drv'.deactivating = drv.deactivating
            BY <2>3, <3>1
        <3>3. ElanReports'
            BY <1>3, <2>2, <3>1, <3>2 DEF ElanReports, ElanActs, libraryVars
        <3> QED
            BY <3>2, <3>3, ElanStepKeeps
    <2>6. CASE ElanFinger(drv)
        <3>1. PICK e : ElanIn(drv, "READ_DATA", e) /\ Runs(e, Call("report_finger_status", "on"))
            BY <2>6 DEF ElanFinger
        <3>2. /\ drv' = e /\ calls' = Call("report_finger_status", "on")
              /\ UNCHANGED <<libraryVars, driver>> /\ drv' \in ElanData
              /\ drv'.state = "READ_DATA"
              /\ drv'.active = TRUE /\ drv'.deactivating = drv.deactivating
            BY <2>3, <3>1
        <3>3. ElanReports'
            BY <1>3, <2>2, <2>6, <3>2 DEF ElanReports, ElanActs, ElanFinger, libraryVars
        <3> QED
            BY <3>2, <3>3, ElanStepKeeps
    <2>7. CASE ElanImage(drv)
        <3>1. PICK e : ElanIn(drv, "STOP", e) /\ Runs(e, None("image_captured"))
            BY <2>7 DEF ElanImage
        <3>2. /\ drv' = e /\ calls' = None("image_captured")
              /\ UNCHANGED <<libraryVars, driver>> /\ drv' \in ElanData
              /\ drv'.state = "STOP"
              /\ drv'.active = TRUE /\ drv'.deactivating = drv.deactivating
            BY <2>3, <3>1
        <3>3. ElanRuns /\ dev.state = "CAPTURE"
            BY <1>3, <2>2, <2>7 DEF ElanImage
        <3>4. ElanReports'
            BY <2>2, <3>2, <3>3 DEF ElanReports, ElanActs, libraryVars
        <3> QED
            BY <3>2, <3>4, ElanStepKeeps
    <2>8. CASE ElanShort(drv)
        <3>1. PICK e : ElanIn(drv, "STOP", e) /\ Runs(e, None("retry_scan"))
            BY <2>8 DEF ElanShort
        <3>2. /\ drv' = e /\ calls' = None("retry_scan")
              /\ UNCHANGED <<libraryVars, driver>> /\ drv' \in ElanData
              /\ drv'.state = "STOP"
              /\ drv'.active = TRUE /\ drv'.deactivating = drv.deactivating
            BY <2>3, <3>1
        <3>3. ElanReports'
            BY <1>3, <2>2, <2>8, <3>2 DEF ElanReports, ElanActs, ElanShort, libraryVars
        <3> QED
            BY <3>2, <3>3, ElanStepKeeps
    <2> QED
        BY <2>0, <2>4, <2>5, <2>6, <2>7, <2>8 DEF ElanScans
<1> QED
    <2>1. drv.state # "none"
        BY DEF ElanTransfer, ElanTimeout, ElanTimedOut, ElanActivating, ElanCalibrating,
               ElanCapturing
    <2>2. ElanRuns \/ ElanStops => drv.state = "STOP" \/ drv.state \in ElanScanning
        BY <2>1 DEF ElanRuns, ElanStops, ElanGoesOn, ElanActs, ElanEnded, ElanScanning,
                    ElanCapturing
    <2> QED
        BY <1>1, <1>2, <1>3, <2>2

\* The user and the main loop of the library leave elan where it is.
LEMMA ElanLibraryKeeps ==
    ASSUME ImageInv, ErrorInv, ElanInv, driver = "elan", calls = <<>>,
           ElanActivates \/ ElanRuns \/ ElanStops \/ (Outside /\ ElanRests),
           UserCalls \/ LibraryMainLoop
    PROVE  [Next]_vars /\ ErrorInv' /\ ElanInv' /\ driver' = driver
<1>0. /\ [Next]_vars /\ ErrorInv' /\ UNCHANGED <<driver, drv>> /\ drv \in ElanData
    BY UserStep, LibraryStep DEF ElanInv
<1>1. CASE dev.driver = "off" /\ Outside'
    <2>1. ElanRests
        BY <1>1 DEF ElanActivates, ElanRuns, ElanStops
    <2>2. ElanRests'
        BY <1>0, <2>1 DEF ElanRests
    <2> QED
        BY <1>0, <1>1, <2>2 DEF ElanInv
<1>2. CASE /\ Same /\ calls' = <<>> /\ (cancel # "no" => cancel' # "no")
           /\ SameScan \/ (dev.minutiae_scan_active = TRUE /\ dev'.minutiae_scan_active = FALSE)
    <2>1. Outside /\ ElanRests => Outside' /\ ElanRests'
        BY <1>0, <1>2 DEF Outside, OutsideCalls, Same, ElanRests
    <2>2. ElanActivates => ElanActivates'
        BY <1>0, <1>2, NotEmpty DEF ElanActivates, Same
    <2>3. ElanRuns => ElanRuns'
        BY <1>0, <1>2 DEF ElanRuns, ElanActs, ElanEnded, Same
    <2>4. ElanStops => ElanStops'
        BY <1>0, <1>2 DEF ElanStops, ElanGoesOn, ElanActs, Same, SameScan
    <2> QED
        BY <1>0, <2>1, <2>2, <2>3, <2>4 DEF ElanInv
<1>3. CASE dev.state = "IDLE" /\ Moves("AWAIT_FINGER_ON")
           /\ calls' = Call("change_state", "AWAIT_FINGER_ON")
    <2>1. dev.driver = "running"
        BY <1>3 DEF ImageInv, DriverAndStateAgree
    <2>2. ElanRuns
        BY <2>1 DEF ElanActivates, ElanStops, Outside, OutsideCalls
    <2>3. ElanIsTold'
        BY <1>0, <1>3, <2>2 DEF ElanRuns, ElanIsTold, ElanEnded, Moves
    <2> QED
        BY <1>0, <2>3 DEF ElanInv
<1>4. CASE /\ dev.driver = "running" /\ Stops /\ calls' = Vfuncs("DEACTIVATING")
           /\ \/ SameScan /\ cancel' # "no"
              \/ dev'.minutiae_scan_active = FALSE /\ dev.state \in {"IDLE", "AWAIT_FINGER_OFF"}
    <2>1. ElanRuns
        BY <1>4 DEF ElanActivates, ElanStops, Outside, OutsideCalls
    <2>2. dev.state \in {"AWAIT_FINGER_ON", "CAPTURE"} => dev.minutiae_scan_active = FALSE
        BY InvUnfailed DEF ImageInv, OneScanAtATime, Device
    <2>3. drv.deactivating = FALSE
            /\ \/ dev.state \in {"AWAIT_FINGER_ON", "CAPTURE"} /\ ElanActs(ElanScanning)
               \/ ElanActs({"STOP"}) \/ ElanEnded
        BY <2>1 DEF ElanRuns, ElanActs, ElanScanning, ElanCapturing
    <2>4. (ElanGoesOn \/ ElanEnded)'
        BY <1>0, <1>4, <2>2, <2>3 DEF ElanGoesOn, ElanActs, ElanEnded, SameScan
    <2>5. ElanIsStopped'
        BY <1>0, <1>4, <2>3, <2>4 DEF ElanIsStopped, Stops
    <2> QED
        BY <1>0, <2>5 DEF ElanInv
<1>5. CASE UserCalls
    BY <1>0, <1>1, <1>2, <1>5, UserStep DEF Same, SameScan
<1>6. CASE LibraryMainLoop
    BY <1>1, <1>2, <1>3, <1>4, <1>6, LibraryStep
<1> QED
    BY <1>5, <1>6

\* Every step of elan with the library is one of the device.
LEMMA ElanNext ==
    ASSUME ImageInv, ErrorInv, ElanInv, driver = "elan", DriversNext, ~ErrorsDuringEnrollScan
    PROVE  [Next]_vars /\ ErrorInv' /\ ElanInv' /\ driver' = driver
<1>1. CASE calls = <<>>
    <2>1. ElanActivates \/ ElanRuns \/ ElanStops \/ (Outside /\ ElanRests)
        BY <1>1, NotEmpty DEF ElanInv, ElanReports, ElanIsTold, ElanIsStopped
    <2>2. CASE MainLoopOfDriver
        <3>1. ElanTransfer \/ ElanTimeout
            BY <2>2 DEF MainLoopOfDriver, NbMainLoop, UruMainLoop, ElanMainLoop, MainLoopRuns
        <3>2. ~ElanRests
            BY <3>1 DEF ElanTransfer, ElanTimeout, ElanTimedOut, ElanActivating, ElanCalibrating,
                        ElanCapturing, ElanRests
        <3> QED
            BY <1>1, <2>1, <3>1, <3>2, ElanMainLoopKeeps
    <2> QED
        BY <1>1, <2>1, <2>2, ElanLibraryKeeps, OnlyMainLoop
<1>2. CASE calls # <<>>
    BY <1>2, ElanActivatesKeeps, ElanReportsKeeps, ElanIsToldKeeps, ElanIsStoppedKeeps,
       ElanOutsideKeeps
    DEF ElanInv, ElanRuns, ElanStops
<1> QED
    BY <1>1, <1>2

\* A change of the mode is put behind the pending ones, another transfer behind it.
LEMMA AppendedIsLast ==
    ASSUME NEW q \in Seq(Callbacks), Modes(q), NEW callback \in Callbacks
    PROVE  /\ Append(q, callback) \in Seq(Callbacks) /\ EndsWith(Append(q, callback), callback)
           /\ callback = "mode" => Modes(Append(q, callback))
<1> DEFINE a == Append(q, callback)
<1>1. /\ a \in Seq(Callbacks) /\ Len(a) = Len(q) + 1 /\ Len(q) \in Nat
      /\ \A i \in 1 .. Len(q) : a[i] = q[i]
      /\ a[Len(q) + 1] = callback
    BY AppendProperties, LenProperties
<1> HIDE DEF a
<1>2. \A i \in 1 .. Len(a) : i # Len(a) => a[i] = "mode"
    BY <1>1 DEF Modes
<1>3. EndsWith(a, callback)
    BY <1>1, <1>2 DEF EndsWith
<1>4. callback = "mode" => Modes(a)
    BY <1>1, <1>2 DEF Modes
<1> QED
    BY <1>1, <1>3, <1>4 DEF a

\* Of changes of the mode the first is answered and changes of the mode are left.
LEMMA FirstIsMode ==
    ASSUME NEW q \in Seq(Callbacks), Modes(q), q # <<>>
    PROVE  Head(q) = "mode" /\ Tail(q) \in Seq(Callbacks) /\ Modes(Tail(q))
<1>1. Len(q) \in Nat \ {0} /\ Head(q) = q[1]
    BY EmptySeq
<1>2. Tail(q) \in Seq(Callbacks) /\ Len(Tail(q)) = Len(q) - 1
      /\ \A i \in 1 .. Len(Tail(q)) : Tail(q)[i] = q[i + 1]
    BY HeadTailProperties
<1>3. Head(q) = "mode"
    BY <1>1 DEF Modes
<1>4. Modes(Tail(q))
    BY <1>1, <1>2 DEF Modes
<1> QED
    BY <1>2, <1>3, <1>4

\* Another transfer is answered after the changes of the mode.
LEMMA FirstOrLast ==
    ASSUME NEW q \in Seq(Callbacks), NEW callback \in Callbacks \ {"mode"}, EndsWith(q, callback)
    PROVE  /\ q # <<>> /\ Tail(q) \in Seq(Callbacks)
           /\ \/ Head(q) = "mode" /\ EndsWith(Tail(q), callback)
              \/ Head(q) = callback /\ Tail(q) = <<>>
<1>1. q # <<>>
    BY EmptySeq DEF EndsWith
<1>2. Len(q) \in Nat \ {0} /\ Head(q) = q[1]
    BY <1>1, EmptySeq
<1>3. Tail(q) \in Seq(Callbacks) /\ Len(Tail(q)) = Len(q) - 1
      /\ \A i \in 1 .. Len(Tail(q)) : Tail(q)[i] = q[i + 1]
    BY <1>1, HeadTailProperties
<1> DEFINE t == Tail(q)
           n == Len(q)
<1>4. n \in Nat \ {0} /\ Head(q) = q[1] /\ t \in Seq(Callbacks) /\ Len(t) = n - 1
      /\ (\A i \in 1 .. Len(t) : t[i] = q[i + 1])
      /\ q[n] = callback /\ (\A i \in 1 .. n : i # n => q[i] = "mode")
    BY <1>2, <1>3 DEF EndsWith
<1>5. CASE n = 1
    <2>1. Len(t) = 0
        BY <1>4, <1>5
    <2>2. t = <<>>
        <3> HIDE DEF t
        <3> QED
            BY <1>4, <2>1, EmptySeq
    <2> QED
        BY <1>1, <1>4, <1>5, <2>2
<1>6. CASE n # 1
    <2> HIDE DEF t, n
    <2>1. Head(q) = "mode"
        BY <1>4, <1>6
    <2>2. Len(t) > 0 /\ Len(t) \in Nat /\ t[Len(t)] = callback
        BY <1>4, <1>6
    <2>3. \A i \in 1 .. Len(t) : i # Len(t) => t[i] = "mode"
        BY <1>4, <1>6
    <2>4. EndsWith(t, callback)
        BY <2>2, <2>3 DEF EndsWith
    <2> QED
        BY <1>1, <1>4, <2>1, <2>4 DEF t
<1> QED
    BY <1>5, <1>6

\* While the device is activated one transfer is pending.
LEMMA OnlyOne ==
    /\ <<>> \in Seq(Callbacks) /\ Modes(<<>>)
    /\ Append(<<>>, "ssm") = <<"ssm">> /\ <<"ssm">> \in Seq(Callbacks) /\ <<"ssm">> # <<>>
    /\ Head(<<"ssm">>) = "ssm" /\ Tail(<<"ssm">>) = <<>>
<1>1. Append(<<>>, "ssm") = <<"ssm">> /\ <<"ssm">> \in Seq(Callbacks) /\ <<"ssm">> # <<>>
    BY DEF Callbacks
<1>2. Head(<<"ssm">>) = "ssm" /\ Len(Tail(<<"ssm">>)) = 0 /\ Tail(<<"ssm">>) \in Seq(Callbacks)
    BY <1>1, HeadTailProperties
<1>3. Tail(<<"ssm">>) = <<>>
    BY <1>2, EmptySeq
<1>4. <<>> \in Seq(Callbacks) /\ Modes(<<>>)
    BY EmptySeq DEF Modes
<1> QED
    BY <1>1, <1>2, <1>3, <1>4

-----------------------------------------------------------------------------
\* Only the pending transfers tell e from d.
UruSends(d, callback, e) ==
    /\ e \in UruData /\ e.control = Append(d.control, callback)
    /\ e.irq = d.irq /\ e.irq_cb = d.irq_cb /\ e.activate_state = d.activate_state
    /\ e.init = d.init /\ e.sub = d.sub /\ e.timeout = d.timeout
    /\ e.img = d.img /\ e.imaging = d.imaging

\* A control transfer is queued behind those that are pending.
LEMMA UruControlMakes ==
    ASSUME NEW d \in UruData, NEW callback \in Callbacks
    PROVE  UruSends(d, callback, UruControl(d, callback))
<1>1. Append(d.control, callback) \in Seq(Callbacks)
    BY AppendProperties DEF UruData
<1> QED
    BY <1>1 DEF UruData, UruSends, UruControl

\* What the vfuncs of uru4000 change.
LEMMA UruVfuncMakes ==
    ASSUME DriversNext, driver = "uru4000",
           NEW name \in {"activate", "change_state", "deactivate", "imaging_complete",
                         "image_reported"},
           NEW arg, NEW rest, Pending(name, arg, rest)
    PROVE  /\ Tail(calls) = rest
           /\ name = "activate" =>
                  Returns(UruControl([UruStartIrqHandler(drv)
                              EXCEPT !.timeouts = 0, !.init = "GET_HWSTAT"], "ssm"), <<>>)
           /\ name = "deactivate" => Returns(drv, <<>>)
           /\ name = "change_state" /\ drv.img =>
                  Returns([drv EXCEPT !.activate_state = arg], <<>>)
           /\ name = "change_state" /\ ~drv.img =>
                  UruExecuteStateChange([drv EXCEPT !.activate_state = arg])
           /\ name = "imaging_complete" =>
                  UruExecuteStateChange([drv EXCEPT !.img = FALSE, !.imaging = "none"])
           /\ name = "image_reported" /\ drv.activate_state = "CAPTURE" =>
                  Returns([drv EXCEPT !.imaging = "CAPTURE"], <<>>)
           /\ name = "image_reported" /\ drv.activate_state # "CAPTURE" =>
                  Returns(drv, None("imaging_complete"))
<1>1. /\ \/ UruActivate \/ UruChangeState \/ UruImagingComplete \/ UruImageReported
         \/ Vfunc("deactivate") /\ Returns(drv, <<>>)
    BY OnlyCalls DEF LibraryCalls, NbVfuncs, UruVfuncs, ElanVfuncs
<1>2. Head(calls).call = name /\ Head(calls).arg = arg /\ Tail(calls) = rest
    BY DEF Pending
<1>3. CASE name = "activate"
    BY <1>1, <1>2, <1>3
    DEF UruActivate, UruChangeState, UruImagingComplete, UruImageReported, Vfunc
<1>4. CASE name = "deactivate"
    BY <1>1, <1>2, <1>4
    DEF UruActivate, UruChangeState, UruImagingComplete, UruImageReported, Vfunc
<1>5. CASE name = "change_state"
    BY <1>1, <1>2, <1>5
    DEF UruActivate, UruChangeState, UruImagingComplete, UruImageReported, Vfunc
<1>6. CASE name = "imaging_complete"
    BY <1>1, <1>2, <1>6
    DEF UruActivate, UruChangeState, UruImagingComplete, UruImageReported, Vfunc
<1>7. CASE name = "image_reported"
    BY <1>1, <1>2, <1>7
    DEF UruActivate, UruChangeState, UruImagingComplete, UruImageReported, Vfunc
<1> QED
    BY <1>2, <1>3, <1>4, <1>5, <1>6, <1>7

\* execute_state_change: what is sent for the state that the driver was told.
LEMMA UruExecuteMakes ==
    ASSUME NEW d \in UruData, UruExecuteStateChange(d), NEW rest, Tail(calls) = rest
    PROVE  /\ UNCHANGED <<libraryVars, driver>> /\ drv' \in UruData
           /\ drv'.irq = d.irq /\ drv'.activate_state = d.activate_state
           /\ drv'.init = d.init /\ drv'.sub = d.sub /\ drv'.timeout = d.timeout
           /\ d.activate_state # "CAPTURE" => drv'.img = d.img /\ drv'.imaging = d.imaging
           /\ d.activate_state = "DEACTIVATING" =>
                  /\ calls' = <<>> \o rest
                  /\ drv'.irq_cb = "none" /\ drv'.control = Append(d.control, "off")
           /\ d.activate_state = "CAPTURE" =>
                  /\ calls' = <<>> \o rest /\ drv'.img = TRUE /\ drv'.imaging = "CAPTURE"
                  /\ drv'.irq_cb = "none" /\ drv'.control = Append(d.control, "mode")
           /\ d.activate_state \in {"AWAIT_FINGER_ON", "AWAIT_FINGER_OFF"} /\ d.irq = "off" =>
                  drv' = d /\ calls' = Call("session_error", "fatal") \o rest
           /\ d.activate_state \in {"AWAIT_FINGER_ON", "AWAIT_FINGER_OFF"} /\ d.irq # "off" =>
                  /\ calls' = <<>> \o rest
                  /\ drv'.irq_cb = "finger" /\ drv'.control = Append(d.control, "mode")
           /\ d.activate_state \in {"INACTIVE", "ACTIVATING", "IDLE"} =>
                  drv' = d /\ calls' = <<>> \o rest
<1>1. CASE d.activate_state = "DEACTIVATING"
    <2> DEFINE b == [d EXCEPT !.irq_cb = "none"]
               e == UruControl(b, "off")
    <2>1. Returns(e, <<>>)
        BY <1>1 DEF UruExecuteStateChange
    <2>2. b \in UruData /\ b.irq = d.irq /\ b.activate_state = d.activate_state
            /\ b.init = d.init /\ b.sub = d.sub /\ b.timeout = d.timeout
            /\ b.img = d.img /\ b.imaging = d.imaging /\ b.irq_cb = "none"
            /\ b.control = d.control
        BY DEF UruData
    <2> HIDE DEF b
    <2>3. UruSends(b, "off", e)
        BY <2>2, UruControlMakes DEF Callbacks
    <2> HIDE DEF e
    <2> QED
        BY <1>1, <2>1, <2>2, <2>3 DEF UruSends, Returns
<1>2. CASE d.activate_state = "CAPTURE"
    <2> DEFINE b == [d EXCEPT !.irq_cb = "none", !.img = TRUE, !.imaging = "CAPTURE", !.keys = 0]
               e == UruControl(b, "mode")
    <2>1. Returns(e, <<>>)
        BY <1>2 DEF UruExecuteStateChange, UruStartCapture
    <2>2. b \in UruData /\ b.irq = d.irq /\ b.activate_state = d.activate_state
            /\ b.init = d.init /\ b.sub = d.sub /\ b.timeout = d.timeout
            /\ b.img = TRUE /\ b.imaging = "CAPTURE" /\ b.irq_cb = "none"
            /\ b.control = d.control
        BY DEF UruData
    <2> HIDE DEF b
    <2>3. UruSends(b, "mode", e)
        BY <2>2, UruControlMakes DEF Callbacks
    <2> HIDE DEF e
    <2> QED
        BY <1>2, <2>1, <2>2, <2>3 DEF UruSends, Returns
<1>3. CASE d.activate_state \in {"AWAIT_FINGER_ON", "AWAIT_FINGER_OFF"} /\ d.irq = "off"
    <2>1. Returns(d, Call("session_error", "fatal"))
        BY <1>3 DEF UruExecuteStateChange, UruAwaitFinger
    <2> QED
        BY <1>3, <2>1 DEF Returns
<1>4. CASE d.activate_state \in {"AWAIT_FINGER_ON", "AWAIT_FINGER_OFF"} /\ d.irq # "off"
    <2> DEFINE b == [d EXCEPT !.irq_cb = "finger"]
               e == UruControl(b, "mode")
    <2>1. Returns(e, <<>>)
        BY <1>4 DEF UruExecuteStateChange, UruAwaitFinger
    <2>2. b \in UruData /\ b.irq = d.irq /\ b.activate_state = d.activate_state
            /\ b.init = d.init /\ b.sub = d.sub /\ b.timeout = d.timeout
            /\ b.img = d.img /\ b.imaging = d.imaging /\ b.irq_cb = "finger"
            /\ b.control = d.control
        BY DEF UruData
    <2> HIDE DEF b
    <2>3. UruSends(b, "mode", e)
        BY <2>2, UruControlMakes DEF Callbacks
    <2> HIDE DEF e
    <2> QED
        BY <1>4, <2>1, <2>2, <2>3 DEF UruSends, Returns
<1>5. CASE d.activate_state \in {"INACTIVE", "ACTIVATING", "IDLE"}
    <2>1. Returns(d, <<>>)
        BY <1>5 DEF UruExecuteStateChange
    <2> QED
        BY <1>5, <2>1 DEF Returns
<1> QED
    BY <1>1, <1>2, <1>3, <1>4, <1>5 DEF UruData, States

\* A machine of the activation that waits for the answer to a transfer.
UruWaits(init, sub) ==
    \/ init \in {"GET_HWSTAT", "CHECK_HWSTAT_POWERDOWN", "GET_VERSION"} /\ sub = "none"
    \/ init = "REBOOT_POWER" /\ sub \in {"SET_HWSTAT", "GET_HWSTAT"}
    \/ init = "POWERUP" /\ sub \in {"SET_HWSTAT", "GET_HWSTAT", "CHALLENGE", "RESPONSE"}

\* The driver is activated and d is what it has.
UruStarts(d) ==
    /\ d \in UruData /\ d.img = FALSE /\ d.imaging = "none"
    /\ d.irq = "running" /\ d.irq_cb \in {"none", "init"}
UruPauses(d) == d.init = "POWERUP" /\ d.sub = "PAUSE"
UruInits(d) ==
    /\ UruStarts(d)
    /\ \/ d.timeout = FALSE /\ d.control = <<"ssm">> /\ UruWaits(d.init, d.sub)
       \/ d.timeout = FALSE /\ d.control = <<>> /\ UruPauses(d)
       \/ /\ d.timeout = TRUE /\ d.control = <<>>
          /\ d.init = "AWAIT_SCAN_POWER" /\ d.sub = "none"

\* A step of the activation, which goes on or has ended.
UruInitGoes ==
    \/ \E e : UruInits(e) /\ Runs(e, <<>>)
    \/ \E e : /\ UruStarts(e) /\ e.irq_cb = "none" /\ e.control = <<>>
              /\ e.init = "none" /\ e.sub = "none" /\ e.timeout = FALSE
              /\ Runs(e, Call("activate_complete", "none"))

\* A machine that sends a transfer waits for its answer.
LEMMA UruSsmMakes ==
    ASSUME NEW d, UruStarts(d), d.timeout = FALSE, d.control = <<>>, UruWaits(d.init, d.sub),
           Runs(UruControl(d, "ssm"), <<>>)
    PROVE  UruInitGoes
<1> DEFINE e == UruControl(d, "ssm")
<1>1. UruSends(d, "ssm", e)
    BY UruControlMakes DEF Callbacks, UruStarts
<1> HIDE DEF e
<1>2. UruInits(e)
    BY <1>1, OnlyOne DEF UruSends, UruInits, UruStarts
<1> QED
    BY <1>2 DEF UruInitGoes, e

\* So does a machine that enters one of its states.
LEMMA UruInitReadMakes ==
    ASSUME NEW d, UruStarts(d), d.timeout = FALSE, d.control = <<>>,
           NEW state \in {"GET_HWSTAT", "CHECK_HWSTAT_POWERDOWN", "GET_VERSION", "REBOOT_POWER",
                          "POWERUP"},
           UruWaits(state, d.sub), UruInitRead(d, state)
    PROVE  UruInitGoes
<1> DEFINE b == [d EXCEPT !.init = state]
<1>1. UruStarts(b) /\ b.timeout = FALSE /\ b.control = <<>> /\ b.init = state /\ b.sub = d.sub
    BY DEF UruStarts, UruData
<1>2. Runs(UruControl(b, "ssm"), <<>>)
    BY DEF UruInitRead
<1> HIDE DEF b
<1> QED
    BY <1>1, <1>2, UruSsmMakes

\* A device with power is asked for its version.
LEMMA UruDoneMakes ==
    ASSUME NEW d, UruStarts(d), d.control = <<>>, d.sub = "none", UruDone(d)
    PROVE  UruInitGoes
<1> DEFINE b == [d EXCEPT !.timeout = FALSE, !.irq_cb = "none"]
<1>1. UruStarts(b) /\ b.timeout = FALSE /\ b.control = <<>> /\ b.sub = "none"
    BY DEF UruStarts, UruData
<1>2. UruInitRead(b, "GET_VERSION")
    BY DEF UruDone
<1> HIDE DEF b
<1> QED
    BY <1>1, <1>2, UruInitReadMakes DEF UruWaits

\* A device without power is powered up.
LEMMA UruPowerupMakes ==
    ASSUME NEW d, UruStarts(d), d.timeout = FALSE, d.control = <<>>, UruPowerup(d)
    PROVE  UruInitGoes
<1> DEFINE b == [d EXCEPT !.irq_cb = "init", !.sub = "SET_HWSTAT", !.tries = UruTries]
<1>1. UruStarts(b) /\ b.timeout = FALSE /\ b.control = <<>> /\ b.sub = "SET_HWSTAT"
    <2>1. UruTries \in Int
        BY UruTriesAssumption
    <2> QED
        BY <2>1 DEF UruStarts, UruData
<1>2. UruInitRead(b, "POWERUP")
    BY DEF UruPowerup, UruStarts
<1> HIDE DEF b
<1> QED
    BY <1>1, <1>2, UruInitReadMakes DEF UruWaits

\* The power of the sensor is off or on.
LEMMA UruCheckMakes ==
    ASSUME NEW d, UruStarts(d), d.timeout = FALSE, d.control = <<>>, d.sub = "none",
           UruCheckPowerdown(d)
    PROVE  UruInitGoes
BY UruPowerupMakes, UruInitReadMakes DEF UruCheckPowerdown, UruWaits

\* A machine within the activation sends its next transfer.
LEMMA UruSubMakes ==
    ASSUME NEW d, UruStarts(d), d.timeout = FALSE, d.control = <<>>,
           NEW sub \in {"SET_HWSTAT", "GET_HWSTAT", "CHALLENGE", "RESPONSE"},
           UruWaits(d.init, sub), Runs(UruControl([d EXCEPT !.sub = sub], "ssm"), <<>>)
    PROVE  UruInitGoes
<1> DEFINE b == [d EXCEPT !.sub = sub]
<1>1. UruStarts(b) /\ b.timeout = FALSE /\ b.control = <<>> /\ b.init = d.init /\ b.sub = sub
    BY DEF UruStarts, UruData
<1> HIDE DEF b
<1>2. Runs(UruControl(b, "ssm"), <<>>)
    BY DEF b
<1> QED
    BY <1>1, <1>2, UruSsmMakes

\* A step of rebootpwr_run_state.
LEMMA UruRebootMakes ==
    ASSUME NEW d, UruStarts(d), d.timeout = FALSE, d.control = <<>>, d.init = "REBOOT_POWER",
           d.sub \in {"SET_HWSTAT", "GET_HWSTAT"}, UruRebootNext(d), UruFaults = {}
    PROVE  UruInitGoes
<1>1. CASE d.sub = "SET_HWSTAT"
    <2>1. Runs(UruControl([d EXCEPT !.sub = "GET_HWSTAT"], "ssm"), <<>>)
        BY <1>1 DEF UruRebootNext
    <2> QED
        BY <2>1, UruSubMakes DEF UruWaits
<1>2. CASE d.sub = "GET_HWSTAT"
    <2> DEFINE b == [d EXCEPT !.sub = "none"]
    <2>1. UruCheckPowerdown(b)
        BY <1>2 DEF UruRebootNext
    <2>2. UruStarts(b) /\ b.timeout = FALSE /\ b.control = <<>> /\ b.sub = "none"
        BY DEF UruStarts, UruData
    <2> HIDE DEF b
    <2> QED
        BY <2>1, <2>2, UruCheckMakes
<1> QED
    BY <1>1, <1>2

\* A step of powerup_run_state.
LEMMA UruPowerupNextMakes ==
    ASSUME NEW d, UruStarts(d), d.timeout = FALSE, d.control = <<>>, d.init = "POWERUP",
           d.sub \in {"SET_HWSTAT", "GET_HWSTAT", "CHALLENGE", "RESPONSE"}, UruPowerupNext(d),
           UruFaults = {}
    PROVE  UruInitGoes
<1>1. ASSUME NEW sub \in {"SET_HWSTAT", "GET_HWSTAT", "CHALLENGE", "RESPONSE"},
             Runs(UruControl([d EXCEPT !.sub = sub], "ssm"), <<>>)
      PROVE  UruInitGoes
    BY <1>1, UruSubMakes DEF UruWaits
<1>2. CASE d.sub = "SET_HWSTAT"
    <2>1. Runs(UruControl([d EXCEPT !.sub = "GET_HWSTAT"], "ssm"), <<>>)
        BY <1>2 DEF UruPowerupNext
    <2> QED
        BY <1>1, <2>1
<1>3. CASE d.sub = "CHALLENGE"
    <2>1. Runs(UruControl([d EXCEPT !.sub = "RESPONSE"], "ssm"), <<>>)
        BY <1>3 DEF UruPowerupNext
    <2> QED
        BY <1>1, <2>1
<1>4. CASE d.sub = "RESPONSE"
    <2>1. Runs(UruControl([d EXCEPT !.sub = "SET_HWSTAT"], "ssm"), <<>>)
        BY <1>4 DEF UruPowerupNext
    <2> QED
        BY <1>1, <2>1
<1>5. CASE d.sub = "GET_HWSTAT"
    <2> DEFINE b == [d EXCEPT !.sub = "none"]
               p == [d EXCEPT !.tries = @ - 1, !.sub = "PAUSE"]
               a == [b EXCEPT !.init = "AWAIT_SCAN_POWER", !.sub = "none", !.timeout = TRUE]
    <2>1. UruAwaitScanPower(b) \/ Runs(p, <<>>)
        <3>1. UruAwaitScanPower(b) \/ UruInitFails(d) \/ Runs(p, <<>>)
            BY <1>5 DEF UruPowerupNext
        <3>2. ~UruInitFails(d)
            BY DEF UruInitFails
        <3> QED
            BY <3>1, <3>2
    <2>2. UruStarts(b) /\ b.control = <<>> /\ b.sub = "none"
        BY DEF UruStarts, UruData
    <2>3. UruInits(p)
        <3> DEFINE left == d.tries - 1
        <3>0. left \in Int /\ p = [d EXCEPT !.tries = left, !.sub = "PAUSE"]
            BY DEF UruStarts, UruData
        <3> HIDE DEF left, p
        <3>1. UruStarts(p) /\ p.timeout = FALSE /\ p.control = <<>> /\ UruPauses(p)
            BY <3>0 DEF UruStarts, UruPauses, UruData
        <3> QED
            BY <3>1 DEF UruInits
    <2>4. UruInits(a)
        BY DEF UruInits, UruStarts, UruData
    <2>5. UruAwaitScanPower(b) => UruDone(b) \/ Runs(a, <<>>)
        BY DEF UruAwaitScanPower
    <2> HIDE DEF a, b, p
    <2> QED
        BY <2>1, <2>2, <2>3, <2>4, <2>5, UruDoneMakes DEF UruInitGoes
<1> QED
    BY <1>2, <1>3, <1>4, <1>5

\* The answer to a transfer of the activation.
LEMMA UruInitNextMakes ==
    ASSUME NEW d, UruStarts(d), d.timeout = FALSE, d.control = <<>>, UruWaits(d.init, d.sub),
           UruInitNext(d), UruFaults = {}
    PROVE  UruInitGoes
<1>1. CASE d.init = "GET_HWSTAT"
    <2> DEFINE b == [d EXCEPT !.sub = "SET_HWSTAT"]
    <2>1. UruInitRead(b, "REBOOT_POWER") \/ UruCheckPowerdown(d)
        BY <1>1 DEF UruInitNext
    <2>2. UruStarts(b) /\ b.timeout = FALSE /\ b.control = <<>> /\ b.sub = "SET_HWSTAT"
        BY DEF UruStarts, UruData
    <2>3. d.sub = "none"
        BY <1>1 DEF UruWaits
    <2> HIDE DEF b
    <2> QED
        BY <2>1, <2>2, <2>3, UruInitReadMakes, UruCheckMakes DEF UruWaits
<1>2. CASE d.init = "REBOOT_POWER"
    BY <1>2, UruRebootMakes DEF UruInitNext, UruWaits
<1>3. CASE d.init = "CHECK_HWSTAT_POWERDOWN"
    <2>1. UruPowerup(d)
        BY <1>3 DEF UruInitNext
    <2> QED
        BY <2>1, UruPowerupMakes
<1>4. CASE d.init = "POWERUP"
    BY <1>4, UruPowerupNextMakes DEF UruInitNext, UruWaits
<1>5. CASE d.init = "GET_VERSION"
    <2> DEFINE e == [d EXCEPT !.init = "none", !.sub = "none", !.timeout = FALSE,
                              !.irq_cb = "none"]
    <2>1. Runs(e, Call("activate_complete", "none"))
        BY <1>5 DEF UruInitNext, UruActivated
    <2>2. UruStarts(e) /\ e.irq_cb = "none" /\ e.control = <<>>
            /\ e.init = "none" /\ e.sub = "none" /\ e.timeout = FALSE
        BY DEF UruStarts, UruData
    <2> HIDE DEF e
    <2> QED
        BY <2>1, <2>2 DEF UruInitGoes
<1> QED
    BY <1>1, <1>2, <1>3, <1>4, <1>5 DEF UruWaits

\* A step of the driver leads to another phase of the driver.
LEMMA UruStepKeeps ==
    ASSUME ErrorInv, driver = "uru4000", UNCHANGED <<libraryVars, driver>>, drv' \in UruData,
           UruPhases'
    PROVE  [Next]_vars /\ ErrorInv' /\ UruInv' /\ driver' = driver
BY RunsKeep DEF UruInv

\* So does a call into the library.
LEMMA UruCallKeeps ==
    ASSUME UruInv, [Next]_vars, Kept, ErrorInv', UruPhases'
    PROVE  [Next]_vars /\ ErrorInv' /\ UruInv' /\ driver' = driver
BY DEF UruInv, Kept

\* An interrupt or a transfer of an activation.
LEMMA UruInitMakes ==
    ASSUME UruInits(drv), MainLoopOfDriver, driver = "uru4000", UruFaults = {}
    PROVE  UruInitGoes
<1>1. /\ UruStarts(drv)
      /\ \/ drv.timeout = FALSE /\ drv.control = <<"ssm">> /\ UruWaits(drv.init, drv.sub)
         \/ drv.timeout = FALSE /\ drv.control = <<>> /\ UruPauses(drv)
         \/ /\ drv.timeout = TRUE /\ drv.control = <<>>
            /\ drv.init = "AWAIT_SCAN_POWER" /\ drv.sub = "none"
    BY DEF UruInits
<1>2. /\ drv.init # "none" /\ drv.imaging # "CAPTURE" /\ drv.irq = "running"
      /\ drv.irq_cb \in {"none", "init"}
    BY <1>1 DEF UruStarts, UruWaits, UruPauses
<1>3. \/ UruImageTransfer \/ UruPowerupPause \/ UruScanpwrTimeout
      \/ \E type \in {"on", "off", "scanpwr"} : UruIrq(type)
      \/ UruIrqError \/ UruIrqCancelled \/ UruControlTransfer
    BY DEF MainLoopOfDriver, NbMainLoop, UruMainLoop, ElanMainLoop, MainLoopRuns
<1>4. ~UruImageTransfer /\ ~UruIrqCancelled
    BY <1>2 DEF UruImageTransfer, UruIrqCancelled
<1>5. ~UruIrqError
    BY <1>2 DEF UruIrqError, UruInitFails
<1>6. CASE UruPowerupPause
    <2>1. PICK sub \in {"SET_HWSTAT", "CHALLENGE"} :
              Runs(UruControl([drv EXCEPT !.sub = sub], "ssm"), <<>>)
        BY <1>6 DEF UruPowerupPause
    <2>2. drv.timeout = FALSE /\ drv.control = <<>> /\ drv.init = "POWERUP"
        BY <1>1, <1>6 DEF UruPowerupPause, UruWaits, UruPauses
    <2>3. UruWaits(drv.init, sub)
        BY <2>2 DEF UruWaits
    <2> QED
        BY <1>1, <2>1, <2>2, <2>3, UruSubMakes
<1>7. CASE UruScanpwrTimeout
    <2> DEFINE times == drv.timeouts + 1
               b == [drv EXCEPT !.irq_cb = "none", !.timeout = FALSE, !.timeouts = times]
    <2>1. UruInitFails(b) \/ UruInitRead(b, "GET_HWSTAT")
        BY <1>7 DEF UruScanpwrTimeout
    <2>2. ~UruInitFails(b)
        BY DEF UruInitFails
    <2>3. times \in Int
        BY <1>1 DEF UruStarts, UruData
    <2> HIDE DEF times
    <2>4. UruStarts(b) /\ b.timeout = FALSE /\ b.control = <<>> /\ b.sub = "none"
        BY <1>1, <1>7, <2>3 DEF UruStarts, UruData, UruScanpwrTimeout
    <2> HIDE DEF b
    <2> QED
        BY <2>1, <2>2, <2>4, UruInitReadMakes DEF UruWaits
<1>8. ASSUME NEW type \in {"on", "off", "scanpwr"}, UruIrq(type) PROVE UruInitGoes
    <2> DEFINE seen == [drv EXCEPT !.timeouts = 0 - 1]
    <2>1. UruInits(seen)
        BY DEF UruInits, UruStarts, UruPauses, UruData
    <2>2. \/ Runs(drv, <<>>)
          \/ drv.init = "AWAIT_SCAN_POWER" /\ UruDone(drv)
          \/ Runs(seen, <<>>)
        BY <1>2, <1>8 DEF UruIrq, UruInitIrq
    <2>3. drv.init = "AWAIT_SCAN_POWER" => drv.control = <<>> /\ drv.sub = "none"
        BY <1>1 DEF UruWaits, UruPauses
    <2> HIDE DEF seen
    <2> QED
        BY <1>1, <2>1, <2>2, <2>3, UruDoneMakes DEF UruInitGoes
<1>9. CASE UruControlTransfer
    <2> DEFINE b == [drv EXCEPT !.control = Tail(@)]
    <2>1. drv.timeout = FALSE /\ drv.control = <<"ssm">> /\ UruWaits(drv.init, drv.sub)
        BY <1>1, <1>9 DEF UruControlTransfer
    <2>2. PICK error \in TransferOutcomes : UruAnswered(b, "ssm", error)
        BY <1>9, <2>1, OnlyOne DEF UruControlTransfer
    <2>3. b = [drv EXCEPT !.control = <<>>]
        BY <2>1, OnlyOne
    <2> HIDE DEF b
    <2>4. UruStarts(b) /\ b.timeout = FALSE /\ b.control = <<>> /\ b.init = drv.init
            /\ b.sub = drv.sub
        BY <1>1, <2>1, <2>3, OnlyOne DEF UruStarts, UruData
    <2>5. UruInitNext(b) \/ UruInitFails(b)
        BY <1>2, <2>2, <2>4 DEF UruAnswered
    <2>6. ~UruInitFails(b)
        BY DEF UruInitFails
    <2> QED
        BY <2>1, <2>4, <2>5, <2>6, UruInitNextMakes
<1> QED
    BY <1>3, <1>4, <1>5, <1>6, <1>7, <1>8, <1>9

\* While uru4000 is activated its main loop goes through the init machine.
LEMMA UruActivatesKeeps ==
    ASSUME ImageInv, ErrorInv, UruInv, driver = "uru4000", UruActivates, MainLoopOfDriver,
           UruFaults = {}
    PROVE  [Next]_vars /\ ErrorInv' /\ UruInv' /\ driver' = driver
<1>1. UruInits(drv) /\ dev.driver = "activating"
    BY DEF UruActivates, UruInv, UruInits, UruStarts, UruWaits, UruPauses, UruNoImage
<1>2. UruInitGoes
    BY <1>1, UruInitMakes
<1>3. ASSUME NEW e, UruInits(e), Runs(e, <<>>)
      PROVE  UruActivates' /\ drv' \in UruData /\ UNCHANGED <<libraryVars, driver>>
    BY <1>1, <1>3
    DEF UruInits, Runs, UruStarts, UruWaits, UruPauses, UruActivates, UruNoImage, libraryVars
<1>4. ASSUME NEW e, UruStarts(e), e.irq_cb = "none", e.control = <<>>,
             e.init = "none", e.sub = "none", e.timeout = FALSE,
             Runs(e, Call("activate_complete", "none"))
      PROVE  UruIsActivated' /\ drv' \in UruData /\ UNCHANGED <<libraryVars, driver>>
    BY <1>1, <1>4, NoMore
    DEF Runs, UruStarts, UruIsActivated, UruNoInit, UruNoImage, libraryVars
<1>5. UruPhases' /\ drv' \in UruData /\ UNCHANGED <<libraryVars, driver>>
    BY <1>2, <1>3, <1>4 DEF UruInitGoes, UruPhases
<1> QED
    BY <1>5, UruStepKeeps

\* An image is transferred: d is what the driver has.
UruHolds(d) ==
    /\ d \in UruData /\ d.img = TRUE /\ d.irq_cb = "none" /\ d.irq \in {"running", "off"}
    /\ d.init = "none" /\ d.sub = "none" /\ d.timeout = FALSE
UruTransferring(d) ==
    /\ UruHolds(d)
    /\ \/ d.imaging = "CAPTURE" /\ Modes(d.control)
       \/ d.imaging \in {"SEND_INDEX", "READ_KEY"} /\ EndsWith(d.control, "ssm")

UruEnds == {None("image_captured") \o None("image_reported"),
            Call("session_error", "fatal") \o None("imaging_complete")}

\* A step of a transfer from d: it goes on, also without interrupts, an error of a
\* change of the mode is reported, or the transfer ends.
UruImageGoes(d) ==
    \E e, more :
        /\ Runs(e, more) /\ UruHolds(e) /\ e.activate_state = d.activate_state
        /\ \/ /\ more = <<>> /\ UruTransferring(e)
              /\ e.irq = d.irq \/ (action # "ENROLL" /\ e.irq = "off")
           \/ /\ more = Call("session_error", "fatal") /\ UruTransferring(e) /\ e.irq = d.irq
              /\ MayFail
           \/ more \in UruEnds /\ Modes(e.control) /\ e.irq = d.irq

\* An image transfer that failed is reported.
LEMMA UruFailedMakes ==
    ASSUME NEW d, UruHolds(d), Modes(d.control), UruImagingFailed(d)
    PROVE  UruImageGoes(d)
<1> DEFINE e == [d EXCEPT !.imaging = "failed"]
<1>1. Runs(e, Call("session_error", "fatal") \o None("imaging_complete"))
    BY DEF UruImagingFailed
<1>2. UruHolds(e) /\ e.activate_state = d.activate_state /\ e.control = d.control
        /\ e.irq = d.irq
    BY DEF UruHolds, UruData
<1> HIDE DEF e
<1> QED
    BY <1>1, <1>2 DEF UruImageGoes, UruEnds

\* An image transfer that is complete is reported.
LEMMA UruReportMakes ==
    ASSUME NEW d, UruHolds(d), Modes(d.control), UruReportImage(d)
    PROVE  UruImageGoes(d)
<1> DEFINE e == [d EXCEPT !.imaging = "REPORT_IMAGE"]
<1>1. \/ UruImagingFailed(d)
      \/ Runs(e, None("image_captured") \o None("image_reported"))
    BY DEF UruReportImage
<1>2. UruHolds(e) /\ e.activate_state = d.activate_state /\ e.control = d.control
        /\ e.irq = d.irq
    BY DEF UruHolds, UruData
<1> HIDE DEF e
<1>3. CASE Runs(e, None("image_captured") \o None("image_reported"))
    BY <1>2, <1>3 DEF UruImageGoes, UruEnds
<1> QED
    BY <1>1, <1>3, UruFailedMakes

\* A transfer for the key of the next block is sent.
LEMMA UruKeyMakes ==
    ASSUME NEW d, UruHolds(d), Modes(d.control), NEW state \in {"SEND_INDEX", "READ_KEY"},
           Runs(UruControl([d EXCEPT !.imaging = state], "ssm"), <<>>)
    PROVE  UruImageGoes(d)
<1> DEFINE b == [d EXCEPT !.imaging = state]
           e == UruControl(b, "ssm")
<1>1. UruHolds(b) /\ b.activate_state = d.activate_state /\ b.control = d.control
        /\ b.irq = d.irq /\ b.imaging = state
    BY DEF UruHolds, UruData
<1> HIDE DEF b
<1>2. UruSends(b, "ssm", e)
    BY <1>1, UruControlMakes DEF Callbacks, UruHolds
<1>3. d.control \in Seq(Callbacks)
    BY DEF UruHolds, UruData
<1>4. EndsWith(e.control, "ssm")
    BY <1>1, <1>2, <1>3, AppendedIsLast DEF UruSends, Callbacks
<1> HIDE DEF e
<1>5. UruHolds(e) /\ UruTransferring(e) /\ e.activate_state = d.activate_state /\ e.irq = d.irq
    BY <1>1, <1>2, <1>4 DEF UruSends, UruHolds, UruTransferring
<1>6. Runs(e, <<>>)
    BY DEF e, b
<1> QED
    BY <1>5, <1>6 DEF UruImageGoes

\* The end of the image transfer and of those for the keys.
LEMMA UruImageReadMakes ==
    ASSUME UruHolds(drv), Modes(drv.control), UruImageTransfer PROVE UruImageGoes(drv)
<1> DEFINE e == [drv EXCEPT !.imaging = "CAPTURE"]
<1>1. \/ UruImagingFailed(drv) \/ Runs(e, <<>>) \/ UruReportImage(drv) \/ UruSendIndex(drv)
    BY DEF UruImageTransfer, UruImageRead
<1>2. UruHolds(e) /\ UruTransferring(e) /\ e.activate_state = drv.activate_state
        /\ e.irq = drv.irq
    BY DEF UruHolds, UruTransferring, UruData
<1> HIDE DEF e
<1>3. CASE Runs(e, <<>>)
    BY <1>2, <1>3 DEF UruImageGoes
<1> QED
    BY <1>1, <1>3, UruFailedMakes, UruReportMakes, UruKeyMakes DEF UruSendIndex

\* A step of imaging_run_state.
LEMMA UruImagingNextMakes ==
    ASSUME NEW d, UruHolds(d), Modes(d.control), UruImagingNext(d) PROVE UruImageGoes(d)
<1> DEFINE keys == d.keys + 1
           b == [d EXCEPT !.keys = keys]
<1>1. \/ Runs(UruControl([d EXCEPT !.imaging = "READ_KEY"], "ssm"), <<>>)
      \/ UruReportImage(d) \/ UruSendIndex(b)
    BY DEF UruImagingNext, UruDecode
<1>2. keys \in Nat
    BY DEF UruHolds, UruData
<1> HIDE DEF keys
<1>3. UruHolds(b) /\ b.control = d.control /\ b.activate_state = d.activate_state
        /\ b.irq = d.irq
    BY <1>2 DEF UruHolds, UruData
<1> HIDE DEF b
<1>4. CASE UruSendIndex(b)
    <2>1. UruImageGoes(b)
        BY <1>3, <1>4, UruKeyMakes DEF UruSendIndex
    <2> QED
        BY <1>3, <2>1 DEF UruImageGoes
<1> QED
    BY <1>1, <1>4, UruReportMakes, UruKeyMakes

\* The answer to the first control transfer.
LEMMA UruAnswerMakes ==
    ASSUME UruTransferring(drv), UruControlTransfer PROVE UruImageGoes(drv)
<1> DEFINE d == [drv EXCEPT !.control = Tail(@)]
<1>0. drv.control \in Seq(Callbacks) /\ drv.control # <<>> /\ drv.init = "none"
    BY DEF UruTransferring, UruHolds, UruData, UruControlTransfer
<1>1. PICK error \in TransferOutcomes : UruAnswered(d, Head(drv.control), error)
    BY DEF UruControlTransfer
<1>2. Tail(drv.control) \in Seq(Callbacks)
    BY <1>0, HeadTailProperties
<1>3. UruHolds(d) /\ d.activate_state = drv.activate_state /\ d.irq = drv.irq
        /\ d.imaging = drv.imaging /\ d.control = Tail(drv.control) /\ d.init = "none"
    BY <1>2 DEF UruTransferring, UruHolds, UruData
<1> HIDE DEF d
<1>4. \/ Head(drv.control) = "mode" /\ UruTransferring(d)
      \/ Head(drv.control) = "ssm" /\ d.control = <<>>
    <2>1. CASE drv.imaging = "CAPTURE" /\ Modes(drv.control)
        BY <1>0, <1>3, <2>1, FirstIsMode DEF UruTransferring
    <2>2. CASE drv.imaging \in {"SEND_INDEX", "READ_KEY"} /\ EndsWith(drv.control, "ssm")
        <3>1. "ssm" \in Callbacks \ {"mode"}
            BY DEF Callbacks
        <3>2. \/ Head(drv.control) = "mode" /\ EndsWith(Tail(drv.control), "ssm")
              \/ Head(drv.control) = "ssm" /\ Tail(drv.control) = <<>>
            BY <1>0, <2>2, <3>1, FirstOrLast
        <3> QED
            BY <1>3, <2>2, <3>2 DEF UruTransferring
    <2> QED
        BY <2>1, <2>2 DEF UruTransferring
<1>5. CASE Head(drv.control) = "mode" /\ UruTransferring(d)
    <2>1. Runs(d, IF error = "none" THEN <<>> ELSE Call("session_error", error))
        BY <1>1, <1>5 DEF UruAnswered
    <2>2. error = "none" \/ (error = "fatal" /\ MayFail)
        BY DEF TransferOutcomes
    <2> QED
        BY <1>3, <1>5, <2>1, <2>2 DEF UruImageGoes
<1>6. CASE Head(drv.control) = "ssm" /\ d.control = <<>>
    <2>1. UruImagingNext(d) \/ UruImagingFailed(d)
        BY <1>1, <1>3, <1>6 DEF UruAnswered
    <2>2. Modes(d.control)
        BY <1>6, OnlyOne
    <2>3. UruImageGoes(d)
        BY <1>3, <2>1, <2>2, UruImagingNextMakes, UruFailedMakes
    <2> QED
        BY <1>3, <2>3 DEF UruImageGoes
<1> QED
    BY <1>4, <1>5, <1>6

\* A source of the main loop while an image is transferred.
LEMMA UruTransferMakes ==
    ASSUME UruTransferring(drv), MainLoopOfDriver, driver = "uru4000",
           ~ErrorsDuringEnrollScan
    PROVE  UruImageGoes(drv)
<1>1. /\ UruHolds(drv) /\ drv.irq # "stopping" /\ drv.irq_cb = "none" /\ drv.sub = "none"
      /\ drv.timeout = FALSE /\ drv.init = "none"
    BY DEF UruTransferring, UruHolds
<1>2. UruImageTransfer \/ (\E type \in {"on", "off", "scanpwr"} : UruIrq(type))
          \/ UruIrqError \/ UruControlTransfer
    BY <1>1 DEF MainLoopOfDriver, NbMainLoop, UruMainLoop, ElanMainLoop, MainLoopRuns,
           UruPowerupPause, UruScanpwrTimeout, UruIrqCancelled
<1>3. CASE UruImageTransfer
    BY <1>1, <1>3, UruImageReadMakes DEF UruTransferring, UruImageTransfer
<1>4. ASSUME NEW type \in {"on", "off", "scanpwr"}, UruIrq(type) PROVE UruImageGoes(drv)
    <2>1. Runs(drv, <<>>)
        BY <1>1, <1>4 DEF UruIrq
    <2> QED
        BY <1>1, <2>1 DEF UruImageGoes
<1>5. CASE UruIrqError
    <2> DEFINE e == [drv EXCEPT !.irq = "off"]
    <2>1. Runs(e, <<>>) /\ action # "ENROLL"
        BY <1>1, <1>5 DEF UruIrqError
    <2>2. UruHolds(e) /\ UruTransferring(e) /\ e.activate_state = drv.activate_state
            /\ e.irq = "off"
        BY DEF UruTransferring, UruHolds, UruData
    <2> HIDE DEF e
    <2> QED
        BY <2>1, <2>2 DEF UruImageGoes
<1>6. CASE UruControlTransfer
    BY <1>6, UruAnswerMakes
<1> QED
    BY <1>2, <1>3, <1>4, <1>5, <1>6

\* The sources of the main loop of a driver that does not activate the device.
LEMMA UruSources ==
    ASSUME MainLoopOfDriver, driver = "uru4000", UruNoInit
    PROVE  \/ drv.imaging = "CAPTURE" /\ UruImageTransfer
           \/ drv.irq = "running" /\ \E type \in {"on", "off", "scanpwr"} : UruIrq(type)
           \/ drv.irq = "running" /\ UruIrqError
           \/ drv.irq = "stopping" /\ UruIrqCancelled
           \/ drv.control # <<>> /\ UruControlTransfer
BY DEF MainLoopOfDriver, NbMainLoop, UruMainLoop, ElanMainLoop, MainLoopRuns, UruNoInit,
       UruPowerupPause, UruScanpwrTimeout, UruIrqCancelled, UruImageTransfer, UruIrq,
       UruIrqError, UruControlTransfer

\* The answer to a change of the mode is an error at worst.
LEMMA UruModeAnswered ==
    ASSUME UruControlTransfer, drv \in UruData, Head(drv.control) = "mode",
           Tail(drv.control) \in Seq(Callbacks), ~ErrorsDuringEnrollScan
    PROVE  \E e : /\ UNCHANGED <<libraryVars, driver>> /\ drv' = e /\ e \in UruData
                  /\ e.control = Tail(drv.control) /\ e.irq = drv.irq /\ e.irq_cb = drv.irq_cb
                  /\ e.activate_state = drv.activate_state /\ e.init = drv.init
                  /\ e.sub = drv.sub /\ e.timeout = drv.timeout
                  /\ e.img = drv.img /\ e.imaging = drv.imaging
                  /\ \/ calls' = <<>>
                     \/ calls' = Call("session_error", "fatal") /\ ~Enrolling
<1> DEFINE e == [drv EXCEPT !.control = Tail(@)]
<1>1. PICK error \in TransferOutcomes : UruAnswered(e, Head(drv.control), error)
    BY DEF UruControlTransfer
<1>2. Runs(e, IF error = "none" THEN <<>> ELSE Call("session_error", error))
    BY <1>1 DEF UruAnswered
<1>3. error = "none" \/ (error = "fatal" /\ ~Enrolling)
    BY DEF TransferOutcomes, MayFail, Enrolling
<1>4. e \in UruData /\ e.control = Tail(drv.control) /\ e.irq = drv.irq
        /\ e.irq_cb = drv.irq_cb /\ e.activate_state = drv.activate_state
        /\ e.init = drv.init /\ e.sub = drv.sub /\ e.timeout = drv.timeout
        /\ e.img = drv.img /\ e.imaging = drv.imaging
    BY DEF UruData
<1> HIDE DEF e
<1> QED
    BY <1>2, <1>3, <1>4 DEF Runs

\* While a finger is awaited it is reported, or an error.
LEMMA UruAwaitsRuns ==
    ASSUME ErrorInv, UruInv, driver = "uru4000", UruAwaits, calls = <<>>, MainLoopOfDriver,
           ~ErrorsDuringEnrollScan
    PROVE  [Next]_vars /\ ErrorInv' /\ UruInv' /\ driver' = driver
<1>0. /\ drv \in UruData /\ drv.irq = "running" /\ drv.irq_cb = "finger" /\ Modes(drv.control)
      /\ UruNoInit /\ UruNoImage /\ drv.control \in Seq(Callbacks)
      /\ dev.driver = "running" /\ dev.state \in {"AWAIT_FINGER_ON", "AWAIT_FINGER_OFF", "IDLE"}
    BY DEF UruInv, UruAwaits, UruData
<1>1. \/ \E type \in {"on", "off", "scanpwr"} : UruIrq(type)
      \/ UruIrqError
      \/ drv.control # <<>> /\ UruControlTransfer
    BY <1>0, UruSources DEF UruNoImage
<1>2. ASSUME NEW type \in {"on", "off", "scanpwr"}, UruIrq(type)
      PROVE  UruAwaits' /\ drv' \in UruData /\ UNCHANGED <<libraryVars, driver>>
    <2>1. /\ drv' = drv /\ UNCHANGED <<libraryVars, driver>>
          /\ calls' \in {<<>>, Call("report_finger_status", "on"),
                         Call("report_finger_status", "off")}
        BY <1>0, <1>2 DEF UruIrq, Runs
    <2> QED
        BY <1>0, <2>1 DEF UruAwaits, UruNoInit, UruNoImage, libraryVars
<1>3. CASE UruIrqError
    <2> DEFINE e == [drv EXCEPT !.irq = "off"]
    <2>1. Runs(e, Call("session_error", "fatal")) /\ ~Enrolling
        BY <1>0, <1>3 DEF UruIrqError, MayFail, Enrolling
    <2>2. e \in UruData /\ e.irq = "off" /\ e.control = drv.control
            /\ e.init = "none" /\ e.sub = "none" /\ e.timeout = FALSE
            /\ e.img = FALSE /\ e.imaging = "none"
        BY <1>0 DEF UruData, UruNoInit, UruNoImage
    <2> HIDE DEF e
    <2>3. UruReportsError' /\ drv' \in UruData /\ UNCHANGED <<libraryVars, driver>>
        BY <1>0, <2>1, <2>2
        DEF UruReportsError, UruNoInit, UruNoImage, Enrolling, Runs, libraryVars
    <2> QED
        BY <2>3, UruStepKeeps DEF UruPhases
<1>4. CASE drv.control # <<>> /\ UruControlTransfer
    <2>1. Head(drv.control) = "mode" /\ Tail(drv.control) \in Seq(Callbacks)
            /\ Modes(Tail(drv.control))
        BY <1>0, <1>4, FirstIsMode
    <2>2. /\ UNCHANGED <<libraryVars, driver>> /\ drv' \in UruData
          /\ drv'.control = Tail(drv.control) /\ drv'.irq = drv.irq /\ drv'.irq_cb = drv.irq_cb
          /\ drv'.init = drv.init /\ drv'.sub = drv.sub /\ drv'.timeout = drv.timeout
          /\ drv'.img = drv.img /\ drv'.imaging = drv.imaging
          /\ \/ calls' = <<>>
             \/ calls' = Call("session_error", "fatal") /\ ~Enrolling
        BY <1>0, <1>4, <2>1, UruModeAnswered
    <2>3. CASE calls' = <<>>
        <3>1. UruAwaits'
            BY <1>0, <2>1, <2>2, <2>3 DEF UruAwaits, UruNoInit, UruNoImage, libraryVars
        <3> QED
            BY <2>2, <3>1, UruStepKeeps DEF UruPhases
    <2>4. CASE calls' = Call("session_error", "fatal") /\ ~Enrolling
        <3>1. UruReportsError'
            BY <1>0, <2>1, <2>2, <2>4
            DEF UruReportsError, UruNoInit, UruNoImage, Enrolling, libraryVars
        <3> QED
            BY <2>2, <3>1, UruStepKeeps DEF UruPhases
    <2> QED
        BY <2>2, <2>3, <2>4
<1>5. UruAwaits' /\ drv' \in UruData /\ UNCHANGED <<libraryVars, driver>>
          => [Next]_vars /\ ErrorInv' /\ UruInv' /\ driver' = driver
    BY UruStepKeeps DEF UruPhases
<1> QED
    BY <1>1, <1>2, <1>3, <1>4, <1>5

\* What a transfer of an image leads to, also one that is not asked for any more.
LEMMA UruTransfersRuns ==
    ASSUME ErrorInv, UruInv, driver = "uru4000", UruTransfers, calls = <<>>, MainLoopOfDriver,
           \/ UruImages
           \/ dev.driver = "deactivating" /\ drv.activate_state = "DEACTIVATING",
           ~ErrorsDuringEnrollScan
    PROVE  [Next]_vars /\ ErrorInv' /\ UruInv' /\ driver' = driver
<1>0. UruTransferring(drv) /\ dev.minutiae_scan_active = FALSE
    BY DEF UruInv, UruTransfers, UruTransferring, UruHolds, UruNoInit
<1>1. PICK e, more :
        /\ Runs(e, more) /\ UruHolds(e) /\ e.activate_state = drv.activate_state
        /\ \/ /\ more = <<>> /\ UruTransferring(e)
              /\ e.irq = drv.irq \/ (action # "ENROLL" /\ e.irq = "off")
           \/ /\ more = Call("session_error", "fatal") /\ UruTransferring(e) /\ e.irq = drv.irq
              /\ MayFail
           \/ more \in UruEnds /\ Modes(e.control) /\ e.irq = drv.irq
    BY <1>0, UruTransferMakes DEF UruImageGoes
<1>2. /\ drv' = e /\ calls' = more /\ UNCHANGED <<libraryVars, driver>> /\ drv' \in UruData
      /\ dev'.minutiae_scan_active = FALSE /\ ~Enrolling'
    BY <1>0, <1>1 DEF Runs, UruHolds, libraryVars, Enrolling
<1>3. UruTransferring(e) => UruTransfers'
    BY <1>2 DEF UruTransfers, UruTransferring, UruHolds, UruNoInit
<1>4. Modes(e.control) => UruImaged'
    BY <1>1, <1>2 DEF UruImaged, UruHolds, UruNoInit
<1>5. UruImages => UruIrqFits'
    BY <1>0, <1>1, <1>2 DEF UruImages, UruIrqFits, UruHolds, libraryVars
<1>6. CASE UruImages
    <2>0. dev.driver = "running" /\ dev.state = "CAPTURE" /\ drv.activate_state = "CAPTURE"
        BY <1>6 DEF UruImages
    <2>1. CASE more = <<>> /\ UruTransferring(e)
        <3>1. UruImages'
            BY <1>1, <1>2, <1>3, <1>5, <1>6, <2>0, <2>1 DEF UruImages, libraryVars
        <3> QED
            BY <1>2, <3>1, UruStepKeeps DEF UruPhases
    <2>2. CASE more = Call("session_error", "fatal") /\ UruTransferring(e)
        <3>1. UruReportsError'
            BY <1>2, <1>3, <2>0, <2>2 DEF UruReportsError, libraryVars
        <3> QED
            BY <1>2, <3>1, UruStepKeeps DEF UruPhases
    <2>3. CASE more \in UruEnds /\ Modes(e.control)
        <3>1. UruReportsImage'
            BY <1>1, <1>2, <1>4, <1>5, <1>6, <2>0, <2>3
            DEF UruReportsImage, UruEnds, libraryVars
        <3> QED
            BY <1>2, <3>1, UruStepKeeps DEF UruPhases
    <2> QED
        BY <1>1, <2>1, <2>2, <2>3
<1>7. CASE dev.driver = "deactivating" /\ drv.activate_state = "DEACTIVATING"
    <2>1. CASE more \in {<<>>, Call("session_error", "fatal")} /\ UruTransferring(e)
        <3>1. UruStops'
            BY <1>1, <1>2, <1>3, <1>7, <2>1 DEF UruStops, libraryVars
        <3> QED
            BY <1>2, <3>1, UruStepKeeps DEF UruPhases
    <2>2. CASE more \in UruEnds /\ Modes(e.control)
        <3>0. UruIrqFits'
            BY <1>1, <1>2, <1>7 DEF UruIrqFits, UruHolds, libraryVars
        <3>1. UruReportsImage'
            BY <1>1, <1>2, <1>4, <1>7, <2>2, <3>0
            DEF UruReportsImage, UruEnds, libraryVars
        <3> QED
            BY <1>2, <3>1, UruStepKeeps DEF UruPhases
    <2> QED
        BY <1>1, <2>1, <2>2
<1> QED
    BY <1>6, <1>7

\* The sensor is switched off, and then the interrupts are stopped if there are any.
LEMMA UruSwitchesOffRuns ==
    ASSUME ErrorInv, UruInv, driver = "uru4000", UruSwitchesOff, calls = <<>>, MainLoopOfDriver,
           dev.driver = "deactivating", drv.activate_state = "DEACTIVATING",
           ~ErrorsDuringEnrollScan
    PROVE  [Next]_vars /\ ErrorInv' /\ UruInv' /\ driver' = driver
<1>0. /\ drv \in UruData /\ UruNoImage /\ UruNoInit /\ drv.irq_cb = "none"
      /\ drv.irq \in {"running", "off"} /\ EndsWith(drv.control, "off")
      /\ drv.control \in Seq(Callbacks) /\ "off" \in Callbacks \ {"mode"}
    BY DEF UruInv, UruSwitchesOff, UruData, Callbacks
<1>1. \/ drv.irq = "running" /\ \E type \in {"on", "off", "scanpwr"} : UruIrq(type)
      \/ UruIrqError
      \/ drv.control # <<>> /\ UruControlTransfer
    BY <1>0, UruSources DEF UruNoImage
<1>2. ASSUME NEW type \in {"on", "off", "scanpwr"}, UruIrq(type)
      PROVE  UruStops' /\ drv' \in UruData /\ UNCHANGED <<libraryVars, driver>>
    <2>1. drv' = drv /\ calls' = <<>> /\ UNCHANGED <<libraryVars, driver>>
        BY <1>0, <1>2 DEF UruIrq, Runs
    <2>2. UruSwitchesOff'
        BY <1>0, <2>1 DEF UruSwitchesOff, UruNoInit, UruNoImage
    <2> QED
        BY <1>0, <2>1, <2>2, NotEmpty DEF UruStops, libraryVars
<1>3. CASE UruIrqError
    <2> DEFINE e == [drv EXCEPT !.irq = "off"]
    <2>1. Runs(e, <<>>)
        BY <1>0, <1>3 DEF UruIrqError
    <2>2. e \in UruData /\ e.irq = "off" /\ e.control = drv.control /\ e.irq_cb = "none"
            /\ e.activate_state = drv.activate_state
            /\ e.init = "none" /\ e.sub = "none" /\ e.timeout = FALSE
            /\ e.img = FALSE /\ e.imaging = "none"
        BY <1>0 DEF UruData, UruNoInit, UruNoImage
    <2> HIDE DEF e
    <2>3. drv' = e /\ calls' = <<>> /\ UNCHANGED <<libraryVars, driver>>
        BY <2>1 DEF Runs
    <2>4. UruSwitchesOff'
        BY <1>0, <2>2, <2>3 DEF UruSwitchesOff, UruNoInit, UruNoImage
    <2>5. UruStops'
        BY <2>2, <2>3, <2>4, NotEmpty DEF UruStops, libraryVars
    <2> QED
        BY <2>2, <2>3, <2>5, UruStepKeeps DEF UruPhases
<1>4. CASE drv.control # <<>> /\ UruControlTransfer /\ Head(drv.control) = "mode"
                /\ EndsWith(Tail(drv.control), "off")
    <2>1. Tail(drv.control) \in Seq(Callbacks)
        BY <1>0, FirstOrLast
    <2>2. /\ UNCHANGED <<libraryVars, driver>> /\ drv' \in UruData
          /\ drv'.control = Tail(drv.control) /\ drv'.irq = drv.irq /\ drv'.irq_cb = drv.irq_cb
          /\ drv'.activate_state = drv.activate_state
          /\ drv'.init = drv.init /\ drv'.sub = drv.sub /\ drv'.timeout = drv.timeout
          /\ drv'.img = drv.img /\ drv'.imaging = drv.imaging
          /\ \/ calls' = <<>>
             \/ calls' = Call("session_error", "fatal") /\ ~Enrolling
        BY <1>0, <1>4, <2>1, UruModeAnswered
    <2>3. UruSwitchesOff'
        BY <1>0, <1>4, <2>2 DEF UruSwitchesOff, UruNoInit, UruNoImage
    <2>4. calls' \in {<<>>, Call("session_error", "fatal")}
            /\ (calls' = Call("session_error", "fatal") => ~Enrolling')
        BY <2>2, NotEmpty DEF Enrolling, libraryVars
    <2>5. UruStops'
        BY <2>2, <2>3, <2>4 DEF UruStops, libraryVars
    <2> QED
        BY <2>2, <2>5, UruStepKeeps DEF UruPhases
<1>5. CASE drv.control # <<>> /\ UruControlTransfer /\ Head(drv.control) = "off"
                /\ Tail(drv.control) = <<>>
    <2> DEFINE d == [drv EXCEPT !.control = Tail(@)]
    <2>1. \E error \in TransferOutcomes : UruAnswered(d, "off", error)
        BY <1>5 DEF UruControlTransfer
    <2>2. UruStopIrqHandler(d)
        BY <2>1 DEF UruAnswered
    <2>3. d = [drv EXCEPT !.control = <<>>]
        BY <1>5
    <2> HIDE DEF d
    <2>4. d \in UruData /\ d.irq = drv.irq /\ d.control = <<>> /\ d.irq_cb = "none"
            /\ d.init = "none" /\ d.sub = "none" /\ d.timeout = FALSE
            /\ d.img = FALSE /\ d.imaging = "none"
        BY <1>0, <2>3, OnlyOne DEF UruData, UruNoInit, UruNoImage
    <2>5. CASE d.irq = "off"
        <3>1. Runs(d, None("deactivate_complete"))
            BY <2>2, <2>5 DEF UruStopIrqHandler
        <3>2. drv' = d /\ calls' = Call("deactivate_complete", "none")
                /\ UNCHANGED <<libraryVars, driver>>
            BY <3>1 DEF Runs, None
        <3>3. UruRests'
            BY <2>4, <2>5, <3>2 DEF UruRests, UruNoInit, UruNoImage
        <3>4. UruStops'
            BY <3>2, <3>3 DEF UruStops, libraryVars
        <3> QED
            BY <2>4, <3>2, <3>4, UruStepKeeps DEF UruPhases
    <2>6. CASE d.irq # "off"
        <3> DEFINE e == [d EXCEPT !.irq = "stopping"]
        <3>1. Runs(e, <<>>)
            BY <2>2, <2>6 DEF UruStopIrqHandler
        <3>2. e \in UruData /\ e.irq = "stopping" /\ e.control = <<>> /\ e.irq_cb = "none"
                /\ e.init = "none" /\ e.sub = "none" /\ e.timeout = FALSE
                /\ e.img = FALSE /\ e.imaging = "none"
            BY <2>4 DEF UruData
        <3> HIDE DEF e
        <3>3. drv' = e /\ calls' = <<>> /\ UNCHANGED <<libraryVars, driver>>
            BY <3>1 DEF Runs
        <3>4. UruStops'
            BY <3>2, <3>3 DEF UruStops, UruNoInit, UruNoImage, libraryVars
        <3> QED
            BY <3>2, <3>3, <3>4, UruStepKeeps DEF UruPhases
    <2> QED
        BY <2>5, <2>6
<1>6. UruStops' /\ drv' \in UruData /\ UNCHANGED <<libraryVars, driver>>
          => [Next]_vars /\ ErrorInv' /\ UruInv' /\ driver' = driver
    BY UruStepKeeps DEF UruPhases
<1>7. \/ Head(drv.control) = "mode" /\ EndsWith(Tail(drv.control), "off")
      \/ Head(drv.control) = "off" /\ Tail(drv.control) = <<>>
    BY <1>0, FirstOrLast
<1> QED
    BY <1>1, <1>2, <1>3, <1>4, <1>5, <1>6, <1>7

\* The stopped interrupts have ended.
LEMMA UruStoppingRuns ==
    ASSUME ErrorInv, UruInv, driver = "uru4000", calls = <<>>, MainLoopOfDriver,
           dev.driver = "deactivating", UruNoImage, UruNoInit, drv.irq_cb = "none",
           drv.irq = "stopping", drv.control = <<>>
    PROVE  [Next]_vars /\ ErrorInv' /\ UruInv' /\ driver' = driver
<1> DEFINE e == [drv EXCEPT !.irq = "off"]
<1>1. Runs(e, None("deactivate_complete"))
    BY UruSources DEF UruNoImage, UruIrqCancelled
<1>2. e \in UruData /\ e.irq = "off" /\ e.control = <<>> /\ e.irq_cb = "none"
        /\ e.init = "none" /\ e.sub = "none" /\ e.timeout = FALSE
        /\ e.img = FALSE /\ e.imaging = "none"
    BY DEF UruInv, UruData, UruNoInit, UruNoImage
<1> HIDE DEF e
<1>3. drv' = e /\ calls' = Call("deactivate_complete", "none") /\ UNCHANGED <<libraryVars, driver>>
    BY <1>1 DEF Runs, None
<1>4. UruRests'
    BY <1>2, <1>3 DEF UruRests, UruNoInit, UruNoImage
<1>5. UruStops'
    BY <1>3, <1>4 DEF UruStops, libraryVars
<1> QED
    BY <1>2, <1>3, <1>5, UruStepKeeps DEF UruPhases

\* A step of the driver in the main loop.
LEMMA UruMainLoopKeeps ==
    ASSUME ImageInv, ErrorInv, UruInv, driver = "uru4000", calls = <<>>, MainLoopOfDriver,
           UruActivates \/ UruAwaits \/ UruImages \/ UruStops, ~ErrorsDuringEnrollScan,
           UruFaults = {}
    PROVE  [Next]_vars /\ ErrorInv' /\ UruInv' /\ driver' = driver
<1>1. UruImages => UruTransfers
    BY DEF UruImages
<1>2. UruStops =>
          /\ dev.driver = "deactivating"
          /\ \/ drv.activate_state = "DEACTIVATING" /\ (UruTransfers \/ UruSwitchesOff)
             \/ UruNoImage /\ UruNoInit /\ drv.irq_cb = "none" /\ drv.irq = "stopping"
                    /\ drv.control = <<>>
    BY NotEmpty DEF UruStops
<1> QED
    BY <1>1, <1>2, UruActivatesKeeps, UruAwaitsRuns, UruTransfersRuns, UruSwitchesOffRuns,
       UruStoppingRuns

\* With the driver at rest nothing of it is dispatched.
LEMMA UruRestRuns ==
    ASSUME UruRests, driver = "uru4000" PROVE ~MainLoopOfDriver
<1>1. UruNoInit /\ drv.irq = "off" /\ drv.control = <<>> /\ drv.imaging # "CAPTURE"
    BY DEF UruRests, UruNoImage
<1> QED
    BY <1>1, UruSources

\* The user and the library go on while the driver waits.
LEMMA UruLibraryKeeps ==
    ASSUME ImageInv, ErrorInv, UruInv, driver = "uru4000", calls = <<>>,
           UruActivates \/ UruAwaits \/ UruImages \/ UruStops \/ (Outside /\ UruRests),
           UserCalls \/ LibraryMainLoop
    PROVE  [Next]_vars /\ ErrorInv' /\ UruInv' /\ driver' = driver
<1>0. /\ [Next]_vars /\ ErrorInv' /\ UNCHANGED <<driver, drv>> /\ drv \in UruData
    BY UserStep, LibraryStep DEF UruInv
<1>1. CASE dev.driver = "off" /\ Outside'
    <2>1. UruRests
        BY <1>1 DEF UruActivates, UruAwaits, UruImages, UruStops
    <2>2. UruRests'
        BY <1>0, <2>1 DEF UruRests, UruNoInit, UruNoImage
    <2> QED
        BY <1>0, <1>1, <2>2 DEF UruInv, UruPhases
<1>2. CASE /\ Same /\ calls' = <<>> /\ action' = action
           /\ SameScan \/ (dev.minutiae_scan_active = TRUE /\ dev'.minutiae_scan_active = FALSE)
    <2>0. /\ UruNoInit' = UruNoInit /\ UruNoImage' = UruNoImage
          /\ UruTransfers => UruTransfers'
          /\ UruSwitchesOff => UruSwitchesOff'
          /\ dev'.driver = dev.driver /\ dev'.state = dev.state
        <3>1. UruNoInit' = UruNoInit /\ UruNoImage' = UruNoImage
            BY <1>0 DEF UruNoInit, UruNoImage
        <3>2. UruTransfers => UruTransfers'
            BY <1>0, <1>2, <3>1 DEF UruTransfers, SameScan
        <3>3. UruSwitchesOff => UruSwitchesOff'
            BY <1>0, <3>1 DEF UruSwitchesOff
        <3> QED
            BY <1>2, <3>1, <3>2, <3>3 DEF Same
    <2>1. Outside /\ UruRests => Outside' /\ UruRests'
        BY <1>0, <1>2, <2>0 DEF Outside, OutsideCalls, Same, UruRests
    <2>2. UruActivates => UruActivates'
        BY <1>0, <1>2, <2>0 DEF UruActivates
    <2>3. UruAwaits => UruAwaits'
        BY <1>0, <1>2, <2>0 DEF UruAwaits
    <2>4. UruImages => UruImages'
        BY <1>0, <1>2, <2>0 DEF UruImages, UruIrqFits
    <2>5. UruStops => UruStops'
        BY <1>0, <1>2, <2>0, NotEmpty DEF UruStops
    <2> QED
        BY <1>0, <2>1, <2>2, <2>3, <2>4, <2>5 DEF UruInv, UruPhases
<1>3. CASE dev.state = "IDLE" /\ Moves("AWAIT_FINGER_ON")
           /\ calls' = Call("change_state", "AWAIT_FINGER_ON")
    <2>1. dev.driver = "running"
        BY <1>3 DEF ImageInv, DriverAndStateAgree
    <2>2. UruAwaits
        BY <1>3, <2>1 DEF UruActivates, UruImages, UruStops, Outside, OutsideCalls
    <2>3. UruIsTold'
        BY <1>0, <1>3, <2>2
        DEF UruAwaits, UruIsTold, UruIrqFits, UruNoInit, UruNoImage, Moves
    <2> QED
        BY <1>0, <2>3 DEF UruInv, UruPhases
<1>4. CASE /\ dev.driver = "running" /\ Stops /\ calls' = Vfuncs("DEACTIVATING")
           /\ SameScan \/ dev'.minutiae_scan_active = FALSE
    <2>1. UruAwaits \/ UruImages
        BY <1>4 DEF UruActivates, UruStops, Outside, OutsideCalls
    <2>2. CASE UruAwaits
        <3>1. UruStops'
            BY <1>0, <1>4, <2>2 DEF UruAwaits, UruStops, UruNoInit, UruNoImage, Stops
        <3> QED
            BY <1>0, <3>1 DEF UruInv, UruPhases
    <2>3. CASE UruImages
        <3>1. UruTransfers'
            BY <1>0, <1>4, <2>3 DEF UruImages, UruTransfers, UruNoInit, SameScan
        <3>2. UruStops'
            BY <1>4, <3>1 DEF UruStops, Stops
        <3> QED
            BY <1>0, <3>2 DEF UruInv, UruPhases
    <2> QED
        BY <2>1, <2>2, <2>3
<1>5. CASE UserCalls
    BY <1>0, <1>1, <1>2, <1>5, UserStep DEF Same, SameScan
<1>6. CASE LibraryMainLoop
    BY <1>1, <1>2, <1>3, <1>4, <1>6, LibraryStep
<1> QED
    BY <1>5, <1>6

-----------------------------------------------------------------------------
\* The calls outside of a capture, the last of which activates the device.
LEMMA UruOutsideKeeps ==
    ASSUME ImageInv, ErrorInv, UruInv, driver = "uru4000", DriversNext, calls # <<>>,
           Outside, UruRests
    PROVE  [Next]_vars /\ ErrorInv' /\ UruInv' /\ driver' = driver
<1>0. /\ drv \in UruData /\ drv.irq = "off" /\ drv.irq_cb = "none" /\ drv.control = <<>>
      /\ UruNoInit /\ UruNoImage
    BY DEF UruInv, UruRests
<1>1. CASE [Next]_vars /\ ErrorInv' /\ UNCHANGED <<driver, drv>> /\ Outside'
    <2>1. UruRests'
        BY <1>1 DEF UruRests, UruNoInit, UruNoImage
    <2> QED
        BY <1>0, <1>1, <2>1 DEF UruInv, UruPhases
<1>2. ASSUME NEW state \in {"INACTIVE", "ACTIVATING"}, NEW rest,
             Pending("change_state", state, rest)
      PROVE  UNCHANGED <<libraryVars, driver>> /\ drv' \in UruData /\ UruRests'
             /\ calls' = <<>> \o rest
    <2> DEFINE d == [drv EXCEPT !.activate_state = state]
    <2>1. Tail(calls) = rest /\ UruExecuteStateChange(d)
        BY <1>0, <1>2, UruVfuncMakes DEF UruNoImage
    <2>2. d \in UruData /\ d.activate_state = state /\ d.irq = "off" /\ d.irq_cb = "none"
            /\ d.control = <<>> /\ d.init = "none" /\ d.sub = "none" /\ d.timeout = FALSE
            /\ d.img = FALSE /\ d.imaging = "none"
        BY <1>0 DEF UruData, UruNoInit, UruNoImage, States
    <2> HIDE DEF d
    <2>3. drv' = d /\ calls' = <<>> \o rest /\ UNCHANGED <<libraryVars, driver>>
        BY <2>1, <2>2, UruExecuteMakes
    <2> QED
        BY <2>2, <2>3 DEF UruRests, UruNoInit, UruNoImage
<1>3. CASE dev.driver = "off" /\ Pending("change_state", "INACTIVE", <<>>)
    <2>1. UNCHANGED <<libraryVars, driver>> /\ drv' \in UruData /\ UruRests'
             /\ calls' = <<>> \o <<>>
        BY <1>2, <1>3
    <2>2. Outside'
        BY <1>3, <2>1, NoMore DEF Outside, OutsideCalls, libraryVars
    <2> QED
        BY <2>1, <2>2, UruStepKeeps DEF UruPhases
<1>4. CASE dev.driver = "activating"
           /\ Pending("change_state", "ACTIVATING", Call("activate", "none"))
    <2>1. UNCHANGED <<libraryVars, driver>> /\ drv' \in UruData /\ UruRests'
             /\ calls' = <<>> \o Call("activate", "none")
        BY <1>2, <1>4
    <2>2. Outside'
        BY <1>4, <2>1, NoMore DEF Outside, OutsideCalls, libraryVars
    <2> QED
        BY <2>1, <2>2, UruStepKeeps DEF UruPhases
<1>5. CASE dev.driver = "activating" /\ Pending("activate", "none", <<>>)
    <2> DEFINE h == UruStartIrqHandler(drv)
               b == [h EXCEPT !.timeouts = 0, !.init = "GET_HWSTAT"]
               e == UruControl(b, "ssm")
    <2>1. Returns(e, <<>>) /\ Tail(calls) = <<>>
        BY <1>5, UruVfuncMakes
    <2>2. h \in UruData /\ h.irq = "running" /\ h.irq_cb = "none" /\ h.control = <<>>
            /\ h.sub = "none" /\ h.timeout = FALSE /\ h.img = FALSE /\ h.imaging = "none"
        <3>1. h = [drv EXCEPT !.irq = "running"]
            BY <1>0 DEF UruStartIrqHandler, UruAssert
        <3> HIDE DEF h
        <3> QED
            BY <1>0, <3>1 DEF UruData, UruNoInit, UruNoImage
    <2> HIDE DEF h
    <2>3. b \in UruData /\ b.irq = "running" /\ b.irq_cb = "none" /\ b.control = <<>>
            /\ b.init = "GET_HWSTAT" /\ b.sub = "none" /\ b.timeout = FALSE
            /\ b.img = FALSE /\ b.imaging = "none"
        <3> DEFINE zero == 0
        <3>1. zero \in Int /\ b = [h EXCEPT !.timeouts = zero, !.init = "GET_HWSTAT"]
            OBVIOUS
        <3> HIDE DEF zero, b
        <3> QED
            BY <2>2, <3>1 DEF UruData
    <2> HIDE DEF b
    <2>4. UruSends(b, "ssm", e)
        BY <2>3, UruControlMakes DEF Callbacks
    <2> HIDE DEF e
    <2>5. /\ UNCHANGED <<libraryVars, driver>> /\ drv' = e /\ calls' = <<>> \o <<>>
        BY <2>1 DEF Returns
    <2>6. drv' \in UruData /\ drv'.irq = "running" /\ drv'.irq_cb = "none"
            /\ drv'.control = <<"ssm">> /\ drv'.init = "GET_HWSTAT" /\ drv'.sub = "none"
            /\ drv'.timeout = FALSE /\ drv'.img = FALSE /\ drv'.imaging = "none"
        BY <2>3, <2>4, <2>5, OnlyOne DEF UruSends
    <2>7. UruActivates'
        BY <1>5, <2>5, <2>6, NoMore DEF UruActivates, UruNoImage, libraryVars
    <2> QED
        BY <2>5, <2>6, <2>7, UruStepKeeps DEF UruPhases
<1> QED
    BY <1>1, <1>3, <1>4, <1>5, OutsideMakes

\* The device is told that it is active.
LEMMA UruIsActivatedKeeps ==
    ASSUME ImageInv, ErrorInv, UruInv, driver = "uru4000", DriversNext, UruIsActivated
    PROVE  [Next]_vars /\ ErrorInv' /\ UruInv' /\ driver' = driver
<1>1. Pending("activate_complete", "none", <<>>) /\ dev.driver = "activating"
    BY OneCall DEF UruIsActivated, None
<1>2. /\ Next /\ Kept /\ ErrorInv' /\ Moves("AWAIT_FINGER_ON")
      /\ calls' = Call("change_state", "AWAIT_FINGER_ON") \o <<>>
    BY <1>1, ActivationIsMade
<1>3. UruIsTold'
    BY <1>2, NoMore, OnlyOne
    DEF UruIsActivated, UruIsTold, UruIrqFits, UruNoInit, UruNoImage, Kept, Moves
<1> QED
    BY <1>2, <1>3, UruCallKeeps DEF UruPhases

\* Nothing before two calls.
LEMMA NothingBefore ==
    ASSUME NEW name, NEW arg, NEW second, NEW its
    PROVE  <<>> \o (Call(name, arg) \o Call(second, its)) = Call(name, arg) \o Call(second, its)
<1> DEFINE c == [call |-> name, arg |-> arg]
           d == [call |-> second, arg |-> its]
           S == {c, d}
<1>1. c \in S /\ <<d>> \in Seq(S)
    OBVIOUS
<1>2. <<c>> \o <<d>> \in Seq(S)
    BY <1>1, HeadBefore
<1>3. <<>> \o (<<c>> \o <<d>>) = <<c>> \o <<d>>
    BY <1>2, WithoutMore
<1> QED
    BY <1>3 DEF Call

\* A finger is reported.
LEMMA UruAwaitsKeeps ==
    ASSUME ImageInv, ErrorInv, UruInv, driver = "uru4000", DriversNext, calls # <<>>, UruAwaits
    PROVE  [Next]_vars /\ ErrorInv' /\ UruInv' /\ driver' = driver
<1>0. /\ drv \in UruData /\ drv.irq = "running" /\ drv.irq_cb = "finger" /\ Modes(drv.control)
      /\ UruNoInit /\ UruNoImage
      /\ dev.driver = "running" /\ dev.state \in {"AWAIT_FINGER_ON", "AWAIT_FINGER_OFF", "IDLE"}
    BY DEF UruInv, UruAwaits
<1>1. PICK arg \in {"on", "off"} : calls = Call("report_finger_status", arg)
    BY DEF UruAwaits
<1>2. Pending("report_finger_status", arg, <<>>)
    BY <1>1, OneCall
<1>3. /\ Next /\ Kept /\ ErrorInv' /\ calls' = Told(dev') \o <<>>
      /\ \/ Moves("CAPTURE") /\ Told(dev') = Call("change_state", "CAPTURE")
         \/ Moves("IDLE") /\ Told(dev') = Call("change_state", "IDLE")
         \/ Moves("AWAIT_FINGER_ON") /\ Told(dev') = Call("change_state", "AWAIT_FINGER_ON")
         \/ Stops /\ Told(dev') = Vfuncs("DEACTIVATING")
         \/ Same /\ Told(dev') = <<>>
    BY <1>0, <1>2, ReportIsMade
<1>4. UruNoInit' /\ UruNoImage' /\ drv' = drv
    BY <1>0, <1>3 DEF Kept, UruNoInit, UruNoImage
<1>5. CASE Moves("CAPTURE") /\ Told(dev') = Call("change_state", "CAPTURE")
    <2>1. UruIsTold'
        BY <1>0, <1>3, <1>4, <1>5, NoMore DEF UruIsTold, UruIrqFits, Moves
    <2> QED
        BY <1>3, <2>1, UruCallKeeps DEF UruPhases
<1>6. CASE Moves("IDLE") /\ Told(dev') = Call("change_state", "IDLE")
    <2>1. UruIsTold'
        BY <1>0, <1>3, <1>4, <1>6, NoMore DEF UruIsTold, UruIrqFits, Moves
    <2> QED
        BY <1>3, <2>1, UruCallKeeps DEF UruPhases
<1>7. CASE Moves("AWAIT_FINGER_ON") /\ Told(dev') = Call("change_state", "AWAIT_FINGER_ON")
    <2>1. UruIsTold'
        BY <1>0, <1>3, <1>4, <1>7, NoMore DEF UruIsTold, UruIrqFits, Moves
    <2> QED
        BY <1>3, <2>1, UruCallKeeps DEF UruPhases
<1>8. CASE Stops /\ Told(dev') = Vfuncs("DEACTIVATING")
    <2>1. UruStops'
        BY <1>0, <1>3, <1>4, <1>8, NoMore DEF UruStops, Stops
    <2> QED
        BY <1>3, <2>1, UruCallKeeps DEF UruPhases
<1>9. CASE Same /\ Told(dev') = <<>>
    <2>1. UruAwaits'
        BY <1>0, <1>3, <1>4, <1>9, NoMore DEF UruAwaits, Same
    <2> QED
        BY <1>3, <2>1, UruCallKeeps DEF UruPhases
<1> QED
    BY <1>3, <1>5, <1>6, <1>7, <1>8, <1>9

\* The driver executes the state it was told, also after an image, and goes on.
LEMMA UruExecuteKeeps ==
    ASSUME ImageInv, ErrorInv, driver = "uru4000", NEW d \in UruData, Tail(calls) = <<>>,
           UruExecuteStateChange(d), d.img = FALSE, d.imaging = "none", Modes(d.control),
           d.init = "none", d.sub = "none", d.timeout = FALSE, d.irq \in {"running", "off"},
           action = "ENROLL" /\ dev.driver = "running" => d.irq = "running",
           \/ dev.driver = "running" /\ dev.state = d.activate_state
                  /\ d.activate_state \in {"AWAIT_FINGER_ON", "AWAIT_FINGER_OFF", "CAPTURE"}
           \/ dev.driver = "running" /\ dev.state = "IDLE" /\ d.activate_state = "IDLE"
                  /\ d.irq = "running" /\ d.irq_cb = "finger"
           \/ dev.driver = "deactivating" /\ d.activate_state = "DEACTIVATING"
    PROVE  [Next]_vars /\ ErrorInv' /\ UruInv' /\ driver' = driver
<1>0. d.control \in Seq(Callbacks) /\ <<>> \o <<>> = <<>>
    BY NoMore DEF UruData
<1>1. /\ UNCHANGED <<libraryVars, driver>> /\ drv' \in UruData
      /\ drv'.irq = d.irq /\ drv'.activate_state = d.activate_state
      /\ drv'.init = "none" /\ drv'.sub = "none" /\ drv'.timeout = FALSE
      /\ d.activate_state # "CAPTURE" => drv'.img = FALSE /\ drv'.imaging = "none"
    BY UruExecuteMakes
<1>2. UruNoInit' /\ (d.activate_state # "CAPTURE" => UruNoImage')
    BY <1>1 DEF UruNoInit, UruNoImage
<1>3. CASE d.activate_state = "DEACTIVATING"
    <2>1. calls' = <<>> /\ drv'.irq_cb = "none" /\ drv'.control = Append(d.control, "off")
        BY <1>0, <1>3, UruExecuteMakes
    <2>2. EndsWith(Append(d.control, "off"), "off")
        BY <1>0, AppendedIsLast DEF Callbacks
    <2>3. UruSwitchesOff'
        BY <1>1, <1>2, <1>3, <2>1, <2>2 DEF UruSwitchesOff
    <2>4. UruStops'
        BY <1>1, <1>3, <2>1, <2>3, NotEmpty DEF UruStops, libraryVars
    <2> QED
        BY <1>1, <2>4, UruStepKeeps DEF UruPhases
<1>4. CASE d.activate_state = "CAPTURE"
    <2>1. calls' = <<>> /\ drv'.img = TRUE /\ drv'.imaging = "CAPTURE"
            /\ drv'.irq_cb = "none" /\ drv'.control = Append(d.control, "mode")
        BY <1>0, <1>4, UruExecuteMakes
    <2>2. Modes(Append(d.control, "mode"))
        BY <1>0, AppendedIsLast DEF Callbacks
    <2>3. dev.minutiae_scan_active = FALSE /\ dev.driver = "running" /\ dev.state = "CAPTURE"
        BY <1>4, InvUnfailed DEF ImageInv, OneScanAtATime, Device
    <2>4. UruTransfers'
        BY <1>1, <1>2, <2>1, <2>2, <2>3 DEF UruTransfers, libraryVars
    <2>5. UruImages'
        BY <1>1, <1>4, <2>1, <2>3, <2>4 DEF UruImages, UruIrqFits, libraryVars
    <2> QED
        BY <1>1, <2>5, UruStepKeeps DEF UruPhases
<1>5. CASE d.activate_state \in {"AWAIT_FINGER_ON", "AWAIT_FINGER_OFF"} /\ d.irq = "off"
    <2>1. drv' = d /\ calls' = Call("session_error", "fatal") \o <<>>
        BY <1>5, UruExecuteMakes
    <2>2. UruReportsError'
        BY <1>1, <1>2, <1>5, <2>1, NoMore
        DEF UruReportsError, UruNoInit, UruNoImage, Enrolling, libraryVars
    <2> QED
        BY <1>1, <2>2, UruStepKeeps DEF UruPhases
<1>6. CASE d.activate_state \in {"AWAIT_FINGER_ON", "AWAIT_FINGER_OFF"} /\ d.irq # "off"
    <2>1. calls' = <<>> /\ drv'.irq_cb = "finger" /\ drv'.control = Append(d.control, "mode")
        BY <1>0, <1>6, UruExecuteMakes
    <2>2. Modes(Append(d.control, "mode"))
        BY <1>0, AppendedIsLast DEF Callbacks
    <2>3. UruAwaits'
        BY <1>1, <1>2, <1>6, <2>1, <2>2 DEF UruAwaits, libraryVars
    <2> QED
        BY <1>1, <2>3, UruStepKeeps DEF UruPhases
<1>7. CASE d.activate_state = "IDLE"
    <2>1. drv' = d /\ calls' = <<>>
        BY <1>0, <1>7, UruExecuteMakes
    <2>2. UruAwaits'
        BY <1>1, <1>2, <1>7, <2>1 DEF UruAwaits, libraryVars
    <2> QED
        BY <1>1, <2>2, UruStepKeeps DEF UruPhases
<1> QED
    BY <1>3, <1>4, <1>5, <1>6, <1>7

\* uru4000 is told a state while no image is transferred.
LEMMA UruIsToldKeeps ==
    ASSUME ImageInv, ErrorInv, UruInv, driver = "uru4000", DriversNext, UruIsTold
    PROVE  [Next]_vars /\ ErrorInv' /\ UruInv' /\ driver' = driver
<1>0. /\ drv \in UruData /\ dev.driver = "running" /\ Modes(drv.control) /\ UruNoInit
      /\ UruNoImage /\ UruIrqFits
    BY DEF UruInv, UruIsTold
<1>1. PICK state \in {"AWAIT_FINGER_ON", "CAPTURE", "IDLE"} :
          /\ calls = Call("change_state", state) /\ dev.state = state
          /\ state = "IDLE" => drv.irq = "running" /\ drv.irq_cb = "finger"
    BY DEF UruIsTold
<1>2. Pending("change_state", state, <<>>)
    BY <1>1, OneCall
<1> DEFINE d == [drv EXCEPT !.activate_state = state]
<1>3. Tail(calls) = <<>> /\ UruExecuteStateChange(d)
    BY <1>0, <1>2, UruVfuncMakes DEF UruNoImage
<1>4. /\ d \in UruData /\ d.activate_state = state /\ d.irq = drv.irq /\ d.irq_cb = drv.irq_cb
      /\ d.control = drv.control /\ d.init = "none" /\ d.sub = "none" /\ d.timeout = FALSE
      /\ d.img = FALSE /\ d.imaging = "none"
    BY <1>0 DEF UruData, UruNoInit, UruNoImage, States
<1> HIDE DEF d
<1>5. /\ Modes(d.control) /\ d.irq \in {"running", "off"}
      /\ action = "ENROLL" /\ dev.driver = "running" => d.irq = "running"
    BY <1>0, <1>4 DEF UruIrqFits
<1> QED
    BY <1>0, <1>1, <1>3, <1>4, <1>5, UruExecuteKeeps

\* The driver is told to deactivate the device, and says that it has.
LEMMA UruStopsKeeps ==
    ASSUME ImageInv, ErrorInv, UruInv, driver = "uru4000", DriversNext, calls # <<>>, UruStops
    PROVE  [Next]_vars /\ ErrorInv' /\ UruInv' /\ driver' = driver
<1>0. drv \in UruData /\ dev.driver = "deactivating"
    BY DEF UruInv, UruStops
<1>1. CASE /\ calls = None("deactivate") /\ drv.activate_state = "DEACTIVATING"
           /\ UruTransfers \/ UruSwitchesOff
    <2>1. Pending("deactivate", "none", <<>>)
        BY <1>1, OneCall, NoMore
    <2>2. Returns(drv, <<>>) /\ Tail(calls) = <<>>
        BY <2>1, UruVfuncMakes
    <2>3. drv' = drv /\ calls' = <<>> /\ UNCHANGED <<libraryVars, driver>>
        BY <2>2, NoMore DEF Returns
    <2>4. (UruTransfers \/ UruSwitchesOff)'
        BY <1>1, <2>3 DEF UruTransfers, UruSwitchesOff, UruNoInit, UruNoImage, libraryVars
    <2>5. UruStops'
        BY <1>0, <1>1, <2>3, <2>4, NotEmpty DEF UruStops, libraryVars
    <2> QED
        BY <1>0, <2>3, <2>5, UruStepKeeps DEF UruPhases
<1>2. CASE /\ calls = Call("session_error", "fatal") /\ drv.activate_state = "DEACTIVATING"
           /\ UruTransfers \/ UruSwitchesOff
           /\ ~Enrolling
    <2>1. Pending("session_error", "fatal", <<>>)
        BY <1>2, OneCall
    <2>2. /\ Next /\ Kept /\ Stops /\ SameScan /\ ErrorInv' /\ calls' = Told(dev') \o <<>>
          /\ Told(dev') = <<>>
        BY <1>0, <1>2, <2>1, SessionErrorIsMade DEF Enrolling
    <2>3. (UruTransfers \/ UruSwitchesOff)'
        BY <1>2, <2>2
        DEF UruTransfers, UruSwitchesOff, UruNoInit, UruNoImage, Kept, SameScan
    <2>4. calls' = <<>>
        BY <2>2, NoMore
    <2>5. UruStops'
        BY <1>2, <2>2, <2>3, <2>4, NotEmpty DEF UruStops, Kept, Stops
    <2> QED
        BY <2>2, <2>5, UruCallKeeps DEF UruPhases
<1>3. CASE /\ calls = Vfuncs("DEACTIVATING")
           /\ \/ UruTransfers
              \/ /\ UruNoImage /\ UruNoInit
                 /\ drv.irq \in {"running", "off"} /\ Modes(drv.control)
    <2>1. Pending("change_state", "DEACTIVATING", Call("deactivate", "none"))
        BY <1>3, VfuncsAre, TwoCalls
    <2> DEFINE d == [drv EXCEPT !.activate_state = "DEACTIVATING"]
    <2>2. d \in UruData /\ d.activate_state = "DEACTIVATING" /\ d.irq = drv.irq
            /\ d.irq_cb = drv.irq_cb /\ d.control = drv.control
            /\ d.init = drv.init /\ d.sub = drv.sub /\ d.timeout = drv.timeout
            /\ d.img = drv.img /\ d.imaging = drv.imaging /\ d.control \in Seq(Callbacks)
        BY <1>0 DEF UruData, States
    <2>3. CASE UruTransfers
        <3>0. drv.img
            BY <2>3 DEF UruTransfers
        <3>1. Returns(d, <<>>) /\ Tail(calls) = Call("deactivate", "none")
            BY <2>1, <3>0, UruVfuncMakes
        <3> HIDE DEF d
        <3>2. drv' = d /\ calls' = None("deactivate") /\ UNCHANGED <<libraryVars, driver>>
            BY <3>1, NoMore DEF Returns
        <3>3. UruTransfers'
            BY <2>2, <2>3, <3>2 DEF UruTransfers, UruNoInit, libraryVars
        <3>4. None("deactivate") # Call("session_error", "fatal")
            BY DEF None, Call
        <3>5. UruStops'
            BY <1>0, <2>2, <3>2, <3>3, <3>4 DEF UruStops, libraryVars
        <3> QED
            BY <2>2, <3>2, <3>5, UruStepKeeps DEF UruPhases
    <2>4. CASE UruNoImage /\ UruNoInit /\ drv.irq \in {"running", "off"} /\ Modes(drv.control)
        <3>1. UruExecuteStateChange(d) /\ Tail(calls) = Call("deactivate", "none")
            BY <2>1, <2>4, UruVfuncMakes DEF UruNoImage
        <3> HIDE DEF d
        <3>2. /\ UNCHANGED <<libraryVars, driver>> /\ drv' \in UruData
              /\ drv'.irq = d.irq /\ drv'.activate_state = "DEACTIVATING"
              /\ drv'.init = d.init /\ drv'.sub = d.sub /\ drv'.timeout = d.timeout
              /\ drv'.img = d.img /\ drv'.imaging = d.imaging
              /\ drv'.irq_cb = "none" /\ drv'.control = Append(d.control, "off")
              /\ calls' = <<>> \o Call("deactivate", "none")
            BY <2>2, <3>1, UruExecuteMakes
        <3>3. EndsWith(Append(d.control, "off"), "off")
            BY <2>2, <2>4, AppendedIsLast DEF Callbacks
        <3>4. UruSwitchesOff'
            BY <2>2, <2>4, <3>2, <3>3 DEF UruSwitchesOff, UruNoInit, UruNoImage
        <3>5. calls' = None("deactivate")
            BY <3>2, NoMore
        <3>6. None("deactivate") # Call("session_error", "fatal")
            BY DEF None, Call
        <3>7. UruStops'
            BY <1>0, <3>2, <3>4, <3>5, <3>6 DEF UruStops, libraryVars
        <3> QED
            BY <3>2, <3>7, UruStepKeeps DEF UruPhases
    <2> QED
        BY <1>3, <2>3, <2>4
<1>4. CASE calls = Call("deactivate_complete", "none") /\ UruRests
    <2>1. Pending("deactivate_complete", "none", <<>>)
        BY <1>4, OneCall
    <2>2. /\ Next /\ Kept /\ ErrorInv' /\ dev'.driver = "off"
          /\ calls' = Call("change_state", "INACTIVE") \o <<>>
        BY <1>0, <2>1, DeactivationIsMade
    <2>3. Outside' /\ UruRests'
        BY <1>4, <2>2, NoMore DEF Outside, OutsideCalls, UruRests, UruNoInit, UruNoImage, Kept
    <2> QED
        BY <2>2, <2>3, UruCallKeeps DEF UruPhases
<1> QED
    BY <1>1, <1>2, <1>3, <1>4 DEF UruStops

\* An error deactivates the device.
LEMMA UruReportsErrorKeeps ==
    ASSUME ImageInv, ErrorInv, UruInv, driver = "uru4000", DriversNext, UruReportsError
    PROVE  [Next]_vars /\ ErrorInv' /\ UruInv' /\ driver' = driver
<1>1. Pending("session_error", "fatal", <<>>) /\ dev.driver = "running" /\ ~Enrolling
    BY OneCall DEF UruReportsError
<1>2. /\ Next /\ Kept /\ Stops /\ SameScan /\ ErrorInv' /\ calls' = Vfuncs("DEACTIVATING") \o <<>>
    BY <1>1, SessionErrorIsMade DEF Enrolling
<1>3. calls' = Vfuncs("DEACTIVATING") /\ drv' = drv
        /\ dev'.driver = "deactivating"
        /\ dev'.minutiae_scan_active = dev.minutiae_scan_active
    BY <1>2, NoMore DEF Kept, Stops, SameScan
<1>4. CASE UruTransfers
    <2>1. UruTransfers'
        BY <1>3, <1>4 DEF UruTransfers, UruNoInit
    <2> QED
        BY <1>2, <1>3, <2>1, UruCallKeeps DEF UruPhases, UruStops
<1>5. CASE UruNoImage /\ UruNoInit /\ drv.irq \in {"running", "off"} /\ Modes(drv.control)
    <2>1. (UruNoImage /\ UruNoInit)'
        BY <1>3, <1>5 DEF UruNoImage, UruNoInit
    <2> QED
        BY <1>2, <1>3, <1>5, <2>1, UruCallKeeps DEF UruPhases, UruStops
<1> QED
    BY <1>4, <1>5 DEF UruReportsError

\* The image transfer ends while the operation goes on or is deactivated.
UruEndsIn(state) ==
    \/ dev.driver = "running" /\ dev.state = "AWAIT_FINGER_OFF" /\ state = "AWAIT_FINGER_OFF"
    \/ dev.driver = "deactivating" /\ dev.minutiae_scan_active = FALSE
           /\ state = "DEACTIVATING"

\* The image, or the error of its transfer, is reported to a running device.
LEMMA UruImageReportKeeps ==
    ASSUME ImageInv, ErrorInv, UruInv, driver = "uru4000", DriversNext, UruImaged, UruIrqFits,
           dev.driver = "running", dev.state = "CAPTURE", drv.activate_state = "CAPTURE",
           calls \in {None("image_captured") \o None("image_reported"),
                      Call("session_error", "fatal") \o None("imaging_complete")}
    PROVE  [Next]_vars /\ ErrorInv' /\ UruInv' /\ driver' = driver
<1>1. CASE calls = None("image_captured") \o None("image_reported")
    <2>1. Pending("image_captured", "none", None("image_reported"))
        BY <1>1, TwoCalls DEF None
    <2>2. /\ Next /\ Kept /\ Moves("AWAIT_FINGER_OFF") /\ ErrorInv'
          /\ calls' = Call("change_state", "AWAIT_FINGER_OFF") \o None("image_reported")
        BY <2>1, ImageIsMade
    <2>3. UruImaged' /\ UruIrqFits'
        BY <2>2 DEF UruImaged, UruNoInit, UruIrqFits, Kept, Moves
    <2>4. UruReportsImage'
        BY <2>2, <2>3 DEF UruReportsImage, Moves
    <2> QED
        BY <2>2, <2>4, UruCallKeeps DEF UruPhases
<1>2. CASE calls = Call("session_error", "fatal") \o None("imaging_complete")
    <2>1. Pending("session_error", "fatal", None("imaging_complete"))
        BY <1>2, TwoCalls DEF None
    <2>2. dev.minutiae_scan_active = FALSE
        BY InvUnfailed DEF ImageInv, OneScanAtATime, Device
    <2>3. /\ Next /\ Kept /\ Stops /\ SameScan /\ ErrorInv'
          /\ calls' = Vfuncs("DEACTIVATING") \o None("imaging_complete")
        BY <2>1, <2>2, SessionErrorIsMade
    <2>4. UruImaged' /\ UruIrqFits'
        BY <2>3 DEF UruImaged, UruNoInit, UruIrqFits, Kept, Stops
    <2>5. UruReportsImage'
        BY <2>2, <2>3, <2>4 DEF UruReportsImage, Stops, SameScan
    <2> QED
        BY <2>3, <2>5, UruCallKeeps DEF UruPhases
<1> QED
    BY <1>1, <1>2

\* The driver is told the state which it executes after the image.
LEMMA UruImagedIsTold ==
    ASSUME ImageInv, ErrorInv, UruInv, driver = "uru4000", DriversNext, UruImaged, UruIrqFits,
           NEW state \in {"AWAIT_FINGER_OFF", "DEACTIVATING"}, NEW rest, UruEndsIn(state),
           Pending("change_state", state, rest)
    PROVE  /\ UNCHANGED <<libraryVars, driver>> /\ drv' \in UruData /\ UruImaged' /\ UruIrqFits'
           /\ drv'.activate_state = state /\ calls' = <<>> \o rest
<1> DEFINE d == [drv EXCEPT !.activate_state = state]
<1>1. drv.img
    BY DEF UruImaged
<1>2. Returns(d, <<>>) /\ Tail(calls) = rest
    BY <1>1, UruVfuncMakes
<1>3. d \in UruData /\ d.activate_state = state /\ d.irq = drv.irq /\ d.irq_cb = drv.irq_cb
        /\ d.control = drv.control /\ d.init = drv.init /\ d.sub = drv.sub
        /\ d.timeout = drv.timeout /\ d.img = drv.img
    BY DEF UruInv, UruData, States
<1> HIDE DEF d
<1>4. drv' = d /\ calls' = <<>> \o rest /\ UNCHANGED <<libraryVars, driver>>
    BY <1>2 DEF Returns
<1> QED
    BY <1>3, <1>4 DEF UruImaged, UruIrqFits, UruNoInit, libraryVars

\* The end of the image transfer, after it was reported.
LEMMA UruImageEnds ==
    ASSUME ImageInv, ErrorInv, UruInv, driver = "uru4000", DriversNext, UruImaged, UruIrqFits,
           UruEndsIn(drv.activate_state),
           calls \in {None("image_reported"), None("imaging_complete")}
    PROVE  [Next]_vars /\ ErrorInv' /\ UruInv' /\ driver' = driver
<1>0. drv \in UruData /\ drv.activate_state \in {"AWAIT_FINGER_OFF", "DEACTIVATING"}
    BY DEF UruInv, UruEndsIn
<1>1. CASE calls = None("image_reported")
    <2>1. Pending("image_reported", "none", <<>>)
        BY <1>1, OneCall, NoMore
    <2>2. Returns(drv, None("imaging_complete")) /\ Tail(calls) = <<>>
        BY <1>0, <2>1, UruVfuncMakes
    <2>3. drv' = drv /\ calls' = None("imaging_complete") /\ UNCHANGED <<libraryVars, driver>>
        BY <2>2, NoMore DEF Returns
    <2>4. UruImaged' /\ UruIrqFits'
        BY <2>3 DEF UruImaged, UruNoInit, UruIrqFits, libraryVars
    <2>5. UruReportsImage'
        BY <2>3, <2>4 DEF UruReportsImage, UruEndsIn, libraryVars
    <2> QED
        BY <1>0, <2>3, <2>5, UruStepKeeps DEF UruPhases
<1>2. CASE calls = None("imaging_complete")
    <2> DEFINE d == [drv EXCEPT !.img = FALSE, !.imaging = "none"]
    <2>1. Pending("imaging_complete", "none", <<>>)
        BY <1>2, OneCall, NoMore
    <2>2. UruExecuteStateChange(d) /\ Tail(calls) = <<>>
        BY <2>1, UruVfuncMakes
    <2>3. d \in UruData /\ d.activate_state = drv.activate_state /\ d.irq = drv.irq
            /\ d.irq_cb = drv.irq_cb /\ d.control = drv.control /\ d.init = drv.init
            /\ d.sub = drv.sub /\ d.timeout = drv.timeout /\ d.img = FALSE
            /\ d.imaging = "none"
        BY <1>0 DEF UruData
    <2> HIDE DEF d
    <2>4. /\ Modes(d.control) /\ d.init = "none" /\ d.sub = "none" /\ d.timeout = FALSE
          /\ d.irq \in {"running", "off"}
          /\ action = "ENROLL" /\ dev.driver = "running" => d.irq = "running"
        BY <2>3 DEF UruImaged, UruNoInit, UruIrqFits
    <2>5. \/ dev.driver = "running" /\ dev.state = d.activate_state
                 /\ d.activate_state = "AWAIT_FINGER_OFF"
          \/ dev.driver = "deactivating" /\ d.activate_state = "DEACTIVATING"
        BY <2>3 DEF UruEndsIn
    <2> QED
        BY <2>2, <2>3, <2>4, <2>5, UruExecuteKeeps
<1> QED
    BY <1>1, <1>2

\* A device that is deactivated is told so first, then its image is not asked for any more.
LEMMA UruLateImageKeeps ==
    ASSUME ImageInv, ErrorInv, UruInv, driver = "uru4000", DriversNext, UruImaged, UruIrqFits,
           dev.driver = "deactivating", dev.minutiae_scan_active = FALSE,
           \/ calls = Vfuncs("DEACTIVATING") \o None("imaging_complete")
           \/ /\ drv.activate_state = "DEACTIVATING"
              /\ calls \in {None("deactivate") \o None("imaging_complete"),
                            None("imaging_complete"), None("image_reported"),
                            None("image_captured") \o None("image_reported"),
                            Call("session_error", "fatal") \o None("imaging_complete")}
    PROVE  [Next]_vars /\ ErrorInv' /\ UruInv' /\ driver' = driver
<1>0. drv \in UruData
    BY DEF UruInv
<1>1. CASE calls = Vfuncs("DEACTIVATING") \o None("imaging_complete")
    <2>1. Pending("change_state", "DEACTIVATING",
                  Call("deactivate", "none") \o Call("imaging_complete", "none"))
        BY <1>1, VfuncsAre, ThreeCalls DEF None
    <2>2. /\ UNCHANGED <<libraryVars, driver>> /\ drv' \in UruData /\ UruImaged' /\ UruIrqFits'
          /\ drv'.activate_state = "DEACTIVATING"
          /\ calls' = <<>> \o (Call("deactivate", "none") \o Call("imaging_complete", "none"))
        BY <2>1, UruImagedIsTold DEF UruEndsIn
    <2>3. calls' = None("deactivate") \o None("imaging_complete")
        BY <2>2, NothingBefore DEF None
    <2>4. UruReportsImage'
        BY <2>2, <2>3 DEF UruReportsImage, libraryVars
    <2> QED
        BY <2>2, <2>4, UruStepKeeps DEF UruPhases
<1>2. CASE /\ drv.activate_state = "DEACTIVATING"
           /\ calls = None("deactivate") \o None("imaging_complete")
    <2>1. Pending("deactivate", "none", Call("imaging_complete", "none"))
        BY <1>2, TwoCalls DEF None
    <2>2. Returns(drv, <<>>) /\ Tail(calls) = Call("imaging_complete", "none")
        BY <2>1, UruVfuncMakes
    <2>3. drv' = drv /\ calls' = None("imaging_complete") /\ UNCHANGED <<libraryVars, driver>>
        BY <2>2, NoMore DEF Returns
    <2>4. UruImaged' /\ UruIrqFits'
        BY <2>3 DEF UruImaged, UruNoInit, UruIrqFits, libraryVars
    <2>5. UruReportsImage'
        BY <1>2, <2>3, <2>4 DEF UruReportsImage, libraryVars
    <2> QED
        BY <1>0, <2>3, <2>5, UruStepKeeps DEF UruPhases
<1>3. CASE /\ drv.activate_state = "DEACTIVATING"
           /\ calls = None("image_captured") \o None("image_reported")
    <2>1. Pending("image_captured", "none", Call("image_reported", "none"))
        BY <1>3, TwoCalls DEF None
    <2>2. dev.state = "DEACTIVATING"
        BY DEF ImageInv, DriverAndStateAgree
    <2>3. UNCHANGED vars /\ Kept /\ calls' = <<>> \o Call("image_reported", "none")
        BY <2>1, <2>2, ImageIsRefused
    <2>4. drv' = drv /\ calls' = None("image_reported") /\ UNCHANGED <<libraryVars, driver>>
        BY <2>3, NoMore DEF Kept, vars, libraryVars
    <2>5. UruImaged' /\ UruIrqFits'
        BY <2>4 DEF UruImaged, UruNoInit, UruIrqFits, libraryVars
    <2>6. UruReportsImage'
        BY <1>3, <2>4, <2>5 DEF UruReportsImage, libraryVars
    <2> QED
        BY <1>0, <2>4, <2>6, UruStepKeeps DEF UruPhases
<1>4. CASE /\ drv.activate_state = "DEACTIVATING"
           /\ calls = Call("session_error", "fatal") \o None("imaging_complete")
    <2>1. Pending("session_error", "fatal", Call("imaging_complete", "none"))
        BY <1>4, TwoCalls DEF None
    <2>2. /\ Next /\ Kept /\ Stops /\ SameScan /\ ErrorInv' /\ Told(dev') = <<>>
          /\ calls' = Told(dev') \o Call("imaging_complete", "none")
        BY <2>1, SessionErrorIsMade
    <2>3. calls' = None("imaging_complete")
        BY <2>2, NoMore
    <2>4. UruImaged' /\ UruIrqFits'
        BY <2>2 DEF UruImaged, UruNoInit, UruIrqFits, Kept, Stops
    <2>5. UruReportsImage'
        BY <1>4, <2>2, <2>3, <2>4 DEF UruReportsImage, Kept, Stops, SameScan
    <2> QED
        BY <2>2, <2>5, UruCallKeeps DEF UruPhases
<1>5. CASE /\ drv.activate_state = "DEACTIVATING"
           /\ calls \in {None("image_reported"), None("imaging_complete")}
    BY <1>5, UruImageEnds DEF UruEndsIn
<1> QED
    BY <1>1, <1>2, <1>3, <1>4, <1>5

\* The calls at the end of an image transfer, to a device that runs or is deactivated.
LEMMA UruReportsImageKeeps ==
    ASSUME ImageInv, ErrorInv, UruInv, driver = "uru4000", DriversNext, UruReportsImage
    PROVE  [Next]_vars /\ ErrorInv' /\ UruInv' /\ driver' = driver
<1>0. UruImaged /\ UruIrqFits
    BY DEF UruReportsImage
<1>1. CASE /\ dev.driver = "running" /\ dev.state = "AWAIT_FINGER_OFF"
           /\ calls = Call("change_state", "AWAIT_FINGER_OFF") \o None("image_reported")
    <2>1. Pending("change_state", "AWAIT_FINGER_OFF", Call("image_reported", "none"))
        BY <1>1, TwoCalls DEF None
    <2>2. /\ UNCHANGED <<libraryVars, driver>> /\ drv' \in UruData /\ UruImaged' /\ UruIrqFits'
          /\ drv'.activate_state = "AWAIT_FINGER_OFF"
          /\ calls' = <<>> \o Call("image_reported", "none")
        BY <1>0, <1>1, <2>1, UruImagedIsTold DEF UruEndsIn
    <2>3. calls' = None("image_reported")
        BY <2>2, NoMore
    <2>4. UruReportsImage'
        BY <1>1, <2>2, <2>3 DEF UruReportsImage, libraryVars
    <2> QED
        BY <2>2, <2>4, UruStepKeeps DEF UruPhases
<1>2. CASE /\ dev.driver = "running" /\ dev.state = "AWAIT_FINGER_OFF"
           /\ calls \in {None("image_reported"), None("imaging_complete")}
           /\ drv.activate_state = "AWAIT_FINGER_OFF"
    BY <1>0, <1>2, UruImageEnds DEF UruEndsIn
<1> QED
    BY <1>0, <1>1, <1>2, UruImageReportKeeps, UruLateImageKeeps DEF UruReportsImage

\* Every step of uru4000 with the library is one of the device.
LEMMA UruNext ==
    ASSUME ImageInv, ErrorInv, UruInv, driver = "uru4000", DriversNext, ~ErrorsDuringEnrollScan,
           UruFaults = {}
    PROVE  [Next]_vars /\ ErrorInv' /\ UruInv' /\ driver' = driver
<1>1. CASE calls = <<>>
    <2>0. ~(UruIsActivated \/ UruReportsError \/ UruIsTold)
        BY <1>1, NotEmpty DEF UruIsActivated, UruReportsError, UruIsTold
    <2>1. ~UruReportsImage
        <3>1. calls # None("image_captured") \o None("image_reported")
                /\ calls # Call("session_error", "fatal") \o None("imaging_complete")
                /\ calls # Call("change_state", "AWAIT_FINGER_OFF") \o None("image_reported")
                /\ calls # None("deactivate") \o None("imaging_complete")
            BY <1>1, NotEmpty DEF None
        <3>2. calls # Vfuncs("DEACTIVATING") \o None("imaging_complete")
            BY <1>1, VfuncsAre, ThreeCalls DEF None, Pending
        <3> QED
            BY <1>1, <3>1, <3>2, NotEmpty DEF UruReportsImage
    <2>2. UruActivates \/ UruAwaits \/ UruImages \/ UruStops \/ (Outside /\ UruRests)
        BY <2>0, <2>1 DEF UruInv, UruPhases
    <2>3. CASE MainLoopOfDriver
        BY <1>1, <2>2, <2>3, UruMainLoopKeeps, UruRestRuns
    <2> QED
        BY <1>1, <2>2, <2>3, UruLibraryKeeps, OnlyMainLoop
<1>2. CASE calls # <<>>
    BY <1>2, UruOutsideKeeps, UruIsActivatedKeeps, UruAwaitsKeeps, UruStopsKeeps,
       UruReportsImageKeeps, UruReportsErrorKeeps, UruIsToldKeeps
    DEF UruInv, UruPhases, UruActivates, UruImages
<1> QED
    BY <1>1, <1>2

\* The first of the calls that are to be made.
LEMMA FirstCall ==
    /\ \A name, arg : calls = Call(name, arg) => Head(calls).call = name
    /\ \A name : calls = None(name) => Head(calls).call = name
    /\ \A name, arg, second, its :
           calls = Call(name, arg) \o Call(second, its) => Head(calls).call = name
    /\ \A name, second, its : calls = None(name) \o Call(second, its) => Head(calls).call = name
    /\ \A name, second : calls = None(name) \o None(second) => Head(calls).call = name
    /\ \A name, arg, second :
           calls = Call(name, arg) \o None(second) => Head(calls).call = name
    /\ calls \in {Vfuncs("ACTIVATING"), Vfuncs("DEACTIVATING")} => Head(calls).call = "change_state"
    /\ \A name : calls = Vfuncs("DEACTIVATING") \o None(name) => Head(calls).call = "change_state"
<1>1. \A name, arg : calls = Call(name, arg) => Head(calls).call = name
    BY OneCall DEF Pending
<1>2. \A name, arg, second, its :
          calls = Call(name, arg) \o Call(second, its) => Head(calls).call = name
    BY TwoCalls DEF Pending
<1>3. \A name : None(name) = Call(name, "none")
    BY DEF None
<1>4. calls \in {Vfuncs("ACTIVATING"), Vfuncs("DEACTIVATING")} => Head(calls).call = "change_state"
    BY <1>2, VfuncsAre
<1>5. ASSUME NEW name, calls = Vfuncs("DEACTIVATING") \o None(name)
      PROVE  Head(calls).call = "change_state"
    <2>1. calls = (Call("change_state", "DEACTIVATING") \o Call("deactivate", "none"))
                      \o Call(name, "none")
        BY <1>3, <1>5, VfuncsAre
    <2>2. Pending("change_state", "DEACTIVATING",
                  Call("deactivate", "none") \o Call(name, "none"))
        BY <2>1, ThreeCalls
    <2> QED
        BY <2>2 DEF Pending
<1> QED
    BY <1>1, <1>2, <1>3, <1>4, <1>5

\* A call that fits the phase of the driver is accepted.
Fits(name) ==
    /\ name = "image_captured" => dev.driver = "running" /\ dev.state = "CAPTURE"
    /\ name = "retry_scan" => dev.driver = "running"
    /\ name = "activate_complete" => dev.driver = "activating"
    /\ name = "deactivate_complete" => dev.driver = "deactivating"
    /\ name = "open_complete" => dev.driver = "opening"
    /\ name = "close_complete" => dev.driver = "closing"

\* The library accepts a call that fits the phase of the driver.
LEMMA FittingIsAccepted == ASSUME ImageInv, NEW name, Fits(name) PROVE Accepted(name)
<1>1. /\ dev.driver \in {"activating", "running", "deactivating"} => action \in CaptureActions
      /\ dev.driver = "activating" => dev.state = "ACTIVATING"
      /\ dev.driver = "opening" => action = "OPEN"
      /\ dev.driver = "closing" => action = "CLOSE"
      /\ dev.active <=> dev.driver \in {"running", "deactivating"}
      /\ dev.driver = "deactivating" => dev.state = "DEACTIVATING"
      /\ dev.driver = "running" => dev.state # "INACTIVE"
    BY DEF ImageInv, WorkBelongsToAction, DriverAndStateAgree
<1> QED
    BY <1>1 DEF Fits, Accepted

\* Outside of a capture the device is opened, closed or activated.
LEMMA OutsideFits == ASSUME Outside, calls # <<>> PROVE Fits(Head(calls).call)
<1>1. CASE dev.driver = "opening"
    BY <1>1, FirstCall DEF Outside, OutsideCalls, Fits
<1>2. CASE dev.driver = "closing"
    BY <1>2, FirstCall DEF Outside, OutsideCalls, Fits
<1>3. CASE dev.driver = "off"
    BY <1>3, FirstCall DEF Outside, OutsideCalls, Fits
<1>4. CASE dev.driver = "activating"
    BY <1>4, FirstCall DEF Outside, OutsideCalls, Fits
<1> QED
    BY <1>1, <1>2, <1>3, <1>4 DEF Outside, OutsideCalls

\* The calls of nb1010 fit its phase.
LEMMA NbFits == ASSUME NbInv, calls # <<>> PROVE Fits(Head(calls).call)
<1>1. CASE NbReports
    BY <1>1, FirstCall DEF NbReports, Fits
<1>2. CASE NbIsTold
    BY <1>2, FirstCall DEF NbIsTold, Fits
<1>3. CASE NbIsStopped
    BY <1>3, FirstCall DEF NbIsStopped, Fits
<1>4. CASE NbIsActivated
    BY <1>4, FirstCall DEF NbIsActivated, Fits
<1> QED
    BY <1>1, <1>2, <1>3, <1>4, OutsideFits DEF NbInv, NbRuns, NbStops

\* The calls of elan fit its phase.
LEMMA ElanFits == ASSUME ElanInv, calls # <<>> PROVE Fits(Head(calls).call)
<1>1. CASE ElanReports
    BY <1>1, FirstCall DEF ElanReports, Fits
<1>2. CASE ElanIsTold
    BY <1>2, FirstCall DEF ElanIsTold, Fits
<1>3. CASE ElanIsStopped
    BY <1>3, FirstCall DEF ElanIsStopped, Fits
<1>4. CASE ElanActivates
    BY <1>4, FirstCall DEF ElanActivates, Fits
<1> QED
    BY <1>1, <1>2, <1>3, <1>4, OutsideFits DEF ElanInv, ElanRuns, ElanStops

\* But for an image that comes while the device is deactivated.
LEMMA UruFits ==
    ASSUME ImageInv, UruInv, calls # <<>>
    PROVE  \/ Fits(Head(calls).call)
           \/ Head(calls).call = "image_captured" /\ dev.state = "DEACTIVATING"
<1>1. CASE UruIsActivated
    BY <1>1, FirstCall DEF UruIsActivated, Fits
<1>2. CASE UruAwaits
    BY <1>2, FirstCall DEF UruAwaits, Fits
<1>3. CASE UruStops
    BY <1>3, FirstCall DEF UruStops, Fits
<1>4. CASE UruReportsImage
    <2>1. dev.driver = "deactivating" => dev.state = "DEACTIVATING"
        BY DEF ImageInv, DriverAndStateAgree
    <2> QED
        BY <1>4, <2>1, FirstCall DEF UruReportsImage, Fits
<1>5. CASE UruReportsError
    BY <1>5, FirstCall DEF UruReportsError, Fits
<1>6. CASE UruIsTold
    BY <1>6, FirstCall DEF UruIsTold, Fits
<1> QED
    BY <1>1, <1>2, <1>3, <1>4, <1>5, <1>6, OutsideFits
    DEF UruInv, UruPhases, UruActivates, UruImages

\* A device that is off has a driver that rests.
LEMMA OffIsQuiet ==
    ASSUME DriversInv, dev.driver = "off" PROVE Quiet
<1>1. CASE driver = "nb1010"
    BY <1>1 DEF DriversInv, NbInv, NbRuns, NbStops, NbReports, NbIsTold, NbIsStopped,
                NbIsActivated, Quiet, NbQuiet
<1>2. CASE driver = "elan"
    <2>1. ElanRests
        BY <1>2 DEF DriversInv, ElanInv, ElanActivates, ElanRuns, ElanStops, ElanReports,
                    ElanIsTold, ElanIsStopped
    <2> QED
        BY <1>2, <2>1 DEF ElanRests, Quiet, ElanQuiet
<1>3. CASE driver = "uru4000"
    <2>1. UruRests
        BY <1>3 DEF DriversInv, UruInv, UruPhases, UruActivates, UruIsActivated, UruAwaits,
                    UruImages, UruStops, UruReportsImage, UruReportsError, UruIsTold
    <2> QED
        BY <1>3, <2>1 DEF UruRests, UruNoInit, UruNoImage, Quiet, UruQuiet
<1> QED
    BY <1>1, <1>2, <1>3 DEF DriversInv

\* The invariant of the drivers implies that they keep order.
LEMMA DriversInvIsOrder == DriversInv => DriverKeepsOrder
<1> SUFFICES ASSUME DriversInv PROVE DriverKeepsOrder
    OBVIOUS
<1>0. ImageInv
    BY DEF DriversInv
<1>1. CallsAreAccepted
    BY <1>0, NbFits, ElanFits, UruFits, FittingIsAccepted DEF DriversInv, CallsAreAccepted
<1>2. DriverIsQuiet
    <2>1. dev.result # "none" \/ action = "NONE" => dev.driver = "off"
        BY <1>0 DEF ImageInv, DriverAndStateAgree
    <2> QED
        BY <2>1, OffIsQuiet DEF DriverIsQuiet
<1>3. DriverStateIsSound
    BY DEF DriversInv, NbInv, NbData, NbPolling, NbReading, ElanInv, ElanData, UruInv, UruData,
           DriverStateIsSound
<1> QED
    BY <1>1, <1>2, <1>3 DEF DriverKeepsOrder

-----------------------------------------------------------------------------
\* The invariant holds of a device that was not opened yet.
LEMMA DriversInitially == DriversInit => DriversInv
<1> SUFFICES ASSUME DriversInit PROVE DriversInv
    OBVIOUS
<1>1. ImageInv /\ dev.driver = "off" /\ calls = <<>>
    BY ImageInitially DEF DriversInit, Init
<1>2. ErrorInv /\ Outside
    BY <1>1 DEF ErrorInv, Outside, OutsideCalls
<1>3. CASE driver = "nb1010" /\ drv = NbInit
    BY <1>1, <1>2, <1>3 DEF NbInit, NbInv, NbData, DriversInv
<1>4. CASE driver = "elan" /\ drv = ElanInit
    BY <1>1, <1>2, <1>4 DEF ElanInit, ElanInv, ElanData, ElanRests, DriversInv
<1>5. CASE driver = "uru4000" /\ drv = UruInit
    <2>1. UruRests
        BY <1>5 DEF UruInit, UruRests, UruNoInit, UruNoImage
    <2>2. drv \in UruData
        BY <1>5, OnlyOne DEF UruInit, UruData, States
    <2> QED
        BY <1>1, <1>2, <1>5, <2>1, <2>2 DEF UruInv, UruPhases, DriversInv
<1> QED
    BY <1>3, <1>4, <1>5 DEF DriversInit

\* A step that changes nothing keeps the invariant.
LEMMA DriversStutter == ASSUME DriversInv, UNCHANGED driversVars PROVE DriversInv' /\ UNCHANGED vars
<1>1. UNCHANGED <<dev, action, is_open, cancel, driver, drv, calls>>
    BY DEF driversVars, libraryVars
<1>2. ErrorInv' /\ UNCHANGED vars /\ UNCHANGED driver
    BY <1>1 DEF DriversInv, ErrorInv, vars
<1>3. ImageInv'
    BY <1>1 DEF DriversInv, ImageInv, TypeOK, DriverAndStateAgree, OneScanAtATime,
           NothingLeftBehind, NoAssertionFails, SuccessIsComplete, WorkBelongsToAction,
           ScanBelongsToAction, QuietWhenInactive, EnrollGoesOn, FingerIsKnown
<1>4. NbInv => NbInv'
    BY <1>1 DEF NbInv, NbRuns, NbStops, NbReports, NbIsTold, NbIsStopped,
                NbIsActivated, NbCancelled, NbUnscanned, Outside, OutsideCalls
<1>5. ElanInv => ElanInv'
    BY <1>1 DEF ElanInv, ElanActivates, ElanRuns, ElanStops, ElanReports, ElanIsTold,
                ElanIsStopped, ElanRests, ElanActs, ElanEnded, ElanGoesOn, Enrolling,
                Outside, OutsideCalls
<1>6. UruInv => UruInv'
    BY <1>1 DEF UruInv, UruPhases, UruActivates, UruIsActivated, UruAwaits, UruImages, UruStops,
                UruReportsImage, UruReportsError, UruIsTold, UruRests, UruNoInit, UruNoImage,
                UruIrqFits, UruTransfers, UruSwitchesOff, UruImaged, Enrolling, Outside,
                OutsideCalls
<1> QED
    BY <1>2, <1>3, <1>4, <1>5, <1>6 DEF DriversInv

\* Every step of the drivers is one of the device or leaves it as it is.
LEMMA DriversNextKeeps ==
    ASSUME ~ErrorsDuringEnrollScan, UruFaults = {}, DriversInv, [DriversNext]_driversVars
    PROVE  DriversInv' /\ [Next]_vars
<1>0. ImageInv /\ ErrorInv
    BY DEF DriversInv
<1>1. CASE DriversNext
    <2>1. /\ [Next]_vars /\ ErrorInv' /\ driver' = driver
          /\ driver = "nb1010" => NbInv'
          /\ driver = "elan" => ElanInv'
          /\ driver = "uru4000" => UruInv'
        BY <1>0, <1>1, NbNext, ElanNext, UruNext DEF DriversInv
    <2>2. ImageInv'
        BY <1>0, <2>1, NextKeepsImageInv
    <2> QED
        BY <2>1, <2>2 DEF DriversInv
<1>2. CASE UNCHANGED driversVars
    BY <1>2, DriversStutter
<1> QED
    BY <1>1, <1>2

\* The invariant of the drivers holds at all times.
LEMMA DriversInvariant ==
    ~ErrorsDuringEnrollScan /\ UruFaults = {} => (DriversSpec => []DriversInv)
<1> SUFFICES ASSUME ~ErrorsDuringEnrollScan, UruFaults = {} PROVE DriversSpec => []DriversInv
    OBVIOUS
<1>1. DriversInv /\ [DriversNext]_driversVars => DriversInv'
    BY DriversNextKeeps
<1> QED
    BY <1>1, DriversInitially, PTL DEF DriversSpec

\* With each of the three drivers, for every number of stages, image parts, retries and
\* frames: a call the library refuses is only ever an image that uru4000 had under way when
\* the device was deactivated; once an operation has ended and the calls are made nothing is
\* under way on the bus, no delay and no machine; and no machine is started over another
\* one that runs or has ended under its transfers (m_loop_state, elan_capture,
\* imaging_run_state, execute_state_change).
THEOREM DriverKeepsOrderCorrect ==
    ~ErrorsDuringEnrollScan /\ UruFaults = {} => (DriversSpec => []DriverKeepsOrder)
BY DriversInvIsOrder, DriversInvariant, PTL

\* The refinement: every call of the three drivers to the library (report_finger_status,
\* image_captured, retry_scan, session_error, activate_complete, deactivate_complete) is a
\* step that FpImageDevice allows an orderly driver, and everything else they do leaves
\* the device as it is.  So what is proved of FpImageDevice above holds with them.
THEOREM DriversAreOrderlyCorrect ==
    ~ErrorsDuringEnrollScan /\ UruFaults = {} => (DriversSpec => DriversAreOrderly)
<1> SUFFICES ASSUME ~ErrorsDuringEnrollScan, UruFaults = {} PROVE DriversSpec => DriversAreOrderly
    OBVIOUS
<1>1. DriversInit => Init
    BY DEF DriversInit
<1>2. DriversInv /\ [DriversNext]_driversVars => [Next]_vars
    BY DriversNextKeeps
<1> QED
    BY <1>1, <1>2, DriversInvariant, PTL DEF DriversSpec, Spec, DriversAreOrderly
=============================================================================
