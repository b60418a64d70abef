------------------------------- MODULE Nb1010 -------------------------------
(***************************************************************************)
(* The NextBiometrics driver (drivers/nb1010.c): one state machine polls   *)
(* for a finger, reads the image in parts and submits it.  It runs for one *)
(* scan; deactivation sets a flag that every step of it looks at.          *)
(***************************************************************************)
EXTENDS ImageDriver

CONSTANT NbPartials   \* NB1010_N_PARTIAL, the parts of an image

ASSUME NbPartialsAssumption == NbPartials \in Nat \ {0}

\* ssm is the state of the running machine: in WAIT_PRINT it waits for a timeout, in
\* each other for a transfer, in PRESTART and START for two (reply: the second one).
NbInit == [ssm |-> "none", reply |-> FALSE, deactivating |-> FALSE, partial_received |-> 0]

\* m_loop_complete
NbLoopComplete(d, error) ==
    Runs([d EXCEPT !.ssm = "none"],
         IF d.deactivating THEN Call("deactivate_complete", error)
         ELSE IF error # "none" THEN Call("session_error", error) ELSE <<>>)

NbEnter(d, state, more) ==
    IF d.deactivating THEN NbLoopComplete(d, "none")
    ELSE Runs([d EXCEPT !.ssm = state, !.reply = FALSE], more)

\* M_SUBMIT_PRINT: the machine ends between the report of the image and of the finger.
NbSubmitPrint(d) ==
    IF d.deactivating THEN NbLoopComplete(d, "none")
    ELSE Runs([d EXCEPT !.ssm = "none"],
              None("image_captured") \o Call("report_finger_status", "off"))

NbTimeout == drv.ssm = "WAIT_PRINT" /\ NbEnter(drv, "REQUEST_PRINT", <<>>)

\* The driver reports the finger when it enters PRESTART.
NbCheckFingerprint(present) ==
    IF present THEN NbEnter(drv, "READ_PRINT_PRESTART", Call("report_finger_status", "on"))
    ELSE NbEnter(drv, "WAIT_PRINT", <<>>)

NbReadCapture ==
    LET read == [drv EXCEPT !.partial_received = @ + 1]
    IN  IF drv.deactivating THEN NbLoopComplete(drv, "none")
        ELSE IF read.partial_received = NbPartials THEN NbSubmitPrint(read)
        ELSE Runs(read, <<>>)

NbIgnoreData(next) ==
    IF ~drv.reply /\ ~drv.deactivating THEN Runs([drv EXCEPT !.reply = TRUE], <<>>)
    ELSE NbEnter([drv EXCEPT !.partial_received = 0], next, <<>>)

NbTransferred ==
    CASE drv.ssm = "REQUEST_PRINT" -> NbEnter(drv, "CHECK_PRINT", <<>>)
      [] drv.ssm = "CHECK_PRINT" -> \E present \in BOOLEAN : NbCheckFingerprint(present)
      [] drv.ssm = "READ_PRINT_PRESTART" -> NbIgnoreData("READ_PRINT_START")
      [] drv.ssm = "READ_PRINT_START" -> NbIgnoreData("READ_PRINT_POLL")
      [] drv.ssm = "READ_PRINT_POLL" -> NbReadCapture

NbTransfer ==
    /\ drv.ssm \notin {"none", "WAIT_PRINT"}
    /\ \E error \in ActionOutcomes :
           IF error # "none" THEN NbLoopComplete(drv, error) ELSE NbTransferred

NbMainLoop == MainLoopRuns("nb1010") /\ (NbTimeout \/ NbTransfer)

NbDeactivate ==
    /\ Vfunc("deactivate")
    /\ Returns([drv EXCEPT !.deactivating = TRUE],
               IF drv.ssm = "none" THEN None("deactivate_complete") ELSE <<>>)

NbActivate ==
    /\ Vfunc("activate")
    /\ Returns([drv EXCEPT !.deactivating = FALSE], None("activate_complete"))

\* A second machine would replace the one that runs.
NbChangeState ==
    /\ Vfunc("change_state")
    /\ Returns(IF Head(calls).arg # "AWAIT_FINGER_ON" THEN drv
               ELSE [drv EXCEPT !.ssm = IF @ = "none" THEN "WAIT_PRINT" ELSE "replaced"], <<>>)

NbVfuncs == driver = "nb1010" /\ (NbActivate \/ NbChangeState \/ NbDeactivate)

\* Nothing of the driver is left when it is not active.
NbQuiet == drv.ssm = "none"
=============================================================================
