------------------------------ MODULE FpResults ------------------------------
(***************************************************************************)
(* What an operation tells its user: the match callback of a verify or     *)
(* identify operation, called early, and the result that the finish call   *)
(* returns later (fpi_device_*_report, fpi_device_*_complete, the idle     *)
(* return and fp_device_*_finish).  A driver without a verify vfunc        *)
(* verifies by identifying against a gallery of one.                       *)
(*                                                                         *)
(* Drivers are not trusted: they may report nothing, too much, twice, or   *)
(* what contradicts itself, all of which the library has to make good.     *)
(*                                                                         *)
(* An operator named Bad... is a wrong form of the one after it, which the *)
(* mutation runs put in its place; the specification does not use it.      *)
(***************************************************************************)
EXTENDS Naturals, Sequences

CONSTANTS
    Prints,        \* prints the user enrolled, and scans, which are equal to them or not
    NoPrint

ASSUME NoPrintAssumption == NoPrint \notin Prints

VARIABLES
    cls,        \* the driver: it has a verify vfunc, its scans are of type NBIS
    asked,      \* what the user called: "none", "VERIFY", "IDENTIFY" or "ENROLL"
    data,       \* FpMatchData of the current task
    shown,      \* the calls of the user's callback
    working,    \* the driver has not completed the action
    completed,  \* what it completed with, in the idle source
    returned,   \* the result the task was returned with
    external,   \* the user's cancellable is cancelled
    reason,     \* current_cancellation_reason is set
    is_removed,
    outcome     \* what the finish call gave the user

vars == <<cls, asked, data, shown, working, completed, returned, external, reason,
          is_removed, outcome>>

Scans       == Prints \union {NoPrint}
NoData      == [gallery |-> {}, result_reported |-> FALSE, match |-> NoPrint,
                print |-> NoPrint, error |-> "none"]
Value(v)    == [error |-> "none", value |-> v]
Error(e)    == [error |-> e, value |-> NoPrint]
Nothing     == Error("nothing")

\* The kinds of errors: what the driver gives ("retry", "fatal"), the library
\* ("general", "removed", "reason") and GTask ("cancelled").
DriverErrors == {"retry", "fatal"}

Init ==
    /\ cls \in [verify : BOOLEAN, nbis : BOOLEAN]
    /\ asked = "none"
    /\ data = NoData
    /\ shown = <<>>
    /\ working = FALSE
    /\ completed = Nothing
    /\ returned = Nothing
    /\ external = FALSE
    /\ reason = FALSE
    /\ is_removed = FALSE
    /\ outcome = [of |-> "none"]

\* The action the driver works on.
Action == IF asked = "VERIFY" /\ ~cls.verify THEN "IDENTIFY" ELSE asked

-----------------------------------------------------------------------------
(* Reports *)

\* fp_print_equal of a scan and a print of the user (FpPrint has what it compares).
Equal(print, match) == print = match

\* The user's callback gets what data holds; a driver's fatal error waits.
Show(d) ==
    IF d.error \in {"none", "retry"}
    THEN Append(shown, [match |-> d.match, print |-> d.print, error |-> d.error])
    ELSE shown

\* fpi_device_verify_report: an error without a code is a retry, and comes alone.
VerifyReported(d, result, print, error) ==
    IF error # "none" \/ result = "error"
    THEN [d EXCEPT !.result_reported = TRUE,
                   !.error = IF error = "none" THEN "retry" ELSE error]
    ELSE LET match == IF result = "success" THEN CHOOSE p \in d.gallery : TRUE ELSE NoPrint
         IN  [d EXCEPT !.result_reported = TRUE,
                       !.match = match,
                       !.print = IF match = NoPrint \/ cls.nbis \/ Equal(print, match)
                                 THEN print ELSE NoPrint]

\* fpi_device_identify_report: a match has to come from the gallery.
Known(d, match) == IF match \in d.gallery THEN match ELSE NoPrint

IdentifyReported(d, match, print, error) ==
    IF error # "none"
    THEN [d EXCEPT !.result_reported = TRUE, !.error = error]
    ELSE [d EXCEPT !.result_reported = TRUE,
                   !.match = Known(d, match),
                   !.print = IF \/ Known(d, match) = NoPrint \/ cls.nbis
                                \/ \E p \in d.gallery : Equal(print, p)
                             THEN print ELSE NoPrint]

\* Only the first report counts.
BadMayReport(d) == TRUE
MayReport(d) == ~d.result_reported

\* The action lasts until its idle source returns it: reports may come after the
\* completion.
Current == asked # "none" /\ returned = Nothing

Report(reported) ==
    /\ Current
    /\ IF MayReport(data)
       THEN data' = reported /\ shown' = Show(reported)
       ELSE UNCHANGED <<data, shown>>
    /\ UNCHANGED <<cls, asked, working, completed, returned, external, reason, is_removed, outcome>>

VerifyReport(result, print, error) ==
    /\ Action = "VERIFY"
    /\ Report(VerifyReported(data, result, print, error))

IdentifyReport(match, print, error) ==
    /\ Action = "IDENTIFY"
    /\ Report(IdentifyReported(data, match, print, error))

\* fpi_device_enroll_progress: only retry errors, without a print.
EnrollProgress(print, error) ==
    /\ Action = "ENROLL" /\ Current
    /\ Len(shown) < 1        \* bound: the reports of the stages are alike
    /\ error \in {"none", "retry"}
    /\ shown' = Append(shown, [match |-> NoPrint,
                               print |-> IF error = "none" THEN print ELSE NoPrint,
                               error |-> error])
    /\ UNCHANGED <<cls, asked, data, working, completed, returned, external, reason,
                   is_removed, outcome>>

-----------------------------------------------------------------------------
(* Completion *)

\* Retry errors are reported, not completed with.
CompletedError(error) == IF error = "retry" THEN "general" ELSE error

\* fpi_device_verify_complete and fpi_device_identify_complete.
BadMatchCompleted(d, error) ==
    IF error # "none" THEN Error(CompletedError(error)) ELSE Value(d.match)
MatchCompleted(d, error) ==
    IF error # "none" THEN Error(CompletedError(error))
    ELSE IF ~d.result_reported THEN Error("general")
    ELSE IF d.error # "none" THEN Error(d.error)
    ELSE Value(d.match)

\* fpi_device_enroll_complete: a print without its type is none.
EnrollCompleted(print, error) ==
    IF error # "none" THEN Error(error)
    ELSE IF print = NoPrint THEN Error("general") ELSE Value(print)

Complete(result) ==
    /\ working
    /\ working' = FALSE
    /\ completed' = result
    /\ UNCHANGED <<cls, asked, shown, returned, external, reason, is_removed, outcome>>

\* Without an error of its own the completion takes the one that was reported.
MatchComplete(error) ==
    /\ Action \in {"VERIFY", "IDENTIFY"}
    /\ Complete(MatchCompleted(data, error))
    /\ data' = [data EXCEPT !.error = IF error = "none" THEN "none" ELSE @]

EnrollComplete(print, error) ==
    /\ Action = "ENROLL"
    /\ Complete(EnrollCompleted(print, error))
    /\ UNCHANGED data

-----------------------------------------------------------------------------
(* The return and the finish call *)

\* A removal wins over everything, a reason for cancelling over the driver's error.
ReturnedWith(result) ==
    IF is_removed THEN Error("removed")
    ELSE IF result.error # "none" /\ reason THEN Error("reason")
    ELSE result

\* fp_device_task_return_in_idle_cb; replacing the error drops the task's data.
ReturnInIdle ==
    /\ Current /\ ~working
    /\ returned' = ReturnedWith(completed)
    /\ data' = IF ReturnedWith(completed) = Error("reason") THEN NoData ELSE data
    /\ reason' = FALSE
    /\ completed' = Nothing
    /\ UNCHANGED <<cls, asked, shown, working, external, is_removed, outcome>>

\* g_task_propagate_*: a cancelled task always gives the cancellation.
Propagate(result) == IF external THEN Error("cancelled") ELSE result

\* fp_device_identify_finish (wrongly, of a task that does not check its cancellable).
BadIdentifyFinish(d, result) ==
    [of |-> "IDENTIFY", error |-> result.error, match |-> d.match, print |-> d.print]
IdentifyFinish(d, result) ==
    [of |-> "IDENTIFY", error |-> Propagate(result).error,
     match |-> d.match, print |-> d.print]

\* fp_device_verify_finish; the match is a boolean.
VerifyFinish(result, print) ==
    [of |-> "VERIFY", error |-> Propagate(result).error,
     match |-> Propagate(result).error = "none" /\ result.value # NoPrint, print |-> print]

\* on_verify_identification: the verify task is returned from the identify result.
BadEmulatedFinish(d, result) ==
    LET identified == IdentifyFinish(d, result)
    IN  VerifyFinish(Value(identified.match), identified.print)
EmulatedFinish(d, result) ==
    LET identified == IdentifyFinish(d, result)
    IN  IF identified.error # "none" THEN VerifyFinish(Error(identified.error), NoPrint)
        ELSE VerifyFinish(Value(identified.match), identified.print)

EnrollFinish(result) ==
    [of |-> "ENROLL", error |-> Propagate(result).error, match |-> NoPrint,
     print |-> IF Propagate(result).error = "none" THEN result.value ELSE NoPrint]

Finished(result) ==
    CASE asked = "ENROLL"   -> EnrollFinish(result)
      [] asked = "IDENTIFY" -> IdentifyFinish(data, result)
      [] asked = "VERIFY"   -> IF cls.verify THEN VerifyFinish(result, data.print)
                               ELSE EmulatedFinish(data, result)

\* The user's callback calls the finish function.
Finish ==
    /\ returned # Nothing
    /\ outcome' = Finished(returned)
    /\ asked' = "none"
    /\ returned' = Nothing
    /\ UNCHANGED <<cls, data, shown, working, completed, external, reason, is_removed>>

-----------------------------------------------------------------------------
(* The API user and the device *)

Start(op, gallery) ==
    /\ asked = "none"
    /\ asked' = op
    /\ data' = [NoData EXCEPT !.gallery = gallery]
    /\ shown' = <<>>
    /\ working' = TRUE
    /\ external' = FALSE
    /\ outcome' = [of |-> "none"]
    /\ UNCHANGED <<cls, completed, returned, reason, is_removed>>

Verify(print)     == Start("VERIFY", {print})
Identify(gallery) == Start("IDENTIFY", gallery)
Enroll            == Start("ENROLL", {})

\* The user cancels, at the latest before the finish call.
ExternalCancel ==
    /\ asked # "none" /\ ~external
    /\ external' = TRUE
    /\ UNCHANGED <<cls, asked, data, shown, working, completed, returned, reason, is_removed, outcome>>

\* Suspend or overheating cancel the action before it is returned.
CancelForReason ==
    /\ Current /\ ~reason
    /\ reason' = TRUE
    /\ UNCHANGED <<cls, asked, data, shown, working, completed, returned, external, is_removed, outcome>>

Remove ==
    /\ ~is_removed
    /\ is_removed' = TRUE
    /\ UNCHANGED <<cls, asked, data, shown, working, completed, returned, external, reason, outcome>>

Errors == DriverErrors \union {"none"}

Next ==
    \/ \E print \in Prints : Verify(print)
    \/ \E gallery \in SUBSET Prints : Identify(gallery)
    \/ Enroll
    \/ ExternalCancel \/ CancelForReason \/ Remove
    \/ \E result \in {"success", "fail", "error"}, print \in Scans, error \in Errors :
           VerifyReport(result, print, error)
    \/ \E match \in Scans, print \in Scans, error \in Errors :
           IdentifyReport(match, print, error)
    \/ \E print \in Scans, error \in Errors : EnrollProgress(print, error)
    \/ \E error \in Errors : MatchComplete(error)
    \/ \E print \in Scans, error \in Errors : EnrollComplete(print, error)
    \/ ReturnInIdle
    \/ Finish

Spec == Init /\ [][Next]_vars

-----------------------------------------------------------------------------
(* Properties *)

Matching == asked \in {"VERIFY", "IDENTIFY"} \/ outcome.of \in {"VERIFY", "IDENTIFY"}

\* The callback is called at most once, with a retry error alone or with a match
\* that is one of the prints passed to the operation (FpMatchCb: "In this case
\* error will always be NULL", "its domain is guaranteed to be FP_DEVICE_RETRY").
CallbackKeepsContract ==
    /\ Matching => Len(shown) <= 1
    /\ \A i \in 1..Len(shown) :
          /\ shown[i].error \in {"none", "retry"}
          /\ shown[i].error # "none" => shown[i].match = NoPrint /\ shown[i].print = NoPrint
          /\ shown[i].match # NoPrint => shown[i].match \in data.gallery \/ data = NoData

\* The result says what the callback said before.  A success has the same match, the
\* same print and no error (fpi_device_*_complete without a report is an error); a
\* retry is only asked for if the callback asked for it, whatever a driver completes
\* with ("This is not permissible", fpi_device_verify_complete).
ResultWasShown ==
    outcome.of \in {"VERIFY", "IDENTIFY"} =>
        /\ outcome.error = "none" =>
              /\ Len(shown) = 1 /\ shown[1].error = "none"
              /\ outcome.print = shown[1].print
              /\ outcome.match = IF outcome.of = "IDENTIFY" THEN shown[1].match
                                 ELSE shown[1].match # NoPrint
        /\ outcome.error = "retry" =>
              Len(shown) = 1 /\ shown[1].error = "retry"

\* The user is told the same, and what the contract says, by the callback and the
\* result.
ReportsAndResultsAgree == CallbackKeepsContract /\ ResultWasShown

\* A cancelled operation never succeeds, and "an external cancellation always
\* returns G_IO_ERROR_CANCELLED" (fp_device_task_return_in_idle_cb).
CancellationIsReturned ==
    outcome.of # "none" /\ external => outcome.error = "cancelled"

\* Callback and result keep what the functions of the user's side promise.
ResultsKeepContract == ReportsAndResultsAgree /\ CancellationIsReturned

\* A driver that scans a print gives the user of verify the same answers, whether it
\* verifies or identifies (fp_device_verify, on_verify_identification); only the
\* scanned print is missing from an error.
EmulationAgrees ==
    \A enrolled \in Prints, scan, print \in Scans, error \in Errors, last \in Errors :
        LET fresh      == [NoData EXCEPT !.gallery = {enrolled}]
            verified   == VerifyReported(fresh, IF scan = enrolled THEN "success" ELSE "fail",
                                         print, error)
            identified == IdentifyReported(fresh, IF scan = enrolled THEN enrolled ELSE NoPrint,
                                           print, error)
            native     == VerifyFinish(MatchCompleted(verified, last), verified.print)
            emulated   == EmulatedFinish(identified, MatchCompleted(identified, last))
        IN  /\ verified = identified
            /\ emulated = IF native.error = "none" THEN native
                          ELSE [native EXCEPT !.print = NoPrint]
=============================================================================
