--------------------------- MODULE FpResults_proofs ---------------------------
(***************************************************************************)
(* Proofs about FpResults for every set of prints and every driver: what   *)
(* the match callback and the finish calls tell the user, and that a       *)
(* verification by identification answers like a native one.               *)
(***************************************************************************)
EXTENDS FpResults, TLAPS

Kinds   == {"none", "retry", "fatal", "general", "removed", "reason"}
Results == [error : Kinds, value : Scans]
Data    == [gallery : SUBSET Prints, result_reported : BOOLEAN, match : Scans,
            print : Scans, error : Errors]
Calls   == [match : Scans, print : Scans, error : {"none", "retry"}]

TypeOK ==
    /\ cls \in [verify : BOOLEAN, nbis : BOOLEAN]
    /\ asked \in {"none", "VERIFY", "IDENTIFY", "ENROLL"}
    /\ data \in Data
    /\ shown \in Seq(Calls)
    /\ working \in BOOLEAN
    /\ completed \in Results \union {Nothing}
    /\ returned \in Results \union {Nothing}
    /\ external \in BOOLEAN /\ reason \in BOOLEAN /\ is_removed \in BOOLEAN

\* A task is worked on, completed or returned, one after the other, and only when its
\* user has called the finish function there is an outcome.
PhaseInv ==
    /\ asked = "none" => ~working /\ completed = Nothing /\ returned = Nothing
    /\ working \/ returned # Nothing => completed = Nothing
    /\ working => returned = Nothing
    /\ asked # "none" /\ ~working /\ returned = Nothing => completed # Nothing
    /\ asked # "none" => outcome = [of |-> "none"]

\* What is told is the match the data hold, or a retry.
Told(error) == <<[match |-> data.match, print |-> data.print, error |-> error]>>

\* A result that is a success or asks for a retry was told before.
Agrees(result) ==
    /\ result.error = "none" =>
           data.result_reported /\ shown = Told("none") /\ result.value = data.match
    /\ result.error = "retry" =>
           data.result_reported /\ Len(shown) = 1 /\ shown[1].error = "retry"

MatchOps == {"VERIFY", "IDENTIFY"}

DataInv ==
    asked \in MatchOps =>
        /\ returned = Nothing /\ ~data.result_reported =>
               shown = <<>> /\ data = [NoData EXCEPT !.gallery = data.gallery]
        /\ working /\ data.result_reported =>
               shown = IF data.error = "fatal" THEN <<>> ELSE Told(data.error)
        /\ Agrees(completed) /\ Agrees(returned)
        /\ returned = Nothing /\ asked = "VERIFY" => data.gallery # {}

ResultsInv == TypeOK /\ PhaseInv /\ DataInv /\ ResultsKeepContract

-----------------------------------------------------------------------------

\* Nothing stands for no result.
LEMMA NothingIsNoResult == Nothing \notin Results /\ Nothing.error = "nothing"
BY DEF Nothing, Results, Error, Kinds

\* What a report makes of the data of a task that has none yet.
Reports(r) ==
    /\ r \in Data /\ r.result_reported = TRUE /\ r.gallery = data.gallery
    /\ r.error # "none" => r.match = NoPrint /\ r.print = NoPrint
    /\ r.match # NoPrint => r.match \in data.gallery

\* fpi_device_verify_report takes the match from the gallery of one.
LEMMA VerifyReports ==
    ASSUME TypeOK, data = [NoData EXCEPT !.gallery = data.gallery], data.gallery # {},
           NEW result \in {"success", "fail", "error"}, NEW print \in Scans,
           NEW error \in Errors
    PROVE  Reports(VerifyReported(data, result, print, error))
<1>1. /\ data \in Data /\ data.match = NoPrint /\ data.print = NoPrint
      /\ data.error = "none" /\ data.gallery \subseteq Prints
    BY DEF TypeOK, NoData, Data
<1>2. PICK p : p = (CHOOSE q \in data.gallery : TRUE)
    OBVIOUS
<1>3. p \in data.gallery
    BY <1>2
<1>4. CASE error # "none" \/ result = "error"
    BY <1>1, <1>4 DEF VerifyReported, Reports, Data, Errors, DriverErrors
<1>5. CASE ~(error # "none" \/ result = "error")
    <2>1. VerifyReported(data, result, print, error) =
              [data EXCEPT !.result_reported = TRUE,
                           !.match = IF result = "success" THEN p ELSE NoPrint,
                           !.print = IF \/ (IF result = "success" THEN p ELSE NoPrint) = NoPrint
                                        \/ cls.nbis
                                        \/ Equal(print, IF result = "success" THEN p ELSE NoPrint)
                                     THEN print ELSE NoPrint]
        BY <1>2, <1>5 DEF VerifyReported
    <2> QED
        BY <1>1, <1>3, <2>1 DEF Reports, Data, Scans
<1> QED
    BY <1>4, <1>5

\* fpi_device_identify_report takes no match from outside of the gallery.
LEMMA IdentifyReports ==
    ASSUME TypeOK, data = [NoData EXCEPT !.gallery = data.gallery],
           NEW match \in Scans, NEW print \in Scans, NEW error \in Errors
    PROVE  Reports(IdentifyReported(data, match, print, error))
<1>1. /\ data \in Data /\ data.match = NoPrint /\ data.print = NoPrint
      /\ data.error = "none" /\ data.gallery \subseteq Prints
    BY DEF TypeOK, NoData, Data
<1>2. CASE error # "none"
    BY <1>1, <1>2 DEF IdentifyReported, Reports, Data
<1>3. CASE error = "none"
    BY <1>1, <1>3 DEF IdentifyReported, Known, Reports, Data, Scans
<1> QED
    BY <1>2, <1>3

\* Without an outcome, or with the same one and the same calls, the contract is about
\* the calls.
LEMMA ContractOfCalls ==
    ASSUME asked' \in MatchOps => Len(shown') <= 1, outcome' = [of |-> "none"],
           \A i \in 1..Len(shown') :
              /\ shown'[i].error \in {"none", "retry"}
              /\ shown'[i].error # "none" => shown'[i].match = NoPrint /\ shown'[i].print = NoPrint
              /\ shown'[i].match # NoPrint => shown'[i].match \in data'.gallery \/ data' = NoData
    PROVE  ResultsKeepContract'
BY DEF ResultsKeepContract, ReportsAndResultsAgree, CallbackKeepsContract, ResultWasShown,
       CancellationIsReturned, Matching, MatchOps

\* The first report is shown, or waits when it is a fatal error; the others are
\* ignored.
LEMMA ReportKeeps ==
    ASSUME ResultsInv, asked \in MatchOps, NEW r, Report(r),
           ~data.result_reported => Reports(r)
    PROVE  ResultsInv'
<1>1. /\ TypeOK /\ PhaseInv /\ DataInv /\ CallbackKeepsContract
      /\ returned = Nothing /\ asked # "none" /\ outcome = [of |-> "none"]
    BY DEF ResultsInv, ResultsKeepContract, ReportsAndResultsAgree, Report, Current,
           PhaseInv
<1>2. UNCHANGED <<cls, asked, working, completed, returned, external, reason, is_removed, outcome>>
    BY DEF Report
<1>3. CASE data.result_reported
    <2>1. UNCHANGED <<data, shown>>
        BY <1>3 DEF Report, MayReport
    <2> QED
        BY <1>2, <2>1
        DEF ResultsInv, TypeOK, PhaseInv, DataInv, Agrees, Told, ResultsKeepContract,
            ReportsAndResultsAgree, CallbackKeepsContract, ResultWasShown,
            CancellationIsReturned, Matching
<1>4. CASE ~data.result_reported
    <2>1. /\ Reports(r) /\ data' = r /\ shown = <<>>
          /\ shown' = IF r.error \in {"none", "retry"}
                      THEN Append(shown, [match |-> r.match, print |-> r.print, error |-> r.error])
                      ELSE shown
        BY <1>1, <1>4 DEF Report, MayReport, Show, DataInv
    <2>2. r \in Data /\ r.error \in Errors
        BY <2>1 DEF Reports, Data
    <2>3. [match |-> r.match, print |-> r.print, error |-> r.error] \in Calls \/ r.error = "fatal"
        BY <2>2 DEF Data, Calls, Errors, DriverErrors
    <2>4. /\ shown' = IF r.error = "fatal" THEN <<>>
                      ELSE <<[match |-> r.match, print |-> r.print, error |-> r.error]>>
          /\ r.error # "fatal" => r.error \in {"none", "retry"}
        BY <2>1, <2>2 DEF Errors, DriverErrors
    <2>5. TypeOK'
        BY <1>1, <1>2, <2>1, <2>2, <2>3, <2>4 DEF TypeOK
    <2>6. PhaseInv'
        BY <1>1, <1>2 DEF PhaseInv
    <2>7. /\ completed.error \notin {"none", "retry"} /\ returned.error \notin {"none", "retry"}
        BY <1>1, <1>4 DEF DataInv, Agrees
    <2>8. DataInv'
        BY <1>1, <1>2, <2>1, <2>4, <2>7 DEF DataInv, Agrees, Told, Reports
    <2>9. /\ Len(shown') <= 1
          /\ \A i \in 1..Len(shown') :
                 shown'[i] = [match |-> r.match, print |-> r.print, error |-> r.error]
                     /\ r.error # "fatal"
        BY <2>4
    <2>10. ResultsKeepContract'
        BY <1>1, <1>2, <2>1, <2>4, <2>9, ContractOfCalls DEF Reports
    <2> QED
        BY <2>5, <2>6, <2>8, <2>10 DEF ResultsInv
<1> QED
    BY <1>3, <1>4

\* A report of a driver that verifies.
LEMMA VerifyReportKeeps ==
    ASSUME ResultsInv, NEW result \in {"success", "fail", "error"}, NEW print \in Scans,
           NEW error \in Errors, VerifyReport(result, print, error)
    PROVE  ResultsInv'
<1>1. asked = "VERIFY" /\ asked \in MatchOps /\ returned = Nothing
    BY DEF VerifyReport, Action, Report, Current, MatchOps
<1>2. TypeOK /\ DataInv
    BY DEF ResultsInv
<1>3. ~data.result_reported => Reports(VerifyReported(data, result, print, error))
    BY <1>1, <1>2, VerifyReports DEF DataInv
<1> QED
    BY <1>1, <1>3, ReportKeeps DEF VerifyReport

\* A report of a driver that identifies, also for a verification.
LEMMA IdentifyReportKeeps ==
    ASSUME ResultsInv, NEW match \in Scans, NEW print \in Scans,
           NEW error \in Errors, IdentifyReport(match, print, error)
    PROVE  ResultsInv'
<1>1. asked \in MatchOps /\ returned = Nothing
    BY DEF IdentifyReport, Action, Report, Current, MatchOps
<1>2. TypeOK /\ DataInv
    BY DEF ResultsInv
<1>3. ~data.result_reported => Reports(IdentifyReported(data, match, print, error))
    BY <1>1, <1>2, IdentifyReports DEF DataInv
<1> QED
    BY <1>1, <1>3, ReportKeeps DEF IdentifyReport

\* The progress of an enrollment is told in its own terms.
LEMMA EnrollProgressKeeps ==
    ASSUME ResultsInv, NEW print \in Scans, NEW error \in Errors, EnrollProgress(print, error)
    PROVE  ResultsInv'
<1>1. /\ TypeOK /\ PhaseInv /\ CallbackKeepsContract /\ asked = "ENROLL"
      /\ outcome = [of |-> "none"]
    BY DEF ResultsInv, ResultsKeepContract, ReportsAndResultsAgree, EnrollProgress,
           Action, PhaseInv
<1>2. UNCHANGED <<cls, asked, data, working, completed, returned, external, reason,
                  is_removed, outcome>>
    BY DEF EnrollProgress
<1>3. PICK c \in Calls : /\ shown' = Append(shown, c) /\ c.match = NoPrint
                         /\ c.error \in {"none", "retry"}
                         /\ c.error # "none" => c.print = NoPrint
    <2> DEFINE c == [match |-> NoPrint, print |-> IF error = "none" THEN print ELSE NoPrint,
                     error |-> error]
    <2>1. /\ error \in {"none", "retry"} /\ shown' = Append(shown, c)
        BY DEF EnrollProgress
    <2>2. /\ c.match = NoPrint /\ c.error = error
          /\ c.print = IF error = "none" THEN print ELSE NoPrint
        OBVIOUS
    <2>3. c \in Calls
        BY <2>1 DEF Calls, Scans
    <2> HIDE DEF c
    <2> QED
        BY <2>1, <2>2, <2>3
<1>4. shown' \in Seq(Calls) /\ shown = <<>> /\ shown' = <<c>>
    <2>1. shown \in Seq(Calls) /\ Len(shown) < 1
        BY <1>1 DEF TypeOK, EnrollProgress
    <2>2. shown = <<>>
        BY <2>1
    <2> QED
        BY <1>3, <2>1, <2>2
<1>5. TypeOK' /\ PhaseInv' /\ DataInv'
    BY <1>1, <1>2, <1>4 DEF TypeOK, PhaseInv, DataInv, MatchOps
<1>6. ResultsKeepContract'
    BY <1>1, <1>2, <1>3, <1>4, ContractOfCalls DEF MatchOps
<1> QED
    BY <1>5, <1>6 DEF ResultsInv

\* The completion of an action, from the data it is completed with.
LEMMA CompleteKeeps ==
    ASSUME ResultsInv, asked # "none", NEW r \in Results, Complete(r),
           NEW e \in {"none", data.error}, data' = [data EXCEPT !.error = e],
           asked \in MatchOps => Agrees(r)
    PROVE  ResultsInv'
<1>1. /\ TypeOK /\ PhaseInv /\ DataInv /\ CallbackKeepsContract
      /\ returned = Nothing /\ outcome = [of |-> "none"] /\ working
    BY DEF ResultsInv, ResultsKeepContract, ReportsAndResultsAgree, Complete, PhaseInv
<1>2. /\ completed' = r /\ working' = FALSE
      /\ UNCHANGED <<cls, asked, shown, returned, external, reason, is_removed, outcome>>
    BY DEF Complete
<1>3. /\ data' \in Data /\ data'.gallery = data.gallery /\ data'.match = data.match
      /\ data'.print = data.print /\ data'.result_reported = data.result_reported
      /\ data' = data \/ data.error # "none"
    BY <1>1 DEF TypeOK, Data, Errors
<1>4. TypeOK' /\ PhaseInv'
    BY <1>1, <1>2, <1>3, NothingIsNoResult DEF TypeOK, PhaseInv
<1>5. returned'.error \notin {"none", "retry"}
    BY <1>1, <1>2, NothingIsNoResult
<1>6. asked \in MatchOps /\ ~data.result_reported => data' = data
    <2>1. asked \in MatchOps /\ ~data.result_reported => data.error = "none"
        BY <1>1 DEF DataInv, NoData
    <2> QED
        BY <1>1, <2>1 DEF TypeOK, Data
<1>7. DataInv'
    BY <1>1, <1>2, <1>3, <1>5, <1>6 DEF DataInv, Agrees, Told
<1>8. asked \in MatchOps => Len(shown) <= 1
    BY <1>1 DEF CallbackKeepsContract, Matching, MatchOps
<1>9. \A i \in 1..Len(shown) :
              /\ shown[i].error \in {"none", "retry"}
              /\ shown[i].error # "none" => shown[i].match = NoPrint /\ shown[i].print = NoPrint
              /\ shown[i].match # NoPrint => shown[i].match \in data'.gallery \/ data' = NoData
    <2>1. data = NoData => data' = NoData
        BY <1>3 DEF NoData
    <2> QED
        BY <1>1, <1>3, <2>1 DEF CallbackKeepsContract
<1>10. ResultsKeepContract'
    BY <1>1, <1>2, <1>8, <1>9, ContractOfCalls
<1> QED
    BY <1>4, <1>7, <1>10 DEF ResultsInv

\* What a match operation completes with was told before, or is an error no report
\* gave.
LEMMA MatchCompletedAgrees ==
    ASSUME ResultsInv, asked \in MatchOps, working, NEW error \in Errors
    PROVE  MatchCompleted(data, error) \in Results /\ Agrees(MatchCompleted(data, error))
<1>1. data \in Data /\ DataInv
    BY DEF ResultsInv, TypeOK
<1>2. CASE error # "none"
    BY <1>2 DEF MatchCompleted, CompletedError, Error, Results, Kinds, Scans, Errors,
        DriverErrors, Agrees
<1>3. CASE error = "none" /\ ~data.result_reported
    BY <1>3 DEF MatchCompleted, Error, Results, Kinds, Scans, Agrees
<1>4. CASE error = "none" /\ data.result_reported /\ data.error # "none"
    <2>1. MatchCompleted(data, error) = Error(data.error) /\ data.error \in {"retry", "fatal"}
        BY <1>1, <1>4 DEF MatchCompleted, Data, Errors, DriverErrors
    <2>2. data.error = "retry" => shown = Told("retry")
        BY <1>1, <1>4 DEF DataInv
    <2> QED
        BY <1>4, <2>1, <2>2 DEF Error, Results, Kinds, Scans, Agrees, Told
<1>5. CASE error = "none" /\ data.result_reported /\ data.error = "none"
    <2>1. shown = Told("none") /\ MatchCompleted(data, error) = Value(data.match)
        BY <1>1, <1>5 DEF DataInv, MatchCompleted
    <2> QED
        BY <1>1, <1>5, <2>1 DEF Value, Results, Kinds, Data, Agrees
<1> QED
    BY <1>2, <1>3, <1>4, <1>5

\* fpi_device_verify_complete and fpi_device_identify_complete.
LEMMA MatchCompleteKeeps ==
    ASSUME ResultsInv, NEW error \in Errors, MatchComplete(error)
    PROVE  ResultsInv'
<1>1. asked \in MatchOps /\ asked # "none" /\ working
    BY DEF MatchComplete, Action, MatchOps, Complete
<1>2. \E e \in {"none", data.error} : data' = [data EXCEPT !.error = e]
    BY DEF MatchComplete
<1> QED
    BY <1>1, <1>2, MatchCompletedAgrees, CompleteKeeps DEF MatchComplete

\* fpi_device_enroll_complete.
LEMMA EnrollCompleteKeeps ==
    ASSUME ResultsInv, NEW print \in Scans, NEW error \in Errors, EnrollComplete(print, error)
    PROVE  ResultsInv'
<1>1. asked = "ENROLL" /\ Complete(EnrollCompleted(print, error)) /\ data' = data
    BY DEF EnrollComplete, Action
<1>2. EnrollCompleted(print, error) \in Results
    BY DEF EnrollCompleted, Error, Value, Results, Kinds, Scans, Errors, DriverErrors
<1>3. data' = [data EXCEPT !.error = data.error]
    BY <1>1 DEF ResultsInv, TypeOK, Data
<1> QED
    BY <1>1, <1>2, <1>3, CompleteKeeps DEF MatchOps

\* The idle return gives the completion, or the removal or reason that replaces it.
LEMMA ReturnInIdleKeeps ==
    ASSUME ResultsInv, ReturnInIdle
    PROVE  ResultsInv'
<1>1. /\ TypeOK /\ PhaseInv /\ DataInv /\ CallbackKeepsContract
      /\ returned = Nothing /\ outcome = [of |-> "none"] /\ asked # "none"
      /\ completed \in Results
    BY DEF ResultsInv, ResultsKeepContract, ReportsAndResultsAgree, ReturnInIdle, Current,
        PhaseInv, TypeOK
<1>2. PICK r : r = ReturnedWith(completed)
    OBVIOUS
<1>3. r \in Results /\ (r = completed \/ r.error \in {"removed", "reason"})
    BY <1>1, <1>2 DEF ReturnedWith, Error, Results, Kinds, Scans
<1>4. /\ returned' = r /\ completed' = Nothing /\ reason' = FALSE
      /\ data' = data \/ (r.error = "reason" /\ data' = NoData)
      /\ UNCHANGED <<cls, asked, shown, working, external, is_removed, outcome>> /\ ~working
    BY <1>2 DEF ReturnInIdle, Error
<1>5. NoData \in Data
    BY DEF NoData, Data, Scans, Errors
<1>6. TypeOK' /\ PhaseInv'
    BY <1>1, <1>3, <1>4, <1>5, NothingIsNoResult DEF TypeOK, PhaseInv
<1>7. asked \in MatchOps => Agrees(r)' /\ Agrees(Nothing)'
    <2>1. CASE r.error \in {"none", "retry"}
        <3>1. r = completed /\ UNCHANGED <<data, shown>>
            BY <1>3, <1>4, <2>1
        <3> QED
            BY <1>1, <3>1, NothingIsNoResult DEF DataInv, Agrees, Told
    <2>2. CASE r.error \notin {"none", "retry"}
        BY <2>2, NothingIsNoResult DEF Agrees
    <2> QED
        BY <2>1, <2>2
<1>8. DataInv'
    BY <1>3, <1>4, <1>7, NothingIsNoResult DEF DataInv
<1>9. asked \in MatchOps => Len(shown) <= 1
    BY <1>1 DEF CallbackKeepsContract, Matching, MatchOps
<1>10. \A i \in 1..Len(shown) :
              /\ shown[i].error \in {"none", "retry"}
              /\ shown[i].error # "none" => shown[i].match = NoPrint /\ shown[i].print = NoPrint
              /\ shown[i].match # NoPrint => shown[i].match \in data'.gallery \/ data' = NoData
    BY <1>1, <1>4 DEF CallbackKeepsContract
<1>11. ResultsKeepContract'
    BY <1>1, <1>4, <1>9, <1>10, ContractOfCalls
<1> QED
    BY <1>6, <1>8, <1>11 DEF ResultsInv

\* The outcome of a match operation and what was told before.
LEMMA FinishedAgrees ==
    ASSUME ResultsInv, asked \in MatchOps, returned \in Results
    PROVE  LET o == Finished(returned)
           IN  /\ o.of = asked
               /\ o.error = IF external THEN "cancelled" ELSE returned.error
               /\ o.error = "none" =>
                      /\ Len(shown) = 1 /\ shown[1].error = "none"
                      /\ o.print = shown[1].print
                      /\ o.match = IF o.of = "IDENTIFY" THEN shown[1].match
                                   ELSE shown[1].match # NoPrint
               /\ o.error = "retry" => Len(shown) = 1 /\ shown[1].error = "retry"
<1>1. TypeOK /\ Agrees(returned) /\ external \in BOOLEAN
    BY DEF ResultsInv, DataInv, TypeOK
<1>2. returned.error # "cancelled"
    BY DEF Results, Kinds
<1>3. returned.error = "none" =>
          /\ Len(shown) = 1 /\ shown[1].error = "none"
          /\ shown[1].print = data.print /\ shown[1].match = data.match
          /\ returned.value = data.match
    BY <1>1 DEF Agrees, Told
<1>4. returned.error = "retry" => Len(shown) = 1 /\ shown[1].error = "retry"
    BY <1>1 DEF Agrees
<1>5. CASE asked = "IDENTIFY"
    BY <1>1, <1>3, <1>4, <1>5 DEF Finished, IdentifyFinish, Propagate, Error
<1>6. CASE asked = "VERIFY" /\ cls.verify
    BY <1>1, <1>3, <1>4, <1>6 DEF Finished, VerifyFinish, Propagate, Error
<1>7. CASE asked = "VERIFY" /\ ~cls.verify
    BY <1>1, <1>3, <1>4, <1>7
    DEF Finished, EmulatedFinish, IdentifyFinish, VerifyFinish, Propagate, Error, Value
<1> QED
    BY <1>5, <1>6, <1>7 DEF MatchOps

\* The finish call gives what was told.
LEMMA FinishKeeps ==
    ASSUME ResultsInv, Finish
    PROVE  ResultsInv'
<1>1. /\ TypeOK /\ PhaseInv /\ DataInv /\ CallbackKeepsContract
      /\ returned \in Results /\ asked # "none" /\ ~working
      /\ asked \in {"VERIFY", "IDENTIFY", "ENROLL"} /\ completed = Nothing
    BY DEF ResultsInv, ResultsKeepContract, ReportsAndResultsAgree, Finish, PhaseInv,
           TypeOK
<1>2. /\ outcome' = Finished(returned) /\ asked' = "none" /\ returned' = Nothing
      /\ UNCHANGED <<cls, data, shown, working, completed, external, reason, is_removed>>
    BY DEF Finish
<1>3. TypeOK' /\ PhaseInv' /\ DataInv'
    BY <1>1, <1>2 DEF TypeOK, PhaseInv, DataInv, MatchOps
<1>4. outcome'.of = asked /\ (external => outcome'.error = "cancelled")
    <2>1. CASE asked \in MatchOps
        BY <1>1, <1>2, <2>1, FinishedAgrees
    <2>2. CASE asked = "ENROLL"
        BY <1>2, <2>2 DEF Finished, EnrollFinish, Propagate, Error
    <2> QED
        BY <1>1, <2>1, <2>2 DEF MatchOps
<1>5. CallbackKeepsContract'
    <2>1. Matching' <=> Matching
        BY <1>1, <1>2, <1>4 DEF Matching, PhaseInv
    <2> QED
        BY <1>1, <1>2, <2>1 DEF CallbackKeepsContract
<1>6. ResultWasShown'
    <2>1. CASE asked \in MatchOps
        BY <1>1, <1>2, <2>1, FinishedAgrees DEF ResultWasShown
    <2>2. CASE asked \notin MatchOps
        BY <1>4, <2>2 DEF ResultWasShown, MatchOps
    <2> QED
        BY <2>1, <2>2
<1>7. ResultsKeepContract'
    BY <1>2, <1>4, <1>5, <1>6 DEF ResultsKeepContract, ReportsAndResultsAgree,
        CancellationIsReturned
<1> QED
    BY <1>3, <1>7 DEF ResultsInv

\* A new operation has told nothing.
LEMMA StartKeeps ==
    ASSUME ResultsInv, NEW op \in {"VERIFY", "IDENTIFY", "ENROLL"}, NEW gallery \in SUBSET Prints,
           op = "VERIFY" => gallery # {}, Start(op, gallery)
    PROVE  ResultsInv'
<1>1. /\ TypeOK /\ PhaseInv
      /\ completed = Nothing /\ returned = Nothing
    BY DEF ResultsInv, Start, PhaseInv
<1>2. /\ asked' = op /\ data' = [NoData EXCEPT !.gallery = gallery] /\ shown' = <<>>
      /\ working' = TRUE /\ external' = FALSE /\ outcome' = [of |-> "none"]
      /\ UNCHANGED <<cls, completed, returned, reason, is_removed>>
    BY DEF Start
<1>3. data' \in Data /\ data'.gallery = gallery /\ data'.result_reported = FALSE
    BY <1>2 DEF NoData, Data, Scans, Errors
<1>4. TypeOK' /\ PhaseInv'
    <2>1. <<>> \in Seq(Calls)
        OBVIOUS
    <2> QED
        BY <1>1, <1>2, <1>3, <2>1 DEF TypeOK, PhaseInv
<1>5. Nothing.error \notin {"none", "retry"}
    BY NothingIsNoResult
<1>6. DataInv'
    BY <1>1, <1>2, <1>3, <1>5 DEF DataInv, Agrees
<1>7. Len(shown') = 0
    BY <1>2
<1>8. ResultsKeepContract'
    BY <1>2, <1>7, ContractOfCalls
<1> QED
    BY <1>4, <1>6, <1>8 DEF ResultsInv

\* Cancellations and the removal leave what is told.
LEMMA EventKeeps ==
    ASSUME ResultsInv, ExternalCancel \/ CancelForReason \/ Remove
    PROVE  ResultsInv'
<1>1. UNCHANGED <<cls, asked, data, shown, working, completed, returned, outcome>>
    BY DEF ExternalCancel, CancelForReason, Remove
<1>2. external' = external \/ outcome.of = "none"
    <2>1. CASE ExternalCancel
        <3>1. outcome = [of |-> "none"]
            BY <2>1 DEF ExternalCancel, ResultsInv, PhaseInv
        <3> QED
            BY <3>1
    <2>2. CASE ~ExternalCancel
        BY <2>2 DEF CancelForReason, Remove
    <2> QED
        BY <2>1, <2>2
<1>3. TypeOK'
    BY <1>1 DEF ResultsInv, TypeOK, ExternalCancel, CancelForReason, Remove
<1> QED
    BY <1>1, <1>2, <1>3
    DEF ResultsInv, PhaseInv, DataInv, Agrees, Told, ResultsKeepContract,
        ReportsAndResultsAgree, CallbackKeepsContract, ResultWasShown,
        CancellationIsReturned, Matching

\* Nothing was asked.
LEMMA ResultsInitially == Init => ResultsInv
<1> SUFFICES ASSUME Init PROVE ResultsInv
    OBVIOUS
<1>1. <<>> \in Seq(Calls) /\ Len(<<>>) = 0 /\ NoData \in Data
    BY DEF NoData, Data, Scans, Errors
<1>2. TypeOK
    BY <1>1 DEF Init, TypeOK
<1> QED
    BY <1>1, <1>2
    DEF Init, ResultsInv, PhaseInv, DataInv, MatchOps, ResultsKeepContract,
        ReportsAndResultsAgree, CallbackKeepsContract, ResultWasShown,
        CancellationIsReturned, Matching

\* Every step.
LEMMA NextKeepsResultsInv == ASSUME ResultsInv, [Next]_vars PROVE ResultsInv'
<1>1. CASE \/ \E print \in Prints : Verify(print)
           \/ \E gallery \in SUBSET Prints : Identify(gallery)
           \/ Enroll
    <2>1. ASSUME NEW print \in Prints, Verify(print) PROVE ResultsInv'
        BY <2>1, StartKeeps DEF Verify
    <2>2. ASSUME NEW gallery \in SUBSET Prints, Identify(gallery) PROVE ResultsInv'
        BY <2>2, StartKeeps DEF Identify
    <2>3. ASSUME Enroll PROVE ResultsInv'
        BY <2>3, StartKeeps DEF Enroll
    <2> QED
        BY <1>1, <2>1, <2>2, <2>3
<1>2. CASE ExternalCancel \/ CancelForReason \/ Remove
    BY <1>2, EventKeeps
<1>3. CASE \E result \in {"success", "fail", "error"}, print \in Scans, error \in Errors :
               VerifyReport(result, print, error)
    BY <1>3, VerifyReportKeeps
<1>4. CASE \E match \in Scans, print \in Scans, error \in Errors :
               IdentifyReport(match, print, error)
    BY <1>4, IdentifyReportKeeps
<1>5. CASE \E print \in Scans, error \in Errors : EnrollProgress(print, error)
    BY <1>5, EnrollProgressKeeps
<1>6. CASE \E error \in Errors : MatchComplete(error)
    BY <1>6, MatchCompleteKeeps
<1>7. CASE \E print \in Scans, error \in Errors : EnrollComplete(print, error)
    BY <1>7, EnrollCompleteKeeps
<1>8. CASE ReturnInIdle \/ Finish
    BY <1>8, ReturnInIdleKeeps, FinishKeeps
<1>9. CASE UNCHANGED vars
    BY <1>9
    DEF vars, ResultsInv, TypeOK, PhaseInv, DataInv, Agrees, Told, ResultsKeepContract,
        ReportsAndResultsAgree, CallbackKeepsContract, ResultWasShown,
        CancellationIsReturned, Matching
<1> QED
    BY <1>1, <1>2, <1>3, <1>4, <1>5, <1>6, <1>7, <1>8, <1>9 DEF Next

\* The invariant holds in every reachable state.
LEMMA ResultsInvariant == Spec => []ResultsInv
<1>1. ResultsInv /\ [Next]_vars => ResultsInv'
    BY NextKeepsResultsInv
<1> QED
    BY <1>1, ResultsInitially, PTL DEF Spec

-----------------------------------------------------------------------------
(* The emulation of verify by identify *)

\* An error the driver completes with is no success.
LEMMA MatchCompletedSuccess ==
    ASSUME NEW d \in Data, NEW error \in Errors, MatchCompleted(d, error).error = "none"
    PROVE  MatchCompleted(d, error) = Value(d.match)
BY DEF MatchCompleted, CompletedError, Error, Value, Errors, DriverErrors

\* A driver that verifies and one that identifies leave the same data.
LEMMA ReportedAlike ==
    ASSUME NEW enrolled \in Prints, NEW scan \in Scans, NEW print \in Scans,
           NEW error \in Errors, NEW fresh, fresh = [NoData EXCEPT !.gallery = {enrolled}]
    PROVE  /\ VerifyReported(fresh, IF scan = enrolled THEN "success" ELSE "fail", print, error)
              = IdentifyReported(fresh, IF scan = enrolled THEN enrolled ELSE NoPrint, print, error)
           /\ VerifyReported(fresh, IF scan = enrolled THEN "success" ELSE "fail", print, error)
              \in Data
<1>1. /\ (CHOOSE p \in {enrolled} : TRUE) = enrolled /\ enrolled # NoPrint
    BY NoPrintAssumption
<1>2. fresh.gallery = {enrolled} /\ fresh \in Data
    BY DEF NoData, Data, Scans, Errors
<1>3. Known(fresh, NoPrint) = NoPrint /\ Known(fresh, enrolled) = enrolled
    BY <1>2 DEF Known
<1>4. CASE error # "none"
    BY <1>2, <1>4 DEF VerifyReported, IdentifyReported, Data
<1>5. CASE error = "none" /\ scan = enrolled
    BY <1>1, <1>2, <1>3, <1>5 DEF VerifyReported, IdentifyReported, Data, Equal, Scans
<1>6. CASE error = "none" /\ scan # enrolled
    BY <1>1, <1>2, <1>3, <1>6 DEF VerifyReported, IdentifyReported, Data, Equal, Scans
<1> QED
    BY <1>4, <1>5, <1>6

\* From the same data the two finish calls give the same outcome.
LEMMA FinishedAlike ==
    ASSUME TypeOK, NEW d \in Data, NEW last \in Errors
    PROVE  LET native   == VerifyFinish(MatchCompleted(d, last), d.print)
               emulated == EmulatedFinish(d, MatchCompleted(d, last))
           IN  emulated = IF native.error = "none" THEN native
                          ELSE [native EXCEPT !.print = NoPrint]
<1> DEFINE r == MatchCompleted(d, last)
<1>1. r.error = "none" => r = Value(d.match)
    BY MatchCompletedSuccess
<1> HIDE DEF r
<1>2. external \in BOOLEAN
    BY DEF TypeOK
<1>3. EmulatedFinish(d, r) = IF VerifyFinish(r, d.print).error = "none"
                             THEN VerifyFinish(r, d.print)
                             ELSE [VerifyFinish(r, d.print) EXCEPT !.print = NoPrint]
    <2>1. CASE external
        BY <2>1 DEF EmulatedFinish, IdentifyFinish, VerifyFinish, Propagate, Error
    <2>2. CASE ~external /\ r.error = "none"
        BY <1>1, <2>2 DEF EmulatedFinish, IdentifyFinish, VerifyFinish, Propagate, Value
    <2>3. CASE ~external /\ r.error # "none"
        BY <2>3 DEF EmulatedFinish, IdentifyFinish, VerifyFinish, Propagate, Error
    <2> QED
        BY <1>2, <2>1, <2>2, <2>3
<1> QED
    BY <1>3 DEF r

\* The two lemmas together.
LEMMA EmulationIsAlike == ASSUME TypeOK PROVE EmulationAgrees
<1> SUFFICES ASSUME NEW enrolled \in Prints, NEW scan \in Scans, NEW print \in Scans,
                    NEW error \in Errors, NEW last \in Errors
             PROVE  LET fresh      == [NoData EXCEPT !.gallery = {enrolled}]
                        verified   == VerifyReported(fresh,
                            IF scan = enrolled THEN "success" ELSE "fail", print, error)
                        identified == IdentifyReported(fresh,
                            IF scan = enrolled THEN enrolled ELSE NoPrint, print, error)
                        native     == VerifyFinish(MatchCompleted(verified, last), verified.print)
                        emulated   == EmulatedFinish(identified, MatchCompleted(identified, last))
                    IN  /\ verified = identified
                        /\ emulated = IF native.error = "none" THEN native
                                      ELSE [native EXCEPT !.print = NoPrint]
    BY DEF EmulationAgrees
<1> DEFINE fresh == [NoData EXCEPT !.gallery = {enrolled}]
           verified == VerifyReported(fresh, IF scan = enrolled THEN "success" ELSE "fail",
                                      print, error)
           identified == IdentifyReported(fresh, IF scan = enrolled THEN enrolled ELSE NoPrint,
                                          print, error)
<1>1. verified = identified /\ verified \in Data
    BY ReportedAlike
<1> HIDE DEF verified, identified
<1>2. LET native   == VerifyFinish(MatchCompleted(verified, last), verified.print)
          emulated == EmulatedFinish(identified, MatchCompleted(identified, last))
      IN  emulated = IF native.error = "none" THEN native
                     ELSE [native EXCEPT !.print = NoPrint]
    BY <1>1, FinishedAlike
<1> QED
    BY <1>1, <1>2 DEF verified, identified

-----------------------------------------------------------------------------

\* Whatever drivers report and complete with, and in which order cancellations and the
\* removal come: the callback is called at most once with what its documentation
\* permits, a success or a retry is returned only as it was shown, and a cancelled
\* operation returns the cancellation.
THEOREM ResultsKeepContractCorrect == Spec => []ResultsKeepContract
<1>1. ResultsInv => ResultsKeepContract
    BY DEF ResultsInv
<1> QED
    BY <1>1, ResultsInvariant, PTL

\* fp_device_verify answers alike with and without a verify vfunc (on_verify_identification),
\* for every print, scan and error.
THEOREM EmulationAgreesCorrect == Spec => []EmulationAgrees
<1>1. ResultsInv => EmulationAgrees
    BY EmulationIsAlike DEF ResultsInv
<1> QED
    BY <1>1, ResultsInvariant, PTL
=============================================================================
