---------------------------- MODULE DevicePromise ----------------------------
(***************************************************************************)
(* What a device promises to its user, whatever its driver does: one       *)
(* operation at a time, reported once by the driver and answered once;     *)
(* suspend and resume calls that alternate and are answered once; one      *)
(* signal after the removal.  Cancellation, critical sections and the      *)
(* order of callbacks do not show.                                         *)
(***************************************************************************)

CONSTANTS
    Operations,   \* with "PROBE", "OPEN", "CLOSE" and "CLEAR_STORAGE" among them
    NoOperation

VARIABLES
    operation,  \* asked for and not answered
    outcome,    \* "none" while the driver works on it, then "ok" or "error"
    open,
    power,      \* "on", or "off" when suspended
    request,    \* the suspend or resume call not answered, or "none"
    removal     \* "present", "removed", or "told" when the signal was emitted

task  == <<operation, outcome>>
sleep == <<power, request>>
vars  == <<task, open, sleep, removal>>

Init ==
    /\ operation = NoOperation /\ outcome = "none"
    /\ open = FALSE
    /\ power = "on" /\ request = "none"
    /\ removal = "present"

\* Storage is cleared on a suspended device too.
Ask(op) ==
    /\ operation = NoOperation
    /\ open <=> op \notin {"PROBE", "OPEN"}
    /\ power = "on" \/ op = "CLEAR_STORAGE"
    /\ operation' = op
    /\ UNCHANGED <<outcome, open, sleep, removal>>

Report(result) ==
    /\ operation # NoOperation /\ outcome = "none"
    /\ outcome' = result
    /\ UNCHANGED <<operation, open, sleep, removal>>

Answer ==
    /\ operation # NoOperation /\ outcome # "none"
    /\ operation' = NoOperation /\ outcome' = "none"
    /\ open' = \/ operation = "OPEN" /\ outcome = "ok"
               \/ operation # "CLOSE" /\ open
    /\ UNCHANGED <<sleep, removal>>

\* A suspend call is answered now or later; the device may be off before.
Suspend ==
    /\ power = "on" /\ request = "none" /\ removal = "present"
    /\ \/ power' = "off" /\ request' \in {"none", "suspend"}
       \/ power' = "on" /\ request' = "suspend"
    /\ UNCHANGED <<task, open, removal>>

TurnOff ==
    /\ power = "on" /\ request = "suspend"
    /\ power' = "off" /\ request' \in {"none", "suspend"}
    /\ UNCHANGED <<task, open, removal>>

Resume ==
    /\ power = "off" /\ request = "none" /\ removal = "present"
    /\ <<power', request'>> \in {<<"on", "none">>, <<"off", "resume">>}
    /\ UNCHANGED <<task, open, removal>>

TurnOn ==
    /\ power = "off" /\ request = "resume"
    /\ power' = "on" /\ request' = "none"
    /\ UNCHANGED <<task, open, removal>>

\* The answer comes after the operation it waited for.
AnswerRequest ==
    /\ request # "none"
    /\ request' = "none"
    /\ UNCHANGED <<task, open, power, removal>>

\* Without an operation the signal is emitted at once.
Remove ==
    /\ removal = "present"
    /\ removal' = IF operation = NoOperation THEN "told" ELSE "removed"
    /\ UNCHANGED <<task, open, sleep>>

Tell ==
    /\ removal = "removed"
    /\ removal' = "told"
    /\ UNCHANGED <<task, open, sleep>>

Next ==
    \/ \E op \in Operations : Ask(op)
    \/ \E result \in {"ok", "error"} : Report(result)
    \/ Answer
    \/ Suspend \/ TurnOff \/ Resume \/ TurnOn \/ AnswerRequest
    \/ Remove \/ Tell

Spec == Init /\ [][Next]_vars
=============================================================================
