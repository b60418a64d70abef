----------------------------- MODULE SsmPromise -----------------------------
(***************************************************************************)
(* What one run of a sequential state machine promises to whoever started  *)
(* it: work, then every cleanup state once and in order, then one call of  *)
(* the completion callback with the first error that was met.              *)
(***************************************************************************)
EXTENDS Integers

CONSTANTS
    FirstCleanup,  \* the first cleanup state
    LastState,     \* the last state; FirstCleanup - 1 if there is no cleanup
    Errors,
    NoError

VARIABLES
    stage,    \* "idle", "work", "cleanup", or "done" (the callback is being called)
    cleanup,  \* the cleanup state, FirstCleanup - 1 outside of the cleanup
    outcome   \* the error the callback will receive

vars == <<stage, cleanup, outcome>>

NoCleanup == FirstCleanup - 1

Init == stage = "idle" /\ cleanup = NoCleanup /\ outcome = NoError

Start ==
    /\ stage = "idle"
    /\ stage' = "work"
    /\ UNCHANGED <<cleanup, outcome>>

\* On to the next cleanup state, or to the callback after the last one.
CleanUp ==
    IF cleanup < LastState
    THEN stage' = "cleanup" /\ cleanup' = cleanup + 1
    ELSE stage' = "done" /\ cleanup' = NoCleanup

\* Work or a cleanup state ends, well (e = NoError) or not; the first error is kept.
End(e) ==
    /\ stage \in {"work", "cleanup"}
    /\ CleanUp
    /\ outcome' = IF outcome = NoError THEN e ELSE outcome

Finish ==
    /\ stage = "done"
    /\ stage' = "idle"
    /\ outcome' = NoError
    /\ UNCHANGED cleanup

Next == Start \/ (\E e \in Errors \union {NoError} : End(e)) \/ Finish

Spec == Init /\ [][Next]_vars
=============================================================================
