------------------------------- MODULE FpiSsm -------------------------------
(***************************************************************************)
(* The sequential state machines drivers are written with (fpi-ssm.c): a   *)
(* machine, the sub-machines started from its states, cleanup states,      *)
(* delayed actions, errors and completion.                                 *)
(*                                                                         *)
(* The driver side is its state handler: every time a state is entered the *)
(* handler owes the machine exactly one call, made within the handler or   *)
(* later from the callback of a transfer.  A call runs to its end,         *)
(* including the nested entries of handlers; only the completion callback  *)
(* is a step of its own, which nothing else precedes.                      *)
(*                                                                         *)
(* An operator named Bad... is a wrong form of the one after it, which the *)
(* mutation runs put in its place; the specification does not use it.      *)
(***************************************************************************)
EXTENDS Integers

CONSTANTS
    Machines,      \* a driver's machine and the sub-machines below it
    Root,
    Parent,        \* the machine whose state starts a sub-machine
    NrStates,      \* nr_states of each machine
    StartCleanup,  \* start_cleanup of each machine
    Jumps,         \* the <<from, to>> of each machine's jumps
    Errors,
    NoError

ASSUME RootAssumption == Root \in Machines
ASSUME ParentAssumption == Parent \in [Machines \ {Root} -> Machines]
ASSUME TreeAssumption ==    \* every machine is below Root
    \A M \in SUBSET (Machines \ {Root}) : (\A m \in M : Parent[m] \in M) => M = {}
ASSUME StatesAssumption ==
    /\ NrStates \in [Machines -> Nat] /\ StartCleanup \in [Machines -> Nat]
    /\ \A m \in Machines : 1 <= StartCleanup[m] /\ StartCleanup[m] <= NrStates[m]
ASSUME NoErrorAssumption == NoError \notin Errors

VARIABLES
    ssm,    \* the machines: status, cur_state, error, timeout and owed call
    first   \* the first failure since Root was started (history)

vars == <<ssm, first>>

\* The delayed actions: nothing, mark completed, next state, or a state to jump to.
NoTimeout  == -1
Completing == -2
Advancing  == -3

Idle == [status |-> "none", cur_state |-> 0, error |-> NoError,
         timeout |-> NoTimeout, owed |-> FALSE]

Init ==
    /\ ssm = [m \in Machines |-> Idle]
    /\ first = NoError

-----------------------------------------------------------------------------
(* The operations on one machine s = ssm[m] *)

\* __ssm_call_handler: entering a state, the handler owes a call.
CallHandler(s, state) == [s EXCEPT !.cur_state = state, !.owed = TRUE]

\* Where a completion goes on: the cleanup states are never skipped.
BadCleanupStateAgain(m, s) ==
    IF s.cur_state <= StartCleanup[m] THEN StartCleanup[m] ELSE s.cur_state + 1
CleanupState(m, s) ==
    IF s.cur_state < StartCleanup[m] THEN StartCleanup[m] ELSE s.cur_state + 1

\* fpi_ssm_mark_completed up to the callback.
MarkCompleted(m, s) ==
    IF CleanupState(m, s) < NrStates[m]
    THEN CallHandler(s, CleanupState(m, s))
    ELSE [s EXCEPT !.status = "completed", !.owed = FALSE]

\* A machine that has an error is already on its way to the cleanup.
FailureIgnored(m, s) == s.error # NoError /\ s.cur_state < StartCleanup[m]

\* The error a failure leaves: the first one stays.
BadKeptError(s, e) == e
KeptError(s, e) == IF s.error = NoError THEN e ELSE s.error

\* fpi_ssm_mark_failed.
MarkFailed(m, s, e) ==
    IF FailureIgnored(m, s)
    THEN [s EXCEPT !.owed = FALSE]
    ELSE MarkCompleted(m, [s EXCEPT !.error = KeptError(s, e)])

\* fpi_ssm_jump_to_state.
JumpToState(m, s, state) ==
    IF state = NrStates[m]
    THEN MarkCompleted(m, [s EXCEPT !.cur_state = state])
    ELSE CallHandler(s, state)

\* fpi_ssm_next_state.
NextState(m, s) == JumpToState(m, s, s.cur_state + 1)

\* How the end of a transfer or of a sub-machine moves the machine on.
BadOutcome(m, s, e) == NextState(m, s)
Outcome(m, s, e) == IF e # NoError THEN MarkFailed(m, s, e) ELSE NextState(m, s)

\* What a delayed action does when its timeout is dispatched.
Elapsed(m, s, action) ==
    CASE action = Completing -> MarkCompleted(m, s)
      [] action = Advancing  -> NextState(m, s)
      [] OTHER               -> JumpToState(m, s, action)

-----------------------------------------------------------------------------
(* Steps *)

\* While a completion callback is due nothing else runs.
NoCallbackDue == \A m \in Machines : ssm[m].status # "completed"

\* The driver makes the call it owes to m.
Calls(m) == NoCallbackDue /\ ssm[m].status = "running" /\ ssm[m].owed

CanJump(m, state) ==
    /\ <<ssm[m].cur_state, state>> \in Jumps[m]
    /\ state <= NrStates[m]

\* fpi_ssm_start.
StartRoot ==
    /\ NoCallbackDue
    /\ ssm[Root].status = "none"
    /\ ssm' = [ssm EXCEPT ![Root] = CallHandler([Idle EXCEPT !.status = "running"], 0)]
    /\ first' = NoError

\* fpi_ssm_start_subsm with a new child.
StartSubsm(child) ==
    /\ child # Root
    /\ Calls(Parent[child])
    /\ ssm[child].status = "none"
    /\ ssm' = [ssm EXCEPT ![Parent[child]].owed = FALSE,
                          ![child] = CallHandler([Idle EXCEPT !.status = "running"], 0)]
    /\ UNCHANGED first

AdvanceState(m) ==
    /\ Calls(m)
    /\ ssm' = [ssm EXCEPT ![m] = NextState(m, ssm[m])]
    /\ UNCHANGED first

Jump(m, state) ==
    /\ Calls(m) /\ CanJump(m, state)
    /\ ssm' = [ssm EXCEPT ![m] = JumpToState(m, ssm[m], state)]
    /\ UNCHANGED first

Complete(m) ==
    /\ Calls(m)
    /\ ssm' = [ssm EXCEPT ![m] = MarkCompleted(m, ssm[m])]
    /\ UNCHANGED first

Fail(m, e) ==
    /\ Calls(m)
    /\ ssm' = [ssm EXCEPT ![m] = MarkFailed(m, ssm[m], e)]
    /\ first' = IF first = NoError THEN e ELSE first

\* The callbacks drivers give to their USB and SPI transfers.
TransferDone(m, e) ==
    /\ Calls(m)
    /\ ssm' = [ssm EXCEPT ![m] = Outcome(m, ssm[m], e)]
    /\ first' = IF first = NoError THEN e ELSE first

\* The _delayed calls: the machine goes on when the timeout is dispatched.
Delay(m, action) ==
    /\ Calls(m)
    /\ ssm' = [ssm EXCEPT ![m].owed = FALSE, ![m].timeout = action]
    /\ UNCHANGED first

CompleteDelayed(m)    == Delay(m, Completing)
NextStateDelayed(m)   == Delay(m, Advancing)
JumpDelayed(m, state) == CanJump(m, state) /\ Delay(m, state)

\* fpi_ssm_cancel_delayed_state_change: the call is owed again.
CancelDelayed(m) ==
    /\ NoCallbackDue
    /\ ssm[m].status = "running" /\ ssm[m].timeout # NoTimeout
    /\ ssm' = [ssm EXCEPT ![m].timeout = NoTimeout, ![m].owed = TRUE]
    /\ UNCHANGED first

\* The timeout callbacks forget their source before they call into the machine.
BadForgetTimeout(s) == s
ForgetTimeout(s) == [s EXCEPT !.timeout = NoTimeout]

TimeoutElapsed(m) ==
    /\ NoCallbackDue
    /\ ssm[m].timeout # NoTimeout
    /\ ssm' = [ssm EXCEPT ![m] = Elapsed(m, ForgetTimeout(ssm[m]), ssm[m].timeout)]
    /\ UNCHANGED first

\* __subsm_complete: the child's end moves its parent on, the child is freed.
SubsmComplete(child) ==
    /\ child # Root
    /\ ssm[child].status = "completed"
    /\ ssm' = [ssm EXCEPT ![Parent[child]] =
                              Outcome(Parent[child], ssm[Parent[child]], ssm[child].error),
                          ![child] = Idle]
    /\ UNCHANGED first

\* The callback given to fpi_ssm_start returns and the machine is freed.
RootComplete ==
    /\ ssm[Root].status = "completed"
    /\ ssm' = [ssm EXCEPT ![Root] = Idle]
    /\ first' = NoError

Next ==
    \/ StartRoot
    \/ RootComplete
    \/ \E m \in Machines :
          \/ StartSubsm(m)
          \/ AdvanceState(m)
          \/ \E state \in 0..NrStates[m] : Jump(m, state)
          \/ Complete(m)
          \/ \E e \in Errors : Fail(m, e)
          \/ \E e \in Errors \union {NoError} : TransferDone(m, e)
          \/ CompleteDelayed(m)
          \/ NextStateDelayed(m)
          \/ \E state \in 0..NrStates[m] : JumpDelayed(m, state)
          \/ CancelDelayed(m)
          \/ TimeoutElapsed(m)
          \/ SubsmComplete(m)

Spec == Init /\ [][Next]_vars

(* Callbacks are called and timeouts dispatched; a driver that loops or keeps *)
(* starting sub-machines sooner or later completes the machine it is in.      *)
FairSpec ==
    /\ Spec
    /\ WF_vars(RootComplete)
    /\ \A m \in Machines : /\ WF_vars(SubsmComplete(m))
                           /\ WF_vars(TimeoutElapsed(m))
                           /\ SF_vars(Complete(m))

-----------------------------------------------------------------------------
(* Properties *)

Children(m) == {c \in Machines \ {Root} : Parent[c] = m /\ ssm[c].status # "none"}

Owed(m)    == ssm[m].owed
Delayed(m) == ssm[m].timeout # NoTimeout

\* A running machine has exactly one thing that will move it on, an owed call, a
\* timeout or one sub-machine: it neither hangs nor trips over a second one (the
\* BUG_ONs on timeout and completed).  A machine that does not run has none, so no
\* timeout and no sub-machine reaches freed memory.
OneMover ==
    \A m \in Machines :
        /\ ssm[m].status = "running" <=> Owed(m) \/ Delayed(m) \/ Children(m) # {}
        /\ ~(Owed(m) /\ Delayed(m))
        /\ Owed(m) \/ Delayed(m) => Children(m) = {}
        /\ \A c1, c2 \in Children(m) : c1 = c2

\* The callback of the driver's machine gets the first error met in the machine or
\* in any sub-machine, whatever failed after it (fpi_ssm_mark_failed, __subsm_complete).
FirstErrorReported ==
    ssm[Root].status = "completed" => ssm[Root].error = first

InCleanup(m) == ssm[m].status = "running" /\ ssm[m].cur_state >= StartCleanup[m]

\* Every machine runs its cleanup states once and in order, and hands on the first
\* of its errors (fpi-ssm.c: cleanup states "will never be skipped").
Promise(m) == INSTANCE SsmPromise WITH
    FirstCleanup <- StartCleanup[m],
    LastState    <- NrStates[m] - 1,
    stage        <- CASE ssm[m].status = "none"      -> "idle"
                      [] ssm[m].status = "completed" -> "done"
                      [] InCleanup(m)                -> "cleanup"
                      [] OTHER                       -> "work",
    cleanup      <- IF InCleanup(m) THEN ssm[m].cur_state ELSE StartCleanup[m] - 1,
    outcome      <- ssm[m].error

KeepsPromise ==
    /\ \A m \in Machines : Promise(m)!Init
    /\ [][\A m \in Machines : [Promise(m)!Next]_(Promise(m)!vars)]_vars

\* Every machine that is started calls back.
MachinesComplete ==
    \A m \in Machines : ssm[m].status = "running" ~> ssm[m].status = "none"
=============================================================================
