---------------------------- MODULE FpiSsm_proofs ----------------------------
(***************************************************************************)
(* Proofs about FpiSsm for every tree of machines, every number of states  *)
(* and every choice of the cleanup, of drivers that do not jump from the   *)
(* cleanup back into the work: such a machine would ignore its next        *)
(* failure (fpi_ssm_mark_failed) and hang.                                 *)
(***************************************************************************)
EXTENDS FpiSsm, TLAPS

JumpsFromCleanupStay ==
    \A m \in Machines, from, to \in Int :
        <<from, to>> \in Jumps[m] /\ from >= StartCleanup[m] => to >= StartCleanup[m]

Machine == [status : {"none", "running", "completed"}, cur_state : Int,
            error : Errors \union {NoError}, timeout : Int, owed : BOOLEAN]

TypeOK == ssm \in [Machines -> Machine]

\* Whoever runs with an error is in its cleanup; a delayed jump is one that may be made.
WorksWithoutError(m, s) ==
    s.status = "running" /\ s.error # NoError => s.cur_state >= StartCleanup[m]

TimeoutIsJump(m, s) ==
    s.timeout \in {NoTimeout, Completing, Advancing} \/ <<s.cur_state, s.timeout>> \in Jumps[m]

MachinesInv ==
    \A m \in Machines : WorksWithoutError(m, ssm[m]) /\ TimeoutIsJump(m, ssm[m])

\* What a call that moves a machine on leaves: another state or the end.
Moved(m, s) ==
    /\ s \in Machine
    /\ s.timeout = NoTimeout
    /\ \/ s.status = "running" /\ s.owed
       \/ s.status = "completed" /\ ~s.owed
    /\ WorksWithoutError(m, s)

\* A machine about to be moved on.
Movable(m, s) ==
    /\ s \in Machine
    /\ s.timeout = NoTimeout
    /\ s.status = "running"
    /\ WorksWithoutError(m, s)

-----------------------------------------------------------------------------
(* The operations on one machine *)

LEMMA StatesAreIntegers ==
    ASSUME NEW m \in Machines
    PROVE  NrStates[m] \in Int /\ StartCleanup[m] \in Int
BY StatesAssumption

LEMMA MarkCompletedMoves ==
    ASSUME NEW m \in Machines, NEW s \in Machine, s.timeout = NoTimeout, s.status = "running"
    PROVE  Moved(m, MarkCompleted(m, s))
<1>1. CleanupState(m, s) \in Int /\ CleanupState(m, s) >= StartCleanup[m]
    BY StatesAreIntegers DEF CleanupState, Machine
<1>2. CASE CleanupState(m, s) < NrStates[m]
    <2>1. MarkCompleted(m, s) = [s EXCEPT !.cur_state = CleanupState(m, s), !.owed = TRUE]
        BY <1>2 DEF MarkCompleted, CallHandler
    <2> QED
        BY <1>1, <2>1 DEF Moved, Machine, WorksWithoutError
<1>3. CASE ~(CleanupState(m, s) < NrStates[m])
    <2>1. MarkCompleted(m, s) = [s EXCEPT !.status = "completed", !.owed = FALSE]
        BY <1>3 DEF MarkCompleted
    <2> QED
        BY <2>1 DEF Moved, Machine, WorksWithoutError
<1> QED
    BY <1>2, <1>3

LEMMA MarkFailedMoves ==
    ASSUME NEW m \in Machines, NEW s, Movable(m, s), NEW e \in Errors
    PROVE  Moved(m, MarkFailed(m, s, e))
<1>1. ~FailureIgnored(m, s)
    BY StatesAreIntegers DEF FailureIgnored, Movable, WorksWithoutError, Machine
<1>2. [s EXCEPT !.error = KeptError(s, e)] \in Machine
    BY DEF Movable, KeptError, Machine
<1>3. MarkFailed(m, s, e) = MarkCompleted(m, [s EXCEPT !.error = KeptError(s, e)])
    BY <1>1 DEF MarkFailed
<1>4. /\ [s EXCEPT !.error = KeptError(s, e)].timeout = NoTimeout
      /\ [s EXCEPT !.error = KeptError(s, e)].status = "running"
    BY DEF Movable, Machine
<1> QED
    BY <1>2, <1>3, <1>4, MarkCompletedMoves

LEMMA JumpToStateMoves ==
    ASSUME NEW m \in Machines, NEW s, Movable(m, s), NEW state \in Int,
           s.cur_state >= StartCleanup[m] => state >= StartCleanup[m]
    PROVE  Moved(m, JumpToState(m, s, state))
<1>1. CASE state = NrStates[m]
    <2>1. [s EXCEPT !.cur_state = state] \in Machine
        BY DEF Movable, Machine
    <2>2. /\ [s EXCEPT !.cur_state = state].timeout = NoTimeout
          /\ [s EXCEPT !.cur_state = state].status = "running"
        BY DEF Movable, Machine
    <2> QED
        BY <1>1, <2>1, <2>2, MarkCompletedMoves DEF JumpToState
<1>2. CASE state # NrStates[m]
    <2>1. JumpToState(m, s, state) = [s EXCEPT !.cur_state = state, !.owed = TRUE]
        BY <1>2 DEF JumpToState, CallHandler
    <2> QED
        BY <2>1 DEF Moved, Movable, Machine, WorksWithoutError
<1> QED
    BY <1>1, <1>2

LEMMA NextStateMoves ==
    ASSUME NEW m \in Machines, NEW s, Movable(m, s)
    PROVE  Moved(m, NextState(m, s))
<1>1. s.cur_state + 1 \in Int
    BY DEF Movable, Machine
<1>2. s.cur_state >= StartCleanup[m] => s.cur_state + 1 >= StartCleanup[m]
    BY StatesAreIntegers DEF Movable, Machine
<1> QED
    BY <1>1, <1>2, JumpToStateMoves DEF NextState

LEMMA OutcomeMoves ==
    ASSUME NEW m \in Machines, NEW s, Movable(m, s), NEW e \in Errors \union {NoError}
    PROVE  Moved(m, Outcome(m, s, e))
BY MarkFailedMoves, NextStateMoves DEF Outcome

\* A dispatched timeout, with the source forgotten first.
LEMMA ElapsedMoves ==
    ASSUME JumpsFromCleanupStay,
           NEW m \in Machines, NEW s \in Machine, s.status = "running", s.timeout # NoTimeout,
           WorksWithoutError(m, s), TimeoutIsJump(m, s)
    PROVE  Moved(m, Elapsed(m, ForgetTimeout(s), s.timeout))
<1> DEFINE t == ForgetTimeout(s)
<1>1. Movable(m, t) /\ t.cur_state = s.cur_state
    BY DEF ForgetTimeout, Movable, Machine, WorksWithoutError, NoTimeout
<1>2. CASE s.timeout = Completing
    <2>1. Elapsed(m, t, s.timeout) = MarkCompleted(m, t)
        BY <1>2 DEF Elapsed, Completing, Advancing
    <2> QED
        BY <1>1, <2>1, MarkCompletedMoves DEF Movable
<1>3. CASE s.timeout = Advancing
    <2>1. Elapsed(m, t, s.timeout) = NextState(m, t)
        BY <1>3 DEF Elapsed, Completing, Advancing
    <2> QED
        BY <1>1, <2>1, NextStateMoves
<1>4. CASE s.timeout \notin {Completing, Advancing}
    <2>1. <<s.cur_state, s.timeout>> \in Jumps[m] /\ s.cur_state \in Int /\ s.timeout \in Int
        BY <1>4 DEF TimeoutIsJump, Machine
    <2>2. t.cur_state >= StartCleanup[m] => s.timeout >= StartCleanup[m]
        BY <1>1, <2>1 DEF JumpsFromCleanupStay
    <2>3. Elapsed(m, t, s.timeout) = JumpToState(m, t, s.timeout)
        BY <1>4 DEF Elapsed
    <2> QED
        BY <1>1, <2>1, <2>2, <2>3, JumpToStateMoves
<1> QED
    BY <1>2, <1>3, <1>4

-----------------------------------------------------------------------------
(* The steps.  A machine is settled when it has one thing of its own that   *)
(* will move it on, or has come to its end.                                 *)

Settled(m, s) ==
    /\ s \in Machine
    /\ \/ s.status = "running" /\ s.owed /\ s.timeout = NoTimeout
       \/ s.status = "running" /\ ~s.owed /\ s.timeout # NoTimeout
       \/ s.status = "completed" /\ ~s.owed /\ s.timeout = NoTimeout
    /\ WorksWithoutError(m, s)
    /\ TimeoutIsJump(m, s)

SsmInv == TypeOK /\ MachinesInv /\ OneMover

\* No machine is its own parent.
LEMMA ParentIsAnother ==
    ASSUME NEW c \in Machines \ {Root}
    PROVE  Parent[c] \in Machines /\ Parent[c] # c
<1>1. (\A x \in {c} : Parent[x] \in {c}) => {c} = {}
    BY TreeAssumption
<1> QED
    BY <1>1, ParentAssumption

LEMMA MovedIsSettled ==
    ASSUME NEW m \in Machines, NEW s, Moved(m, s)
    PROVE  Settled(m, s)
BY DEF Moved, Settled, TimeoutIsJump

\* A machine with a call or a timeout of its own, moved or delayed by it.
LEMMA OneSettles ==
    ASSUME SsmInv, NEW m \in Machines, ssm[m].status = "running", Owed(m) \/ Delayed(m),
           NEW s, Settled(m, s), ssm' = [ssm EXCEPT ![m] = s]
    PROVE  SsmInv'
<1>1. TypeOK' /\ MachinesInv'
    BY DEF SsmInv, TypeOK, MachinesInv, Settled
<1>2. ASSUME NEW n \in Machines PROVE Children(n)' = Children(n)
    BY DEF SsmInv, TypeOK, Children, Settled
<1>3. Children(m) = {} /\ ssm'[m] = s
    BY DEF SsmInv, OneMover, TypeOK
<1>4. ASSUME NEW n \in Machines, n # m PROVE ssm'[n] = ssm[n]
    BY <1>4 DEF SsmInv, TypeOK
<1>5. OneMover'
    BY <1>2, <1>3, <1>4 DEF SsmInv, OneMover, Owed, Delayed, Settled
<1> QED
    BY <1>1, <1>5 DEF SsmInv

\* The driver's machine is nobody's sub-machine.
LEMMA RootSettles ==
    ASSUME SsmInv, ssm[Root].status # "running",
           NEW s, Settled(Root, s) \/ s = Idle, ssm' = [ssm EXCEPT ![Root] = s]
    PROVE  SsmInv'
<1> Idle \in Machine /\ WorksWithoutError(Root, Idle) /\ TimeoutIsJump(Root, Idle)
    BY DEF Idle, Machine, NoTimeout, WorksWithoutError, TimeoutIsJump
<1>1. TypeOK' /\ MachinesInv'
    BY RootAssumption DEF SsmInv, TypeOK, MachinesInv, Settled
<1>2. ASSUME NEW n \in Machines PROVE Children(n)' = Children(n)
    BY DEF SsmInv, TypeOK, Children
<1>3. Children(Root) = {} /\ ssm'[Root] = s
    BY RootAssumption DEF SsmInv, OneMover, TypeOK
<1>4. ASSUME NEW n \in Machines, n # Root PROVE ssm'[n] = ssm[n]
    BY <1>4 DEF SsmInv, TypeOK
<1>5. OneMover'
    BY <1>2, <1>3, <1>4 DEF SsmInv, OneMover, Owed, Delayed, Settled, Idle
<1> QED
    BY <1>1, <1>5 DEF SsmInv

\* Entering a state.
LEMMA HandlerIsOwed ==
    ASSUME NEW m \in Machines, NEW s \in Machine, s.status = "running", s.error = NoError,
           s.timeout = NoTimeout, NEW state \in Int
    PROVE  Settled(m, CallHandler(s, state))
<1> DEFINE t == [s EXCEPT !.cur_state = state, !.owed = TRUE]
<1>1. CallHandler(s, state) = t
    BY DEF CallHandler
<1>2. Settled(m, t)
    BY DEF Settled, Machine, WorksWithoutError, TimeoutIsJump
<1> QED
    BY <1>1, <1>2

LEMMA StartedIsSettled ==
    ASSUME NEW m \in Machines
    PROVE  Settled(m, CallHandler([Idle EXCEPT !.status = "running"], 0))
<1> DEFINE s == [Idle EXCEPT !.status = "running"]
<1>1. Idle \in Machine /\ Idle.error = NoError /\ Idle.timeout = NoTimeout
    BY DEF Idle, Machine, NoTimeout
<1>2. /\ s \in Machine /\ s.error = NoError /\ s.timeout = NoTimeout
      /\ s.status = "running"
    BY <1>1 DEF Machine
<1>3. 0 \in Int
    OBVIOUS
<1> HIDE DEF s
<1>4. Settled(m, CallHandler(s, 0))
    BY <1>2, <1>3, HandlerIsOwed
<1> QED
    BY <1>4 DEF s

\* The call owed to the parent is taken over by its sub-machine.
LEMMA StartSubsmKeeps ==
    ASSUME SsmInv, NEW child \in Machines, StartSubsm(child)
    PROVE  SsmInv'
<1> DEFINE p == Parent[child]
           started == CallHandler([Idle EXCEPT !.status = "running"], 0)
           waiting == [ssm[p] EXCEPT !.owed = FALSE]
<1>1. p \in Machines /\ p # child /\ child \in Machines \ {Root}
    BY ParentIsAnother DEF StartSubsm
<1>2. Settled(child, started) /\ started.status = "running"
    BY StartedIsSettled DEF CallHandler, Idle
<1>3. /\ ssm[p].status = "running" /\ ssm[p].owed /\ ssm[p].timeout = NoTimeout
      /\ Children(p) = {} /\ Children(child) = {} /\ ssm[child].status = "none"
    BY <1>1 DEF SsmInv, OneMover, StartSubsm, Calls, Owed, Delayed
<1>4. /\ waiting \in Machine /\ waiting.status = "running"
      /\ ~waiting.owed /\ waiting.timeout = NoTimeout
      /\ WorksWithoutError(p, waiting) /\ TimeoutIsJump(p, waiting)
    BY <1>1, <1>3
    DEF SsmInv, TypeOK, MachinesInv, Machine, WorksWithoutError, TimeoutIsJump
<1>5. ssm' = [n \in Machines |-> IF n = child THEN started
                                 ELSE IF n = p THEN waiting ELSE ssm[n]]
    BY <1>1 DEF SsmInv, TypeOK, StartSubsm
<1> HIDE DEF p, started, waiting
<1>6. TypeOK' /\ MachinesInv'
    BY <1>2, <1>4, <1>5 DEF SsmInv, TypeOK, MachinesInv, Settled
<1>7. Children(p)' = {child} /\ Children(child)' = {}
    BY <1>1, <1>2, <1>3, <1>4, <1>5 DEF Children, p
<1>8. ASSUME NEW n \in Machines, n # p, n # child
      PROVE  Children(n)' = Children(n) /\ ssm'[n] = ssm[n]
    BY <1>1, <1>3, <1>4, <1>5, <1>8 DEF Children, p
<1>9. OneMover'
  <2> SUFFICES ASSUME NEW n \in Machines
               PROVE  /\ ssm'[n].status = "running" <=>
                             Owed(n)' \/ Delayed(n)' \/ Children(n)' # {}
                      /\ ~(Owed(n)' /\ Delayed(n)')
                      /\ Owed(n)' \/ Delayed(n)' => Children(n)' = {}
                      /\ \A c1, c2 \in Children(n)' : c1 = c2
    BY DEF OneMover
  <2>1. CASE n = p
    BY <1>1, <1>4, <1>5, <1>7, <2>1 DEF Owed, Delayed
  <2>2. CASE n = child
    BY <1>2, <1>5, <1>7, <2>2 DEF Owed, Delayed, Settled
  <2>3. CASE n # p /\ n # child
    BY <1>8, <2>3 DEF SsmInv, OneMover, Owed, Delayed
  <2> QED
    BY <2>1, <2>2, <2>3
<1> QED
    BY <1>6, <1>9 DEF SsmInv

\* The end of a sub-machine moves its parent, which has nothing else to wait for.
LEMMA SubsmCompleteKeeps ==
    ASSUME SsmInv, NEW child \in Machines, SubsmComplete(child)
    PROVE  SsmInv'
<1> DEFINE p == Parent[child]
           moved == Outcome(p, ssm[p], ssm[child].error)
<1>1. p \in Machines /\ p # child /\ child \in Machines \ {Root}
    BY ParentIsAnother DEF SubsmComplete
<1>2. child \in Children(p) /\ ssm[child].status = "completed"
    BY <1>1 DEF Children, SubsmComplete
<1>3. /\ ssm[p].status = "running" /\ ssm[p].timeout = NoTimeout
      /\ Children(child) = {} /\ \A c \in Children(p) : c = child
    BY <1>1, <1>2 DEF SsmInv, OneMover, Owed, Delayed
<1>4. Movable(p, ssm[p]) /\ ssm[child].error \in Errors \union {NoError}
    BY <1>1, <1>3 DEF SsmInv, TypeOK, MachinesInv, Movable, Machine
<1>5. Settled(p, moved) /\ moved.status # "none"
    BY <1>1, <1>4, OutcomeMoves, MovedIsSettled DEF Settled
<1>6. ssm' = [n \in Machines |-> IF n = child THEN Idle
                                 ELSE IF n = p THEN moved ELSE ssm[n]]
    BY <1>1 DEF SsmInv, TypeOK, SubsmComplete
<1>7. /\ Idle \in Machine /\ WorksWithoutError(child, Idle) /\ TimeoutIsJump(child, Idle)
      /\ Idle.status = "none" /\ ~Idle.owed /\ Idle.timeout = NoTimeout
    BY DEF Idle, Machine, NoTimeout, WorksWithoutError, TimeoutIsJump
<1> HIDE DEF p, moved
<1>8. TypeOK' /\ MachinesInv'
    BY <1>5, <1>6, <1>7 DEF SsmInv, TypeOK, MachinesInv, Settled
<1>9. Children(p)' = {} /\ Children(child)' = {}
    BY <1>1, <1>3, <1>5, <1>6, <1>7 DEF Children, p
<1>10. ASSUME NEW n \in Machines, n # p, n # child
       PROVE  Children(n)' = Children(n) /\ ssm'[n] = ssm[n]
    BY <1>1, <1>3, <1>5, <1>6, <1>10 DEF Children, p
<1>11. OneMover'
  <2> SUFFICES ASSUME NEW n \in Machines
               PROVE  /\ ssm'[n].status = "running" <=>
                             Owed(n)' \/ Delayed(n)' \/ Children(n)' # {}
                      /\ ~(Owed(n)' /\ Delayed(n)')
                      /\ Owed(n)' \/ Delayed(n)' => Children(n)' = {}
                      /\ \A c1, c2 \in Children(n)' : c1 = c2
    BY DEF OneMover
  <2>1. CASE n = p
    BY <1>1, <1>5, <1>6, <1>9, <2>1 DEF Owed, Delayed, Settled
  <2>2. CASE n = child
    BY <1>6, <1>7, <1>9, <2>2 DEF Owed, Delayed
  <2>3. CASE n # p /\ n # child
    BY <1>10, <2>3 DEF SsmInv, OneMover, Owed, Delayed
  <2> QED
    BY <2>1, <2>2, <2>3
<1> QED
    BY <1>8, <1>11 DEF SsmInv

-----------------------------------------------------------------------------
(* The invariant *)

THEOREM InitEstablishesSsmInv == Init => SsmInv
<1> SUFFICES ASSUME Init PROVE SsmInv
    OBVIOUS
<1>1. Idle \in Machine /\ Idle.error = NoError /\ Idle.timeout = NoTimeout
      /\ Idle.status = "none" /\ ~Idle.owed
    BY DEF Idle, Machine, NoTimeout
<1>2. \A m \in Machines : ssm[m] = Idle
    BY DEF Init
<1>3. TypeOK /\ MachinesInv
    BY <1>1, <1>2 DEF Init, TypeOK, MachinesInv, WorksWithoutError, TimeoutIsJump
<1>4. \A m \in Machines : Children(m) = {}
    BY <1>1, <1>2 DEF Children
<1>5. OneMover
    BY <1>1, <1>2, <1>4 DEF OneMover, Owed, Delayed
<1> QED
    BY <1>3, <1>5 DEF SsmInv

\* A machine that owes a call can be moved on.
LEMMA CallerIsMovable ==
    ASSUME SsmInv, NEW m \in Machines, Calls(m)
    PROVE  /\ Movable(m, ssm[m]) /\ ssm[m] \in Machine /\ ssm[m].timeout = NoTimeout
           /\ ssm[m].status = "running" /\ Owed(m)
BY DEF SsmInv, TypeOK, MachinesInv, OneMover, Owed, Delayed, Calls, Movable

LEMMA DelayKeeps ==
    ASSUME SsmInv, NEW m \in Machines, NEW action \in Int \ {NoTimeout}, Delay(m, action),
           action \in {Completing, Advancing} \/ <<ssm[m].cur_state, action>> \in Jumps[m]
    PROVE  SsmInv'
<1> DEFINE s == [ssm[m] EXCEPT !.owed = FALSE, !.timeout = action]
<1>1. Calls(m) /\ ssm' = [ssm EXCEPT ![m] = s]
    BY DEF Delay
<1>2. Settled(m, s)
    BY <1>1, CallerIsMovable
    DEF Settled, Movable, Machine, WorksWithoutError, TimeoutIsJump
<1> QED
    BY <1>1, <1>2, CallerIsMovable, OneSettles

LEMMA NextKeepsSsmInv ==
    ASSUME JumpsFromCleanupStay, SsmInv, [Next]_vars
    PROVE  SsmInv'
<1>1. CASE StartRoot
    BY <1>1, RootAssumption, StartedIsSettled, RootSettles DEF StartRoot
<1>2. CASE RootComplete
    BY <1>2, RootSettles DEF RootComplete
<1>3. ASSUME NEW m \in Machines, StartSubsm(m) PROVE SsmInv'
    BY <1>3, StartSubsmKeeps
<1>4. ASSUME NEW m \in Machines, AdvanceState(m) PROVE SsmInv'
    BY <1>4, CallerIsMovable, NextStateMoves, MovedIsSettled, OneSettles DEF AdvanceState
<1>5. ASSUME NEW m \in Machines, NEW state \in 0..NrStates[m], Jump(m, state) PROVE SsmInv'
  <2>1. state \in Int /\ ssm[m].cur_state \in Int
      BY <1>5, CallerIsMovable, StatesAreIntegers DEF Jump, Machine
  <2>2. ssm[m].cur_state >= StartCleanup[m] => state >= StartCleanup[m]
      BY <1>5, <2>1 DEF Jump, CanJump, JumpsFromCleanupStay
  <2>3. Moved(m, JumpToState(m, ssm[m], state))
      BY <1>5, <2>1, <2>2, CallerIsMovable, JumpToStateMoves DEF Jump
  <2> QED
      BY <1>5, <2>3, CallerIsMovable, MovedIsSettled, OneSettles DEF Jump
<1>6. ASSUME NEW m \in Machines, Complete(m) PROVE SsmInv'
    BY <1>6, CallerIsMovable, MarkCompletedMoves, MovedIsSettled, OneSettles DEF Complete
<1>7. ASSUME NEW m \in Machines, NEW e \in Errors, Fail(m, e) PROVE SsmInv'
    BY <1>7, CallerIsMovable, MarkFailedMoves, MovedIsSettled, OneSettles DEF Fail
<1>8. ASSUME NEW m \in Machines, NEW e \in Errors \union {NoError}, TransferDone(m, e)
      PROVE  SsmInv'
    BY <1>8, CallerIsMovable, OutcomeMoves, MovedIsSettled, OneSettles DEF TransferDone
<1>9. ASSUME NEW m \in Machines, CompleteDelayed(m) PROVE SsmInv'
  <2> Completing \in Int \ {NoTimeout}
      BY DEF Completing, NoTimeout
  <2> QED
      BY <1>9, DelayKeeps DEF CompleteDelayed
<1>10. ASSUME NEW m \in Machines, NextStateDelayed(m) PROVE SsmInv'
  <2> Advancing \in Int \ {NoTimeout}
      BY DEF Advancing, NoTimeout
  <2> QED
      BY <1>10, DelayKeeps DEF NextStateDelayed
<1>11. ASSUME NEW m \in Machines, NEW state \in 0..NrStates[m], JumpDelayed(m, state)
       PROVE  SsmInv'
  <2> state \in Int \ {NoTimeout}
      BY StatesAreIntegers DEF NoTimeout
  <2> QED
      BY <1>11, DelayKeeps DEF JumpDelayed, CanJump
<1>12. ASSUME NEW m \in Machines, CancelDelayed(m) PROVE SsmInv'
  <2> DEFINE s == [ssm[m] EXCEPT !.timeout = NoTimeout, !.owed = TRUE]
  <2>1. NoTimeout \in Int
      BY DEF NoTimeout
  <2>2. Delayed(m) /\ ssm[m].status = "running" /\ ssm' = [ssm EXCEPT ![m] = s]
      BY <1>12 DEF CancelDelayed, Delayed
  <2>3. Settled(m, s)
      BY <2>1, <2>2
      DEF SsmInv, TypeOK, MachinesInv, Settled, Machine, WorksWithoutError, TimeoutIsJump
  <2> QED
      BY <2>2, <2>3, OneSettles
<1>13. ASSUME NEW m \in Machines, TimeoutElapsed(m) PROVE SsmInv'
  <2>1. Delayed(m) /\ ssm[m].timeout # NoTimeout
      BY <1>13 DEF TimeoutElapsed, Delayed
  <2>2. /\ ssm[m] \in Machine /\ ssm[m].status = "running"
        /\ WorksWithoutError(m, ssm[m]) /\ TimeoutIsJump(m, ssm[m])
      BY <2>1 DEF SsmInv, TypeOK, MachinesInv, OneMover
  <2>3. Settled(m, Elapsed(m, ForgetTimeout(ssm[m]), ssm[m].timeout))
      BY <2>1, <2>2, ElapsedMoves, MovedIsSettled
  <2> QED
      BY <1>13, <2>1, <2>2, <2>3, OneSettles DEF TimeoutElapsed
<1>14. ASSUME NEW m \in Machines, SubsmComplete(m) PROVE SsmInv'
    BY <1>14, SubsmCompleteKeeps
<1>15. CASE UNCHANGED vars
    BY <1>15
    DEF vars, SsmInv, TypeOK, MachinesInv, OneMover, Children, Owed, Delayed
<1> QED
    BY <1>1, <1>2, <1>3, <1>4, <1>5, <1>6, <1>7, <1>8, <1>9, <1>10, <1>11, <1>12, <1>13,
       <1>14, <1>15 DEF Next

\* A machine that runs has exactly one thing that moves it on and one that does not
\* run has none (the BUG_ONs of fpi-ssm.c, and no callback reaches freed memory), for
\* drivers that do not jump from the cleanup back into the work.
THEOREM OneMoverCorrect == JumpsFromCleanupStay => (Spec => []OneMover)
<1>1. JumpsFromCleanupStay /\ SsmInv /\ [Next]_vars => SsmInv'
    BY NextKeepsSsmInv
<1>2. SsmInv => OneMover
    BY DEF SsmInv
<1>3. Init => SsmInv
    BY InitEstablishesSsmInv
<1> SUFFICES ASSUME JumpsFromCleanupStay PROVE Spec => []OneMover
    OBVIOUS
<1>4. SsmInv /\ [Next]_vars => SsmInv'
    BY <1>1
<1> QED
    BY <1>2, <1>3, <1>4, PTL DEF Spec

-----------------------------------------------------------------------------
(* The error that is reported.  The started machines are a chain below      *)
(* Root.  Once something failed, its upper part is a path without errors     *)
(* that ends in the machine holding the first one: what failed below it     *)
(* came later, and that machine keeps its error when it is told.            *)

Active == {m \in Machines : ssm[m].status # "none"}

ErrorPath(C) ==
    /\ C \subseteq Active /\ Root \in C
    /\ \A c \in C \ {Root} : Parent[c] \in C /\ ssm[Parent[c]].error = NoError
    /\ \A c \in C : ssm[c].error \in {NoError, first}
    /\ \E c \in C : ssm[c].error = first

ErrorInv ==
    /\ first \in Errors \union {NoError}
    /\ \A m \in Machines : ssm[m].status = "none" => ssm[m].error = NoError
    /\ first = NoError => \A m \in Machines : ssm[m].error = NoError
    /\ first # NoError => \E C \in SUBSET Active : ErrorPath(C)

\* Whoever started a sub-machine still runs.
LEMMA StartedFromRunning ==
    ASSUME SsmInv, NEW m \in Active, m # Root
    PROVE  Parent[m] \in Machines /\ ssm[Parent[m]].status = "running" /\ Parent[m] \in Active
<1>1. Parent[m] \in Machines /\ m \in Children(Parent[m])
    BY ParentIsAnother DEF Active, Children
<1> QED
    BY <1>1 DEF SsmInv, OneMover, Active

\* A set with Root that nobody was started from, but members, has all that is started.
LEMMA StartedIsWithin ==
    ASSUME SsmInv, NEW K, Root \in K, \A x \in Active \ K : Parent[x] \notin K
    PROVE  Active \subseteq K
<1> DEFINE M == Active \ K
<1>1. M \in SUBSET (Machines \ {Root})
    BY DEF Active
<1>2. \A x \in M : Parent[x] \in M
    BY StartedFromRunning
<1>3. M = {}
    BY <1>1, <1>2, TreeAssumption
<1> QED
    BY <1>3

LEMMA RootAlone ==
    ASSUME SsmInv, Children(Root) = {}
    PROVE  Active \subseteq {Root}
<1>1. \A x \in Active \ {Root} : Parent[x] \notin {Root}
    BY DEF Active, Children
<1> HIDE DEF Active, SsmInv
<1> QED
    BY <1>1, StartedIsWithin

LEMMA RootWithOne ==
    ASSUME SsmInv, NEW child \in Children(Root), Children(child) = {}
    PROVE  Active \subseteq {Root, child}
<1>1. child \in Machines /\ \A c \in Children(Root) : c = child
    BY RootAssumption DEF SsmInv, OneMover, Children
<1>2. \A x \in Active \ {Root, child} : Parent[x] \notin {Root, child}
    BY <1>1 DEF Active, Children
<1> QED
    BY <1>2, StartedIsWithin

\* Nothing runs before Root is started.
LEMMA RootIsActive ==
    ASSUME SsmInv, Active # {}
    PROVE  Root \in Active
<1>1. SUFFICES ASSUME Root \notin Active PROVE FALSE
    OBVIOUS
<1>2. Children(Root) = {}
    BY <1>1, RootAssumption DEF SsmInv, OneMover, Active
<1> QED
    BY <1>1, <1>2, RootAlone

\* What the operations do to the error of their machine.
LEMMA MarkCompletedError ==
    ASSUME NEW m \in Machines, NEW s \in Machine
    PROVE  MarkCompleted(m, s).error = s.error
BY DEF MarkCompleted, CallHandler, Machine

LEMMA JumpToStateError ==
    ASSUME NEW m \in Machines, NEW s \in Machine, NEW state \in Int
    PROVE  JumpToState(m, s, state).error = s.error
<1>1. CASE state = NrStates[m]
    <2> DEFINE t == [s EXCEPT !.cur_state = state]
    <2>1. t \in Machine /\ t.error = s.error
        BY DEF Machine
    <2>2. JumpToState(m, s, state) = MarkCompleted(m, t)
        BY <1>1 DEF JumpToState
    <2> HIDE DEF t
    <2> QED
        BY <2>1, <2>2, MarkCompletedError
<1>2. CASE state # NrStates[m]
    BY <1>2 DEF JumpToState, CallHandler, Machine
<1> QED
    BY <1>1, <1>2

LEMMA NextStateError ==
    ASSUME NEW m \in Machines, NEW s \in Machine
    PROVE  NextState(m, s).error = s.error
<1>1. s.cur_state + 1 \in Int
    BY DEF Machine
<1> QED
    BY <1>1, JumpToStateError DEF NextState

LEMMA ElapsedError ==
    ASSUME NEW m \in Machines, NEW s \in Machine
    PROVE  Elapsed(m, ForgetTimeout(s), s.timeout).error = s.error
<1> DEFINE t == ForgetTimeout(s)
<1>1. t \in Machine /\ t.error = s.error /\ s.timeout \in Int
    BY DEF ForgetTimeout, Machine, NoTimeout
<1> HIDE DEF t
<1>2. Elapsed(m, t, s.timeout).error = t.error
    BY <1>1, MarkCompletedError, NextStateError, JumpToStateError
    DEF Elapsed, Completing, Advancing
<1> QED
    BY <1>1, <1>2 DEF t

LEMMA OutcomeError ==
    ASSUME NEW m \in Machines, NEW s, Movable(m, s), NEW e \in Errors \union {NoError}
    PROVE  /\ Outcome(m, s, e).error = KeptError(s, e)
           /\ e \in Errors => MarkFailed(m, s, e).error = KeptError(s, e)
<1>1. s \in Machine
    BY DEF Movable
<1>2. ASSUME e \in Errors PROVE MarkFailed(m, s, e).error = KeptError(s, e)
    <2> DEFINE t == [s EXCEPT !.error = KeptError(s, e)]
    <2>1. t \in Machine /\ t.error = KeptError(s, e)
        BY <1>1 DEF KeptError, Machine
    <2>2. ~FailureIgnored(m, s)
        BY StatesAreIntegers DEF FailureIgnored, Movable, WorksWithoutError, Machine
    <2>3. MarkFailed(m, s, e) = MarkCompleted(m, t)
        BY <2>2 DEF MarkFailed
    <2> HIDE DEF t
    <2> QED
        BY <2>1, <2>3, MarkCompletedError
<1>3. CASE e = NoError
    <2>1. Outcome(m, s, e) = NextState(m, s)
        BY <1>3 DEF Outcome
    <2>2. KeptError(s, e) = s.error
        BY <1>3 DEF KeptError
    <2> QED
        BY <1>1, <1>2, <2>1, <2>2, NextStateError
<1>4. CASE e # NoError
    BY <1>2, <1>4 DEF Outcome
<1> QED
    BY <1>2, <1>3, <1>4

\* A machine without sub-machine is moved on, with a failure e or without.
LEMMA OneFails ==
    ASSUME SsmInv, ErrorInv, NEW m \in Active, Children(m) = {},
           NEW e \in Errors \union {NoError}, NEW s,
           s.status # "none", s.error = KeptError(ssm[m], e),
           ssm' = [ssm EXCEPT ![m] = s],
           first' = IF first = NoError THEN e ELSE first
    PROVE  ErrorInv'
<1>1. m \in Machines /\ ssm[m].status # "none" /\ ssm'[m] = s
    BY DEF Active, SsmInv, TypeOK
<1>2. ASSUME NEW n \in Machines, n # m PROVE ssm'[n] = ssm[n]
    BY <1>2 DEF SsmInv, TypeOK
<1>3. Active' = Active
    BY <1>1, <1>2 DEF Active
<1>4. \A n \in Machines : ssm'[n].status = "none" => ssm'[n].error = NoError
    BY <1>1, <1>2 DEF ErrorInv
<1>5. first' \in Errors \union {NoError}
    BY DEF ErrorInv
<1>6. first' = NoError => \A n \in Machines : ssm'[n].error = NoError
    BY <1>1, <1>2 DEF ErrorInv, KeptError
<1>7. \A c \in Active \ {Root} : Parent[c] \in Active /\ Parent[c] \in Machines /\ Parent[c] # m
  <2>1. \A c \in Active \ {Root} : Parent[c] # m
    BY DEF Active, Children
  <2> QED
    BY <2>1, StartedFromRunning
<1>8. Root \in Active /\ Active \subseteq Machines
    BY <1>1, RootIsActive DEF Active
<1>9. ASSUME first' # NoError PROVE \E C \in SUBSET Active : ErrorPath(C)'
  <2>1. CASE first = NoError
    <3>1. first' = e /\ e # NoError /\ s.error = e /\ \A n \in Machines : ssm[n].error = NoError
        BY <1>1, <1>9, <2>1 DEF ErrorInv, KeptError
    <3>2. PICK C : C = Active
        OBVIOUS
    <3>3. ErrorPath(C)'
        BY <1>1, <1>2, <1>3, <1>7, <1>8, <3>1, <3>2 DEF ErrorPath
    <3> QED
        BY <3>2, <3>3
  <2>2. CASE first # NoError
    <3>1. PICK C \in SUBSET Active : ErrorPath(C)
        BY <2>2 DEF ErrorInv
    <3>2. first' = first
        BY <2>2
    <3>3. CASE m \notin C
        <4>1. ErrorPath(C)'
            BY <1>1, <1>2, <1>3, <1>7, <1>8, <3>1, <3>2, <3>3 DEF ErrorPath
        <4> QED
            BY <4>1
    <3>4. CASE s.error = ssm[m].error
        <4>1. \A n \in Machines : ssm'[n].error = ssm[n].error
            BY <1>1, <1>2, <3>4
        <4>2. ErrorPath(C)'
            BY <1>3, <1>7, <1>8, <3>1, <3>2, <4>1 DEF ErrorPath
        <4> QED
            BY <4>2
    <3>5. CASE m \in C /\ ssm[m].error = NoError
        <4>1. m # Root
            BY <2>2, <3>1, <3>5, RootAlone DEF ErrorPath
        <4>2. ErrorPath(C \ {m})'
            BY <1>1, <1>2, <1>3, <1>7, <1>8, <2>2, <3>1, <3>2, <3>5, <4>1 DEF ErrorPath
        <4> QED
            BY <4>2
    <3> QED
        BY <3>3, <3>4, <3>5 DEF KeptError
  <2> QED
    BY <2>1, <2>2
<1> QED
    BY <1>3, <1>4, <1>5, <1>6, <1>9 DEF ErrorInv

LEMMA StartSubsmKeepsErrors ==
    ASSUME SsmInv, ErrorInv, NEW child \in Machines, StartSubsm(child)
    PROVE  ErrorInv'
<1> DEFINE p == Parent[child]
           started == CallHandler([Idle EXCEPT !.status = "running"], 0)
           waiting == [ssm[p] EXCEPT !.owed = FALSE]
<1>1. p \in Machines /\ p # child /\ child \in Machines \ {Root}
    BY ParentIsAnother DEF StartSubsm
<1>2. started.status = "running" /\ started.error = NoError
    BY DEF CallHandler, Idle
<1>3. /\ ssm[child].status = "none" /\ ssm[p].status = "running" /\ ssm[p] \in Machine
    BY <1>1 DEF SsmInv, TypeOK, StartSubsm, Calls
<1>4. waiting.status = "running" /\ waiting.error = ssm[p].error
    BY <1>3 DEF Machine
<1>5. /\ ssm' = [n \in Machines |-> IF n = child THEN started
                                    ELSE IF n = p THEN waiting ELSE ssm[n]]
      /\ first' = first
    BY <1>1 DEF SsmInv, TypeOK, StartSubsm
<1> HIDE DEF p, started, waiting
<1>6. ssm[child].error = NoError
    BY <1>1, <1>3 DEF ErrorInv
<1>7. \A n \in Machines : ssm'[n].error = ssm[n].error
    BY <1>2, <1>4, <1>5, <1>6
<1>8. Active \subseteq Active' /\ Active \subseteq Machines
    BY <1>2, <1>4, <1>5 DEF Active
<1>9. \A n \in Machines : ssm'[n].status = "none" => ssm'[n].error = NoError
    BY <1>2, <1>4, <1>5 DEF ErrorInv
<1>10. ASSUME first' # NoError PROVE \E C \in SUBSET Active' : ErrorPath(C)'
  <2>1. PICK C \in SUBSET Active : ErrorPath(C)
    BY <1>5, <1>10 DEF ErrorInv
  <2>2. \A c \in C \ {Root} : Parent[c] \in Machines
    BY <1>8, <2>1 DEF ErrorPath
  <2>3. ErrorPath(C)'
    BY <1>5, <1>7, <1>8, <2>1, <2>2 DEF ErrorPath
  <2> QED
    BY <1>8, <2>3
<1> QED
    BY <1>5, <1>7, <1>9, <1>10 DEF ErrorInv

\* A sub-machine hands its error to its parent.
LEMMA SubsmCompleteKeepsErrors ==
    ASSUME SsmInv, ErrorInv, NEW child \in Machines, SubsmComplete(child)
    PROVE  ErrorInv'
<1> DEFINE p == Parent[child]
           e == ssm[child].error
           moved == Outcome(p, ssm[p], e)
<1>1. p \in Machines /\ p # child /\ child \in Machines \ {Root}
    BY ParentIsAnother DEF SubsmComplete
<1>2. child \in Children(p) /\ ssm[child].status = "completed"
    BY <1>1 DEF Children, SubsmComplete
<1>3. /\ ssm[p].status = "running" /\ ssm[p].timeout = NoTimeout
      /\ Children(child) = {} /\ \A c \in Children(p) : c = child
    BY <1>1, <1>2 DEF SsmInv, OneMover, Owed, Delayed
<1>4. Movable(p, ssm[p]) /\ e \in Errors \union {NoError}
    BY <1>1, <1>3 DEF SsmInv, TypeOK, MachinesInv, Movable, Machine
<1>5. moved.status # "none" /\ moved.error = KeptError(ssm[p], e)
    BY <1>1, <1>4, OutcomeMoves, OutcomeError DEF Moved
<1>6. /\ ssm' = [n \in Machines |-> IF n = child THEN Idle
                                    ELSE IF n = p THEN moved ELSE ssm[n]]
      /\ first' = first
    BY <1>1 DEF SsmInv, TypeOK, SubsmComplete
<1>7. Idle.status = "none" /\ Idle.error = NoError
    BY DEF Idle
<1>8. Root \in Active /\ Active \subseteq Machines
    BY <1>2, RootIsActive DEF Active
<1>9. \A c \in Active \ {Root} : /\ Parent[c] \in Machines /\ Parent[c] # child
                                 /\ Parent[c] = p => c = child
  <2>1. \A c \in Active \ {Root} : Parent[c] # child /\ (Parent[c] = p => c = child)
    BY <1>3 DEF Active, Children
  <2> QED
    BY <2>1, StartedFromRunning
<1>10. ASSUME p = Root PROVE Active \subseteq {Root, child}
    BY <1>2, <1>3, <1>10, RootWithOne
<1> HIDE DEF p, e, moved
<1>11. Active' = Active \ {child}
    BY <1>1, <1>3, <1>5, <1>6, <1>7 DEF Active
<1>12. \A n \in Machines : ssm'[n].status = "none" => ssm'[n].error = NoError
    BY <1>5, <1>6, <1>7 DEF ErrorInv
<1>13. CASE first = NoError
  <2>1. \A n \in Machines : ssm'[n].error = NoError
    BY <1>1, <1>5, <1>6, <1>7, <1>13 DEF ErrorInv, KeptError, e
  <2> QED
    BY <1>6, <1>12, <1>13, <2>1 DEF ErrorInv
<1>14. CASE first # NoError
  <2>1. PICK C \in SUBSET Active : ErrorPath(C)
    BY <1>14 DEF ErrorInv
  <2>2. CASE child \in C
    <3>1. p \in C /\ ssm[p].error = NoError /\ e \in {NoError, first}
        BY <1>1, <2>1, <2>2 DEF ErrorPath, p, e
    <3>2. moved.error = e
        BY <1>5, <3>1 DEF KeptError
    <3>3. \E c \in C \ {child} : ssm'[c].error = first
        BY <1>1, <1>6, <1>8, <1>14, <2>1, <3>1, <3>2 DEF ErrorPath, e
    <3>4. ErrorPath(C \ {child})'
        BY <1>1, <1>6, <1>8, <1>9, <1>11, <2>1, <3>1, <3>2, <3>3 DEF ErrorPath
    <3> QED
        BY <1>6, <1>11, <1>12, <1>14, <2>1, <3>4 DEF ErrorInv
  <2>3. CASE child \notin C /\ (p \notin C \/ moved.error = ssm[p].error)
    <3>1. \A c \in C : ssm'[c].error = ssm[c].error
        BY <1>6, <1>8, <2>1, <2>3
    <3>2. ErrorPath(C)'
        BY <1>6, <1>11, <2>1, <2>3, <3>1 DEF ErrorPath
    <3> QED
        BY <1>6, <1>11, <1>12, <1>14, <2>1, <2>3, <3>2 DEF ErrorInv
  <2>4. CASE child \notin C /\ p \in C /\ ssm[p].error = NoError
    <3>1. p # Root
        BY <1>10, <1>14, <2>1, <2>4 DEF ErrorPath
    <3>2. \A c \in C \ {p} : ssm'[c].error = ssm[c].error
        BY <1>6, <1>8, <2>1, <2>4
    <3>3. \A c \in C \ {Root} : Parent[c] # p
        BY <1>9, <2>1, <2>4
    <3>4. ErrorPath(C \ {p})'
        BY <1>6, <1>11, <1>14, <2>1, <2>4, <3>1, <3>2, <3>3 DEF ErrorPath
    <3> QED
        BY <1>6, <1>11, <1>12, <1>14, <2>1, <2>4, <3>4 DEF ErrorInv
  <2> QED
    BY <1>5, <2>2, <2>3, <2>4 DEF KeptError
<1> QED
    BY <1>13, <1>14

\* A call without failure of a machine that has no sub-machine.
LEMMA OneKeepsErrors ==
    ASSUME SsmInv, ErrorInv, NEW m \in Machines, ssm[m].status = "running",
           Owed(m) \/ Delayed(m), NEW s, s.status # "none", s.error = ssm[m].error,
           ssm' = [ssm EXCEPT ![m] = s], first' = first
    PROVE  ErrorInv'
<1>1. m \in Active /\ Children(m) = {}
    BY DEF Active, SsmInv, OneMover
<1>2. s.error = KeptError(ssm[m], NoError)
    BY DEF KeptError
<1>3. first' = IF first = NoError THEN NoError ELSE first
    OBVIOUS
<1> QED
    BY <1>1, <1>2, <1>3, OneFails

LEMMA CallerFails ==
    ASSUME SsmInv, ErrorInv, NEW m \in Machines, Calls(m),
           NEW e \in Errors \union {NoError}, NEW s,
           s.status # "none", s.error = KeptError(ssm[m], e),
           ssm' = [ssm EXCEPT ![m] = s],
           first' = IF first = NoError THEN e ELSE first
    PROVE  ErrorInv'
<1>1. m \in Active /\ Children(m) = {}
    BY CallerIsMovable DEF Active, SsmInv, OneMover, Calls
<1> QED
    BY <1>1, OneFails

LEMMA DelayKeepsErrors ==
    ASSUME SsmInv, ErrorInv, NEW m \in Machines, NEW action, Delay(m, action)
    PROVE  ErrorInv'
<1> DEFINE s == [ssm[m] EXCEPT !.owed = FALSE, !.timeout = action]
<1>1. Calls(m) /\ ssm' = [ssm EXCEPT ![m] = s] /\ first' = first
    BY DEF Delay
<1>2. s.status # "none" /\ s.error = ssm[m].error
    BY <1>1, CallerIsMovable DEF Machine
<1> QED
    BY <1>1, <1>2, CallerIsMovable, OneKeepsErrors

LEMMA NextKeepsErrorInv ==
    ASSUME JumpsFromCleanupStay, SsmInv, ErrorInv, [Next]_vars
    PROVE  ErrorInv'
<1>1. CASE StartRoot
  <2>1. Children(Root) = {} /\ ssm[Root].status = "none"
    BY <1>1, RootAssumption DEF StartRoot, SsmInv, OneMover
  <2>2. \A n \in Machines : ssm[n].status = "none" /\ ssm[n].error = NoError
    BY <2>1, RootAlone DEF Active, ErrorInv
  <2> DEFINE s == CallHandler([Idle EXCEPT !.status = "running"], 0)
  <2>3. s.error = NoError /\ ssm' = [ssm EXCEPT ![Root] = s] /\ first' = NoError
    BY <1>1 DEF StartRoot, CallHandler, Idle
  <2>4. s.status = "running"
    BY DEF CallHandler, Idle
  <2> HIDE DEF s
  <2>5. \A n \in Machines : ssm'[n].error = NoError
    BY <2>2, <2>3 DEF SsmInv, TypeOK
  <2> QED
    BY <2>3, <2>5 DEF ErrorInv
<1>2. CASE RootComplete
  <2>1. Children(Root) = {}
    BY <1>2, RootAssumption DEF RootComplete, SsmInv, OneMover
  <2>2. \A n \in Machines : n # Root => ssm[n].error = NoError
    BY <2>1, RootAlone DEF Active, ErrorInv
  <2>3. ssm' = [ssm EXCEPT ![Root] = Idle] /\ first' = NoError /\ Idle.error = NoError
    BY <1>2 DEF RootComplete, Idle
  <2>4. \A n \in Machines : ssm'[n].error = NoError
    BY <2>2, <2>3 DEF SsmInv, TypeOK
  <2> QED
    BY <2>3, <2>4 DEF ErrorInv
<1>3. ASSUME NEW m \in Machines, StartSubsm(m) PROVE ErrorInv'
    BY <1>3, StartSubsmKeepsErrors
<1>4. ASSUME NEW m \in Machines, AdvanceState(m) PROVE ErrorInv'
  <2>1. Calls(m) /\ Movable(m, ssm[m]) /\ ssm[m] \in Machine /\ ssm[m].status = "running" /\ Owed(m)
    BY <1>4, CallerIsMovable DEF AdvanceState
  <2>2. NextState(m, ssm[m]).status # "none" /\ NextState(m, ssm[m]).error = ssm[m].error
    BY <2>1, NextStateMoves, NextStateError DEF Moved
  <2> QED
    BY <1>4, <2>1, <2>2, OneKeepsErrors DEF AdvanceState
<1>5. ASSUME NEW m \in Machines, NEW state \in 0..NrStates[m], Jump(m, state) PROVE ErrorInv'
  <2>1. Calls(m) /\ Movable(m, ssm[m]) /\ ssm[m] \in Machine /\ ssm[m].status = "running" /\ Owed(m)
    BY <1>5, CallerIsMovable DEF Jump
  <2>2. state \in Int /\ ssm[m].cur_state \in Int
    BY <2>1, StatesAreIntegers DEF Machine
  <2>3. ssm[m].cur_state >= StartCleanup[m] => state >= StartCleanup[m]
    BY <1>5, <2>2 DEF Jump, CanJump, JumpsFromCleanupStay
  <2>4. /\ JumpToState(m, ssm[m], state).status # "none"
        /\ JumpToState(m, ssm[m], state).error = ssm[m].error
    BY <2>1, <2>2, <2>3, JumpToStateMoves, JumpToStateError DEF Moved
  <2> QED
    BY <1>5, <2>1, <2>4, OneKeepsErrors DEF Jump
<1>6. ASSUME NEW m \in Machines, Complete(m) PROVE ErrorInv'
  <2>1. /\ Calls(m) /\ ssm[m] \in Machine /\ ssm[m].timeout = NoTimeout
        /\ ssm[m].status = "running" /\ Owed(m)
    BY <1>6, CallerIsMovable DEF Complete
  <2>2. MarkCompleted(m, ssm[m]).status # "none" /\ MarkCompleted(m, ssm[m]).error = ssm[m].error
    BY <2>1, MarkCompletedMoves, MarkCompletedError DEF Moved
  <2> QED
    BY <1>6, <2>1, <2>2, OneKeepsErrors DEF Complete
<1>7. ASSUME NEW m \in Machines, NEW e \in Errors, Fail(m, e) PROVE ErrorInv'
  <2>1. Calls(m) /\ Movable(m, ssm[m])
    BY <1>7, CallerIsMovable DEF Fail
  <2>2. /\ MarkFailed(m, ssm[m], e).status # "none"
        /\ MarkFailed(m, ssm[m], e).error = KeptError(ssm[m], e)
    BY <2>1, MarkFailedMoves, OutcomeError DEF Moved
  <2> QED
    BY <1>7, <2>1, <2>2, CallerFails DEF Fail
<1>8. ASSUME NEW m \in Machines, NEW e \in Errors \union {NoError}, TransferDone(m, e)
      PROVE  ErrorInv'
  <2>1. Calls(m) /\ Movable(m, ssm[m])
    BY <1>8, CallerIsMovable DEF TransferDone
  <2>2. /\ Outcome(m, ssm[m], e).status # "none"
        /\ Outcome(m, ssm[m], e).error = KeptError(ssm[m], e)
    BY <2>1, OutcomeMoves, OutcomeError DEF Moved
  <2> QED
    BY <1>8, <2>1, <2>2, CallerFails DEF TransferDone
<1>9. ASSUME NEW m \in Machines,
             \/ CompleteDelayed(m) \/ NextStateDelayed(m)
             \/ \E state \in 0..NrStates[m] : JumpDelayed(m, state)
      PROVE  ErrorInv'
    BY <1>9, DelayKeepsErrors DEF CompleteDelayed, NextStateDelayed, JumpDelayed
<1>10. ASSUME NEW m \in Machines, CancelDelayed(m) PROVE ErrorInv'
  <2> DEFINE s == [ssm[m] EXCEPT !.timeout = NoTimeout, !.owed = TRUE]
  <2>1. /\ Delayed(m) /\ ssm[m].status = "running" /\ ssm[m] \in Machine
        /\ ssm' = [ssm EXCEPT ![m] = s] /\ first' = first
    BY <1>10 DEF CancelDelayed, Delayed, SsmInv, TypeOK
  <2>2. s.status # "none" /\ s.error = ssm[m].error
    BY <2>1 DEF Machine
  <2> QED
    BY <2>1, <2>2, OneKeepsErrors
<1>11. ASSUME NEW m \in Machines, TimeoutElapsed(m) PROVE ErrorInv'
  <2>1. Delayed(m) /\ ssm[m].timeout # NoTimeout
    BY <1>11 DEF TimeoutElapsed, Delayed
  <2>2. /\ ssm[m] \in Machine /\ ssm[m].status = "running"
        /\ WorksWithoutError(m, ssm[m]) /\ TimeoutIsJump(m, ssm[m])
    BY <2>1 DEF SsmInv, TypeOK, MachinesInv, OneMover
  <2> DEFINE s == Elapsed(m, ForgetTimeout(ssm[m]), ssm[m].timeout)
  <2>3. s.status # "none" /\ s.error = ssm[m].error
    BY <2>1, <2>2, ElapsedMoves, ElapsedError DEF Moved
  <2>4. ssm' = [ssm EXCEPT ![m] = s] /\ first' = first
    BY <1>11 DEF TimeoutElapsed
  <2> HIDE DEF s
  <2> QED
    BY <2>1, <2>2, <2>3, <2>4, OneKeepsErrors
<1>12. ASSUME NEW m \in Machines, SubsmComplete(m) PROVE ErrorInv'
    BY <1>12, SubsmCompleteKeepsErrors
<1>13. CASE UNCHANGED vars
    BY <1>13 DEF vars, ErrorInv, ErrorPath, Active
<1> QED
    BY <1>1, <1>2, <1>3, <1>4, <1>5, <1>6, <1>7, <1>8, <1>9, <1>10, <1>11, <1>12, <1>13
    DEF Next

\* The callback of the driver's machine gets the first error met in the machine or in
\* any sub-machine, whatever failed after it (fpi_ssm_mark_failed, __subsm_complete),
\* for drivers that do not jump from the cleanup back into the work.
THEOREM FirstErrorReportedCorrect == JumpsFromCleanupStay => (Spec => []FirstErrorReported)
<1>1. JumpsFromCleanupStay /\ (SsmInv /\ ErrorInv) /\ [Next]_vars => (SsmInv /\ ErrorInv)'
    BY NextKeepsSsmInv, NextKeepsErrorInv
<1>2. SsmInv /\ ErrorInv => FirstErrorReported
  <2> SUFFICES ASSUME SsmInv, ErrorInv, ssm[Root].status = "completed"
               PROVE  ssm[Root].error = first
    BY DEF FirstErrorReported
  <2>1. Children(Root) = {}
    BY RootAssumption DEF SsmInv, OneMover
  <2>2. Active \subseteq {Root}
    BY <2>1, RootAlone
  <2> QED
    BY <2>2, RootAssumption DEF ErrorInv, ErrorPath
<1>3. Init => SsmInv /\ ErrorInv
  <2>1. Init => ErrorInv
    BY DEF Init, ErrorInv, Idle
  <2> QED
    BY <2>1, InitEstablishesSsmInv
<1> SUFFICES ASSUME JumpsFromCleanupStay PROVE Spec => []FirstErrorReported
    OBVIOUS
<1>4. (SsmInv /\ ErrorInv) /\ [Next]_vars => (SsmInv /\ ErrorInv)'
    BY <1>1
<1> QED
    BY <1>2, <1>3, <1>4, PTL DEF Spec

-----------------------------------------------------------------------------
(* What a machine promises to whoever started it, SsmPromise.  Every call   *)
(* that moves a machine on is a stutter in its work or ends a stage of it.  *)

\* Jumps are made in the work, to another state of it or to the start of the cleanup.
JumpsStayInWork ==
    \A m \in Machines, from, to \in Int :
        <<from, to>> \in Jumps[m] => from < StartCleanup[m] /\ to <= StartCleanup[m]

\* A machine is in one of its states.
PlaceInv ==
    \A m \in Machines : ssm[m].status = "running" => ssm[m].cur_state < NrStates[m]

\* From s to t the machine goes on in its work.
WorksOn(m, s, t) ==
    /\ t.cur_state \in Int
    /\ s.cur_state < StartCleanup[m] /\ t.cur_state < StartCleanup[m]
    /\ t.status = "running" /\ t.error = s.error

\* From s to t the work or a cleanup state ends with e.
Ends(m, s, t, e) ==
    /\ t.error = KeptError(s, e)
    /\ \/ /\ CleanupState(m, s) < NrStates[m]
          /\ t.status = "running" /\ t.cur_state = CleanupState(m, s)
       \/ CleanupState(m, s) >= NrStates[m] /\ t.status = "completed"

Goes(m, s, t) == WorksOn(m, s, t) \/ \E e \in Errors \union {NoError} : Ends(m, s, t, e)

\* Nothing the promise is about.
Same(s, t) == t.status = s.status /\ t.cur_state = s.cur_state /\ t.error = s.error

LEMMA StayInWorkStays == JumpsStayInWork => JumpsFromCleanupStay
<1> SUFFICES ASSUME JumpsStayInWork, NEW m \in Machines, NEW from \in Int, NEW to \in Int,
                    <<from, to>> \in Jumps[m], from >= StartCleanup[m]
             PROVE  to >= StartCleanup[m]
    BY DEF JumpsFromCleanupStay
<1>1. from < StartCleanup[m]
    BY DEF JumpsStayInWork
<1> QED
    BY <1>1, StatesAreIntegers

LEMMA MarkCompletedGoes ==
    ASSUME NEW m \in Machines, NEW s \in Machine, s.status = "running"
    PROVE  Ends(m, s, MarkCompleted(m, s), NoError)
<1>1. CleanupState(m, s) \in Int /\ NrStates[m] \in Int
    BY StatesAreIntegers DEF CleanupState, Machine
<1> QED
    BY <1>1 DEF Ends, MarkCompleted, CallHandler, KeptError, Machine

LEMMA MarkFailedGoes ==
    ASSUME NEW m \in Machines, NEW s, Movable(m, s), NEW e \in Errors
    PROVE  Ends(m, s, MarkFailed(m, s, e), e)
<1> DEFINE t == [s EXCEPT !.error = KeptError(s, e)]
<1>1. t \in Machine /\ t.error = KeptError(s, e) /\ t.status = "running" /\ t.cur_state = s.cur_state
    BY DEF Movable, KeptError, Machine
<1>2. ~FailureIgnored(m, s)
    BY StatesAreIntegers DEF FailureIgnored, Movable, WorksWithoutError, Machine
<1>3. MarkFailed(m, s, e) = MarkCompleted(m, t)
    BY <1>2 DEF MarkFailed
<1> HIDE DEF t
<1>4. Ends(m, t, MarkCompleted(m, t), NoError)
    BY <1>1, MarkCompletedGoes
<1>5. CleanupState(m, t) = CleanupState(m, s) /\ KeptError(t, NoError) = KeptError(s, e)
    BY <1>1 DEF CleanupState, KeptError
<1> QED
    BY <1>3, <1>4, <1>5 DEF Ends

LEMMA JumpToStateGoes ==
    ASSUME NEW m \in Machines, NEW s \in Machine, s.status = "running",
           s.cur_state < NrStates[m], NEW state \in Int,
           \/ s.cur_state < StartCleanup[m] /\ state <= StartCleanup[m]
           \/ state = s.cur_state + 1
    PROVE  Goes(m, s, JumpToState(m, s, state))
<1>1. /\ s.cur_state \in Int /\ NrStates[m] \in Int /\ StartCleanup[m] \in Int
      /\ StartCleanup[m] <= NrStates[m]
    BY StatesAssumption DEF Machine
<1>2. CASE state = NrStates[m]
    <2> DEFINE t == [s EXCEPT !.cur_state = state]
    <2>1. t \in Machine /\ t.error = s.error /\ t.status = "running" /\ t.cur_state = state
        BY DEF Machine
    <2>2. JumpToState(m, s, state) = MarkCompleted(m, t)
        BY <1>2 DEF JumpToState
    <2> HIDE DEF t
    <2>3. CleanupState(m, t) >= NrStates[m] /\ CleanupState(m, s) >= NrStates[m]
        BY <1>1, <1>2, <2>1 DEF CleanupState
    <2>4. Ends(m, t, MarkCompleted(m, t), NoError)
        BY <2>1, MarkCompletedGoes
    <2>5. CleanupState(m, t) \in Int /\ KeptError(t, NoError) = KeptError(s, NoError)
        BY <1>1, <2>1 DEF CleanupState, KeptError
    <2>6. Ends(m, s, MarkCompleted(m, t), NoError)
        BY <1>1, <2>3, <2>4, <2>5 DEF Ends
    <2> QED
        BY <2>2, <2>6 DEF Goes
<1>3. CASE state # NrStates[m]
    <2> DEFINE t == [s EXCEPT !.cur_state = state, !.owed = TRUE]
    <2>1. t.error = s.error /\ t.status = "running" /\ t.cur_state = state
        BY DEF Machine
    <2>2. JumpToState(m, s, state) = t
        BY <1>3 DEF JumpToState, CallHandler
    <2> HIDE DEF t
    <2>3. CASE state < StartCleanup[m]
        BY <1>1, <2>1, <2>2, <2>3 DEF Goes, WorksOn
    <2>4. CASE state >= StartCleanup[m]
        <3>1. state = CleanupState(m, s) /\ CleanupState(m, s) < NrStates[m]
            BY <1>1, <1>3, <2>4 DEF CleanupState
        <3>2. Ends(m, s, t, NoError)
            BY <2>1, <3>1 DEF Ends, KeptError
        <3> QED
            BY <2>2, <3>2 DEF Goes
    <2> QED
        BY <1>1, <2>3, <2>4
<1> QED
    BY <1>2, <1>3

LEMMA NextStateGoes ==
    ASSUME NEW m \in Machines, NEW s \in Machine, s.status = "running",
           s.cur_state < NrStates[m]
    PROVE  Goes(m, s, NextState(m, s))
<1>1. s.cur_state + 1 \in Int
    BY DEF Machine
<1> QED
    BY <1>1, JumpToStateGoes DEF NextState

LEMMA OutcomeGoes ==
    ASSUME NEW m \in Machines, NEW s, Movable(m, s), s.cur_state < NrStates[m],
           NEW e \in Errors \union {NoError}
    PROVE  Goes(m, s, Outcome(m, s, e))
<1>1. s \in Machine /\ s.status = "running"
    BY DEF Movable
<1>2. CASE e = NoError
    <2>1. Outcome(m, s, e) = NextState(m, s)
        BY <1>2 DEF Outcome
    <2> QED
        BY <1>1, <2>1, NextStateGoes
<1>3. CASE e # NoError
    <2>1. Outcome(m, s, e) = MarkFailed(m, s, e)
        BY <1>3 DEF Outcome
    <2> QED
        BY <1>3, <2>1, MarkFailedGoes DEF Goes
<1> QED
    BY <1>2, <1>3

LEMMA ElapsedGoes ==
    ASSUME JumpsStayInWork,
           NEW m \in Machines, NEW s \in Machine, s.status = "running", s.timeout # NoTimeout,
           s.cur_state < NrStates[m], TimeoutIsJump(m, s)
    PROVE  Goes(m, s, Elapsed(m, ForgetTimeout(s), s.timeout))
<1> DEFINE t == ForgetTimeout(s)
           u == Elapsed(m, t, s.timeout)
<1>1. /\ t \in Machine /\ t.status = "running" /\ t.cur_state = s.cur_state
      /\ t.error = s.error /\ s.timeout \in Int /\ s.cur_state \in Int
    BY DEF ForgetTimeout, Machine, NoTimeout
<1> HIDE DEF t
<1>2. CASE s.timeout = Completing
    <2>1. u = MarkCompleted(m, t)
        BY <1>2 DEF Elapsed, Completing, Advancing
    <2> QED
        BY <1>1, <2>1, MarkCompletedGoes
        DEF Goes, Ends, WorksOn, CleanupState, KeptError, t
<1>3. CASE s.timeout = Advancing
    <2>1. u = NextState(m, t)
        BY <1>3 DEF Elapsed, Completing, Advancing
    <2>2. Goes(m, t, u)
        BY <1>1, <2>1, NextStateGoes
    <2> QED
        BY <1>1, <2>2 DEF Goes, Ends, WorksOn, CleanupState, KeptError, t
<1>4. CASE s.timeout \notin {Completing, Advancing}
    <2>1. s.cur_state < StartCleanup[m] /\ s.timeout <= StartCleanup[m]
        BY <1>1, <1>4 DEF TimeoutIsJump, JumpsStayInWork
    <2>2. u = JumpToState(m, t, s.timeout)
        BY <1>4 DEF Elapsed
    <2>3. Goes(m, t, u)
        BY <1>1, <2>1, <2>2, JumpToStateGoes
    <2> QED
        BY <1>1, <2>3 DEF Goes, Ends, WorksOn, CleanupState, KeptError, t
<1> QED
    BY <1>2, <1>3, <1>4

\* The steps of the promise.
PromiseStep(m) == [Promise(m)!Next]_(Promise(m)!vars)

Promised == PlaceInv' /\ \A n \in Machines : PromiseStep(n)

LEMMA SameStutters ==
    ASSUME NEW m \in Machines, Same(ssm[m], ssm'[m])
    PROVE  PromiseStep(m)
<1>1. UNCHANGED Promise(m)!vars
    BY DEF Same, Promise!vars, InCleanup
<1> QED
    BY <1>1 DEF PromiseStep

LEMMA GoesIsPromised ==
    ASSUME NEW m \in Machines, ssm[m].status = "running", ssm[m].cur_state \in Int,
           Goes(m, ssm[m], ssm'[m])
    PROVE  PromiseStep(m)
<1>1. StartCleanup[m] \in Int /\ NrStates[m] \in Int /\ StartCleanup[m] <= NrStates[m]
    BY StatesAssumption
<1>2. CASE WorksOn(m, ssm[m], ssm'[m])
    <2>1. ~(ssm'[m].cur_state >= StartCleanup[m])
        BY <1>1, <1>2 DEF WorksOn
    <2>2. ~InCleanup(m) /\ ~InCleanup(m)'
        BY <1>1, <1>2, <2>1 DEF InCleanup, WorksOn
    <2>3. UNCHANGED Promise(m)!vars
        BY <1>2, <2>2 DEF WorksOn, Promise!vars
    <2> QED
        BY <2>3 DEF PromiseStep
<1>3. ASSUME NEW e \in Errors \union {NoError}, Ends(m, ssm[m], ssm'[m], e)
      PROVE  PromiseStep(m)
    <2>1. CleanupState(m, ssm[m]) \in Int /\ CleanupState(m, ssm[m]) >= StartCleanup[m]
        BY <1>1 DEF CleanupState
    <2>2. CASE /\ CleanupState(m, ssm[m]) < NrStates[m]
               /\ ssm'[m].status = "running" /\ ssm'[m].cur_state = CleanupState(m, ssm[m])
        <3>1. InCleanup(m)'
            BY <2>1, <2>2 DEF InCleanup
        <3>2. Promise(m)!End(e)
            BY <1>1, <1>3, <2>1, <2>2, <3>1
            DEF Ends, KeptError, CleanupState, InCleanup, Promise!End, Promise!CleanUp,
                Promise!NoCleanup
        <3> QED
            BY <3>2 DEF PromiseStep, Promise!Next
    <2>3. CASE CleanupState(m, ssm[m]) >= NrStates[m] /\ ssm'[m].status = "completed"
        <3>1. Promise(m)!End(e)
            BY <1>1, <1>3, <2>1, <2>3
            DEF Ends, KeptError, CleanupState, InCleanup, Promise!End, Promise!CleanUp,
                Promise!NoCleanup
        <3> QED
            BY <3>1 DEF PromiseStep, Promise!Next
    <2> QED
        BY <1>3, <2>2, <2>3 DEF Ends
<1> QED
    BY <1>2, <1>3 DEF Goes

LEMMA StartIsPromised ==
    ASSUME NEW m \in Machines, ssm[m].status = "none", ssm[m].error = NoError,
           ssm'[m].status = "running", ssm'[m].cur_state = 0, ssm'[m].error = NoError
    PROVE  PromiseStep(m)
<1>1. StartCleanup[m] \in Int /\ StartCleanup[m] >= 1
    BY StatesAssumption
<1>2. ~InCleanup(m) /\ ~InCleanup(m)'
    BY <1>1 DEF InCleanup
<1>3. Promise(m)!Start
    BY <1>2 DEF Promise!Start
<1> QED
    BY <1>3 DEF PromiseStep, Promise!Next

LEMMA FinishIsPromised ==
    ASSUME NEW m \in Machines, ssm[m].status = "completed", ssm'[m] = Idle
    PROVE  PromiseStep(m)
<1>1. ~InCleanup(m) /\ ~InCleanup(m)' /\ ssm'[m].status = "none" /\ ssm'[m].error = NoError
    BY DEF InCleanup, Idle
<1>2. Promise(m)!Finish
    BY <1>1 DEF Promise!Finish
<1> QED
    BY <1>2 DEF PromiseStep, Promise!Next

\* One machine goes on, the others are left alone.
LEMMA OneGoes ==
    ASSUME SsmInv, PlaceInv, NEW m \in Machines, ssm[m].status = "running",
           NEW s, Goes(m, ssm[m], s) \/ Same(ssm[m], s), ssm' = [ssm EXCEPT ![m] = s]
    PROVE  Promised
<1>1. ssm'[m] = s /\ \A n \in Machines : n # m => ssm'[n] = ssm[n]
    BY DEF SsmInv, TypeOK
<1>2. ssm[m].cur_state \in Int
    BY DEF SsmInv, TypeOK, Machine
<1>3. PromiseStep(m)
    BY <1>1, <1>2, GoesIsPromised, SameStutters
<1>4. ASSUME NEW n \in Machines, n # m PROVE PromiseStep(n)
    BY <1>1, <1>4, SameStutters DEF Same
<1>5. s.status = "running" => s.cur_state < NrStates[m]
    BY StatesAssumption, <1>2 DEF PlaceInv, Goes, Ends, WorksOn, Same
<1>6. PlaceInv'
    BY <1>1, <1>5 DEF PlaceInv
<1> QED
    BY <1>3, <1>4, <1>6 DEF Promised

LEMMA StartSubsmIsPromised ==
    ASSUME SsmInv, ErrorInv, PlaceInv, NEW child \in Machines, StartSubsm(child)
    PROVE  Promised
<1> DEFINE p == Parent[child]
           started == CallHandler([Idle EXCEPT !.status = "running"], 0)
           waiting == [ssm[p] EXCEPT !.owed = FALSE]
<1>1. p \in Machines /\ p # child /\ child \in Machines \ {Root}
    BY ParentIsAnother DEF StartSubsm
<1>2. started.status = "running" /\ started.error = NoError /\ started.cur_state = 0
    BY DEF CallHandler, Idle
<1>3. /\ ssm[child].status = "none" /\ ssm[child].error = NoError /\ ssm[p] \in Machine
    BY <1>1 DEF SsmInv, TypeOK, StartSubsm, ErrorInv
<1>4. Same(ssm[p], waiting)
    BY <1>3 DEF Machine, Same
<1>5. ssm' = [n \in Machines |-> IF n = child THEN started
                                 ELSE IF n = p THEN waiting ELSE ssm[n]]
    BY <1>1 DEF SsmInv, TypeOK, StartSubsm
<1> HIDE DEF p, started, waiting
<1>6. PromiseStep(child)
    BY <1>2, <1>3, <1>5, StartIsPromised
<1>7. ASSUME NEW n \in Machines, n # child PROVE PromiseStep(n) /\ Same(ssm[n], ssm'[n])
    <2>1. Same(ssm[n], ssm'[n])
        BY <1>4, <1>5, <1>7 DEF Same
    <2> QED
        BY <2>1, SameStutters
<1>8. 0 < NrStates[child]
    BY StatesAssumption
<1>9. PlaceInv'
    BY <1>2, <1>5, <1>7, <1>8 DEF PlaceInv, Same
<1> QED
    BY <1>6, <1>7, <1>9 DEF Promised

LEMMA SubsmCompleteIsPromised ==
    ASSUME SsmInv, PlaceInv, NEW child \in Machines, SubsmComplete(child)
    PROVE  Promised
<1> DEFINE p == Parent[child]
           moved == Outcome(p, ssm[p], ssm[child].error)
<1>1. p \in Machines /\ p # child /\ child \in Machines \ {Root}
    BY ParentIsAnother DEF SubsmComplete
<1>2. child \in Children(p) /\ ssm[child].status = "completed"
    BY <1>1 DEF Children, SubsmComplete
<1>3. ssm[p].status = "running" /\ ssm[p].timeout = NoTimeout
    BY <1>1, <1>2 DEF SsmInv, OneMover, Owed, Delayed
<1>4. /\ Movable(p, ssm[p]) /\ ssm[child].error \in Errors \union {NoError}
      /\ ssm[p].cur_state < NrStates[p] /\ ssm[p].cur_state \in Int
    BY <1>1, <1>3 DEF SsmInv, TypeOK, MachinesInv, Movable, Machine, PlaceInv
<1>5. Goes(p, ssm[p], moved)
    BY <1>1, <1>4, OutcomeGoes
<1>6. ssm' = [n \in Machines |-> IF n = child THEN Idle
                                 ELSE IF n = p THEN moved ELSE ssm[n]]
    BY <1>1 DEF SsmInv, TypeOK, SubsmComplete
<1> HIDE DEF p, moved
<1>7. PromiseStep(child)
    BY <1>2, <1>6, FinishIsPromised
<1>8. PromiseStep(p)
    BY <1>1, <1>3, <1>4, <1>5, <1>6, GoesIsPromised
<1>9. ASSUME NEW n \in Machines, n # child, n # p PROVE PromiseStep(n)
    BY <1>6, <1>9, SameStutters DEF Same
<1>10. moved.status = "running" => moved.cur_state < NrStates[p]
    BY <1>1, <1>5, StatesAssumption DEF Goes, Ends, WorksOn
<1>11. PlaceInv'
    BY <1>6, <1>10 DEF PlaceInv, Idle
<1> QED
    BY <1>7, <1>8, <1>9, <1>11 DEF Promised

PromiseInv == SsmInv /\ ErrorInv /\ PlaceInv

LEMMA NextIsPromised ==
    ASSUME JumpsStayInWork, PromiseInv, [Next]_vars
    PROVE  Promised
<1> SsmInv /\ ErrorInv /\ PlaceInv
    BY DEF PromiseInv
<1>a. ASSUME NEW m \in Machines, Calls(m)
      PROVE  /\ Movable(m, ssm[m]) /\ ssm[m] \in Machine /\ ssm[m].status = "running"
             /\ ssm[m].cur_state < NrStates[m] /\ ssm[m].cur_state \in Int
    BY <1>a, CallerIsMovable DEF PlaceInv, Machine
<1>1. CASE StartRoot
  <2> DEFINE s == CallHandler([Idle EXCEPT !.status = "running"], 0)
  <2>1. s.status = "running" /\ s.error = NoError /\ s.cur_state = 0
    BY DEF CallHandler, Idle
  <2>2. /\ ssm[Root].status = "none" /\ ssm[Root].error = NoError
        /\ ssm' = [ssm EXCEPT ![Root] = s]
    BY <1>1, RootAssumption DEF StartRoot, ErrorInv
  <2> HIDE DEF s
  <2>3. ssm'[Root] = s /\ \A n \in Machines : n # Root => ssm'[n] = ssm[n]
    BY <2>2, RootAssumption DEF SsmInv, TypeOK
  <2>4. PromiseStep(Root)
    BY <2>1, <2>2, <2>3, RootAssumption, StartIsPromised
  <2>5. ASSUME NEW n \in Machines, n # Root PROVE PromiseStep(n)
    BY <2>3, <2>5, SameStutters DEF Same
  <2>6. 0 < NrStates[Root]
    BY StatesAssumption, RootAssumption
  <2>7. PlaceInv'
    BY <2>1, <2>3, <2>6 DEF PlaceInv
  <2> QED
    BY <2>4, <2>5, <2>7 DEF Promised
<1>2. CASE RootComplete
  <2>1. ssm'[Root] = Idle /\ \A n \in Machines : n # Root => ssm'[n] = ssm[n]
    BY <1>2, RootAssumption DEF RootComplete, SsmInv, TypeOK
  <2>2. PromiseStep(Root)
    BY <1>2, <2>1, RootAssumption, FinishIsPromised DEF RootComplete
  <2>3. ASSUME NEW n \in Machines, n # Root PROVE PromiseStep(n)
    BY <2>1, <2>3, SameStutters DEF Same
  <2>4. PlaceInv'
    BY <2>1 DEF PlaceInv, Idle
  <2> QED
    BY <2>2, <2>3, <2>4 DEF Promised
<1>3. ASSUME NEW m \in Machines, StartSubsm(m) PROVE Promised
    BY <1>3, StartSubsmIsPromised
<1>4. ASSUME NEW m \in Machines, AdvanceState(m) PROVE Promised
  <2>1. Calls(m) /\ ssm' = [ssm EXCEPT ![m] = NextState(m, ssm[m])]
    BY <1>4 DEF AdvanceState
  <2>2. Goes(m, ssm[m], NextState(m, ssm[m]))
    BY <1>a, <2>1, NextStateGoes
  <2> QED
    BY <1>a, <2>1, <2>2, OneGoes
<1>5. ASSUME NEW m \in Machines, NEW state \in 0..NrStates[m], Jump(m, state) PROVE Promised
  <2>1. Calls(m) /\ CanJump(m, state) /\ ssm' = [ssm EXCEPT ![m] = JumpToState(m, ssm[m], state)]
    BY <1>5 DEF Jump
  <2>2. state \in Int
    BY StatesAreIntegers
  <2>3. ssm[m].cur_state < StartCleanup[m] /\ state <= StartCleanup[m]
    BY <1>a, <2>1, <2>2 DEF CanJump, JumpsStayInWork
  <2>4. Goes(m, ssm[m], JumpToState(m, ssm[m], state))
    BY <1>a, <2>1, <2>2, <2>3, JumpToStateGoes
  <2> QED
    BY <1>a, <2>1, <2>4, OneGoes
<1>6. ASSUME NEW m \in Machines, Complete(m) PROVE Promised
  <2>1. Calls(m) /\ ssm' = [ssm EXCEPT ![m] = MarkCompleted(m, ssm[m])]
    BY <1>6 DEF Complete
  <2>2. Goes(m, ssm[m], MarkCompleted(m, ssm[m]))
    BY <1>a, <2>1, MarkCompletedGoes DEF Goes
  <2> QED
    BY <1>a, <2>1, <2>2, OneGoes
<1>7. ASSUME NEW m \in Machines, NEW e \in Errors, Fail(m, e) PROVE Promised
  <2>1. Calls(m) /\ ssm' = [ssm EXCEPT ![m] = MarkFailed(m, ssm[m], e)]
    BY <1>7 DEF Fail
  <2>2. Goes(m, ssm[m], MarkFailed(m, ssm[m], e))
    BY <1>a, <2>1, MarkFailedGoes DEF Goes
  <2> QED
    BY <1>a, <2>1, <2>2, OneGoes
<1>8. ASSUME NEW m \in Machines, NEW e \in Errors \union {NoError}, TransferDone(m, e)
      PROVE  Promised
  <2>1. Calls(m) /\ ssm' = [ssm EXCEPT ![m] = Outcome(m, ssm[m], e)]
    BY <1>8 DEF TransferDone
  <2>2. Goes(m, ssm[m], Outcome(m, ssm[m], e))
    BY <1>a, <2>1, OutcomeGoes
  <2> QED
    BY <1>a, <2>1, <2>2, OneGoes
<1>9. ASSUME NEW m \in Machines, NEW action, Delay(m, action) PROVE Promised
  <2> DEFINE s == [ssm[m] EXCEPT !.owed = FALSE, !.timeout = action]
  <2>1. Calls(m) /\ ssm' = [ssm EXCEPT ![m] = s]
    BY <1>9 DEF Delay
  <2>2. Same(ssm[m], s)
    BY <1>a, <2>1 DEF Same, Machine
  <2> HIDE DEF s
  <2> QED
    BY <1>a, <2>1, <2>2, OneGoes
<1>10. ASSUME NEW m \in Machines,
              \/ CompleteDelayed(m) \/ NextStateDelayed(m)
              \/ \E state \in 0..NrStates[m] : JumpDelayed(m, state)
       PROVE  Promised
    BY <1>9, <1>10 DEF CompleteDelayed, NextStateDelayed, JumpDelayed
<1>11. ASSUME NEW m \in Machines, CancelDelayed(m) PROVE Promised
  <2> DEFINE s == [ssm[m] EXCEPT !.timeout = NoTimeout, !.owed = TRUE]
  <2>1. ssm[m].status = "running" /\ ssm[m] \in Machine /\ ssm' = [ssm EXCEPT ![m] = s]
    BY <1>11 DEF CancelDelayed, SsmInv, TypeOK
  <2>2. Same(ssm[m], s)
    BY <2>1 DEF Same, Machine
  <2> HIDE DEF s
  <2> QED
    BY <2>1, <2>2, OneGoes
<1>12. ASSUME NEW m \in Machines, TimeoutElapsed(m) PROVE Promised
  <2>1. Delayed(m) /\ ssm[m].timeout # NoTimeout
    BY <1>12 DEF TimeoutElapsed, Delayed
  <2>2. /\ ssm[m] \in Machine /\ ssm[m].status = "running" /\ TimeoutIsJump(m, ssm[m])
        /\ ssm[m].cur_state < NrStates[m]
    BY <2>1 DEF SsmInv, TypeOK, MachinesInv, OneMover, PlaceInv
  <2> DEFINE s == Elapsed(m, ForgetTimeout(ssm[m]), ssm[m].timeout)
  <2>3. Goes(m, ssm[m], s)
    BY <2>1, <2>2, ElapsedGoes
  <2>4. ssm' = [ssm EXCEPT ![m] = s]
    BY <1>12 DEF TimeoutElapsed
  <2> HIDE DEF s
  <2> QED
    BY <2>2, <2>3, <2>4, OneGoes
<1>13. ASSUME NEW m \in Machines, SubsmComplete(m) PROVE Promised
    BY <1>13, SubsmCompleteIsPromised
<1>14. CASE UNCHANGED vars
  <2>1. PlaceInv'
    BY <1>14 DEF vars, PlaceInv
  <2>2. ASSUME NEW n \in Machines PROVE PromiseStep(n)
    BY <1>14, SameStutters DEF vars, Same
  <2> QED
    BY <2>1, <2>2 DEF Promised
<1> QED
    BY <1>1, <1>2, <1>3, <1>4, <1>5, <1>6, <1>7, <1>8, <1>10, <1>11, <1>12, <1>13, <1>14
    DEF Next

\* Every machine, with all its sub-machines, delays and failures, does what SsmPromise
\* allows: its work, every cleanup state once and in order, and one callback with the
\* first of its errors (fpi-ssm.c: cleanup states "will never be skipped"), for drivers
\* that jump within the work or to the start of the cleanup.
THEOREM KeepsPromiseCorrect == JumpsStayInWork => (Spec => KeepsPromise)
<1> DEFINE AllSteps == \A m \in Machines : [Promise(m)!Next]_(Promise(m)!vars)
           AllInit == \A m \in Machines : Promise(m)!Init
<1> SUFFICES ASSUME JumpsStayInWork PROVE Spec => KeepsPromise
    OBVIOUS
<1>1. Init => PromiseInv
  <2>1. Init => ErrorInv /\ PlaceInv
    BY DEF Init, ErrorInv, Idle, PlaceInv
  <2> QED
    BY <2>1, InitEstablishesSsmInv DEF PromiseInv
<1>2. PromiseInv /\ [Next]_vars => PromiseInv'
    BY NextKeepsSsmInv, NextKeepsErrorInv, NextIsPromised, StayInWorkStays
    DEF PromiseInv, Promised
<1>3. PromiseInv /\ [Next]_vars => AllSteps
    BY NextIsPromised DEF PromiseStep, Promised
<1>4. Init => AllInit
  <2> SUFFICES ASSUME Init, NEW m \in Machines PROVE Promise(m)!Init
    OBVIOUS
  <2>1. ssm[m].status = "none" /\ ssm[m].error = NoError
    BY DEF Init, Idle
  <2> QED
    BY <2>1 DEF Promise!Init, Promise!NoCleanup, InCleanup
<1>5. AllInit /\ [][AllSteps]_vars => KeepsPromise
    BY DEF KeepsPromise
<1> HIDE DEF AllSteps, AllInit
<1>6. PromiseInv /\ [Next]_vars => [AllSteps]_vars
    BY <1>3
<1> QED
    BY <1>1, <1>2, <1>4, <1>5, <1>6, PTL DEF Spec
=============================================================================
