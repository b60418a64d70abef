------------------------ MODULE VirtualDevice_proofs ------------------------
EXTENDS VirtualDevice, WellFoundedInduction, TLAPS

Assertions == {"wait_command_id", "sleep_timeout_id", "injected_synthetic_cmd",
               "not_sleeping", "action_error", "fpi-data"}
Actions == Scanning \union Managing \union {"NONE"}
Reports == {"none", "retry", "match", "no_match"}
Kinds == {"match", "no_match", "retry", "general", "error", "cancelled", "duplicate",
          "enrolled", "done", "not_found", "timed_out"}
Returned == {<<>>} \union {<<r>> : r \in Kinds}
Fingers == SUBSET {"needed", "present"}
SomeId == Ids \union {NoId}

\* Queued commands
Queued == {c \in [cmd : CommandNames, id : SomeId, synthetic : BOOLEAN] :
               c.cmd = "SCAN" => c.id \in Ids}

Data == [pending : Seq(Queued), storage : SUBSET Ids, wait : BOOLEAN, sleep : BOOLEAN,
         stages : Nat, reported : BOOLEAN, supports : BOOLEAN, injected : BOOLEAN,
         keep_alive : BOOLEAN, listening : BOOLEAN, action : Actions, open : BOOLEAN,
         removed : BOOLEAN, cancelled : BOOLEAN, cancel_due : BOOLEAN, finger : Fingers,
         report : Reports, print : SomeId, progress : Nat, results : Returned,
         failed : SUBSET Assertions]

-----------------------------------------------------------------------------
(* The queue *)

\* A set of numbers has a smallest one.
LEMMA SmallestNumber ==
    ASSUME NEW S \in SUBSET Nat, S # {}
    PROVE  Min(S) \in S
<1> DEFINE R == {ss \in Nat \X Nat : ss[1] < ss[2]}
<1>1. IsWellFoundedOn(R, Nat)
    BY NatLessThanWellFounded DEF OpToRel
<1>2. PICK x \in S : \A y \in S : ~ (<<y, x>> \in R)
    BY <1>1, WFMin
<1>3. \A y \in S : x <= y
    <2> TAKE y \in S
    <2>1. y \in Nat /\ x \in Nat /\ ~ (<<y, x>> \in R)
        BY <1>2
    <2>2. y < x => <<y, x>> \in R
        BY <2>1
    <2> QED
        BY <2>1, <2>2
<1> QED
    BY <1>3 DEF Min

\* FirstStop is the place of a command that ends the loop, if there is one.
LEMMA FirstStopStops ==
    ASSUME NEW q \in Seq(Queued), NEW scan \in BOOLEAN
    PROVE  /\ FirstStop(q, scan) \in 0..Len(q)
           /\ FirstStop(q, scan) # 0 => Stops(q[FirstStop(q, scan)], scan)
           /\ FirstStop(q, scan) = 0 => \A i \in 1..Len(q) : ~Stops(q[i], scan)
<1> DEFINE S == {i \in 1..Len(q) : Stops(q[i], scan)}
<1>1. FirstStop(q, scan) = IF S # {} THEN Min(S) ELSE 0
    BY DEF FirstStop, SelectInSeq
<1>2. S \in SUBSET Nat /\ \A i \in S : i \in 1..Len(q) /\ Stops(q[i], scan)
    OBVIOUS
<1>3. S # {} => Min(S) \in S
    BY <1>2, SmallestNumber
<1>4. S = {} => \A i \in 1..Len(q) : ~Stops(q[i], scan)
    OBVIOUS
<1>5. Len(q) \in Nat
    OBVIOUS
<1> HIDE DEF S
<1>6. CASE S = {}
    BY <1>1, <1>4, <1>5, <1>6
<1>7. CASE S # {}
    <2>1. FirstStop(q, scan) \in S
        BY <1>1, <1>3, <1>7
    <2>2. FirstStop(q, scan) \in 1..Len(q) /\ Stops(q[FirstStop(q, scan)], scan)
        BY <1>2, <2>1
    <2> QED
        BY <1>5, <2>2
<1> QED
    BY <1>6, <1>7

\* A command at the head that ends the loop is the first one.
LEMMA HeadStops ==
    ASSUME NEW q \in Seq(Queued), NEW scan \in BOOLEAN, q # <<>>, Stops(Head(q), scan)
    PROVE  FirstStop(q, scan) = 1
<1> DEFINE S == {i \in 1..Len(q) : Stops(q[i], scan)}
<1>1. FirstStop(q, scan) = IF S # {} THEN Min(S) ELSE 0
    BY DEF FirstStop, SelectInSeq
<1>2. 1 \in S /\ \A i \in S : 1 <= i /\ i \in Nat
    OBVIOUS
<1> HIDE DEF S
<1>3. Min(S) = 1
    BY <1>2 DEF Min
<1> QED
    BY <1>1, <1>2, <1>3

LEMMA StoredAfterIsStorage ==
    ASSUME NEW v, NEW cs
    PROVE  StoredAfter(v, cs) \in SUBSET Ids
BY DEF StoredAfter, SelectLastInSeq

\* What process_cmds leaves alone
KeepsOperation(v, w) ==
    /\ w \in Data
    /\ w.stages = v.stages /\ w.reported = v.reported /\ w.action = v.action
    /\ w.removed = v.removed /\ w.cancelled = v.cancelled /\ w.cancel_due = v.cancel_due
    /\ w.report = v.report /\ w.print = v.print /\ w.progress = v.progress
    /\ w.results = v.results

NoSleep(q) == \A i \in 1..Len(q) : q[i].cmd # "SLEEP"

\* Commands are taken from the front of the queue.
LEMMA TakenKeeps ==
    ASSUME NEW v \in Data, NEW scan \in BOOLEAN, NEW w, w = Taken(v, scan)
    PROVE  /\ KeepsOperation(v, w)
           /\ w.sleep = v.sleep /\ w.wait = v.wait /\ w.injected = v.injected
           /\ w.failed = v.failed
           /\ NoSleep(v.pending) => NoSleep(w.pending)
<1> DEFINE stop == FirstStop(v.pending, scan)
           last == IF stop = 0 THEN Len(v.pending) ELSE stop
           skipped == SubSeq(v.pending, 1, IF stop = 0 THEN last ELSE stop - 1)
           left == SubSeq(v.pending, last + 1, Len(v.pending))
           storage == StoredAfter(v, skipped)
           finger == FingerAfter(v, skipped)
<1>1. v.pending \in Seq(Queued) /\ v.finger \in Fingers
    BY DEF Data
<1>2. last \in 0..Len(v.pending) /\ Len(v.pending) \in Nat
    BY <1>1, FirstStopStops
<1>3. w = [[v EXCEPT !.storage = storage, !.finger = finger] EXCEPT
              !.pending = SubSeq(@, last + 1, Len(@))]
    BY DEF Taken, Applied
<1>4. storage \in SUBSET Ids
    BY StoredAfterIsStorage
<1>5. finger \in Fingers
    BY <1>1 DEF FingerAfter, Fingers
<1> HIDE DEF last
<1>6. left \in Seq(Queued) /\ (NoSleep(v.pending) => NoSleep(left))
    BY <1>1, <1>2 DEF NoSleep
<1> HIDE DEF storage, finger
<1>7. w = [v EXCEPT !.storage = storage, !.finger = finger, !.pending = left]
    BY <1>3 DEF Data
<1> HIDE DEF left
<1>8. w \in Data
    BY <1>4, <1>5, <1>6, <1>7 DEF Data
<1> QED
    BY <1>6, <1>7, <1>8 DEF Data, KeepsOperation

\* What process_cmds answers for the device v: a command that ends it, a cancellation, or
\* that there is something to wait for.
Processed(v, scan, r) ==
    /\ KeepsOperation(v, r.vdev)
    /\ r.vdev.injected = v.injected /\ r.vdev.failed = v.failed
    /\ NoSleep(v.pending) => NoSleep(r.vdev.pending)
    /\ r.done \in BOOLEAN /\ r.id \in SomeId
    /\ r.error \in {"none", "error", "retry", "cancelled"}
    /\ r.done => ~r.vdev.sleep /\ ~r.vdev.wait
    /\ ~(r.vdev.sleep /\ r.vdev.wait)
    /\ r.vdev.wait => ~scan \/ v.removed
    /\ v.cancelled <=> r.error = "cancelled"
    /\ v.cancelled => r.done
    /\ r.done /\ scan /\ r.error = "none" => r.id \in Ids
    /\ r.error # "none" => r.id = NoId
    /\ r.error = "retry" => scan

\* The command that ends the loop, if there is one, comes from the queue.
LEMMA StopCommandStops ==
    ASSUME NEW v \in Data, NEW scan \in BOOLEAN, NEW c, c = StopCommand(v, scan)
    PROVE  /\ c.id \in SomeId /\ (c.cmd = "SCAN" => c.id \in Ids)
           /\ NoSleep(v.pending) => c.cmd # "SLEEP"
<1>1. v.pending \in Seq(Queued)
    BY DEF Data
<1>2. CASE FirstStop(v.pending, scan) = 0
    BY <1>2 DEF StopCommand, Command, SomeId
<1>3. CASE FirstStop(v.pending, scan) # 0
    <2>1. FirstStop(v.pending, scan) \in 1..Len(v.pending) /\ c = v.pending[FirstStop(v.pending, scan)]
        BY <1>1, <1>3, FirstStopStops DEF StopCommand
    <2>2. c \in Queued
        BY <1>1, <2>1
    <2> QED
        BY <2>1, <2>2 DEF Queued, NoSleep
<1> QED
    BY <1>2, <1>3

\* No assertion fails where it holds.
LEMMA AssertedHolds ==
    ASSUME NEW v, NEW name
    PROVE  Asserted(v, TRUE, name) = v
BY DEF Asserted

LEMMA StoppedAnswers ==
    ASSUME NEW v \in Data, NEW scan \in BOOLEAN, NEW ignore_wait \in BOOLEAN,
           ~v.sleep, ~v.wait, ~v.cancelled, scan => ~ignore_wait,
           NEW c, c.id \in SomeId, c.cmd = "SCAN" => c.id \in Ids,
           NEW r, r = Stopped(v, c, scan, ignore_wait)
    PROVE  /\ Processed(v, scan, r)
           /\ c.cmd = "SLEEP" => ~r.done /\ r.vdev.sleep /\ ~r.vdev.wait
<1>1. (~v.sleep) = TRUE /\ (~v.wait) = TRUE
    OBVIOUS
<1>2. NoId \in SomeId
    BY DEF SomeId
<1>3. CASE c.cmd = "SLEEP"
    <2>1. r = Answer([v EXCEPT !.sleep = TRUE], FALSE, NoId, "none")
        BY <1>1, <1>3, AssertedHolds DEF Stopped
    <2>2. [v EXCEPT !.sleep = TRUE] \in Data
        BY DEF Data
    <2> QED
        BY <1>2, <2>1, <2>2 DEF Answer, Processed, KeepsOperation, Data
<1>4. CASE c.cmd = "ERROR"
    <2>1. r = Answer(v, TRUE, NoId, "error")
        BY <1>4 DEF Stopped
    <2>2. r.vdev = v /\ r.done = TRUE /\ r.id = NoId /\ r.error = "error"
        BY <2>1 DEF Answer
    <2> QED
        BY <1>2, <1>4, <2>2 DEF Processed, KeepsOperation
<1>5. CASE c.cmd = "CONT" /\ ~scan
    <2>1. r = Answer(v, TRUE, NoId, "none")
        BY <1>5 DEF Stopped
    <2>2. r.vdev = v /\ r.done = TRUE /\ r.id = NoId /\ r.error = "none"
        BY <2>1 DEF Answer
    <2> QED
        BY <1>2, <1>5, <2>2 DEF Processed, KeepsOperation
<1>6. CASE c.cmd = "SCAN" /\ scan
    <2>1. r = Answer(v, TRUE, c.id, "none")
        BY <1>6 DEF Stopped
    <2>2. r.vdev = v /\ r.done = TRUE /\ r.id = c.id /\ r.error = "none"
        BY <2>1 DEF Answer
    <2> QED
        BY <1>2, <1>6, <2>2 DEF Processed, KeepsOperation
<1>7. CASE c.cmd = "RETRY" /\ scan
    <2>1. r = Answer(v, TRUE, NoId, "retry")
        BY <1>7 DEF Stopped
    <2>2. r.vdev = v /\ r.done = TRUE /\ r.id = NoId /\ r.error = "retry"
        BY <2>1 DEF Answer
    <2> QED
        BY <1>2, <1>7, <2>2 DEF Processed, KeepsOperation
<1>8. CASE /\ c.cmd # "SLEEP" /\ c.cmd # "ERROR" /\ ~(c.cmd = "CONT" /\ ~scan)
           /\ ~(c.cmd = "SCAN" /\ scan) /\ ~(c.cmd = "RETRY" /\ scan)
    <2>1. r = AwaitCommand(v, scan, ignore_wait)
        BY <1>8 DEF Stopped
    <2>2. CASE ignore_wait
        <3>1. r = Answer(v, TRUE, NoId, "none") /\ ~scan
            BY <2>1, <2>2 DEF AwaitCommand
        <3> QED
            BY <1>2, <1>8, <3>1 DEF Answer, Processed, KeepsOperation, Data
    <2>3. CASE ~ignore_wait
        <3>1. r = Answer([v EXCEPT !.wait = ~scan \/ v.removed], FALSE, NoId, "none")
            BY <1>1, <2>1, <2>3, AssertedHolds DEF AwaitCommand
        <3> DEFINE w == [v EXCEPT !.wait = ~scan \/ v.removed]
        <3>2. w \in Data /\ w.wait = (~scan \/ v.removed) /\ w.sleep = v.sleep
            BY DEF Data
        <3>3. KeepsOperation(v, w) /\ w.injected = v.injected /\ w.failed = v.failed
              /\ w.pending = v.pending
            BY <3>2 DEF KeepsOperation, Data
        <3> HIDE DEF w
        <3>4. r.vdev = w /\ r.done = FALSE /\ r.id = NoId /\ r.error = "none"
            BY <3>1 DEF Answer, w
        <3> QED
            BY <1>2, <1>8, <3>2, <3>3, <3>4 DEF Processed
    <2> QED
        BY <2>2, <2>3
<1> QED
    BY <1>3, <1>4, <1>5, <1>6, <1>7, <1>8

\* process_cmds, as long as neither timer runs
LEMMA ProcessCmdsAnswers ==
    ASSUME NEW v \in Data, NEW scan \in BOOLEAN, NEW ignore_wait \in BOOLEAN,
           v.action # "NONE", ~v.sleep, ~v.wait, scan => ~ignore_wait,
           NEW r, r = ProcessCmds(v, scan, ignore_wait)
    PROVE  /\ Processed(v, scan, r)
           /\ v.cancelled => r.vdev = v
           /\ ~v.cancelled /\ v.pending # <<>> /\ Head(v.pending).cmd = "SLEEP" =>
                  ~r.done /\ r.vdev.sleep /\ ~r.vdev.wait
<1>1. CASE v.cancelled
    <2>1. r = Answer(v, TRUE, NoId, "cancelled")
        BY <1>1 DEF ProcessCmds
    <2>2. NoId \in SomeId
        BY DEF SomeId
    <2>3. r.vdev = v /\ r.done = TRUE /\ r.id = NoId /\ r.error = "cancelled"
        BY <2>1 DEF Answer
    <2> QED
        BY <1>1, <2>2, <2>3 DEF Processed, KeepsOperation
<1>2. CASE ~v.cancelled
    <2> DEFINE w == Taken(v, scan)
               c == StopCommand(v, scan)
    <2>1. r = Stopped(w, c, scan, ignore_wait)
        BY <1>2 DEF ProcessCmds
    <2>2. /\ KeepsOperation(v, w) /\ w.sleep = v.sleep /\ w.wait = v.wait
          /\ w.injected = v.injected /\ w.failed = v.failed
          /\ NoSleep(v.pending) => NoSleep(w.pending)
        BY TakenKeeps
    <2>3. c.id \in SomeId /\ (c.cmd = "SCAN" => c.id \in Ids)
        BY StopCommandStops
    <2> HIDE DEF w, c
    <2>4. w \in Data /\ ~w.sleep /\ ~w.wait /\ ~w.cancelled
        BY <1>2, <2>2 DEF KeepsOperation
    <2>5. /\ Processed(w, scan, r)
          /\ c.cmd = "SLEEP" => ~r.done /\ r.vdev.sleep /\ ~r.vdev.wait
        BY <2>1, <2>3, <2>4, StoppedAnswers
    <2>6. Processed(v, scan, r)
        BY <2>2, <2>5 DEF Processed, KeepsOperation
    <2>7. v.pending # <<>> /\ Head(v.pending).cmd = "SLEEP" => c.cmd = "SLEEP"
        <3> SUFFICES ASSUME v.pending # <<>>, Head(v.pending).cmd = "SLEEP"
                     PROVE  c.cmd = "SLEEP"
            OBVIOUS
        <3>1. v.pending \in Seq(Queued)
            BY DEF Data
        <3>2. Stops(Head(v.pending), scan)
            BY DEF Stops
        <3>3. FirstStop(v.pending, scan) = 1
            BY <3>1, <3>2, HeadStops
        <3> QED
            BY <3>1, <3>3 DEF c, StopCommand
    <2> QED
        BY <1>2, <2>5, <2>6, <2>7
<1> QED
    BY <1>1, <1>2 DEF Data

-----------------------------------------------------------------------------
(* Scans and delays *)

\* What start_scan_command answers
Scanned(v, r) ==
    /\ KeepsOperation(v, r.vdev)
    /\ r.vdev.injected => v.injected
    /\ r.vdev.failed = v.failed
    /\ NoSleep(v.pending) => NoSleep(r.vdev.pending)
    /\ r.done \in BOOLEAN /\ r.id \in SomeId
    /\ r.error \in {"none", "error", "retry", "cancelled"}
    /\ r.done => ~r.vdev.sleep /\ ~r.vdev.wait
    /\ ~(r.vdev.sleep /\ r.vdev.wait)
    /\ r.vdev.wait => v.removed
    /\ v.cancelled <=> r.error = "cancelled"
    /\ v.cancelled => r.done
    /\ r.done /\ r.error = "none" => r.id \in Ids
    /\ r.error # "none" => r.id = NoId

LEMMA StartScanAnswers ==
    ASSUME NEW v \in Data, v.action # "NONE", ~v.sleep, ~v.wait,
           NEW r, r = StartScan(v)
    PROVE  Scanned(v, r)
<1> DEFINE w == [v EXCEPT !.injected = @ /\ v.finger # {}]
           q == ProcessCmds(w, TRUE, FALSE)
           needed == IF q.done \/ ~q.vdev.sleep THEN {"needed"} ELSE {}
           present == IF q.done /\ q.error = "none" THEN {"present"} ELSE {}
           finger == q.vdev.finger \union needed \union present
<1>1. /\ w \in Data /\ KeepsOperation(v, w) /\ (w.injected => v.injected)
      /\ w.failed = v.failed /\ w.pending = v.pending
      /\ w.sleep = v.sleep /\ w.wait = v.wait
    BY DEF Data, KeepsOperation
<1>2. r = Answer([q.vdev EXCEPT !.finger = @ \union needed \union present],
                 q.done, q.id, q.error)
    BY DEF StartScan
<1> HIDE DEF w
<1>3. w.action # "NONE" /\ ~w.sleep /\ ~w.wait
    BY <1>1 DEF KeepsOperation
<1>4. Processed(w, TRUE, q)
    BY <1>1, <1>3, ProcessCmdsAnswers
<1>5. q.vdev \in Data
    BY <1>4 DEF Processed, KeepsOperation
<1>6. needed \in Fingers /\ present \in Fingers
    BY DEF Fingers
<1> HIDE DEF q, needed, present
<1>7. r.vdev = [q.vdev EXCEPT !.finger = finger] /\ r.done = q.done /\ r.id = q.id
      /\ r.error = q.error
    BY <1>2 DEF Answer
<1>8. q.vdev \in Data /\ q.vdev.finger \in Fingers
    BY <1>5 DEF Data
<1>9. finger \in Fingers
    BY <1>6, <1>8 DEF Fingers
<1> HIDE DEF finger
<1> DEFINE x == r.vdev
<1>10. /\ x \in Data /\ KeepsOperation(q.vdev, x) /\ x.injected = q.vdev.injected
       /\ x.failed = q.vdev.failed /\ x.pending = q.vdev.pending
       /\ x.sleep = q.vdev.sleep /\ x.wait = q.vdev.wait
    BY <1>7, <1>8, <1>9 DEF Data, KeepsOperation
<1> QED
    BY <1>1, <1>4, <1>7, <1>10 DEF Processed, Scanned, KeepsOperation

\* A delay that follows a scan, which the vfunc was not told of before
DelayInv(v) == v.failed = {} /\ (v.injected => NoSleep(v.pending))

LEMMA InjectedIsQueued ==
    ASSUME NEW id \in SomeId, NEW error
    PROVE  Injected(id, error) \in Seq(Queued) /\ NoSleep(Injected(id, error))
<1>1. CASE id # NoId
    <2> DEFINE c == [Command("SCAN", id) EXCEPT !.synthetic = TRUE]
    <2>1. c \in Queued /\ c.cmd = "SCAN"
        BY <1>1 DEF Command, Queued, CommandNames, SomeId
    <2> HIDE DEF c
    <2>2. Injected(id, error) = <<c>>
        BY <1>1 DEF Injected, c
    <2> QED
        BY <2>1, <2>2 DEF NoSleep
<1>2. CASE id = NoId /\ error = "error"
    <2> DEFINE c == [Command("ERROR", NoId) EXCEPT !.synthetic = TRUE]
    <2>1. c \in Queued /\ c.cmd = "ERROR"
        BY DEF Command, Queued, CommandNames, SomeId
    <2> HIDE DEF c
    <2>2. Injected(id, error) = <<c>>
        BY <1>2 DEF Injected, c
    <2> QED
        BY <2>1, <2>2 DEF NoSleep
<1>3. CASE id = NoId /\ error # "error"
    BY <1>3 DEF Injected, NoSleep
<1> QED
    BY <1>1, <1>2, <1>3

LEMMA AssertedKeeps ==
    ASSUME NEW v \in Data, NEW holds, NEW name \in Assertions, NEW w, w = Asserted(v, holds, name)
    PROVE  /\ KeepsOperation(v, w)
           /\ w.sleep = v.sleep /\ w.wait = v.wait /\ w.injected = v.injected
           /\ w.pending = v.pending
<1>1. v.failed \union {name} \in SUBSET Assertions
    BY DEF Data
<1>2. w = v \/ w = [v EXCEPT !.failed = v.failed \union {name}]
    BY DEF Asserted
<1> QED
    BY <1>1, <1>2 DEF Data, KeepsOperation

\* should_wait_to_sleep delays what was scanned, unless the operation is cancelled.
LEMMA ShouldWaitDelays ==
    ASSUME NEW v \in Data, v.action # "NONE", ~v.sleep, ~v.wait, NEW id \in SomeId,
           NEW error, error = "cancelled" => v.cancelled,
           NEW w, w = ShouldWait(v, id, error)
    PROVE  /\ KeepsOperation(v, w) /\ ~w.wait
           /\ w.sleep => error # "cancelled"
           /\ DelayInv(v) /\ (v.cancelled => error = "cancelled") => DelayInv(w)
<1>1. CASE ~(v.pending # <<>> /\ Head(v.pending).cmd = "SLEEP")
    <2>1. w = v
        BY <1>1 DEF ShouldWait
    <2> QED
        BY <2>1 DEF KeepsOperation
<1>2. CASE v.pending # <<>> /\ Head(v.pending).cmd = "SLEEP"
    <2> DEFINE r == ProcessCmds(v, FALSE, FALSE)
               told == Asserted(r.vdev, ~v.injected, "injected_synthetic_cmd")
               asleep == Asserted(told, r.vdev.sleep, "not_sleeping")
               injected == Injected(id, error)
    <2>1. w = IF error = "cancelled" THEN r.vdev
              ELSE IF r.vdev.pending # <<>> \/ injected = <<>> THEN asleep
              ELSE [asleep EXCEPT !.pending = injected, !.injected = TRUE]
        BY <1>2 DEF ShouldWait, SleepFirst
    <2>2. /\ Processed(v, FALSE, r)
          /\ v.cancelled => r.vdev = v
          /\ ~v.cancelled => r.vdev.sleep /\ ~r.vdev.wait
        BY <1>2, ProcessCmdsAnswers
    <2>3. injected \in Seq(Queued) /\ NoSleep(injected)
        BY InjectedIsQueued
    <2> HIDE DEF r, injected
    <2>4. r.vdev \in Data /\ KeepsOperation(v, r.vdev)
        BY <2>2 DEF Processed, KeepsOperation
    <2>5. CASE error = "cancelled"
        <3>1. w = v
            BY <2>1, <2>2, <2>5
        <3> QED
            BY <3>1, <2>5 DEF KeepsOperation
    <2>6. CASE error # "cancelled"
        <3>1. /\ KeepsOperation(r.vdev, told)
              /\ told.sleep = r.vdev.sleep /\ told.wait = r.vdev.wait
              /\ told.injected = r.vdev.injected /\ told.pending = r.vdev.pending
            BY <2>4, AssertedKeeps DEF Assertions
        <3>2. told \in Data
            BY <3>1 DEF KeepsOperation
        <3>3. /\ KeepsOperation(told, asleep)
              /\ asleep.sleep = told.sleep /\ asleep.wait = told.wait
              /\ asleep.injected = told.injected /\ asleep.pending = told.pending
            BY <3>2, AssertedKeeps DEF Assertions
        <3>4. /\ KeepsOperation(v, asleep)
              /\ asleep.wait = r.vdev.wait /\ asleep.injected = v.injected
              /\ asleep.pending = r.vdev.pending
            BY <2>2, <2>4, <3>1, <3>3 DEF KeepsOperation, Processed
        <3>5. ~asleep.wait
            BY <2>2, <3>4
        <3>6. ASSUME DelayInv(v), ~v.cancelled
              PROVE  asleep.failed = {} /\ ~v.injected
            <4>1. ~v.injected
                <5>1. v.pending \in Seq(Queued)
                    BY DEF Data
                <5>2. 1 \in 1..Len(v.pending) /\ v.pending[1].cmd = "SLEEP"
                    BY <1>2, <5>1
                <5> QED
                    BY <3>6, <5>2 DEF DelayInv, NoSleep
            <4>2. (~v.injected) = TRUE /\ r.vdev.sleep = TRUE
                BY <2>2, <2>4, <3>6, <4>1 DEF Data
            <4>3. told = r.vdev
                BY <4>2, AssertedHolds
            <4>4. asleep = told
                BY <4>2, AssertedHolds
            <4> QED
                BY <2>2, <3>6, <4>1, <4>3, <4>4 DEF DelayInv, Processed
        <3> HIDE DEF told, asleep
        <3>7. CASE r.vdev.pending # <<>> \/ injected = <<>>
            <4>1. w = asleep
                BY <2>1, <2>6, <3>7
            <4> QED
                BY <2>6, <3>4, <3>5, <3>6, <4>1 DEF DelayInv
        <3>8. CASE ~(r.vdev.pending # <<>> \/ injected = <<>>)
            <4>1. w = [asleep EXCEPT !.pending = injected, !.injected = TRUE]
                BY <2>1, <2>6, <3>8
            <4>2. asleep \in Data
                BY <3>4 DEF KeepsOperation
            <4>3. /\ KeepsOperation(asleep, w) /\ w.wait = asleep.wait
                  /\ w.failed = asleep.failed /\ w.pending = injected
                BY <2>3, <4>1, <4>2 DEF Data, KeepsOperation
            <4> QED
                BY <2>3, <2>6, <3>4, <3>5, <3>6, <4>3 DEF DelayInv, KeepsOperation
        <3> QED
            BY <3>7, <3>8
    <2> QED
        BY <2>5, <2>6
<1> QED
    BY <1>1, <1>2

-----------------------------------------------------------------------------
(* The invariants.  A vfunc starts in a device that is Ready and Sound.      *)

Matching == {"VERIFY", "IDENTIFY"}

\* What a match that was reported to the vfunc stands for
ReportedInv(v) ==
    v.reported => \/ v.removed
                  \/ v.action \in Matching /\ v.results = <<>> /\ v.report # "none"

Separate(v) ==
    /\ v \in Data
    /\ v.action = "NONE" => v.results = <<>>
    /\ v.action = "NONE" \/ v.results # <<>> => ~v.sleep /\ ~v.wait /\ ~v.cancel_due
    /\ v.wait => ~v.sleep /\ (v.action \in Scanning => v.removed)
    /\ ReportedInv(v)
    /\ v.results # <<>> /\ v.stages > 0 /\ v.action = "ENROLL" =>
           v.removed \/ v.results = <<"duplicate">>
    /\ v.results = <<"enrolled">> => v.progress = NrStages /\ v.print \in v.storage
    /\ v.results = <<"general">> => v.removed

\* The print of the stages that were passed
StagesHavePrint(v) == v.action = "ENROLL" /\ v.results = <<>> /\ v.stages > 0 => v.print # NoId

AssertInv(v) ==
    /\ DelayInv(v) /\ StagesHavePrint(v)
    /\ v.cancel_due => v.cancelled
    /\ v.cancel_due /\ v.injected => v.pending # <<>> /\ Head(v.pending).synthetic

Ready(v) ==
    /\ v \in Data
    /\ v.action # "NONE" /\ v.results = <<>> /\ ~v.sleep /\ ~v.wait
    /\ ReportedInv(v)

Sound(v) == DelayInv(v) /\ StagesHavePrint(v) /\ (v.cancel_due => v.cancelled)

\* A vfunc called with v leaves w.
Leaves(v, w) == Separate(w) /\ (Sound(v) /\ Provoked = {} => AssertInv(w))

LEMMA ReturnedLists ==
    /\ <<>> \in Returned
    /\ \A r \in Kinds : <<r>> \in Returned /\ <<r>> # <<>> /\ Append(<<>>, r) = <<r>>
BY DEF Returned

\* An action is completed.
LEMMA CompletedKeeps ==
    ASSUME NEW v \in Data, v.results = <<>>, NEW result \in Kinds,
           NEW w, w = Completed(v, result)
    PROVE  /\ w \in Data
           /\ w.results = <<result>> /\ w.results # <<>> /\ ~w.cancel_due
           /\ w.stages = v.stages /\ w.reported = v.reported /\ w.action = v.action
           /\ w.removed = v.removed /\ w.print = v.print /\ w.progress = v.progress
           /\ w.storage = v.storage /\ w.sleep = v.sleep /\ w.wait = v.wait
           /\ w.injected = v.injected /\ w.pending = v.pending /\ w.failed = v.failed
<1> DEFINE results == Append(v.results, result)
           finger == IF v.action \in Scanning THEN {} ELSE v.finger
<1>1. results = <<result>> /\ results # <<>> /\ results \in Returned
    BY ReturnedLists
<1>2. finger \in Fingers
    BY DEF Data, Fingers
<1>3. w = [v EXCEPT !.cancel_due = FALSE, !.results = results, !.finger = finger]
    BY DEF Completed, Data
<1> HIDE DEF results, finger
<1>4. w \in Data
    BY <1>1, <1>2, <1>3 DEF Data
<1>5. w.cancel_due = FALSE /\ w.results = results
    BY <1>3 DEF Data
<1> QED
    BY <1>1, <1>3, <1>4, <1>5 DEF Data

LEMMA CompleteLeaves ==
    ASSUME NEW v, Ready(v), v.reported => v.removed, NEW result \in Kinds,
           v.action = "ENROLL" /\ v.stages > 0 => v.removed \/ result = "duplicate",
           result = "enrolled" => v.progress = NrStages /\ v.print \in v.storage,
           result = "general" => v.removed,
           NEW w, w = Completed(v, result)
    PROVE  Separate(w) /\ (DelayInv(v) => AssertInv(w))
<1>1. v \in Data /\ v.results = <<>> /\ ~v.sleep /\ ~v.wait /\ v.action # "NONE"
    BY DEF Ready
<1>2. /\ w \in Data
      /\ w.results = <<result>> /\ w.results # <<>> /\ ~w.cancel_due
      /\ w.stages = v.stages /\ w.reported = v.reported /\ w.action = v.action
      /\ w.removed = v.removed /\ w.print = v.print /\ w.progress = v.progress
      /\ w.storage = v.storage /\ w.sleep = v.sleep /\ w.wait = v.wait
      /\ w.injected = v.injected /\ w.pending = v.pending /\ w.failed = v.failed
    BY <1>1, CompletedKeeps
<1>3. /\ w.results = <<"enrolled">> => result = "enrolled"
      /\ w.results = <<"general">> => result = "general"
    BY <1>2
<1>4. Separate(w)
    BY <1>1, <1>2, <1>3 DEF Separate, ReportedInv
<1>5. DelayInv(v) => AssertInv(w)
    BY <1>2 DEF AssertInv, DelayInv, StagesHavePrint
<1> QED
    BY <1>4, <1>5

\* A report calls the user, who cancels at most.
LEMMA ReportedKeeps ==
    ASSUME NEW v, Ready(v), NEW w \in Reported(v)
    PROVE  /\ Ready(w)
           /\ w.stages = v.stages /\ w.reported = v.reported /\ w.action = v.action
           /\ w.removed = v.removed /\ w.print = v.print /\ w.progress = v.progress
           /\ w.report = v.report /\ (v.cancelled => w.cancelled)
           /\ Provoked = {} => w = v
<1>1. v \in Data
    BY DEF Ready
<1>2. w = v \/ ("cancel_in_callback" \in Provoked /\ w = Cancelled(v))
    BY DEF Reported
<1>3. CASE w = v
    BY <1>3
<1>4. CASE "cancel_in_callback" \in Provoked /\ w = Cancelled(v)
    BY <1>1, <1>4 DEF Cancelled, Ready, ReportedInv, Data
<1> QED
    BY <1>2, <1>3, <1>4

\* After a scan the device is still ready; without one it waits.
LEMMA ScannedReady ==
    ASSUME NEW v, Ready(v), NEW r, Scanned(v, r)
    PROVE  /\ r.done => Ready(r.vdev) /\ (Sound(v) => Sound(r.vdev))
           /\ ~r.done => Leaves(v, r.vdev)
<1>1. KeepsOperation(v, r.vdev)
    BY DEF Scanned
<1>2. r.done => Ready(r.vdev)
    BY <1>1 DEF Scanned, Ready, KeepsOperation, ReportedInv
<1>3. Sound(v) => DelayInv(r.vdev) /\ StagesHavePrint(r.vdev)
    BY <1>1 DEF Scanned, Sound, DelayInv, StagesHavePrint, KeepsOperation
<1>4. Sound(v) => Sound(r.vdev)
    BY <1>1, <1>3 DEF Sound, KeepsOperation
<1>5. ~r.done => Separate(r.vdev)
    BY <1>1 DEF Separate, Scanned, Ready, KeepsOperation, ReportedInv
<1>6. Sound(v) /\ ~r.done => ~r.vdev.cancel_due
    BY <1>1 DEF Scanned, Sound, KeepsOperation
<1> QED
    BY <1>2, <1>3, <1>4, <1>5, <1>6 DEF Leaves, AssertInv

LEMMA FingerGoneKeeps ==
    ASSUME NEW v, Ready(v), NEW w, w = FingerGone(v)
    PROVE  /\ Ready(w) /\ KeepsOperation(v, w)
           /\ w.storage = v.storage
           /\ Sound(v) => Sound(w)
<1>1. v \in Data
    BY DEF Ready
<1> DEFINE finger == v.finger \ {"present"}
<1>2. finger \in Fingers
    BY <1>1 DEF Data, Fingers
<1>3. w = [v EXCEPT !.finger = finger]
    BY <1>1 DEF FingerGone, Data
<1> HIDE DEF finger
<1>4. /\ KeepsOperation(v, w) /\ w.sleep = v.sleep /\ w.wait = v.wait
      /\ w.injected = v.injected /\ w.pending = v.pending /\ w.failed = v.failed
      /\ w.storage = v.storage
    BY <1>1, <1>2, <1>3 DEF Data, KeepsOperation
<1> QED
    BY <1>4 DEF Ready, Sound, ReportedInv, KeepsOperation, DelayInv, StagesHavePrint

\* A vfunc that has its scan either delays it or goes on.
LEMMA ShouldWaitReady ==
    ASSUME NEW v, Ready(v), NEW id \in SomeId,
           NEW error, error = "cancelled" => v.cancelled,
           NEW w, w = ShouldWait(v, id, error)
    PROVE  /\ KeepsOperation(v, w) /\ ~w.wait
           /\ Waits(w, error) => Separate(w)
           /\ ~Waits(w, error) => Ready(w)
           /\ Sound(v) /\ (v.cancelled => error = "cancelled") =>
                  Sound(w) /\ (Waits(w, error) => AssertInv(w))
<1>1. v \in Data /\ v.action # "NONE" /\ ~v.sleep /\ ~v.wait
    BY DEF Ready
<1>2. /\ KeepsOperation(v, w) /\ ~w.wait
      /\ w.sleep => error # "cancelled"
      /\ DelayInv(v) /\ (v.cancelled => error = "cancelled") => DelayInv(w)
    BY <1>1, ShouldWaitDelays
<1>3. Waits(w, error) => Separate(w)
    BY <1>2 DEF Separate, Waits, Ready, KeepsOperation, ReportedInv
<1>4. ~Waits(w, error) => Ready(w)
    BY <1>2 DEF Waits, Ready, KeepsOperation, ReportedInv
<1>5. Sound(v) /\ (v.cancelled => error = "cancelled") => Sound(w)
    BY <1>2 DEF Sound, KeepsOperation, StagesHavePrint
<1>6. ASSUME Sound(w), v.cancelled => error = "cancelled", Waits(w, error)
      PROVE  AssertInv(w)
    <2>1. ~w.cancel_due
        BY <1>2, <1>6 DEF Sound, Waits, KeepsOperation
    <2> QED
        BY <2>1, <1>6 DEF Sound, AssertInv
<1> QED
    BY <1>2, <1>3, <1>4, <1>5, <1>6

\* A verify or identify operation has reported before it completes.
LEMMA MatchReportedKeeps ==
    ASSUME NEW v, Ready(v), v.action \in Matching, NEW r, Scanned(v, r), r.done,
           NEW w \in MatchReported(r)
    PROVE  /\ Ready(w) /\ w.action = v.action /\ w.removed = v.removed
           /\ w.stages = v.stages
           /\ v.cancelled => w.cancelled
           /\ r.error \in {"none", "retry"} => w.report # "none" \/ w.removed
           /\ Provoked = {} => (Sound(v) => Sound(w)) /\ w.cancelled = v.cancelled
<1> DEFINE x == r.vdev
<1>1. Ready(x) /\ (Sound(v) => Sound(x)) /\ KeepsOperation(v, x)
    BY ScannedReady DEF Scanned
<1>2. x \in Data /\ x.action \in Matching /\ x.results = <<>>
    BY <1>1 DEF Ready, KeepsOperation
<1>3. ASSUME NEW y, Ready(y), y.report # "none", y.action = x.action, y.removed = x.removed,
             y.cancelled = x.cancelled, y.stages = x.stages, Sound(x) => Sound(y),
             w \in Reported(y)
      PROVE  /\ Ready(w) /\ w.action = v.action /\ w.removed = v.removed
             /\ w.stages = v.stages
             /\ v.cancelled => w.cancelled
             /\ r.error \in {"none", "retry"} => w.report # "none" \/ w.removed
             /\ Provoked = {} => (Sound(v) => Sound(w)) /\ w.cancelled = v.cancelled
    BY <1>1, <1>3, ReportedKeeps DEF KeepsOperation
<1>4. ASSUME w = x, r.error \in {"none", "retry"} => x.report # "none" \/ x.removed
      PROVE  /\ Ready(w) /\ w.action = v.action /\ w.removed = v.removed
             /\ w.stages = v.stages
             /\ v.cancelled => w.cancelled
             /\ r.error \in {"none", "retry"} => w.report # "none" \/ w.removed
             /\ Provoked = {} => (Sound(v) => Sound(w)) /\ w.cancelled = v.cancelled
    BY <1>1, <1>4 DEF KeepsOperation
<1> HIDE DEF x
<1>5. CASE r.error = "retry"
    <2>1. w \in Report(x, "retry")
        BY <1>5 DEF MatchReported, x
    <2>2. CASE x.report # "none"
        BY <1>4, <2>1, <2>2 DEF Report
    <2>3. CASE x.report = "none"
        <3> DEFINE y == [x EXCEPT !.report = "retry"]
        <3>1. /\ Ready(y) /\ y.report = "retry" /\ y.action = x.action
              /\ y.removed = x.removed /\ y.cancelled = x.cancelled /\ y.stages = x.stages
            BY <1>1, <1>2 DEF Ready, ReportedInv, Data, Reports
        <3>2. Sound(x) => Sound(y)
            BY <1>2 DEF Sound, DelayInv, StagesHavePrint, Data
        <3>3. w \in Reported(y)
            BY <2>1, <2>3 DEF Report
        <3> HIDE DEF y
        <3> QED
            BY <1>3, <3>1, <3>2, <3>3
    <2> QED
        BY <2>2, <2>3
<1>6. CASE r.error # "retry" /\ (r.id = NoId \/ x.reported)
    <2>1. w = x
        BY <1>6 DEF MatchReported, x
    <2>2. r.error = "none" => x.reported
        BY <1>6, IdsAssumption DEF Scanned
    <2>3. r.error = "none" => x.report # "none" \/ x.removed
        BY <1>1, <2>2 DEF Ready, ReportedInv
    <2> QED
        BY <1>4, <1>6, <2>1, <2>3
<1>7. CASE r.error # "retry" /\ ~(r.id = NoId \/ x.reported)
    <2> DEFINE z == [x EXCEPT !.reported = TRUE]
               report == Matches(x, r.id)
    <2>1. w \in Report(z, report)
        BY <1>7 DEF MatchReported, x
    <2>2. report \in Reports /\ report # "none"
        BY DEF Matches, Reports
    <2> HIDE DEF report
    <2>3. z \in Data /\ z.report = x.report
        BY <1>2 DEF Data
    <2>4. CASE z.report # "none"
        <3>1. w = z
            BY <2>1, <2>4 DEF Report
        <3>2. /\ Ready(z) /\ z.action = x.action /\ z.stages = x.stages
              /\ z.removed = x.removed /\ z.cancelled = x.cancelled
            BY <1>1, <1>2, <2>3, <2>4 DEF Ready, ReportedInv, Data
        <3>3. Sound(x) => Sound(z)
            BY <1>2 DEF Sound, DelayInv, StagesHavePrint, Data
        <3> HIDE DEF z
        <3> QED
            BY <1>1, <2>4, <3>1, <3>2, <3>3 DEF KeepsOperation
    <2>5. CASE z.report = "none"
        <3> DEFINE y == [z EXCEPT !.report = report]
        <3>1. w \in Reported(y)
            BY <2>1, <2>5 DEF Report
        <3>2. y = [x EXCEPT !.reported = TRUE, !.report = report]
            BY <1>2 DEF Data
        <3> HIDE DEF y
        <3>3. /\ y \in Data /\ y.report = report /\ y.action = x.action /\ y.stages = x.stages
              /\ y.removed = x.removed /\ y.cancelled = x.cancelled
              /\ y.results = x.results /\ y.sleep = x.sleep /\ y.wait = x.wait
            BY <1>2, <2>2, <3>2 DEF Data
        <3>4. Ready(y)
            BY <1>1, <1>2, <2>2, <3>3 DEF Ready, ReportedInv
        <3>5. Sound(x) => Sound(y)
            BY <1>2, <3>2 DEF Sound, DelayInv, StagesHavePrint, Data
        <3> QED
            BY <1>3, <2>2, <3>1, <3>3, <3>4, <3>5
    <2> QED
        BY <2>4, <2>5
<1> QED
    BY <1>5, <1>6, <1>7

\* dev_verify and dev_identify
LEMMA VerifyOrIdentifyLeaves ==
    ASSUME NEW v, Ready(v), v.action \in Matching, VerifyOrIdentify(v)
    PROVE  Leaves(v, vdev')
<1> DEFINE r == StartScan(v)
<1>1. Scanned(v, r)
    BY StartScanAnswers DEF Ready
<1>2. CASE ~r.done
    <2>1. vdev' = r.vdev
        BY <1>2 DEF VerifyOrIdentify
    <2> QED
        BY <1>1, <1>2, <2>1, ScannedReady
<1>3. CASE r.done
    <2> DEFINE error == IF r.error = "retry" THEN "none" ELSE r.error
    <2>1. PICK told \in MatchReported(r) :
              \E slept \in {ShouldWait(FingerGone(told), r.id, error)} :
                  IF Waits(slept, error) THEN vdev' = slept
                  ELSE Matched(slept, ScanResult(slept, error))
        BY <1>3 DEF VerifyOrIdentify
    <2> DEFINE gone == FingerGone(told)
               slept == ShouldWait(gone, r.id, error)
               matched == [slept EXCEPT !.reported = FALSE]
               result == ScanResult(slept, error)
    <2>2. /\ Waits(slept, error) => vdev' = slept
          /\ ~Waits(slept, error) => vdev' = Completed(matched, result)
        BY <2>1 DEF Matched, Complete
    <2> HIDE DEF r
    <2>3. /\ Ready(told) /\ told.action = v.action /\ told.removed = v.removed
          /\ told.stages = v.stages
          /\ v.cancelled => told.cancelled
          /\ r.error \in {"none", "retry"} => told.report # "none" \/ told.removed
          /\ Provoked = {} => (Sound(v) => Sound(told)) /\ told.cancelled = v.cancelled
        BY <1>1, <1>3, MatchReportedKeeps
    <2>4. Ready(gone) /\ KeepsOperation(told, gone) /\ (Sound(told) => Sound(gone))
        BY <2>3, FingerGoneKeeps
    <2> HIDE DEF gone
    <2>5. r.id \in SomeId /\ error \in {"none", "error", "cancelled"}
        BY <1>1 DEF Scanned
    <2>6. (error = "cancelled" <=> v.cancelled) /\ (error = "none" => r.error \in {"none", "retry"})
        BY <1>1 DEF Scanned
    <2> HIDE DEF error
    <2>7. error = "cancelled" => gone.cancelled
        BY <2>3, <2>4, <2>6 DEF KeepsOperation
    <2>8. Provoked = {} => (gone.cancelled => error = "cancelled")
        BY <2>3, <2>4, <2>6 DEF KeepsOperation
    <2>9. /\ KeepsOperation(gone, slept)
          /\ Waits(slept, error) => Separate(slept)
          /\ ~Waits(slept, error) => Ready(slept)
          /\ Sound(gone) /\ (gone.cancelled => error = "cancelled") =>
                 Sound(slept) /\ (Waits(slept, error) => AssertInv(slept))
        BY <2>4, <2>5, <2>7, ShouldWaitReady
    <2> HIDE DEF slept
    <2>10. Provoked = {} /\ Sound(v) =>
               Sound(slept) /\ (Waits(slept, error) => AssertInv(slept))
        BY <2>3, <2>4, <2>8, <2>9
    <2>11. CASE Waits(slept, error)
        BY <2>2, <2>9, <2>10, <2>11 DEF Leaves
    <2>12. CASE ~Waits(slept, error)
        <3>1. slept \in Data /\ slept.action \in Matching /\ Ready(slept)
            BY <2>3, <2>4, <2>9, <2>12 DEF KeepsOperation
        <3>2. /\ Ready(matched) /\ matched.reported = FALSE /\ matched.action = slept.action
              /\ matched.removed = slept.removed
              /\ Sound(slept) => DelayInv(matched)
            BY <3>1 DEF Ready, ReportedInv, Data, Sound, DelayInv
        <3>3. result \in Kinds /\ result # "enrolled"
            BY <3>1, <2>5 DEF ScanResult, Kinds, Data, Reports
        <3>4. result = "general" => slept.removed
            <4>1. result = "general" => error = "none" /\ slept.report = "none"
                BY <2>5, <3>1 DEF ScanResult, Data, Reports
            <4>2. slept.report = told.report /\ slept.removed = told.removed
                BY <2>4, <2>9 DEF KeepsOperation
            <4> QED
                BY <2>3, <2>6, <4>1, <4>2
        <3> HIDE DEF matched, result
        <3>5. matched.action # "ENROLL"
            BY <3>1, <3>2 DEF Matching
        <3>6. Separate(vdev') /\ (DelayInv(matched) => AssertInv(vdev'))
            BY <2>2, <2>12, <3>2, <3>3, <3>4, <3>5, CompleteLeaves
        <3> QED
            BY <2>10, <3>2, <3>6 DEF Leaves
    <2> QED
        BY <2>11, <2>12
<1> QED
    BY <1>2, <1>3

-----------------------------------------------------------------------------
(* Enrolling *)

\* The next stage comes after a delay.
LEMMA NextStageLeaves ==
    ASSUME NEW v, Ready(v), NEW id \in SomeId, NextStage(v, id)
    PROVE  Separate(vdev') /\ (Sound(v) /\ ~v.cancelled => AssertInv(vdev'))
<1> DEFINE w == ShouldWait(v, id, "none")
<1>1. vdev' = [w EXCEPT !.sleep = TRUE]
    BY DEF NextStage
<1>2. /\ KeepsOperation(v, w) /\ ~w.wait
      /\ Sound(v) /\ ~v.cancelled => Sound(w)
    BY ShouldWaitReady
<1> HIDE DEF w
<1>3. w \in Data
    BY <1>2 DEF KeepsOperation
<1> DEFINE t == [w EXCEPT !.sleep = TRUE]
<1>4. /\ KeepsOperation(w, t) /\ t.wait = w.wait /\ t.injected = w.injected
      /\ t.pending = w.pending /\ t.failed = w.failed
    BY <1>3 DEF Data, KeepsOperation
<1> HIDE DEF t
<1>5. Separate(t)
    BY <1>2, <1>4 DEF Separate, Ready, KeepsOperation, ReportedInv
<1>6. Sound(v) /\ ~v.cancelled => AssertInv(t)
    BY <1>2, <1>4 DEF AssertInv, Sound, DelayInv, StagesHavePrint, KeepsOperation
<1> QED
    BY <1>1, <1>5, <1>6 DEF t

\* An enroll operation has no match to report.
LEMMA EnrollReportsNoMatch ==
    ASSUME NEW v, Ready(v), v.action = "ENROLL", v.reported
    PROVE  v.removed
BY DEF Ready, ReportedInv, Matching

LEMMA DuplicateLeaves ==
    ASSUME NEW v, Ready(v), v.action = "ENROLL", NEW id \in SomeId, Duplicate(v, id)
    PROVE  Separate(vdev') /\ (Sound(v) /\ ~v.cancelled => AssertInv(vdev'))
<1> DEFINE w == ShouldWait(v, id, "none")
<1>1. /\ Waits(w, "none") => vdev' = w
      /\ ~Waits(w, "none") => vdev' = Completed(w, "duplicate")
    BY DEF Duplicate, Complete
<1>2. /\ KeepsOperation(v, w) /\ ~w.wait
      /\ Waits(w, "none") => Separate(w)
      /\ ~Waits(w, "none") => Ready(w)
      /\ Sound(v) /\ ~v.cancelled => Sound(w) /\ (Waits(w, "none") => AssertInv(w))
    BY ShouldWaitReady
<1> HIDE DEF w
<1>3. ASSUME ~Waits(w, "none")
      PROVE  Separate(vdev') /\ (DelayInv(w) => AssertInv(vdev'))
    <2>1. Ready(w) /\ w.action = "ENROLL"
        BY <1>2, <1>3 DEF KeepsOperation
    <2>2. w.reported => w.removed
        BY <2>1, EnrollReportsNoMatch
    <2> QED
        BY <1>1, <1>3, <2>1, <2>2, CompleteLeaves DEF Kinds
<1> QED
    BY <1>1, <1>2, <1>3 DEF Sound

\* An error ends an enroll operation.
LEMMA EnrollFailedLeaves ==
    ASSUME NEW v, Ready(v), v.action = "ENROLL",
           NEW error \in {"error", "cancelled"}, error = "cancelled" <=> v.cancelled,
           EnrollFailed(v, error)
    PROVE  Separate(vdev') /\ (Sound(v) => AssertInv(vdev'))
<1> DEFINE w == ShouldWait(v, NoId, error)
           x == [w EXCEPT !.stages = 0]
<1>1. /\ Waits(w, error) => vdev' = w
      /\ ~Waits(w, error) => vdev' = Completed(x, error)
    BY DEF EnrollFailed, Complete
<1>2. NoId \in SomeId
    BY DEF SomeId
<1>3. /\ KeepsOperation(v, w) /\ ~w.wait
      /\ Waits(w, error) => Separate(w)
      /\ ~Waits(w, error) => Ready(w)
      /\ Sound(v) => Sound(w) /\ (Waits(w, error) => AssertInv(w))
    BY <1>2, ShouldWaitReady
<1> HIDE DEF w
<1>4. ASSUME ~Waits(w, error)
      PROVE  Separate(vdev') /\ (DelayInv(w) => AssertInv(vdev'))
    <2>1. Ready(w) /\ w.action = "ENROLL" /\ w \in Data
        BY <1>3, <1>4 DEF KeepsOperation
    <2>2. w.reported => w.removed
        BY <2>1, EnrollReportsNoMatch
    <2>3. /\ Ready(x) /\ x.action = w.action /\ x.stages = 0 /\ x.reported = w.reported
          /\ x.removed = w.removed /\ (DelayInv(w) => DelayInv(x))
        BY <2>1 DEF Ready, ReportedInv, Data, DelayInv
    <2> HIDE DEF x
    <2>4. error \in Kinds /\ error # "enrolled" /\ error # "general" /\ ~(x.stages > 0)
        BY <2>3 DEF Kinds
    <2>5. Separate(vdev') /\ (DelayInv(x) => AssertInv(vdev'))
        BY <1>1, <1>4, <2>2, <2>3, <2>4, CompleteLeaves
    <2> QED
        BY <2>3, <2>5
<1> QED
    BY <1>1, <1>3, <1>4 DEF Sound

\* The progress that is reported is the number of the stages.
LEMMA EnrollProgressKeeps ==
    ASSUME NEW v, Ready(v), NEW w \in EnrollProgress(v)
    PROVE  /\ Ready(w) /\ w.progress = v.stages
           /\ w.stages = v.stages /\ w.action = v.action /\ w.print = v.print
           /\ Provoked = {} => w.cancelled = v.cancelled /\ (Sound(v) => Sound(w))
<1> DEFINE x == [v EXCEPT !.progress = v.stages]
<1>1. v \in Data
    BY DEF Ready
<1>2. /\ x.progress = v.stages /\ x.stages = v.stages /\ x.action = v.action
      /\ x.print = v.print /\ x.cancelled = v.cancelled
    BY <1>1 DEF Data
<1>3. Ready(x)
    BY <1>1 DEF Ready, ReportedInv, Data
<1>4. Sound(v) => Sound(x)
    BY <1>1 DEF Sound, DelayInv, StagesHavePrint, Data
<1>5. w \in Reported(x)
    BY DEF EnrollProgress
<1> HIDE DEF x
<1>6. /\ Ready(w) /\ w.stages = x.stages /\ w.action = x.action /\ w.print = x.print
      /\ w.progress = x.progress /\ (Provoked = {} => w = x)
    BY <1>3, <1>5, ReportedKeeps
<1> QED
    BY <1>2, <1>4, <1>6

\* The last stage stores the print.
LEMMA EnrolledLeaves ==
    ASSUME NEW v, Ready(v), v.action = "ENROLL", NEW id \in Ids, v.print = id,
           v.progress = NrStages, Enrolled(v, id)
    PROVE  Separate(vdev') /\ (DelayInv(v) => AssertInv(vdev'))
<1> DEFINE storage == v.storage \union {id}
           x == [v EXCEPT !.storage = storage, !.stages = 0]
           y == [v EXCEPT !.storage = storage]
<1>1. v \in Data /\ storage \in SUBSET Ids /\ id \in storage
    BY DEF Ready, Data
<1>2. vdev' = [Completed(y, "enrolled") EXCEPT !.stages = 0]
    BY DEF Enrolled
<1> HIDE DEF storage
<1>3. y \in Data /\ y.results = v.results /\ y.action = v.action /\ y.finger = v.finger
      /\ x \in Data /\ x.results = v.results /\ x.action = v.action /\ x.finger = v.finger
    BY <1>1 DEF Data
<1>4. [Completed(y, "enrolled") EXCEPT !.stages = 0] = Completed(x, "enrolled")
    <2> DEFINE results == Append(v.results, "enrolled")
               finger == IF v.action \in Scanning THEN {} ELSE v.finger
    <2>1. Completed(y, "enrolled") =
              [y EXCEPT !.cancel_due = FALSE, !.results = results, !.finger = finger]
        BY <1>3 DEF Completed, Data
    <2>2. Completed(x, "enrolled") =
              [x EXCEPT !.cancel_due = FALSE, !.results = results, !.finger = finger]
        BY <1>3 DEF Completed, Data
    <2> HIDE DEF results, finger
    <2> QED
        BY <1>1, <2>1, <2>2 DEF Data
<1>5. /\ Ready(x) /\ x.stages = 0 /\ x.progress = NrStages /\ x.print \in x.storage
      /\ x.reported = v.reported /\ x.removed = v.removed
      /\ DelayInv(v) => DelayInv(x)
    BY <1>1 DEF Ready, ReportedInv, Data, DelayInv
<1>6. x.reported => x.removed
    BY <1>5, EnrollReportsNoMatch
<1> HIDE DEF x, y
<1>7. "enrolled" \in Kinds /\ ~(x.stages > 0)
    BY <1>5 DEF Kinds
<1>8. Separate(vdev') /\ (DelayInv(x) => AssertInv(vdev'))
    BY <1>2, <1>4, <1>5, <1>6, <1>7, CompleteLeaves
<1> QED
    BY <1>5, <1>8

LEMMA StagePassedLeaves ==
    ASSUME NEW v, Ready(v), v.action = "ENROLL", NEW id \in Ids,
           v.stages > 0 => v.print = id, StagePassed(v, id)
    PROVE  Separate(vdev') /\ (Sound(v) /\ ~v.cancelled /\ Provoked = {} => AssertInv(vdev'))
<1> DEFINE gone == FingerGone(v)
           print == IF v.stages = 0 THEN id ELSE gone.print
           x == [gone EXCEPT !.stages = v.stages + 1,
                             !.print = IF v.stages = 0 THEN id ELSE @]
<1>1. PICK told \in EnrollProgress(x) :
          IF told.stages = NrStages THEN Enrolled(told, id) ELSE NextStage(told, id)
    BY DEF StagePassed
<1>2. Ready(gone) /\ KeepsOperation(v, gone) /\ (Sound(v) => Sound(gone))
    BY FingerGoneKeeps
<1> HIDE DEF gone
<1>3. gone \in Data /\ v.stages \in Nat /\ gone.action = "ENROLL" /\ gone.print = v.print
    BY <1>2 DEF KeepsOperation, Ready, Data
<1>4. print = id /\ id \in SomeId /\ id # NoId
    BY <1>3, IdsAssumption DEF SomeId
<1>5. x = [gone EXCEPT !.stages = v.stages + 1, !.print = id]
    BY <1>3, <1>4 DEF Data
<1> HIDE DEF x, print
<1>6. /\ Ready(x) /\ x.action = "ENROLL" /\ x.print = id /\ x.cancelled = gone.cancelled
      /\ Sound(gone) => Sound(x)
    <2> DEFINE stages == v.stages + 1
    <2>0. stages \in Nat /\ x = [gone EXCEPT !.stages = stages, !.print = id]
        BY <1>3, <1>5
    <2> HIDE DEF stages
    <2>1. /\ x \in Data /\ x.action = gone.action /\ x.print = id /\ x.results = gone.results
          /\ x.sleep = gone.sleep /\ x.wait = gone.wait /\ x.reported = gone.reported
          /\ x.report = gone.report /\ x.removed = gone.removed
          /\ x.cancelled = gone.cancelled /\ x.cancel_due = gone.cancel_due
          /\ x.failed = gone.failed /\ x.injected = gone.injected
          /\ x.pending = gone.pending
        BY <1>3, <1>4, <2>0 DEF Data
    <2>2. Ready(x)
        BY <1>2, <2>1 DEF Ready, ReportedInv
    <2>3. Sound(gone) => Sound(x)
        BY <1>4, <2>1 DEF Sound, DelayInv, StagesHavePrint
    <2> QED
        BY <1>3, <2>1, <2>2, <2>3
<1>7. /\ Ready(told) /\ told.progress = x.stages /\ told.stages = x.stages
      /\ told.action = x.action /\ told.print = x.print
      /\ Provoked = {} => told.cancelled = x.cancelled /\ (Sound(x) => Sound(told))
    BY <1>6, EnrollProgressKeeps
<1>8. CASE told.stages = NrStages
    BY <1>1, <1>2, <1>6, <1>7, <1>8, EnrolledLeaves DEF Sound
<1>9. CASE told.stages # NrStages
    BY <1>1, <1>2, <1>4, <1>6, <1>7, <1>9, NextStageLeaves DEF KeepsOperation
<1> QED
    BY <1>8, <1>9

\* A scan of another print is no stage.
LEMMA MismatchLeaves ==
    ASSUME NEW v, Ready(v), v.action = "ENROLL", NEW id \in Ids, v.stages > 0, Mismatch(v, id)
    PROVE  Separate(vdev') /\ (Sound(v) /\ ~v.cancelled /\ Provoked = {} => AssertInv(vdev'))
<1> DEFINE x == Asserted(v, v.print # NoId, "fpi-data")
<1>1. PICK told \in EnrollProgress(x) : NextStage(told, id)
    BY DEF Mismatch
<1>2. v \in Data /\ v.results = <<>>
    BY DEF Ready
<1>3. /\ KeepsOperation(v, x) /\ x.sleep = v.sleep /\ x.wait = v.wait
      /\ x.injected = v.injected /\ x.pending = v.pending
    BY <1>2, AssertedKeeps DEF Assertions
<1>4. Ready(x)
    BY <1>3 DEF Ready, KeepsOperation, ReportedInv
<1>5. Sound(v) => x = v
    <2>1. Sound(v) => (v.print # NoId) = TRUE
        BY <1>2 DEF Sound, StagesHavePrint
    <2> QED
        BY <2>1, AssertedHolds
<1> HIDE DEF x
<1>6. Ready(told) /\ (Provoked = {} => told.cancelled = x.cancelled /\ (Sound(x) => Sound(told)))
    BY <1>1, <1>4, EnrollProgressKeeps
<1>7. id \in SomeId
    BY DEF SomeId
<1> QED
    BY <1>1, <1>5, <1>6, <1>7, NextStageLeaves

\* dev_enroll
LEMMA EnrollLeaves ==
    ASSUME NEW v, Ready(v), v.action = "ENROLL", Enroll(v)
    PROVE  Leaves(v, vdev')
<1> DEFINE r == StartScan(v)
           x == r.vdev
<1>1. Scanned(v, r)
    BY StartScanAnswers DEF Ready
<1>2. /\ ~r.done => vdev' = x
      /\ r.done /\ r.id # NoId => EnrollScanned(x, r.id)
      /\ r.done /\ r.id = NoId /\ r.error = "retry" =>
             \E told \in EnrollProgress(FingerGone(x)) : NextStage(told, NoId)
      /\ r.done /\ r.id = NoId /\ r.error # "retry" => EnrollFailed(FingerGone(x), r.error)
    BY DEF Enroll
<1> HIDE DEF r
<1>3. CASE ~r.done
    BY <1>1, <1>2, <1>3, ScannedReady
<1>4. CASE r.done
    <2>1. Ready(x) /\ (Sound(v) => Sound(x)) /\ x.action = "ENROLL"
          /\ x.cancelled = v.cancelled
        BY <1>1, <1>4, ScannedReady DEF Scanned, KeepsOperation
    <2> HIDE DEF x
    <2>2. CASE r.id # NoId
        <3>1. r.id \in Ids /\ r.id \in SomeId /\ ~v.cancelled
            BY <1>1, <2>2 DEF Scanned, SomeId
        <3>2. CASE r.id \in x.storage
            <4>1. Duplicate(x, r.id)
                BY <1>2, <1>4, <2>2, <3>2 DEF EnrollScanned
            <4> QED
                BY <2>1, <3>1, <4>1, DuplicateLeaves DEF Leaves
        <3>3. CASE r.id \notin x.storage /\ x.stages > 0 /\ x.print # r.id
            <4>1. Mismatch(x, r.id)
                BY <1>2, <1>4, <2>2, <3>3 DEF EnrollScanned
            <4> QED
                BY <2>1, <3>1, <3>3, <4>1, MismatchLeaves DEF Leaves
        <3>4. CASE r.id \notin x.storage /\ ~(x.stages > 0 /\ x.print # r.id)
            <4>1. StagePassed(x, r.id)
                BY <1>2, <1>4, <2>2, <3>4 DEF EnrollScanned
            <4> QED
                BY <2>1, <3>1, <3>4, <4>1, StagePassedLeaves DEF Leaves
        <3> QED
            BY <3>2, <3>3, <3>4
    <2>3. CASE r.id = NoId
        <3> DEFINE gone == FingerGone(x)
        <3>1. Ready(gone) /\ KeepsOperation(x, gone) /\ (Sound(x) => Sound(gone))
            BY <2>1, FingerGoneKeeps
        <3>2. CASE r.error = "retry"
            <4>1. PICK told \in EnrollProgress(gone) : NextStage(told, NoId)
                BY <1>2, <1>4, <2>3, <3>2
            <4>2. ~v.cancelled /\ NoId \in SomeId
                BY <1>1, <3>2 DEF Scanned, SomeId
            <4> HIDE DEF gone
            <4>3. /\ Ready(told)
                  /\ Provoked = {} =>
                         told.cancelled = gone.cancelled /\ (Sound(gone) => Sound(told))
                BY <3>1, EnrollProgressKeeps
            <4>4. gone.cancelled = v.cancelled
                BY <2>1, <3>1 DEF KeepsOperation
            <4> QED
                BY <2>1, <3>1, <4>1, <4>2, <4>3, <4>4, NextStageLeaves DEF Leaves
        <3>3. CASE r.error # "retry"
            <4>1. EnrollFailed(gone, r.error)
                BY <1>2, <1>4, <2>3, <3>3
            <4>2. r.error \in {"error", "cancelled"} /\ (r.error = "cancelled" <=> v.cancelled)
                BY <1>1, <1>4, <2>3, <3>3, IdsAssumption DEF Scanned
            <4> HIDE DEF gone
            <4>3. gone.cancelled = v.cancelled /\ gone.action = "ENROLL"
                BY <2>1, <3>1 DEF KeepsOperation
            <4> QED
                BY <2>1, <3>1, <4>1, <4>2, <4>3, EnrollFailedLeaves DEF Leaves
        <3> QED
            BY <3>2, <3>3
    <2> QED
        BY <2>2, <2>3
<1> QED
    BY <1>3, <1>4

-----------------------------------------------------------------------------
(* Operations without a finger *)

\* An operation that is neither enrolled nor matched is completed.
LEMMA ManagingLeaves ==
    ASSUME NEW v, Ready(v), v.action \in Managing,
           NEW result \in {"error", "cancelled", "done", "not_found"},
           NEW w, w \in Data, w.action = v.action, w.results = v.results,
           w.sleep = v.sleep, w.wait = v.wait, w.removed = v.removed,
           w.reported => v.reported,
           DelayInv(v) => DelayInv(w),
           Complete(w, result)
    PROVE  Leaves(v, vdev')
<1>1. ~w.reported \/ w.removed
    BY DEF Ready, ReportedInv, Managing, Matching
<1>2. Ready(w)
    BY <1>1 DEF Ready, ReportedInv
<1>3. /\ result \in Kinds /\ result # "enrolled" /\ result # "general"
      /\ w.action # "ENROLL"
    BY DEF Kinds, Managing
<1>4. vdev' = Completed(w, result)
    BY DEF Complete
<1>5. Separate(vdev') /\ (DelayInv(w) => AssertInv(vdev'))
    BY <1>1, <1>2, <1>3, <1>4, CompleteLeaves
<1> QED
    BY <1>5 DEF Leaves, Sound

LEMMA OpenedLeaves ==
    ASSUME NEW v, Ready(v), v.action \in Managing, NEW error \in {"none", "error", "cancelled"},
           Opened(v, error)
    PROVE  Leaves(v, vdev')
<1>1. v \in Data
    BY DEF Ready
<1>2. CASE Complete([v EXCEPT !.listening = @ \/ error = "none"],
                    IF error = "none" THEN "done" ELSE error)
    <2> DEFINE listening == v.listening \/ error = "none"
               w == [v EXCEPT !.listening = listening]
               result == IF error = "none" THEN "done" ELSE error
    <2>1. listening \in BOOLEAN
        BY <1>1
    <2>2. Complete(w, result)
        BY <1>2
    <2> HIDE DEF listening
    <2>3. /\ w \in Data /\ w.action = v.action /\ w.results = v.results
          /\ w.sleep = v.sleep /\ w.wait = v.wait /\ w.removed = v.removed
          /\ w.reported = v.reported /\ (DelayInv(v) => DelayInv(w))
        BY <1>1, <2>1 DEF Data, DelayInv
    <2>4. result \in {"error", "cancelled", "done", "not_found"}
        OBVIOUS
    <2> HIDE DEF w, result
    <2> QED
        BY <2>2, <2>3, <2>4, ManagingLeaves
<1>3. CASE Complete(v, "error")
    BY <1>1, <1>3, ManagingLeaves
<1> QED
    BY <1>2, <1>3 DEF Opened

LEMMA ClosedLeaves ==
    ASSUME NEW v, Ready(v), v.action \in Managing, NEW error \in {"none", "error", "cancelled"},
           Closed(v, error)
    PROVE  Leaves(v, vdev')
<1>1. v \in Data
    BY DEF Ready
<1>2. CASE error # "none"
    BY <1>1, <1>2, ManagingLeaves DEF Closed
<1>3. CASE error = "none"
    <2> DEFINE listening == v.listening /\ v.keep_alive
               supports == v.keep_alive => v.supports
               w == [v EXCEPT !.listening = listening, !.supports = supports,
                              !.stages = 0, !.reported = FALSE]
    <2>1. listening \in BOOLEAN /\ supports \in BOOLEAN
        BY <1>1
    <2>2. Complete([v EXCEPT !.listening = @ /\ v.keep_alive, !.supports = v.keep_alive => @,
                             !.stages = 0, !.reported = FALSE], "done")
        BY <1>3 DEF Closed
    <2>3. Complete(w, "done")
        BY <1>1, <2>2 DEF Data
    <2> HIDE DEF listening, supports
    <2>4. /\ w \in Data /\ w.action = v.action /\ w.results = v.results
          /\ w.sleep = v.sleep /\ w.wait = v.wait /\ w.removed = v.removed
          /\ ~w.reported /\ (DelayInv(v) => DelayInv(w))
        BY <1>1, <2>1 DEF Data, DelayInv
    <2> HIDE DEF w
    <2> QED
        BY <2>3, <2>4, ManagingLeaves
<1> QED
    BY <1>2, <1>3

\* dev_list, dev_clear_storage and dev_delete
LEMMA ManagedLeaves ==
    ASSUME NEW v, Ready(v), v.action \in Managing \ {"OPEN", "CLOSE"},
           NEW error \in {"none", "error", "cancelled"}, Managed(v, error)
    PROVE  Leaves(v, vdev')
<1>1. v \in Data
    BY DEF Ready
<1>2. CASE error # "none"
    BY <1>1, <1>2, ManagingLeaves DEF Managed
<1>3. ASSUME error = "none", NEW storage \in SUBSET Ids, NEW result \in {"done", "not_found"},
             Complete([v EXCEPT !.storage = storage], result)
      PROVE  Leaves(v, vdev')
    <2> DEFINE w == [v EXCEPT !.storage = storage]
    <2>1. /\ w \in Data /\ w.action = v.action /\ w.results = v.results
          /\ w.sleep = v.sleep /\ w.wait = v.wait /\ w.removed = v.removed
          /\ w.reported = v.reported /\ (DelayInv(v) => DelayInv(w))
        BY <1>1 DEF Data, DelayInv
    <2> HIDE DEF w
    <2>2. Complete(w, result)
        BY <1>3 DEF w
    <2> QED
        BY <2>1, <2>2, ManagingLeaves
<1>4. CASE error = "none" /\ v.action = "LIST"
    <2>1. Complete(v, "done")
        BY <1>4 DEF Managed
    <2> QED
        BY <1>1, <2>1, ManagingLeaves
<1>5. CASE error = "none" /\ v.action = "CLEAR_STORAGE"
    <2>1. Complete([v EXCEPT !.storage = {}], "done")
        BY <1>5 DEF Managed
    <2> QED
        BY <1>3, <1>5, <2>1
<1>6. CASE error = "none" /\ v.action = "DELETE"
    <2> DEFINE storage == v.storage \ {v.print}
               result == IF v.print \in v.storage THEN "done" ELSE "not_found"
    <2>1. Complete([v EXCEPT !.storage = @ \ {v.print}], result)
        BY <1>6 DEF Managed
    <2>2. Complete([v EXCEPT !.storage = storage], result)
        BY <1>1, <2>1 DEF Data
    <2>3. storage \in SUBSET Ids /\ result \in {"done", "not_found"}
        BY <1>1 DEF Data
    <2> HIDE DEF storage, result
    <2> QED
        BY <1>3, <1>6, <2>2, <2>3
<1> QED
    BY <1>2, <1>4, <1>5, <1>6 DEF Managing

LEMMA ManageLeaves ==
    ASSUME NEW v, Ready(v), v.action \in Managing, NEW ignore_wait \in BOOLEAN,
           Manage(v, ignore_wait)
    PROVE  Leaves(v, vdev')
<1> DEFINE ignored == ignore_wait \/ v.action \in {"OPEN", "CLOSE"}
           r == ProcessCmds(v, FALSE, ignored)
           x == r.vdev
<1>1. /\ ~r.done => vdev' = x
      /\ r.done /\ v.action = "OPEN" => Opened(x, r.error)
      /\ r.done /\ v.action = "CLOSE" => Closed(x, r.error)
      /\ r.done /\ v.action \notin {"OPEN", "CLOSE"} => Managed(x, r.error)
    BY DEF Manage
<1>2. v \in Data /\ v.action # "NONE" /\ ~v.sleep /\ ~v.wait
    BY DEF Ready
<1>3. ignored \in BOOLEAN
    OBVIOUS
<1> HIDE DEF ignored
<1>4. Processed(v, FALSE, r)
    BY <1>2, <1>3, ProcessCmdsAnswers
<1> HIDE DEF r
<1>5. /\ KeepsOperation(v, x) /\ (Sound(v) => Sound(x))
      /\ r.done => r.error \in {"none", "error", "cancelled"}
    BY <1>4 DEF Processed, Sound, DelayInv, StagesHavePrint, KeepsOperation
<1>6. CASE ~r.done
    <2>1. v.action \notin Scanning
        BY DEF Scanning, Managing
    <2>2. Separate(x)
        BY <1>4, <1>5, <2>1 DEF Processed, Separate, Ready, KeepsOperation, ReportedInv
    <2>3. Sound(v) => ~x.cancel_due
        BY <1>4, <1>6 DEF Processed, Sound, KeepsOperation
    <2> QED
        BY <1>1, <1>5, <1>6, <2>2, <2>3 DEF Leaves, AssertInv, Sound
<1>7. CASE r.done
    <2>1. Ready(x) /\ x.action = v.action
        BY <1>4, <1>5, <1>7 DEF Processed, Ready, KeepsOperation, ReportedInv
    <2> HIDE DEF x
    <2>2. Leaves(x, vdev')
        BY <1>1, <1>5, <1>7, <2>1, OpenedLeaves, ClosedLeaves, ManagedLeaves
    <2> QED
        BY <1>5, <2>2 DEF Leaves
<1> QED
    BY <1>6, <1>7

-----------------------------------------------------------------------------
(* maybe_continue_current_action *)

LEMMA VfuncLeaves ==
    ASSUME NEW v, Ready(v), NEW ignore_wait \in BOOLEAN, Vfunc(v, ignore_wait)
    PROVE  Leaves(v, vdev')
<1>1. v.action \in Matching \union {"ENROLL"} \union Managing
    BY DEF Ready, Data, Actions, Scanning, Matching
<1>2. CASE v.action \in Matching
    BY <1>2, VerifyOrIdentifyLeaves DEF Vfunc, Matching, Managing
<1>3. CASE v.action = "ENROLL"
    BY <1>3, EnrollLeaves DEF Vfunc, Matching, Managing
<1>4. CASE v.action \in Managing
    BY <1>4, ManageLeaves DEF Vfunc, Matching, Managing
<1> QED
    BY <1>1, <1>2, <1>3, <1>4

\* The vfunc is called again with a device that neither sleeps nor waits.
LEMMA ContinueLeaves ==
    ASSUME NEW v, Ready(v), NEW ignore_wait \in BOOLEAN, Continue(v, ignore_wait)
    PROVE  Leaves(v, vdev')
<1>1. (~v.wait) = TRUE /\ ~v.sleep
    BY DEF Ready
<1>2. Asserted(v, ~v.wait, "wait_command_id") = v
    BY <1>1, AssertedHolds
<1>3. Vfunc(v, ignore_wait)
    BY <1>1, <1>2 DEF Continue
<1> QED
    BY <1>3, VfuncLeaves

\* Without an operation and during a delay nothing is called.
LEMMA ContinueIdle ==
    ASSUME NEW v, ~v.wait, v.sleep \/ v.action = "NONE", NEW ignore_wait \in BOOLEAN,
           Continue(v, ignore_wait)
    PROVE  vdev' = v
<1>1. (~v.wait) = TRUE
    OBVIOUS
<1>2. Asserted(v, ~v.wait, "wait_command_id") = v
    BY <1>1, AssertedHolds
<1>3. IF v.sleep THEN vdev' = v ELSE Vfunc(v, ignore_wait)
    BY <1>2 DEF Continue
<1> QED
    BY <1>3 DEF Vfunc, Managing

-----------------------------------------------------------------------------
(* The steps *)

\* A step keeps the operations apart, and without a provoked situation the assertions.
Steps(v, w) == Separate(w) /\ (AssertInv(v) /\ Provoked = {} => AssertInv(w))

NoLateCalls == Provoked \intersect {"late_command", "unplug_waiting"} = {}

LEMMA StartSteps ==
    ASSUME Separate(vdev), NEW act \in Scanning \union Managing, NEW id \in SomeId,
           Start(act, id)
    PROVE  Steps(vdev, vdev')
<1> DEFINE v == [vdev EXCEPT !.action = act, !.cancelled = FALSE, !.report = "none",
                             !.progress = 0, !.print = id]
<1>1. vdev \in Data /\ vdev.action = "NONE" /\ vdev.results = <<>>
    BY DEF Separate, Start
<1>2. Vfunc(v, FALSE)
    BY DEF Start
<1>3. ~vdev.sleep /\ ~vdev.wait /\ ~vdev.cancel_due /\ (vdev.reported => vdev.removed)
    BY <1>1 DEF Separate, ReportedInv, Matching
<1>4. act \in Actions /\ act # "NONE"
    BY DEF Actions, Scanning, Managing
<1>5. v \in Data
    BY <1>1, <1>4 DEF Data, Reports
<1>6. /\ v.action = act /\ v.results = vdev.results /\ v.sleep = vdev.sleep
      /\ v.wait = vdev.wait /\ v.cancel_due = vdev.cancel_due
      /\ v.reported = vdev.reported /\ v.removed = vdev.removed
      /\ v.failed = vdev.failed /\ v.injected = vdev.injected
      /\ v.pending = vdev.pending /\ v.stages = vdev.stages
    BY <1>1 DEF Data
<1> HIDE DEF v
<1>7. Ready(v)
    BY <1>1, <1>3, <1>4, <1>5, <1>6 DEF Ready, ReportedInv
<1>8. Provoked = {} => ~(act = "ENROLL" /\ vdev.stages > 0)
    BY DEF Start, Provokes
<1>9. AssertInv(vdev) /\ Provoked = {} => Sound(v)
    BY <1>3, <1>6, <1>8 DEF AssertInv, Sound, DelayInv, StagesHavePrint
<1>10. Leaves(v, vdev')
    BY <1>2, <1>7, VfuncLeaves
<1> QED
    BY <1>9, <1>10 DEF Steps, Leaves

LEMMA UserCancelSteps ==
    ASSUME Separate(vdev), UserCancel
    PROVE  Steps(vdev, vdev')
<1> DEFINE w == [vdev EXCEPT !.cancelled = TRUE, !.cancel_due = TRUE]
<1>1. vdev \in Data /\ vdev.action # "NONE" /\ vdev.results = <<>>
    BY DEF Separate, UserCancel
<1>2. vdev' = w
    BY DEF UserCancel, Cancelled
<1>3. w \in Data /\ w.cancelled /\ w.cancel_due
    BY <1>1 DEF Data
<1>4. /\ w.action = vdev.action /\ w.results = vdev.results /\ w.sleep = vdev.sleep
      /\ w.wait = vdev.wait /\ w.reported = vdev.reported /\ w.removed = vdev.removed
      /\ w.failed = vdev.failed /\ w.injected = vdev.injected
      /\ w.pending = vdev.pending /\ w.stages = vdev.stages /\ w.print = vdev.print
      /\ w.report = vdev.report /\ w.progress = vdev.progress /\ w.storage = vdev.storage
    BY <1>1 DEF Data
<1> HIDE DEF w
<1>5. Separate(w)
    BY <1>1, <1>3, <1>4 DEF Separate, ReportedInv
<1>6. Provoked = {} =>
          ~(vdev.injected /\ (vdev.pending = <<>> \/ ~Head(vdev.pending).synthetic))
    BY DEF UserCancel, Provokes
<1>7. AssertInv(vdev) /\ Provoked = {} => AssertInv(w)
    BY <1>3, <1>4, <1>6 DEF AssertInv, DelayInv, StagesHavePrint
<1> QED
    BY <1>2, <1>5, <1>7 DEF Steps

LEMMA ReturnSteps ==
    ASSUME Separate(vdev), ReturnInIdle
    PROVE  Steps(vdev, vdev')
<1> DEFINE open == CASE vdev.action = "OPEN" -> Head(vdev.results) = "done"
                     [] vdev.action = "CLOSE" -> FALSE
                     [] OTHER -> vdev.open
           w == [vdev EXCEPT !.action = "NONE", !.results = <<>>, !.cancelled = FALSE,
                             !.open = open]
<1>1. vdev \in Data /\ vdev.results # <<>> /\ vdev.results \in Returned /\ vdev.open \in BOOLEAN
    BY DEF Separate, ReturnInIdle, Data
<1>2. Tail(vdev.results) = <<>>
    <2>1. PICK r \in Kinds : vdev.results = <<r>>
        BY <1>1 DEF Returned
    <2>2. <<r>> \in Seq(Kinds) /\ Len(<<r>>) = 1
        OBVIOUS
    <2>3. Tail(<<r>>) \in Seq(Kinds) /\ Len(Tail(<<r>>)) = 0
        BY <2>2
    <2> QED
        BY <2>1, <2>3
<1>3. open \in BOOLEAN
    BY <1>1
<1>4. vdev' = w
    BY <1>1, <1>2 DEF ReturnInIdle, Data
<1> HIDE DEF open
<1>5. w \in Data /\ w.action = "NONE" /\ w.results = <<>>
    BY <1>1, <1>3 DEF Data, Actions, Returned
<1>6. /\ w.sleep = vdev.sleep /\ w.wait = vdev.wait /\ w.cancel_due = vdev.cancel_due
      /\ w.reported = vdev.reported /\ w.removed = vdev.removed
      /\ w.failed = vdev.failed /\ w.injected = vdev.injected /\ w.pending = vdev.pending
    BY <1>1 DEF Data
<1> HIDE DEF w
<1>7. ~vdev.sleep /\ ~vdev.wait /\ ~vdev.cancel_due /\ (vdev.reported => vdev.removed)
    BY <1>1 DEF Separate, ReportedInv
<1>8. Separate(w)
    BY <1>5, <1>6, <1>7 DEF Separate, ReportedInv
<1>9. AssertInv(vdev) => AssertInv(w)
    BY <1>5, <1>6, <1>7 DEF AssertInv, DelayInv, StagesHavePrint
<1> QED
    BY <1>4, <1>8, <1>9 DEF Steps

LEMMA SleepTimeoutSteps ==
    ASSUME Separate(vdev), SleepTimeout
    PROVE  Steps(vdev, vdev')
<1> DEFINE v == [vdev EXCEPT !.sleep = FALSE]
<1>1. vdev \in Data /\ vdev.sleep /\ ~vdev.wait /\ vdev.action # "NONE" /\ vdev.results = <<>>
    BY DEF Separate, SleepTimeout
<1>2. Continue(v, FALSE)
    BY DEF SleepTimeout
<1>3. Ready(v)
    BY <1>1 DEF Separate, Ready, ReportedInv, Data
<1>4. AssertInv(vdev) => Sound(v)
    BY <1>1 DEF AssertInv, Sound, DelayInv, StagesHavePrint, Data
<1> HIDE DEF v
<1> QED
    BY <1>2, <1>3, <1>4, ContinueLeaves DEF Steps, Leaves

LEMMA WaitTimeoutSteps ==
    ASSUME Separate(vdev), WaitTimeout
    PROVE  Steps(vdev, vdev')
<1> DEFINE v == [vdev EXCEPT !.wait = FALSE]
<1>1. vdev \in Data /\ vdev.wait /\ ~vdev.sleep /\ vdev.action # "NONE" /\ vdev.results = <<>>
    BY DEF Separate, WaitTimeout
<1>2. (vdev.action # "NONE") = TRUE
    BY <1>1
<1>3. Ready(v) /\ v.action = vdev.action /\ v.stages = vdev.stages
      /\ v.reported = vdev.reported /\ v.removed = vdev.removed
    BY <1>1 DEF Separate, Ready, ReportedInv, Data
<1>4. AssertInv(vdev) => Sound(v)
    BY <1>1 DEF AssertInv, Sound, DelayInv, StagesHavePrint, Data
<1>5. CASE vdev.action \in {"LIST", "DELETE"}
    <2>1. Continue(v, TRUE)
        BY <1>5 DEF WaitTimeout
    <2> HIDE DEF v
    <2> QED
        BY <1>3, <1>4, <2>1, ContinueLeaves DEF Steps, Leaves
<1>6. CASE vdev.action \notin {"LIST", "DELETE"}
    <2>1. Complete(Asserted(v, vdev.action # "NONE", "action_error"), "timed_out")
        BY <1>6 DEF WaitTimeout
    <2> HIDE DEF v
    <2>2. vdev' = Completed(v, "timed_out")
        BY <1>2, <2>1, AssertedHolds DEF Complete
    <2>3. /\ v.reported => v.removed
          /\ v.action = "ENROLL" => v.removed
        BY <1>1, <1>3 DEF Separate, ReportedInv, Scanning, Matching
    <2>4. Separate(vdev') /\ (DelayInv(v) => AssertInv(vdev'))
        BY <1>3, <2>2, <2>3, CompleteLeaves DEF Kinds
    <2> QED
        BY <1>4, <2>4 DEF Steps, Sound
<1> QED
    BY <1>5, <1>6

\* dev_cancel forgets the scan that was put back.
LEMMA DropInjectedKeeps ==
    ASSUME NEW v \in Data, NEW w, w = DropInjected(v)
    PROVE  /\ KeepsOperation(v, w) /\ w.sleep = v.sleep /\ w.wait = v.wait /\ ~w.injected
           /\ DelayInv(v) /\ (v.injected => v.pending # <<>> /\ Head(v.pending).synthetic) =>
                  DelayInv(w)
<1>1. CASE ~v.injected
    BY <1>1 DEF DropInjected, KeepsOperation
<1>2. CASE v.injected
    <2> DEFINE holds == v.pending # <<>> /\ Head(v.pending).synthetic
               x == Asserted(v, holds, "injected_synthetic_cmd")
               pending == SubSeq(v.pending, 2, Len(v.pending))
    <2>1. /\ KeepsOperation(v, x) /\ x.sleep = v.sleep /\ x.wait = v.wait
          /\ x.pending = v.pending
        BY AssertedKeeps DEF Assertions
    <2>2. v.pending \in Seq(Queued) /\ x \in Data
        BY <2>1 DEF Data, KeepsOperation
    <2>3. w = [x EXCEPT !.injected = FALSE, !.pending = SubSeq(@, 2, Len(@))]
        BY <1>2 DEF DropInjected
    <2>4. pending \in Seq(Queued)
        BY <2>2
    <2>5. holds => x = v
        BY DEF Asserted
    <2> HIDE DEF x, holds
    <2>6. w = [x EXCEPT !.injected = FALSE, !.pending = pending]
        BY <2>1, <2>2, <2>3 DEF Data
    <2> HIDE DEF pending
    <2>7. /\ KeepsOperation(x, w) /\ w.sleep = x.sleep /\ w.wait = x.wait /\ ~w.injected
          /\ w.failed = x.failed
        BY <2>2, <2>4, <2>6 DEF Data, KeepsOperation
    <2> QED
        BY <1>2, <2>1, <2>5, <2>7 DEF KeepsOperation, DelayInv, holds
<1> QED
    BY <1>1, <1>2

LEMMA CancelVfuncSteps ==
    ASSUME Separate(vdev), CancelVfunc
    PROVE  Steps(vdev, vdev')
<1> DEFINE v == [vdev EXCEPT !.cancel_due = FALSE]
           dropped == DropInjected(v)
           x == [dropped EXCEPT !.sleep = FALSE, !.wait = FALSE]
<1>1. vdev \in Data /\ vdev.cancel_due /\ vdev.action # "NONE" /\ vdev.results = <<>>
    BY DEF Separate, CancelVfunc
<1>2. /\ ~vdev.supports => vdev' = dropped
      /\ vdev.supports => Continue(x, FALSE)
    BY DEF CancelVfunc
<1>3. /\ Separate(v) /\ v.action = vdev.action /\ v.results = vdev.results /\ ~v.cancel_due
      /\ v.injected = vdev.injected /\ v.pending = vdev.pending
      /\ AssertInv(vdev) => DelayInv(v) /\ StagesHavePrint(v)
    BY <1>1 DEF Separate, ReportedInv, AssertInv, DelayInv, StagesHavePrint, Data
<1> HIDE DEF v
<1>4. v \in Data
    BY <1>3 DEF Separate
<1>5. /\ KeepsOperation(v, dropped) /\ dropped.sleep = v.sleep /\ dropped.wait = v.wait
      /\ ~dropped.injected
      /\ DelayInv(v) /\ (v.injected => v.pending # <<>> /\ Head(v.pending).synthetic) =>
             DelayInv(dropped)
    BY <1>4, DropInjectedKeeps
<1>6. AssertInv(vdev) => DelayInv(dropped) /\ StagesHavePrint(dropped) /\ ~dropped.cancel_due
    BY <1>1, <1>3, <1>5 DEF AssertInv, StagesHavePrint, KeepsOperation
<1>7. CASE ~vdev.supports
    <2>1. dropped.results = <<>> /\ dropped.action # "NONE"
        BY <1>1, <1>3, <1>5 DEF KeepsOperation
    <2>2. Separate(dropped)
        BY <1>3, <1>5, <2>1 DEF Separate, ReportedInv, KeepsOperation
    <2>3. AssertInv(vdev) => AssertInv(dropped)
        BY <1>6 DEF AssertInv
    <2> QED
        BY <1>2, <1>7, <2>2, <2>3 DEF Steps
<1>8. CASE vdev.supports
    <2> HIDE DEF dropped
    <2>1. dropped \in Data
        BY <1>5 DEF KeepsOperation
    <2>2. /\ KeepsOperation(dropped, x) /\ ~x.sleep /\ ~x.wait
          /\ x.injected = dropped.injected /\ x.pending = dropped.pending
          /\ x.failed = dropped.failed
        BY <2>1 DEF Data, KeepsOperation
    <2> HIDE DEF x
    <2>3. Ready(x)
        BY <1>1, <1>3, <1>5, <2>2 DEF Separate, Ready, ReportedInv, KeepsOperation
    <2>4. AssertInv(vdev) => Sound(x)
        BY <1>6, <2>2 DEF Sound, DelayInv, StagesHavePrint, KeepsOperation
    <2> QED
        BY <1>2, <1>8, <2>3, <2>4, ContinueLeaves DEF Steps, Leaves
<1> QED
    BY <1>7, <1>8

\* A command that is queued, or a removal, finds the vfunc idle or ready.
LEMMA ClientCallSteps ==
    ASSUME Separate(vdev), vdev.results = <<>>, NEW v, Separate(v), ~v.wait,
           v.results = <<>>, AssertInv(vdev) /\ Provoked = {} => AssertInv(v),
           Continue(v, FALSE)
    PROVE  Steps(vdev, vdev')
<1>1. CASE v.sleep \/ v.action = "NONE"
    BY <1>1, ContinueIdle DEF Steps
<1>2. CASE ~(v.sleep \/ v.action = "NONE")
    <2>1. Ready(v)
        BY <1>2 DEF Ready, Separate
    <2>2. AssertInv(v) => Sound(v)
        BY DEF AssertInv, Sound
    <2> QED
        BY <2>1, <2>2, ContinueLeaves DEF Steps, Leaves
<1> QED
    BY <1>1, <1>2

LEMMA CommandArrivesSteps ==
    ASSUME Separate(vdev), NoLateCalls, NEW c \in Commands, CommandArrives(c)
    PROVE  Steps(vdev, vdev')
<1> DEFINE d == [c EXCEPT !.synthetic = FALSE]
           pending == Append(vdev.pending, d)
           v == [vdev EXCEPT !.pending = pending, !.wait = FALSE]
<1>1. vdev \in Data /\ vdev.pending \in Seq(Queued) /\ vdev.results = <<>>
    BY DEF Separate, Data, CommandArrives, Receives, Provokes, NoLateCalls
<1>2. d \in Queued /\ d.cmd = c.cmd
    BY CommandsAssumption DEF Queued, SomeId
<1>3. Continue(v, FALSE)
    BY <1>1 DEF CommandArrives, Data
<1>4. Provoked = {} => ~(c.cmd = "SLEEP" /\ vdev.injected)
    BY DEF CommandArrives, Provokes
<1> HIDE DEF d
<1>5. /\ pending \in Seq(Queued)
      /\ NoSleep(vdev.pending) /\ d.cmd # "SLEEP" => NoSleep(pending)
      /\ vdev.pending # <<>> => pending # <<>> /\ Head(pending) = Head(vdev.pending)
    BY <1>1, <1>2 DEF NoSleep
<1> HIDE DEF pending
<1>6. v \in Data /\ v.pending = pending /\ v.wait = FALSE
    BY <1>1, <1>5 DEF Data
<1>7. /\ v.action = vdev.action /\ v.results = vdev.results /\ v.sleep = vdev.sleep
      /\ v.cancelled = vdev.cancelled /\ v.cancel_due = vdev.cancel_due
      /\ v.reported = vdev.reported /\ v.removed = vdev.removed
      /\ v.failed = vdev.failed /\ v.injected = vdev.injected
      /\ v.stages = vdev.stages /\ v.print = vdev.print /\ v.report = vdev.report
      /\ v.progress = vdev.progress /\ v.storage = vdev.storage
    BY <1>1 DEF Data
<1> HIDE DEF v
<1>8. Separate(v)
    BY <1>6, <1>7 DEF Separate, ReportedInv
<1>9. AssertInv(vdev) /\ Provoked = {} => AssertInv(v)
    BY <1>2, <1>4, <1>5, <1>6, <1>7 DEF AssertInv, DelayInv, StagesHavePrint
<1> QED
    BY <1>1, <1>3, <1>6, <1>7, <1>8, <1>9, ClientCallSteps

LEMMA UnplugSteps ==
    ASSUME Separate(vdev), NoLateCalls, Unplug
    PROVE  Steps(vdev, vdev')
<1> DEFINE v == [vdev EXCEPT !.removed = TRUE]
<1>1. vdev \in Data /\ vdev.results = <<>> /\ ~vdev.wait
    BY DEF Separate, Unplug, Receives, Provokes, NoLateCalls
<1>2. Continue(v, FALSE)
    BY DEF Unplug
<1>3. v \in Data /\ v.removed
    BY <1>1 DEF Data
<1>4. /\ v.action = vdev.action /\ v.results = vdev.results /\ v.sleep = vdev.sleep
      /\ v.wait = vdev.wait
      /\ v.cancelled = vdev.cancelled /\ v.cancel_due = vdev.cancel_due
      /\ v.failed = vdev.failed /\ v.injected = vdev.injected /\ v.pending = vdev.pending
      /\ v.stages = vdev.stages /\ v.print = vdev.print
      /\ v.progress = vdev.progress /\ v.storage = vdev.storage
    BY <1>1 DEF Data
<1> HIDE DEF v
<1>5. Separate(v)
    BY <1>1, <1>3, <1>4 DEF Separate, ReportedInv
<1>6. AssertInv(vdev) => AssertInv(v)
    BY <1>4 DEF AssertInv, DelayInv, StagesHavePrint
<1> QED
    BY <1>1, <1>2, <1>4, <1>5, <1>6, ClientCallSteps

\* The client sets what the driver supports, and whether it keeps the listener.
LEMMA SettingSteps ==
    ASSUME Separate(vdev), SetCancellation \/ SetKeepAlive
    PROVE  Steps(vdev, vdev')
<1>1. vdev \in Data
    BY DEF Separate
<1>2. \/ \E enabled \in BOOLEAN : vdev' = [vdev EXCEPT !.supports = enabled]
      \/ \E enabled \in BOOLEAN : vdev' = [vdev EXCEPT !.keep_alive = enabled]
    BY DEF SetCancellation, SetKeepAlive
<1>3. /\ vdev' \in Data
      /\ vdev'.action = vdev.action /\ vdev'.results = vdev.results
      /\ vdev'.sleep = vdev.sleep /\ vdev'.wait = vdev.wait
      /\ vdev'.cancelled = vdev.cancelled /\ vdev'.cancel_due = vdev.cancel_due
      /\ vdev'.reported = vdev.reported /\ vdev'.removed = vdev.removed
      /\ vdev'.failed = vdev.failed /\ vdev'.injected = vdev.injected
      /\ vdev'.pending = vdev.pending /\ vdev'.stages = vdev.stages
      /\ vdev'.print = vdev.print /\ vdev'.report = vdev.report
      /\ vdev'.progress = vdev.progress /\ vdev'.storage = vdev.storage
    BY <1>1, <1>2 DEF Data
<1>4. Separate(vdev')
    BY <1>3 DEF Separate, ReportedInv
<1>5. AssertInv(vdev) => AssertInv(vdev')
    BY <1>3 DEF AssertInv, DelayInv, StagesHavePrint
<1> QED
    BY <1>4, <1>5 DEF Steps

LEMMA NextSteps ==
    ASSUME Separate(vdev), NoLateCalls, Next
    PROVE  Steps(vdev, vdev')
<1>1. CASE UserStarts
    <2>1. PICK act \in Scanning \union Managing, id \in SomeId : Start(act, id)
        BY <1>1 DEF UserStarts, Scanning, Managing, SomeId
    <2> QED
        BY <2>1, StartSteps
<1>2. CASE UserCancel
    BY <1>2, UserCancelSteps
<1>3. CASE CancelVfunc
    BY <1>3, CancelVfuncSteps
<1>4. CASE ReturnInIdle
    BY <1>4, ReturnSteps
<1>5. CASE Timers
    BY <1>5, SleepTimeoutSteps, WaitTimeoutSteps DEF Timers
<1>6. CASE Client
    BY <1>6, CommandArrivesSteps, UnplugSteps, SettingSteps DEF Client
<1> QED
    BY <1>1, <1>2, <1>3, <1>4, <1>5, <1>6 DEF Next

LEMMA InitIsSeparate ==
    ASSUME Init
    PROVE  Separate(vdev) /\ AssertInv(vdev)
<1>1. vdev.pending = <<>> /\ vdev.pending \in Seq(Queued) /\ vdev.results = <<>>
    BY DEF Init
<1>2. vdev \in Data
    BY DEF Init, Data, Actions, Reports, Returned, Fingers, SomeId
<1>3. /\ vdev.action = "NONE" /\ ~vdev.sleep /\ ~vdev.wait /\ ~vdev.cancel_due
      /\ ~vdev.reported /\ ~vdev.injected /\ vdev.failed = {}
    BY DEF Init
<1> QED
    BY <1>1, <1>2, <1>3 DEF Separate, ReportedInv, AssertInv, DelayInv, StagesHavePrint

LEMMA StutterSteps ==
    ASSUME Separate(vdev), UNCHANGED vars
    PROVE  Steps(vdev, vdev')
BY DEF Steps, vars

-----------------------------------------------------------------------------
(* Theorems *)

LEMMA SeparateImplies ==
    ASSUME Separate(vdev)
    PROVE  OperationsAreSeparate
<1>1. vdev.results \in Returned
    BY DEF Separate, Data
<1>2. NothingLeftOver
    <2>1. vdev.results = <<"duplicate">> => Head(vdev.results) = "duplicate"
        OBVIOUS
    <2> QED
        BY <1>1, <2>1 DEF Separate, ReportedInv, Matching, NothingLeftOver
<1>3. ResultsWereReported
    <2> SUFFICES ASSUME NEW i \in DOMAIN vdev.results
                 PROVE  /\ vdev.results[i] = "general" => vdev.removed
                        /\ vdev.results[i] = "enrolled" =>
                               vdev.progress = NrStages /\ vdev.print \in vdev.storage
        BY DEF ResultsWereReported
    <2>1. PICK r \in Kinds : vdev.results = <<r>>
        BY <1>1 DEF Returned
    <2>2. vdev.results[i] = r
        BY <2>1
    <2> QED
        BY <2>1, <2>2 DEF Separate
<1> QED
    BY <1>2, <1>3 DEF OperationsAreSeparate

\* Each operation stands for itself: no operation leaves a timer, a match or passed stages
\* to the next one, and none succeeds on the reports of another, however often its vfunc
\* was called and whatever the client sends, as long as nothing comes between the
\* completion of an action and its return and no removal while a command is waited for.
THEOREM OperationsAreSeparateCorrect ==
    NoLateCalls => (Spec => []OperationsAreSeparate)
<1> SUFFICES ASSUME NoLateCalls
             PROVE  Spec => []OperationsAreSeparate
    OBVIOUS
<1>1. Init => Separate(vdev)
    BY InitIsSeparate
<1>2. Separate(vdev) /\ [Next]_vars => Separate(vdev)'
    BY NextSteps, StutterSteps DEF Steps
<1>3. Separate(vdev) => OperationsAreSeparate
    BY SeparateImplies
<1> QED
    BY <1>1, <1>2, <1>3, PTL DEF Spec

\* No assertion of the driver fails and no timer is armed over another one, unless one of
\* the situations the driver does not stand is provoked.
THEOREM VirtualAssertionsHoldCorrect ==
    Provoked = {} => (Spec => []VirtualAssertionsHold)
<1> SUFFICES ASSUME Provoked = {}
             PROVE  Spec => []VirtualAssertionsHold
    OBVIOUS
<1> DEFINE Inv == Separate(vdev) /\ AssertInv(vdev)
<1>1. Init => Inv
    BY InitIsSeparate
<1>2. NoLateCalls
    BY DEF NoLateCalls
<1>3. Inv /\ [Next]_vars => Inv'
    BY <1>2, NextSteps, StutterSteps DEF Steps
<1>4. Inv => VirtualAssertionsHold
    BY DEF AssertInv, DelayInv, VirtualAssertionsHold
<1> QED
    BY <1>1, <1>3, <1>4, PTL DEF Spec
=============================================================================
