-------------------------- MODULE Synaptics_proofs --------------------------
EXTENDS Synaptics, TLAPS

Operations == Long \union Short
SsmStates == {"none", "SEND_PENDING", "GET_RESP", "SEND_ASYNC", "WAIT_INTERRUPT", "SUSPENDED"}
Transferring == {"none", "command", "next_user", "cancel", "read", "async",
              "interrupt", "interrupt_bare", "interrupt_cancelled"}
CallbackNames == Operations \union {"none"}
Actions == Operations \union {"NONE"}
HeldBack == {"none", "not_found"}
Lives == {"new", "ready", "dead"}
Queues == SUBSET {"cancel", "suspend"}
Tasks == {"none", "suspend", "resume", "at_return"}
Reports == {"none", "match", "no_match", "retry"}
Results == {"none", "ok", "error", "match", "no_match", "retry", "not_found", "cancelled"}

Data == [ssm : SsmStates, callback : CallbackNames, pending : {"none"}, transfer : Transferring,
         on_removal : BOOLEAN, delay_error : HeldBack, suspended : BOOLEAN,
         starting : BOOLEAN, finger : BOOLEAN, id_idx : Nat, bad : {GallerySize}, stage : Nat,
         life : Lives, action : Actions, open : BOOLEAN,
         is_suspended : BOOLEAN, critical : Nat, queued : Queues,
         flush : BOOLEAN, cancelled : BOOLEAN, cancel_due : BOOLEAN,
         task : Tasks, report : Reports, progress : Nat, result : Results, failed : {{}}]

Sensors == [op : Operations \union {"none", "cancelling"}, ready : BOOLEAN, percent : 0..100,
            touching : BOOLEAN, cancel : BOOLEAN, late : {"none"}, verdict : Final \union {"none"}]

TypeOK == syn \in Data /\ sensor \in Sensors

One(b) == IF b THEN 1 ELSE 0
\* The sections an operation is in besides that of its machine
Sections(s) == One(s.starting) + One(s.action = "DELETE")

-----------------------------------------------------------------------------
(* The invariant.  An operation is idle, over, or runs with a machine that   *)
(* talks to the sensor, waits for an interrupt or sleeps.                    *)

\* Requests, whatever the operation does.  A suspend call waits in the queue of a
\* section, for the interrupt transfer to be cancelled, or for the operation to return.
Base(s) ==
    /\ s \in Data
    /\ s.starting => s.action \in Long
    /\ s.cancel_due => s.action # "NONE" /\ s.result = "none"
    /\ "suspend" \in s.queued => s.task = "suspend" /\ ~s.suspended
    /\ s.task = "suspend" => ~s.is_suspended /\ (s.suspended \/ "suspend" \in s.queued)
    /\ s.task # "resume" /\ (s.task = "at_return" => s.action # "NONE")
    /\ s.is_suspended => \/ s.action = "NONE" \/ s.suspended
                         \/ s.action = "ENROLL" /\ s.task = "at_return"

Still(s) ==
    /\ s.ssm = "none" /\ s.transfer = "none" /\ s.critical = 0
    /\ ~s.starting /\ ~s.on_removal /\ ~s.suspended /\ s.delay_error = "none"

Idle(s) ==
    /\ Still(s)
    /\ s.action = "NONE" /\ s.result = "none" /\ s.queued = {} /\ ~s.flush

Over(s) ==
    /\ Still(s)
    /\ s.action # "NONE" /\ s.result # "none"
    /\ s.queued # {} => s.flush
    /\ s.action \in Matching => "suspend" \notin s.queued

Running(s) ==
    /\ s.action # "NONE" /\ s.callback = s.action /\ s.result = "none"
    /\ s.action = "IDENTIFY" => s.id_idx \in 1..GallerySize

\* What is held back until the finger is gone: a report or an error.
Removal(s) ==
    IF s.on_removal
    THEN /\ s.action \in Matching /\ s.finger /\ ~s.starting
         /\ s.delay_error = "none" <=> s.report # "none"
    ELSE s.delay_error = "none" /\ s.report = "none"

\* In the section of the machine.
Busy(s) ==
    /\ Base(s) /\ Running(s)
    /\ ~s.suspended /\ ~s.flush /\ s.critical = Sections(s) + 1

Talks(s) ==
    /\ Busy(s) /\ Removal(s)
    /\ \/ s.ssm = "SEND_PENDING" /\ s.transfer \in {"command", "next_user", "cancel"} /\ ~s.on_removal
       \/ s.ssm = "GET_RESP" /\ s.transfer = "read"
       \/ s.ssm = "SEND_ASYNC" /\ s.transfer = "async"

Waits(s) ==
    /\ Running(s) /\ Removal(s)
    /\ s.ssm = "WAIT_INTERRUPT" /\ s.critical = Sections(s)
    /\ s.transfer \in {"interrupt", "interrupt_bare", "interrupt_cancelled"}
    /\ s.flush => s.critical = 0
    /\ s.queued # {} => s.critical # 0 \/ s.flush
    /\ s.action \in Matching => s.transfer # "interrupt_bare"
    /\ s.suspended => /\ s.action \in Matching /\ ~s.starting
                      /\ ~s.is_suspended /\ s.task = "suspend"
                      /\ s.transfer = "interrupt_cancelled"

Sleeps(s) ==
    /\ Running(s) /\ Removal(s)
    /\ s.ssm = "SUSPENDED" /\ s.transfer = "none" /\ s.critical = 0
    /\ s.action \in Matching /\ ~s.starting
    /\ s.suspended /\ s.is_suspended /\ s.task = "none"
    /\ s.queued # {} => s.flush

Phase(s) == Idle(s) \/ Over(s) \/ Talks(s) \/ Waits(s) \/ Sleeps(s)

\* What the sensor runs is the command of the operation, or nothing.
Hears(s, x) ==
    /\ x \in Sensors
    /\ s.ssm = "none" \/ s.transfer \in {"command", "cancel"} \/ s.on_removal => x.op = "none"
    /\ x.op \in {"none", s.callback} \/ (s.callback \in {"PROBE", "OPEN"} /\ x.op = "cancelling")
    /\ s.transfer = "cancel" => s.callback \in {"PROBE", "OPEN"}
    /\ s.delay_error # "none" => x.verdict = "no_record"

SynInv == Base(syn) /\ Phase(syn) /\ Hears(syn, sensor)

\* Nothing that goes wrong is provoked, but for cancel commands.
Orderly == Provoked \subseteq {"crossed_cancel", "cancel_lost"}

-----------------------------------------------------------------------------
(* The calls *)

LEMMA Names ==
    /\ SsmStates = {"none", "SEND_PENDING", "GET_RESP", "SEND_ASYNC", "WAIT_INTERRUPT", "SUSPENDED"}
    /\ {"none", "command", "next_user", "cancel", "read", "async"} \subseteq Transferring
    /\ {"interrupt", "interrupt_bare", "interrupt_cancelled"} \subseteq Transferring
    /\ "none" \in CallbackNames /\ Operations \subseteq CallbackNames
    /\ "NONE" \in Actions /\ Operations \subseteq Actions
    /\ "none" \in HeldBack /\ "not_found" \in HeldBack
    /\ Tasks = {"none", "suspend", "resume", "at_return"}
    /\ Reports = {"none", "match", "no_match", "retry"}
    /\ Results = {"none", "ok", "error", "match", "no_match", "retry", "not_found", "cancelled"}
BY DEF SsmStates, Transferring, CallbackNames, Actions, HeldBack, Tasks, Reports, Results

LEMMA EnterIs ==
    ASSUME NEW s \in Data, s.action # "NONE"
    PROVE  Enter(s) = [s EXCEPT !.critical = s.critical + 1, !.flush = FALSE]
<1>1. Asserted(s, s.action # "NONE", "critical_enter") = s
    BY DEF Asserted
<1>2. s.flush \in BOOLEAN
    BY DEF Data
<1> QED
    BY <1>1, <1>2 DEF Enter, Data

LEMMA LeaveIs ==
    ASSUME NEW s \in Data, s.action # "NONE", s.critical # 0
    PROVE  Leave(s) = [s EXCEPT !.critical = s.critical - 1,
                                !.flush = (s.flush \/ s.critical = 1)]
BY DEF Leave, Data

LEMMA WaitInterruptIs ==
    ASSUME NEW s \in Data, s.action # "NONE", s.critical # 0
    PROVE  WaitInterrupt(s) = [s EXCEPT !.critical = s.critical - 1,
                                        !.flush = (s.flush \/ s.critical = 1),
                                        !.ssm = "WAIT_INTERRUPT",
                                        !.transfer = IF s.callback = "PROBE" THEN "interrupt_bare" ELSE "interrupt"]
BY LeaveIs DEF WaitInterrupt, Data

LEMMA SensorCmdStarts ==
    ASSUME NEW s \in Data, s.action # "NONE", s.ssm = "none", NEW act \in Operations
    PROVE  SensorCmd(s, "command", act)
             = [s EXCEPT !.critical = s.critical + 1, !.flush = FALSE, !.callback = act,
                         !.ssm = "SEND_PENDING", !.transfer = "command"]
<1> DEFINE t == [s EXCEPT !.pending = "command"]
           u == [s EXCEPT !.pending = "command", !.callback = act]
           v == [s EXCEPT !.pending = "command", !.callback = act, !.critical = s.critical + 1,
                          !.flush = FALSE]
<1>1. act # "none" /\ s.pending = "none" /\ s.flush \in BOOLEAN
    BY DEF Operations, Long, Short, Matching, Data
<1>2. Asserted(Asserted(s, s.pending = "none", "cmd_pending_transfer"),
                       s.ssm = "none" <=> act # "none", "callback") = s
    BY <1>1 DEF Asserted
<1>3. u.action # "NONE" /\ u.critical = s.critical /\ u.flush = s.flush
    BY DEF Data
<1>4. Enter(u) = v
    BY <1>1, <1>3 DEF Enter, Data, Asserted
<1>5. SensorCmd(s, "command", act) = SendPending(Enter([t EXCEPT !.callback = act]))
    BY <1>2 DEF SensorCmd
<1>7. [t EXCEPT !.callback = act] = u
    BY DEF Data
<1>6. SendPending(v) = [v EXCEPT !.ssm = "SEND_PENDING", !.transfer = "command",
                                 !.pending = "none"]
  <2>1. v.pending = "command"
    BY DEF Data
  <2> HIDE DEF v
  <2> QED
    BY <2>1 DEF SendPending
<1>8. [v EXCEPT !.ssm = "SEND_PENDING", !.transfer = "command", !.pending = "none"]
       = [s EXCEPT !.critical = s.critical + 1, !.flush = FALSE, !.callback = act,
                   !.ssm = "SEND_PENDING", !.transfer = "command"]
    BY <1>1 DEF Data
<1> HIDE DEF t, u, v
<1> QED
    BY <1>4, <1>5, <1>6, <1>7, <1>8

LEMMA SendPendingIs ==
    ASSUME NEW s \in Data
    PROVE  SendPending(s) = [s EXCEPT !.ssm = "GET_RESP", !.transfer = "read"]
BY DEF SendPending, GetResp, Data

\* After Started the operation is in the section of the machine alone.
LEMMA StartedIs ==
    ASSUME NEW s \in Data, s.action \in Long, ~s.flush, s.critical = Sections(s) + 1
    PROVE  Started(s) = [s EXCEPT !.starting = FALSE, !.critical = 1]
<1>1. s.action # "NONE" /\ s.action # "DELETE" /\ s.flush = FALSE
    BY DEF Long, Matching, Data
<1>2. CASE s.starting
    <2>1. s.critical = 2 /\ s.critical # 0 /\ s.critical # 1 /\ s.critical - 1 = 1
        BY <1>1, <1>2 DEF Sections, One
    <2>2. Leave(s) = [s EXCEPT !.critical = 1, !.flush = FALSE]
        BY <1>1, <2>1, LeaveIs
    <2>3. [[s EXCEPT !.critical = 1, !.flush = FALSE] EXCEPT !.starting = FALSE]
            = [s EXCEPT !.starting = FALSE, !.critical = 1]
        BY <1>1 DEF Data
    <2> QED
        BY <1>2, <2>2, <2>3 DEF Started
<1>3. CASE ~s.starting
    <2>1. s.critical = 1 /\ s.starting = FALSE
        BY <1>1, <1>3 DEF Sections, One, Data
    <2> QED
        BY <1>3, <2>1 DEF Started, Data
<1> QED
    BY <1>2, <1>3

LEMMA CompleteIs ==
    ASSUME NEW s \in Data, s.result = "none", NEW error
    PROVE  Complete(s, s.action, error)
             = [s EXCEPT !.result = Outcome(s, error), !.cancel_due = FALSE]
BY DEF Complete, Asserted

LEMMA CancelledIs ==
    ASSUME NEW s \in Data
    PROVE  Cancelled(s) = [s EXCEPT !.cancelled = TRUE,
                                    !.cancel_due = (s.cancel_due \/ (~s.cancelled /\ s.result = "none"))]
BY DEF Cancelled, Data

LEMMA SuspendCompleteIs ==
    ASSUME NEW s \in Data, s.task # "none"
    PROVE  /\ SuspendComplete(s, "none") = [s EXCEPT !.is_suspended = TRUE, !.task = "none"]
           /\ SuspendComplete(s, "not_supported")
                = [s EXCEPT !.is_suspended = TRUE, !.task = "at_return", !.cancelled = TRUE,
                            !.cancel_due = (s.cancel_due \/ (~s.cancelled /\ s.result = "none"))]
<1> DEFINE t == [s EXCEPT !.is_suspended = TRUE]
           u == [s EXCEPT !.is_suspended = TRUE, !.task = "at_return"]
<1>1. Asserted(s, s.task # "none", "suspend_complete") = s
    BY DEF Asserted
<1>2. u \in Data
  <2>1. "at_return" \in Tasks
    BY Names
  <2> QED
    BY <2>1 DEF Data
<1>9. u.cancel_due = s.cancel_due /\ u.cancelled = s.cancelled /\ u.result = s.result
    BY DEF Data
<1>3. SuspendComplete(s, "none") = [t EXCEPT !.task = "none"]
    BY <1>1 DEF SuspendComplete
<1>4. SuspendComplete(s, "not_supported") = Cancelled([t EXCEPT !.task = "at_return"])
    BY <1>1 DEF SuspendComplete
<1>5. [t EXCEPT !.task = "at_return"] = u /\ [t EXCEPT !.task = "none"]
        = [s EXCEPT !.is_suspended = TRUE, !.task = "none"]
    BY DEF Data
<1> HIDE DEF u, t
<1>6. Cancelled(u) = [u EXCEPT !.cancelled = TRUE,
                               !.cancel_due = (s.cancel_due \/ (~s.cancelled /\ s.result = "none"))]
    BY <1>2, <1>9, CancelledIs
<1>7. [u EXCEPT !.cancelled = TRUE,
                !.cancel_due = (s.cancel_due \/ (~s.cancelled /\ s.result = "none"))]
       = [s EXCEPT !.is_suspended = TRUE, !.task = "at_return", !.cancelled = TRUE,
                   !.cancel_due = (s.cancel_due \/ (~s.cancelled /\ s.result = "none"))]
    BY DEF Data, u
<1> QED
    BY <1>3, <1>4, <1>5, <1>6, <1>7

-----------------------------------------------------------------------------
(* From one phase to the next *)

\* What is new of s is only the state of its machine.
LEMMA BusyTalks ==
    ASSUME NEW s, Busy(s), Removal(s), NEW state, NEW transfer,
           \/ state = "SEND_PENDING" /\ transfer \in {"command", "next_user", "cancel"} /\ ~s.on_removal
           \/ state = "GET_RESP" /\ transfer = "read"
           \/ state = "SEND_ASYNC" /\ transfer = "async"
    PROVE  LET t == [s EXCEPT !.ssm = state, !.transfer = transfer]
           IN  Base(t) /\ Talks(t)
<1> DEFINE t == [s EXCEPT !.ssm = state, !.transfer = transfer]
<1>0. s \in Data /\ state \in SsmStates /\ transfer \in Transferring
    BY Names DEF Busy, Base
<1>1. t \in Data /\ t.ssm = state /\ t.transfer = transfer
    BY <1>0 DEF Data
<1>2. Base(t) /\ Running(t) /\ Removal(t) /\ Busy(t) /\ t.on_removal = s.on_removal
    BY <1>1 DEF Busy, Base, Data, Running, Removal, Sections
<1> HIDE DEF t
<1>3. Talks(t)
    BY <1>1, <1>2 DEF Talks
<1> QED
    BY <1>2, <1>3 DEF t

LEMMA BusyWaits ==
    ASSUME NEW s, Busy(s), Removal(s)
    PROVE  Base(WaitInterrupt(s)) /\ Waits(WaitInterrupt(s))
<1> DEFINE t == [s EXCEPT !.critical = s.critical - 1, !.flush = (s.flush \/ s.critical = 1),
                          !.ssm = "WAIT_INTERRUPT",
                          !.transfer = IF s.callback = "PROBE" THEN "interrupt_bare" ELSE "interrupt"]
<1>1. /\ s \in Data /\ s.action # "NONE" /\ s.critical # 0 /\ s.critical - 1 = Sections(s)
      /\ Sections(s) \in Nat /\ s.flush = FALSE
  <2>1. s \in Data /\ s.action # "NONE" /\ ~s.flush /\ s.critical = Sections(s) + 1
    BY DEF Busy, Base, Running
  <2>2. Sections(s) \in Nat
    BY DEF Sections, One
  <2>3. s.flush \in BOOLEAN
    BY <2>1 DEF Data
  <2> QED
    BY <2>1, <2>2, <2>3
<1>2. WaitInterrupt(s) = t
    BY <1>1, WaitInterruptIs
<1>3. t \in Data
  <2>1. /\ s.critical - 1 \in Nat /\ (s.flush \/ s.critical = 1) \in BOOLEAN
        /\ "WAIT_INTERRUPT" \in SsmStates
        /\ (IF s.callback = "PROBE" THEN "interrupt_bare" ELSE "interrupt") \in Transferring
    BY <1>1, Names
  <2> QED
    BY <1>1, <2>1 DEF Data
<1>4. Base(t) /\ Running(t) /\ Removal(t)
    BY <1>3 DEF Busy, Base, Data, Running, Removal
<1>5. /\ t.ssm = "WAIT_INTERRUPT" /\ t.critical = Sections(s) /\ Sections(t) = Sections(s)
      /\ t.transfer \in {"interrupt", "interrupt_bare"}
      /\ t.flush <=> t.critical = 0
      /\ s.action = t.action /\ s.suspended = t.suspended /\ s.callback = t.callback
      /\ t.callback # "PROBE" => t.transfer = "interrupt"
  <2>1. /\ t.ssm = "WAIT_INTERRUPT" /\ t.critical = s.critical - 1
        /\ t.transfer = (IF s.callback = "PROBE" THEN "interrupt_bare" ELSE "interrupt")
        /\ t.flush <=> s.critical = 1
        /\ s.action = t.action /\ s.suspended = t.suspended /\ s.callback = t.callback
        /\ s.starting = t.starting
    BY <1>1 DEF Data
  <2>2. s.critical \in Nat
    BY <1>1 DEF Data
  <2> HIDE DEF t
  <2> QED
    BY <1>1, <2>1, <2>2 DEF Sections
<1>6. t.action \in Matching => t.callback # "PROBE"
    BY <1>5 DEF Busy, Running, Matching
<1> HIDE DEF t
<1>7. Waits(t)
    BY <1>4, <1>5, <1>6 DEF Waits, Busy
<1> QED
    BY <1>2, <1>4, <1>7

LEMMA WaitsEnters ==
    ASSUME NEW s, Base(s), Waits(s), ~s.suspended
    PROVE  Busy(Enter(s)) /\ Removal(Enter(s)) /\ Enter(s) \in Data
           /\ Enter(s) = [s EXCEPT !.critical = s.critical + 1, !.flush = FALSE]
<1> DEFINE t == [s EXCEPT !.critical = s.critical + 1, !.flush = FALSE]
<1>1. s \in Data /\ s.action # "NONE"
    BY DEF Base, Waits, Running
<1>2. Enter(s) = t
    BY <1>1, EnterIs
<1>3. t \in Data
  <2>1. s.critical + 1 \in Nat
    BY <1>1 DEF Data
  <2> QED
    BY <1>1, <2>1 DEF Data
<1>4. Base(t) /\ Running(t) /\ Removal(t) /\ Sections(t) = Sections(s)
    BY <1>3 DEF Base, Data, Waits, Running, Removal, Sections
<1>5. ~t.suspended /\ ~t.flush /\ t.critical = Sections(s) + 1
    BY <1>1 DEF Data, Waits
<1> HIDE DEF t
<1>6. Busy(t)
    BY <1>4, <1>5 DEF Busy
<1>7. Busy(Enter(s)) /\ Removal(Enter(s)) /\ Enter(s) \in Data
    BY <1>2, <1>3, <1>4, <1>6
<1> QED
    BY <1>2, <1>7 DEF t

-----------------------------------------------------------------------------
(* The end of an operation *)

\* After the callback of a final answer, and after the machine has ended.
Closed(s, report, result) ==
    [s EXCEPT !.starting = FALSE, !.critical = 1, !.report = report, !.result = result,
              !.cancel_due = FALSE]
Finished(s, report, result) ==
    [s EXCEPT !.ssm = "none", !.transfer = "none", !.on_removal = FALSE, !.starting = FALSE,
              !.critical = 0, !.flush = TRUE, !.report = report, !.result = result,
              !.cancel_due = FALSE]

EndResult(s, error) ==
    IF s.callback \in {"PROBE", "OPEN"} /\ error = "cancelled" THEN "ok" ELSE Outcome(s, error)

LEMMA BusyFacts ==
    ASSUME NEW s, Busy(s)
    PROVE  /\ s \in Data /\ s.action # "NONE" /\ s.action \in Operations /\ s.callback = s.action
           /\ s.result = "none" /\ s.flush = FALSE /\ s.critical = Sections(s) + 1
           /\ s.starting => s.action \in Long
           /\ s.pending = "none"
<1>1. /\ s \in Data /\ s.action # "NONE" /\ s.callback = s.action /\ s.result = "none" /\ ~s.flush
      /\ s.critical = Sections(s) + 1
      /\ s.starting => s.action \in Long
    BY DEF Busy, Base, Running
<1>2. s.action \in Actions /\ s.flush \in BOOLEAN /\ s.pending = "none"
    BY <1>1 DEF Data
<1> QED
    BY <1>1, <1>2 DEF Actions

\* The end of the sections that an operation is in besides that of the machine.
LEMMA SectionsAreLeft ==
    ASSUME NEW s \in Data, s.action \in Operations, s.flush = FALSE,
           s.critical = Sections(s) + 1, s.starting => s.action \in Long
    PROVE  LET t == [s EXCEPT !.starting = FALSE, !.critical = 1]
           IN  /\ s.action \in Long => Started(s) = t
               /\ s.action = "DELETE" => Leave(s) = t
               /\ s.action \notin Long \union {"DELETE"} => s = t
<1> DEFINE t == [s EXCEPT !.starting = FALSE, !.critical = 1]
<1>1. s.starting \in BOOLEAN
    BY DEF Data
<1>2. ASSUME s.action \in Long PROVE Started(s) = t
    BY <1>2, StartedIs
<1>3. ASSUME s.action = "DELETE" PROVE Leave(s) = t
    <2>1. s.starting = FALSE /\ s.critical = 2 /\ s.critical # 0 /\ s.critical # 1 /\ s.critical - 1 = 1
        BY <1>1, <1>3 DEF Sections, One, Long, Matching
    <2>2. Leave(s) = [s EXCEPT !.critical = 1, !.flush = FALSE]
        BY <1>3, <2>1, LeaveIs
    <2>3. [s EXCEPT !.critical = 1, !.flush = FALSE] = t
        BY <2>1 DEF Data
    <2> QED
        BY <2>2, <2>3
<1>4. ASSUME s.action \notin Long \union {"DELETE"} PROVE s = t
    <2>1. s.starting = FALSE /\ s.critical = 1
        BY <1>1, <1>4 DEF Sections, One
    <2> QED
        BY <2>1 DEF Data
<1> QED
    BY <1>2, <1>3, <1>4

LEMMA EndedIs ==
    ASSUME NEW s \in Data, s.action \in Operations, s.callback = s.action, s.result = "none",
           s.flush = FALSE, s.critical = Sections(s) + 1, s.starting => s.action \in Long,
           NEW error
    PROVE  Ended(s, error) = Closed(s, s.report, EndResult(s, error))
<1> DEFINE t == [s EXCEPT !.starting = FALSE, !.critical = 1]
           R == EndResult(s, error)
<1>1. t \in Data /\ t.action = s.action /\ t.result = "none"
    BY DEF Data
<1>2. t.report = s.report /\ t.callback = s.callback
    BY DEF Data
<1>3. \A r : [t EXCEPT !.result = r, !.cancel_due = FALSE] = Closed(s, s.report, r)
    BY DEF Data, Closed
<1>4. /\ s.action \in Long => Started(s) = t
      /\ s.action = "DELETE" => Leave(s) = t
      /\ s.action \notin Long \union {"DELETE"} => s = t
    BY SectionsAreLeft
<1> HIDE DEF t
<1>5. \A e : Complete(t, s.action, e) = [t EXCEPT !.result = Outcome(t, e), !.cancel_due = FALSE]
    BY <1>1, CompleteIs
<1>6. \A e : Outcome(t, e) = Outcome(s, e)
    BY <1>1, <1>2 DEF Outcome
<1>7. \A e : Complete(t, s.action, e) = Closed(s, s.report, Outcome(s, e))
    BY <1>3, <1>5, <1>6
<1>8. CASE s.action \in Long
    <2>1. Ended(s, error) = Complete(t, s.action, error) /\ R = Outcome(s, error)
        BY <1>4, <1>8 DEF Ended, EndResult, Long, Matching
    <2> QED
        BY <1>7, <2>1
<1>9. CASE s.action = "DELETE"
    <2>1. Ended(s, error) = Complete(t, s.action, error) /\ R = Outcome(s, error)
        BY <1>4, <1>9 DEF Ended, EndResult, Long, Matching
    <2> QED
        BY <1>7, <2>1
<1>10. CASE s.action \notin Long \union {"DELETE"}
    <2>1. s = t
        BY <1>4, <1>10
    <2>2. CASE s.action \in {"PROBE", "OPEN"} /\ error = "cancelled"
        <3>1. Ended(s, error) = Complete(t, s.action, "none") /\ R = "ok"
            BY <1>10, <2>1, <2>2 DEF Ended, EndResult
        <3>2. Outcome(s, "none") = "ok"
            BY <1>10 DEF Outcome, Long
        <3> QED
            BY <1>7, <3>1, <3>2
    <2>3. CASE ~(s.action \in {"PROBE", "OPEN"} /\ error = "cancelled")
        <3>1. Ended(s, error) = Complete(t, s.action, error) /\ R = Outcome(s, error)
            BY <1>10, <2>1, <2>3 DEF Ended, EndResult
        <3> QED
            BY <1>7, <3>1
    <2> QED
        BY <2>2, <2>3
<1> QED
    BY <1>8, <1>9, <1>10

\* The machine ends without an answer, or after the finger was removed.
LEMMA DoneEnds ==
    ASSUME NEW s, Busy(s), NEW error, error # "none" \/ s.on_removal,
           EndResult(s, error) \in Results
    PROVE  SsmDone(s, error) = Finished(s, s.report, EndResult(s, error))
<1> DEFINE t == [s EXCEPT !.ssm = "none", !.transfer = "none"]
           r == EndResult(s, error)
           u == Closed(t, s.report, r)
<1>1. s \in Data /\ "none" \in SsmStates /\ "none" \in Transferring
    BY Names, BusyFacts
<1>2. t \in Data
    BY <1>1 DEF Data
<1>3. /\ t.action = s.action /\ t.callback = s.callback /\ t.result = s.result
      /\ t.flush = s.flush /\ t.critical = s.critical /\ t.starting = s.starting
      /\ t.report = s.report /\ t.on_removal = s.on_removal
    BY <1>1 DEF Data
<1>4. Sections(t) = Sections(s)
    BY <1>3 DEF Sections
<1>5. EndResult(t, error) = r
    BY <1>3 DEF EndResult, Outcome
<1>6. u \in Data
    BY <1>1 DEF Data, Closed
<1>7. u.critical = 1 /\ u.action = s.action
    BY <1>2, <1>3 DEF Closed, Data
<1>8. [u EXCEPT !.critical = 0, !.flush = TRUE] = [s EXCEPT !.ssm = "none", !.transfer = "none",
                !.starting = FALSE,
              !.critical = 0, !.flush = TRUE, !.report = s.report, !.result = r,
              !.cancel_due = FALSE]
    BY <1>1 DEF Closed, Data
<1>9. [[u EXCEPT !.critical = 0,
                 !.flush = TRUE] EXCEPT !.on_removal = FALSE] = Finished(s, s.report, r)
    BY <1>1, <1>8 DEF Data, Finished
<1>10. SsmDone(s, error) = [Leave(IF error # "none" \/ t.on_removal THEN Ended(t, error) ELSE t)
            EXCEPT !.on_removal = FALSE]
    BY <1>3 DEF SsmDone
<1> HIDE DEF t, r, u
<1>11. Ended(t, error) = u
    BY <1>2, <1>3, <1>4, <1>5, BusyFacts, EndedIs DEF u
<1>12. Leave(u) = [u EXCEPT !.critical = 0, !.flush = TRUE]
    <2>1. u.critical # 0 /\ u.critical - 1 = 0 /\ u.action # "NONE"
        BY <1>7 DEF Busy, Running
    <2>2. Leave(u) = [u EXCEPT !.critical = u.critical - 1, !.flush = (u.flush \/ u.critical = 1)]
        BY <1>6, <2>1, LeaveIs
    <2>3. (u.flush \/ u.critical = 1) = TRUE
        BY <1>7
    <2> QED
        BY <2>1, <2>2, <2>3
<1>13. SsmDone(s, error) = Finished(s, s.report, r)
    BY <1>3, <1>9, <1>10, <1>11, <1>12
<1> QED
    BY <1>13 DEF r

\* The machine ends after a final answer.
LEMMA ClosedEnds ==
    ASSUME NEW s, Busy(s), ~s.on_removal, NEW report \in Reports, NEW result \in Results
    PROVE  SsmDone(Closed(s, report, result), "none") = Finished(s, report, result)
<1> DEFINE c == Closed(s, report, result)
           t == [c EXCEPT !.ssm = "none", !.transfer = "none"]
<1>1. s \in Data /\ "none" \in SsmStates /\ "none" \in Transferring
    BY Names, BusyFacts
<1>2. c \in Data /\ c.on_removal = s.on_removal /\ c.action = s.action /\ c.critical = 1
    BY <1>1 DEF Data, Closed
<1> HIDE DEF c
<1>3. t \in Data /\ t.on_removal = s.on_removal /\ t.action = s.action /\ t.critical = 1
    BY <1>1, <1>2 DEF Data
<1>4. SsmDone(c, "none") = [Leave(t) EXCEPT !.on_removal = FALSE]
    BY <1>2 DEF SsmDone
<1>5. Leave(t) = [t EXCEPT !.critical = 0, !.flush = TRUE]
    <2> HIDE DEF t
    <2>1. t.critical # 0 /\ t.critical - 1 = 0 /\ t.action # "NONE"
        BY <1>3 DEF Busy, Running
    <2>2. Leave(t) = [t EXCEPT !.critical = t.critical - 1, !.flush = (t.flush \/ t.critical = 1)]
        BY <1>3, <2>1, LeaveIs
    <2>3. (t.flush \/ t.critical = 1) = TRUE
        BY <1>3
    <2> QED
        BY <2>1, <2>2, <2>3
<1>6. [[t EXCEPT !.critical = 0, !.flush = TRUE] EXCEPT !.on_removal = FALSE]
        = [c EXCEPT !.ssm = "none", !.transfer = "none", !.critical = 0, !.flush = TRUE,
                    !.on_removal = FALSE]
    BY <1>1, <1>2 DEF Data
<1>7. [c EXCEPT !.ssm = "none", !.transfer = "none", !.critical = 0, !.flush = TRUE,
                !.on_removal = FALSE]
        = Finished(s, report, result)
    BY <1>1 DEF c, Data, Closed, Finished
<1> QED
    BY <1>4, <1>5, <1>6, <1>7 DEF c

LEMMA FinishedIsOver ==
    ASSUME NEW s, Busy(s), s.delay_error = "none",
           NEW report \in Reports, NEW result \in Results, result # "none",
           ~(s.action \in Matching /\ "suspend" \in s.queued)
    PROVE  Base(Finished(s, report, result)) /\ Over(Finished(s, report, result))
<1> DEFINE t == Finished(s, report, result)
<1>0. s \in Data
    BY DEF Busy, Base
<1>1. /\ s \in Data /\ "none" \in SsmStates /\ "none" \in Transferring
      /\ s.suspended \in BOOLEAN
    BY <1>0, Names DEF Data
<1>2. t \in Data
    BY <1>1 DEF Data, Finished
<1>3. /\ t.ssm = "none" /\ t.transfer = "none" /\ t.on_removal = FALSE /\ t.starting = FALSE
      /\ t.critical = 0 /\ t.flush = TRUE /\ t.result = result /\ t.cancel_due = FALSE
    BY <1>1 DEF Data, Finished
<1>4. /\ t.delay_error = s.delay_error /\ t.suspended = s.suspended /\ t.action = s.action
      /\ t.queued = s.queued /\ t.task = s.task /\ t.is_suspended = s.is_suspended
    BY <1>1 DEF Data, Finished
<1> HIDE DEF t
<1>5. Base(t)
    BY <1>2, <1>3, <1>4 DEF Base, Busy
<1>6. Over(t)
    BY <1>3, <1>4, BusyFacts DEF Over, Still, Busy
<1> QED
    BY <1>5, <1>6 DEF t

-----------------------------------------------------------------------------
(* The callbacks *)

\* What a command may be answered, whatever the sensor has said before
AnswersTo(command) ==
    CASE command = "VERIFY" ->
             {"captured", "ready", "ok", "retry", "no_match", "no_record", "other"}
      [] command = "IDENTIFY" ->
             {"next_id", "ready", "ok", "unknown", "retry", "no_match", "no_record", "other"}
      [] command = "ENROLL" -> {"ready", "percent", "ok", "other"}
      [] command \in {"DELETE", "CLEAR_STORAGE"} -> {"progress", "ok", "no_record", "other"}
      [] command \in {"PROBE", "OPEN"} -> {"ok", "busy", "other"}
      [] command = "CLOSE" -> {"ok", "other"}
      [] OTHER -> {}

\* A callback which does not end the operation
Kept(s, report, removal, error, stage, progress, idx) ==
    [s EXCEPT !.starting = FALSE, !.critical = 1 + One(s.action = "DELETE"),
              !.report = report, !.on_removal = removal, !.delay_error = error,
              !.stage = stage, !.progress = progress, !.id_idx = idx]

ReportFits(report, id) ==
    /\ report = "match" => id = "ok"
    /\ report = "retry" => id = "retry"
ResultFits(action, result, id) ==
    /\ result # "none" /\ result # "cancelled"
    /\ result = "not_found" => id = "no_record"
    /\ result = "ok" /\ action = "ENROLL" => id = "ok"
    /\ result = "ok" /\ action \in {"DELETE", "CLEAR_STORAGE"} => id \in {"ok", "no_record"}

Closes(s, id, t) ==
    /\ id \in Final
    /\ \E report \in Reports, result \in Results :
           /\ t = Closed(s, report, result)
           /\ ReportFits(report, id) /\ ResultFits(s.action, result, id)

AwaitsRemoval(s, id, t) ==
    /\ id \in Final /\ s.action \in Matching /\ s.finger
    /\ \E report \in Reports, error \in HeldBack :
           /\ t = Kept(s, report, TRUE, error, s.stage, s.progress, s.id_idx)
           /\ error = "none" <=> report # "none"
           /\ ReportFits(report, id) /\ (error # "none" => id = "no_record")

\* The stages of an enrollment after an answer
StagesAre(s, id, percent, stage, progress) ==
    CASE s.action = "ENROLL" /\ id = "ready" -> stage = 0 /\ progress = s.progress
      [] s.action = "ENROLL" /\ id = "percent" /\ s.stage < DoneStages(percent) ->
             stage = DoneStages(percent) /\ progress = DoneStages(percent)
      [] OTHER -> stage = s.stage /\ progress = s.progress

GoesOn(s, id, percent, t) ==
    /\ id \notin Final
    /\ \E stage, progress \in Nat :
           /\ t = Kept(s, "none", FALSE, "none", stage, progress, s.id_idx)
           /\ StagesAre(s, id, percent, stage, progress)

SendsNext(s, id, t) ==
    /\ id = "next_id" /\ s.action = "IDENTIFY" /\ s.id_idx + 1 \in 1..GallerySize
    /\ t = [Kept(s, "none", FALSE, "none", s.stage, s.progress, s.id_idx + 1)
               EXCEPT !.pending = "next_user"]

SendsCancel(s, id, t) ==
    /\ id = "busy" /\ s.callback \in {"PROBE", "OPEN"}
    /\ t = [s EXCEPT !.pending = "cancel"]

\* A machine that has got an answer
Asking(s) == Busy(s) /\ Removal(s) /\ ~s.on_removal /\ s.ssm # "none"

LEMMA AskingFacts ==
    ASSUME NEW s, Asking(s)
    PROVE  /\ s \in Data /\ s.action # "NONE" /\ s.action \in Operations /\ s.callback = s.action
           /\ s.result = "none" /\ s.flush = FALSE /\ s.critical = Sections(s) + 1
           /\ s.starting => s.action \in Long
           /\ s.pending = "none" /\ s.ssm # "none" /\ s.on_removal = FALSE
           /\ s.report = "none" /\ s.delay_error = "none"
<1>1. s \in Data /\ Busy(s)
    BY DEF Asking, Busy, Base
<1>2. s.on_removal \in BOOLEAN
    BY <1>1 DEF Data
<1> QED
    BY <1>1, <1>2, BusyFacts DEF Asking, Removal

\* The operations that wait for a finger, after their section was left
LEMMA StartedFacts ==
    ASSUME NEW s, Asking(s), s.action \in Long
    PROVE  LET u == [s EXCEPT !.starting = FALSE, !.critical = 1]
           IN  /\ Started(s) = u /\ u \in Data
               /\ u.action = s.action /\ u.callback = s.action /\ u.result = "none"
               /\ u.report = "none" /\ u.delay_error = "none" /\ u.finger = s.finger
               /\ u.pending = "none" /\ u.ssm # "none" /\ u.bad = GallerySize
               /\ u.id_idx = s.id_idx /\ u.stage = s.stage
               /\ u = Kept(s, "none", FALSE, "none", s.stage, s.progress, s.id_idx)
<1> DEFINE u == [s EXCEPT !.starting = FALSE, !.critical = 1]
<1>1. s \in Data /\ s.report = "none" /\ s.on_removal = FALSE /\ s.delay_error = "none"
    BY AskingFacts
<1>2. u \in Data
    BY <1>1 DEF Data
<1>3. s.action # "DELETE"
    BY DEF Long, Matching
<1>4. 1 + One(s.action = "DELETE") = 1
    BY <1>3 DEF One
<1>5. u = Kept(s, "none", FALSE, "none", s.stage, s.progress, s.id_idx)
    BY <1>1, <1>4 DEF Kept, Data
<1>6. /\ u.action = s.action /\ u.callback = s.callback /\ u.result = s.result
      /\ u.report = s.report /\ u.delay_error = s.delay_error /\ u.finger = s.finger
      /\ u.pending = s.pending /\ u.ssm = s.ssm /\ u.id_idx = s.id_idx /\ u.bad = GallerySize
      /\ u.stage = s.stage
    BY <1>1 DEF Data
<1> HIDE DEF u
<1>7. Started(s) = u
    BY AskingFacts, SectionsAreLeft DEF u
<1> QED
    BY <1>2, <1>5, <1>6, <1>7, AskingFacts DEF u

LEMMA AfterRemovalIs ==
    ASSUME NEW u \in Data, u.action \in Matching, u.callback = u.action, u.result = "none",
           u.delay_error = "none", u.report = "none", NEW report \in Reports, report # "none"
    PROVE  /\ AfterRemoval(Report(u, report), "none")
                = IF u.finger THEN [u EXCEPT !.report = report, !.on_removal = TRUE]
                  ELSE [u EXCEPT !.report = report, !.result = report, !.cancel_due = FALSE]
           /\ AfterRemoval(u, "not_found")
                = IF u.finger THEN [u EXCEPT !.on_removal = TRUE, !.delay_error = "not_found"]
                  ELSE [u EXCEPT !.result = "not_found", !.cancel_due = FALSE]
<1> DEFINE v == [u EXCEPT !.report = report]
<1>1. Report(u, report) = v
    BY DEF Report
<1>2. /\ v \in Data /\ v.action = u.action /\ v.callback = u.action /\ v.result = "none"
      /\ v.delay_error = "none" /\ v.report = report /\ v.finger = u.finger
    BY DEF Data
<1>3. /\ [v EXCEPT !.on_removal = TRUE] = [u EXCEPT !.report = report, !.on_removal = TRUE]
      /\ [v EXCEPT !.result = report, !.cancel_due = FALSE]
           = [u EXCEPT !.report = report, !.result = report, !.cancel_due = FALSE]
    BY DEF Data
<1> HIDE DEF v
<1>4. Complete(v, v.action, "none") = [v EXCEPT !.result = Outcome(v, "none"),
                                                !.cancel_due = FALSE]
    BY <1>2, CompleteIs
<1>5. Outcome(v, "none") = report
    BY <1>2 DEF Outcome
<1>6. ~u.finger => AfterRemoval(v, "none") = [v EXCEPT !.result = report, !.cancel_due = FALSE]
  <2>1. ~u.finger => AfterRemoval(v, "none") = Complete(v, v.action, "none")
    BY <1>2 DEF AfterRemoval
  <2> QED
    BY <1>4, <1>5, <2>1
<1>7. u.finger => AfterRemoval(v, "none") = [v EXCEPT !.on_removal = TRUE]
  <2>1. Asserted(v, "none" = "none" \/ v.delay_error = "none", "delay_error") = v
    BY DEF Asserted
  <2>2. u.finger => AfterRemoval(v, "none")
           = [v EXCEPT !.on_removal = TRUE,
                       !.delay_error = IF v.delay_error = "none" THEN "none" ELSE v.delay_error]
    BY <1>2, <2>1 DEF AfterRemoval
  <2>3. [v EXCEPT !.on_removal = TRUE,
                  !.delay_error = IF v.delay_error = "none" THEN "none" ELSE v.delay_error]
          = [v EXCEPT !.on_removal = TRUE]
    BY <1>2 DEF Data
  <2> QED
    BY <2>2, <2>3
<1>8. Complete(u, u.action, "not_found") = [u EXCEPT !.result = "not_found", !.cancel_due = FALSE]
  <2>1. Outcome(u, "not_found") = "not_found"
    BY DEF Outcome
  <2>2. Complete(u, u.action, "not_found")
          = [u EXCEPT !.result = Outcome(u, "not_found"), !.cancel_due = FALSE]
    BY CompleteIs
  <2> QED
    BY <2>1, <2>2
<1>9. u.finger => AfterRemoval(u, "not_found")
                    = [u EXCEPT !.on_removal = TRUE, !.delay_error = "not_found"]
  <2>1. Asserted(u, "not_found" = "none" \/ u.delay_error = "none", "delay_error") = u
    BY DEF Asserted
  <2>2. u.finger => AfterRemoval(u, "not_found")
           = [u EXCEPT !.on_removal = TRUE,
                       !.delay_error = IF u.delay_error = "none" THEN "not_found" ELSE u.delay_error]
    BY <2>1 DEF AfterRemoval
  <2> QED
    BY <2>2 DEF Data
<1>10. ~u.finger => AfterRemoval(u, "not_found") = [u EXCEPT !.result = "not_found",
                                                             !.cancel_due = FALSE]
    BY <1>8 DEF AfterRemoval
<1> QED
    BY <1>1, <1>3, <1>6, <1>7, <1>9, <1>10

Goes(s, id, percent, t) ==
    \/ Closes(s, id, t) \/ AwaitsRemoval(s, id, t) \/ GoesOn(s, id, percent, t)
    \/ SendsNext(s, id, t) \/ SendsCancel(s, id, t)

\* The ends of an operation that waits for a finger
LEMMA LongCompletes ==
    ASSUME NEW s, Asking(s), s.action \in Long, NEW error
    PROVE  LET u == [s EXCEPT !.starting = FALSE, !.critical = 1]
           IN  Complete(u, s.action, error) = Closed(s, "none", Outcome(s, error))
<1> DEFINE u == [s EXCEPT !.starting = FALSE, !.critical = 1]
<1>1. u \in Data /\ u.action = s.action /\ u.result = "none" /\ u.report = "none"
    BY StartedFacts
<1>2. s \in Data /\ s.report = "none"
    BY AskingFacts
<1>3. \A r : [u EXCEPT !.result = r, !.cancel_due = FALSE] = Closed(s, "none", r)
    BY <1>2 DEF Closed, Data
<1> HIDE DEF u
<1>4. Complete(u, u.action, error) = [u EXCEPT !.result = Outcome(u, error), !.cancel_due = FALSE]
    BY <1>1, CompleteIs
<1>5. Outcome(u, error) = Outcome(s, error)
    BY <1>1, <1>2 DEF Outcome
<1> QED
    BY <1>1, <1>3, <1>4, <1>5 DEF u

LEMMA MatchingReports ==
    ASSUME NEW s, Asking(s), s.action \in Matching, NEW id \in Final, NEW percent,
           NEW report \in {"match", "no_match", "retry"}, ReportFits(report, id)
    PROVE  Goes(s, id, percent, AfterRemoval(Report(Started(s), report), "none"))
<1> DEFINE u == [s EXCEPT !.starting = FALSE, !.critical = 1]
           t == AfterRemoval(Report(u, report), "none")
<1>1. s.action \in Long /\ s \in Data
    BY AskingFacts DEF Long
<1>2. /\ Started(s) = u /\ u \in Data /\ u.action = s.action /\ u.callback = s.action
      /\ u.result = "none" /\ u.report = "none" /\ u.delay_error = "none" /\ u.finger = s.finger
    BY <1>1, StartedFacts
<1>3. report \in Reports /\ report \in Results /\ report # "none" /\ "none" \in HeldBack
    BY Names
<1>4. /\ [u EXCEPT !.report = report, !.on_removal = TRUE]
           = Kept(s, report, TRUE, "none", s.stage, s.progress, s.id_idx)
      /\ [u EXCEPT !.report = report, !.result = report, !.cancel_due = FALSE]
           = Closed(s, report, report)
  <2>1. 1 + One(s.action = "DELETE") = 1
    BY DEF One, Matching
  <2>2. s.delay_error = "none"
    BY AskingFacts
  <2> QED
    BY <1>1, <2>1, <2>2 DEF Kept, Closed, Data
<1> HIDE DEF u
<1>5. t = IF u.finger THEN [u EXCEPT !.report = report, !.on_removal = TRUE]
          ELSE [u EXCEPT !.report = report, !.result = report, !.cancel_due = FALSE]
    BY <1>2, <1>3, AfterRemovalIs
<1> HIDE DEF t
<1>6. CASE s.finger
    <2>1. t = Kept(s, report, TRUE, "none", s.stage, s.progress, s.id_idx)
        BY <1>2, <1>4, <1>5, <1>6
    <2>2. AwaitsRemoval(s, id, t)
        BY <1>3, <1>6, <2>1 DEF AwaitsRemoval
    <2> QED
        BY <1>2, <2>2 DEF Goes, t
<1>7. CASE ~s.finger
    <2>1. t = Closed(s, report, report)
        BY <1>2, <1>4, <1>5, <1>7
    <2>2. ResultFits(s.action, report, id)
        BY DEF ResultFits
    <2>3. Closes(s, id, t)
        BY <1>3, <2>1, <2>2 DEF Closes
    <2> QED
        BY <1>2, <2>3 DEF Goes, t
<1> QED
    BY <1>6, <1>7

LEMMA NotFoundIsHeld ==
    ASSUME NEW s, Asking(s), s.action \in Matching, NEW percent
    PROVE  Goes(s, "no_record", percent, AfterRemoval(Started(s), "not_found"))
<1> DEFINE u == [s EXCEPT !.starting = FALSE, !.critical = 1]
           t == AfterRemoval(u, "not_found")
<1>1. s.action \in Long /\ s \in Data /\ s.report = "none"
    BY AskingFacts DEF Long
<1>2. /\ Started(s) = u /\ u \in Data /\ u.action = s.action /\ u.callback = s.action
      /\ u.result = "none" /\ u.report = "none" /\ u.delay_error = "none" /\ u.finger = s.finger
    BY <1>1, StartedFacts
<1>3. /\ "none" \in Reports /\ "no_match" \in Reports /\ "not_found" \in Results
      /\ "not_found" \in HeldBack /\ "no_record" \in Final
    BY Names DEF Final
<1>4. /\ [u EXCEPT !.on_removal = TRUE, !.delay_error = "not_found"]
           = Kept(s, "none", TRUE, "not_found", s.stage, s.progress, s.id_idx)
      /\ [u EXCEPT !.result = "not_found", !.cancel_due = FALSE] = Closed(s, "none", "not_found")
  <2>1. 1 + One(s.action = "DELETE") = 1
    BY DEF One, Matching
  <2> QED
    BY <1>1, <2>1 DEF Kept, Closed, Data
<1> HIDE DEF u
<1>5. t = IF u.finger THEN [u EXCEPT !.on_removal = TRUE, !.delay_error = "not_found"]
          ELSE [u EXCEPT !.result = "not_found", !.cancel_due = FALSE]
  <2>1. "no_match" # "none"
    OBVIOUS
  <2> QED
    BY <1>2, <1>3, <2>1, AfterRemovalIs
<1> HIDE DEF t
<1>6. CASE s.finger
    <2>1. t = Kept(s, "none", TRUE, "not_found", s.stage, s.progress, s.id_idx)
        BY <1>2, <1>4, <1>5, <1>6
    <2>2. AwaitsRemoval(s, "no_record", t)
        BY <1>3, <1>6, <2>1 DEF AwaitsRemoval, ReportFits
    <2> QED
        BY <1>2, <2>2 DEF Goes, t
<1>7. CASE ~s.finger
    <2>1. t = Closed(s, "none", "not_found")
        BY <1>2, <1>4, <1>5, <1>7
    <2>2. ResultFits(s.action, "not_found", "no_record") /\ ReportFits("none", "no_record")
        BY DEF ResultFits, ReportFits
    <2>3. Closes(s, "no_record", t)
        BY <1>3, <2>1, <2>2 DEF Closes
    <2> QED
        BY <1>2, <2>3 DEF Goes, t
<1> QED
    BY <1>6, <1>7

\* An error ends the operation at once.
LEMMA LongFails ==
    ASSUME NEW s, Asking(s), s.action \in Long, NEW id \in Final, NEW percent,
           NEW error \in {"error", "not_found"}, error = "not_found" => id = "no_record"
    PROVE  Goes(s, id, percent, Complete(Started(s), s.action, error))
<1>1. Outcome(s, error) = error /\ error \in Results /\ "none" \in Reports
    BY Names DEF Outcome
<1> DEFINE u == [s EXCEPT !.starting = FALSE, !.critical = 1]
<1>2. Complete(Started(s), s.action, error) = Closed(s, "none", error)
  <2>1. Started(s) = u
    BY StartedFacts
  <2>2. Complete(u, s.action, error) = Closed(s, "none", Outcome(s, error))
    BY LongCompletes
  <2> QED
    BY <1>1, <2>1, <2>2
<1>3. ResultFits(s.action, error, id) /\ ReportFits("none", id)
    BY DEF ResultFits, ReportFits
<1>4. Closes(s, id, Complete(Started(s), s.action, error))
    BY <1>1, <1>2, <1>3 DEF Closes
<1> QED
    BY <1>4 DEF Goes

\* Nothing but the start of the operation is over.
LEMMA LongStarts ==
    ASSUME NEW s, Asking(s), s.action \in Long, NEW id, id \notin Final, NEW percent,
           StagesAre(s, id, percent, s.stage, s.progress)
    PROVE  Goes(s, id, percent, Started(s))
<1> DEFINE u == [s EXCEPT !.starting = FALSE, !.critical = 1]
<1>1. Started(s) = Kept(s, "none", FALSE, "none", s.stage, s.progress, s.id_idx)
  <2>1. Started(s) = u /\ u = Kept(s, "none", FALSE, "none", s.stage, s.progress, s.id_idx)
    BY StartedFacts
  <2> QED
    BY <2>1
<1>2. s.stage \in Nat /\ s.progress \in Nat
  <2>1. s \in Data
    BY AskingFacts
  <2> QED
    BY <2>1 DEF Data
<1>3. GoesOn(s, id, percent, Started(s))
    BY <1>1, <1>2 DEF GoesOn
<1> QED
    BY <1>3 DEF Goes

LEMMA VerifyAnswered ==
    ASSUME NEW s, Asking(s), s.action = "VERIFY", NEW id \in AnswersTo("VERIFY"), NEW percent
    PROVE  Goes(s, id, percent, Answered(s, id, percent))
<1>1. s.action \in Matching /\ s.action \in Long
    BY DEF Matching, Long
<1>2. Answered(s, id, percent) = VerifyAnswer(Started(s), id)
    BY AskingFacts DEF Answered
<1>3. id \in {"captured", "ready", "ok", "retry", "no_match", "no_record", "other"}
    BY DEF AnswersTo
<1>4. CASE id \in {"ok", "no_match", "retry"}
    <2> DEFINE report == IF id = "ok" THEN "match" ELSE id
    <2>1. report \in {"match", "no_match", "retry"} /\ ReportFits(report, id) /\ id \in Final
        BY <1>4 DEF ReportFits, Final
    <2>2. VerifyAnswer(Started(s), id) = AfterRemoval(Report(Started(s), report), "none")
        BY <1>4 DEF VerifyAnswer
    <2> HIDE DEF report
    <2>3. Goes(s, id, percent, AfterRemoval(Report(Started(s), report), "none"))
        BY <1>1, <2>1, MatchingReports
    <2> QED
        BY <1>2, <2>2, <2>3
<1>5. CASE id \in {"no_record", "other"}
    <2> DEFINE error == IF id = "other" THEN "error" ELSE "not_found"
    <2>1. error \in {"error", "not_found"} /\ (error = "not_found" => id = "no_record") /\ id \in Final
        BY <1>5 DEF Final
    <2>2. VerifyAnswer(Started(s), id) = Complete(Started(s), s.action, error)
        BY <1>5 DEF VerifyAnswer
    <2> HIDE DEF error
    <2>3. Goes(s, id, percent, Complete(Started(s), s.action, error))
        BY <1>1, <2>1, LongFails
    <2> QED
        BY <1>2, <2>2, <2>3
<1>6. CASE id \in {"captured", "ready"}
    <2>1. id \notin Final /\ StagesAre(s, id, percent, s.stage, s.progress)
        BY <1>6 DEF Final, StagesAre
    <2>2. VerifyAnswer(Started(s), id) = Started(s)
        BY <1>6 DEF VerifyAnswer
    <2>3. Goes(s, id, percent, Started(s))
        BY <1>1, <2>1, LongStarts
    <2> QED
        BY <1>2, <2>2, <2>3
<1> QED
    BY <1>3, <1>4, <1>5, <1>6

\* A callback that sends a command goes on with the machine of the last one.
LEMMA SensorCmdFollows ==
    ASSUME NEW u, u.pending = "none", u.ssm # "none", NEW cmd
    PROVE  SensorCmd(u, cmd, "none") = [u EXCEPT !.pending = cmd]
<1>1. Asserted(Asserted(u, u.pending = "none", "cmd_pending_transfer"),
               u.ssm = "none" <=> "none" # "none", "callback") = u
    BY DEF Asserted
<1> QED
    BY <1>1 DEF SensorCmd

LEMMA IdentifyAnswered ==
    ASSUME NEW s, Asking(s), s.action = "IDENTIFY", NEW id \in AnswersTo("IDENTIFY"), NEW percent,
           s.id_idx \in 1..GallerySize, id = "next_id" => s.id_idx < GallerySize
    PROVE  Goes(s, id, percent, Answered(s, id, percent))
<1>1. s.action \in Matching /\ s.action \in Long
    BY DEF Matching, Long
<1>2. Answered(s, id, percent) = IdentifyAnswer(Started(s), id)
    BY AskingFacts DEF Answered
<1>3. id \in {"next_id", "ready", "ok", "unknown", "retry", "no_match", "no_record", "other"}
    BY DEF AnswersTo
<1>4. CASE id \in {"ok", "unknown", "no_match", "retry"}
    <2> DEFINE report == CASE id = "ok" -> "match" [] id = "retry" -> "retry" [] OTHER -> "no_match"
    <2>1. report \in {"match", "no_match", "retry"} /\ ReportFits(report, id) /\ id \in Final
        BY <1>4 DEF ReportFits, Final
    <2>2. IdentifyAnswer(Started(s), id) = AfterRemoval(Report(Started(s), report), "none")
        BY <1>4 DEF IdentifyAnswer
    <2> HIDE DEF report
    <2>3. Goes(s, id, percent, AfterRemoval(Report(Started(s), report), "none"))
        BY <1>1, <2>1, MatchingReports
    <2> QED
        BY <1>2, <2>2, <2>3
<1>5. CASE id = "no_record"
    <2>1. IdentifyAnswer(Started(s), id) = AfterRemoval(Started(s), "not_found")
        BY <1>5 DEF IdentifyAnswer
    <2> QED
        BY <1>1, <1>2, <1>5, <2>1, NotFoundIsHeld
<1>6. CASE id = "other"
    <2>1. id \in Final /\ "error" \in {"error", "not_found"} /\ ("error" = "not_found" => id = "no_record")
        BY <1>6 DEF Final
    <2>2. IdentifyAnswer(Started(s), id) = Complete(Started(s), s.action, "error")
        BY <1>6 DEF IdentifyAnswer
    <2>3. Goes(s, id, percent, Complete(Started(s), s.action, "error"))
        BY <1>1, <2>1, LongFails
    <2> QED
        BY <1>2, <2>2, <2>3
<1>7. CASE id = "ready"
    <2>1. id \notin Final /\ StagesAre(s, id, percent, s.stage, s.progress)
        BY <1>7 DEF Final, StagesAre
    <2>2. IdentifyAnswer(Started(s), id) = Started(s)
        BY <1>7 DEF IdentifyAnswer
    <2>3. Goes(s, id, percent, Started(s))
        BY <1>1, <2>1, LongStarts
    <2> QED
        BY <1>2, <2>2, <2>3
<1>8. CASE id = "next_id"
    <2> DEFINE u == [s EXCEPT !.starting = FALSE, !.critical = 1]
               t == Kept(s, "none", FALSE, "none", s.stage, s.progress, s.id_idx + 1)
    <2>1. /\ Started(s) = u /\ u.pending = "none" /\ u.ssm # "none" /\ u.bad = GallerySize
          /\ u.id_idx = s.id_idx
          /\ u = Kept(s, "none", FALSE, "none", s.stage, s.progress, s.id_idx)
        BY <1>1, StartedFacts
    <2>2. IdentifyAnswer(Started(s), id) = ComposeIdentify(u)
        BY <1>8, <2>1 DEF IdentifyAnswer
    <2>3. /\ s.id_idx # 0 /\ ~(s.id_idx >= GallerySize) /\ s.id_idx # GallerySize
          /\ s.id_idx + 1 \in 1..GallerySize
        BY <1>8, GallerySizeAssumption
    <2>4. [[u EXCEPT !.pending = "next_user"] EXCEPT !.id_idx = s.id_idx + 1]
            = [t EXCEPT !.pending = "next_user"]
        <3>1. s \in Data
            BY AskingFacts
        <3> HIDE DEF u
        <3> QED
            BY <2>1, <3>1 DEF Kept, Data
    <2> HIDE DEF u, t
    <2>5. SensorCmd(u, "next_user", "none") = [u EXCEPT !.pending = "next_user"]
        BY <2>1, SensorCmdFollows
    <2>6. [u EXCEPT !.pending = "next_user"].id_idx = s.id_idx
        <3>1. s \in Data
            BY AskingFacts
        <3> QED
            BY <2>1, <3>1 DEF u, Data
    <2>7. ComposeIdentify(u) = [SensorCmd(u, "next_user", "none") EXCEPT !.id_idx = @ + 1]
        BY <2>1, <2>3 DEF ComposeIdentify
    <2>8. ComposeIdentify(u) = [t EXCEPT !.pending = "next_user"]
        BY <2>4, <2>5, <2>6, <2>7
    <2>9. SendsNext(s, id, Answered(s, id, percent))
        BY <1>2, <1>8, <2>2, <2>3, <2>8 DEF SendsNext, t
    <2> QED
        BY <2>9 DEF Goes
<1> QED
    BY <1>3, <1>4, <1>5, <1>6, <1>7, <1>8

LEMMA DoneStagesBounds ==
    ASSUME NEW percent \in 0..100
    PROVE  /\ DoneStages(percent) \in 0..NrStages
           /\ percent = 100 => DoneStages(percent) = NrStages
<1>0. NrStages \in Nat /\ NrStages >= 1
    BY NrStagesAssumption
<1> DEFINE p == percent * NrStages
           stages == (p + 99) \div 100
<1>1. p \in Nat /\ (percent = 100 => p = 100 * NrStages)
    BY <1>0
<1>2. DoneStages(percent) = IF percent < 100 /\ stages >= NrStages THEN NrStages - 1 ELSE stages
    BY DEF DoneStages
<1> HIDE DEF p
<1>3. stages \in Nat /\ (p = 100 * NrStages => stages = NrStages)
    BY <1>0, <1>1
<1> HIDE DEF stages
<1> QED
    BY <1>0, <1>1, <1>2, <1>3

LEMMA EnrollAnswered ==
    ASSUME NEW s, Asking(s), s.action = "ENROLL", NEW id \in AnswersTo("ENROLL"),
           NEW percent \in 0..100
    PROVE  Goes(s, id, percent, Answered(s, id, percent))
<1>1. s.action \in Long /\ s.action \notin Matching /\ s.action # "DELETE"
    BY DEF Matching, Long
<1>2. Answered(s, id, percent) = EnrollAnswer(Started(s), id, percent)
    BY AskingFacts DEF Answered
<1>3. id \in {"ready", "percent", "ok", "other"}
    BY DEF AnswersTo
<1> DEFINE u == [s EXCEPT !.starting = FALSE, !.critical = 1]
<1>4. /\ Started(s) = u /\ u.stage = s.stage
      /\ u = Kept(s, "none", FALSE, "none", s.stage, s.progress, s.id_idx)
    BY <1>1, StartedFacts
<1>5. s \in Data
    BY AskingFacts
<1>6. \A e : Complete(u, s.action, e) = Closed(s, "none", Outcome(s, e))
    BY <1>1, LongCompletes
<1>7. /\ \A d : Later(u, d) = Kept(s, "none", FALSE, "none", d, d, s.id_idx)
      /\ [u EXCEPT !.stage = 0] = Kept(s, "none", FALSE, "none", 0, s.progress, s.id_idx)
  <2> DEFINE k == Kept(s, "none", FALSE, "none", s.stage, s.progress, s.id_idx)
  <2>1. ASSUME NEW d
        PROVE  Later(k, d) = Kept(s, "none", FALSE, "none", d, d, s.id_idx)
    BY <1>5 DEF Later, Kept, Data
  <2>2. [k EXCEPT !.stage = 0] = Kept(s, "none", FALSE, "none", 0, s.progress, s.id_idx)
    BY <1>5 DEF Kept, Data
  <2> HIDE DEF u, k
  <2>3. u = k
    BY <1>4 DEF k
  <2> QED
    BY <2>1, <2>2, <2>3
<1> HIDE DEF u
<1>8. s.stage \in Nat /\ s.progress \in Nat /\ DoneStages(percent) \in Nat /\ 0 \in Nat
  <2>1. s.stage \in Nat /\ s.progress \in Nat
    BY <1>5 DEF Data
  <2>2. DoneStages(percent) \in Nat
    BY DoneStagesBounds, NrStagesAssumption
  <2> QED
    BY <2>1, <2>2
<1>9. CASE id \in {"ok", "other"}
    <2> DEFINE result == IF id = "ok" THEN "ok" ELSE "error"
    <2>1. EnrollAnswer(Started(s), id, percent)
            = Complete(u, s.action, IF id = "ok" THEN "none" ELSE "error")
        BY <1>4, <1>9 DEF EnrollAnswer
    <2>2. Outcome(s, IF id = "ok" THEN "none" ELSE "error") = result
        BY <1>1, <1>9 DEF Outcome
    <2>3. EnrollAnswer(Started(s), id, percent) = Closed(s, "none", result)
        BY <1>6, <2>1, <2>2
    <2>4. ResultFits(s.action, result, id) /\ ReportFits("none", id) /\ id \in Final
        BY <1>9 DEF ResultFits, ReportFits, Final
    <2>5. result \in Results /\ "none" \in Reports
        BY Names
    <2> HIDE DEF result
    <2>6. Closes(s, id, Answered(s, id, percent))
        BY <1>2, <2>3, <2>4, <2>5 DEF Closes
    <2> QED
        BY <2>6 DEF Goes
<1>10. CASE id = "ready"
    <2>1. EnrollAnswer(Started(s), id, percent) = [u EXCEPT !.stage = 0]
        BY <1>4, <1>10 DEF EnrollAnswer
    <2>2. id \notin Final /\ StagesAre(s, id, percent, 0, s.progress)
        BY <1>10 DEF Final, StagesAre
    <2>3. GoesOn(s, id, percent, Answered(s, id, percent))
        BY <1>2, <1>7, <1>8, <2>1, <2>2 DEF GoesOn
    <2> QED
        BY <2>3 DEF Goes
<1>11. CASE id = "percent" /\ s.stage < DoneStages(percent)
    <2>1. EnrollAnswer(Started(s), id, percent) = Later(u, DoneStages(percent))
        BY <1>4, <1>11 DEF EnrollAnswer
    <2>2. id \notin Final /\ StagesAre(s, id, percent, DoneStages(percent), DoneStages(percent))
        BY <1>11 DEF Final, StagesAre
    <2>3. GoesOn(s, id, percent, Answered(s, id, percent))
        BY <1>2, <1>7, <1>8, <2>1, <2>2 DEF GoesOn
    <2> QED
        BY <2>3 DEF Goes
<1>12. CASE id = "percent" /\ ~(s.stage < DoneStages(percent))
    <2>1. EnrollAnswer(Started(s), id, percent) = Started(s)
        BY <1>4, <1>12 DEF EnrollAnswer
    <2>2. id \notin Final /\ StagesAre(s, id, percent, s.stage, s.progress)
        BY <1>12 DEF Final, StagesAre
    <2> QED
        BY <1>1, <1>2, <2>1, <2>2, LongStarts
<1> QED
    BY <1>3, <1>9, <1>10, <1>11, <1>12

\* The other operations have no start that ends with the first answer.
LEMMA ShortFacts ==
    ASSUME NEW s, Asking(s), s.action \in Short
    PROVE  LET u == [s EXCEPT !.starting = FALSE, !.critical = 1]
           IN  /\ s = Kept(s, "none", FALSE, "none", s.stage, s.progress, s.id_idx)
               /\ s.action = "DELETE" => Leave(s) = u
               /\ s.action # "DELETE" => s = u
               /\ \A e : Complete(u, s.action, e) = Closed(s, "none", Outcome(s, e))
               /\ Outcome(s, "none") = "ok" /\ Outcome(s, "error") = "error"
<1> DEFINE u == [s EXCEPT !.starting = FALSE, !.critical = 1]
<1>1. s.action \notin Long
    BY DEF Long, Short, Matching
<1>2. /\ s \in Data /\ s.action \in Operations /\ s.flush = FALSE /\ s.result = "none"
      /\ s.critical = Sections(s) + 1 /\ ~s.starting /\ s.report = "none"
      /\ s.on_removal = FALSE /\ s.delay_error = "none"
    BY <1>1, AskingFacts
<1>3. /\ s.action = "DELETE" => Leave(s) = u
      /\ s.action # "DELETE" => s = u
    BY <1>1, <1>2, SectionsAreLeft
<1>4. s = Kept(s, "none", FALSE, "none", s.stage, s.progress, s.id_idx)
  <2>1. s.starting = FALSE
    BY <1>2 DEF Data
  <2>2. s.critical = 1 + One(s.action = "DELETE")
    BY <1>2 DEF Sections, One
  <2> QED
    BY <1>2, <2>1, <2>2 DEF Kept, Data
<1>5. u \in Data /\ u.action = s.action /\ u.result = "none" /\ u.report = "none"
    BY <1>2 DEF Data
<1>6. \A r : [u EXCEPT !.result = r, !.cancel_due = FALSE] = Closed(s, "none", r)
    BY <1>2 DEF Closed, Data
<1>7. Outcome(s, "none") = "ok" /\ Outcome(s, "error") = "error"
    BY <1>1 DEF Outcome, Long
<1> HIDE DEF u
<1>8. \A e : Complete(u, u.action, e) = [u EXCEPT !.result = Outcome(u, e), !.cancel_due = FALSE]
    BY <1>5, CompleteIs
<1>9. \A e : Outcome(u, e) = Outcome(s, e)
    BY <1>2, <1>5 DEF Outcome
<1>10. \A e : Complete(u, s.action, e) = Closed(s, "none", Outcome(s, e))
    BY <1>5, <1>6, <1>8, <1>9
<1> QED
    BY <1>3, <1>4, <1>7, <1>10 DEF u

LEMMA ShortCloses ==
    ASSUME NEW s, Asking(s), s.action \in Short, NEW id \in Final, NEW percent, NEW t,
           NEW error \in {"none", "error"},
           error = "none" /\ s.action \in {"DELETE", "CLEAR_STORAGE"} => id \in {"ok", "no_record"},
           t = Complete(IF s.action = "DELETE" THEN Leave(s) ELSE s, s.action, error)
    PROVE  Goes(s, id, percent, t)
<1> DEFINE u == [s EXCEPT !.starting = FALSE, !.critical = 1]
           result == Outcome(s, error)
<1>1. /\ s.action = "DELETE" => Leave(s) = u
      /\ s.action # "DELETE" => s = u
    BY ShortFacts
<1>2. Complete(u, s.action, error) = Closed(s, "none", result)
    BY ShortFacts
<1>3. Outcome(s, "none") = "ok" /\ Outcome(s, "error") = "error"
    BY ShortFacts
<1>4. result = IF error = "none" THEN "ok" ELSE "error"
    BY <1>3
<1> HIDE DEF u, result
<1>5. t = Closed(s, "none", result)
  <2>1. (IF s.action = "DELETE" THEN Leave(s) ELSE s) = u
    BY <1>1
  <2> QED
    BY <1>2, <2>1
<1>6. result \in Results /\ "none" \in Reports /\ s.action # "ENROLL"
    BY <1>4, Names DEF Short
<1>7. ResultFits(s.action, result, id) /\ ReportFits("none", id)
    BY <1>4, <1>6 DEF ResultFits, ReportFits
<1>8. Closes(s, id, t)
    BY <1>5, <1>6, <1>7 DEF Closes
<1> QED
    BY <1>8 DEF Goes

LEMMA ShortGoesOn ==
    ASSUME NEW s, Asking(s), s.action \in Short, NEW id, id \notin Final, NEW percent
    PROVE  Goes(s, id, percent, s)
<1>1. s = Kept(s, "none", FALSE, "none", s.stage, s.progress, s.id_idx)
    BY ShortFacts
<1>2. s \in Data
    BY AskingFacts
<1>3. s.stage \in Nat /\ s.progress \in Nat
    BY <1>2 DEF Data
<1>4. StagesAre(s, id, percent, s.stage, s.progress)
    BY DEF StagesAre, Short
<1>5. GoesOn(s, id, percent, s)
    BY <1>1, <1>3, <1>4 DEF GoesOn
<1> QED
    BY <1>5 DEF Goes

LEMMA ShortAnswered ==
    ASSUME NEW s, Asking(s), s.action \in Short, NEW id \in AnswersTo(s.action), NEW percent
    PROVE  Goes(s, id, percent, Answered(s, id, percent))
<1>1. s.callback = s.action /\ s.ssm # "none" /\ s.pending = "none"
    BY AskingFacts
<1> DEFINE v == IF s.action = "DELETE" THEN Leave(s) ELSE s
           t == Answered(s, id, percent)
<1>2. CASE s.action = "DELETE"
    <2>1. t = DeleteAnswer(s, id) /\ id \in {"progress", "ok", "no_record", "other"} /\ v = Leave(s)
        BY <1>1, <1>2 DEF Answered, AnswersTo
    <2>2. CASE id \in {"ok", "no_record"}
        <3>1. t = Complete(v, s.action, "none")
            BY <1>2, <2>1, <2>2 DEF DeleteAnswer
        <3>2. id \in Final
            BY <2>2 DEF Final
        <3> HIDE DEF v, t
        <3> QED
            BY <2>2, <3>1, <3>2, ShortCloses DEF v, t
    <2>3. CASE id = "other"
        <3>1. t = Complete(v, s.action, "error")
            BY <1>2, <2>1, <2>3 DEF DeleteAnswer
        <3>2. id \in Final
            BY <2>3 DEF Final
        <3> HIDE DEF v, t
        <3> QED
            BY <3>1, <3>2, ShortCloses DEF v, t
    <2>4. CASE id = "progress"
        <3>1. t = s
            BY <2>1, <2>4 DEF DeleteAnswer
        <3>2. id \notin Final
            BY <2>4 DEF Final
        <3> QED
            BY <3>1, <3>2, ShortGoesOn
    <2> QED
        BY <2>1, <2>2, <2>3, <2>4
<1>3. CASE s.action = "CLEAR_STORAGE"
    <2>1. t = ClearStorageAnswer(s, id) /\ id \in {"progress", "ok", "no_record", "other"} /\ v = s
        BY <1>1, <1>3 DEF Answered, AnswersTo
    <2>2. CASE id \in {"ok", "no_record"}
        <3>1. t = Complete(v, s.action, "none")
            BY <1>3, <2>1, <2>2 DEF ClearStorageAnswer
        <3>2. id \in Final
            BY <2>2 DEF Final
        <3> HIDE DEF v, t
        <3> QED
            BY <2>2, <3>1, <3>2, ShortCloses DEF v, t
    <2>3. CASE id = "other"
        <3>1. t = Complete(v, s.action, "error")
            BY <1>3, <2>1, <2>3 DEF ClearStorageAnswer
        <3>2. id \in Final
            BY <2>3 DEF Final
        <3> HIDE DEF v, t
        <3> QED
            BY <3>1, <3>2, ShortCloses DEF v, t
    <2>4. CASE id = "progress"
        <3>1. t = s
            BY <2>1, <2>4 DEF ClearStorageAnswer
        <3>2. id \notin Final
            BY <2>4 DEF Final
        <3> QED
            BY <3>1, <3>2, ShortGoesOn
    <2> QED
        BY <2>1, <2>2, <2>3, <2>4
<1>4. CASE s.action \in {"PROBE", "OPEN"}
    <2>1. t = InitAnswer(s, id) /\ id \in {"ok", "busy", "other"} /\ v = s
        BY <1>1, <1>4 DEF Answered, AnswersTo
    <2>2. CASE id \in {"ok", "other"}
        <3> DEFINE error == IF id = "ok" THEN "none" ELSE "error"
        <3>1. t = Complete(v, s.action, error)
            BY <1>1, <2>1, <2>2 DEF InitAnswer
        <3>2. id \in Final /\ error \in {"none", "error"}
            BY <2>2 DEF Final
        <3>3. error = "none" => id = "ok"
            OBVIOUS
        <3> HIDE DEF v, t, error
        <3> QED
            BY <3>1, <3>2, <3>3, ShortCloses DEF v, t
    <2>3. CASE id = "busy"
        <3>1. t = [s EXCEPT !.pending = "cancel"]
            BY <1>1, <2>1, <2>3, SensorCmdFollows DEF InitAnswer
        <3>2. SendsCancel(s, id, t)
            BY <1>1, <1>4, <2>3, <3>1 DEF SendsCancel
        <3> QED
            BY <3>2 DEF Goes
    <2> QED
        BY <2>1, <2>2, <2>3
<1>5. CASE s.action = "CLOSE"
    <2> DEFINE error == IF id = "ok" THEN "none" ELSE "error"
    <2>1. t = CloseAnswer(s, id) /\ id \in {"ok", "other"} /\ v = s
        BY <1>1, <1>5 DEF Answered, AnswersTo
    <2>2. t = Complete(v, s.action, error)
        BY <1>5, <2>1 DEF CloseAnswer
    <2>3. id \in Final /\ error \in {"none", "error"}
        BY <2>1 DEF Final
    <2>4. error = "none" => id = "ok"
        OBVIOUS
    <2> HIDE DEF v, t, error
    <2> QED
        BY <2>2, <2>3, <2>4, ShortCloses DEF v, t
<1> QED
    BY <1>2, <1>3, <1>4, <1>5 DEF Short

\* Any callback, with any answer that its command may get
LEMMA AnsweredGoes ==
    ASSUME NEW s, Asking(s), NEW id \in AnswersTo(s.callback), NEW percent \in 0..100,
           s.action = "IDENTIFY" => s.id_idx \in 1..GallerySize,
           id = "next_id" => s.id_idx < GallerySize
    PROVE  Goes(s, id, percent, Answered(s, id, percent))
<1>1. s.callback = s.action /\ s.action \in Operations
    BY AskingFacts
<1>2. CASE s.action = "VERIFY"
    BY <1>1, <1>2, VerifyAnswered
<1>3. CASE s.action = "IDENTIFY"
    BY <1>1, <1>3, IdentifyAnswered
<1>4. CASE s.action = "ENROLL"
    BY <1>1, <1>4, EnrollAnswered
<1>5. CASE s.action \in Short
    BY <1>1, <1>5, ShortAnswered
<1> QED
    BY <1>1, <1>2, <1>3, <1>4, <1>5 DEF Operations, Long, Matching

-----------------------------------------------------------------------------
(* What is read *)

\* But for the machine and what is not said of it here, t is s.
Alike(s, t) ==
    /\ t.callback = s.callback /\ t.action = s.action
    /\ t.on_removal = s.on_removal /\ t.delay_error = s.delay_error
    /\ t.cancelled = s.cancelled /\ t.cancel_due = s.cancel_due /\ t.queued = s.queued
    /\ t.report = s.report /\ t.result = s.result
    /\ t.stage = s.stage /\ t.progress = s.progress

LEMMA WaitsAlike ==
    ASSUME NEW s, Busy(s), Removal(s)
    PROVE  LET t == WaitInterrupt(s)
           IN  Base(t) /\ Waits(t) /\ Alike(s, t)
<1>1. Base(WaitInterrupt(s)) /\ Waits(WaitInterrupt(s))
    BY BusyWaits
<1>2. s \in Data /\ s.action # "NONE" /\ s.critical # 0
  <2>1. s \in Data /\ s.action # "NONE" /\ s.critical = Sections(s) + 1
    BY BusyFacts
  <2> QED
    BY <2>1 DEF Sections, One
<1>3. Alike(s, WaitInterrupt(s))
  <2> DEFINE t == [s EXCEPT !.critical = s.critical - 1, !.flush = (s.flush \/ s.critical = 1),
                            !.ssm = "WAIT_INTERRUPT",
                            !.transfer = IF s.callback = "PROBE" THEN "interrupt_bare" ELSE "interrupt"]
  <2>1. WaitInterrupt(s) = t
    BY <1>2, WaitInterruptIs
  <2>2. Alike(s, t)
    BY <1>2 DEF Alike, Data
  <2> QED
    BY <2>1, <2>2
<1> QED
    BY <1>1, <1>3

\* The machine gets to a state in which it has sent or reads something.
IsTalking(s, t, state, transfer) ==
    Base(t) /\ Talks(t) /\ Alike(s, t) /\ t.ssm = state /\ t.transfer = transfer

LEMMA TalksAlike ==
    ASSUME NEW s, Busy(s), Removal(s)
    PROVE  /\ IsTalking(s, [s EXCEPT !.ssm = "GET_RESP", !.transfer = "read"], "GET_RESP", "read")
           /\ IsTalking(s, [s EXCEPT !.ssm = "SEND_ASYNC",
                                     !.transfer = "async"], "SEND_ASYNC", "async")
           /\ ~s.on_removal =>
                 \A transfer \in {"command", "next_user", "cancel"} :
                     IsTalking(s, [s EXCEPT !.ssm = "SEND_PENDING", !.transfer = transfer],
                               "SEND_PENDING", transfer)
<1>1. s \in Data
    BY BusyFacts
<1>2. ASSUME NEW state, NEW transfer,
             \/ state = "SEND_PENDING" /\ transfer \in {"command", "next_user", "cancel"} /\ ~s.on_removal
             \/ state = "GET_RESP" /\ transfer = "read"
             \/ state = "SEND_ASYNC" /\ transfer = "async"
      PROVE  IsTalking(s, [s EXCEPT !.ssm = state, !.transfer = transfer], state, transfer)
  <2> DEFINE t == [s EXCEPT !.ssm = state, !.transfer = transfer]
  <2>1. Base(t) /\ Talks(t)
    BY <1>2, BusyTalks
  <2>2. Alike(s, t) /\ t.ssm = state /\ t.transfer = transfer
    BY <1>1 DEF Alike, Data
  <2> QED
    BY <2>1, <2>2 DEF IsTalking
<1> QED
    BY <1>2

\* The machine has ended with a result; an error that was held back is the result.
Ending(s, t, report, result) ==
    /\ Base(t) /\ Over(t)
    /\ t.callback = s.callback /\ t.action = s.action
    /\ t.cancelled = s.cancelled /\ t.cancel_due = FALSE /\ t.queued = s.queued
    /\ t.report = report /\ t.result = result
    /\ t.stage = s.stage /\ t.progress = s.progress

LEMMA FinishedEnds ==
    ASSUME NEW s, Busy(s), s.delay_error = "none",
           NEW report \in Reports, NEW result \in Results, result # "none",
           ~(s.action \in Matching /\ "suspend" \in s.queued)
    PROVE  Ending(s, Finished(s, report, result), report, result)
<1> DEFINE t == Finished(s, report, result)
<1>1. s \in Data
    BY BusyFacts
<1>2. /\ t.callback = s.callback /\ t.action = s.action
      /\ t.cancelled = s.cancelled /\ t.cancel_due = FALSE /\ t.queued = s.queued
      /\ t.report = report /\ t.result = result
      /\ t.stage = s.stage /\ t.progress = s.progress
    BY <1>1 DEF Finished, Data
<1> HIDE DEF t
<1>3. Base(t) /\ Over(t)
    BY FinishedIsOver DEF t
<1> QED
    BY <1>2, <1>3 DEF Ending, t

\* What Becomes does not allow of the end of an operation
Allowed(t) ==
    /\ ~(t.result # "none" /\ t.action \in Matching /\ "suspend" \in t.queued)
    /\ ~(t.delay_error # "none" /\ (t.cancelled \/ t.result # "none"))

LEMMA MachineFails ==
    ASSUME NEW s, Busy(s), Removal(s), NEW error \in {"error", "cancelled"},
           Allowed(SsmDone(s, error))
    PROVE  /\ Ending(s, SsmDone(s, error), s.report, EndResult(s, error))
           /\ EndResult(s, error) \in {error, "ok"}
           /\ EndResult(s, error) = "ok" => s.action \in {"PROBE", "OPEN"}
<1> DEFINE r == EndResult(s, error)
           t == SsmDone(s, error)
<1>1. /\ s \in Data /\ s.callback = s.action
    BY BusyFacts
<1>2. /\ r \in {error, "ok"} /\ r # "none" /\ (r = "ok" => s.action \in {"PROBE", "OPEN"})
    BY <1>1 DEF EndResult, Outcome
<1>3. r \in Results /\ s.report \in Reports
    BY <1>1, <1>2, Names DEF Data
<1>4. t = Finished(s, s.report, r)
    BY <1>3, DoneEnds
<1>5. /\ t.result = r /\ t.action = s.action /\ t.queued = s.queued
      /\ t.delay_error = s.delay_error
    BY <1>1, <1>4 DEF Finished, Data
<1> HIDE DEF r, t
<1>6. s.delay_error = "none" /\ ~(s.action \in Matching /\ "suspend" \in s.queued)
    BY <1>2, <1>5 DEF Allowed, t
<1>7. Ending(s, t, s.report, r)
    BY <1>2, <1>3, <1>4, <1>6, FinishedEnds
<1> QED
    BY <1>2, <1>7 DEF r, t

\* An event of the finger: of a waiting machine, or the end of one that waits for its removal
LEMMA FingerReported ==
    ASSUME NEW s, Talks(s), NEW id \in {"finger_on", "finger_off"}, Allowed(FingerReport(s, id))
    PROVE  LET t == FingerReport(s, id)
           IN  \/ Base(t) /\ Waits(t) /\ Alike(s, t)
               \/ /\ id = "finger_off" /\ s.on_removal
                  /\ Ending(s, t, s.report, IF s.delay_error = "none" THEN s.report ELSE s.delay_error)
<1> DEFINE t == FingerReport(s, id)
           u == [s EXCEPT !.finger = id = "finger_on"]
<1>1. s \in Data /\ Busy(s) /\ Removal(s)
    BY BusyFacts DEF Talks
<1>2. u \in Data /\ u.finger = (id = "finger_on") /\ Sections(u) = Sections(s) /\ Alike(s, u)
    BY <1>1 DEF Data, Sections, Alike
<1>3. Busy(u)
  <2>1. /\ u.starting = s.starting /\ u.suspended = s.suspended /\ u.flush = s.flush
        /\ u.critical = s.critical /\ u.task = s.task /\ u.is_suspended = s.is_suspended
        /\ u.id_idx = s.id_idx
    BY <1>1 DEF Data
  <2> HIDE DEF u
  <2> QED
    BY <1>1, <1>2, <2>1 DEF Busy, Base, Running, Alike
<1>4. u.starting = s.starting
    BY <1>1 DEF Data
<1>5. CASE id = "finger_on" \/ ~s.on_removal
    <2>1. Removal(u)
        <3> HIDE DEF u
        <3> QED
            BY <1>1, <1>2, <1>4, <1>5 DEF Removal, Alike
    <2>2. t = WaitInterrupt(u)
        BY <1>5 DEF FingerReport
    <2> HIDE DEF u, t
    <2>3. Base(t) /\ Waits(t) /\ Alike(u, t)
        BY <1>3, <2>1, <2>2, WaitsAlike
    <2>4. Alike(s, t)
        BY <1>2, <2>3 DEF Alike
    <2> QED
        BY <2>3, <2>4 DEF t
<1>6. CASE id # "finger_on" /\ s.on_removal
    <2> DEFINE v == [u EXCEPT !.delay_error = "none"]
               e == s.delay_error
               r == IF s.delay_error = "none" THEN s.report ELSE s.delay_error
    <2>1. t = SsmDone(v, e)
        BY <1>6 DEF FingerReport
    <2>2. /\ v \in Data /\ v.on_removal = s.on_removal /\ v.report = s.report /\ v.action = s.action
          /\ v.callback = s.callback /\ v.delay_error = "none" /\ v.queued = s.queued
          /\ v.cancelled = s.cancelled /\ v.stage = s.stage /\ v.progress = s.progress
        <3>1. "none" \in HeldBack
            BY Names
        <3> QED
            BY <1>1, <3>1 DEF Data
    <2>3. Busy(v)
        <3>1. /\ v.starting = u.starting /\ v.suspended = u.suspended /\ v.flush = u.flush
              /\ v.critical = u.critical /\ v.task = u.task /\ v.is_suspended = u.is_suspended
              /\ v.id_idx = u.id_idx /\ v.cancel_due = u.cancel_due /\ v.result = u.result
              /\ v.action = u.action /\ v.callback = u.callback /\ v.queued = u.queued
            BY <1>1 DEF Data
        <3> HIDE DEF v, u
        <3> QED
            BY <1>3, <2>2, <3>1 DEF Busy, Base, Running, Sections
    <2>4. /\ s.action \in Matching /\ s.callback = s.action
          /\ e = "none" <=> s.report # "none"
        BY <1>1, <1>6, BusyFacts DEF Removal
    <2>5. r # "none" /\ s.report \in Reports /\ e \in {"none", "not_found"} /\ r \in Results
        BY <1>1, <2>4, Names DEF Data, HeldBack
    <2> HIDE DEF v, u, t
    <2>6. EndResult(v, e) = r
        <3>1. s.callback \notin {"PROBE", "OPEN"}
            BY <2>4 DEF Matching
        <3> QED
            BY <2>2, <2>4, <2>5, <3>1 DEF EndResult, Outcome
    <2> HIDE DEF r, e
    <2>7. t = Finished(v, s.report, r)
        BY <1>6, <2>1, <2>2, <2>3, <2>5, <2>6, DoneEnds
    <2>8. t.result = r /\ t.action = s.action /\ t.queued = s.queued
        BY <2>2, <2>7 DEF Finished, Data
    <2>9. ~(v.action \in Matching /\ "suspend" \in v.queued)
        BY <2>2, <2>5, <2>8 DEF Allowed, t
    <2>10. Ending(v, t, s.report, r)
        BY <2>2, <2>3, <2>5, <2>7, <2>9, FinishedEnds
    <2>11. Ending(s, t, s.report, r)
        BY <2>2, <2>10 DEF Ending
    <2> QED
        BY <1>6, <2>11 DEF t, r, e
<1> QED
    BY <1>5, <1>6

\* What becomes of an operation with an answer: it ends, waits, or sends the next command.
AnswerLeads(s, id, percent, t) ==
    /\ Base(t) /\ Phase(t)
    /\ t.callback = s.callback /\ t.action = s.action
    /\ t.cancelled = s.cancelled /\ (t.cancel_due => s.cancel_due) /\ t.queued = s.queued
    /\ t.transfer # "command" /\ (t.transfer = "cancel" => t.callback \in {"PROBE", "OPEN"})
    /\ t.ssm = "none" \/ t.transfer = "cancel" \/ t.on_removal => id \in Final
    /\ t.delay_error # "none" => id = "no_record"
    /\ ReportFits(t.report, id)
    /\ t.result # "none" => ResultFits(t.action, t.result, id)
    /\ StagesAre(s, id, percent, t.stage, t.progress)

\* After a callback that does not end the operation
IsKept(s, t, report, removal, error, stage, progress) ==
    /\ Busy(t) /\ Removal(t) /\ t.pending = "none"
    /\ t.callback = s.callback /\ t.action = s.action
    /\ t.on_removal = removal /\ t.delay_error = error
    /\ t.cancelled = s.cancelled /\ t.cancel_due = s.cancel_due /\ t.queued = s.queued
    /\ t.report = report /\ t.result = "none"
    /\ t.stage = stage /\ t.progress = progress

LEMMA KeptIsBusy ==
    ASSUME NEW s, Asking(s), NEW report \in Reports, NEW removal \in BOOLEAN,
           NEW error \in HeldBack, NEW stage \in Nat, NEW progress \in Nat, NEW idx \in Nat,
           s.action = "IDENTIFY" => idx \in 1..GallerySize,
           removal = TRUE => s.action \in Matching /\ s.finger /\ (error = "none" <=> report # "none"),
           removal = FALSE => error = "none" /\ report = "none"
    PROVE  IsKept(s, Kept(s, report, removal, error, stage, progress, idx),
                  report, removal, error, stage, progress)
<1> DEFINE t == Kept(s, report, removal, error, stage, progress, idx)
<1>1. /\ s \in Data /\ s.result = "none" /\ s.pending = "none" /\ Busy(s)
    BY AskingFacts DEF Asking
<1>2. PICK c \in Nat : c = 1 + One(s.action = "DELETE")
    BY DEF One
<1>3. t \in Data
  <2>1. t = [s EXCEPT !.starting = FALSE, !.critical = c, !.report = report,
                      !.on_removal = removal, !.delay_error = error,
                      !.stage = stage, !.progress = progress, !.id_idx = idx]
    BY <1>2 DEF Kept
  <2> HIDE DEF t
  <2> QED
    BY <1>1, <2>1 DEF Data
<1>4. /\ t.callback = s.callback /\ t.action = s.action
      /\ t.on_removal = removal /\ t.delay_error = error
      /\ t.cancelled = s.cancelled /\ t.cancel_due = s.cancel_due /\ t.queued = s.queued
      /\ t.report = report /\ t.result = "none" /\ t.pending = "none"
      /\ t.stage = stage /\ t.progress = progress /\ t.id_idx = idx /\ t.finger = s.finger
      /\ t.starting = FALSE
    BY <1>1 DEF Kept, Data
<1>5. /\ t.suspended = s.suspended /\ t.flush = s.flush
      /\ t.task = s.task /\ t.is_suspended = s.is_suspended
      /\ t.critical = 1 + One(s.action = "DELETE")
    BY <1>1 DEF Kept, Data
<1> HIDE DEF t
<1>6. t.critical = Sections(t) + 1
    BY <1>4, <1>5 DEF Sections, One
<1>7. Base(t)
    BY <1>1, <1>3, <1>4, <1>5 DEF Busy, Base
<1>8. Busy(t)
    BY <1>1, <1>4, <1>5, <1>6, <1>7 DEF Busy, Running
<1>9. Removal(t)
    BY <1>4 DEF Removal
<1> QED
    BY <1>4, <1>8, <1>9 DEF t, IsKept

\* The machine goes on with what the callback sends.
LEMMA PendingIsSent ==
    ASSUME NEW s, Busy(s), Removal(s), ~s.on_removal, s.pending = "none",
           NEW cmd \in {"next_user", "cancel"}, NEW id
    PROVE  LET t == AfterAnswer([s EXCEPT !.pending = cmd], id)
           IN  Base(t) /\ Talks(t) /\ Alike(s, t) /\ t.ssm = "SEND_PENDING" /\ t.transfer = cmd
<1> DEFINE u == [s EXCEPT !.pending = cmd]
           v == [s EXCEPT !.ssm = "SEND_PENDING", !.transfer = cmd]
<1>1. s \in Data
    BY BusyFacts
<1>2. u.pending = cmd /\ [u EXCEPT !.ssm = "SEND_PENDING", !.transfer = cmd,
                                   !.pending = "none"] = v
    BY <1>1 DEF Data
<1> HIDE DEF u
<1>3. AfterAnswer(u, id) = v
    BY <1>2 DEF AfterAnswer, SendPending
<1>4. IsTalking(s, v, "SEND_PENDING", cmd)
    BY TalksAlike
<1> HIDE DEF v
<1> QED
    BY <1>3, <1>4 DEF u, IsTalking

LEMMA ReceivedAnswer ==
    ASSUME NEW s, Asking(s), NEW id \in AnswersTo(s.callback), NEW percent \in 0..100,
           id = "next_id" => s.id_idx < GallerySize,
           Allowed(AfterAnswer(Answered(s, id, percent), id))
    PROVE  AnswerLeads(s, id, percent, AfterAnswer(Answered(s, id, percent), id))
<1> DEFINE a == Answered(s, id, percent)
           t == AfterAnswer(a, id)
<1>1. /\ s \in Data /\ Busy(s) /\ Removal(s) /\ s.callback = s.action /\ s.result = "none"
      /\ s.pending = "none" /\ s.on_removal = FALSE /\ s.delay_error = "none" /\ s.report = "none"
    BY AskingFacts DEF Asking
<1>2. s.action = "IDENTIFY" => s.id_idx \in 1..GallerySize
    BY <1>1 DEF Busy, Running
<1>3. Goes(s, id, percent, a)
    BY <1>2, AnsweredGoes
<1>4. /\ "none" \in Reports /\ "none" \in HeldBack /\ s.stage \in Nat /\ s.progress \in Nat
      /\ s.id_idx \in Nat
    BY <1>1, Names DEF Data
<1> HIDE DEF a
<1>5. CASE Closes(s, id, a)
    <2>1. PICK report \in Reports, result \in Results :
              /\ id \in Final /\ a = Closed(s, report, result)
              /\ ReportFits(report, id) /\ ResultFits(s.action, result, id)
        BY <1>5 DEF Closes
    <2>2. a.pending = "none" /\ a.on_removal = FALSE
        BY <1>1, <2>1 DEF Closed, Data
    <2>3. t = SsmDone(Closed(s, report, result), "none")
        BY <2>1, <2>2 DEF AfterAnswer
    <2>4. t = Finished(s, report, result)
        BY <1>1, <2>3, ClosedEnds
    <2>5. /\ t.result = result /\ t.action = s.action /\ t.queued = s.queued
          /\ t.on_removal = FALSE /\ t.delay_error = s.delay_error /\ t.transfer = "none"
        BY <1>1, <2>4 DEF Finished, Data
    <2> HIDE DEF t
    <2>6. result # "none" /\ ~(s.action \in Matching /\ "suspend" \in s.queued)
        BY <2>1, <2>5 DEF Allowed, ResultFits, t, a
    <2>7. Ending(s, t, report, result)
        BY <1>1, <2>4, <2>6, FinishedEnds
    <2>8. StagesAre(s, id, percent, t.stage, t.progress)
        BY <2>1, <2>7 DEF StagesAre, Ending, Final
    <2>9. AnswerLeads(s, id, percent, t)
        BY <1>1, <2>1, <2>5, <2>7, <2>8 DEF AnswerLeads, Phase, Ending
    <2> QED
        BY <2>9 DEF t, a
<1>6. CASE AwaitsRemoval(s, id, a)
    <2>1. PICK report \in Reports, error \in HeldBack :
              /\ a = Kept(s, report, TRUE, error, s.stage, s.progress, s.id_idx)
              /\ error = "none" <=> report # "none"
              /\ ReportFits(report, id) /\ (error # "none" => id = "no_record")
        BY <1>6 DEF AwaitsRemoval
    <2>2. id \in Final /\ s.action \in Matching /\ s.finger
        BY <1>6 DEF AwaitsRemoval
    <2>3. /\ Busy(a) /\ Removal(a) /\ a.pending = "none"
          /\ a.callback = s.callback /\ a.action = s.action
          /\ a.on_removal = TRUE /\ a.delay_error = error
          /\ a.cancelled = s.cancelled /\ a.cancel_due = s.cancel_due /\ a.queued = s.queued
          /\ a.report = report /\ a.result = "none"
          /\ a.stage = s.stage /\ a.progress = s.progress
        <3>1. IsKept(s, a, report, TRUE, error, s.stage, s.progress)
            BY <1>2, <1>4, <2>1, <2>2, KeptIsBusy
        <3> QED
            BY <3>1 DEF IsKept
    <2>4. t = WaitInterrupt(a)
        BY <2>3 DEF AfterAnswer
    <2> HIDE DEF t
    <2>5. Base(t) /\ Waits(t) /\ Alike(a, t)
        BY <2>3, <2>4, WaitsAlike
    <2>6. t.ssm # "none" /\ t.transfer # "command" /\ t.transfer # "cancel"
        BY <2>5 DEF Waits
    <2>7. StagesAre(s, id, percent, s.stage, s.progress)
        BY <2>2 DEF StagesAre, Final
    <2>8. AnswerLeads(s, id, percent, t)
        BY <2>1, <2>2, <2>3, <2>5, <2>6, <2>7 DEF AnswerLeads, Phase, Alike
    <2> QED
        BY <2>8 DEF t, a
<1>7. CASE GoesOn(s, id, percent, a)
    <2>1. PICK stage \in Nat, progress \in Nat :
              /\ a = Kept(s, "none", FALSE, "none", stage, progress, s.id_idx)
              /\ StagesAre(s, id, percent, stage, progress)
        BY <1>7 DEF GoesOn
    <2>2. id \notin Final
        BY <1>7 DEF GoesOn
    <2>3. /\ Busy(a) /\ Removal(a) /\ a.pending = "none"
          /\ a.callback = s.callback /\ a.action = s.action
          /\ a.on_removal = FALSE /\ a.delay_error = "none"
          /\ a.cancelled = s.cancelled /\ a.cancel_due = s.cancel_due /\ a.queued = s.queued
          /\ a.report = "none" /\ a.result = "none"
          /\ a.stage = stage /\ a.progress = progress
        <3>1. IsKept(s, a, "none", FALSE, "none", stage, progress)
            BY <1>2, <1>4, <2>1, KeptIsBusy
        <3> QED
            BY <3>1 DEF IsKept
    <2>4. t = WaitInterrupt(a)
        BY <2>2, <2>3 DEF AfterAnswer
    <2> HIDE DEF t
    <2>5. Base(t) /\ Waits(t) /\ Alike(a, t)
        BY <2>3, <2>4, WaitsAlike
    <2>6. t.ssm # "none" /\ t.transfer # "command" /\ t.transfer # "cancel"
        BY <2>5 DEF Waits
    <2>7. ReportFits("none", id)
        BY DEF ReportFits
    <2>8. AnswerLeads(s, id, percent, t)
        BY <2>1, <2>3, <2>5, <2>6, <2>7 DEF AnswerLeads, Phase, Alike
    <2> QED
        BY <2>8 DEF t, a
<1>8. CASE SendsNext(s, id, a)
    <2> DEFINE k == Kept(s, "none", FALSE, "none", s.stage, s.progress, s.id_idx + 1)
    <2>1. /\ id = "next_id" /\ s.id_idx + 1 \in 1..GallerySize
          /\ a = [k EXCEPT !.pending = "next_user"]
        BY <1>8 DEF SendsNext
    <2>2. s.id_idx + 1 \in Nat
        BY <1>4
    <2>3. /\ Busy(k) /\ Removal(k) /\ k.pending = "none"
          /\ k.callback = s.callback /\ k.action = s.action
          /\ k.on_removal = FALSE /\ k.delay_error = "none"
          /\ k.cancelled = s.cancelled /\ k.cancel_due = s.cancel_due /\ k.queued = s.queued
          /\ k.report = "none" /\ k.result = "none"
          /\ k.stage = s.stage /\ k.progress = s.progress
        <3>1. IsKept(s, k, "none", FALSE, "none", s.stage, s.progress)
            BY <1>2, <1>4, <2>1, <2>2, KeptIsBusy
        <3> QED
            BY <3>1 DEF IsKept
    <2> HIDE DEF k
    <2>4. Base(t) /\ Talks(t) /\ Alike(k, t) /\ t.ssm = "SEND_PENDING" /\ t.transfer = "next_user"
        BY <2>1, <2>3, PendingIsSent
    <2> HIDE DEF t
    <2>5. ReportFits("none", id) /\ StagesAre(s, id, percent, s.stage, s.progress)
        BY <2>1 DEF ReportFits, StagesAre
    <2>6. AnswerLeads(s, id, percent, t)
        BY <2>3, <2>4, <2>5 DEF AnswerLeads, Phase, Alike
    <2> QED
        BY <2>6 DEF t, a
<1>9. CASE SendsCancel(s, id, a)
    <2>0. s.callback \in {"PROBE", "OPEN"}
        BY <1>9 DEF SendsCancel
    <2>1. id = "busy" /\ a = [s EXCEPT !.pending = "cancel"]
        BY <1>9 DEF SendsCancel
    <2>2. Base(t) /\ Talks(t) /\ Alike(s, t) /\ t.ssm = "SEND_PENDING" /\ t.transfer = "cancel"
        BY <1>1, <2>1, PendingIsSent
    <2> HIDE DEF t
    <2>3. ReportFits("none", id) /\ StagesAre(s, id, percent, s.stage, s.progress) /\ id \in Final
        BY <2>1 DEF ReportFits, StagesAre, Final
    <2>4. AnswerLeads(s, id, percent, t)
        BY <1>1, <2>0, <2>2, <2>3 DEF AnswerLeads, Phase, Alike
    <2> QED
        BY <2>4 DEF t, a
<1> QED
    BY <1>3, <1>5, <1>6, <1>7, <1>8, <1>9 DEF Goes

-----------------------------------------------------------------------------
(* The steps of the user and of the main loop *)

\* Nothing is sent, read or ended; a cancellation may be requested.
Calm(s, t) ==
    /\ (t.ssm = "none" <=> s.ssm = "none")
    /\ t.callback = s.callback /\ t.action = s.action /\ t.result = s.result
    /\ t.report = s.report /\ t.on_removal = s.on_removal /\ t.delay_error = s.delay_error
    /\ t.stage = s.stage /\ t.progress = s.progress
    /\ t.transfer # s.transfer => {s.transfer, t.transfer} \intersect {"command", "cancel"} = {}
    /\ s.cancelled => t.cancelled
    /\ t.cancel_due => s.cancel_due \/ t.cancelled
    /\ "cancel" \in t.queued => "cancel" \in s.queued \/ s.cancel_due

\* The operation stays in its phase; of its requests, what must hold of them is left.
Steady(s, t) ==
    /\ Calm(s, t)
    /\ t.ssm = s.ssm /\ t.starting = s.starting /\ t.critical = s.critical /\ t.suspended = s.suspended
    /\ t.finger = s.finger /\ t.id_idx = s.id_idx
    /\ t.transfer = s.transfer \/ (s.transfer = "interrupt" /\ t.transfer = "interrupt_cancelled")
    /\ t.flush => s.flush
    /\ t.queued # {} => s.critical # 0 \/ t.flush
    /\ s.result # "none" /\ s.action \in Matching => "suspend" \notin t.queued
    /\ s.suspended => t.task = s.task /\ t.is_suspended = s.is_suspended

LEMMA SteadyKeeps ==
    ASSUME NEW s, NEW t, Phase(s), Base(t), Steady(s, t)
    PROVE  Phase(t)
<1>1. Sections(t) = Sections(s) /\ (Still(s) => t.transfer = s.transfer)
    BY DEF Steady, Calm, Sections, Still
<1>2. CASE Idle(s)
    <2>1. s.critical = 0 /\ ~s.flush
        BY <1>2 DEF Idle, Still
    <2>2. Idle(t)
        BY <1>1, <1>2, <2>1 DEF Idle, Still, Steady, Calm
    <2> QED
        BY <2>2 DEF Phase
<1>3. CASE Over(s)
    <2>1. s.critical = 0
        BY <1>3 DEF Over, Still
    <2>2. Over(t)
        BY <1>1, <1>3, <2>1 DEF Over, Still, Steady, Calm
    <2> QED
        BY <2>2 DEF Phase
<1>4. Running(s) => Running(t)
    BY DEF Running, Steady, Calm
<1>5. Removal(s) => Removal(t)
    BY DEF Removal, Steady, Calm
<1>6. CASE Talks(s)
    <2>1. Busy(t)
        BY <1>1, <1>4, <1>6 DEF Busy, Steady, Calm, Talks
    <2>2. t.transfer = s.transfer
        BY <1>6 DEF Steady, Calm, Talks
    <2>3. Talks(t)
        BY <1>5, <1>6, <2>1, <2>2 DEF Talks, Steady, Calm
    <2> QED
        BY <2>3 DEF Phase
<1>7. CASE Waits(s)
    <2>1. Running(t) /\ Removal(t)
        BY <1>4, <1>5, <1>7 DEF Waits
    <2>2. Waits(t)
        BY <1>1, <1>7, <2>1 DEF Waits, Steady, Calm
    <2> QED
        BY <2>2 DEF Phase
<1>8. CASE Sleeps(s)
    <2>1. Running(t) /\ Removal(t)
        BY <1>4, <1>5, <1>8 DEF Sleeps
    <2>2. Sleeps(t)
        BY <1>8, <2>1 DEF Sleeps, Steady, Calm
    <2> QED
        BY <2>2 DEF Phase
<1> QED
    BY <1>2, <1>3, <1>6, <1>7, <1>8 DEF Phase

LEMMA CalmHears ==
    ASSUME NEW s, NEW t, Calm(s, t), NEW x, Hears(s, x),
           NEW y \in Sensors, y.op = x.op, y.verdict = x.verdict
    PROVE  Hears(t, y)
BY DEF Hears, Calm

\* What a step may make of syn when all is orderly
LEMMA BecomesAllows ==
    ASSUME Orderly, NEW t, Becomes(t)
    PROVE  syn' = t /\ Allowed(t)
BY DEF Orderly, Becomes, Provokes, Allowed

\* A request waits in the queue for the end of a section, and a flush for a section to be left.
LEMMA PhaseFacts ==
    ASSUME NEW s, Phase(s)
    PROVE  /\ s.queued # {} => s.critical # 0 \/ s.flush
           /\ s.flush => s.critical = 0
           /\ s.result # "none" /\ s.action \in Matching => "suspend" \notin s.queued
           /\ s.action # "NONE" /\ s.result = "none" => Running(s) /\ Removal(s) /\ s.ssm # "none"
           /\ s.result # "none" => Over(s)
           /\ s.action = "NONE" => Idle(s)
           /\ s.suspended => s.critical = 0 /\ s.action \in Matching /\ ~s.starting
<1>1. CASE Idle(s)
    BY <1>1 DEF Idle, Still
<1>2. CASE Over(s)
    BY <1>2 DEF Over, Still
<1>3. CASE Talks(s)
    <2>1. s.critical # 0
        BY <1>3 DEF Talks, Busy, Sections, One
    <2> QED
        BY <1>3, <2>1 DEF Talks, Busy, Running
<1>4. CASE Waits(s)
    <2>1. s.suspended => s.critical = 0
        BY <1>4 DEF Waits, Sections, One, Matching
    <2> QED
        BY <1>4, <2>1 DEF Waits, Running
<1>5. CASE Sleeps(s)
    BY <1>5 DEF Sleeps, Running
<1> QED
    BY <1>1, <1>2, <1>3, <1>4, <1>5 DEF Phase

\* What is requested of an operation is not more than the hook of a cancellation.
LEMMA CancelledKeeps ==
    ASSUME NEW s, Base(s), Phase(s), s.action # "NONE", s.result = "none"
    PROVE  Base(Cancelled(s)) /\ Steady(s, Cancelled(s))
<1> DEFINE t == [s EXCEPT !.cancelled = TRUE,
                          !.cancel_due = (s.cancel_due \/ (~s.cancelled /\ s.result = "none"))]
<1>1. s \in Data
    BY DEF Base
<1>2. Cancelled(s) = t
    BY <1>1, CancelledIs
<1>3. t \in Data
  <2>1. PICK due \in BOOLEAN : due = (s.cancel_due \/ (~s.cancelled /\ s.result = "none"))
    OBVIOUS
  <2>2. t = [s EXCEPT !.cancelled = TRUE, !.cancel_due = due]
    BY <2>1
  <2> HIDE DEF t
  <2> QED
    BY <1>1, <2>2 DEF Data
<1>4. /\ t.ssm = s.ssm /\ t.callback = s.callback /\ t.action = s.action /\ t.result = s.result
      /\ t.report = s.report /\ t.on_removal = s.on_removal /\ t.delay_error = s.delay_error
      /\ t.starting = s.starting /\ t.critical = s.critical /\ t.suspended = s.suspended
      /\ t.finger = s.finger /\ t.id_idx = s.id_idx /\ t.stage = s.stage
      /\ t.progress = s.progress
      /\ t.transfer = s.transfer /\ t.flush = s.flush /\ t.queued = s.queued
      /\ t.task = s.task /\ t.is_suspended = s.is_suspended /\ t.cancelled = TRUE
    BY <1>1 DEF Data
<1> HIDE DEF t
<1>5. Base(t)
    BY <1>3, <1>4 DEF Base
<1>6. /\ s.queued # {} => s.critical # 0 \/ s.flush
      /\ s.result # "none" /\ s.action \in Matching => "suspend" \notin s.queued
    BY PhaseFacts
<1>7. Steady(s, t)
    BY <1>4, <1>6 DEF Steady, Calm
<1> QED
    BY <1>2, <1>5, <1>7

\* A step in which no command is sent or answered
Quiet ==
    /\ Calm(syn, syn')
    /\ \E cancel \in BOOLEAN :
           /\ sensor' = [sensor EXCEPT !.cancel = cancel]
           /\ cancel => \/ sensor.cancel
                        \/ syn.ssm # "none" /\ (syn.cancel_due \/ "cancel" \in syn.queued)

LEMMA QuietSays ==
    ASSUME SynInv, NEW t, syn' = t, Base(t), Phase(t), Calm(syn, t),
           \/ sensor' = sensor
           \/ /\ sensor' = [sensor EXCEPT !.cancel = TRUE]
              /\ syn.ssm # "none" /\ (syn.cancel_due \/ "cancel" \in syn.queued)
    PROVE  SynInv' /\ Quiet
<1>1. sensor \in Sensors /\ Hears(syn, sensor)
    BY DEF SynInv, Hears
<1>2. sensor.cancel \in BOOLEAN /\ sensor = [sensor EXCEPT !.cancel = sensor.cancel]
    BY <1>1 DEF Sensors
<1>3. sensor' \in Sensors /\ sensor'.op = sensor.op /\ sensor'.verdict = sensor.verdict
    BY <1>1 DEF Sensors
<1>4. PICK y : y = sensor'
    OBVIOUS
<1>5. Hears(t, y)
    BY <1>1, <1>3, <1>4, CalmHears
<1>6. SynInv'
    BY <1>4, <1>5 DEF SynInv
<1>7. Quiet
  <2>1. CASE sensor' = sensor
    BY <1>2, <2>1 DEF Quiet
  <2>2. CASE sensor' # sensor
    BY <2>2 DEF Quiet
  <2> QED
    BY <2>1, <2>2
<1> QED
    BY <1>6, <1>7

LEMMA UserCancelKeeps ==
    ASSUME Orderly, SynInv, UserCancel
    PROVE  SynInv' /\ Quiet
<1> DEFINE t == Cancelled(syn)
<1>1. syn.action # "NONE" /\ syn.result = "none" /\ Becomes(t) /\ UNCHANGED sensor
    BY DEF UserCancel
<1>2. Base(syn) /\ Phase(syn) /\ Hears(syn, sensor) /\ sensor \in Sensors
    BY DEF SynInv, Hears
<1> HIDE DEF t
<1>3. syn' = t
    BY <1>1, BecomesAllows
<1>4. Base(t) /\ Steady(syn, t)
    BY <1>1, <1>2, CancelledKeeps DEF t
<1>5. Phase(t) /\ Calm(syn, t)
    BY <1>2, <1>4, SteadyKeeps DEF Steady
<1> QED
    BY <1>1, <1>3, <1>4, <1>5, QuietSays

\* A suspend call, at once or from the queue of a section that was left
ToSuspend(s) == [s EXCEPT !.task = "suspend", !.queued = s.queued \ {"suspend"}]

Awake(s) == Base(s) /\ Phase(s) /\ ~s.is_suspended /\ ~s.suspended

LEMMA AwakeFacts ==
    ASSUME NEW s, Awake(s)
    PROVE  LET v == ToSuspend(s)
           IN  /\ s \in Data /\ v \in Data
               /\ v.task = "suspend" /\ v.queued = s.queued \ {"suspend"}
               /\ v.ssm = s.ssm /\ v.callback = s.callback /\ v.action = s.action
               /\ v.result = s.result /\ v.transfer = s.transfer /\ v.critical = s.critical
               /\ v.cancel_due = s.cancel_due /\ v.cancelled = s.cancelled
<1>1. s \in Data /\ "suspend" \in Tasks
    BY Names DEF Awake, Base
<1>2. s.queued \ {"suspend"} \in Queues
  <2>1. s.queued \in Queues
    BY <1>1 DEF Data
  <2> QED
    BY <2>1 DEF Queues
<1> QED
    BY <1>1, <1>2 DEF ToSuspend, Data

LEMMA SuspendIdle ==
    ASSUME NEW s, Awake(s), s.action = "NONE"
    PROVE  LET t == Suspended(ToSuspend(s)) IN Base(t) /\ Phase(t) /\ Steady(s, t)
<1> DEFINE v == ToSuspend(s)
           t == [s EXCEPT !.is_suspended = TRUE, !.task = "none",
                          !.queued = s.queued \ {"suspend"}]
<1>1. s \in Data /\ v \in Data /\ v.task = "suspend" /\ v.action = s.action
    BY AwakeFacts
<1>2. [v EXCEPT !.is_suspended = TRUE, !.task = "none"] = t
    BY <1>1 DEF ToSuspend, Data
<1> HIDE DEF v
<1>3. Suspended(v) = SuspendComplete(v, "none")
    BY <1>1 DEF Suspended
<1>4. Suspended(v) = t
    BY <1>1, <1>2, <1>3, SuspendCompleteIs
<1>5. s.queued = {}
    BY PhaseFacts DEF Awake, Idle
<1>6. t \in Data
  <2>1. "none" \in Tasks /\ s.queued \ {"suspend"} \in Queues
    BY <1>5, Names DEF Queues
  <2> QED
    BY <1>1, <2>1 DEF Data
<1>7. /\ t.is_suspended = TRUE /\ t.task = "none" /\ t.queued = s.queued
      /\ t.ssm = s.ssm /\ t.callback = s.callback /\ t.action = s.action /\ t.result = s.result
      /\ t.report = s.report /\ t.on_removal = s.on_removal /\ t.delay_error = s.delay_error
      /\ t.starting = s.starting /\ t.critical = s.critical /\ t.suspended = s.suspended
      /\ t.finger = s.finger /\ t.id_idx = s.id_idx /\ t.stage = s.stage
      /\ t.progress = s.progress
      /\ t.transfer = s.transfer /\ t.flush = s.flush /\ t.cancel_due = s.cancel_due
      /\ t.cancelled = s.cancelled
  <2>1. s.queued \ {"suspend"} = s.queued
    BY <1>5
  <2> QED
    BY <1>1, <2>1 DEF Data
<1> HIDE DEF t
<1>8. Base(t)
    BY <1>5, <1>6, <1>7 DEF Base, Awake
<1>9. Steady(s, t)
    BY <1>5, <1>7 DEF Steady, Calm, Awake
<1>10. Phase(t)
    BY <1>8, <1>9, SteadyKeeps DEF Awake
<1> QED
    BY <1>4, <1>8, <1>9, <1>10 DEF v

\* The call is put aside until the operation returns or the section is left.
LEMMA SuspendLater ==
    ASSUME NEW s, Awake(s), s.action # "NONE", s.action \in Short \/ s.critical > 0
    PROVE  LET t == Suspended(ToSuspend(s)) IN Base(t) /\ Phase(t) /\ Steady(s, t)
<1> DEFINE v == ToSuspend(s)
           queue == IF s.action \in Short THEN s.queued \ {"suspend"} ELSE s.queued \union {"suspend"}
           task == IF s.action \in Short THEN "at_return" ELSE "suspend"
           t == [s EXCEPT !.task = task, !.queued = queue]
<1>1. /\ s \in Data /\ v \in Data /\ v.action = s.action /\ v.critical = s.critical
      /\ v.queued = s.queued \ {"suspend"}
    BY AwakeFacts
<1>2. Suspended(v) = t
  <2>1. CASE s.action \in Short
    <3>1. Suspended(v) = [v EXCEPT !.task = "at_return"]
        <4> HIDE DEF v
        <4> QED
            BY <1>1, <2>1 DEF Suspended
    <3> QED
        BY <1>1, <2>1, <3>1 DEF ToSuspend, Data
  <2>2. CASE s.action \notin Short
    <3>1. Suspended(v) = [v EXCEPT !.queued = v.queued \union {"suspend"}]
        <4> HIDE DEF v
        <4> QED
            BY <1>1, <2>2 DEF Suspended
    <3>2. (s.queued \ {"suspend"}) \union {"suspend"} = s.queued \union {"suspend"}
        OBVIOUS
    <3>3. [v EXCEPT !.queued = v.queued \union {"suspend"}]
            = [s EXCEPT !.task = "suspend",
                        !.queued = (s.queued \ {"suspend"}) \union {"suspend"}]
        BY <1>1 DEF ToSuspend, Data
    <3> QED
        BY <2>2, <3>1, <3>2, <3>3
  <2> QED
    BY <2>1, <2>2
<1>3. queue \in Queues /\ task \in Tasks
  <2>1. s.queued \in Queues
    BY <1>1 DEF Data
  <2> QED
    BY <2>1, Names DEF Queues
<1>4. /\ queue # {} => s.critical # 0 \/ s.flush
      /\ s.result # "none" /\ s.action \in Matching => "suspend" \notin queue
      /\ "suspend" \in queue => task = "suspend"
      /\ task = "suspend" => "suspend" \in queue
      /\ task # "resume" /\ ("cancel" \in queue => "cancel" \in s.queued)
  <2>1. /\ s.queued # {} => s.critical # 0 \/ s.flush
        /\ s.result # "none" /\ s.action \in Matching => "suspend" \notin s.queued
        /\ s.result # "none" => Over(s)
    BY PhaseFacts DEF Awake
  <2>2. s.action \notin Short => s.critical # 0
    <3>1. s.critical \in Nat
        BY <1>1 DEF Data
    <3> QED
        BY <3>1
  <2>3. s.action \notin Short => s.result = "none"
    BY <2>1, <2>2 DEF Over, Still
  <2> QED
    BY <2>1, <2>2, <2>3
<1> HIDE DEF queue, task
<1>5. /\ t.ssm = s.ssm /\ t.callback = s.callback /\ t.action = s.action /\ t.result = s.result
      /\ t.report = s.report /\ t.on_removal = s.on_removal /\ t.delay_error = s.delay_error
      /\ t.starting = s.starting /\ t.critical = s.critical /\ t.suspended = s.suspended
      /\ t.finger = s.finger /\ t.id_idx = s.id_idx /\ t.stage = s.stage
      /\ t.progress = s.progress
      /\ t.transfer = s.transfer /\ t.flush = s.flush /\ t.cancel_due = s.cancel_due
      /\ t.task = task /\ t.queued = queue /\ t.is_suspended = s.is_suspended
      /\ t.cancelled = s.cancelled
    BY <1>1 DEF Data
<1>6. t \in Data
    BY <1>1, <1>3 DEF Data
<1> HIDE DEF t, v
<1>7. Base(t)
    BY <1>4, <1>5, <1>6 DEF Base, Awake
<1>8. Steady(s, t)
    BY <1>4, <1>5 DEF Steady, Calm, Awake
<1>9. Phase(t)
    BY <1>7, <1>8, SteadyKeeps DEF Awake
<1> QED
    BY <1>2, <1>7, <1>8, <1>9 DEF v

\* A verify or identify operation that waits: its interrupt transfer is cancelled.
LEMMA SuspendWaiting ==
    ASSUME NEW s, Awake(s), s.action \in Matching, s.critical = 0, s.result = "none"
    PROVE  LET t == Suspended(ToSuspend(s))
           IN  Base(t) /\ Waits(t) /\ Calm(s, t)
<1> DEFINE v == ToSuspend(s)
           queue == s.queued \ {"suspend"}
           t == [s EXCEPT !.task = "suspend", !.queued = queue, !.suspended = TRUE,
                          !.transfer = "interrupt_cancelled"]
<1>1. /\ s \in Data /\ v \in Data /\ v.action = s.action /\ v.critical = 0 /\ v.ssm = s.ssm
      /\ v.queued = queue /\ v.transfer = s.transfer
    BY AwakeFacts
<1>2. Waits(s)
  <2>1. ~Idle(s) /\ ~Over(s) /\ ~Sleeps(s)
    BY DEF Awake, Idle, Over, Sleeps, Matching
  <2>2. ~Talks(s)
    BY DEF Talks, Busy, Sections, One
  <2> QED
    BY <2>1, <2>2 DEF Awake, Phase
<1>3. s.ssm = "WAIT_INTERRUPT" /\ s.transfer \in {"interrupt", "interrupt_cancelled"}
    BY <1>2 DEF Waits
<1>4. s.action \notin Short /\ s.action # "NONE"
    BY DEF Matching, Short
<1>5. Suspended(v) = t
  <2> DEFINE w == [v EXCEPT !.suspended = TRUE]
  <2>1. Asserted(Asserted(v, v.ssm # "none", "cmd_ssm"), v.ssm = "WAIT_INTERRUPT", "wait_interrupt") = v
    BY <1>1, <1>3 DEF Asserted
  <2>2. w.transfer = v.transfer
    BY <1>1 DEF Data
  <2>3. [w EXCEPT !.transfer = "interrupt_cancelled"] = t
    BY <1>1 DEF ToSuspend, Data
  <2> HIDE DEF v
  <2>4. Suspended(v) = SuspendVfunc(v)
    BY <1>1, <1>4 DEF Suspended
  <2>5. SuspendVfunc(v) = CancelVfunc(w)
    BY <1>1, <2>1 DEF SuspendVfunc
  <2> HIDE DEF w, t
  <2>6. CancelVfunc(w)
          = [w EXCEPT !.transfer = IF w.transfer = "interrupt" THEN "interrupt_cancelled" ELSE w.transfer]
    BY DEF CancelVfunc
  <2>7. (IF w.transfer = "interrupt" THEN "interrupt_cancelled" ELSE w.transfer) = "interrupt_cancelled"
    BY <1>1, <1>3, <2>2
  <2> QED
    BY <2>3, <2>4, <2>5, <2>6, <2>7
<1>6. queue \in Queues /\ "suspend" \in Tasks /\ "interrupt_cancelled" \in Transferring
  <2>1. s.queued \in Queues
    BY <1>1 DEF Data
  <2> QED
    BY <2>1, Names DEF Queues
<1>7. queue # {} => s.flush
    BY PhaseFacts DEF Awake
<1>8. "suspend" \notin queue /\ ("cancel" \in queue => "cancel" \in s.queued)
    OBVIOUS
<1> HIDE DEF queue
<1>9. /\ t.ssm = s.ssm /\ t.callback = s.callback /\ t.action = s.action /\ t.result = s.result
      /\ t.report = s.report /\ t.on_removal = s.on_removal /\ t.delay_error = s.delay_error
      /\ t.starting = s.starting /\ t.critical = s.critical /\ t.suspended = TRUE
      /\ t.finger = s.finger /\ t.id_idx = s.id_idx
      /\ t.transfer = "interrupt_cancelled" /\ t.flush = s.flush /\ t.cancel_due = s.cancel_due
      /\ t.task = "suspend" /\ t.queued = queue /\ t.is_suspended = s.is_suspended
      /\ t.cancelled = s.cancelled /\ t.stage = s.stage /\ t.progress = s.progress
    BY <1>1 DEF Data
<1>10. t \in Data
    BY <1>1, <1>6 DEF Data
<1> HIDE DEF t, v
<1>11. Calm(s, t)
    BY <1>3, <1>8, <1>9 DEF Calm
<1>12. Base(t)
    BY <1>8, <1>9, <1>10 DEF Base, Awake
<1>13. Sections(s) = 0 /\ Sections(t) = 0 /\ ~s.starting
    BY <1>2, <1>9 DEF Waits, Sections, One, Matching
<1>14. Running(t) /\ Removal(t)
    BY <1>2, <1>9 DEF Waits, Running, Removal
<1>15. Waits(t)
    BY <1>2, <1>3, <1>7, <1>9, <1>13, <1>14 DEF Waits, Awake
<1> QED
    BY <1>5, <1>11, <1>12, <1>15 DEF v

\* An enrollment is cancelled, and returns after the device is suspended.
LEMMA SuspendEnroll ==
    ASSUME NEW s, Awake(s), s.action = "ENROLL", s.critical = 0
    PROVE  LET t == Suspended(ToSuspend(s)) IN Base(t) /\ Phase(t) /\ Steady(s, t)
<1> DEFINE v == ToSuspend(s)
           queue == s.queued \ {"suspend"}
           due == s.cancel_due \/ (~s.cancelled /\ s.result = "none")
           t == [s EXCEPT !.task = "at_return", !.queued = queue, !.is_suspended = TRUE,
                          !.cancelled = TRUE, !.cancel_due = due]
<1>1. /\ s \in Data /\ v \in Data /\ v.action = s.action /\ v.critical = 0
      /\ v.task = "suspend" /\ v.cancel_due = s.cancel_due /\ v.cancelled = s.cancelled
      /\ v.result = s.result
    BY AwakeFacts
<1>2. s.action \notin Short /\ s.action \notin Matching /\ s.action # "NONE"
    BY DEF Matching, Short
<1>3. Suspended(v) = t
  <2>1. [v EXCEPT !.is_suspended = TRUE, !.task = "at_return", !.cancelled = TRUE,
                  !.cancel_due = due] = t
    BY <1>1 DEF ToSuspend, Data
  <2> HIDE DEF v
  <2>2. Suspended(v) = SuspendComplete(v, "not_supported")
    BY <1>1, <1>2 DEF Suspended, SuspendVfunc
  <2>3. SuspendComplete(v, "not_supported")
          = [v EXCEPT !.is_suspended = TRUE, !.task = "at_return", !.cancelled = TRUE,
                      !.cancel_due = (v.cancel_due \/ (~v.cancelled /\ v.result = "none"))]
    BY <1>1, SuspendCompleteIs
  <2> QED
    BY <1>1, <2>1, <2>2, <2>3
<1>4. queue \in Queues /\ "at_return" \in Tasks /\ due \in BOOLEAN
  <2>1. s.queued \in Queues
    BY <1>1 DEF Data
  <2> QED
    BY <2>1, Names DEF Queues
<1>5. /\ queue # {} => s.flush
      /\ "suspend" \notin queue /\ ("cancel" \in queue => "cancel" \in s.queued)
    BY PhaseFacts DEF Awake
<1>6. due => s.result = "none"
    BY DEF Awake, Base
<1> HIDE DEF queue, due
<1>7. /\ t.ssm = s.ssm /\ t.callback = s.callback /\ t.action = s.action /\ t.result = s.result
      /\ t.report = s.report /\ t.on_removal = s.on_removal /\ t.delay_error = s.delay_error
      /\ t.starting = s.starting /\ t.critical = s.critical /\ t.suspended = s.suspended
      /\ t.finger = s.finger /\ t.id_idx = s.id_idx /\ t.stage = s.stage
      /\ t.progress = s.progress
      /\ t.transfer = s.transfer /\ t.flush = s.flush /\ t.cancel_due = due
      /\ t.task = "at_return" /\ t.queued = queue /\ t.is_suspended = TRUE
      /\ t.cancelled = TRUE
    BY <1>1 DEF Data
<1>8. t \in Data
    BY <1>1, <1>4 DEF Data
<1> HIDE DEF t, v
<1>9. Base(t)
    BY <1>2, <1>5, <1>6, <1>7, <1>8 DEF Base, Awake
<1>10. Steady(s, t)
    BY <1>5, <1>7 DEF Steady, Calm, Awake
<1>11. Phase(t)
    BY <1>9, <1>10, SteadyKeeps DEF Awake
<1> QED
    BY <1>3, <1>9, <1>10, <1>11 DEF v

LEMMA SuspendedKeeps ==
    ASSUME NEW s, Awake(s), ~(s.action \in Matching /\ s.result # "none")
    PROVE  LET t == Suspended(ToSuspend(s)) IN Base(t) /\ Phase(t) /\ Calm(s, t)
<1> DEFINE t == Suspended(ToSuspend(s))
<1>1. s.action \in Actions /\ s.critical \in Nat
  <2>1. s \in Data
    BY DEF Awake, Base
  <2> QED
    BY <2>1 DEF Data
<1> HIDE DEF t
<1>2. CASE s.action = "NONE"
    BY <1>2, SuspendIdle DEF t, Steady
<1>3. CASE s.action # "NONE" /\ (s.action \in Short \/ s.critical > 0)
    BY <1>3, SuspendLater DEF t, Steady
<1>4. CASE s.action \in Matching /\ s.critical = 0
    BY <1>4, SuspendWaiting DEF t, Phase
<1>5. CASE s.action = "ENROLL" /\ s.critical = 0
    BY <1>5, SuspendEnroll DEF t, Steady
<1>6. s.critical = 0 \/ s.critical > 0
    BY <1>1
<1> QED
    BY <1>1, <1>2, <1>3, <1>4, <1>5, <1>6 DEF t, Actions, Operations, Long

LEMMA UserSuspendKeeps ==
    ASSUME Orderly, SynInv, UserSuspend
    PROVE  SynInv' /\ Quiet
<1> DEFINE t == Suspended([syn EXCEPT !.task = "suspend"])
<1>1. /\ syn.task = "none" /\ ~syn.is_suspended /\ Becomes(t) /\ UNCHANGED sensor
      /\ ~(syn.result # "none" /\ syn.action \in Matching)
    BY DEF UserSuspend, Orderly, Provokes
<1>2. Base(syn) /\ Phase(syn) /\ syn \in Data
    BY DEF SynInv, Base
<1>3. ~syn.suspended
    BY <1>1, <1>2 DEF Phase, Idle, Over, Still, Talks, Busy, Waits, Sleeps
<1>4. [syn EXCEPT !.task = "suspend"] = ToSuspend(syn)
  <2>1. syn.queued \ {"suspend"} = syn.queued
    BY <1>1, <1>2 DEF Base
  <2> QED
    BY <1>2, <2>1 DEF ToSuspend, Data
<1>5. Awake(syn)
    BY <1>1, <1>2, <1>3 DEF Awake
<1>6. Base(t) /\ Phase(t) /\ Calm(syn, t)
    BY <1>1, <1>4, <1>5, SuspendedKeeps
<1> HIDE DEF t
<1>7. syn' = t
    BY <1>1, BecomesAllows
<1> QED
    BY <1>1, <1>6, <1>7, QuietSays

LEMMA ResumedIs ==
    ASSUME NEW s, Base(s), Phase(s), s.is_suspended, s.task = "none"
    PROVE  LET t == Resumed([s EXCEPT !.task = "resume"])
           IN  Base(t) /\ Phase(t) /\ Calm(s, t)
<1> DEFINE u == [s EXCEPT !.task = "resume"]
           v == [u EXCEPT !.suspended = FALSE]
           t == IF s.action = "NONE" THEN [s EXCEPT !.is_suspended = FALSE]
                ELSE [s EXCEPT !.is_suspended = FALSE, !.suspended = FALSE, !.critical = 0,
                               !.flush = TRUE,
                               !.ssm = "WAIT_INTERRUPT", !.transfer = "interrupt"]
<1>1. s \in Data /\ "resume" \in Tasks /\ "none" \in Tasks
    BY Names DEF Base
<1>2. u \in Data /\ u.action = s.action /\ u.critical = s.critical /\ u.ssm = s.ssm
      /\ u.suspended = s.suspended /\ u.callback = s.callback
    BY <1>1 DEF Data
<1>3. v \in Data /\ v.action = s.action /\ v.critical = s.critical /\ v.callback = s.callback
    BY <1>1 DEF Data
<1>4. CASE s.action = "NONE"
    <2>1. [u EXCEPT !.is_suspended = FALSE, !.task = "none"] = [s EXCEPT !.is_suspended = FALSE]
        BY <1>1 DEF Data
    <2> HIDE DEF u
    <2>2. Resumed(u) = t
        BY <1>2, <1>4, <2>1 DEF Resumed, ResumeComplete
    <2>3. /\ t.ssm = s.ssm /\ t.callback = s.callback /\ t.action = s.action /\ t.result = s.result
          /\ t.report = s.report /\ t.on_removal = s.on_removal /\ t.delay_error = s.delay_error
          /\ t.starting = s.starting /\ t.critical = s.critical /\ t.suspended = s.suspended
          /\ t.finger = s.finger /\ t.id_idx = s.id_idx /\ t.stage = s.stage
          /\ t.progress = s.progress
          /\ t.transfer = s.transfer /\ t.flush = s.flush /\ t.cancel_due = s.cancel_due
          /\ t.task = s.task /\ t.queued = s.queued /\ t.is_suspended = FALSE
          /\ t.cancelled = s.cancelled /\ t \in Data
        BY <1>1, <1>4 DEF Data
    <2> HIDE DEF t
    <2>4. Base(t)
        BY <2>3 DEF Base
    <2>5. Idle(s)
        BY <1>4, PhaseFacts
    <2>6. Steady(s, t)
        BY <2>3, <2>5 DEF Steady, Calm, Idle, Still
    <2>7. Phase(t)
        BY <2>4, <2>6, SteadyKeeps
    <2> QED
        BY <2>2, <2>4, <2>6, <2>7 DEF u, Steady
<1>5. CASE s.action # "NONE"
    <2>1. Sleeps(s)
        <3>1. ~Idle(s) /\ s.suspended
            BY <1>5 DEF Base, Idle
        <3> QED
            BY <3>1 DEF Phase, Over, Still, Talks, Busy, Waits
    <2>2. /\ s.ssm = "SUSPENDED" /\ s.critical = 0 /\ s.suspended /\ s.action \in Matching
          /\ s.action \notin Short /\ s.callback # "PROBE" /\ Running(s) /\ Removal(s)
          /\ ~s.starting
        BY <2>1 DEF Sleeps, Running, Matching, Short
    <2> DEFINE w == [v EXCEPT !.critical = 1, !.flush = FALSE]
               z == [w EXCEPT !.critical = 0, !.flush = TRUE, !.ssm = "WAIT_INTERRUPT",
                              !.transfer = "interrupt"]
    <2>3. w \in Data /\ w.action = s.action /\ w.critical = 1 /\ w.callback = s.callback
        BY <1>1, <1>3 DEF Data
    <2>4. [z EXCEPT !.is_suspended = FALSE, !.task = "none"] = t
        BY <1>1, <1>5 DEF Data
    <2>5. Resumed(u) = ResumeComplete(ResumeState(v))
        <3> HIDE DEF u
        <3>1. Resumed(u) = ResumeVfunc(u)
            BY <1>2, <1>5, <2>2 DEF Resumed
        <3> QED
            BY <1>2, <2>2, <3>1 DEF ResumeVfunc
    <2> HIDE DEF u, v
    <2>6. Enter(v) = w
        <3>1. v.critical + 1 = 1
            BY <1>3, <2>2
        <3> QED
            BY <1>3, <1>5, <3>1, EnterIs
    <2> HIDE DEF w
    <2>7. WaitInterrupt(w) = z
        <3>1. w.critical # 0 /\ w.critical - 1 = 0 /\ (w.flush \/ w.critical = 1) = TRUE
              /\ (IF w.callback = "PROBE" THEN "interrupt_bare" ELSE "interrupt") = "interrupt"
            BY <2>2, <2>3
        <3>2. WaitInterrupt(w) = [w EXCEPT !.critical = w.critical - 1,
                                           !.flush = (w.flush \/ w.critical = 1),
                     !.ssm = "WAIT_INTERRUPT",
                     !.transfer = IF w.callback = "PROBE" THEN "interrupt_bare" ELSE "interrupt"]
            BY <1>5, <2>3, <3>1, WaitInterruptIs
        <3> QED
            BY <3>1, <3>2
    <2> HIDE DEF z
    <2>8. Resumed(u) = t
        BY <2>4, <2>5, <2>6, <2>7 DEF ResumeState, ResumeComplete
    <2>9. /\ t.ssm = "WAIT_INTERRUPT" /\ t.callback = s.callback /\ t.action = s.action
          /\ t.result = s.result
          /\ t.report = s.report /\ t.on_removal = s.on_removal /\ t.delay_error = s.delay_error
          /\ t.starting = s.starting /\ t.critical = 0 /\ t.suspended = FALSE
          /\ t.finger = s.finger /\ t.id_idx = s.id_idx /\ t.stage = s.stage
          /\ t.progress = s.progress
          /\ t.transfer = "interrupt" /\ t.flush = TRUE /\ t.cancel_due = s.cancel_due
          /\ t.task = "none" /\ t.queued = s.queued /\ t.is_suspended = FALSE
          /\ t.cancelled = s.cancelled
        BY <1>1, <1>5 DEF Data
    <2>10. t \in Data
        <3>1. "WAIT_INTERRUPT" \in SsmStates /\ "interrupt" \in Transferring
            BY Names
        <3> QED
            BY <1>1, <1>5, <3>1 DEF Data
    <2> HIDE DEF t
    <2>11. Base(t)
        BY <2>2, <2>9, <2>10 DEF Base
    <2>12. Running(t) /\ Removal(t)
        BY <2>2, <2>9 DEF Running, Removal
    <2>13. Sections(t) = 0
        BY <2>2, <2>9 DEF Sections, One, Matching
    <2>14. Waits(t)
        BY <2>9, <2>12, <2>13 DEF Waits
    <2>15. Calm(s, t)
        BY <2>1, <2>9 DEF Calm, Sleeps
    <2> QED
        BY <2>8, <2>11, <2>14, <2>15 DEF u, Phase
<1> QED
    BY <1>4, <1>5

LEMMA UserResumeKeeps ==
    ASSUME Orderly, SynInv, UserResume
    PROVE  SynInv' /\ Quiet
<1> DEFINE t == Resumed([syn EXCEPT !.task = "resume"])
<1>1. syn.task = "none" /\ syn.is_suspended /\ Becomes(t) /\ UNCHANGED sensor
    BY DEF UserResume
<1>2. Base(t) /\ Phase(t) /\ Calm(syn, t)
    BY <1>1, ResumedIs DEF SynInv
<1> HIDE DEF t
<1>3. syn' = t
    BY <1>1, BecomesAllows
<1> QED
    BY <1>1, <1>2, <1>3, QuietSays

\* What the main loop changes of the requests, and the transfer it may cancel
LEMMA RequestsChange ==
    ASSUME NEW s, Base(s), Phase(s), NEW queued \in Queues, NEW due \in BOOLEAN,
           NEW flush \in BOOLEAN, NEW transfer,
           transfer = IF s.transfer = "interrupt" THEN "interrupt_cancelled" ELSE s.transfer,
           NEW transfer2 \in {s.transfer, transfer},
           due => s.cancel_due,
           "suspend" \in queued <=> "suspend" \in s.queued,
           "cancel" \in queued => "cancel" \in s.queued \/ s.cancel_due,
           flush => s.flush,
           queued # {} => s.critical # 0 \/ flush
    PROVE  LET t == [s EXCEPT !.queued = queued, !.cancel_due = due, !.flush = flush,
                              !.transfer = transfer2]
           IN  Base(t) /\ Phase(t) /\ Calm(s, t)
<1> DEFINE t == [s EXCEPT !.queued = queued, !.cancel_due = due, !.flush = flush,
                          !.transfer = transfer2]
<1>1. s \in Data
    BY DEF Base
<1>2. transfer2 \in Transferring
  <2>1. s.transfer \in Transferring /\ "interrupt_cancelled" \in Transferring
    BY <1>1, Names DEF Data
  <2> QED
    BY <2>1
<1>3. transfer2 = s.transfer \/ (s.transfer = "interrupt" /\ transfer2 = "interrupt_cancelled")
    OBVIOUS
<1>4. t \in Data
    BY <1>1, <1>2 DEF Data
<1>5. /\ t.ssm = s.ssm /\ t.callback = s.callback /\ t.action = s.action /\ t.result = s.result
      /\ t.report = s.report /\ t.on_removal = s.on_removal /\ t.delay_error = s.delay_error
      /\ t.starting = s.starting /\ t.critical = s.critical /\ t.suspended = s.suspended
      /\ t.finger = s.finger /\ t.id_idx = s.id_idx /\ t.stage = s.stage
      /\ t.progress = s.progress
      /\ t.transfer = transfer2 /\ t.flush = flush /\ t.cancel_due = due
      /\ t.task = s.task /\ t.queued = queued /\ t.is_suspended = s.is_suspended
      /\ t.cancelled = s.cancelled
    BY <1>1 DEF Data
<1>6. s.result # "none" /\ s.action \in Matching => "suspend" \notin queued
    BY PhaseFacts
<1> HIDE DEF t
<1>7. Base(t)
    BY <1>4, <1>5 DEF Base
<1>8. Calm(s, t)
    BY <1>3, <1>5 DEF Calm
<1>9. Steady(s, t)
    BY <1>3, <1>5, <1>6, <1>8 DEF Steady
<1>10. Phase(t)
    BY <1>7, <1>9, SteadyKeeps
<1> QED
    BY <1>7, <1>8, <1>10 DEF t

LEMMA CancelInIdleKeeps ==
    ASSUME Orderly, SynInv, CancelInIdle
    PROVE  SynInv' /\ Quiet
<1> DEFINE s == [syn EXCEPT !.cancel_due = FALSE]
           transfer == IF syn.transfer = "interrupt" THEN "interrupt_cancelled" ELSE syn.transfer
<1>1. syn.cancel_due /\ ~syn.flush /\ Base(syn) /\ Phase(syn) /\ syn \in Data
    BY DEF CancelInIdle, SynInv, Base
<1>2. syn.flush = FALSE /\ syn.queued \in Queues /\ syn.critical \in Nat
    BY <1>1 DEF Data
<1>3. syn.ssm # "none"
    BY <1>1, PhaseFacts DEF Base
<1>4. CASE s.critical > 0
    <2> DEFINE queued == syn.queued \union {"cancel"}
               t == [syn EXCEPT !.queued = queued, !.cancel_due = FALSE, !.flush = FALSE,
                                !.transfer = syn.transfer]
    <2>1. Becomes([s EXCEPT !.queued = @ \union {"cancel"}]) /\ UNCHANGED sensor
        BY <1>4 DEF CancelInIdle
    <2>2. [s EXCEPT !.queued = @ \union {"cancel"}] = t
        BY <1>1, <1>2 DEF Data
    <2>3. queued \in Queues /\ ("suspend" \in queued <=> "suspend" \in syn.queued)
        BY <1>2 DEF Queues
    <2>4. syn.critical # 0
        BY <1>1, <1>4 DEF Data
    <2> HIDE DEF s, queued
    <2>5. Base(t) /\ Phase(t) /\ Calm(syn, t)
        BY <1>1, <2>3, <2>4, RequestsChange
    <2> HIDE DEF t
    <2>6. syn' = t
        BY <2>1, <2>2, BecomesAllows
    <2> QED
        BY <2>1, <2>5, <2>6, QuietSays
<1>5. CASE ~(s.critical > 0)
    <2> DEFINE t == [syn EXCEPT !.queued = syn.queued, !.cancel_due = FALSE, !.flush = FALSE,
                                !.transfer = transfer]
    <2>1. Becomes(CancelVfunc(s)) /\ CancelReaches
        BY <1>5 DEF CancelInIdle
    <2>2. CancelVfunc(s) = t
        BY <1>1, <1>2 DEF CancelVfunc, Data
    <2>3. syn.queued = {}
        <3>1. syn.critical = 0
            BY <1>1, <1>2, <1>5 DEF Data
        <3> QED
            BY <1>1, <3>1, PhaseFacts
    <2> HIDE DEF s
    <2>4. Base(t) /\ Phase(t) /\ Calm(syn, t)
        BY <1>1, <1>2, <2>3, RequestsChange
    <2> HIDE DEF t
    <2>5. syn' = t
        BY <2>1, <2>2, BecomesAllows
    <2> QED
        BY <1>1, <1>3, <2>1, <2>4, <2>5, QuietSays DEF CancelReaches
<1> QED
    BY <1>4, <1>5

LEMMA CriticalFlushKeeps ==
    ASSUME Orderly, SynInv, CriticalFlush
    PROVE  SynInv' /\ Quiet
<1> DEFINE transfer == IF syn.transfer = "interrupt" THEN "interrupt_cancelled" ELSE syn.transfer
<1>1. syn.flush /\ Base(syn) /\ Phase(syn) /\ syn \in Data
    BY DEF CriticalFlush, SynInv, Base
<1>2. syn.flush = TRUE /\ syn.queued \in Queues /\ syn.cancel_due \in BOOLEAN
    BY <1>1 DEF Data
<1>3. CASE "cancel" \in syn.queued
    <2> DEFINE s == [syn EXCEPT !.queued = @ \ {"cancel"}]
               queued == syn.queued \ {"cancel"}
    <2>1. queued \in Queues /\ ("suspend" \in queued <=> "suspend" \in syn.queued)
        BY <1>2 DEF Queues
    <2>2. CASE syn.result # "none"
        <3> DEFINE t == [syn EXCEPT !.queued = queued, !.cancel_due = syn.cancel_due,
                                    !.flush = TRUE,
                                    !.transfer = syn.transfer]
        <3>1. Becomes(s) /\ UNCHANGED sensor
            BY <1>3, <2>2 DEF CriticalFlush
        <3>2. s = t
            BY <1>1, <1>2 DEF Data
        <3> HIDE DEF s, queued
        <3>3. "cancel" \in queued => "cancel" \in syn.queued
            BY DEF queued
        <3>4. Base(t) /\ Phase(t) /\ Calm(syn, t)
            BY <1>1, <1>2, <2>1, <3>3, RequestsChange
        <3> HIDE DEF t
        <3>5. syn' = t
            BY <3>1, <3>2, BecomesAllows
        <3> QED
            BY <3>1, <3>4, <3>5, QuietSays
    <2>3. CASE syn.result = "none"
        <3> DEFINE t == [syn EXCEPT !.queued = queued, !.cancel_due = syn.cancel_due,
                                    !.flush = TRUE,
                                    !.transfer = transfer]
        <3>1. Becomes(CancelVfunc(s)) /\ CancelReaches
            BY <1>3, <2>3 DEF CriticalFlush
        <3>2. CancelVfunc(s) = t
            BY <1>1, <1>2 DEF CancelVfunc, Data
        <3> HIDE DEF s, queued
        <3>3. "cancel" \in queued => "cancel" \in syn.queued
            BY DEF queued
        <3>4. Base(t) /\ Phase(t) /\ Calm(syn, t)
            BY <1>1, <1>2, <2>1, <3>3, RequestsChange
        <3>5. syn.ssm # "none"
            BY <1>1, <2>3, PhaseFacts DEF Idle
        <3> HIDE DEF t
        <3>6. syn' = t
            BY <3>1, <3>2, BecomesAllows
        <3> QED
            BY <1>3, <3>1, <3>4, <3>5, <3>6, QuietSays DEF CancelReaches
    <2> QED
        BY <2>2, <2>3
<1>4. CASE "cancel" \notin syn.queued /\ "suspend" \in syn.queued
    <2> DEFINE t == Suspended([syn EXCEPT !.queued = @ \ {"suspend"}])
    <2>1. Becomes(t) /\ UNCHANGED sensor
        BY <1>4 DEF CriticalFlush
    <2>2. Awake(syn) /\ syn.task = "suspend"
        BY <1>1, <1>4 DEF Awake, Base
    <2>3. [syn EXCEPT !.queued = @ \ {"suspend"}] = ToSuspend(syn)
        BY <1>1, <2>2 DEF ToSuspend, Data
    <2>4. ~(syn.action \in Matching /\ syn.result # "none")
        BY <1>1, <1>4, PhaseFacts
    <2>5. Base(t) /\ Phase(t) /\ Calm(syn, t)
        BY <2>2, <2>3, <2>4, SuspendedKeeps
    <2> HIDE DEF t
    <2>6. syn' = t
        BY <2>1, BecomesAllows
    <2> QED
        BY <2>1, <2>5, <2>6, QuietSays
<1>5. CASE syn.queued = {}
    <2> DEFINE t == [syn EXCEPT !.queued = {}, !.cancel_due = syn.cancel_due, !.flush = FALSE,
                                !.transfer = syn.transfer]
    <2>1. Becomes([syn EXCEPT !.flush = FALSE]) /\ UNCHANGED sensor
        BY <1>5 DEF CriticalFlush
    <2>2. [syn EXCEPT !.flush = FALSE] = t
        BY <1>1, <1>5 DEF Data
    <2>3. {} \in Queues
        BY DEF Queues
    <2>4. Base(t) /\ Phase(t) /\ Calm(syn, t)
        BY <1>1, <1>2, <1>5, <2>3, RequestsChange
    <2> HIDE DEF t
    <2>5. syn' = t
        BY <2>1, <2>2, BecomesAllows
    <2> QED
        BY <2>1, <2>4, <2>5, QuietSays
<1> QED
    BY <1>2, <1>3, <1>4, <1>5 DEF Queues

LEMMA ReturnInIdleKeeps ==
    ASSUME Orderly, SynInv, ReturnInIdle
    PROVE  /\ SynInv' /\ UNCHANGED sensor /\ syn.ssm = "none"
           /\ syn'.action = "NONE" /\ syn'.queued = {} /\ syn'.cancel_due = FALSE
<1> DEFINE t == [syn EXCEPT
           !.action = "NONE", !.result = "none", !.cancelled = FALSE,
           !.life = IF syn.action # "PROBE" THEN @
                    ELSE IF syn.result = "ok" THEN "ready" ELSE "dead",
           !.open = (@ /\ syn.action # "CLOSE") \/ (syn.action = "OPEN" /\ syn.result = "ok"),
           !.task = IF @ = "at_return" THEN "none" ELSE @]
<1>1. /\ syn.result # "none" /\ ~syn.flush /\ Becomes(t) /\ UNCHANGED sensor
      /\ Base(syn) /\ Phase(syn) /\ Hears(syn, sensor) /\ syn \in Data
    BY DEF ReturnInIdle, SynInv, Base
<1>2. Over(syn)
    BY <1>1, PhaseFacts
<1>3. syn.queued = {} /\ Still(syn)
    BY <1>1, <1>2 DEF Over
<1>4. PICK life \in Lives : life = IF syn.action # "PROBE" THEN syn.life
                                  ELSE IF syn.result = "ok" THEN "ready" ELSE "dead"
  <2>1. syn.life \in Lives
    BY <1>1 DEF Data
  <2> QED
    BY <2>1 DEF Lives
<1>5. PICK open \in BOOLEAN : open = ((syn.open /\ syn.action # "CLOSE")
                                       \/ (syn.action = "OPEN" /\ syn.result = "ok"))
    OBVIOUS
<1>6. PICK task \in Tasks : task = IF syn.task = "at_return" THEN "none" ELSE syn.task
  <2>1. syn.task \in Tasks
    BY <1>1 DEF Data
  <2> QED
    BY <2>1, Names
<1>7. t = [syn EXCEPT !.action = "NONE", !.result = "none", !.cancelled = FALSE,
                      !.life = life, !.open = open, !.task = task]
    BY <1>1, <1>4, <1>5, <1>6 DEF Data
<1> HIDE DEF t
<1>8. t \in Data
  <2>1. "NONE" \in Actions /\ "none" \in Results
    BY Names
  <2> QED
    BY <1>1, <1>7, <2>1 DEF Data
<1>9. /\ t.ssm = syn.ssm /\ t.transfer = syn.transfer /\ t.critical = syn.critical
      /\ t.starting = syn.starting /\ t.on_removal = syn.on_removal
      /\ t.suspended = syn.suspended /\ t.delay_error = syn.delay_error
      /\ t.action = "NONE" /\ t.result = "none" /\ t.queued = {} /\ t.flush = FALSE
      /\ t.cancel_due = syn.cancel_due /\ t.is_suspended = syn.is_suspended
      /\ t.callback = syn.callback /\ t.task = task
    BY <1>1, <1>3, <1>7 DEF Data
<1>10. t.cancel_due = FALSE
    BY <1>1, <1>8, <1>9 DEF Base, Data
<1>11. task # "at_return" /\ task # "suspend" /\ task # "resume"
    BY <1>1, <1>3, <1>6 DEF Base, Still
<1>12. Base(t)
    BY <1>3, <1>8, <1>9, <1>10, <1>11 DEF Base, Still
<1>13. Idle(t)
    BY <1>3, <1>9 DEF Idle, Still
<1>14. Hears(t, sensor)
    BY <1>1, <1>3, <1>9 DEF Hears, Still
<1>15. syn' = t
    BY <1>1, BecomesAllows
<1> QED
    BY <1>1, <1>3, <1>9, <1>10, <1>12, <1>13, <1>14, <1>15 DEF SynInv, Phase, Still

\* The start of an operation: what the state has of the last one
Entered(act) == [syn EXCEPT !.action = act, !.cancelled = FALSE, !.report = "none",
                            !.progress = 0]

CanStart(act) == SynInv /\ Idle(syn) /\ ~syn.is_suspended /\ act \in Operations

LEMMA EnteredFacts ==
    ASSUME NEW act, CanStart(act)
    PROVE  LET s == Entered(act)
           IN  /\ s \in Data /\ s.action = act /\ s.action # "NONE" /\ s.result = "none"
               /\ s.report = "none" /\ s.ssm = "none" /\ s.transfer = "none" /\ s.critical = 0
               /\ s.starting = FALSE /\ s.on_removal = FALSE /\ s.suspended = FALSE
               /\ s.delay_error = "none" /\ s.queued = {} /\ s.flush = FALSE
               /\ s.is_suspended = FALSE /\ s.task = "none" /\ s.cancel_due = FALSE
               /\ s.cancelled = FALSE /\ s.progress = 0 /\ s.bad = GallerySize /\ s.pending = "none"
<1> DEFINE s == Entered(act)
<1>1. syn \in Data /\ Base(syn) /\ Idle(syn) /\ ~syn.is_suspended /\ act \in Operations
    BY DEF CanStart, SynInv, Base
<1>2. act \in Actions /\ "none" \in Reports /\ act # "NONE"
    BY <1>1, Names DEF Operations, Long, Short, Matching
<1>3. s \in Data
    BY <1>1, <1>2 DEF Entered, Data
<1>4. /\ s.action = act /\ s.result = syn.result
      /\ s.report = "none" /\ s.ssm = syn.ssm /\ s.transfer = syn.transfer
      /\ s.critical = syn.critical
      /\ s.starting = syn.starting /\ s.on_removal = syn.on_removal /\ s.suspended = syn.suspended
      /\ s.delay_error = syn.delay_error /\ s.queued = syn.queued /\ s.flush = syn.flush
      /\ s.is_suspended = syn.is_suspended /\ s.task = syn.task /\ s.cancel_due = syn.cancel_due
      /\ s.cancelled = FALSE /\ s.progress = 0 /\ s.bad = GallerySize /\ s.pending = "none"
    BY <1>1 DEF Entered, Data
<1>5. syn.task = "none"
  <2>1. syn.task \in Tasks
    BY <1>1 DEF Data
  <2> QED
    BY <1>1, <2>1, Names DEF Base, Idle, Still
<1>6. /\ syn.starting = FALSE /\ syn.on_removal = FALSE /\ syn.suspended = FALSE
      /\ syn.flush = FALSE /\ syn.is_suspended = FALSE /\ syn.cancel_due = FALSE
    BY <1>1 DEF Data, Base, Idle, Still
<1> QED
    BY <1>1, <1>2, <1>3, <1>4, <1>5, <1>6 DEF Idle, Still

\* An operation that ends in its start
EndsAtOnce(act, t, report, result) ==
    t = [Entered(act) EXCEPT !.report = report, !.result = result, !.cancel_due = FALSE]

\* An operation that sends its command
Begins(act, t, starting, idx) ==
    t = [Entered(act) EXCEPT !.starting = starting,
                             !.critical = 1 + One(starting) + One(act = "DELETE"),
                             !.flush = FALSE, !.callback = act, !.id_idx = idx,
                             !.ssm = "SEND_PENDING", !.transfer = "command"]

\* What is new when an operation has started
Fresh(t) ==
    /\ t.cancelled = FALSE /\ t.cancel_due = FALSE /\ t.queued = {} /\ t.progress = 0
    /\ t.result \in {"none", "error", "no_match"} /\ t.report \in {"none", "no_match"}

LEMMA EndsAtOnceStarts ==
    ASSUME NEW act, CanStart(act), NEW t, NEW report \in {"none", "no_match"},
           NEW result \in {"error", "no_match"}, EndsAtOnce(act, t, report, result)
    PROVE  Base(t) /\ Phase(t) /\ Hears(t, sensor) /\ Fresh(t)
<1> DEFINE s == Entered(act)
<1>1. /\ s \in Data /\ s.action # "NONE" /\ s.ssm = "none" /\ s.transfer = "none" /\ s.critical = 0
      /\ s.starting = FALSE /\ s.on_removal = FALSE /\ s.suspended = FALSE
      /\ s.delay_error = "none" /\ s.queued = {} /\ s.is_suspended = FALSE /\ s.task = "none"
      /\ s.cancelled = FALSE /\ s.progress = 0
    BY EnteredFacts
<1>2. t = [s EXCEPT !.report = report, !.result = result, !.cancel_due = FALSE]
    BY DEF EndsAtOnce
<1> HIDE DEF s
<1>3. report \in Reports /\ result \in Results
    BY Names
<1>4. t \in Data
    BY <1>1, <1>2, <1>3 DEF Data
<1>5. /\ t.ssm = s.ssm /\ t.transfer = s.transfer /\ t.critical = s.critical
      /\ t.starting = s.starting /\ t.on_removal = s.on_removal /\ t.suspended = s.suspended
      /\ t.delay_error = s.delay_error /\ t.action = s.action /\ t.result = result
      /\ t.report = report /\ t.queued = s.queued /\ t.is_suspended = s.is_suspended
      /\ t.task = s.task /\ t.cancel_due = FALSE /\ t.cancelled = s.cancelled
      /\ t.progress = s.progress
    BY <1>1, <1>2 DEF Data
<1>6. Base(t)
    BY <1>1, <1>4, <1>5 DEF Base
<1>7. Over(t)
    BY <1>1, <1>5 DEF Over, Still
<1>8. sensor \in Sensors /\ sensor.op = "none"
    BY DEF CanStart, SynInv, Hears, Idle, Still
<1>9. Hears(t, sensor)
    BY <1>1, <1>5, <1>8 DEF Hears
<1>10. Fresh(t)
    BY <1>1, <1>5 DEF Fresh
<1> QED
    BY <1>6, <1>7, <1>9, <1>10 DEF Phase

LEMMA BeginsStarts ==
    ASSUME NEW act, CanStart(act), NEW t, NEW starting \in BOOLEAN, NEW idx \in Nat,
           Begins(act, t, starting, idx), starting => act \in Long,
           act = "IDENTIFY" => idx \in 1..GallerySize
    PROVE  Base(t) /\ Phase(t) /\ Hears(t, sensor) /\ Fresh(t)
<1> DEFINE s == Entered(act)
<1>1. /\ s \in Data /\ s.action = act /\ s.action # "NONE" /\ s.result = "none" /\ s.report = "none"
      /\ s.on_removal = FALSE /\ s.suspended = FALSE
      /\ s.delay_error = "none" /\ s.queued = {} /\ s.is_suspended = FALSE /\ s.task = "none"
      /\ s.cancelled = FALSE /\ s.progress = 0 /\ s.cancel_due = FALSE
    BY EnteredFacts
<1>2. PICK c \in Nat : c = 1 + One(starting) + One(act = "DELETE")
    BY DEF One
<1>3. t = [s EXCEPT !.starting = starting, !.critical = c,
                    !.flush = FALSE, !.callback = act, !.id_idx = idx,
                    !.ssm = "SEND_PENDING", !.transfer = "command"]
    BY <1>2 DEF Begins
<1> HIDE DEF s
<1>4. act \in Operations /\ act \in CallbackNames /\ "SEND_PENDING" \in SsmStates /\ "command" \in Transferring
    BY Names DEF CanStart
<1>5. t \in Data
    BY <1>1, <1>3, <1>4 DEF Data
<1>6. /\ t.ssm = "SEND_PENDING" /\ t.transfer = "command" /\ t.critical = c /\ t.flush = FALSE
      /\ t.starting = starting /\ t.on_removal = s.on_removal /\ t.suspended = s.suspended
      /\ t.delay_error = s.delay_error /\ t.action = s.action /\ t.result = s.result
      /\ t.report = s.report /\ t.queued = s.queued /\ t.is_suspended = s.is_suspended
      /\ t.task = s.task /\ t.cancel_due = s.cancel_due /\ t.cancelled = s.cancelled
      /\ t.progress = s.progress /\ t.callback = act /\ t.id_idx = idx
    BY <1>1, <1>3 DEF Data
<1>7. Base(t)
    BY <1>1, <1>5, <1>6 DEF Base
<1>8. t.critical = Sections(t) + 1
    BY <1>1, <1>2, <1>6 DEF Sections, One
<1>9. Busy(t) /\ Removal(t)
    BY <1>1, <1>6, <1>7, <1>8 DEF Busy, Running, Removal
<1>10. Talks(t)
    BY <1>1, <1>6, <1>9 DEF Talks
<1>11. sensor \in Sensors /\ sensor.op = "none"
    BY DEF CanStart, SynInv, Hears, Idle, Still
<1>12. Hears(t, sensor)
    BY <1>1, <1>6, <1>11 DEF Hears
<1>13. Fresh(t)
    BY <1>1, <1>6 DEF Fresh
<1> QED
    BY <1>7, <1>10, <1>12, <1>13 DEF Phase

StartsAs(act, t) ==
    \/ \E report \in {"none", "no_match"}, result \in {"error", "no_match"} :
           EndsAtOnce(act, t, report, result)
    \/ \E starting \in BOOLEAN, idx \in Nat :
           /\ Begins(act, t, starting, idx)
           /\ starting => act \in Long
           /\ act = "IDENTIFY" => idx \in 1..GallerySize

LEMMA CompletesAtOnce ==
    ASSUME NEW act, CanStart(act)
    PROVE  StartsAs(act, Complete(Entered(act), act, "error"))
<1> DEFINE s == Entered(act)
<1>1. s \in Data /\ s.action = act /\ s.result = "none" /\ s.report = "none"
    BY EnteredFacts
<1>2. [s EXCEPT !.report = "none", !.result = "error", !.cancel_due = FALSE]
        = [s EXCEPT !.result = "error", !.cancel_due = FALSE]
    BY <1>1 DEF Data
<1> HIDE DEF s
<1>3. Outcome(s, "error") = "error"
    BY DEF Outcome
<1>4. Complete(s, act, "error") = [s EXCEPT !.result = "error", !.cancel_due = FALSE]
    BY <1>1, <1>3, CompleteIs
<1>5. EndsAtOnce(act, Complete(s, act, "error"), "none", "error")
    BY <1>2, <1>4 DEF EndsAtOnce, s
<1> QED
    BY <1>5 DEF StartsAs, s

\* The command is sent in the section of the machine, the device in another one or not.
LEMMA SendsCommand ==
    ASSUME NEW act, CanStart(act), NEW starting \in BOOLEAN, NEW s, NEW idx \in Nat,
           s = [Entered(act) EXCEPT !.starting = starting, !.flush = FALSE, !.id_idx = idx,
                                    !.critical = One(starting) + One(act = "DELETE")],
           starting => act \in Long
    PROVE  Begins(act, SensorCmd(s, "command", act), starting, idx)
<1> DEFINE e == Entered(act)
<1>1. /\ e \in Data /\ e.action = act /\ e.action # "NONE" /\ e.ssm = "none"
    BY EnteredFacts
<1>2. PICK c \in Nat : c = One(starting) + One(act = "DELETE")
    BY DEF One
<1>3. s = [e EXCEPT !.starting = starting, !.flush = FALSE, !.id_idx = idx, !.critical = c]
    BY <1>2
<1> HIDE DEF e
<1>4. s \in Data /\ s.action # "NONE" /\ s.ssm = "none" /\ s.critical = c
  <2> DEFINE w == [e EXCEPT !.starting = starting, !.flush = FALSE, !.id_idx = idx,
                            !.critical = c]
  <2>1. w \in Data
    BY <1>1 DEF Data
  <2>2. w.action = e.action /\ w.ssm = e.ssm /\ w.critical = c
    BY <1>1 DEF Data
  <2> HIDE DEF w
  <2>3. s = w
    BY <1>3 DEF w
  <2> QED
    BY <1>1, <2>1, <2>2, <2>3
<1>5. act \in Operations
    BY DEF CanStart
<1>6. SensorCmd(s, "command", act)
        = [s EXCEPT !.critical = c + 1, !.flush = FALSE, !.callback = act,
                    !.ssm = "SEND_PENDING", !.transfer = "command"]
    BY <1>4, <1>5, SensorCmdStarts
<1>7. [s EXCEPT !.critical = c + 1, !.flush = FALSE, !.callback = act,
                !.ssm = "SEND_PENDING", !.transfer = "command"]
        = [e EXCEPT !.starting = starting, !.critical = c + 1,
                    !.flush = FALSE, !.callback = act, !.id_idx = idx,
                    !.ssm = "SEND_PENDING", !.transfer = "command"]
    BY <1>1, <1>3 DEF Data
<1>8. c + 1 = 1 + One(starting) + One(act = "DELETE")
    BY <1>2 DEF One
<1> QED
    BY <1>6, <1>7, <1>8 DEF Begins, e

LEMMA StartingIs ==
    ASSUME NEW act, CanStart(act), act \in Long
    PROVE  Starting(Entered(act)) = [Entered(act) EXCEPT !.starting = TRUE, !.critical = 1,
                                                         !.flush = FALSE]
<1> DEFINE e == Entered(act)
           u == [e EXCEPT !.starting = TRUE]
<1>1. e \in Data /\ e.action = act /\ e.action # "NONE" /\ e.critical = 0
    BY EnteredFacts
<1> HIDE DEF e
<1>2. u \in Data /\ u.action # "NONE" /\ u.critical = 0
    BY <1>1 DEF Data
<1>3. [u EXCEPT !.critical = 1, !.flush = FALSE] = [e EXCEPT !.starting = TRUE, !.critical = 1,
                !.flush = FALSE]
    BY <1>1 DEF Data
<1>4. Starting(e) = Enter(u)
    BY DEF Starting
<1> HIDE DEF u
<1>5. u.critical + 1 = 1
    BY <1>2
<1>6. Enter(u) = [u EXCEPT !.critical = 1, !.flush = FALSE]
    BY <1>2, <1>5, EnterIs
<1> QED
    BY <1>3, <1>4, <1>6 DEF e

LEMMA LongSends ==
    ASSUME NEW act, CanStart(act), act \in {"VERIFY", "ENROLL"}
    PROVE  StartsAs(act, SensorCmd(Starting(Entered(act)), "command", act))
<1> DEFINE e == Entered(act)
           s == Starting(e)
<1>1. e \in Data /\ e.id_idx \in Nat
  <2>1. e \in Data
    BY EnteredFacts
  <2> HIDE DEF e
  <2> QED
    BY <2>1 DEF Data
<1>2. act \in Long /\ act # "IDENTIFY"
    BY DEF Long, Matching
<1>3. s = [e EXCEPT !.starting = TRUE, !.critical = 1, !.flush = FALSE]
    BY <1>2, StartingIs
<1>4. One(TRUE) + One(act = "DELETE") = 1
    BY DEF One
<1>5. s = [e EXCEPT !.starting = TRUE, !.flush = FALSE, !.id_idx = e.id_idx,
                    !.critical = One(TRUE) + One(act = "DELETE")]
  <2> HIDE DEF e, s
  <2> QED
    BY <1>1, <1>3, <1>4 DEF Data
<1>6. Begins(act, SensorCmd(s, "command", act), TRUE, e.id_idx)
    BY <1>1, <1>2, <1>5, SendsCommand
<1> HIDE DEF e, s
<1>7. StartsAs(act, SensorCmd(s, "command", act))
    BY <1>1, <1>2, <1>6 DEF StartsAs
<1> QED
    BY <1>7 DEF s, e

LEMMA ShortSends ==
    ASSUME NEW act, CanStart(act), act \in Short
    PROVE  StartsAs(act, SensorCmd(IF act = "DELETE" THEN Enter(Entered(act)) ELSE Entered(act),
                                   "command", act))
<1> DEFINE e == Entered(act)
           s == IF act = "DELETE" THEN Enter(e) ELSE e
<1>1. e \in Data /\ e.action # "NONE" /\ e.critical = 0 /\ e.starting = FALSE /\ e.flush = FALSE
    BY EnteredFacts
<1> HIDE DEF e
<1>2. e.id_idx \in Nat
    BY <1>1 DEF Data
<1>3. act # "IDENTIFY"
    BY DEF Short
<1>4. s = [e EXCEPT !.starting = FALSE, !.flush = FALSE, !.id_idx = e.id_idx,
                    !.critical = One(FALSE) + One(act = "DELETE")]
  <2>1. CASE act = "DELETE"
    <3>1. e.critical + 1 = 1 /\ One(FALSE) + One(act = "DELETE") = 1
        BY <1>1, <2>1 DEF One
    <3>2. Enter(e) = [e EXCEPT !.critical = 1, !.flush = FALSE]
        BY <1>1, <3>1, EnterIs
    <3>3. [e EXCEPT !.critical = 1, !.flush = FALSE]
            = [e EXCEPT !.starting = FALSE, !.flush = FALSE, !.id_idx = e.id_idx, !.critical = 1]
        BY <1>1 DEF Data
    <3> QED
        BY <2>1, <3>1, <3>2, <3>3
  <2>2. CASE act # "DELETE"
    <3>1. One(FALSE) + One(act = "DELETE") = 0
        BY <2>2 DEF One
    <3>2. e = [e EXCEPT !.starting = FALSE, !.flush = FALSE, !.id_idx = e.id_idx, !.critical = 0]
        BY <1>1 DEF Data
    <3> QED
        BY <2>2, <3>1, <3>2
  <2> QED
    BY <2>1, <2>2
<1> HIDE DEF s
<1>5. Begins(act, SensorCmd(s, "command", act), FALSE, e.id_idx)
    BY <1>2, <1>4, SendsCommand DEF e
<1>6. StartsAs(act, SensorCmd(s, "command", act))
    BY <1>2, <1>3, <1>5 DEF StartsAs
<1> QED
    BY <1>6 DEF s, e

LEMMA IdentifySends ==
    ASSUME Orderly, CanStart("IDENTIFY"), NEW t \in StartIdentify(Entered("IDENTIFY"))
    PROVE  StartsAs("IDENTIFY", t)
<1> DEFINE e == Entered("IDENTIFY")
           s == [Starting(e) EXCEPT !.id_idx = 0, !.bad = GallerySize]
           u == [e EXCEPT !.starting = TRUE, !.flush = FALSE, !.id_idx = 0, !.critical = 1]
<1>1. /\ e \in Data /\ e.action = "IDENTIFY" /\ e.action # "NONE" /\ e.result = "none" /\ e.report = "none"
      /\ e.bad = GallerySize
    BY EnteredFacts
<1>2. CASE t = Complete(Report(e, "no_match"), "IDENTIFY", "none")
    <2> DEFINE v == [e EXCEPT !.report = "no_match"]
    <2> HIDE DEF e
    <2>1. Report(e, "no_match") = v
        BY <1>1 DEF Report
    <2>2. v \in Data /\ v.action = "IDENTIFY" /\ v.result = "none" /\ v.report = "no_match"
        <3>1. "no_match" \in Reports
            BY Names
        <3> QED
            BY <1>1, <3>1 DEF Data
    <2>3. [v EXCEPT !.result = "no_match", !.cancel_due = FALSE]
            = [e EXCEPT !.report = "no_match", !.result = "no_match", !.cancel_due = FALSE]
        BY <1>1 DEF Data
    <2> HIDE DEF v
    <2>4. Outcome(v, "none") = "no_match"
        BY <2>2 DEF Outcome, Matching
    <2>5. Complete(v, "IDENTIFY", "none") = [v EXCEPT !.result = "no_match", !.cancel_due = FALSE]
        <3>1. Complete(v, v.action, "none") = [v EXCEPT !.result = Outcome(v, "none"),
                                                        !.cancel_due = FALSE]
            BY <2>2, CompleteIs
        <3> QED
            BY <2>2, <2>4, <3>1
    <2>6. EndsAtOnce("IDENTIFY", t, "no_match", "no_match")
        BY <1>2, <2>1, <2>3, <2>5 DEF EndsAtOnce, e
    <2> QED
        BY <2>6 DEF StartsAs
<1>3. CASE t # Complete(Report(e, "no_match"), "IDENTIFY", "none")
    <2>1. t = ComposeIdentify(s)
        BY <1>3 DEF StartIdentify, Orderly
    <2>2. Starting(e) = [e EXCEPT !.starting = TRUE, !.critical = 1, !.flush = FALSE]
        BY StartingIs DEF Long, Matching
    <2> HIDE DEF e
    <2>3. [[e EXCEPT !.starting = TRUE, !.critical = 1, !.flush = FALSE] EXCEPT !.id_idx = 0,
                     !.bad = GallerySize] = u
        BY <1>1 DEF Data
    <2>4. s = u
        BY <2>2, <2>3
    <2>5. u.id_idx = 0 /\ u.bad = GallerySize
        BY <1>1 DEF Data
    <2> HIDE DEF s, u
    <2>6. ~(0 >= GallerySize) /\ 0 # GallerySize
        BY GallerySizeAssumption
    <2>7. t = [SensorCmd(u, "command", "IDENTIFY") EXCEPT !.id_idx = @ + 1]
        BY <2>1, <2>4, <2>5, <2>6 DEF ComposeIdentify
    <2>8. One(TRUE) + One("IDENTIFY" = "DELETE") = 1
        BY DEF One
    <2>9. Begins("IDENTIFY", SensorCmd(u, "command", "IDENTIFY"), TRUE, 0)
        BY <2>8, SendsCommand DEF u, e, Long, Matching
    <2>10. Begins("IDENTIFY", t, TRUE, 1)
        <3> DEFINE w == SensorCmd(u, "command", "IDENTIFY")
        <3>1. w = [e EXCEPT !.starting = TRUE,
                            !.critical = 1 + One(TRUE) + One("IDENTIFY" = "DELETE"),
                             !.flush = FALSE, !.callback = "IDENTIFY", !.id_idx = 0,
                             !.ssm = "SEND_PENDING", !.transfer = "command"]
            BY <2>9 DEF Begins, e
        <3> HIDE DEF w
        <3>2. t = [w EXCEPT !.id_idx = w.id_idx + 1]
            BY <2>7 DEF w
        <3>3. w.id_idx + 1 = 1
            BY <1>1, <3>1 DEF Data
        <3>4. [w EXCEPT !.id_idx = 1]
                = [e EXCEPT !.starting = TRUE,
                            !.critical = 1 + One(TRUE) + One("IDENTIFY" = "DELETE"),
                             !.flush = FALSE, !.callback = "IDENTIFY", !.id_idx = 1,
                             !.ssm = "SEND_PENDING", !.transfer = "command"]
            BY <1>1, <3>1 DEF Data
        <3> QED
            BY <3>2, <3>3, <3>4 DEF Begins, e
    <2>11. 1 \in 1..GallerySize /\ 1 \in Nat /\ "IDENTIFY" \in Long
        BY GallerySizeAssumption DEF Long, Matching
    <2> QED
        BY <2>10, <2>11 DEF StartsAs
<1> QED
    BY <1>2, <1>3

LEMMA VfuncStarts ==
    ASSUME Orderly, NEW act, CanStart(act), NEW t \in Vfunc(Entered(act), act)
    PROVE  StartsAs(act, t)
<1> DEFINE e == Entered(act)
<1>1. StartsAs(act, Complete(e, act, "error"))
    BY CompletesAtOnce
<1>2. act \in {"VERIFY", "ENROLL"} => StartsAs(act, SensorCmd(Starting(e), "command", act))
    BY LongSends
<1>3. act \in Short => StartsAs(act, SensorCmd(IF act = "DELETE" THEN Enter(e) ELSE e, "command", act))
    BY ShortSends
<1> HIDE DEF e
<1>4. CASE act \in {"PROBE", "OPEN"}
    <2>1. t = Complete(e, act, "error") \/ t = SensorCmd(e, "command", act)
        BY <1>4 DEF Vfunc, ProbeOrOpen, e
    <2>2. act # "DELETE" /\ act \in Short
        BY <1>4 DEF Short
    <2> QED
        BY <1>1, <1>3, <2>1, <2>2
<1>5. CASE act \in {"VERIFY", "ENROLL"}
    <2>1. t = Complete(e, act, "error") \/ t = SensorCmd(Starting(e), "command", act)
        BY <1>5 DEF Vfunc, e
    <2> QED
        BY <1>1, <1>2, <1>5, <2>1
<1>6. CASE act = "IDENTIFY"
    <2>1. t \in StartIdentify(Entered("IDENTIFY"))
        BY <1>6 DEF Vfunc
    <2> QED
        BY <1>6, <2>1, IdentifySends
<1>7. CASE act = "DELETE"
    <2>1. t = Complete(e, act, "error") \/ t = SensorCmd(Enter(e), "command", act)
        BY <1>7 DEF Vfunc, e
    <2>2. act \in Short
        BY <1>7 DEF Short
    <2> QED
        BY <1>1, <1>3, <1>7, <2>1, <2>2
<1>8. CASE act \in {"CLEAR_STORAGE", "CLOSE"}
    <2>1. t = SensorCmd(e, "command", act)
        BY <1>8 DEF Vfunc, e
    <2>2. act # "DELETE" /\ act \in Short
        BY <1>8 DEF Short
    <2> QED
        BY <1>3, <2>1, <2>2
<1> QED
    BY <1>4, <1>5, <1>6, <1>7, <1>8 DEF CanStart, Operations, Long, Short, Matching

LEMMA StartKeeps ==
    ASSUME Orderly, SynInv, NEW act \in Long \union Short, Start(act)
    PROVE  SynInv' /\ UNCHANGED sensor /\ Fresh(syn') /\ syn.ssm = "none"
<1>1. syn.action = "NONE" /\ ~syn.is_suspended /\ UNCHANGED sensor
    BY DEF Start
<1>2. PICK t \in Vfunc(Entered(act), act) : Becomes(t)
    BY DEF Start, Entered
<1>3. Idle(syn)
    BY <1>1, PhaseFacts DEF SynInv
<1>4. CanStart(act)
    BY <1>1, <1>3 DEF CanStart, Operations
<1>5. StartsAs(act, t)
    BY <1>2, <1>4, VfuncStarts
<1>6. Base(t) /\ Phase(t) /\ Hears(t, sensor) /\ Fresh(t)
  <2>1. CASE \E report \in {"none", "no_match"}, result \in {"error", "no_match"} :
                 EndsAtOnce(act, t, report, result)
    BY <1>4, <2>1, EndsAtOnceStarts
  <2>2. CASE \E starting \in BOOLEAN, idx \in Nat :
                 /\ Begins(act, t, starting, idx)
                 /\ starting => act \in Long
                 /\ act = "IDENTIFY" => idx \in 1..GallerySize
    BY <1>4, <2>2, BeginsStarts
  <2> QED
    BY <1>5, <2>1, <2>2 DEF StartsAs
<1>7. syn' = t
    BY <1>2, BecomesAllows
<1> QED
    BY <1>1, <1>3, <1>6, <1>7 DEF SynInv, Idle, Still

-----------------------------------------------------------------------------
(* The steps of the transfers *)

\* A step of the machine that neither begins nor ends anything, and says nothing new
MovesOn ==
    /\ Alike(syn, syn')
    /\ syn'.ssm # "none" /\ syn'.transfer # "command" /\ syn.ssm # "none" /\ syn.result = "none"

LEMMA DispatchedTalks ==
    ASSUME SynInv, NEW transfer \in {"command", "next_user", "cancel", "async", "read"},
           Dispatched(transfer)
    PROVE  /\ Talks(syn) /\ syn.transfer = transfer /\ Busy(syn) /\ Removal(syn) /\ syn \in Data
           /\ syn.ssm = CASE transfer = "read" -> "GET_RESP" [] transfer = "async" -> "SEND_ASYNC"
                          [] OTHER -> "SEND_PENDING"
           /\ transfer \in {"command", "next_user", "cancel"} => ~syn.on_removal
           /\ Hears(syn, sensor) /\ sensor \in Sensors /\ syn.ssm # "none"
<1>1. syn.transfer = transfer
    BY DEF Dispatched
<1>2. Talks(syn)
    BY <1>1 DEF SynInv, Phase, Idle, Over, Still, Waits, Sleeps
<1> QED
    BY <1>1, <1>2 DEF SynInv, Talks, Busy, Base, Hears

\* Something was sent, and the answer is read.
LEMMA ReadsNext ==
    ASSUME Orderly, SynInv, NEW transfer \in {"command", "next_user", "cancel", "async"},
           Dispatched(transfer), Becomes(GetResp(syn))
    PROVE  Base(syn') /\ Phase(syn') /\ MovesOn /\ syn'.transfer = "read"
<1> DEFINE t == [syn EXCEPT !.ssm = "GET_RESP", !.transfer = "read"]
<1>1. Talks(syn) /\ Busy(syn) /\ Removal(syn) /\ syn.ssm # "none"
    BY DispatchedTalks
<1>2. IsTalking(syn, t, "GET_RESP", "read")
    BY <1>1, TalksAlike
<1>3. syn' = t
    BY BecomesAllows DEF GetResp
<1> HIDE DEF t
<1> QED
    BY <1>1, <1>2, <1>3 DEF IsTalking, Phase, MovesOn, Busy, Running

LEMMA CommandSentKeeps ==
    ASSUME Orderly, SynInv, CommandSent
    PROVE  SynInv' /\ MovesOn /\ syn.report = "none"
<1>1. /\ Dispatched("command") /\ Becomes(GetResp(syn))
      /\ sensor' = [sensor EXCEPT !.op = syn.callback, !.ready = FALSE, !.percent = 0,
                                  !.verdict = "none"]
    BY DEF CommandSent
<1>2. Base(syn') /\ Phase(syn') /\ MovesOn /\ syn'.transfer = "read"
    BY <1>1, ReadsNext
<1>3. Busy(syn) /\ Removal(syn) /\ ~syn.on_removal /\ sensor \in Sensors /\ syn.ssm # "none"
    BY <1>1, DispatchedTalks
<1>4. syn.callback \in Operations /\ syn.delay_error = "none" /\ syn.report = "none"
    BY <1>3, BusyFacts DEF Removal
<1>5. PICK t, x : t = syn' /\ x = sensor'
    OBVIOUS
<1>6. Alike(syn, t) /\ t.ssm # "none" /\ t.transfer = "read"
    BY <1>2, <1>5 DEF MovesOn
<1>7. x \in Sensors /\ x.op = syn.callback
  <2>1. x = [sensor EXCEPT !.op = syn.callback, !.ready = FALSE, !.percent = 0,
                           !.verdict = "none"]
    BY <1>1, <1>5
  <2>2. syn.callback \in Operations \union {"none", "cancelling"} /\ 0 \in 0..100
        /\ "none" \in Final \union {"none"} /\ FALSE \in BOOLEAN
    BY <1>4
  <2>3. PICK op : op = syn.callback
    OBVIOUS
  <2>4. x = [sensor EXCEPT !.op = op, !.ready = FALSE, !.percent = 0, !.verdict = "none"]
    BY <2>1, <2>3
  <2>5. op \in Operations \union {"none", "cancelling"}
    BY <2>2, <2>3
  <2>6. x.op = op
    BY <1>3, <2>4 DEF Sensors
  <2>7. x \in Sensors
    BY <1>3, <2>2, <2>4, <2>5 DEF Sensors
  <2> QED
    BY <2>3, <2>6, <2>7
<1>8. Hears(t, x)
    BY <1>3, <1>4, <1>6, <1>7 DEF Hears, Alike
<1> QED
    BY <1>2, <1>4, <1>5, <1>8 DEF SynInv

\* What the sensor is heard of stays true when the machine moves on.
LEMMA MovesOnHears ==
    ASSUME SynInv, MovesOn, syn'.transfer # "cancel", UNCHANGED sensor
    PROVE  Hears(syn, sensor)'
<1>1. PICK t : t = syn'
    OBVIOUS
<1>2. Alike(syn, t) /\ t.ssm # "none" /\ t.transfer \notin {"command", "cancel"}
    BY <1>1 DEF MovesOn
<1>3. Hears(t, sensor)
    BY <1>2 DEF SynInv, Hears, Alike
<1> QED
    BY <1>1, <1>3

LEMMA NextUserSentKeeps ==
    ASSUME Orderly, SynInv, NextUserSent
    PROVE  SynInv' /\ MovesOn
<1>1. Dispatched("next_user") /\ Becomes(GetResp(syn)) /\ UNCHANGED sensor
    BY DEF NextUserSent
<1>2. Base(syn') /\ Phase(syn') /\ MovesOn /\ syn'.transfer = "read"
    BY <1>1, ReadsNext
<1>3. Hears(syn, sensor)'
    BY <1>1, <1>2, MovesOnHears
<1> QED
    BY <1>2, <1>3 DEF SynInv

LEMMA AsyncSentKeeps ==
    ASSUME Orderly, SynInv, AsyncSent
    PROVE  SynInv' /\ MovesOn
<1>1. Dispatched("async") /\ Becomes(Restart(syn)) /\ UNCHANGED sensor
    BY DEF AsyncSent
<1>2. Restart(syn) = GetResp(syn)
  <2>1. syn.pending = "none"
    BY <1>1, DispatchedTalks, BusyFacts
  <2> QED
    BY <2>1 DEF Restart, SendPending
<1>3. Base(syn') /\ Phase(syn') /\ MovesOn /\ syn'.transfer = "read"
    BY <1>1, <1>2, ReadsNext
<1>4. Hears(syn, sensor)'
    BY <1>1, <1>3, MovesOnHears
<1> QED
    BY <1>3, <1>4 DEF SynInv

LEMMA CancelSentKeeps ==
    ASSUME Orderly, SynInv, CancelSent
    PROVE  SynInv' /\ MovesOn
<1>1. /\ Dispatched("cancel") /\ Becomes(GetResp(syn))
      /\ sensor' = [sensor EXCEPT !.op = "cancelling"]
    BY DEF CancelSent
<1>2. Base(syn') /\ Phase(syn') /\ MovesOn /\ syn'.transfer = "read"
    BY <1>1, ReadsNext
<1>3. /\ Busy(syn) /\ Removal(syn) /\ ~syn.on_removal /\ sensor \in Sensors /\ syn.ssm # "none"
      /\ syn.transfer = "cancel" /\ Hears(syn, sensor)
    BY <1>1, DispatchedTalks
<1>4. syn.callback \in {"PROBE", "OPEN"} /\ syn.delay_error = "none"
    BY <1>3 DEF Removal, Hears
<1>5. PICK t, x : t = syn' /\ x = sensor'
    OBVIOUS
<1>6. Alike(syn, t) /\ t.ssm # "none" /\ t.transfer = "read"
    BY <1>2, <1>5 DEF MovesOn
<1>7. x \in Sensors /\ x.op = "cancelling"
  <2>1. x = [sensor EXCEPT !.op = "cancelling"]
    BY <1>1, <1>5
  <2> QED
    BY <1>3, <2>1 DEF Sensors
<1>8. Hears(t, x)
    BY <1>3, <1>4, <1>6, <1>7 DEF Hears, Alike
<1> QED
    BY <1>2, <1>5, <1>8 DEF SynInv

LEMMA ReadEventKeeps ==
    ASSUME Orderly, SynInv, ReadEvent
    PROVE  SynInv' /\ MovesOn
<1>1. Dispatched("read") /\ Becomes(Received(syn, "ignored", 0)) /\ UNCHANGED sensor
    BY DEF ReadEvent
<1>2. Received(syn, "ignored", 0) = WaitInterrupt(syn)
    BY DEF Received
<1>3. Busy(syn) /\ Removal(syn) /\ syn.ssm # "none"
    BY <1>1, DispatchedTalks
<1>4. PICK t : t = WaitInterrupt(syn)
    OBVIOUS
<1>5. Base(t) /\ Waits(t) /\ Alike(syn, t)
    BY <1>3, <1>4, WaitsAlike
<1>6. syn' = t
    BY <1>1, <1>2, <1>4, BecomesAllows
<1>7. t.ssm # "none" /\ t.transfer # "command" /\ t.transfer # "cancel" /\ Phase(t)
    BY <1>5 DEF Waits, Phase
<1>8. syn.result = "none"
    BY <1>3 DEF Busy, Running
<1>9. MovesOn
    BY <1>3, <1>5, <1>6, <1>7, <1>8 DEF MovesOn
<1>10. Hears(syn, sensor)'
    BY <1>1, <1>6, <1>7, <1>9, MovesOnHears
<1> QED
    BY <1>5, <1>6, <1>7, <1>9, <1>10 DEF SynInv

\* The machine ends since the sensor cannot be reached.
Fails ==
    /\ Ending(syn, syn', syn.report, "error")
    /\ sensor' = [sensor EXCEPT !.op = "none", !.ready = FALSE, !.cancel = FALSE]
    /\ syn.result = "none" /\ syn.ssm # "none"

LEMMA FailureKeeps ==
    ASSUME Orderly, SynInv, GivesUp, NEW s, Busy(s), Removal(s), Alike(syn, s), syn.ssm # "none",
           Becomes(SsmDone(s, "error"))
    PROVE  SynInv' /\ Fails
<1>1. PICK t, x : t = SsmDone(s, "error") /\ x = sensor'
    OBVIOUS
<1>2. syn' = t /\ Allowed(t)
    BY <1>1, BecomesAllows
<1>3. /\ Ending(s, t, s.report, EndResult(s, "error"))
      /\ EndResult(s, "error") \in {"error", "ok"}
      /\ EndResult(s, "error") = "ok" => s.action \in {"PROBE", "OPEN"}
    BY <1>1, <1>2, MachineFails
<1>4. EndResult(s, "error") = "error"
    BY DEF EndResult, Outcome
<1>5. Ending(syn, t, syn.report, "error")
    BY <1>3, <1>4 DEF Ending, Alike
<1>6. x \in Sensors /\ x.op = "none"
  <2>1. x = [sensor EXCEPT !.op = "none", !.ready = FALSE, !.cancel = FALSE]
    BY <1>1 DEF GivesUp
  <2>2. sensor \in Sensors
    BY DEF SynInv, Hears
  <2> QED
    BY <2>1, <2>2 DEF Sensors
<1>7. Base(t) /\ Over(t)
    BY <1>5 DEF Ending
<1>8. Phase(t) /\ Hears(t, x)
    BY <1>6, <1>7 DEF Phase, Hears, Over, Still
<1>9. syn.result = "none"
  <2>1. s.result = "none"
    BY BusyFacts
  <2> QED
    BY <2>1 DEF Alike
<1> QED
    BY <1>1, <1>2, <1>5, <1>7, <1>8, <1>9 DEF SynInv, Fails, GivesUp

LEMMA AlikeItself ==
    ASSUME NEW s
    PROVE  Alike(s, s)
BY DEF Alike

LEMMA SendFailsKeeps ==
    ASSUME Orderly, SynInv, SendFails
    PROVE  SynInv' /\ Fails
<1>1. PICK transfer \in {"command", "next_user", "cancel", "async"} : transfer = syn.transfer
    BY DEF SendFails
<1>2. Dispatched(transfer) /\ GivesUp /\ Becomes(SsmDone(syn, "error"))
    BY <1>1 DEF SendFails, Dispatched
<1>3. Busy(syn) /\ Removal(syn) /\ syn.ssm # "none"
    BY <1>2, DispatchedTalks
<1> QED
    BY <1>2, <1>3, AlikeItself, FailureKeeps

LEMMA ReadFailsKeeps ==
    ASSUME Orderly, SynInv, ReadFails
    PROVE  SynInv' /\ Fails
<1>1. Dispatched("read") /\ Becomes(SsmDone(syn, "error"))
    BY DEF ReadFails
<1>2. sensor' = [sensor EXCEPT !.op = "none", !.ready = FALSE, !.cancel = FALSE, !.late = "none"]
    BY DEF ReadFails, Orderly
<1>3. sensor \in Sensors
    BY DEF SynInv, Hears
<1>4. GivesUp
  <2>1. [sensor EXCEPT !.op = "none", !.ready = FALSE, !.cancel = FALSE, !.late = "none"]
          = [sensor EXCEPT !.op = "none", !.ready = FALSE, !.cancel = FALSE]
    BY <1>3 DEF Sensors
  <2> QED
    BY <1>2, <2>1 DEF GivesUp
<1>5. Busy(syn) /\ Removal(syn) /\ syn.ssm # "none"
    BY <1>1, DispatchedTalks
<1> QED
    BY <1>1, <1>4, <1>5, AlikeItself, FailureKeeps

\* The machine is told of an interrupt while it waits for one: it is not suspended then.
LEMMA InterruptEnters ==
    ASSUME SynInv, syn.transfer \in Waiting
    PROVE  /\ Base(syn) /\ Waits(syn) /\ ~syn.suspended /\ syn.ssm # "none"
           /\ Busy(Enter(syn)) /\ Removal(Enter(syn)) /\ Enter(syn) \in Data
           /\ Enter(syn) = [syn EXCEPT !.critical = syn.critical + 1, !.flush = FALSE]
           /\ Alike(syn, Enter(syn))
<1>1. Base(syn) /\ Waits(syn)
    BY DEF SynInv, Phase, Waiting, Idle, Over, Still, Talks, Sleeps
<1>2. ~syn.suspended /\ syn.ssm # "none"
    BY <1>1 DEF Waits, Waiting
<1>3. /\ Busy(Enter(syn)) /\ Removal(Enter(syn)) /\ Enter(syn) \in Data
      /\ Enter(syn) = [syn EXCEPT !.critical = syn.critical + 1, !.flush = FALSE]
    BY <1>1, <1>2, WaitsEnters
<1>4. Alike(syn, Enter(syn))
  <2>1. syn \in Data
    BY <1>1 DEF Base
  <2>2. PICK t : t = Enter(syn)
    OBVIOUS
  <2>3. Alike(syn, t)
    BY <1>3, <2>1, <2>2 DEF Alike, Data
  <2> QED
    BY <2>2, <2>3
<1> QED
    BY <1>1, <1>2, <1>3, <1>4

LEMMA InterruptFailsKeeps ==
    ASSUME Orderly, SynInv, InterruptFails
    PROVE  SynInv' /\ Fails
<1>1. syn.transfer \in Waiting /\ GivesUp /\ Becomes(SsmDone(Enter(syn), "error"))
    BY DEF InterruptFails
<1>2. PICK s : s = Enter(syn)
    OBVIOUS
<1>3. Busy(s) /\ Removal(s) /\ Alike(syn, s) /\ syn.ssm # "none"
    BY <1>1, <1>2, InterruptEnters
<1>4. Becomes(SsmDone(s, "error"))
    BY <1>1, <1>2
<1> QED
    BY <1>1, <1>3, <1>4, FailureKeeps

LEMMA InterruptKeeps ==
    ASSUME Orderly, SynInv, Interrupt
    PROVE  SynInv' /\ MovesOn /\ UNCHANGED sensor
<1>1. syn.transfer \in Waiting /\ Becomes(SendAsync(Enter(syn))) /\ UNCHANGED sensor
    BY DEF Interrupt
<1>2. PICK s : s = Enter(syn)
    OBVIOUS
<1>3. Busy(s) /\ Removal(s) /\ Alike(syn, s) /\ syn.ssm # "none"
    BY <1>1, <1>2, InterruptEnters
<1>4. PICK t : t = [s EXCEPT !.ssm = "SEND_ASYNC", !.transfer = "async"]
    OBVIOUS
<1>5. IsTalking(s, t, "SEND_ASYNC", "async")
    BY <1>3, <1>4, TalksAlike
<1>6. syn' = t
    BY <1>1, <1>2, <1>4, BecomesAllows DEF SendAsync
<1>7. Base(t) /\ Phase(t) /\ Alike(syn, t) /\ t.ssm # "none" /\ t.transfer = "async"
  <2>1. Base(t) /\ Talks(t) /\ Alike(s, t) /\ t.ssm = "SEND_ASYNC" /\ t.transfer = "async"
    BY <1>5 DEF IsTalking
  <2> QED
    BY <1>3, <2>1 DEF Phase, Alike
<1>8. syn.result = "none"
  <2>1. s.result = "none"
    BY <1>3, BusyFacts
  <2> QED
    BY <1>3, <2>1 DEF Alike
<1>9. MovesOn
    BY <1>3, <1>6, <1>7, <1>8 DEF MovesOn
<1>10. Hears(syn, sensor)'
    BY <1>1, <1>6, <1>7, <1>9, MovesOnHears
<1> QED
    BY <1>1, <1>6, <1>7, <1>9, <1>10 DEF SynInv

LEMMA InterruptSaysNothingKeeps ==
    ASSUME Orderly, SynInv, InterruptSaysNothing
    PROVE  SynInv' /\ MovesOn /\ UNCHANGED sensor
<1>1. /\ syn.transfer \in Waiting /\ Becomes(QuietInterrupt(syn)) /\ UNCHANGED sensor
      /\ syn.action \notin Matching
    BY DEF InterruptSaysNothing, Orderly, Provokes
<1>2. PICK s, w : s = Enter(syn) /\ w = WaitInterrupt(s)
    OBVIOUS
<1>3. /\ Waits(syn) /\ syn.ssm # "none" /\ syn \in Data /\ Busy(s) /\ Removal(s) /\ Alike(syn, s)
      /\ s \in Data /\ s = [syn EXCEPT !.critical = syn.critical + 1, !.flush = FALSE]
    BY <1>1, <1>2, InterruptEnters DEF Base
<1>4. Base(w) /\ Waits(w) /\ Alike(s, w)
    BY <1>2, <1>3, WaitsAlike
<1>5. s.ssm = "WAIT_INTERRUPT" /\ s.action # "NONE" /\ s.critical # 0 /\ s.critical \in Nat
  <2>1. syn.ssm = "WAIT_INTERRUPT"
    BY <1>3 DEF Waits
  <2>2. s.ssm = syn.ssm
    BY <1>3 DEF Data
  <2>3. s.critical = Sections(s) + 1 /\ s.action # "NONE"
    BY <1>3, BusyFacts
  <2>4. Sections(s) \in Nat
    BY DEF Sections, One
  <2> QED
    BY <2>1, <2>2, <2>3, <2>4
<1>6. PICK t : t = [w EXCEPT !.transfer = "interrupt_bare"]
    OBVIOUS
<1>7. QuietInterrupt(syn) = t
  <2>1. Leave(s) = [s EXCEPT !.critical = s.critical - 1, !.flush = (s.flush \/ s.critical = 1)]
    BY <1>3, <1>5, LeaveIs
  <2>2. w = [s EXCEPT !.critical = s.critical - 1, !.flush = (s.flush \/ s.critical = 1),
                      !.ssm = "WAIT_INTERRUPT",
                      !.transfer = IF s.callback = "PROBE" THEN "interrupt_bare" ELSE "interrupt"]
    BY <1>2, <1>3, <1>5, WaitInterruptIs
  <2>3. PICK c, f, i : c = s.critical - 1 /\ f = (s.flush \/ s.critical = 1)
                       /\ i = IF s.callback = "PROBE" THEN "interrupt_bare" ELSE "interrupt"
    OBVIOUS
  <2>4. [[s EXCEPT !.critical = c, !.flush = f] EXCEPT !.transfer = "interrupt_bare"]
          = [[s EXCEPT !.critical = c, !.flush = f, !.ssm = "WAIT_INTERRUPT", !.transfer = i]
                 EXCEPT !.transfer = "interrupt_bare"]
    BY <1>3, <1>5 DEF Data
  <2>5. QuietInterrupt(syn) = [Leave(s) EXCEPT !.transfer = "interrupt_bare"]
    BY <1>2 DEF QuietInterrupt
  <2> QED
    BY <1>6, <2>1, <2>2, <2>3, <2>4, <2>5
<1>8. syn' = t
    BY <1>1, <1>7, BecomesAllows
<1>9. w \in Data
    BY <1>4 DEF Base
<1>10. t \in Data /\ t.transfer = "interrupt_bare"
  <2>1. "interrupt_bare" \in Transferring
    BY Names
  <2> QED
    BY <1>6, <1>9, <2>1 DEF Data
<1>11. /\ t.ssm = w.ssm /\ t.callback = w.callback /\ t.on_removal = w.on_removal
       /\ t.delay_error = w.delay_error /\ t.suspended = w.suspended /\ t.starting = w.starting
       /\ t.finger = w.finger /\ t.id_idx = w.id_idx /\ t.action = w.action
       /\ t.is_suspended = w.is_suspended /\ t.critical = w.critical /\ t.queued = w.queued
       /\ t.flush = w.flush /\ t.cancelled = w.cancelled /\ t.cancel_due = w.cancel_due
       /\ t.task = w.task /\ t.report = w.report /\ t.result = w.result
       /\ t.stage = w.stage /\ t.progress = w.progress
    BY <1>6, <1>9 DEF Data
<1>12. Alike(syn, t) /\ t.action = syn.action
    BY <1>3, <1>4, <1>11 DEF Alike
<1>13. Base(t)
    BY <1>4, <1>10, <1>11 DEF Base
<1>14. Waits(t)
    BY <1>1, <1>4, <1>10, <1>11, <1>12 DEF Waits, Running, Removal, Sections
<1>15. t.ssm # "none" /\ Phase(t)
    BY <1>14 DEF Waits, Phase
<1>16. syn.result = "none"
    BY <1>3 DEF Waits, Running
<1>17. MovesOn
    BY <1>3, <1>8, <1>10, <1>12, <1>15, <1>16 DEF MovesOn
<1>18. Hears(syn, sensor)'
    BY <1>1, <1>8, <1>10, <1>17, MovesOnHears
<1> QED
    BY <1>1, <1>8, <1>13, <1>15, <1>17, <1>18 DEF SynInv

\* The transfer was cancelled by the user, or to suspend the device.
LEMMA SuspendedSleeps ==
    ASSUME SynInv, syn.transfer = "interrupt_cancelled", syn.suspended
    PROVE  LET t == SuspendedState(Enter(syn))
           IN  Base(t) /\ Sleeps(t) /\ Alike(syn, t)
<1> DEFINE t == SuspendedState(Enter(syn))
<1>1. Base(syn) /\ Waits(syn) /\ syn \in Data
    BY DEF SynInv, Phase, Idle, Over, Still, Talks, Sleeps, Base
<1>2. /\ Running(syn) /\ Removal(syn) /\ syn.action \in Matching /\ ~syn.starting
      /\ ~syn.is_suspended /\ syn.task = "suspend" /\ syn.critical = Sections(syn)
    BY <1>1 DEF Waits
<1>3. syn.critical = 0 /\ syn.action # "NONE" /\ "suspend" \notin syn.queued
    BY <1>1, <1>2 DEF Sections, One, Matching, Base
<1>4. PICK s : s = Enter(syn)
    OBVIOUS
<1>5. s = [syn EXCEPT !.critical = 1, !.flush = FALSE]
  <2>1. Enter(syn) = [syn EXCEPT !.critical = syn.critical + 1, !.flush = FALSE]
    BY <1>1, <1>3, EnterIs
  <2>2. syn.critical + 1 = 1
    BY <1>3
  <2> QED
    BY <1>4, <2>1, <2>2
<1>6. s \in Data /\ s.action # "NONE" /\ s.critical = 1 /\ s.flush = FALSE
  <2>1. 1 \in Nat /\ FALSE \in BOOLEAN
    OBVIOUS
  <2> QED
    BY <1>1, <1>3, <1>5, <2>1 DEF Data
<1>7. PICK l : l = [s EXCEPT !.critical = 0, !.flush = TRUE]
    OBVIOUS
<1>8. Leave(s) = l
  <2>3. s.critical # 0
    BY <1>6
  <2>1. Leave(s) = [s EXCEPT !.critical = s.critical - 1, !.flush = (s.flush \/ s.critical = 1)]
    BY <1>6, <2>3, LeaveIs
  <2>2. s.critical - 1 = 0 /\ (s.flush \/ s.critical = 1) = TRUE
    BY <1>6
  <2> QED
    BY <1>7, <2>1, <2>2
<1>9. PICK u : u = [l EXCEPT !.ssm = "SUSPENDED", !.transfer = "none"]
    OBVIOUS
<1>10. u = [syn EXCEPT !.critical = 0, !.flush = TRUE, !.ssm = "SUSPENDED", !.transfer = "none"]
    BY <1>1, <1>5, <1>7, <1>9 DEF Data
<1>11. u \in Data /\ u.task # "none"
  <2>1. "SUSPENDED" \in SsmStates /\ "none" \in Transferring /\ 0 \in Nat /\ TRUE \in BOOLEAN
    BY Names
  <2> QED
    BY <1>1, <1>2, <1>10, <2>1 DEF Data
<1>12. t = [u EXCEPT !.is_suspended = TRUE, !.task = "none"]
  <2>1. t = SuspendComplete(u, "none")
    BY <1>4, <1>8, <1>9 DEF SuspendedState
  <2> HIDE DEF t
  <2> QED
    BY <1>11, <2>1, SuspendCompleteIs
<1> HIDE DEF t
<1>13. t = [syn EXCEPT !.critical = 0, !.flush = TRUE, !.ssm = "SUSPENDED", !.transfer = "none",
                       !.is_suspended = TRUE, !.task = "none"]
    BY <1>1, <1>10, <1>12 DEF Data
<1>14. t \in Data
  <2>1. "none" \in Tasks /\ TRUE \in BOOLEAN
    BY Names
  <2> QED
    BY <1>11, <1>12, <2>1 DEF Data
<1>15. /\ t.ssm = "SUSPENDED" /\ t.transfer = "none" /\ t.critical = 0 /\ t.flush = TRUE
       /\ t.is_suspended = TRUE /\ t.task = "none"
       /\ t.callback = syn.callback /\ t.on_removal = syn.on_removal
       /\ t.delay_error = syn.delay_error /\ t.suspended = syn.suspended /\ t.starting = syn.starting
       /\ t.finger = syn.finger /\ t.id_idx = syn.id_idx /\ t.action = syn.action
       /\ t.queued = syn.queued /\ t.cancelled = syn.cancelled /\ t.cancel_due = syn.cancel_due
       /\ t.report = syn.report /\ t.result = syn.result
       /\ t.stage = syn.stage /\ t.progress = syn.progress
    BY <1>1, <1>13 DEF Data
<1>16. Base(t)
    BY <1>1, <1>3, <1>14, <1>15 DEF Base
<1>17. Running(t) /\ Removal(t) /\ Alike(syn, t)
    BY <1>2, <1>15 DEF Running, Removal, Alike
<1>18. Sleeps(t)
    BY <1>2, <1>15, <1>17 DEF Sleeps
<1> QED
    BY <1>16, <1>17, <1>18 DEF t

LEMMA InterruptCancelledKeeps ==
    ASSUME Orderly, SynInv, InterruptCancelled
    PROVE  SynInv' /\ MovesOn /\ UNCHANGED sensor
<1>1. syn.transfer = "interrupt_cancelled" /\ Becomes(Interrupted(syn)) /\ UNCHANGED sensor
    BY DEF InterruptCancelled, Dispatched
<1>2. Base(syn) /\ Waits(syn)
    BY <1>1 DEF SynInv, Phase, Idle, Over, Still, Talks, Sleeps
<1>3. syn.ssm # "none" /\ syn.result = "none" /\ syn \in Data
    BY <1>2 DEF Waits, Running, Base
<1>4. PICK t : t = Interrupted(syn)
    OBVIOUS
<1>5. syn' = t
    BY <1>1, <1>4, BecomesAllows
<1>6. Base(t) /\ Phase(t) /\ Alike(syn, t) /\ t.ssm # "none" /\ t.transfer \notin {"command", "cancel"}
  <2>1. CASE syn.suspended
    <3>1. t = SuspendedState(Enter(syn))
        BY <1>4, <2>1 DEF Interrupted
    <3>2. Base(t) /\ Sleeps(t) /\ Alike(syn, t)
        BY <1>1, <2>1, <3>1, SuspendedSleeps
    <3> QED
        BY <3>2 DEF Sleeps, Phase
  <2>2. CASE ~syn.suspended
    <3>1. PICK s : s = Enter(syn)
        OBVIOUS
    <3>2. Busy(s) /\ Removal(s) /\ s = [syn EXCEPT !.critical = syn.critical + 1, !.flush = FALSE]
        BY <1>2, <2>2, <3>1, WaitsEnters
    <3>3. Alike(syn, s)
        BY <1>3, <3>2 DEF Alike, Data
    <3>4. t = [s EXCEPT !.ssm = "GET_RESP", !.transfer = "read"]
        BY <1>4, <2>2, <3>1 DEF Interrupted, GetResp
    <3>5. IsTalking(s, t, "GET_RESP", "read")
        BY <3>2, <3>4, TalksAlike
    <3>6. Base(t) /\ Talks(t) /\ Alike(s, t) /\ t.ssm = "GET_RESP" /\ t.transfer = "read"
        BY <3>5 DEF IsTalking
    <3> QED
        BY <3>3, <3>6 DEF Phase, Alike
  <2> QED
    BY <2>1, <2>2
<1>7. MovesOn
    BY <1>3, <1>5, <1>6 DEF MovesOn
<1>8. Hears(syn, sensor)'
    BY <1>1, <1>5, <1>6, <1>7, MovesOnHears
<1> QED
    BY <1>1, <1>5, <1>6, <1>7, <1>8 DEF SynInv

\* The finger is gone when no command runs.
FingerLeft == UNCHANGED syn /\ sensor' = [sensor EXCEPT !.touching = FALSE]

LEMMA FingerGoneKeeps ==
    ASSUME SynInv, FingerGone
    PROVE  SynInv' /\ FingerLeft
<1>1. FingerLeft
    BY DEF FingerGone, FingerLeft
<1>2. PICK x : x = sensor'
    OBVIOUS
<1>3. x \in Sensors /\ x.op = sensor.op /\ x.verdict = sensor.verdict
  <2>1. sensor \in Sensors
    BY DEF SynInv, Hears
  <2> QED
    BY <1>1, <1>2, <2>1 DEF FingerLeft, Sensors
<1>4. Hears(syn, x)
    BY <1>3 DEF SynInv, Hears
<1> QED
    BY <1>1, <1>2, <1>4 DEF SynInv, FingerLeft

-----------------------------------------------------------------------------
(* What is read *)

LEMMA SaysIs ==
    ASSUME sensor \in Sensors, NEW id, NEW percent \in 0..100, Says(id, percent)
    PROVE  /\ sensor' \in Sensors
           /\ sensor'.op = IF id \in Ends THEN "none" ELSE sensor.op
           /\ sensor'.cancel <=> sensor.cancel /\ id \notin {"cancel_ok", "cancel_fail"}
           /\ sensor'.ready <=> (sensor.ready \/ id = "ready") /\ id \notin Ends
           /\ sensor'.percent = IF id = "percent" THEN percent ELSE sensor.percent
           /\ sensor'.verdict = IF id \in Final THEN id ELSE sensor.verdict
<1>1. sensor.late = "none"
    BY DEF Sensors
<1>2. PICK op, ready, verdict, cancel, touching, p :
          /\ op = IF id \in Ends THEN "none" ELSE sensor.op
          /\ ready = ((sensor.ready \/ id = "ready") /\ id \notin Ends)
          /\ verdict = IF id \in Final THEN id ELSE sensor.verdict
          /\ cancel = (sensor.cancel /\ id \notin {"cancel_ok", "cancel_fail"})
          /\ touching = ((sensor.touching \/ id = "finger_on") /\ id # "finger_off")
          /\ p = IF id = "percent" THEN percent ELSE sensor.percent
    OBVIOUS
<1>3. sensor' = [sensor EXCEPT !.late = "none", !.cancel = cancel, !.op = op, !.ready = ready,
                               !.percent = p, !.touching = touching, !.verdict = verdict]
  <2>1. sensor' = [sensor EXCEPT
            !.late = "none",
            !.cancel = sensor.cancel /\ id \notin {"cancel_ok", "cancel_fail"},
            !.op = IF id \in Ends /\ sensor.late = "none" THEN "none" ELSE sensor.op,
            !.ready = (sensor.ready \/ id = "ready") /\ (id \in Ends => sensor.late # "none"),
            !.percent = IF id = "percent" THEN percent ELSE sensor.percent,
            !.touching = (sensor.touching \/ id = "finger_on") /\ id # "finger_off",
            !.verdict = IF id \in Final /\ sensor.late = "none" THEN id ELSE sensor.verdict]
    BY DEF Says
  <2>2. /\ op = IF id \in Ends /\ sensor.late = "none" THEN "none" ELSE sensor.op
        /\ ready = ((sensor.ready \/ id = "ready") /\ (id \in Ends => sensor.late # "none"))
        /\ verdict = IF id \in Final /\ sensor.late = "none" THEN id ELSE sensor.verdict
    BY <1>1, <1>2
  <2> QED
    BY <1>2, <2>1, <2>2
<1>4. /\ op \in Operations \union {"none", "cancelling"} /\ ready \in BOOLEAN /\ p \in 0..100
      /\ touching \in BOOLEAN /\ cancel \in BOOLEAN /\ verdict \in Final \union {"none"}
    BY <1>2 DEF Sensors
<1>5. sensor' \in Sensors
  <2>1. PICK x : x = sensor'
    OBVIOUS
  <2>2. x = [sensor EXCEPT !.late = "none", !.cancel = cancel, !.op = op, !.ready = ready,
                           !.percent = p, !.touching = touching, !.verdict = verdict]
    BY <1>3, <2>1
  <2>4. x = [op |-> op, ready |-> ready, percent |-> p, touching |-> touching, cancel |-> cancel,
             late |-> "none", verdict |-> verdict]
    BY <2>2 DEF Sensors
  <2>3. x \in Sensors
    BY <1>4, <2>4 DEF Sensors
  <2> QED
    BY <2>1, <2>3
<1>6. /\ sensor'.op = op /\ sensor'.cancel = cancel /\ sensor'.ready = ready
      /\ sensor'.percent = p /\ sensor'.verdict = verdict
    BY <1>3 DEF Sensors
<1> QED
    BY <1>2, <1>5, <1>6

LEMMA MessageFacts ==
    ASSUME Orderly, SynInv, Dispatched("read"), NEW id \in Messages,
           id \notin {"finger_on", "finger_off", "cancel_ok", "cancel_fail"}
    PROVE  /\ Asking(syn) /\ id \in AnswersTo(syn.callback) /\ id \in Answers
           /\ sensor.op = syn.callback
           /\ id = "next_id" => syn.id_idx < GallerySize
<1>1. /\ Busy(syn) /\ Removal(syn) /\ Hears(syn, sensor) /\ sensor \in Sensors /\ syn.ssm # "none"
    BY DispatchedTalks
<1>2. id \in Answers
    BY <1>1 DEF Messages, Sensors, FingerMoves
<1>3. sensor.op \notin {"none", "cancelling"} /\ sensor.op = syn.callback
  <2>1. sensor.op # "cancelling"
    BY <1>2 DEF Answers
  <2>2. sensor.op # "none"
    BY <1>2 DEF Answers
  <2> QED
    BY <1>1, <2>1, <2>2 DEF Hears
<1>4. Asking(syn)
    BY <1>1, <1>3 DEF Asking, Hears
<1>5. /\ id \in AnswersTo(syn.callback)
      /\ id = "next_id" => syn.id_idx < GallerySize
  <2>1. CASE sensor.op = "VERIFY"
    BY <1>2, <1>3, <2>1 DEF Answers, AnswersTo
  <2>2. CASE sensor.op = "IDENTIFY"
    BY <1>2, <1>3, <2>2 DEF Answers, AnswersTo, Orderly
  <2>3. CASE sensor.op = "ENROLL"
    BY <1>2, <1>3, <2>3 DEF Answers, AnswersTo
  <2>4. CASE sensor.op \in {"DELETE", "CLEAR_STORAGE"}
    BY <1>2, <1>3, <2>4 DEF Answers, AnswersTo
  <2>5. CASE sensor.op \in {"PROBE", "OPEN"}
    BY <1>2, <1>3, <2>5 DEF Answers, AnswersTo
  <2>6. CASE sensor.op = "CLOSE"
    BY <1>2, <1>3, <2>6 DEF Answers, AnswersTo
  <2>7. CASE sensor.op \notin {"VERIFY", "IDENTIFY", "ENROLL", "DELETE", "CLEAR_STORAGE", "PROBE",
                               "OPEN", "CLOSE"}
    BY <1>2, <1>3, <2>7 DEF Answers
  <2> QED
    BY <2>1, <2>2, <2>3, <2>4, <2>5, <2>6, <2>7
<1> QED
    BY <1>2, <1>3, <1>4, <1>5

\* What becomes of the machine when it has read id
ReadLeads(id, percent) ==
    \/ /\ id \in {"finger_on", "finger_off"}
       /\ Base(syn') /\ Waits(syn') /\ Alike(syn, syn')
    \/ /\ id = "finger_off" /\ syn.on_removal
       /\ Ending(syn, syn', syn.report,
                 IF syn.delay_error = "none" THEN syn.report ELSE syn.delay_error)
    \/ /\ id \in {"cancel_ok", "cancel_fail"}
       /\ \E result \in {"cancelled", "error", "ok"} :
              /\ Ending(syn, syn', syn.report, result)
              /\ result = "cancelled" => id = "cancel_ok" /\ syn.action \notin {"PROBE", "OPEN"}
              /\ result = "ok" => syn.action \in {"PROBE", "OPEN"}
    \/ /\ Asking(syn) /\ id \in AnswersTo(syn.callback) /\ sensor.op = syn.callback /\ id \in Answers
       /\ AnswerLeads(syn, id, percent, syn')

LEMMA ReadIsLed ==
    ASSUME Orderly, SynInv, Dispatched("read"), NEW id \in Messages, NEW percent \in 0..100,
           Becomes(Received(syn, id, percent))
    PROVE  ReadLeads(id, percent)
<1>1. Talks(syn) /\ Busy(syn) /\ Removal(syn) /\ Hears(syn, sensor) /\ syn.ssm # "none"
    BY DispatchedTalks
<1>2. PICK t : t = Received(syn, id, percent)
    OBVIOUS
<1>3. syn' = t /\ Allowed(t)
    BY <1>2, BecomesAllows
<1>4. CASE id \in {"finger_on", "finger_off"}
  <2>1. t = FingerReport(syn, id)
    BY <1>2, <1>4 DEF Received
  <2>2. \/ Base(t) /\ Waits(t) /\ Alike(syn, t)
        \/ /\ id = "finger_off" /\ syn.on_removal
           /\ Ending(syn, t, syn.report,
                     IF syn.delay_error = "none" THEN syn.report ELSE syn.delay_error)
    BY <1>1, <1>3, <1>4, <2>1, FingerReported
  <2> QED
    BY <1>3, <1>4, <2>2 DEF ReadLeads
<1>5. CASE id \in {"cancel_ok", "cancel_fail"}
  <2>1. PICK error \in {"cancelled", "error"} :
            error = IF id = "cancel_ok" THEN "cancelled" ELSE "error"
    OBVIOUS
  <2>2. t = SsmDone(syn, error)
    BY <1>2, <1>5, <2>1 DEF Received
  <2>3. /\ Ending(syn, t, syn.report, EndResult(syn, error))
        /\ EndResult(syn, error) \in {error, "ok"}
        /\ EndResult(syn, error) = "ok" => syn.action \in {"PROBE", "OPEN"}
    BY <1>1, <1>3, <2>2, MachineFails
  <2>4. EndResult(syn, error) = "cancelled"
            => error = "cancelled" /\ syn.callback \notin {"PROBE", "OPEN"}
    BY <2>1, <2>3 DEF EndResult
  <2>5. syn.callback = syn.action
    BY <1>1, BusyFacts
  <2>6. PICK result : result = EndResult(syn, error)
    OBVIOUS
  <2>7. /\ result \in {"cancelled", "error", "ok"} /\ Ending(syn, t, syn.report, result)
        /\ result = "cancelled" => id = "cancel_ok" /\ syn.action \notin {"PROBE", "OPEN"}
        /\ result = "ok" => syn.action \in {"PROBE", "OPEN"}
    BY <1>5, <2>1, <2>3, <2>4, <2>5, <2>6
  <2> QED
    BY <1>3, <1>5, <2>7 DEF ReadLeads
<1>6. CASE id \notin {"finger_on", "finger_off", "cancel_ok", "cancel_fail"}
  <2>1. /\ Asking(syn) /\ id \in AnswersTo(syn.callback) /\ id \in Answers
        /\ sensor.op = syn.callback
        /\ id = "next_id" => syn.id_idx < GallerySize
    BY <1>6, MessageFacts
  <2>2. id # "ignored"
    BY <2>1 DEF AnswersTo
  <2>3. t = AfterAnswer(Answered(syn, id, percent), id)
    BY <1>2, <1>6, <2>2 DEF Received
  <2>4. Allowed(AfterAnswer(Answered(syn, id, percent), id))
    BY <1>3, <2>3
  <2>5. AnswerLeads(syn, id, percent, t)
    BY <2>1, <2>3, <2>4, ReceivedAnswer
  <2> QED
    BY <1>3, <2>1, <2>5 DEF ReadLeads
<1> QED
    BY <1>4, <1>5, <1>6

LEMMA ReadKeeps ==
    ASSUME Orderly, SynInv, NEW id \in Messages, Read(id)
    PROVE  /\ SynInv'
           /\ \E percent \in Percents :
                  /\ IF id = "percent" THEN percent >= sensor.percent ELSE percent = 0
                  /\ Says(id, percent) /\ ReadLeads(id, percent)
           /\ syn.result = "none" /\ syn.ssm # "none"
<1>1. PICK percent \in Percents :
          /\ IF id = "percent" THEN percent >= sensor.percent ELSE percent = 0
          /\ Says(id, percent) /\ Becomes(Received(syn, id, percent))
    BY DEF Read
<1>2. Dispatched("read")
    BY DEF Read
<1>3. percent \in 0..100
    BY PercentsAssumption
<1>4. ReadLeads(id, percent)
    BY <1>1, <1>2, <1>3, ReadIsLed
<1>5. Hears(syn, sensor) /\ sensor \in Sensors /\ Busy(syn) /\ Removal(syn) /\ syn.ssm # "none"
    BY <1>2, DispatchedTalks
<1>6. syn.result = "none"
    BY <1>5, BusyFacts
<1>7. PICK t, x : t = syn' /\ x = sensor'
    OBVIOUS
<1>8. /\ x \in Sensors
      /\ x.op = IF id \in Ends THEN "none" ELSE sensor.op
      /\ x.verdict = IF id \in Final THEN id ELSE sensor.verdict
    BY <1>1, <1>3, <1>5, <1>7, SaysIs
<1>9. Base(t) /\ Phase(t) /\ Hears(t, x)
  <2>1. CASE id \in {"finger_on", "finger_off"} /\ Base(t) /\ Waits(t) /\ Alike(syn, t)
    <3>1. id \notin Final /\ id \notin Ends
        BY <2>1 DEF Final, Ends
    <3>2. t.ssm # "none" /\ t.transfer \notin {"command", "cancel"} /\ Phase(t)
        BY <2>1 DEF Waits, Phase
    <3>3. Hears(t, x)
        BY <1>5, <1>8, <2>1, <3>1, <3>2 DEF Hears, Alike
    <3> QED
        BY <2>1, <3>2, <3>3
  <2>2. CASE \E report, result : Ending(syn, t, report, result) /\ (syn.on_removal \/ id \in Ends)
    <3>1. Base(t) /\ Over(t)
        BY <2>2 DEF Ending
    <3>2. x.op = "none"
        BY <1>5, <1>8, <2>2 DEF Hears
    <3> QED
        BY <1>8, <3>1, <3>2 DEF Phase, Hears, Over, Still
  <2>3. CASE AnswerLeads(syn, id, percent, t)
    <3>1. /\ Base(t) /\ Phase(t) /\ t.callback = syn.callback
          /\ t.transfer # "command" /\ (t.transfer = "cancel" => t.callback \in {"PROBE", "OPEN"})
          /\ t.ssm = "none" \/ t.transfer = "cancel" \/ t.on_removal => id \in Final
          /\ t.delay_error # "none" => id = "no_record"
        BY <2>3 DEF AnswerLeads
    <3>2. "no_record" \in Final /\ Final \subseteq Ends
        BY DEF Final, Ends
    <3>3. Hears(t, x)
        BY <1>5, <1>8, <3>1, <3>2 DEF Hears
    <3> QED
        BY <3>1, <3>3
  <2>4. {"cancel_ok", "cancel_fail"} \subseteq Ends
    BY DEF Ends
  <2> QED
    BY <1>4, <1>7, <2>1, <2>2, <2>3, <2>4 DEF ReadLeads
<1> QED
    BY <1>1, <1>4, <1>5, <1>6, <1>7, <1>9 DEF SynInv

LEMMA ReadMessageKeeps ==
    ASSUME Orderly, SynInv, ReadMessage
    PROVE  SynInv'
BY ReadKeeps DEF ReadMessage

-----------------------------------------------------------------------------
(* Commands keep their order *)

LEMMA InitIsIdle ==
    ASSUME Init
    PROVE  SynInv
<1>1. syn \in Data
  <2>1. /\ "none" \in SsmStates /\ "none" \in CallbackNames /\ "none" \in Transferring
        /\ "none" \in HeldBack /\ "NONE" \in Actions /\ "none" \in Tasks /\ "none" \in Reports
        /\ "none" \in Results /\ "new" \in Lives /\ {} \in Queues
    BY Names DEF Lives, Queues
  <2>2. GallerySize \in {GallerySize} /\ 0 \in Nat /\ FALSE \in BOOLEAN /\ {} \in {{}}
    OBVIOUS
  <2> QED
    BY <2>1, <2>2 DEF Init, Data
<1>2. /\ syn.ssm = "none" /\ syn.callback = "none" /\ syn.transfer = "none" /\ syn.critical = 0
      /\ syn.starting = FALSE /\ syn.on_removal = FALSE /\ syn.suspended = FALSE
      /\ syn.delay_error = "none" /\ syn.action = "NONE" /\ syn.result = "none"
      /\ syn.queued = {} /\ syn.flush = FALSE /\ syn.cancel_due = FALSE /\ syn.task = "none"
      /\ syn.is_suspended = FALSE
    BY DEF Init
<1>3. Base(syn)
    BY <1>1, <1>2 DEF Base
<1>4. Phase(syn)
    BY <1>2 DEF Phase, Idle, Still
<1>5. sensor \in Sensors /\ sensor.op = "none"
    BY DEF Init, Sensors
<1> QED
    BY <1>2, <1>3, <1>4, <1>5 DEF SynInv, Hears

LEMMA NextKeeps ==
    ASSUME Orderly, SynInv, [Next]_vars
    PROVE  SynInv'
<1>1. CASE \E act \in Long \union Short : Start(act)
    BY <1>1, StartKeeps
<1>2. CASE UserCancel
    BY <1>2, UserCancelKeeps
<1>3. CASE UserSuspend
    BY <1>3, UserSuspendKeeps
<1>4. CASE UserResume
    BY <1>4, UserResumeKeeps
<1>5. CASE CancelInIdle
    BY <1>5, CancelInIdleKeeps
<1>6. CASE CriticalFlush
    BY <1>6, CriticalFlushKeeps
<1>7. CASE ReturnInIdle
    BY <1>7, ReturnInIdleKeeps
<1>8. CASE Sent
    BY <1>8, CommandSentKeeps, NextUserSentKeeps, CancelSentKeeps, AsyncSentKeeps DEF Sent
<1>9. CASE SendFails
    BY <1>9, SendFailsKeeps
<1>10. CASE ReadMessage
    BY <1>10, ReadMessageKeeps
<1>11. CASE ReadEvent
    BY <1>11, ReadEventKeeps
<1>12. CASE ReadFails
    BY <1>12, ReadFailsKeeps
<1>13. CASE Interrupt
    BY <1>13, InterruptKeeps
<1>14. CASE InterruptSaysNothing
    BY <1>14, InterruptSaysNothingKeeps
<1>15. CASE InterruptFails
    BY <1>15, InterruptFailsKeeps
<1>16. CASE InterruptCancelled
    BY <1>16, InterruptCancelledKeeps
<1>17. CASE FingerGone
    BY <1>17, FingerGoneKeeps
<1>18. CASE UNCHANGED vars
    BY <1>18
    DEF vars, SynInv, Base, Phase, Hears, Data, Sensors, Idle, Over, Talks, Waits, Sleeps,
        Still, Running, Removal, Busy, Sections, One
<1> QED
    BY <1>1, <1>2, <1>3, <1>4, <1>5, <1>6, <1>7, <1>8, <1>9, <1>10, <1>11, <1>12, <1>13,
       <1>14, <1>15, <1>16, <1>17, <1>18 DEF Next, User, MainLoop, Transfers, Discarded

LEMMA OrderIsKept ==
    ASSUME SynInv
    PROVE  CommandsKeepOrder
<1>1. syn \in Data /\ Base(syn) /\ Phase(syn)
    BY DEF SynInv, Base
<1>2. syn.failed = {} /\ syn.pending = "none"
    BY <1>1 DEF Data
<1>3. syn.action = "NONE" => Idle(syn)
    BY <1>1, PhaseFacts
<1>4. syn.action = "NONE" => ~syn.cancel_due
    BY <1>1 DEF Base
<1> QED
    BY <1>2, <1>3, <1>4
    DEF CommandsKeepOrder, SynapticsAssertionsHold, NothingRemains, Idle, Still

LEMMA SynInvHolds ==
    Orderly => (Spec => []SynInv)
<1> SUFFICES ASSUME Orderly
             PROVE  Spec => []SynInv
    OBVIOUS
<1>1. Init => SynInv
    BY InitIsIdle
<1>2. SynInv /\ [Next]_vars => SynInv'
    BY NextKeeps
<1> QED
    BY <1>1, <1>2, PTL DEF Spec

\* As long as no print is bad, no interrupt quiet, no answer late, no error stale, no operation
\* suspended at its end and no print asked for that is not there, the assertions of the driver
\* hold, and a returned operation has left nothing to the next one (cmd_ssm_done, the callbacks,
\* the critical sections): whatever is cancelled, suspended, failed or sent in whatever order,
\* a cancel command that is lost or crosses an answer included.
THEOREM CommandsKeepOrderCorrect == Orderly => (Spec => []CommandsKeepOrder)
<1> SUFFICES ASSUME Orderly
             PROVE  Spec => []CommandsKeepOrder
    OBVIOUS
<1>1. Spec => []SynInv
    BY SynInvHolds
<1>2. SynInv => CommandsKeepOrder
    BY OrderIsKept
<1> QED
    BY <1>1, <1>2, PTL

-----------------------------------------------------------------------------
(* Answers are of the operation that returns them *)

\* Nothing that goes wrong is provoked, but for lost cancel commands.
Uncrossed == Provoked \subseteq {"cancel_lost"}

\* The progress of an enrollment is what the sensor said of this one.
EnrollIsOwn(s, x) ==
    IF x.ready
    THEN s.progress = s.stage /\ s.stage <= NrStages /\ (x.percent = 100 => s.stage = NrStages)
    ELSE s.progress = 0 /\ x.percent # 100

\* What AnswersAreOwn says of s and x
OwnAnswers(s, x) ==
    /\ s.report = "match" => x.verdict = "ok"
    /\ s.report = "retry" => x.verdict = "retry"
    /\ s.result = "cancelled" => s.cancelled
    /\ s.result = "not_found" => x.verdict = "no_record"
    /\ s.result = "ok" /\ s.action = "ENROLL" => x.verdict = "ok" /\ s.progress = NrStages
    /\ s.result = "ok" /\ s.action \in {"DELETE", "CLEAR_STORAGE"} => x.verdict \in {"ok", "no_record"}

\* A sensor that is told to cancel runs the command of an operation that is to be cancelled.
OwnInv(s, x) ==
    /\ x.cancel => s.cancelled /\ s.ssm # "none"
    /\ s.cancel_due \/ "cancel" \in s.queued => s.cancelled
    /\ s.action = "ENROLL" /\ s.transfer = "command" => s.progress = 0
    /\ x.op = "ENROLL" => EnrollIsOwn(s, x)
    /\ s.action # "NONE" => OwnAnswers(s, x)

LEMMA OwnFacts ==
    ASSUME SynInv
    PROVE  /\ syn \in Data /\ sensor \in Sensors /\ Hears(syn, sensor)
           /\ syn.ssm = "none" => sensor.op = "none"
BY DEF SynInv, Base, Hears

LEMMA QuietIsOwn ==
    ASSUME SynInv, OwnInv(syn, sensor), Quiet
    PROVE  OwnInv(syn, sensor)'
<1>1. PICK t, x : t = syn' /\ x = sensor'
    OBVIOUS
<1>2. Calm(syn, t)
    BY <1>1 DEF Quiet
<1>3. PICK cancel \in BOOLEAN :
          /\ x = [sensor EXCEPT !.cancel = cancel]
          /\ cancel => \/ sensor.cancel
                       \/ syn.ssm # "none" /\ (syn.cancel_due \/ "cancel" \in syn.queued)
    BY <1>1 DEF Quiet
<1>4. /\ x.cancel = cancel /\ x.op = sensor.op /\ x.ready = sensor.ready
      /\ x.percent = sensor.percent /\ x.verdict = sensor.verdict
    BY <1>3, OwnFacts DEF Sensors
<1>5. t.transfer = "command" => syn.transfer = "command"
    BY <1>2 DEF Calm
<1>6. OwnInv(t, x)
  <2>1. x.cancel => t.cancelled /\ t.ssm # "none"
    BY <1>2, <1>3, <1>4 DEF Calm, OwnInv
  <2>2. t.cancel_due \/ "cancel" \in t.queued => t.cancelled
    BY <1>2 DEF Calm, OwnInv
  <2>3. t.action = "ENROLL" /\ t.transfer = "command" => t.progress = 0
    BY <1>2, <1>5 DEF Calm, OwnInv
  <2>4. x.op = "ENROLL" => EnrollIsOwn(t, x)
    BY <1>2, <1>4 DEF Calm, OwnInv, EnrollIsOwn
  <2>5. t.action # "NONE" => OwnAnswers(t, x)
    BY <1>2, <1>4 DEF Calm, OwnInv, OwnAnswers
  <2> QED
    BY <2>1, <2>2, <2>3, <2>4, <2>5 DEF OwnInv
<1> QED
    BY <1>1, <1>6

LEMMA StartIsOwn ==
    ASSUME Orderly, SynInv, OwnInv(syn, sensor), NEW act \in Long \union Short, Start(act)
    PROVE  OwnInv(syn, sensor)'
<1>1. UNCHANGED sensor /\ Fresh(syn') /\ syn.ssm = "none"
    BY StartKeeps
<1>2. PICK t : t = syn'
    OBVIOUS
<1>3. sensor.op = "none" /\ ~sensor.cancel
    BY <1>1, OwnFacts DEF OwnInv
<1>4. OwnInv(t, sensor)
    BY <1>1, <1>2, <1>3 DEF Fresh, OwnInv, OwnAnswers
<1> QED
    BY <1>1, <1>2, <1>4

LEMMA ReturnIsOwn ==
    ASSUME Orderly, SynInv, OwnInv(syn, sensor), ReturnInIdle
    PROVE  OwnInv(syn, sensor)'
<1>1. /\ UNCHANGED sensor /\ syn.ssm = "none"
      /\ syn'.action = "NONE" /\ syn'.queued = {} /\ syn'.cancel_due = FALSE
    BY ReturnInIdleKeeps
<1>2. PICK t : t = syn'
    OBVIOUS
<1>3. sensor.op = "none" /\ ~sensor.cancel
    BY <1>1, OwnFacts DEF OwnInv
<1>4. OwnInv(t, sensor)
    BY <1>1, <1>2, <1>3 DEF OwnInv
<1> QED
    BY <1>1, <1>2, <1>4

\* A step of the machine, after which the sensor runs the command it ran, another one, or
\* has just begun one
LEMMA MovingIsOwn ==
    ASSUME OwnInv(syn, sensor), MovesOn, NEW x, x = sensor', x.cancel = sensor.cancel,
           x.op = "ENROLL" => EnrollIsOwn(syn, x),
           x.verdict = sensor.verdict \/ syn.report = "none"
    PROVE  OwnInv(syn, sensor)'
<1>1. PICK t : t = syn'
    OBVIOUS
<1>2. /\ Alike(syn, t) /\ t.ssm # "none" /\ t.transfer # "command" /\ syn.ssm # "none"
      /\ syn.result = "none"
    BY <1>1 DEF MovesOn
<1>3. x.cancel => t.cancelled /\ t.ssm # "none"
    BY <1>2 DEF Alike, OwnInv
<1>4. t.cancel_due \/ "cancel" \in t.queued => t.cancelled
    BY <1>2 DEF Alike, OwnInv
<1>5. x.op = "ENROLL" => EnrollIsOwn(t, x)
    BY <1>2 DEF Alike, EnrollIsOwn
<1>6. t.action # "NONE" => OwnAnswers(t, x)
    BY <1>2 DEF Alike, OwnInv, OwnAnswers
<1>7. OwnInv(t, x)
    BY <1>2, <1>3, <1>4, <1>5, <1>6 DEF OwnInv
<1> QED
    BY <1>1, <1>7

LEMMA SilentMoveIsOwn ==
    ASSUME OwnInv(syn, sensor), MovesOn, UNCHANGED sensor
    PROVE  OwnInv(syn, sensor)'
<1>1. PICK x : x = sensor'
    OBVIOUS
<1>2. /\ x.cancel = sensor.cancel /\ x.verdict = sensor.verdict
      /\ x.op = "ENROLL" => EnrollIsOwn(syn, x)
    BY <1>1 DEF OwnInv
<1> QED
    BY <1>1, <1>2, MovingIsOwn

LEMMA CommandIsOwn ==
    ASSUME Orderly, SynInv, OwnInv(syn, sensor), CommandSent
    PROVE  OwnInv(syn, sensor)'
<1>1. /\ Dispatched("command")
      /\ sensor' = [sensor EXCEPT !.op = syn.callback, !.ready = FALSE, !.percent = 0,
                                  !.verdict = "none"]
    BY DEF CommandSent
<1>2. MovesOn /\ syn.report = "none"
    BY CommandSentKeeps
<1>3. PICK x : x = sensor'
    OBVIOUS
<1>4. x.cancel = sensor.cancel /\ x.op = syn.callback /\ x.ready = FALSE /\ x.percent = 0
  <2>1. x = [sensor EXCEPT !.op = syn.callback, !.ready = FALSE, !.percent = 0,
                           !.verdict = "none"]
    BY <1>1, <1>3
  <2>2. sensor \in Sensors
    BY OwnFacts
  <2> QED
    BY <2>1, <2>2 DEF Sensors
<1>5. syn.transfer = "command" /\ syn.callback = syn.action
    BY <1>1, DispatchedTalks, BusyFacts
<1>6. x.op = "ENROLL" => EnrollIsOwn(syn, x)
    BY <1>4, <1>5 DEF OwnInv, EnrollIsOwn
<1> QED
    BY <1>2, <1>3, <1>4, <1>6, MovingIsOwn

LEMMA CancelCommandIsOwn ==
    ASSUME Orderly, SynInv, OwnInv(syn, sensor), CancelSent
    PROVE  OwnInv(syn, sensor)'
<1>1. sensor' = [sensor EXCEPT !.op = "cancelling"]
    BY DEF CancelSent
<1>2. MovesOn
    BY CancelSentKeeps
<1>3. PICK x : x = sensor'
    OBVIOUS
<1>4. x.cancel = sensor.cancel /\ x.op = "cancelling" /\ x.verdict = sensor.verdict
    BY <1>1, <1>3, OwnFacts DEF Sensors
<1> QED
    BY <1>2, <1>3, <1>4, MovingIsOwn

\* The end of an operation: what is left to show is of its result.
LEMMA EndIsOwn ==
    ASSUME OwnInv(syn, sensor), NEW t, NEW x, t = syn', x = sensor', NEW report, NEW result,
           Ending(syn, t, report, result), x.cancel = FALSE, x.op = "none",
           x.verdict = sensor.verdict,
           OwnAnswers(t, x)
    PROVE  OwnInv(syn, sensor)'
<1>1. /\ t.transfer = "none" /\ t.cancelled = syn.cancelled /\ t.cancel_due = FALSE
      /\ t.queued = syn.queued
    BY DEF Ending, Over, Still
<1>2. OwnInv(t, x)
    BY <1>1 DEF OwnInv
<1> QED
    BY <1>2

LEMMA FailureIsOwn ==
    ASSUME SynInv, OwnInv(syn, sensor), Fails
    PROVE  OwnInv(syn, sensor)'
<1>1. PICK t, x : t = syn' /\ x = sensor'
    OBVIOUS
<1>2. Ending(syn, t, syn.report, "error") /\ syn.action # "NONE"
  <2>1. syn.action # "NONE"
    BY DEF Fails, Ending, Over
  <2> QED
    BY <1>1, <2>1 DEF Fails
<1>3. x.cancel = FALSE /\ x.op = "none" /\ x.verdict = sensor.verdict
  <2>1. x = [sensor EXCEPT !.op = "none", !.ready = FALSE, !.cancel = FALSE]
    BY <1>1 DEF Fails
  <2> QED
    BY <2>1, OwnFacts DEF Sensors
<1>4. OwnAnswers(t, x)
  <2>1. OwnAnswers(syn, sensor) /\ t.report = syn.report /\ t.result = "error"
    BY <1>2 DEF OwnInv, Ending
  <2> QED
    BY <1>3, <2>1 DEF OwnAnswers
<1> QED
    BY <1>1, <1>2, <1>3, <1>4, EndIsOwn

\* A sensor that was told to cancel says nothing else, and only then that it did.
LEMMA CrossesNothing ==
    ASSUME Uncrossed, SynInv, Dispatched("read"), NEW id \in Messages
    PROVE  /\ sensor.cancel => id \in {"cancel_ok", "cancel_fail"}
           /\ id = "cancel_ok" => sensor.cancel \/ syn.action \in {"PROBE", "OPEN"}
<1>1. Busy(syn) /\ Hears(syn, sensor) /\ sensor \in Sensors
    BY DispatchedTalks
<1>2. sensor.late = "none"
    BY <1>1 DEF Sensors
<1>3. sensor.cancel => id \in {"cancel_ok", "cancel_fail"}
    BY <1>2 DEF Messages, Uncrossed
<1>4. ASSUME id = "cancel_ok", ~sensor.cancel
      PROVE  syn.action \in {"PROBE", "OPEN"}
  <2>1. id \in Answers
    BY <1>2, <1>4 DEF Messages, FingerMoves
  <2>2. sensor.op = "cancelling"
    BY <1>4, <2>1 DEF Answers
  <2>3. syn.callback = syn.action /\ syn.action \in Operations
    BY <1>1, BusyFacts
  <2>4. "cancelling" \notin Operations
    BY DEF Operations, Long, Short, Matching
  <2> QED
    BY <1>1, <2>2, <2>3, <2>4 DEF Hears
<1> QED
    BY <1>3, <1>4

\* An answer that goes on with an enrollment
LEMMA StagesAreOwn ==
    ASSUME SynInv, EnrollIsOwn(syn, sensor), sensor.op = "ENROLL", syn.action = "ENROLL",
           NEW id \in Answers, id \notin Final, NEW percent \in 0..100, NEW t, NEW x,
           StagesAre(syn, id, percent, t.stage, t.progress),
           x.ready <=> sensor.ready \/ id = "ready",
           x.percent = IF id = "percent" THEN percent ELSE sensor.percent
    PROVE  EnrollIsOwn(t, x)
<1>1. CASE sensor.ready
  <2>1. id = "percent"
    BY <1>1 DEF Answers, Final
  <2>2. /\ syn.progress = syn.stage /\ syn.stage <= NrStages /\ syn.stage \in Nat
        /\ x.ready /\ x.percent = percent
    BY <1>1, <2>1, OwnFacts DEF EnrollIsOwn, Data
  <2>3. /\ DoneStages(percent) \in 0..NrStages
        /\ percent = 100 => DoneStages(percent) = NrStages
    BY DoneStagesBounds
  <2>4. CASE syn.stage < DoneStages(percent)
    <3>1. t.stage = DoneStages(percent) /\ t.progress = DoneStages(percent)
        BY <2>1, <2>4 DEF StagesAre
    <3>2. DoneStages(percent) <= NrStages
        BY <2>3
    <3> QED
        BY <2>2, <2>3, <3>1, <3>2 DEF EnrollIsOwn
  <2>5. CASE ~(syn.stage < DoneStages(percent))
    <3>1. t.stage = syn.stage /\ t.progress = syn.progress
        BY <2>1, <2>5 DEF StagesAre
    <3>2. percent = 100 => syn.stage = NrStages
        BY <2>2, <2>3, <2>5, NrStagesAssumption
    <3> QED
        BY <2>2, <3>1, <3>2 DEF EnrollIsOwn
  <2> QED
    BY <2>4, <2>5
<1>2. CASE ~sensor.ready
  <2>1. id = "ready"
    BY <1>2 DEF Answers, Final
  <2>2. syn.progress = 0 /\ x.ready /\ x.percent # 100
    BY <1>2, <2>1 DEF EnrollIsOwn
  <2>3. t.stage = 0 /\ t.progress = syn.progress
    BY <2>1 DEF StagesAre
  <2>4. 0 <= NrStages
    BY NrStagesAssumption
  <2> QED
    BY <2>2, <2>3, <2>4 DEF EnrollIsOwn
<1> QED
    BY <1>1, <1>2

LEMMA AnswerIsOwn ==
    ASSUME SynInv, OwnInv(syn, sensor), NEW id \in Answers, NEW percent \in 0..100,
           Asking(syn), id \in AnswersTo(syn.callback), sensor.op = syn.callback,
           NEW t, NEW x, t = syn', x = sensor', x.cancel = FALSE, ~sensor.cancel,
           AnswerLeads(syn, id, percent, t), Says(id, percent)
    PROVE  OwnInv(syn, sensor)'
<1>1. sensor \in Sensors
    BY OwnFacts
<1>2. /\ x.op = IF id \in Ends THEN "none" ELSE sensor.op
      /\ x.ready <=> (sensor.ready \/ id = "ready") /\ id \notin Ends
      /\ x.percent = IF id = "percent" THEN percent ELSE sensor.percent
      /\ x.verdict = IF id \in Final THEN id ELSE sensor.verdict
    BY <1>1, SaysIs
<1>3. syn.callback = syn.action /\ Final \subseteq Ends
    BY AskingFacts DEF Ends, Final
<1>4. /\ t.cancelled = syn.cancelled /\ (t.cancel_due => syn.cancel_due) /\ t.queued = syn.queued
      /\ t.transfer # "command" /\ t.action = syn.action
      /\ ReportFits(t.report, id)
      /\ t.result # "none" => ResultFits(t.action, t.result, id)
      /\ StagesAre(syn, id, percent, t.stage, t.progress)
    BY DEF AnswerLeads
<1>5. x.op = "ENROLL" => EnrollIsOwn(t, x)
  <2> SUFFICES ASSUME x.op = "ENROLL"
               PROVE  EnrollIsOwn(t, x)
    OBVIOUS
  <2>1. sensor.op = "ENROLL" /\ id \notin Ends /\ id \notin Final /\ syn.action = "ENROLL"
    BY <1>2, <1>3
  <2>2. EnrollIsOwn(syn, sensor)
    BY <2>1 DEF OwnInv
  <2>3. x.ready <=> sensor.ready \/ id = "ready"
    BY <1>2, <2>1
  <2> QED
    BY <1>2, <1>4, <2>1, <2>2, <2>3, StagesAreOwn
<1>6. OwnAnswers(t, x)
  <2>1. {"ok", "retry", "no_record"} \subseteq Final
    BY DEF Final
  <2>2. /\ t.report = "match" => x.verdict = "ok"
        /\ t.report = "retry" => x.verdict = "retry"
    BY <1>2, <1>4, <2>1 DEF ReportFits
  <2>3. /\ t.result = "cancelled" => t.cancelled
        /\ t.result = "not_found" => x.verdict = "no_record"
        /\ t.result = "ok" /\ t.action \in {"DELETE", "CLEAR_STORAGE"}
              => x.verdict \in {"ok", "no_record"}
    BY <1>2, <1>4, <2>1 DEF ResultFits
  <2>4. ASSUME t.result = "ok", t.action = "ENROLL"
        PROVE  x.verdict = "ok" /\ t.progress = NrStages
    <3>1. id = "ok" /\ syn.action = "ENROLL" /\ sensor.op = "ENROLL"
        BY <1>3, <1>4, <2>4 DEF ResultFits
    <3>2. sensor.percent = 100
        BY <3>1 DEF Answers
    <3>3. syn.progress = NrStages
        BY <3>1, <3>2 DEF OwnInv, EnrollIsOwn
    <3>4. t.progress = syn.progress
        BY <1>4, <3>1 DEF StagesAre
    <3> QED
        BY <1>2, <2>1, <3>1, <3>3, <3>4
  <2> QED
    BY <2>2, <2>3, <2>4 DEF OwnAnswers
<1>7. OwnInv(t, x)
    BY <1>4, <1>5, <1>6 DEF OwnInv
<1> QED
    BY <1>7

LEMMA ReadIsOwn ==
    ASSUME Uncrossed, Orderly, SynInv, OwnInv(syn, sensor), NEW id \in Messages, Read(id)
    PROVE  OwnInv(syn, sensor)'
<1>1. PICK percent \in Percents :
          /\ IF id = "percent" THEN percent >= sensor.percent ELSE percent = 0
          /\ Says(id, percent) /\ ReadLeads(id, percent)
    BY ReadKeeps
<1>2. syn.result = "none" /\ syn.ssm # "none"
    BY ReadKeeps
<1>3. Dispatched("read") /\ percent \in 0..100 /\ sensor \in Sensors
    BY PercentsAssumption, OwnFacts DEF Read
<1>4. /\ sensor.cancel => id \in {"cancel_ok", "cancel_fail"}
      /\ id = "cancel_ok" => sensor.cancel \/ syn.action \in {"PROBE", "OPEN"}
    BY <1>3, CrossesNothing
<1>5. PICK t, x : t = syn' /\ x = sensor'
    OBVIOUS
<1>6. /\ x \in Sensors
      /\ x.op = IF id \in Ends THEN "none" ELSE sensor.op
      /\ x.cancel <=> sensor.cancel /\ id \notin {"cancel_ok", "cancel_fail"}
      /\ x.ready <=> (sensor.ready \/ id = "ready") /\ id \notin Ends
      /\ x.percent = IF id = "percent" THEN percent ELSE sensor.percent
      /\ x.verdict = IF id \in Final THEN id ELSE sensor.verdict
    BY <1>1, <1>3, <1>5, SaysIs
<1>7. x.cancel = FALSE
    BY <1>4, <1>6 DEF Sensors
<1>8. /\ syn.ssm # "none" /\ Hears(syn, sensor) /\ Busy(syn) /\ syn.action # "NONE" /\ syn \in Data
      /\ OwnAnswers(syn, sensor)
  <2>1. Hears(syn, sensor) /\ Busy(syn)
    BY <1>3, DispatchedTalks
  <2>2. syn.action # "NONE" /\ syn \in Data
    BY <2>1, BusyFacts
  <2> QED
    BY <1>2, <2>1, <2>2 DEF OwnInv
<1>9. CASE id \in {"finger_on", "finger_off"} /\ Waits(t) /\ Alike(syn, t)
  <2>1. id \notin Ends /\ id \notin Final /\ id \notin {"percent", "ready", "cancel_ok", "cancel_fail"}
    BY <1>9 DEF Ends, Final
  <2>2. t.ssm # "none" /\ t.transfer # "command"
    BY <1>9 DEF Waits
  <2>3. MovesOn
    BY <1>2, <1>5, <1>9, <2>2 DEF MovesOn
  <2>4. x.cancel = sensor.cancel
    BY <1>3, <1>4, <1>7, <2>1 DEF Sensors
  <2>5. x.op = sensor.op /\ (x.ready <=> sensor.ready) /\ x.percent = sensor.percent
        /\ x.verdict = sensor.verdict
    BY <1>6, <2>1
  <2>6. x.op = "ENROLL" => EnrollIsOwn(syn, x)
    BY <2>5 DEF OwnInv, EnrollIsOwn
  <2> QED
    BY <1>5, <2>3, <2>4, <2>5, <2>6, MovingIsOwn
<1>10. CASE /\ id = "finger_off" /\ syn.on_removal
            /\ Ending(syn, t, syn.report,
                      IF syn.delay_error = "none" THEN syn.report ELSE syn.delay_error)
  <2>1. PICK result : result = IF syn.delay_error = "none" THEN syn.report ELSE syn.delay_error
    OBVIOUS
  <2>2. Ending(syn, t, syn.report, result)
    BY <1>10, <2>1
  <2>3. t.report = syn.report /\ t.result = result /\ t.action = syn.action
    BY <2>2 DEF Ending
  <2>4. id \notin Ends /\ id \notin Final
    BY <1>10 DEF Ends, Final
  <2>5. x.op = "none" /\ x.verdict = sensor.verdict
    BY <1>6, <1>8, <1>10, <2>4 DEF Hears
  <2>6. syn.report \in {"none", "match", "no_match", "retry"} /\ syn.delay_error \in {"none", "not_found"}
    BY <1>8 DEF Data, Reports, HeldBack
  <2>7. result = "not_found" => sensor.verdict = "no_record"
    BY <1>8, <2>1, <2>6 DEF Hears
  <2>8. result \notin {"ok", "cancelled"}
    BY <2>1, <2>6
  <2>9. OwnAnswers(t, x)
    BY <1>8, <2>3, <2>5, <2>7, <2>8 DEF OwnAnswers
  <2> QED
    BY <1>5, <1>7, <2>2, <2>5, <2>9, EndIsOwn
<1>11. CASE /\ id \in {"cancel_ok", "cancel_fail"}
            /\ \E result \in {"cancelled", "error", "ok"} :
                   /\ Ending(syn, t, syn.report, result)
                   /\ result = "cancelled" => id = "cancel_ok" /\ syn.action \notin {"PROBE", "OPEN"}
                   /\ result = "ok" => syn.action \in {"PROBE", "OPEN"}
  <2>1. PICK result \in {"cancelled", "error", "ok"} :
            /\ Ending(syn, t, syn.report, result)
            /\ result = "cancelled" => id = "cancel_ok" /\ syn.action \notin {"PROBE", "OPEN"}
            /\ result = "ok" => syn.action \in {"PROBE", "OPEN"}
    BY <1>11
  <2>2. id \in Ends /\ id \notin Final
    BY <1>11 DEF Ends, Final
  <2>3. x.op = "none" /\ x.verdict = sensor.verdict
    BY <1>6, <2>2
  <2>4. t.report = syn.report /\ t.result = result /\ t.action = syn.action
        /\ t.cancelled = syn.cancelled
    BY <2>1 DEF Ending
  <2>5. result = "cancelled" => syn.cancelled
    BY <1>4, <2>1 DEF OwnInv
  <2>6. OwnAnswers(t, x)
    BY <1>8, <2>1, <2>3, <2>4, <2>5 DEF OwnAnswers
  <2> QED
    BY <1>5, <1>7, <2>1, <2>3, <2>6, EndIsOwn
<1>12. CASE /\ Asking(syn) /\ id \in AnswersTo(syn.callback) /\ sensor.op = syn.callback
            /\ id \in Answers /\ AnswerLeads(syn, id, percent, t)
  <2>1. id \notin {"cancel_ok", "cancel_fail"}
    BY <1>12 DEF AnswersTo
  <2>2. ~sensor.cancel
    BY <1>4, <2>1
  <2> QED
    BY <1>1, <1>3, <1>5, <1>7, <1>12, <2>2, AnswerIsOwn
<1> QED
    BY <1>1, <1>5, <1>9, <1>10, <1>11, <1>12 DEF ReadLeads

LEMMA FingerLeftIsOwn ==
    ASSUME SynInv, OwnInv(syn, sensor), FingerLeft
    PROVE  OwnInv(syn, sensor)'
<1>1. PICK x : x = sensor'
    OBVIOUS
<1>2. x.cancel = sensor.cancel /\ x.op = sensor.op /\ x.ready = sensor.ready
      /\ x.percent = sensor.percent /\ x.verdict = sensor.verdict
    BY <1>1, OwnFacts DEF FingerLeft, Sensors
<1>3. OwnInv(syn, x)
    BY <1>2 DEF OwnInv, OwnAnswers, EnrollIsOwn
<1> QED
    BY <1>1, <1>3 DEF FingerLeft

LEMMA NextIsOwn ==
    ASSUME Uncrossed, SynInv, OwnInv(syn, sensor), [Next]_vars
    PROVE  OwnInv(syn, sensor)'
<1>0. Orderly
    BY DEF Uncrossed, Orderly
<1>1. CASE \E act \in Long \union Short : Start(act)
    BY <1>0, <1>1, StartIsOwn
<1>2. CASE UserCancel \/ UserSuspend \/ UserResume \/ CancelInIdle \/ CriticalFlush
    BY <1>0, <1>2, UserCancelKeeps, UserSuspendKeeps, UserResumeKeeps, CancelInIdleKeeps,
       CriticalFlushKeeps, QuietIsOwn
<1>3. CASE ReturnInIdle
    BY <1>0, <1>3, ReturnIsOwn
<1>4. CASE CommandSent
    BY <1>0, <1>4, CommandIsOwn
<1>5. CASE CancelSent
    BY <1>0, <1>5, CancelCommandIsOwn
<1>6. CASE NextUserSent
    BY <1>0, <1>6, NextUserSentKeeps, SilentMoveIsOwn DEF NextUserSent
<1>7. CASE AsyncSent
    BY <1>0, <1>7, AsyncSentKeeps, SilentMoveIsOwn DEF AsyncSent
<1>8. CASE ReadEvent
    BY <1>0, <1>8, ReadEventKeeps, SilentMoveIsOwn DEF ReadEvent
<1>9. CASE Interrupt \/ InterruptSaysNothing \/ InterruptCancelled
    BY <1>0, <1>9, InterruptKeeps, InterruptSaysNothingKeeps, InterruptCancelledKeeps,
       SilentMoveIsOwn
<1>10. CASE SendFails \/ ReadFails \/ InterruptFails
    BY <1>0, <1>10, SendFailsKeeps, ReadFailsKeeps, InterruptFailsKeeps, FailureIsOwn
<1>11. CASE ReadMessage
    BY <1>0, <1>11, ReadIsOwn DEF ReadMessage
<1>12. CASE FingerGone
    BY <1>12, FingerGoneKeeps, FingerLeftIsOwn
<1>13. CASE UNCHANGED vars
    BY <1>13 DEF vars, OwnInv, OwnAnswers, EnrollIsOwn
<1> QED
    BY <1>1, <1>2, <1>3, <1>4, <1>5, <1>6, <1>7, <1>8, <1>9, <1>10, <1>11, <1>12, <1>13
    DEF Next, User, MainLoop, Transfers, Sent, Discarded

LEMMA OwnAnswersSuffice ==
    ASSUME SynInv, OwnInv(syn, sensor)
    PROVE  AnswersAreOwn
<1> SUFFICES ASSUME syn.action # "NONE"
             PROVE  ReportIsOwn /\ ResultIsOwn
    BY DEF AnswersAreOwn
<1>1. OwnAnswers(syn, sensor)
    BY DEF OwnInv
<1>2. ReportIsOwn
    BY <1>1 DEF OwnAnswers, ReportIsOwn
<1>3. syn.result # "general"
    BY OwnFacts DEF Data, Results
<1>4. ResultIsOwn
    BY <1>1, <1>3 DEF OwnAnswers, ResultIsOwn
<1> QED
    BY <1>2, <1>4

\* When nothing crosses a cancel command either, an operation returns and reports what the sensor
\* said to its own command: also when a finger had to be removed first, the gallery went out print
\* by print, an earlier operation was cancelled, or the cancel command was lost; a cancelled
\* operation was to be cancelled, and an enrolled print has passed all its stages.
THEOREM AnswersAreOwnCorrect == Uncrossed => (Spec => []AnswersAreOwn)
<1> SUFFICES ASSUME Uncrossed
             PROVE  Spec => []AnswersAreOwn
    OBVIOUS
<1>1. Orderly
    BY DEF Uncrossed, Orderly
<1>2. Init => OwnInv(syn, sensor)
  <2>1. Init => /\ sensor.cancel = FALSE /\ syn.cancel_due = FALSE /\ syn.queued = {}
                /\ syn.action = "NONE" /\ sensor.op = "none"
    BY DEF Init
  <2> QED
    BY <2>1 DEF OwnInv
<1>3. SynInv /\ OwnInv(syn, sensor) /\ [Next]_vars => OwnInv(syn, sensor)'
    BY NextIsOwn
<1>4. Spec => []SynInv
    BY <1>1, SynInvHolds
<1>5. SynInv /\ OwnInv(syn, sensor) => AnswersAreOwn
    BY OwnAnswersSuffice
<1> QED
    BY <1>2, <1>3, <1>4, <1>5, PTL DEF Spec
=============================================================================
