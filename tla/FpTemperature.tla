---------------------------- MODULE FpTemperature ----------------------------
(***************************************************************************)
(* The temperature model of a device (fpi_device_update_temp): a ratio     *)
(* that rises while a long operation runs and falls otherwise, brought up  *)
(* to date only when an operation starts or returns and by a timeout set   *)
(* for the next threshold.  FpDevice takes its outcome as the events       *)
(* BecomeHot and CoolDown.                                                 *)
(*                                                                         *)
(* The ratio is a level and moves by a fixed step per tick of the clock;   *)
(* the exponential curve of the code moves monotonically between the same  *)
(* thresholds, and the code takes the time to the next one from its        *)
(* inverse.  An update emits notify::temperature when the temperature      *)
(* changed, so that it is two steps: up to the signal, and the rest.  The  *)
(* user's handlers take no time and run no main loop.                      *)
(*                                                                         *)
(* An operator named Bad... is a wrong form of the one after it, which the *)
(* mutation runs put in its place; the specification does not use it.      *)
(***************************************************************************)
EXTENDS Integers, Sequences, FiniteSetsExt
Seqs == INSTANCE SequencesExt

CONSTANTS
    ColdThresh, HotWarmThresh, WarmHotThresh,  \* TEMP_..._THRESH as levels
    Top,            \* the level of ratio 1
    HotRate,        \* levels gained per tick (temp_hot_seconds)
    ColdRate,       \* levels lost per tick (temp_cold_seconds)
    Delay,          \* TEMP_DELAY_SECONDS in ticks
    MaxLag,         \* bound on how late the main loop's clock is
    HandlerStarts   \* does a notify::temperature handler start operations?

ASSUME ThresholdAssumption ==
    /\ {ColdThresh, HotWarmThresh, WarmHotThresh, Top} \subseteq Nat \ {0}
    /\ ColdThresh < HotWarmThresh /\ HotWarmThresh < WarmHotThresh /\ WarmHotThresh < Top
ASSUME RateAssumption ==
    {HotRate, ColdRate, Delay} \subseteq Nat \ {0} /\ MaxLag \in Nat /\ HandlerStarts \in BOOLEAN

VARIABLES
    current_action,      \* priv->current_action: "NONE", "SHORT" or "LONG"
    cancelled,           \* the action was cancelled for being too hot
    temp_current,
    temp_current_ratio,
    temp_last_active,
    passed,              \* ticks since temp_last_update
    temp_timeout,        \* ticks until the timeout is ready, or NoTimeout
    updates              \* calls of fpi_device_update_temp on the stack

ratioVars == <<temp_current, temp_current_ratio, temp_last_active, passed>>
tempVars == <<current_action, cancelled, ratioVars, temp_timeout, updates>>

NoTimeout == -1

\* As cold as the upper bound of COLD, without a timeout.
TempInit ==
    /\ current_action = "NONE"
    /\ cancelled = FALSE
    /\ temp_current = "COLD"
    /\ temp_current_ratio = ColdThresh
    /\ temp_last_active = FALSE
    /\ passed = 0
    /\ temp_timeout = NoTimeout
    /\ updates = <<>>

-----------------------------------------------------------------------------
(* fpi_device_update_temp *)

\* The ratio now.
BadRatio == temp_current_ratio - ColdRate * passed
Ratio ==
    IF temp_last_active
    THEN Min({temp_current_ratio + HotRate * passed, Top})
    ELSE Max({temp_current_ratio - ColdRate * passed, 0})

\* HOT is kept until the ratio is below HotWarmThresh.
Temperature(old, ratio) ==
    CASE ratio < ColdThresh -> "COLD"
      [] ratio \in ColdThresh..(HotWarmThresh - 1) -> "WARM"
      [] ratio \in HotWarmThresh..(WarmHotThresh - 1) -> IF old = "HOT" THEN "HOT" ELSE "WARM"
      [] ratio >= WarmHotThresh -> "HOT"

\* The thresholds ahead of a ratio that rises or falls, the next one first.
BadNextThresholds(ratio, is_active) ==
    IF is_active
    THEN {threshold \in {ColdThresh, WarmHotThresh} : ratio < threshold}
    ELSE {threshold \in {ColdThresh, WarmHotThresh} : threshold <= ratio}
NextThresholds(ratio, is_active) ==
    IF is_active
    THEN {threshold \in {ColdThresh, WarmHotThresh} : ratio < threshold}
    ELSE {threshold \in {ColdThresh, HotWarmThresh} : threshold <= ratio}

\* The interval of the timeout, in whole ticks as the code's is in milliseconds.
TimeUntilUpdate(ratio, is_active) ==
    LET thresholds == NextThresholds(ratio, is_active)
    IN  IF thresholds = {} THEN NoTimeout
        ELSE IF is_active
        THEN (Min(thresholds) - ratio) \div HotRate + Delay
        ELSE (ratio - Max(thresholds)) \div ColdRate + Delay

\* The part before notify::temperature, for a caller that goes on with "then".
BadUpdateTemp(is_active, then) ==
    LET temp == Temperature(temp_current, Ratio)
    IN  /\ temp_current_ratio' = Ratio
        /\ passed' = 0
        /\ temp_last_active' = (temp_last_active \/ is_active)
        /\ temp_current' = temp
        /\ updates' = Append(updates, [is_active |-> is_active, then |-> then,
                                       notified |-> temp # temp_current])
UpdateTemp(is_active, then) ==
    LET temp == Temperature(temp_current, Ratio)
    IN  /\ temp_current_ratio' = Ratio
        /\ passed' = 0
        /\ temp_last_active' = is_active
        /\ temp_current' = temp
        /\ updates' = Append(updates, [is_active |-> is_active, then |-> then,
                                       notified |-> temp # temp_current])

\* The timeout counts from the main loop's clock, which lags behind within a dispatch.
SetTimeout(is_active) ==
    LET interval == TimeUntilUpdate(temp_current_ratio, is_active)
    IN  IF interval = NoTimeout THEN temp_timeout' = NoTimeout
        ELSE \E lag \in 0..MaxLag : temp_timeout' = Max({interval - lag, 0})

IsHot == temp_current = "HOT"

\* A hot device cancels its long operation.
BadHotCancels == temp_current_ratio > WarmHotThresh /\ current_action = "LONG"
HotCancels == IsHot /\ current_action = "LONG"

\* The part after the signal, with what its caller does next: a start is refused
\* when hot, with a second update that finds nothing changed, or becomes current.
UpdateTempDone ==
    /\ updates # <<>>
    /\ LET update  == Seqs!Last(updates)
           refused == update.then = "START" /\ IsHot
           started == update.then = "START" /\ ~IsHot
       IN  /\ SetTimeout(update.is_active)
           /\ updates' = Seqs!Front(updates) \o
                  (IF refused
                   THEN <<[is_active |-> FALSE, then |-> "RETURN", notified |-> FALSE]>>
                   ELSE <<>>)
           /\ temp_last_active' = (temp_last_active /\ ~refused)
           /\ current_action' = IF started THEN "LONG" ELSE current_action
           /\ cancelled' = (~started /\ (cancelled \/ HotCancels))
    /\ UNCHANGED <<temp_current, temp_current_ratio, passed>>

-----------------------------------------------------------------------------
(* Its callers *)

\* The user calls from outside or from a notify::temperature handler.
UserRuns ==
    \/ updates = <<>>
    \/ HandlerStarts /\ Len(updates) = 1 /\ Seqs!Last(updates).notified

\* fp_device_enroll, verify, identify and capture, when not busy.
StartLong ==
    /\ UserRuns /\ current_action = "NONE"
    /\ UpdateTemp(TRUE, "START")
    /\ UNCHANGED <<current_action, cancelled, temp_timeout>>

\* Every other operation leaves the temperature alone until it returns.
StartShort ==
    /\ UserRuns /\ current_action = "NONE"
    /\ current_action' = "SHORT"
    /\ UNCHANGED <<cancelled, ratioVars, temp_timeout, updates>>

\* fp_device_task_return_in_idle_cb.
TaskReturn ==
    /\ updates = <<>> /\ current_action # "NONE"
    /\ current_action' = "NONE"
    /\ cancelled' = FALSE
    /\ UpdateTemp(FALSE, "RETURN")
    /\ UNCHANGED temp_timeout

\* update_temp_timeout, dispatched when it is ready or later.
UpdateTempTimeout ==
    /\ updates = <<>> /\ temp_timeout = 0
    /\ UpdateTemp(temp_last_active, "RETURN")
    /\ UNCHANGED <<current_action, cancelled, temp_timeout>>

\* Time passes; after Top ticks the ratio does not move any more.
Tick ==
    /\ updates = <<>>
    /\ passed' = Min({passed + 1, Top})
    /\ temp_timeout' = IF temp_timeout > 0 THEN temp_timeout - 1 ELSE temp_timeout
    /\ UNCHANGED <<current_action, cancelled, temp_current, temp_current_ratio,
                   temp_last_active, updates>>

TempNext == UpdateTempDone \/ StartLong \/ StartShort \/ TaskReturn \/ UpdateTempTimeout \/ Tick

TempSpec == TempInit /\ [][TempNext]_tempVars

\* Time goes on whatever is called, the main loop dispatches the timeout, drivers end
\* short and cancelled operations.
FairTempSpec ==
    /\ TempSpec
    /\ SF_tempVars(Tick)
    /\ WF_tempVars(UpdateTempDone)
    /\ WF_tempVars(UpdateTempTimeout)
    /\ SF_tempVars((current_action = "SHORT" \/ cancelled) /\ TaskReturn)

-----------------------------------------------------------------------------
(* Properties *)

\* The ratios each temperature stands for, borders on either side.
Fits(temp, ratio) ==
    \/ temp = "COLD" /\ ratio <= ColdThresh
    \/ temp = "WARM" /\ ratio \in ColdThresh..WarmHotThresh
    \/ temp = "HOT" /\ ratio >= HotWarmThresh

\* fpi-device.c: "ensure that the state is updated once a threshold is reached": a
\* temperature that no longer fits is about to be updated by the timeout.
UpdatedAtThreshold ==
    updates = <<>> /\ ~Fits(temp_current, Ratio) => temp_timeout \in 0..Delay

\* The model takes the device for active exactly while a long operation is current,
\* refused starts and failed operations included (the callers of update_temp).
ActivityIsKnown ==
    updates = <<>> => (temp_last_active <=> current_action = "LONG")

\* fpi-device.c: "If the device is HOT, then do an internal cancellation of long running
\* tasks": none runs on, whether it was started or current when the device became hot.
HotIsCancelled ==
    updates = <<>> /\ temp_current = "HOT" /\ current_action = "LONG" => cancelled

\* The temperature follows what the device does, and the device the temperature.
TemperatureIsKnown == UpdatedAtThreshold /\ ActivityIsKnown /\ HotIsCancelled

\* Nothing cools down while a long operation is current (the guard of FpDevice's
\* CoolDown).
NoCoolingWhileActive ==
    [][current_action = "LONG" /\ current_action' = "LONG" =>
          /\ temp_current = "HOT" => temp_current' = "HOT"
          /\ temp_current = "WARM" => temp_current' # "COLD"]_tempVars

\* A hot device becomes usable again, however often the user tries meanwhile.
HotCoolsDown == temp_current = "HOT" ~> temp_current # "HOT"
=============================================================================
