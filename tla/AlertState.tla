----------------------------- MODULE AlertState -----------------------------
(***************************************************************************)
(* One alert instance of the Grafana unified alerting state manager:       *)
(* the fields of state.State that decide what is stored and what is sent,  *)
(* and the transition the manager makes for one evaluation result          *)
(* (state/state.go and setNextState in state/manager.go).                  *)
(*                                                                         *)
(* A time is a natural number; ZeroTime stands for Go's zero time.Time,    *)
(* which lies further in the past than any duration used here.  A rule is  *)
(* a record of the three options that steer transitions; its interval is   *)
(* the constant Interval.                                                  *)
(***************************************************************************)
EXTENDS Integers

CONSTANTS
    Interval,       \* alertRule.IntervalSeconds
    ResendDelay     \* state.ResendDelay, and Manager.ResendDelay

ASSUME IntervalAssumption == Interval \in Nat \ {0}
ASSUME ResendDelayAssumption == ResendDelay \in Nat

ZeroTime == 0

EvalStates == {"Normal", "Alerting", "Pending", "NoData", "Error"}

(* A QueryError is an Error result that carries an expr.QueryError whose   *)
(* RefID is one of the queries of the rule.                                *)
Results == {"Normal", "Alerting", "NoData", "Error", "QueryError"}

RuleOptions == [for : Nat,
                noData : {"Alerting", "NoData", "OK"},
                execErr : {"Alerting", "Error", "OK"}]

(* The reason of a state: empty, the result it was mapped from, or a       *)
(* vanished series.                                                        *)
Reasons == {"none", "NoData", "Error", "MissingSeries"}

(* errLabels: ref_id and datasource_uid have been added to the labels.     *)
AlertStates == [state : EvalStates,
                reason : Reasons,
                resolved : BOOLEAN,
                errLabels : BOOLEAN,
                startsAt : Nat,
                endsAt : Nat,
                lastSentAt : Nat,
                lastEval : Nat]

-----------------------------------------------------------------------------
IsError(result) == result \in {"Error", "QueryError"}

(* eval.State of a result: a query error is an Error like any other.       *)
ResultState(result) == IF IsError(result) THEN "Error" ELSE result

(* The longer of the two is not taken (mutant of Validity).                *)
SlipValidity == 3 * Interval

(* The validity that setEndsAt gives an alert.                             *)
Validity == 3 * (IF Interval > ResendDelay THEN Interval ELSE ResendDelay)

(* The state a cache miss creates: Go's zero values, and a start if the    *)
(* first result fires.                                                     *)
NewState(result, now) ==
    [state |-> "Normal", reason |-> "none", resolved |-> FALSE,
     errLabels |-> FALSE,
     startsAt |-> IF result = "Alerting" THEN now ELSE ZeroTime,
     endsAt |-> ZeroTime, lastSentAt |-> ZeroTime, lastEval |-> ZeroTime]

Extend(a, now) == [a EXCEPT !.endsAt = now + Validity]

Enter(a, state, now) == Extend([a EXCEPT !.state = state, !.startsAt = now], now)

(* The interval that has begun counts as passed (mutant of ForElapsed).    *)
SlipForElapsed(a, rule, now) == now - a.startsAt + Interval >= rule.for

ForElapsed(a, rule, now) == now - a.startsAt >= rule.for

(* A resolution is given the validity of an alert (mutant of ResultNormal). *)
SlipResultNormal(a, now) == IF a.state = "Normal" THEN a ELSE Enter(a, "Normal", now)

ResultNormal(a, now) ==
    IF a.state = "Normal" THEN a
    ELSE [a EXCEPT !.state = "Normal", !.startsAt = now, !.endsAt = now]

ResultAlerting(a, rule, now) ==
    CASE a.state = "Alerting" -> Extend(a, now)
      [] a.state = "Pending" ->
            IF ForElapsed(a, rule, now) THEN Enter(a, "Alerting", now) ELSE a
      [] OTHER -> Enter(a, IF rule.for > 0 THEN "Pending" ELSE "Alerting", now)

(* What resultError does once ExecErrState chose a state other than OK.    *)
ErrorTo(a, rule, chosen, now) ==
    CASE a.state \in {"Alerting", "Error"} ->
            Extend([a EXCEPT !.state = chosen], now)
      [] a.state = "Pending" ->
            IF ForElapsed(a, rule, now) THEN Enter(a, chosen, now) ELSE a
      [] OTHER ->
            Enter(a, IF chosen = "Alerting" /\ rule.for > 0 THEN "Pending"
                                                            ELSE chosen, now)

ResultError(a, rule, result, now) ==
    CASE rule.execErr = "OK" -> ResultNormal(a, now)
      [] rule.execErr = "Alerting" -> ErrorTo(a, rule, "Alerting", now)
      [] rule.execErr = "Error" ->
            ErrorTo([a EXCEPT !.errLabels = @ \/ result = "QueryError"],
                    rule, "Error", now)

(* The option is taken for the state (mutant of NoDataTo).                 *)
SlipNoDataTo(rule) == rule.noData

NoDataTo(rule) == IF rule.noData = "OK" THEN "Normal" ELSE rule.noData

ResultNoData(a, rule, now) ==
    Extend([a EXCEPT !.state = NoDataTo(rule),
                     !.startsAt = IF @ = ZeroTime THEN now ELSE @], now)

Transition(a, rule, result, now) ==
    CASE result = "Normal" -> ResultNormal(a, now)
      [] result = "Alerting" -> ResultAlerting(a, rule, now)
      [] result = "NoData" -> ResultNoData(a, rule, now)
      [] IsError(result) -> ResultError(a, rule, result, now)

(* setNextState after the cache lookup: the transition, the reason, and    *)
(* the mark that makes the scheduler announce a resolution.                *)
NextState(a, rule, result, now) ==
    LET b == Transition(a, rule, result, now)
        mapped == /\ b.state # ResultState(result)
                  /\ result \notin {"Normal", "Alerting"}
    IN  [b EXCEPT !.lastEval = now,
                  !.reason = IF mapped THEN ResultState(result) ELSE "none",
                  !.resolved = a.state = "Alerting" /\ b.state = "Normal"]

(* stateIsStale                                                            *)
IsStale(a, now) == a.lastEval + 2 * Interval <= now

(* What staleResultsHandler makes of a firing series that vanished.        *)
ResolveMissing(a, now) ==
    [a EXCEPT !.state = "Normal", !.reason = "MissingSeries",
              !.endsAt = now, !.resolved = TRUE]

(* A resolution waits for ResendDelay, too (mutant of NeedsSending).       *)
SlipNeedsSending(a) ==
    /\ a.state # "Pending"
    /\ a.state = "Normal" => a.resolved
    /\ a.lastSentAt = ZeroTime \/ a.lastSentAt + ResendDelay <= a.lastEval

(* State.NeedsSending: Pending is never sent, Normal only as a resolution, *)
(* the others at most once per ResendDelay.                                *)
NeedsSending(a) ==
    CASE a.state = "Pending" -> FALSE
      [] a.state = "Normal" -> a.resolved
      [] OTHER -> a.lastSentAt = ZeroTime \/ a.lastSentAt + ResendDelay <= a.lastEval

(* The alertname stateToPostableAlert gives the alert at the Alertmanager. *)
AlertNames == {"Rule", "DatasourceNoData", "DatasourceError"}

AlertName(a) == CASE a.state = "NoData" -> "DatasourceNoData"
                  [] a.state = "Error" -> "DatasourceError"
                  [] OTHER -> "Rule"

(* The row saveAlertStates writes, and the state Warm makes of it: what is *)
(* neither firing nor normal comes back as an Error, and when the alert    *)
(* was last sent is forgotten.                                             *)
Rows == [state : EvalStates, reason : Reasons,
         startsAt : Nat, endsAt : Nat, lastEval : Nat]

RowOf(a) == [state |-> a.state, reason |-> a.reason, startsAt |-> a.startsAt,
             endsAt |-> a.endsAt, lastEval |-> a.lastEval]

TranslateInstanceState(s) == IF s \in {"Alerting", "Normal"} THEN s ELSE "Error"

WarmState(row, errLabels) ==
    [state |-> TranslateInstanceState(row.state), reason |-> row.reason,
     resolved |-> FALSE, errLabels |-> errLabels, startsAt |-> row.startsAt,
     endsAt |-> row.endsAt, lastSentAt |-> ZeroTime, lastEval |-> row.lastEval]
=============================================================================
