------------------------ MODULE StateManager_proofs ------------------------
(***************************************************************************)
(* Proofs about StateManager, for any series, rule options, interval and   *)
(* resend delay, and any bounds on time, upsets and lag.                   *)
(*                                                                         *)
(* Inv (types, an idle routine, the keys that exist) is inductive by       *)
(* itself; each property then has an invariant of its own, inductive given *)
(* Inv: PendingOK for FiringAfterFor, GhostOK for GhostsExpire, OpenOK for *)
(* ResolvedIsAnnounced, SentOK for FiringReachesAM and RowsOK for          *)
(* RestartLosesNothing.  Lemmas named ...Step say what an operator or an   *)
(* action does to one state or series, lemmas named ...Shape unfold an     *)
(* action, lemmas named ...Next show that every step keeps an invariant.   *)
(***************************************************************************)
EXTENDS StateManager, TLAPS

(* Between two evaluations nothing is left to be saved or posted. *)
IdleOK == pc = "idle" => processed = {} /\ todo = {} /\ missing = {}

(* Only cache IDs are processed; a state that Warm has read from a row with *)
(* the labels of an error has them, and nothing else has such a key.        *)
KeysOK == /\ processed \subseteq {CacheID(s) : s \in Series}
          /\ \A s \in Series : cache[<<s, TRUE>>] /= None => cache[<<s, TRUE>>].errLabels

(* A series that is pending has been firing since before that. *)
PendingOK == \A s \in Series :
    LET a == cache[CacheID(s)]
    IN  /\ hist[s].since <= now
        /\ a /= None /\ a.state = "Pending" =>
               hist[s].since /= ZeroTime /\ hist[s].since <= a.startsAt

(* What is cached or stored ends no later than what is posted may. *)
EndsInTime(h, t, end) == end <= h.abnormal + Validity \/ end <= t + MaxLag
GhostOK == /\ \A s \in Series : hist[s].abnormal <= now
           /\ \A k \in Keys : cache[k] /= None => EndsInTime(hist[k[1]], now, cache[k].endsAt)
           /\ \A k \in Keys : db[k] /= None => EndsInTime(hist[k[1]], now, db[k].endsAt)
           /\ GhostsExpire

(* An alert that is open is of a series that fires, or about to be closed. *)
IsFiring(s) == LET a == cache[CacheID(s)]
               IN  a /= None /\ a.state = "Alerting" /\ ~a.errLabels
IsResolved(s) == LET a == cache[CacheID(s)]
                 IN  CacheID(s) \in processed /\ a.state = "Normal" /\ ~a.errLabels /\ a.resolved
RuleAlert(s) == <<CacheID(s), "Rule">>
OpenOK == \A s \in Series :
    /\ am[RuleAlert(s)] > now + MaxLag =>
           hist[s].abandoned \/ IsFiring(s) \/ IsResolved(s) \/ RuleAlert(s) \in missing
    /\ IsResolved(s) => cache[CacheID(s)].endsAt <= now \/ hist[s].abandoned

(* An alert that fires is known, or was sent too recently under another     *)
(* name.                                                                    *)
IsKnown(s) == cache[CacheID(s)].lastSentAt + Validity <= am[RuleAlert(s)] + MaxLag
WasSentBefore(s) == cache[CacheID(s)].lastSentAt + Interval <= hist[s].firing + MaxLag
SentOK == \A s \in Series :
    LET a == cache[CacheID(s)]
    IN  a /= None =>
          /\ a.lastSentAt <= now + MaxLag
          /\ CacheID(s) \in processed => \/ a.lastSentAt = ZeroTime
                                         \/ a.lastSentAt + Interval <= now + MaxLag
          /\ hist[s].firing /= ZeroTime =>
               /\ a.state = "Alerting"
               /\ a.lastEval = now
               /\ a.endsAt = now + Validity
               /\ hist[s].firing <= now
               /\ pc = "save" => CacheID(s) \in processed
               /\ ~a.errLabels =>
                    /\ a.lastSentAt /= ZeroTime => IsKnown(s) \/ WasSentBefore(s)
                    /\ pc = "idle" => /\ a.lastSentAt /= ZeroTime
                                      /\ IF IsKnown(s) THEN am[RuleAlert(s)] > now + Interval
                                         ELSE a.lastSentAt + ResendDelay > now
          /\ CacheID(s) \in processed => RuleAlert(s) \notin missing

(* What is stored is what is cached, unless it is still to be saved. *)
IsStored(a, row) ==
    IF a = None THEN row = None
    ELSE /\ row /= None
         /\ TranslateInstanceState(row.state) = TranslateInstanceState(a.state)
         /\ row.startsAt = a.startsAt
         /\ row.endsAt = a.endsAt
         /\ row.lastEval = a.lastEval
RowsOK == \A s \in Series : ~lost /\ ~hist[s].relabelled =>
    LET k == CacheID(s)
    IN  /\ cache[k] /= None => ~cache[k].errLabels
        /\ k \in todo \/ IsStored(cache[k], db[k])
        /\ k \in todo => cache[k] /= None
-----------------------------------------------------------------------------
(* What one transition of one instance may do: to its clocks, *)
IsClocked(a, b, result, t) ==
    /\ b.lastEval = t
    /\ b.lastSentAt = a.lastSentAt
    /\ \/ b.endsAt = a.endsAt
       \/ b.endsAt = t
       \/ result /= "Normal" /\ b.endsAt = t + Validity
    /\ b.state = "Alerting" => b.endsAt = t + Validity

(* into Pending and Alerting, *)
IsHeld(a, b, opts, result, t) ==
    /\ b.state = "Pending" => /\ FiringResult(result)
                              /\ \/ a.state = "Pending" /\ b.startsAt = a.startsAt
                                 \/ b.startsAt = t
    /\ b.state = "Alerting" /\ a.state /= "Alerting" /\ result = "Alerting" =>
           \/ opts.for = 0
           \/ a.state = "Pending" /\ t - a.startsAt >= opts.for

(* and out of Alerting. *)
IsEnded(a, b, result, t) ==
    /\ b.resolved = (a.state = "Alerting" /\ b.state = "Normal")
    /\ a.state = "Alerting" /\ b.state = "Normal" => b.endsAt = t \/ result = "NoData"
    /\ a.errLabels => b.errLabels
    /\ b.state \in {"Alerting", "Normal"} => b.errLabels = a.errLabels

(* The validity of an alert is a number, three times the interval at least. *)
LEMMA ValidityIsLong == /\ Validity \in Nat
                        /\ Validity >= 3 * Interval
                        /\ Validity >= 3 * ResendDelay
BY IntervalAssumption, ResendDelayAssumption DEF Validity

(* A sum is no less than either of its parts. *)
LEMMA SumsGrow == \A m, n \in Nat : m + n \in Nat /\ 0 <= m + n /\ m <= m + n /\ n <= m + n
OBVIOUS

(* Extend sets the end of a state. *)
LEMMA ExtendStep ==
    ASSUME NEW a \in AlertStates, NEW t \in Nat, NEW b, b = Extend(a, t)
    PROVE  /\ b \in AlertStates
           /\ b.endsAt = t + Validity
           /\ b.state = a.state
           /\ b.startsAt = a.startsAt
           /\ b.lastSentAt = a.lastSentAt
           /\ b.errLabels = a.errLabels
BY ValidityIsLong DEF Extend, AlertStates

(* A change of state alone. *)
LEMMA SetStateStep ==
    ASSUME NEW a \in AlertStates, NEW state \in EvalStates,
           NEW b, b = [a EXCEPT !.state = state]
    PROVE  /\ b \in AlertStates
           /\ b.endsAt = a.endsAt
           /\ b.state = state
           /\ b.startsAt = a.startsAt
           /\ b.lastSentAt = a.lastSentAt
           /\ b.errLabels = a.errLabels
BY DEF AlertStates

(* Enter starts a state. *)
LEMMA EnterStep ==
    ASSUME NEW a \in AlertStates, NEW state \in EvalStates, NEW t \in Nat,
           NEW b, b = Enter(a, state, t)
    PROVE  /\ b \in AlertStates
           /\ b.endsAt = t + Validity
           /\ b.state = state
           /\ b.startsAt = t
           /\ b.lastSentAt = a.lastSentAt
           /\ b.errLabels = a.errLabels
<1> DEFINE c == [a EXCEPT !.state = state, !.startsAt = t]
<1>1. /\ c \in AlertStates
      /\ c.state = state /\ c.startsAt = t
      /\ c.lastSentAt = a.lastSentAt /\ c.errLabels = a.errLabels
  BY DEF AlertStates
<1>2. b = Extend(c, t)
  BY DEF Enter
<1> HIDE DEF c
<1> QED BY <1>1, <1>2, ExtendStep

(* resultNormal *)
LEMMA NormalStep ==
    ASSUME NEW a \in AlertStates, NEW t \in Nat, NEW b, b = ResultNormal(a, t)
    PROVE  /\ b \in AlertStates
           /\ b.state = "Normal"
           /\ b.lastSentAt = a.lastSentAt
           /\ b.errLabels = a.errLabels
           /\ b.endsAt \in {a.endsAt, t}
           /\ a.state /= "Normal" => b.endsAt = t
<1>1. CASE a.state = "Normal"
  BY <1>1 DEF ResultNormal
<1>2. CASE a.state /= "Normal"
  BY <1>2 DEF ResultNormal, AlertStates, EvalStates
<1> QED BY <1>1, <1>2

(* resultAlerting *)
LEMMA AlertingStep ==
    ASSUME NEW a \in AlertStates, NEW opts \in RuleOptions, NEW t \in Nat,
           NEW b, b = ResultAlerting(a, opts, t)
    PROVE  /\ b \in AlertStates
           /\ b.state \in {"Pending", "Alerting"}
           /\ b.lastSentAt = a.lastSentAt
           /\ b.errLabels = a.errLabels
           /\ b.endsAt \in {a.endsAt, t + Validity}
           /\ b.state = "Alerting" => b.endsAt = t + Validity
           /\ b.state = "Pending" => \/ a.state = "Pending" /\ b.startsAt = a.startsAt
                                     \/ b.startsAt = t
           /\ b.state = "Alerting" /\ a.state /= "Alerting" =>
                  \/ opts.for = 0
                  \/ a.state = "Pending" /\ t - a.startsAt >= opts.for
<1>0. {"Pending", "Alerting", "Error"} \subseteq EvalStates
  BY DEF EvalStates
<1>1. CASE a.state = "Alerting"
  BY <1>1, ExtendStep DEF ResultAlerting
<1>2. CASE a.state = "Pending"
  <2>1. b = IF ForElapsed(a, opts, t) THEN Enter(a, "Alerting", t) ELSE a
    BY <1>2 DEF ResultAlerting
  <2>2. CASE ForElapsed(a, opts, t)
    BY <1>0, <1>2, <2>1, <2>2, EnterStep DEF ForElapsed
  <2>3. CASE ~ForElapsed(a, opts, t)
    BY <1>2, <2>1, <2>3
  <2> QED BY <2>2, <2>3
<1>3. CASE a.state \notin {"Alerting", "Pending"}
  <2>1. PICK state \in {"Pending", "Alerting"} :
            /\ b = Enter(a, state, t)
            /\ state = "Alerting" => opts.for = 0
    BY <1>3 DEF ResultAlerting, RuleOptions
  <2>2. /\ b \in AlertStates /\ b.state = state /\ b.startsAt = t /\ b.endsAt = t + Validity
        /\ b.lastSentAt = a.lastSentAt /\ b.errLabels = a.errLabels
    BY <1>0, <2>1, EnterStep
  <2> QED BY <1>3, <2>1, <2>2
<1> QED BY <1>1, <1>2, <1>3

(* resultError, once a state has been chosen *)
LEMMA ErrorToStep ==
    ASSUME NEW a \in AlertStates, NEW opts \in RuleOptions, NEW t \in Nat,
           NEW chosen \in {"Alerting", "Error"},
           NEW b, b = ErrorTo(a, opts, chosen, t)
    PROVE  /\ b \in AlertStates
           /\ b.state \in {"Pending", chosen}
           /\ b.lastSentAt = a.lastSentAt
           /\ b.errLabels = a.errLabels
           /\ b.endsAt \in {a.endsAt, t + Validity}
           /\ b.state = chosen => b.endsAt = t + Validity
           /\ b.state = "Pending" => \/ a.state = "Pending" /\ b.startsAt = a.startsAt
                                     \/ b.startsAt = t
<1>0. {"Pending", "Alerting", "Error"} \subseteq EvalStates
  BY DEF EvalStates
<1>1. CASE a.state \in {"Alerting", "Error"}
  <2> DEFINE c == [a EXCEPT !.state = chosen]
  <2>1. b = Extend(c, t)
    BY <1>1 DEF ErrorTo
  <2>2. /\ c \in AlertStates /\ c.state = chosen
        /\ c.lastSentAt = a.lastSentAt /\ c.errLabels = a.errLabels
    BY SetStateStep DEF EvalStates
  <2> HIDE DEF c
  <2> QED BY <2>1, <2>2, ExtendStep
<1>2. CASE a.state = "Pending"
  <2>1. b = IF ForElapsed(a, opts, t) THEN Enter(a, chosen, t) ELSE a
    BY <1>2 DEF ErrorTo
  <2>2. CASE ForElapsed(a, opts, t)
    BY <1>0, <1>2, <2>1, <2>2, EnterStep
  <2>3. CASE ~ForElapsed(a, opts, t)
    BY <1>2, <2>1, <2>3
  <2> QED BY <2>2, <2>3
<1>3. CASE a.state \notin {"Alerting", "Error", "Pending"}
  <2>1. PICK state \in {"Pending", chosen} : b = Enter(a, state, t)
    BY <1>3 DEF ErrorTo
  <2> QED BY <1>0, <1>3, <2>1, EnterStep
<1> QED
  <2>1. a.state \in EvalStates
    BY DEF AlertStates
  <2> QED BY <1>1, <1>2, <1>3, <2>1 DEF EvalStates

(* resultNoData *)
LEMMA NoDataStep ==
    ASSUME NEW a \in AlertStates, NEW opts \in RuleOptions, NEW t \in Nat,
           NEW b, b = ResultNoData(a, opts, t)
    PROVE  /\ b \in AlertStates
           /\ b.state \in {"Alerting", "NoData", "Normal"}
           /\ b.lastSentAt = a.lastSentAt
           /\ b.errLabels = a.errLabels
           /\ b.endsAt = t + Validity
<1> DEFINE start == IF a.startsAt = ZeroTime THEN t ELSE a.startsAt
           c == [a EXCEPT !.state = NoDataTo(opts), !.startsAt = start]
<1>1. NoDataTo(opts) \in {"Alerting", "NoData", "Normal"}
  BY DEF NoDataTo, RuleOptions
<1>2. start \in Nat
  BY DEF AlertStates
<1>3. b = Extend(c, t)
  BY DEF ResultNoData
<1> HIDE DEF start
<1>4. /\ c \in AlertStates /\ c.state = NoDataTo(opts)
      /\ c.lastSentAt = a.lastSentAt /\ c.errLabels = a.errLabels
  BY <1>1, <1>2 DEF AlertStates, EvalStates
<1> HIDE DEF c
<1> QED BY <1>1, <1>3, <1>4, ExtendStep

(* resultError *)
LEMMA ErrorStep ==
    ASSUME NEW a \in AlertStates, NEW opts \in RuleOptions, NEW t \in Nat,
           NEW result, IsError(result), NEW b, b = ResultError(a, opts, result, t)
    PROVE  /\ b \in AlertStates
           /\ b.lastSentAt = a.lastSentAt
           /\ b.endsAt \in {a.endsAt, t, t + Validity}
           /\ b.state = "Alerting" => b.endsAt = t + Validity
           /\ b.state \in {"Alerting", "Normal"} => b.errLabels = a.errLabels
           /\ b.state = "Pending" => \/ a.state = "Pending" /\ b.startsAt = a.startsAt
                                     \/ b.startsAt = t
           /\ a.state = "Alerting" /\ b.state = "Normal" => b.endsAt = t
           /\ a.errLabels => b.errLabels
<1>1. CASE opts.execErr = "OK"
  <2>1. b = ResultNormal(a, t)
    BY <1>1 DEF ResultError
  <2> QED BY <2>1, NormalStep
<1>2. CASE opts.execErr = "Alerting"
  <2>1. b = ErrorTo(a, opts, "Alerting", t)
    BY <1>2 DEF ResultError
  <2> QED BY <2>1, ErrorToStep
<1>3. CASE opts.execErr = "Error"
  <2> DEFINE c == [a EXCEPT !.errLabels = @ \/ result = "QueryError"]
  <2>1. b = ErrorTo(c, opts, "Error", t)
    BY <1>3 DEF ResultError
  <2>2. /\ c \in AlertStates /\ c.state = a.state /\ c.startsAt = a.startsAt
        /\ c.endsAt = a.endsAt /\ c.lastSentAt = a.lastSentAt
        /\ a.errLabels => c.errLabels
    BY DEF AlertStates
  <2> HIDE DEF c
  <2>3. "Error" \in {"Alerting", "Error"}
    OBVIOUS
  <2> QED BY <2>1, <2>2, <2>3, ErrorToStep
<1> QED BY <1>1, <1>2, <1>3 DEF RuleOptions

(* setNextState: whatever the result, the step is one of the above. *)
LEMMA NextStateStep ==
    ASSUME NEW a \in AlertStates, NEW opts \in RuleOptions, NEW result \in Results,
           NEW t \in Nat, NEW b, b = NextState(a, opts, result, t)
    PROVE  /\ b \in AlertStates
           /\ IsClocked(a, b, result, t)
           /\ IsHeld(a, b, opts, result, t)
           /\ IsEnded(a, b, result, t)
<1> DEFINE c == Transition(a, opts, result, t)
<1>1. /\ c \in AlertStates
      /\ c.lastSentAt = a.lastSentAt
      /\ \/ c.endsAt = a.endsAt
         \/ c.endsAt = t
         \/ result /= "Normal" /\ c.endsAt = t + Validity
      /\ c.state = "Alerting" => c.endsAt = t + Validity
      /\ c.state \in {"Alerting", "Normal"} => c.errLabels = a.errLabels
      /\ a.state = "Alerting" /\ c.state = "Normal" => c.endsAt = t \/ result = "NoData"
      /\ a.errLabels => c.errLabels
      /\ IsHeld(a, c, opts, result, t)
  <2>1. CASE result = "Normal"
    <3>1. c = ResultNormal(a, t)
      BY <2>1 DEF Transition, IsError
    <3> HIDE DEF c
    <3> QED BY <2>1, <3>1, NormalStep DEF IsHeld
  <2>2. CASE result = "Alerting"
    <3>1. c = ResultAlerting(a, opts, t)
      BY <2>2 DEF Transition, IsError
    <3> HIDE DEF c
    <3> QED BY <2>2, <3>1, AlertingStep DEF IsHeld, FiringResult
  <2>3. CASE result = "NoData"
    <3>1. c = ResultNoData(a, opts, t)
      BY <2>3 DEF Transition, IsError
    <3> HIDE DEF c
    <3> QED BY <2>3, <3>1, NoDataStep DEF IsHeld
  <2>4. CASE IsError(result)
    <3>1. c = ResultError(a, opts, result, t)
      BY <2>4 DEF Transition, IsError
    <3> HIDE DEF c
    <3>2. result \notin {"Normal", "Alerting"} /\ FiringResult(result)
      BY <2>4 DEF IsError, FiringResult
    <3> QED BY <2>4, <3>1, <3>2, ErrorStep DEF IsHeld
  <2> QED BY <2>1, <2>2, <2>3, <2>4 DEF Results, IsError
<1>2. PICK reason \in Reasons :
          b = [c EXCEPT !.lastEval = t, !.reason = reason,
                        !.resolved = a.state = "Alerting" /\ c.state = "Normal"]
  BY DEF NextState, ResultState, Reasons, Results, IsError
<1> HIDE DEF c
<1>3. /\ b \in AlertStates
      /\ b.lastEval = t
      /\ b.resolved = (a.state = "Alerting" /\ c.state = "Normal")
      /\ b.state = c.state /\ b.startsAt = c.startsAt /\ b.endsAt = c.endsAt
      /\ b.lastSentAt = c.lastSentAt /\ b.errLabels = c.errLabels
  BY <1>1, <1>2 DEF AlertStates
<1> QED BY <1>1, <1>3 DEF IsClocked, IsHeld, IsEnded

(* The state a cache miss creates has never been sent and does not fire.   *)
LEMMA NewStateStep ==
    ASSUME NEW result \in Results, NEW t \in Nat, NEW a, a = NewState(result, t)
    PROVE  /\ a \in AlertStates
           /\ a.state = "Normal"
           /\ ~a.errLabels
           /\ a.lastSentAt = ZeroTime
           /\ a.endsAt = ZeroTime
BY DEF NewState, AlertStates, EvalStates, Reasons, ZeroTime

(* Every state has a row. *)
LEMMA RowStep ==
    ASSUME NEW a \in AlertStates
    PROVE  RowOf(a) \in Rows
BY DEF RowOf, Rows, AlertStates

(* Warm never makes a Pending state, nor one that has been sent. *)
LEMMA WarmStep ==
    ASSUME NEW row \in Rows, NEW errLabels \in BOOLEAN, NEW a, a = WarmState(row, errLabels)
    PROVE  /\ a \in AlertStates
           /\ a.state = TranslateInstanceState(row.state)
           /\ a.state /= "Pending"
           /\ a.errLabels = errLabels
           /\ a.startsAt = row.startsAt
           /\ a.endsAt = row.endsAt
           /\ a.lastSentAt = ZeroTime
           /\ a.lastEval = row.lastEval
BY DEF WarmState, AlertStates, Rows, EvalStates, TranslateInstanceState, ZeroTime

(* Pairs are equal if their parts are. *)
LEMMA PairsAgree == \A a, b, c, d : <<a, b>> = <<c, d>> => a = c /\ b = d
OBVIOUS

(* A state that vanishes does so under its own name or that of the rule. *)
LEMMA AlertNameIsName == \A a : AlertName(a) \in AlertNames
BY DEF AlertName, AlertNames
-----------------------------------------------------------------------------
(* The steps of the routine. *)

(* A key is a series and whether it has the labels of an error. *)
LEMMA KeyIsPair ==
    /\ \A k \in Keys : k[1] \in Series /\ k[2] \in BOOLEAN /\ k = <<k[1], k[2]>>
    /\ \A s \in Series, e \in BOOLEAN : <<s, e>> \in Keys
    /\ \A s \in Series : /\ CacheID(s) \in Keys
                         /\ CacheID(s) = <<s, FALSE>>
                         /\ CacheID(s)[1] = s
    /\ \A s \in Series : RuleAlert(s) \in AlertIds
<1>1. \A k \in Keys : k[1] \in Series /\ k[2] \in BOOLEAN /\ k = <<k[1], k[2]>>
  BY DEF Keys
<1>2. \A s \in Series, e \in BOOLEAN : <<s, e>> \in Keys
  BY DEF Keys
<1>3. \A s \in Series : CacheID(s) \in Keys /\ CacheID(s) = <<s, FALSE>> /\ CacheID(s)[1] = s
  BY <1>2 DEF CacheID
<1>4. \A s \in Series : RuleAlert(s) \in AlertIds
  BY <1>3 DEF RuleAlert, AlertIds, AlertNames
<1> QED BY <1>1, <1>2, <1>3, <1>4

(* What is not in the cache is not a state, what is not in the table no row. *)
LEMMA NoneIsNeither == None \notin AlertStates /\ None \notin Rows
BY NoneAssumption

(* The evaluation of results res at time t changes the cache series by     *)
(* series.                                                                 *)
LEMMA EvaluatedKeys ==
    ASSUME TypeOK, NEW res \in Evaluations, NEW t \in Nat
    PROVE  /\ \A k \in Keys : k \in ResultKeys(res) <=> ~k[2] /\ res[k[1]] /= Absent
           /\ \A s \in Series : CacheID(s) \in ResultKeys(res) <=> res[s] /= Absent
           /\ \A k \in Keys : k \notin ResultKeys(res) =>
                  CacheAfter(res, t)[k] = IF k \in StaleKeys(res, t) THEN None ELSE cache[k]
           /\ \A k \in StaleKeys(res, t) : /\ k \in Keys /\ cache[k] /= None
                                           /\ k \notin ResultKeys(res)
<1>1. \A k \in Keys : k \in ResultKeys(res) <=> ~k[2] /\ res[k[1]] /= Absent
  <2> TAKE k \in Keys
  <2>1. k[1] \in Series /\ k[2] \in BOOLEAN /\ k = <<k[1], k[2]>>
    BY KeyIsPair
  <2>2. ASSUME k \in ResultKeys(res) PROVE ~k[2] /\ res[k[1]] /= Absent
    <3>1. PICK s \in Series : res[s] /= Absent /\ k = <<s, FALSE>>
      BY <2>2 DEF ResultKeys, CacheID
    <3> QED BY <3>1
  <2>3. ASSUME ~k[2], res[k[1]] /= Absent PROVE k \in ResultKeys(res)
    BY <2>1, <2>3 DEF ResultKeys, CacheID
  <2> QED BY <2>1, <2>2, <2>3
<1>2. \A s \in Series : CacheID(s) \in ResultKeys(res) <=> res[s] /= Absent
  BY <1>1, KeyIsPair DEF CacheID
<1> QED BY <1>1, <1>2 DEF CacheAfter, StaleKeys

(* A result takes the state of its series, or a new one, one step further. *)
LEMMA EvaluatedSeries ==
    ASSUME TypeOK, NEW res \in Evaluations, NEW t \in Nat, NEW s \in Series, res[s] /= Absent
    PROVE  LET a == GetOrCreate(CacheID(s), res[s], t)
               b == CacheAfter(res, t)[CacheID(s)]
           IN  /\ res[s] \in Results
               /\ a \in AlertStates
               /\ cache[CacheID(s)] /= None => a = cache[CacheID(s)]
               /\ cache[CacheID(s)] = None => /\ a.state = "Normal" /\ ~a.errLabels
                                              /\ a.lastSentAt = ZeroTime /\ a.endsAt = ZeroTime
               /\ b = SetNextState(CacheID(s), res, t)
               /\ b \in AlertStates /\ b /= None
               /\ IsClocked(a, b, res[s], t)
               /\ IsHeld(a, b, rule, res[s], t)
               /\ IsEnded(a, b, res[s], t)
<1> DEFINE k == CacheID(s)
           a == GetOrCreate(k, res[s], t)
           b == CacheAfter(res, t)[k]
<1>1. res[s] \in Results
  BY DEF Evaluations
<1>2. /\ a \in AlertStates
      /\ cache[k] /= None => a = cache[k]
      /\ cache[k] = None => /\ a.state = "Normal" /\ ~a.errLabels
                             /\ a.lastSentAt = ZeroTime /\ a.endsAt = ZeroTime
  BY <1>1, KeyIsPair, NewStateStep, ZenonT(60) DEF GetOrCreate, TypeOK
<1>3. b = SetNextState(k, res, t)
  BY EvaluatedKeys, KeyIsPair DEF CacheAfter
<1>4. b = NextState(a, rule, res[s], t)
  BY <1>3, KeyIsPair DEF SetNextState
<1>5. rule \in RuleOptions
  BY RuleConfigsAssumption DEF TypeOK
<1> HIDE DEF a, b, k
<1>6. /\ b \in AlertStates
      /\ IsClocked(a, b, res[s], t)
      /\ IsHeld(a, b, rule, res[s], t)
      /\ IsEnded(a, b, res[s], t)
  BY <1>1, <1>2, <1>4, <1>5, NextStateStep
<1>7. b /= None
  BY <1>6, NoneIsNeither
<1> QED BY <1>1, <1>2, <1>3, <1>6, <1>7 DEF a, b, k

(* Every evaluation has results, and a time at least an interval later.    *)
LEMMA EvaluateShape ==
    ASSUME TypeOK, Evaluate
    PROVE  \E res \in Evaluations, deleted \in BOOLEAN :
              LET stale == StaleKeys(res, now') IN
              /\ now' \in Nat /\ now' >= now + Interval
              /\ pc = "idle" /\ pc' = "save"
              /\ upsets' \in 0..MaxUpsets
              /\ cache' = CacheAfter(res, now')
              /\ db' = IF deleted THEN DeleteRows({Labels(k) : k \in stale}) ELSE db
              /\ lost' = (lost \/ ~deleted)
              /\ missing' = MissingAlerts(res, now')
              /\ processed' = ResultKeys(res) /\ todo' = ResultKeys(res)
              /\ hist' = [s \in Series |->
                    IF res[s] = Absent THEN HistAbsent(hist[s])
                    ELSE HistAfter(hist[s], cache[CacheID(s)],
                                   SetNextState(CacheID(s), res, now'),
                                   res[s], now')]
              /\ started' = TRUE /\ UNCHANGED <<rule, dirty, am>>
<1>1. PICK res \in Evaluations, ticks \in 1..MaxSkip, deleted \in BOOLEAN :
          LET t == now + ticks * Interval
              stale == StaleKeys(res, t)
          IN  /\ Upset(Fails(ticks = 1) + Fails(deleted))
              /\ now' = t
              /\ cache' = CacheAfter(res, t)
              /\ db' = IF deleted THEN DeleteRows({Labels(k) : k \in stale}) ELSE db
              /\ lost' = (lost \/ ~deleted)
              /\ missing' = MissingAlerts(res, t)
              /\ processed' = ResultKeys(res)
              /\ todo' = ResultKeys(res)
              /\ hist' = [s \in Series |->
                    IF res[s] = Absent THEN HistAbsent(hist[s])
                    ELSE HistAfter(hist[s], cache[CacheID(s)],
                                   SetNextState(CacheID(s), res, t),
                                   res[s], t)]
  BY ZenonT(60) DEF Evaluate
<1>2. now' \in Nat /\ now' >= now + Interval
  <2>1. /\ now' = now + ticks * Interval /\ now \in Nat
        /\ ticks \in Nat /\ ticks >= 1 /\ Interval \in Nat
    BY <1>1, IntervalAssumption, TimeAssumption DEF TypeOK
  <2>2. ticks * Interval \in Nat /\ ticks * Interval >= Interval
    BY <2>1
  <2> HIDE DEF Evaluations
  <2> QED BY <2>1, <2>2
<1>3. upsets' \in 0..MaxUpsets
  BY <1>1, TimeAssumption DEF Upset, Fails, TypeOK
<1> QED
  <2>1. /\ pc = "idle" /\ pc' = "save" /\ started' = TRUE /\ UNCHANGED <<rule, dirty, am>>
    BY DEF Evaluate
  <2> QED BY <1>1, <1>2, <1>3, <2>1, Zenon

(* The labels of a cached state are a key of its series. *)
LEMMA LabelsAreKeys ==
    ASSUME TypeOK, NEW k \in Keys, cache[k] /= None
    PROVE  /\ cache[k] \in AlertStates
           /\ Labels(k) \in Keys
           /\ Labels(k) = <<k[1], cache[k].errLabels>>
           /\ \A name \in AlertNames : <<Labels(k), name>> \in AlertIds
           /\ AlertId(k) \in AlertIds
<1>1. cache[k] \in AlertStates
  BY DEF TypeOK
<1>2. Labels(k) \in Keys /\ Labels(k) = <<k[1], cache[k].errLabels>>
  BY <1>1, KeyIsPair DEF Labels, AlertStates
<1> QED BY <1>1, <1>2, AlertNameIsName DEF AlertIds, AlertId

(* What is posted about a vanished series. *)
LEMMA MissingShape ==
    ASSUME TypeOK, NEW res \in Evaluations, NEW t \in Nat
    PROVE  /\ MissingAlerts(res, t) \subseteq AlertIds
           /\ \A id \in MissingAlerts(res, t) :
                  \E k \in StaleKeys(res, t) : id = <<Labels(k), "Rule">>
           /\ \A k \in StaleKeys(res, t) :
                  cache[k].state = "Alerting" => <<Labels(k), "Rule">> \in MissingAlerts(res, t)
<1>1. \A k \in StaleKeys(res, t) : AlertName(ResolveMissing(cache[k], t)) = "Rule"
  <2> TAKE k \in StaleKeys(res, t)
  <2>1. cache[k] \in AlertStates
    BY EvaluatedKeys, LabelsAreKeys
  <2>2. ResolveMissing(cache[k], t).state = "Normal"
    BY <2>1 DEF ResolveMissing, AlertStates
  <2> QED BY <2>2 DEF AlertName
<1>2. \A k \in StaleKeys(res, t) : <<Labels(k), "Rule">> \in AlertIds
  BY EvaluatedKeys, LabelsAreKeys DEF AlertNames
<1> QED BY <1>1, <1>2 DEF MissingAlerts

(* What the history of a series becomes. *)
IsRecorded(h, g, before, after, result, t) ==
    /\ g.lastResult = result
    /\ g.since \in {ZeroTime, t, h.since}
    /\ FiringResult(result) => \/ g.since = t
                               \/ before /= None /\ g.since = h.since /\ h.since /= ZeroTime
    /\ FiringResult(result) /\ before /= None /\ h.since /= ZeroTime => g.since = h.since
    /\ g.abnormal = IF result = "Normal" THEN h.abnormal ELSE t
    /\ after.state /= "Alerting" => g.firing = ZeroTime
    /\ after.state = "Alerting" => \/ g.firing = t
                                   \/ /\ before /= None
                                      /\ h.firing /= ZeroTime
                                      /\ g.firing = h.firing
    /\ h.abandoned => g.abandoned \/ (after.state = "Alerting" /\ ~after.errLabels)
    /\ /\ before /= None /\ before.state = "Alerting"
       /\ after.state \notin {"Normal", "Alerting"} \/
              (after.state = "Normal" /\ result = "NoData")
       => g.abandoned
    /\ g.relabelled = (h.relabelled \/ after.errLabels)

(* The history records what it should. *)
LEMMA HistStep ==
    ASSUME NEW h \in Histories, NEW before \in AlertStates \cup {None},
           NEW after \in AlertStates, NEW result \in Results, NEW t \in Nat,
           NEW g, g = HistAfter(h, before, after, result, t)
    PROVE  g \in Histories /\ IsRecorded(h, g, before, after, result, t)
<1>1. /\ g.lastResult = result
      /\ g.since = IF ~FiringResult(result) THEN ZeroTime
                   ELSE IF before = None \/ h.since = ZeroTime THEN t ELSE h.since
      /\ g.firing = IF after.state # "Alerting" THEN ZeroTime
                    ELSE IF /\ before # None
                            /\ before.state = "Alerting"
                            /\ h.firing # ZeroTime
                         THEN h.firing ELSE t
      /\ g.abnormal = IF result = "Normal" THEN h.abnormal ELSE t
      /\ g.abandoned = IF after.state = "Alerting" /\ ~after.errLabels THEN FALSE
                       ELSE \/ h.abandoned
                            \/ /\ before # None
                               /\ before.state = "Alerting"
                               /\ after.state # "Normal" \/ result = "NoData"
      /\ g.relabelled = (h.relabelled \/ after.errLabels)
  BY DEF HistAfter
<1>2. /\ g.since \in Nat /\ g.firing \in Nat /\ g.abnormal \in Nat
      /\ g.lastResult \in Results \cup {Absent}
  BY <1>1 DEF Histories, ZeroTime
<1>3. g.abandoned \in BOOLEAN /\ g.relabelled \in BOOLEAN
  BY <1>1 DEF Histories, AlertStates
<1>4. g \in Histories
  BY <1>2, <1>3 DEF HistAfter, Histories
<1>5. /\ g.since \in {ZeroTime, t, h.since}
      /\ FiringResult(result) => \/ g.since = t
                                 \/ before /= None /\ g.since = h.since /\ h.since /= ZeroTime
      /\ FiringResult(result) /\ before /= None /\ h.since /= ZeroTime => g.since = h.since
  BY <1>1
<1>6. /\ after.state /= "Alerting" => g.firing = ZeroTime
      /\ after.state = "Alerting" => \/ g.firing = t
                                     \/ /\ before /= None
                                        /\ h.firing /= ZeroTime
                                        /\ g.firing = h.firing
  BY <1>1
<1>7. CASE after.state = "Alerting" /\ ~after.errLabels
  <2>1. g.abandoned = FALSE
    BY <1>1, <1>7
  <2> QED BY <1>1, <1>4, <1>5, <1>6, <1>7, <2>1 DEF IsRecorded
<1>8. CASE ~(after.state = "Alerting" /\ ~after.errLabels)
  <2>1. g.abandoned = \/ h.abandoned
                      \/ /\ before # None
                         /\ before.state = "Alerting"
                         /\ after.state # "Normal" \/ result = "NoData"
    BY <1>1, <1>8
  <2>2. /\ h.abandoned => g.abandoned
        /\ /\ before /= None /\ before.state = "Alerting"
           /\ after.state \notin {"Normal", "Alerting"} \/
                  (after.state = "Normal" /\ result = "NoData")
           => g.abandoned
    BY <2>1
  <2> QED BY <1>1, <1>4, <1>5, <1>6, <1>8, <2>2 DEF IsRecorded
<1> QED BY <1>7, <1>8

(* What is posted after an evaluation, and to whom. *)
IsDue(k) == k \in processed /\ NeedsSending(cache[k])

(* Send posts what vanished as ended now, and of what is due the end of    *)
(* some state with that label set and name.                                *)
LEMMA SendShape ==
    ASSUME TypeOK, Send
    PROVE  /\ pc = "save" /\ pc' = "idle" /\ todo = {}
           /\ processed' = {} /\ missing' = {}
           /\ UNCHANGED <<rule, dirty, started, now, db, todo, upsets, lost, hist>>
           /\ \E lag \in 0..MaxLag :
                  cache' = [k \in Keys |-> IF IsDue(k) THEN [cache[k] EXCEPT !.lastSentAt = now + lag]
                                           ELSE cache[k]]
           /\ am' \in [AlertIds -> {am'[id] : id \in AlertIds}]
           /\ \A id \in AlertIds :
                  \/ id \in missing /\ am'[id] = now
                  \/ /\ id \notin missing
                     /\ \E k \in Keys : IsDue(k) /\ AlertId(k) = id /\ am'[id] = cache[k].endsAt
                  \/ /\ id \notin missing
                     /\ \A k \in Keys : ~(IsDue(k) /\ AlertId(k) = id)
                     /\ am'[id] = am[id]
<1> DEFINE due == {k \in processed : NeedsSending(cache[k])}
           sender(id) == CHOOSE k \in due : AlertId(k) = id
<1>1. processed \subseteq Keys /\ \A k \in Keys : k \in due <=> IsDue(k)
  BY DEF TypeOK, IsDue
<1>2. am' = [id \in AlertIds |->
                IF id \in missing THEN now
                ELSE IF \E k \in due : AlertId(k) = id THEN cache[sender(id)].endsAt
                ELSE am[id]]
  BY DEF Send
<1>3. ASSUME NEW id \in AlertIds, \E k \in due : AlertId(k) = id
      PROVE  sender(id) \in due /\ AlertId(sender(id)) = id
  BY <1>3
<1>4. \E lag \in 0..MaxLag :
          cache' = [k \in Keys |-> IF k \in due THEN [cache[k] EXCEPT !.lastSentAt = now + lag]
                                   ELSE cache[k]]
  BY DEF Send
<1>5. /\ pc = "save" /\ pc' = "idle" /\ todo = {}
      /\ processed' = {} /\ missing' = {}
      /\ UNCHANGED <<rule, dirty, started, now, db, todo, upsets, lost, hist>>
  BY DEF Send
<1>6. due \subseteq Keys
  BY <1>1
<1> HIDE DEF due, sender
<1>7. ASSUME NEW id \in AlertIds
      PROVE  \/ id \in missing /\ am'[id] = now
             \/ /\ id \notin missing
                /\ \E k \in Keys : IsDue(k) /\ AlertId(k) = id /\ am'[id] = cache[k].endsAt
             \/ /\ id \notin missing
                /\ \A k \in Keys : ~(IsDue(k) /\ AlertId(k) = id)
                /\ am'[id] = am[id]
  <2>1. am'[id] = IF id \in missing THEN now
                  ELSE IF \E k \in due : AlertId(k) = id THEN cache[sender(id)].endsAt
                  ELSE am[id]
    BY <1>2
  <2>2. CASE \E k \in due : AlertId(k) = id
    <3>1. sender(id) \in Keys /\ IsDue(sender(id)) /\ AlertId(sender(id)) = id
      BY <1>1, <1>3, <1>6, <2>2
    <3> QED BY <2>1, <2>2, <3>1
  <2>3. CASE ~ \E k \in due : AlertId(k) = id
    BY <1>1, <2>1, <2>3
  <2> QED BY <2>2, <2>3
<1>8. \E lag \in 0..MaxLag :
          cache' = [k \in Keys |-> IF IsDue(k) THEN [cache[k] EXCEPT !.lastSentAt = now + lag]
                                   ELSE cache[k]]
  <2>1. PICK lag \in 0..MaxLag :
          cache' = [k \in Keys |-> IF k \in due THEN [cache[k] EXCEPT !.lastSentAt = now + lag]
                                   ELSE cache[k]]
    BY <1>4
  <2>2. cache' = [k \in Keys |-> IF IsDue(k) THEN [cache[k] EXCEPT !.lastSentAt = now + lag]
                                 ELSE cache[k]]
    BY <1>1, <2>1
  <2> QED BY <2>2
<1>9. am' \in [AlertIds -> {am'[id] : id \in AlertIds}]
  BY <1>2
<1> QED BY <1>5, <1>7, <1>8, <1>9

(* Posting a state only sets when it was sent. *)
LEMMA SentStep ==
    ASSUME TypeOK, Send, NEW k \in Keys
    PROVE  /\ cache[k] = None <=> cache'[k] = None
           /\ ~IsDue(k) => cache'[k] = cache[k]
           /\ cache[k] /= None =>
                 /\ cache[k] \in AlertStates /\ cache'[k] \in AlertStates
                 /\ cache'[k].state = cache[k].state
                 /\ cache'[k].resolved = cache[k].resolved
                 /\ cache'[k].errLabels = cache[k].errLabels
                 /\ cache'[k].startsAt = cache[k].startsAt
                 /\ cache'[k].endsAt = cache[k].endsAt
                 /\ cache'[k].lastEval = cache[k].lastEval
                 /\ IsDue(k) => \E lag \in 0..MaxLag : cache'[k].lastSentAt = now + lag
<1>1. PICK lag \in 0..MaxLag :
          cache' = [x \in Keys |-> IF IsDue(x) THEN [cache[x] EXCEPT !.lastSentAt = now + lag]
                                   ELSE cache[x]]
  BY SendShape
<1>2. now + lag \in Nat
  BY LagAssumption DEF TypeOK
<1>3. CASE IsDue(k)
  <2>1. cache[k] \in AlertStates /\ cache[k] /= None
    BY <1>3 DEF IsDue, TypeOK
  <2>2. cache'[k] = [cache[k] EXCEPT !.lastSentAt = now + lag]
    BY <1>1, <1>3
  <2>3. cache'[k] \in AlertStates
    BY <1>2, <2>1, <2>2 DEF AlertStates
  <2>4. cache'[k] /= None
    BY <2>3, NoneIsNeither
  <2> QED BY <1>3, <2>1, <2>2, <2>3, <2>4 DEF AlertStates
<1>4. CASE ~IsDue(k)
  BY <1>1, <1>4 DEF TypeOK
<1> QED BY <1>3, <1>4

(* An evaluation, series by series: one that had a result takes a step,    *)
(* from a new state if it was not cached; one that had none stays or       *)
(* vanishes.                                                               *)
Stepped(s, a, result) ==
    LET k == CacheID(s) IN
    /\ a \in AlertStates
    /\ cache[k] /= None => a = cache[k]
    /\ cache[k] = None => /\ a.state = "Normal" /\ ~a.errLabels
                          /\ a.lastSentAt = ZeroTime /\ a.endsAt = ZeroTime
    /\ cache'[k] \in AlertStates /\ cache'[k] /= None
    /\ IsClocked(a, cache'[k], result, now')
    /\ IsHeld(a, cache'[k], rule, result, now')
    /\ IsEnded(a, cache'[k], result, now')

Recorded(s, result) ==
    hist'[s] = HistAfter(hist[s], cache[CacheID(s)], cache'[CacheID(s)], result, now')

Vanishes(k) == k \in Keys /\ cache[k] /= None /\ cache'[k] = None /\ k \notin processed'

(* What Evaluate does, key by key. *)
LEMMA EvaluateStep ==
    ASSUME TypeOK, Evaluate
    PROVE  /\ now' \in Nat /\ now' >= now + Interval
           /\ pc = "idle" /\ pc' = "save" /\ started' = TRUE
           /\ upsets' \in 0..MaxUpsets
           /\ UNCHANGED <<rule, dirty, am>>
           /\ processed' = todo'
           /\ processed' \subseteq {CacheID(s) : s \in Series}
           /\ \A s \in Series :
                  IF CacheID(s) \in processed'
                  THEN \E result \in Results, a \in AlertStates :
                           Stepped(s, a, result) /\ Recorded(s, result)
                  ELSE hist'[s] = HistAbsent(hist[s])
           /\ \A k \in Keys \ processed' : cache'[k] \in {None, cache[k]}
           /\ \A id \in missing' : \E k \in Keys : Vanishes(k) /\ id = <<Labels(k), "Rule">>
           /\ \A k \in Keys : Vanishes(k) /\ cache[k].state = "Alerting"
                                 => <<Labels(k), "Rule">> \in missing'
           /\ lost' \in BOOLEAN
           /\ \/ /\ lost' = lost
                 /\ \A k \in Keys : db'[k] = IF \E x \in Keys : Vanishes(x) /\ Labels(x) = k
                                             THEN None ELSE db[k]
              \/ lost' = TRUE /\ db' = db
           /\ missing' \subseteq AlertIds
           /\ cache' \in [Keys -> {cache'[k] : k \in Keys}]
           /\ db' \in [Keys -> {db'[k] : k \in Keys}]
           /\ hist' \in [Series -> {hist'[s] : s \in Series}]
<1>1. PICK res \in Evaluations, deleted \in BOOLEAN :
              LET stale == StaleKeys(res, now') IN
              /\ now' \in Nat /\ now' >= now + Interval
              /\ pc = "idle" /\ pc' = "save"
              /\ upsets' \in 0..MaxUpsets
              /\ cache' = CacheAfter(res, now')
              /\ db' = IF deleted THEN DeleteRows({Labels(k) : k \in stale}) ELSE db
              /\ lost' = (lost \/ ~deleted)
              /\ missing' = MissingAlerts(res, now')
              /\ processed' = ResultKeys(res) /\ todo' = ResultKeys(res)
              /\ hist' = [s \in Series |->
                    IF res[s] = Absent THEN HistAbsent(hist[s])
                    ELSE HistAfter(hist[s], cache[CacheID(s)],
                                   SetNextState(CacheID(s), res, now'),
                                   res[s], now')]
              /\ started' = TRUE /\ UNCHANGED <<rule, dirty, am>>
  BY EvaluateShape
<1>2. processed' = todo' /\ processed' \subseteq {CacheID(s) : s \in Series}
  BY <1>1 DEF ResultKeys
<1>3. \A k \in Keys : /\ Vanishes(k) <=> k \in StaleKeys(res, now')
                      /\ k \notin processed' => cache'[k] \in {None, cache[k]}
  BY <1>1, EvaluatedKeys DEF Vanishes
<1>4. ASSUME NEW s \in Series
      PROVE  IF CacheID(s) \in processed'
             THEN \E result \in Results, a \in AlertStates :
                      Stepped(s, a, result) /\ Recorded(s, result)
             ELSE hist'[s] = HistAbsent(hist[s])
  <2>1. CacheID(s) \in processed' <=> res[s] /= Absent
    BY <1>1, EvaluatedKeys
  <2>2. CASE res[s] /= Absent
    <3> DEFINE a == GetOrCreate(CacheID(s), res[s], now')
    <3>1. /\ res[s] \in Results
          /\ a \in AlertStates
          /\ cache[CacheID(s)] /= None => a = cache[CacheID(s)]
          /\ cache[CacheID(s)] = None => /\ a.state = "Normal" /\ ~a.errLabels
                                         /\ a.lastSentAt = ZeroTime /\ a.endsAt = ZeroTime
          /\ cache'[CacheID(s)] = SetNextState(CacheID(s), res, now')
          /\ cache'[CacheID(s)] \in AlertStates /\ cache'[CacheID(s)] /= None
          /\ IsClocked(a, cache'[CacheID(s)], res[s], now')
          /\ IsHeld(a, cache'[CacheID(s)], rule, res[s], now')
          /\ IsEnded(a, cache'[CacheID(s)], res[s], now')
      BY <1>1, <2>2, EvaluatedSeries
    <3> HIDE DEF a
    <3>2. Stepped(s, a, res[s])
      BY <3>1 DEF Stepped
    <3>3. Recorded(s, res[s])
      <4>1. hist'[s] = HistAfter(hist[s], cache[CacheID(s)], SetNextState(CacheID(s), res, now'),
                                 res[s], now')
        BY <1>1, <2>2
      <4>2. hist'[s] = HistAfter(hist[s], cache[CacheID(s)], cache'[CacheID(s)],
                                 res[s], now')
        BY <3>1, <4>1
      <4> QED BY <4>2 DEF Recorded
    <3> QED BY <2>1, <2>2, <3>1, <3>2, <3>3
  <2>3. CASE res[s] = Absent
    BY <1>1, <2>1, <2>3
  <2> QED BY <2>2, <2>3
<1>5. \A id \in missing' : \E k \in Keys : Vanishes(k) /\ id = <<Labels(k), "Rule">>
  BY <1>1, <1>3, MissingShape, EvaluatedKeys
<1>6. \A k \in Keys : Vanishes(k) /\ cache[k].state = "Alerting"
                         => <<Labels(k), "Rule">> \in missing'
  BY <1>1, <1>3, MissingShape
<1>7. missing' \subseteq AlertIds
  BY <1>1, MissingShape
<1>8. /\ lost' \in BOOLEAN
      /\ \/ /\ lost' = lost
            /\ \A k \in Keys : db'[k] = IF \E x \in Keys : Vanishes(x) /\ Labels(x) = k
                                        THEN None ELSE db[k]
         \/ lost' = TRUE /\ db' = db
  <2>1. CASE deleted
    <3>1. lost' = lost /\ lost \in BOOLEAN
      BY <1>1, <2>1 DEF TypeOK
    <3>2. \A k \in Keys : db'[k] = IF k \in {Labels(x) : x \in StaleKeys(res, now')}
                                   THEN None ELSE db[k]
      BY <1>1, <2>1 DEF DeleteRows
    <3>3. \A k \in Keys : k \in {Labels(x) : x \in StaleKeys(res, now')}
                          <=> \E x \in Keys : Vanishes(x) /\ Labels(x) = k
      BY <1>1, <1>3, EvaluatedKeys
    <3> QED BY <3>1, <3>2, <3>3
  <2>2. CASE ~deleted
    BY <1>1, <2>2
  <2> QED BY <2>1, <2>2
<1>9. /\ cache' \in [Keys -> {cache'[k] : k \in Keys}]
      /\ db' \in [Keys -> {db'[k] : k \in Keys}]
      /\ hist' \in [Series -> {hist'[s] : s \in Series}]
  <2>1. cache' = [k \in Keys |-> cache'[k]]
    BY <1>1 DEF CacheAfter
  <2>2. db' = [k \in Keys |-> db'[k]]
    BY <1>1 DEF DeleteRows, TypeOK
  <2>3. hist' = [s \in Series |-> hist'[s]]
    BY <1>1
  <2> QED BY <2>1, <2>2, <2>3
<1>10. /\ now' \in Nat /\ now' >= now + Interval
       /\ pc = "idle" /\ pc' = "save" /\ started' = TRUE
       /\ upsets' \in 0..MaxUpsets
       /\ UNCHANGED <<rule, dirty, am>>
  BY <1>1
<1> QED BY <1>2, <1>3, <1>4, <1>5, <1>6, <1>7, <1>8, <1>9, <1>10
-----------------------------------------------------------------------------
(* Types, what is idle and which keys there are. *)
Inv == TypeOK /\ IdleOK /\ KeysOK

(* The empty cache is well typed. *)
LEMMA InitInv == Init => Inv
<1> SUFFICES ASSUME Init PROVE Inv
  OBVIOUS
<1>1. \A s \in Series : hist[s] \in Histories
  BY DEF Init, Histories, ZeroTime
<1>2. hist \in [Series -> Histories] /\ am \in [AlertIds -> Nat]
  <2>1. hist \in [Series -> Histories]
    BY <1>1 DEF Init
  <2> QED BY <2>1 DEF Init, ZeroTime
<1>3. 0 \in 0..MaxUpsets /\ StartTime \in Nat \ {ZeroTime}
  BY TimeAssumption
<1>4. TypeOK
  BY <1>2, <1>3 DEF Init, TypeOK
<1> QED BY <1>4, KeyIsPair DEF Init, Inv, IdleOK, KeysOK

(* What ClearState posts is the present with a lag, to those it stops. *)
LEMMA ClearShape ==
    ASSUME TypeOK, ClearState
    PROVE  /\ pc = "idle" /\ dirty' = FALSE
           /\ upsets' \in 0..MaxUpsets /\ lost' \in BOOLEAN
           /\ UNCHANGED <<rule, started, now, pc, processed, todo, missing>>
           /\ cache' = [k \in Keys |-> None]
           /\ hist' = [s \in Series |-> HistCleared(hist[s])]
           /\ \/ db' = [k \in Keys |-> None] /\ lost' = lost
              \/ db' = db /\ (lost' \/ \A k \in Keys : cache[k] = None)
           /\ am' \in [AlertIds -> Nat]
           /\ \A id \in AlertIds : am'[id] = am[id] \/ am'[id] \in now..(now + MaxLag)
           /\ \A k \in Keys : cache[k] /= None /\ cache[k].state \notin {"Normal", "Pending"}
                              => am'[AlertId(k)] <= now + MaxLag
<1> DEFINE states == {k \in Keys : cache[k] # None}
           stopped == {AlertId(k) : k \in
                        {x \in states : cache[x].state \notin {"Normal", "Pending"}}}
<1>1. PICK deleted \in BOOLEAN :
          /\ deleted \/ states # {}
          /\ Upset(Fails(deleted))
          /\ db' = IF deleted /\ states # {} THEN DeleteRows(Keys) ELSE db
          /\ lost' = (lost \/ ~deleted)
  BY DEF ClearState
<1>2. PICK lag \in 0..MaxLag :
          am' = [id \in AlertIds |-> IF id \in stopped THEN now + lag ELSE am[id]]
  BY DEF ClearState
<1>3. upsets' \in 0..MaxUpsets /\ lost' \in BOOLEAN
  BY <1>1, TimeAssumption DEF Upset, Fails, TypeOK
<1>4. lag \in Nat /\ lag <= MaxLag /\ now \in Nat
  BY LagAssumption DEF TypeOK
<1>5. /\ am' \in [AlertIds -> Nat]
      /\ \A id \in AlertIds : am'[id] = am[id] \/ am'[id] \in now..(now + MaxLag)
  BY <1>2, <1>4, LagAssumption DEF TypeOK
<1>6. \A k \in Keys : cache[k] /= None /\ cache[k].state \notin {"Normal", "Pending"}
                      => am'[AlertId(k)] <= now + MaxLag
  <2> TAKE k \in Keys
  <2> HAVE cache[k] /= None /\ cache[k].state \notin {"Normal", "Pending"}
  <2>1. AlertId(k) \in stopped /\ AlertId(k) \in AlertIds
    BY LabelsAreKeys
  <2> HIDE DEF stopped
  <2>2. am'[AlertId(k)] = now + lag
    BY <1>2, <2>1
  <2> QED BY <1>4, <2>2, LagAssumption
<1>7. \/ db' = [k \in Keys |-> None] /\ lost' = lost
      \/ db' = db /\ (lost' \/ \A k \in Keys : cache[k] = None)
  BY <1>1 DEF DeleteRows, TypeOK
<1>8. /\ pc = "idle" /\ dirty' = FALSE
      /\ UNCHANGED <<rule, started, now, pc, processed, todo, missing>>
      /\ cache' = [k \in Keys |-> None]
      /\ hist' = [s \in Series |-> HistCleared(hist[s])]
  BY DEF ClearState
<1> QED BY <1>3, <1>5, <1>6, <1>7, <1>8

(* What a new process finds. *)
LEMMA RestartShape ==
    ASSUME TypeOK, Restart
    PROVE  /\ pc' = "idle" /\ processed' = {} /\ todo' = {} /\ missing' = {}
           /\ dirty' = FALSE /\ started' = FALSE
           /\ UNCHANGED <<rule, now, db>>
           /\ upsets' \in 0..MaxUpsets /\ lost' \in BOOLEAN
           /\ cache' \in [Keys -> AlertStates \cup {None}]
           /\ \/ \A k \in Keys : cache'[k] = None
              \/ \A k \in Keys : cache'[k] = IF db[k] # None THEN WarmState(db[k], k[2]) ELSE None
           /\ ~lost' => /\ ~lost
                        /\ \A k \in Keys :
                               cache'[k] = IF db[k] # None THEN WarmState(db[k], k[2]) ELSE None
           /\ am' \in {am, [id \in AlertIds |-> ZeroTime]}
           /\ hist' = [s \in Series |-> HistRestarted(hist[s])]
<1>1. PICK read \in BOOLEAN :
          /\ Upset(1 + Fails(read))
          /\ cache' = [k \in Keys |->
                IF read /\ db[k] # None THEN WarmState(db[k], k[2]) ELSE None]
          /\ lost' = (lost \/ ~read)
  BY DEF Restart
<1>2. upsets' \in 0..MaxUpsets /\ lost' \in BOOLEAN
  BY <1>1, TimeAssumption DEF Upset, Fails, TypeOK
<1>3. \A k \in Keys : db[k] /= None => WarmState(db[k], k[2]) \in AlertStates
  BY KeyIsPair, WarmStep DEF TypeOK
<1>4. cache' \in [Keys -> AlertStates \cup {None}]
  BY <1>1, <1>3
<1>5. /\ \/ \A k \in Keys : cache'[k] = None
         \/ \A k \in Keys : cache'[k] = IF db[k] # None THEN WarmState(db[k], k[2]) ELSE None
      /\ ~lost' => /\ ~lost
                   /\ \A k \in Keys :
                          cache'[k] = IF db[k] # None THEN WarmState(db[k], k[2]) ELSE None
  BY <1>1
<1>6. /\ pc' = "idle" /\ processed' = {} /\ todo' = {} /\ missing' = {}
      /\ dirty' = FALSE /\ started' = FALSE
      /\ UNCHANGED <<rule, now, db>>
      /\ am' \in {am, [id \in AlertIds |-> ZeroTime]}
      /\ hist' = [s \in Series |-> HistRestarted(hist[s])]
  BY DEF Restart
<1> QED BY <1>2, <1>4, <1>5, <1>6

(* Saving a row writes what is cached under its labels. *)
LEMMA SaveShape ==
    ASSUME TypeOK, SaveRow
    PROVE  \E k \in todo :
              /\ k \in Keys /\ cache[k] \in AlertStates /\ Labels(k) \in Keys
              /\ Labels(k) = <<k[1], cache[k].errLabels>>
              /\ db' = [db EXCEPT ![Labels(k)] = RowOf(cache[k])]
              /\ todo' = todo \ {k}
              /\ pc = "save"
              /\ UNCHANGED <<rule, dirty, started, now, cache, am, pc, processed, missing,
                             upsets, lost, hist>>
BY LabelsAreKeys DEF SaveRow, TypeOK

(* Every step keeps the types. *)
LEMMA TypeNext == ASSUME Inv, [Next]_vars PROVE TypeOK'
<1>0. TypeOK
  BY DEF Inv
<1>1. CASE Evaluate
  <2> USE <1>0, <1>1, EvaluateStep
  <2>1. ASSUME NEW s \in Series
        PROVE  /\ hist'[s] \in Histories
               /\ CacheID(s) \in processed' => /\ cache'[CacheID(s)] \in AlertStates
                                               /\ cache'[CacheID(s)] /= None
    <3>1. CASE CacheID(s) \in processed'
      <4>1. PICK result \in Results, a \in AlertStates :
                Stepped(s, a, result) /\ Recorded(s, result)
        BY <3>1
      <4>2. /\ hist[s] \in Histories /\ cache[CacheID(s)] \in AlertStates \cup {None}
            /\ now' \in Nat
        BY KeyIsPair DEF TypeOK
      <4>3. cache'[CacheID(s)] \in AlertStates /\ cache'[CacheID(s)] /= None
        BY <4>1 DEF Stepped
      <4> QED BY <4>1, <4>2, <4>3, HistStep DEF Recorded
    <3>2. CASE CacheID(s) \notin processed'
      <4>1. hist'[s] = HistAbsent(hist[s]) /\ hist[s] \in Histories
        BY <3>2 DEF TypeOK
      <4> QED BY <3>2, <4>1, SMTT(30) DEF HistAbsent, Histories, ZeroTime
    <3> QED BY <3>1, <3>2
  <2>2. hist' \in [Series -> Histories]
    BY <2>1
  <2>3. \A k \in processed' : \E s \in Series : k = CacheID(s)
    OBVIOUS
  <2>4. \A k \in processed' : k \in Keys /\ cache'[k] \in AlertStates /\ cache'[k] /= None
    <3> TAKE k \in processed'
    <3>1. PICK s \in Series : k = CacheID(s)
      BY <2>3
    <3> QED BY ONLY <2>1, <3>1, KeyIsPair, k \in processed'
  <2>5. cache' \in [Keys -> AlertStates \cup {None}]
    <3>1. \A k \in Keys : cache'[k] \in AlertStates \cup {None}
      BY <2>4 DEF TypeOK
    <3> QED BY <3>1
  <2>6. db' \in [Keys -> Rows \cup {None}]
    <3>1. \A k \in Keys : db'[k] \in {db[k], None}
      BY DEF TypeOK
    <3> QED BY <3>1 DEF TypeOK
  <2>7. now' \in Nat \ {ZeroTime}
    <3>1. now \in Nat \ {0} /\ now' \in Nat /\ now' >= now + Interval /\ Interval \in Nat
      BY IntervalAssumption DEF TypeOK, ZeroTime
    <3> QED BY ONLY <3>1 DEF ZeroTime
  <2>8. /\ rule' \in RuleConfigs /\ dirty' \in BOOLEAN /\ started' \in BOOLEAN
        /\ am' \in [AlertIds -> Nat] /\ pc' \in {"idle", "save"}
        /\ upsets' \in 0..MaxUpsets /\ lost' \in BOOLEAN
        /\ missing' \in SUBSET AlertIds /\ todo' = processed'
    BY DEF TypeOK
  <2> QED BY ONLY <2>2, <2>4, <2>5, <2>6, <2>7, <2>8 DEF TypeOK
<1>2. CASE SaveRow
  <2>1. PICK k \in todo :
              /\ k \in Keys /\ cache[k] \in AlertStates /\ Labels(k) \in Keys
              /\ db' = [db EXCEPT ![Labels(k)] = RowOf(cache[k])]
              /\ todo' = todo \ {k}
              /\ UNCHANGED <<rule, dirty, started, now, cache, am, pc, processed, missing,
                             upsets, lost, hist>>
    BY <1>0, <1>2, SaveShape
  <2>2. RowOf(cache[k]) \in Rows
    BY <2>1, RowStep
  <2> QED BY <1>0, <2>1, <2>2 DEF TypeOK
<1>3. CASE SaveFails
  BY <1>0, <1>3, TimeAssumption DEF TypeOK, SaveFails, Upset
<1>4. CASE Send
  <2>1. \A id \in AlertIds : am'[id] \in Nat
    <3> TAKE id \in AlertIds
    <3>1. /\ now \in Nat /\ am[id] \in Nat
          /\ \A k \in Keys : IsDue(k) => cache[k].endsAt \in Nat
      BY <1>0 DEF TypeOK, IsDue, AlertStates
    <3>2. \/ am'[id] = now
          \/ \E k \in Keys : IsDue(k) /\ am'[id] = cache[k].endsAt
          \/ am'[id] = am[id]
      BY <1>0, <1>4, SendShape
    <3> QED BY <3>1, <3>2
  <2>2. am' \in [AlertIds -> Nat]
    BY <1>0, <1>4, <2>1, SendShape
  <2>3. cache' \in [Keys -> AlertStates \cup {None}]
    <3>1. \A k \in Keys : cache'[k] \in AlertStates \cup {None}
      <4> TAKE k \in Keys
      <4>1. CASE cache[k] = None
        BY <1>0, <1>4, <4>1, SentStep
      <4>2. CASE cache[k] /= None
        BY <1>0, <1>4, <4>2, SentStep
      <4> QED BY <4>1, <4>2
    <3>2. PICK lag \in 0..MaxLag :
              cache' = [k \in Keys |-> IF IsDue(k) THEN [cache[k] EXCEPT !.lastSentAt = now + lag]
                                       ELSE cache[k]]
      BY <1>0, <1>4, SendShape
    <3> QED BY <3>1, <3>2
  <2>4. /\ pc' = "idle" /\ processed' = {} /\ missing' = {} /\ todo' = {}
        /\ UNCHANGED <<rule, dirty, started, now, db, upsets, lost, hist>>
    BY <1>0, <1>4, SendShape
  <2> QED BY <1>0, <2>2, <2>3, <2>4 DEF TypeOK
<1>5. CASE UpdateRule
  <2>1. upsets' \in 0..MaxUpsets
    BY <1>0, <1>5, TimeAssumption DEF TypeOK, UpdateRule, Upset
  <2>2. rule' \in RuleConfigs /\ dirty' \in BOOLEAN
    BY <1>0, <1>5 DEF TypeOK, UpdateRule
  <2>3. UNCHANGED <<started, now, cache, db, am, pc, processed, todo, missing, lost, hist>>
    BY <1>5 DEF UpdateRule
  <2> QED BY <1>0, <2>1, <2>2, <2>3 DEF TypeOK
<1>6. CASE ClearState
  <2>1. \A s \in Series : HistCleared(hist[s]) \in Histories
    BY <1>0 DEF TypeOK, HistCleared, Histories, ZeroTime
  <2>2. processed = {}
    BY <1>6, ClearShape, <1>0 DEF Inv, IdleOK
  <2>3. /\ pc = "idle" /\ dirty' = FALSE /\ upsets' \in 0..MaxUpsets /\ lost' \in BOOLEAN
        /\ UNCHANGED <<rule, started, now, pc, processed, todo, missing>>
        /\ cache' = [k \in Keys |-> None]
        /\ hist' = [s \in Series |-> HistCleared(hist[s])]
        /\ am' \in [AlertIds -> Nat]
        /\ db' \in {[k \in Keys |-> None], db}
    BY <1>0, <1>6, ClearShape
  <2>4. hist' \in [Series -> Histories]
    BY <2>1, <2>3
  <2> QED BY <1>0, <2>2, <2>3, <2>4 DEF TypeOK
<1>7. CASE Restart
  <2>1. \A s \in Series : HistRestarted(hist[s]) \in Histories
    BY <1>0 DEF TypeOK, HistRestarted, Histories, ZeroTime
  <2>2. [id \in AlertIds |-> ZeroTime] \in [AlertIds -> Nat]
    BY DEF ZeroTime
  <2>3. /\ pc' = "idle" /\ processed' = {} /\ todo' = {} /\ missing' = {}
        /\ dirty' = FALSE /\ started' = FALSE
        /\ UNCHANGED <<rule, now, db>>
        /\ upsets' \in 0..MaxUpsets /\ lost' \in BOOLEAN
        /\ cache' \in [Keys -> AlertStates \cup {None}]
        /\ am' \in {am, [id \in AlertIds |-> ZeroTime]}
        /\ hist' = [s \in Series |-> HistRestarted(hist[s])]
    BY <1>0, <1>7, RestartShape
  <2>4. hist' \in [Series -> Histories] /\ am' \in [AlertIds -> Nat]
    BY <1>0, <2>1, <2>2, <2>3 DEF TypeOK
  <2> QED BY <1>0, <2>3, <2>4 DEF TypeOK
<1>8. CASE UNCHANGED vars
  BY <1>0, <1>8 DEF TypeOK, vars
<1> QED BY <1>1, <1>2, <1>3, <1>4, <1>5, <1>6, <1>7, <1>8 DEF Next, OutOfTime

(* Every step leaves an idle routine with nothing to do, and no new keys.  *)
LEMMA KeysNext == ASSUME Inv, [Next]_vars PROVE IdleOK' /\ KeysOK'
<1>0. TypeOK /\ IdleOK /\ KeysOK
  BY DEF Inv
<1>1. CASE Evaluate
  <2>1. \A s \in Series : <<s, TRUE>> \in Keys /\ <<s, TRUE>> \notin processed'
    <3> TAKE s \in Series
    <3>1. \A x \in Series : <<s, TRUE>> /= CacheID(x)
      BY DEF CacheID
    <3>2. processed' \subseteq {CacheID(x) : x \in Series}
      BY <1>0, <1>1, EvaluateStep
    <3> QED BY <3>1, <3>2, KeyIsPair
  <2>2. /\ pc' = "save" /\ processed' \subseteq {CacheID(s) : s \in Series}
        /\ \A k \in Keys \ processed' : cache'[k] \in {None, cache[k]}
    BY <1>0, <1>1, EvaluateStep
  <2> QED BY <1>0, <2>1, <2>2 DEF IdleOK, KeysOK
<1>2. CASE SaveRow
  BY <1>0, <1>2, SaveShape DEF IdleOK, KeysOK
<1>3. CASE SaveFails
  BY <1>0, <1>3 DEF SaveFails, IdleOK, KeysOK
<1>4. CASE Send
  BY <1>0, <1>4, SendShape, SentStep, KeyIsPair, ZenonT(60) DEF IdleOK, KeysOK
<1>5. CASE UpdateRule
  BY <1>0, <1>5 DEF UpdateRule, IdleOK, KeysOK
<1>6. CASE ClearState
  BY <1>0, <1>6, ClearShape, KeyIsPair, ZenonT(60) DEF IdleOK, KeysOK
<1>7. CASE Restart
  <2>1. \A s \in Series : cache'[<<s, TRUE>>] /= None => cache'[<<s, TRUE>>].errLabels
    <3> TAKE s \in Series
    <3>1. <<s, TRUE>> \in Keys /\ <<s, TRUE>>[2] = TRUE
      BY KeyIsPair
    <3>2. db[<<s, TRUE>>] /= None =>
              WarmState(db[<<s, TRUE>>], TRUE).errLabels
      BY <1>0, <3>1, WarmStep DEF TypeOK
    <3> QED BY <1>0, <1>7, <3>1, <3>2, RestartShape
  <2> QED BY <1>0, <1>7, <2>1, RestartShape DEF IdleOK, KeysOK
<1>8. CASE UNCHANGED vars
  BY <1>0, <1>8 DEF vars, IdleOK, KeysOK
<1> QED BY <1>1, <1>2, <1>3, <1>4, <1>5, <1>6, <1>7, <1>8 DEF Next, OutOfTime

(* Types, idleness and keys hold in every reachable state. *)
THEOREM InvHolds == Spec => []Inv
<1>1. Inv /\ [Next]_vars => Inv'
  BY TypeNext, KeysNext DEF Inv
<1> QED BY <1>1, InitInv, PTL DEF Spec

(* Every variable keeps its type. *)
THEOREM TypeCorrect == Spec => []TypeOK
<1>1. Inv => TypeOK
  BY DEF Inv
<1> QED BY <1>1, InvHolds, PTL
-----------------------------------------------------------------------------
(* For is observed. *)

(* What an evaluation does to a series that had a result. *)
LEMMA SeriesStep ==
    ASSUME TypeOK, Evaluate, NEW s \in Series, CacheID(s) \in processed'
    PROVE  \E result \in Results, a \in AlertStates :
              /\ Stepped(s, a, result)
              /\ IsRecorded(hist[s], hist'[s], cache[CacheID(s)], cache'[CacheID(s)], result, now')
              /\ hist[s] \in Histories /\ hist'[s] \in Histories
              /\ cache[CacheID(s)] \in AlertStates \cup {None}
              /\ cache'[CacheID(s)] \in AlertStates
              /\ now' \in Nat /\ now' >= now + Interval
<1>1. PICK result \in Results, a \in AlertStates :
          Stepped(s, a, result) /\ Recorded(s, result)
  BY EvaluateStep
<1>2. hist'[s] = HistAfter(hist[s], cache[CacheID(s)], cache'[CacheID(s)], result, now')
  BY <1>1 DEF Recorded
<1>3. /\ hist[s] \in Histories
      /\ cache[CacheID(s)] \in AlertStates \cup {None}
  BY KeyIsPair DEF TypeOK
<1>4. cache'[CacheID(s)] \in AlertStates
  BY <1>1 DEF Stepped
<1>5. now' \in Nat /\ now' >= now + Interval
  BY EvaluateStep
<1>6. /\ hist'[s] \in Histories
      /\ IsRecorded(hist[s], hist'[s], cache[CacheID(s)], cache'[CacheID(s)], result, now')
  BY <1>2, <1>3, <1>4, <1>5, HistStep
<1> QED BY <1>1, <1>3, <1>4, <1>5, <1>6

(* A series that had no result: its state stays or vanishes, and its       *)
(* history only forgets since when it has fired.                           *)
LEMMA NoResultStep ==
    ASSUME TypeOK, Evaluate, NEW s \in Series, CacheID(s) \notin processed'
    PROVE  /\ cache'[CacheID(s)] \in {None, cache[CacheID(s)]}
           /\ hist[s] \in Histories
           /\ hist'[s].lastResult = hist[s].lastResult
           /\ hist'[s].since = hist[s].since
           /\ hist'[s].firing = ZeroTime
           /\ hist'[s].abnormal = hist[s].abnormal
           /\ hist'[s].abandoned = hist[s].abandoned
           /\ hist'[s].relabelled = hist[s].relabelled
<1>1. hist'[s] = HistAbsent(hist[s])
  BY EvaluateStep
<1>2. hist[s] \in Histories
  BY DEF TypeOK
<1>3. cache'[CacheID(s)] \in {None, cache[CacheID(s)]}
  BY EvaluateStep, KeyIsPair
<1> QED BY <1>1, <1>2, <1>3 DEF HistAbsent, Histories

(* No step makes a series pending without the run of results it needs. *)
LEMMA PendingNext == ASSUME Inv, Inv', PendingOK, [Next]_vars PROVE PendingOK'
<1>0. TypeOK /\ IdleOK /\ TypeOK'
  BY DEF Inv
<1> DEFINE Good(s) ==
        LET a == cache[CacheID(s)]
        IN  /\ hist[s].since <= now
            /\ a /= None /\ a.state = "Pending" =>
                   hist[s].since /= ZeroTime /\ hist[s].since <= a.startsAt
<1> SUFFICES ASSUME NEW s \in Series PROVE Good(s)'
  BY DEF PendingOK
<1>a. Good(s)
  BY DEF PendingOK
<1>b. CacheID(s) \in Keys
  BY KeyIsPair
<1>c. now \in Nat \ {ZeroTime} /\ now' \in Nat \ {ZeroTime} /\ Interval \in Nat
      /\ hist[s] \in Histories /\ hist'[s] \in Histories
      /\ cache[CacheID(s)] \in AlertStates \cup {None}
  BY <1>0, <1>b, IntervalAssumption DEF TypeOK
<1>1. CASE Evaluate
  <2>1. CASE CacheID(s) \in processed'
    <3>1. PICK result \in Results, a \in AlertStates :
              /\ Stepped(s, a, result)
              /\ IsRecorded(hist[s], hist'[s], cache[CacheID(s)], cache'[CacheID(s)], result, now')
              /\ cache'[CacheID(s)] \in AlertStates
              /\ now' >= now + Interval
      BY <1>0, <1>1, <2>1, SeriesStep
    <3> DEFINE k == CacheID(s)
    <3>2. /\ hist'[s].since \in {ZeroTime, now', hist[s].since}
          /\ FiringResult(result) =>
                \/ hist'[s].since = now'
                \/ cache[k] /= None /\ hist'[s].since = hist[s].since /\ hist[s].since /= ZeroTime
          /\ FiringResult(result) /\ cache[k] /= None /\ hist[s].since /= ZeroTime
                => hist'[s].since = hist[s].since
      BY <3>1 DEF IsRecorded
    <3>3. hist'[s].since <= now'
      BY <1>a, <1>c, <3>1, <3>2 DEF ZeroTime, Histories
    <3>4. ASSUME cache'[k].state = "Pending"
          PROVE  hist'[s].since /= ZeroTime /\ hist'[s].since <= cache'[k].startsAt
      <4>1. /\ FiringResult(result)
            /\ \/ a.state = "Pending" /\ cache'[k].startsAt = a.startsAt
               \/ cache'[k].startsAt = now'
        BY <3>1, <3>4 DEF Stepped, IsHeld
      <4>2. hist'[s].since /= ZeroTime
        BY <1>c, <3>2, <4>1
      <4>3. a.state = "Pending" => cache[k] /= None /\ a = cache[k]
        BY <3>1 DEF Stepped
      <4>4. a.state = "Pending" => hist'[s].since = hist[s].since /\ hist[s].since <= a.startsAt
        BY <1>a, <3>2, <4>1, <4>3
      <4> QED BY <3>3, <4>1, <4>2, <4>4
    <3> QED BY <3>3, <3>4
  <2>2. CASE CacheID(s) \notin processed'
    <3>1. now' >= now + Interval
      BY <1>0, <1>1, EvaluateStep
    <3>2. /\ cache'[CacheID(s)] \in {None, cache[CacheID(s)]}
          /\ hist'[s].since = hist[s].since
      BY <1>0, <1>1, <2>2, NoResultStep
    <3> QED BY <1>a, <1>c, <3>1, <3>2 DEF Histories
  <2> QED BY <2>1, <2>2
<1>2. CASE SaveRow
  BY <1>0, <1>a, <1>2, SaveShape
<1>3. CASE SaveFails
  BY <1>a, <1>3 DEF SaveFails
<1>4. CASE Send
  <2>1. hist' = hist /\ now' = now
    BY <1>0, <1>4, SendShape
  <2>2. /\ cache'[CacheID(s)] /= None => cache[CacheID(s)] /= None
        /\ cache[CacheID(s)] /= None =>
              /\ cache'[CacheID(s)].state = cache[CacheID(s)].state
              /\ cache'[CacheID(s)].startsAt = cache[CacheID(s)].startsAt
    BY <1>0, <1>4, <1>b, SentStep
  <2> QED BY <1>a, <2>1, <2>2
<1>5. CASE UpdateRule
  BY <1>a, <1>5 DEF UpdateRule
<1>6. CASE ClearState
  <2>1. cache'[CacheID(s)] = None /\ hist'[s] = HistCleared(hist[s]) /\ now' = now
    BY <1>0, <1>6, <1>b, ClearShape
  <2> QED BY <1>c, <2>1 DEF HistCleared, ZeroTime, Histories
<1>7. CASE Restart
  <2>1. hist'[s] = HistRestarted(hist[s]) /\ now' = now
    BY <1>0, <1>7, RestartShape
  <2>2. cache'[CacheID(s)] /= None =>
            /\ db[CacheID(s)] /= None
            /\ cache'[CacheID(s)] = WarmState(db[CacheID(s)], CacheID(s)[2])
    BY <1>0, <1>7, <1>b, RestartShape
  <2>3. cache'[CacheID(s)] /= None => cache'[CacheID(s)].state /= "Pending"
    BY <1>0, <1>b, <2>2, WarmStep, KeyIsPair DEF TypeOK
  <2> QED BY <1>a, <1>c, <2>1, <2>3 DEF HistRestarted, Histories
<1>8. CASE UNCHANGED vars
  BY <1>a, <1>8 DEF vars
<1> QED BY <1>1, <1>2, <1>3, <1>4, <1>5, <1>6, <1>7, <1>8 DEF Next, OutOfTime

(* A pending series has always been firing since before it was pending. *)
LEMMA PendingHolds == Spec => []PendingOK
<1>1. Init => PendingOK
  <2> SUFFICES ASSUME Init, NEW s \in Series
               PROVE  hist[s].since <= now /\ cache[CacheID(s)] = None
    BY DEF PendingOK
  <2>1. hist[s].since = 0 /\ now = StartTime /\ cache = [k \in Keys |-> None]
    BY DEF Init, ZeroTime
  <2>2. hist[s].since <= now
    BY <2>1, TimeAssumption
  <2>3. cache[CacheID(s)] = None
    BY <2>1, KeyIsPair
  <2> QED BY <2>2, <2>3
<1>2. Inv /\ Inv' /\ PendingOK /\ [Next]_vars => PendingOK'
  BY PendingNext
<1> QED BY <1>1, <1>2, InvHolds, PTL DEF Spec

(* An Alerting result makes a series fire only after an unbroken run of    *)
(* firing results at least For long, for every For and interval.           *)
THEOREM ForIsObserved == Spec => FiringAfterFor
<1> DEFINE Late(s) ==
        LET k == CacheID(s)
        IN  (/\ pc = "idle"
             /\ k \in processed'
             /\ cache[k] = None \/ cache[k].state # "Alerting"
             /\ cache'[k].state = "Alerting"
             /\ hist'[s].lastResult = "Alerting")
            => now' - hist'[s].since >= rule.for
<1>1. ASSUME Inv, Inv', PendingOK, PendingOK', [Next]_vars, NEW s \in Series
      PROVE  Late(s)
  <2>0. TypeOK /\ IdleOK
    BY <1>1 DEF Inv
  <2> DEFINE k == CacheID(s)
  <2> SUFFICES ASSUME pc = "idle", k \in processed',
                      cache[k] = None \/ cache[k].state # "Alerting",
                      cache'[k].state = "Alerting",
                      hist'[s].lastResult = "Alerting"
               PROVE  now' - hist'[s].since >= rule.for
    OBVIOUS
  <2>1. CASE Evaluate
    <3>1. PICK result \in Results, a \in AlertStates :
              /\ Stepped(s, a, result)
              /\ IsRecorded(hist[s], hist'[s], cache[CacheID(s)], cache'[CacheID(s)], result, now')
              /\ hist[s] \in Histories /\ hist'[s] \in Histories
              /\ cache'[CacheID(s)] \in AlertStates
              /\ now' \in Nat
      BY <2>0, <2>1, SeriesStep
    <3>2. /\ hist'[s] \in Histories
          /\ hist'[s].lastResult = result
          /\ FiringResult(result) /\ cache[k] /= None /\ hist[s].since /= ZeroTime
                => hist'[s].since = hist[s].since
      BY <3>1 DEF IsRecorded
    <3>3. \/ rule.for = 0
          \/ a.state = "Pending" /\ now' - a.startsAt >= rule.for
      BY <3>1, <3>2 DEF Stepped, IsHeld
    <3>4. hist'[s].since <= now' /\ hist'[s].since \in Nat
      BY <1>1, <3>2 DEF PendingOK, Histories
    <3>5. ASSUME a.state = "Pending" PROVE hist'[s].since <= a.startsAt
      <4>1. cache[k] /= None /\ a = cache[k]
        BY <3>1, <3>5 DEF Stepped
      <4>2. hist[s].since /= ZeroTime /\ hist[s].since <= a.startsAt
        BY <1>1, <3>5, <4>1 DEF PendingOK
      <4> QED BY <3>2, <4>1, <4>2 DEF FiringResult
    <3>6. a.startsAt \in Nat /\ rule.for \in Nat
      BY <2>0, <3>1, RuleConfigsAssumption DEF AlertStates, TypeOK, RuleOptions
    <3> QED BY <3>1, <3>3, <3>4, <3>5, <3>6
  <2>2. CASE ~Evaluate
    <3>1. processed' = processed \/ processed' = {}
      BY <1>1, <2>0, <2>2, SaveShape, SendShape, ClearShape, RestartShape
         DEF Next, SaveFails, UpdateRule, OutOfTime, vars
    <3>2. processed = {}
      BY <2>0 DEF IdleOK
    <3> QED BY <3>1, <3>2
  <2> QED BY <2>1, <2>2
<1>2. Inv /\ Inv' /\ PendingOK /\ PendingOK' /\ [Next]_vars
      => [\A s \in Series : Late(s)]_vars
  BY <1>1
<1>3. Spec => [][\A s \in Series : Late(s)]_vars
  BY <1>2, InvHolds, PendingHolds, PTL DEF Spec
<1> QED BY <1>3 DEF FiringAfterFor
-----------------------------------------------------------------------------
(* Ghosts expire. *)

(* Time does not run back, neither that of the routine nor that at which a *)
(* series was last abnormal.                                               *)
LEMMA TimeStep ==
    ASSUME Inv, Inv', [Next]_vars, NEW s \in Series, hist[s].abnormal <= now
    PROVE  /\ now \in Nat /\ now' \in Nat /\ now' >= now
           /\ hist[s].abnormal \in Nat /\ hist'[s].abnormal \in Nat
           /\ hist'[s].abnormal >= hist[s].abnormal
           /\ hist'[s].abnormal <= now'
<1>0. TypeOK /\ TypeOK'
  BY DEF Inv
<1>1. now \in Nat /\ now' \in Nat /\ Interval \in Nat
  BY <1>0, IntervalAssumption DEF TypeOK
<1>2. hist[s] \in Histories /\ hist'[s] \in Histories
  BY <1>0 DEF TypeOK
<1>3. hist[s].abnormal \in Nat /\ hist'[s].abnormal \in Nat
  BY <1>2 DEF Histories
<1>4. CASE Evaluate
  <2>1. now' >= now
    BY <1>0, <1>1, <1>4, EvaluateStep
  <2>2. hist'[s].abnormal \in {hist[s].abnormal, now'}
    <3>1. CASE CacheID(s) \in processed'
      BY <1>0, <1>4, <3>1, SeriesStep DEF IsRecorded
    <3>2. CASE CacheID(s) \notin processed'
      BY <1>0, <1>4, <3>2, NoResultStep
    <3> QED BY <3>1, <3>2
  <2> QED BY <1>1, <1>3, <2>1, <2>2
<1>5. CASE ~Evaluate
  <2>1. now' = now /\ hist'[s].abnormal = hist[s].abnormal
    <3>1. CASE ClearState
      <4>1. hist'[s] = HistCleared(hist[s]) /\ now' = now
        BY <1>0, <3>1, ClearShape
      <4> QED BY <1>2, <4>1 DEF HistCleared, Histories
    <3>2. CASE Restart
      <4>1. hist'[s] = HistRestarted(hist[s]) /\ now' = now
        BY <1>0, <3>2, RestartShape
      <4> QED BY <1>2, <4>1 DEF HistRestarted, Histories
    <3>3. CASE ~ClearState /\ ~Restart
      <4>1. now' = now /\ hist' = hist
        BY <1>0, <1>5, <3>3, SendShape, SaveShape
           DEF Next, SaveFails, UpdateRule, OutOfTime, vars
      <4> QED BY <4>1
    <3> QED BY <3>1, <3>2, <3>3
  <2> QED BY <1>1, <1>3, <2>1
<1> QED BY <1>4, <1>5

(* What ends in time still does after the step. *)
LEMMA EndsInTimeStep ==
    ASSUME Inv, Inv', [Next]_vars, NEW s \in Series, hist[s].abnormal <= now,
           NEW end \in Nat, EndsInTime(hist[s], now, end)
    PROVE  EndsInTime(hist'[s], now', end)
BY TimeStep, ValidityIsLong, LagAssumption DEF EndsInTime

(* No step gives an alert, a state or a row more time than it may have. *)
LEMMA GhostNext == ASSUME Inv, Inv', GhostOK, [Next]_vars PROVE GhostOK'
<1>0. TypeOK /\ TypeOK'
  BY DEF Inv
<1> DEFINE InTime(s, end) == EndsInTime(hist[s], now, end)
           InTimeNext(s, end) == EndsInTime(hist'[s], now', end)
<1>1. \A s \in Series : hist[s].abnormal <= now /\ hist'[s].abnormal <= now'
  BY TimeStep DEF GhostOK
<1>2. \A s \in Series, end \in Nat : InTime(s, end) => InTimeNext(s, end)
  BY <1>1, EndsInTimeStep
<1>3. ASSUME NEW s \in Series, NEW end \in Nat, end <= now' + MaxLag
      PROVE  InTimeNext(s, end)
  BY <1>3 DEF EndsInTime
<1>4. now \in Nat /\ now' \in Nat /\ MaxLag \in Nat /\ Validity \in Nat
  <2>1. now \in Nat /\ now' \in Nat
    BY <1>0 DEF TypeOK
  <2> QED BY <2>1, LagAssumption, ValidityIsLong
<1>5. \A k \in Keys : cache[k] /= None =>
          cache[k].endsAt \in Nat /\ InTime(k[1], cache[k].endsAt)
  BY <1>0 DEF TypeOK, AlertStates, GhostOK
<1>6. \A k \in Keys : db[k] /= None => db[k].endsAt \in Nat /\ InTime(k[1], db[k].endsAt)
  BY <1>0 DEF TypeOK, Rows, GhostOK
<1>7. \A s \in Series, e \in BOOLEAN, name \in AlertNames :
          /\ <<<<s, e>>, name>> \in AlertIds
          /\ am[<<<<s, e>>, name>>] \in Nat
          /\ InTime(s, am[<<<<s, e>>, name>>])
  <2> TAKE s \in Series, e \in BOOLEAN, name \in AlertNames
  <2>1. <<<<s, e>>, name>> \in AlertIds
    BY KeyIsPair DEF AlertIds
  <2> QED BY <1>0, <2>1 DEF TypeOK, GhostOK, GhostsExpire, EndsInTime
<1>8. \A k \in Keys : k[1] \in Series
  BY KeyIsPair
<1> DEFINE Goal ==
        /\ \A k \in Keys : cache'[k] /= None => InTimeNext(k[1], cache'[k].endsAt)
        /\ \A k \in Keys : db'[k] /= None => InTimeNext(k[1], db'[k].endsAt)
        /\ \A s \in Series, e \in BOOLEAN, name \in AlertNames :
               InTimeNext(s, am'[<<<<s, e>>, name>>])
<1>9. SUFFICES Goal
  BY <1>1 DEF GhostOK, GhostsExpire, EndsInTime
<1> HIDE DEF InTime, InTimeNext
<1>10. CASE Evaluate
  <2>1. \A k \in Keys : cache'[k] /= None => InTimeNext(k[1], cache'[k].endsAt)
    <3> SUFFICES ASSUME NEW k \in Keys, cache'[k] /= None
                 PROVE  InTimeNext(k[1], cache'[k].endsAt)
      OBVIOUS
    <3>1. CASE k \in processed'
      <4>1. PICK s \in Series : k = CacheID(s)
        BY <1>0, <1>10, <3>1, EvaluateStep
      <4>2. k[1] = s
        BY <4>1, KeyIsPair
      <4>3. PICK result \in Results, a \in AlertStates :
                /\ Stepped(s, a, result)
                /\ IsRecorded(hist[s], hist'[s], cache[k], cache'[k], result, now')
                /\ cache'[k] \in AlertStates
        BY <1>0, <1>10, <3>1, <4>1, SeriesStep
      <4>4. \/ cache'[k].endsAt = a.endsAt
            \/ cache'[k].endsAt = now'
            \/ result /= "Normal" /\ cache'[k].endsAt = now' + Validity
        BY <4>1, <4>3 DEF Stepped, IsClocked
      <4>5. cache'[k].endsAt \in Nat
        BY <4>3 DEF AlertStates
      <4>6. CASE cache'[k].endsAt = a.endsAt
        <5>1. CASE cache[k] /= None
          <6>1. a = cache[k]
            BY <4>1, <4>3, <5>1 DEF Stepped
          <6> QED BY <1>2, <1>5, <4>2, <4>6, <5>1, <6>1
        <5>2. CASE cache[k] = None
          <6>1. a.endsAt = 0
            BY <4>1, <4>3, <5>2 DEF Stepped, ZeroTime
          <6>2. cache'[k].endsAt <= now' + MaxLag
            BY <1>4, <4>6, <6>1, SumsGrow
          <6> QED BY <1>3, <4>2, <4>5, <6>2
        <5> QED BY <5>1, <5>2
      <4>7. CASE cache'[k].endsAt = now'
        <5>1. cache'[k].endsAt <= now' + MaxLag
          BY <1>4, <4>7, SumsGrow
        <5> QED BY <1>3, <4>2, <4>5, <5>1
      <4>8. CASE result /= "Normal" /\ cache'[k].endsAt = now' + Validity
        <5>1. hist'[s].abnormal = now'
          BY <4>3, <4>8 DEF IsRecorded
        <5>2. now' + Validity \in Nat /\ cache'[k].endsAt = hist'[s].abnormal + Validity
          BY <1>4, <4>8, <5>1, SumsGrow
        <5> QED BY <4>2, <4>5, <5>2 DEF InTimeNext, EndsInTime
      <4> QED BY <4>4, <4>6, <4>7, <4>8
    <3>2. CASE k \notin processed'
      <4>1. cache'[k] = cache[k]
        BY <1>0, <1>10, <3>2, EvaluateStep
      <4> QED BY <1>2, <1>5, <1>8, <4>1
    <3> QED BY <3>1, <3>2
  <2>2. \A k \in Keys : db'[k] \in {None, db[k]}
    BY <1>0, <1>10, EvaluateStep
  <2>3. am' = am
    BY <1>0, <1>10, EvaluateStep
  <2> QED BY <1>2, <1>6, <1>7, <1>8, <2>1, <2>2, <2>3
<1>11. CASE SaveRow
  <2>1. PICK k \in todo :
            /\ k \in Keys /\ cache[k] \in AlertStates /\ Labels(k) \in Keys
            /\ Labels(k) = <<k[1], cache[k].errLabels>>
            /\ db' = [db EXCEPT ![Labels(k)] = RowOf(cache[k])]
            /\ cache' = cache /\ am' = am
    BY <1>0, <1>11, SaveShape
  <2>2. \A x \in Keys : db'[x] /= None => InTimeNext(x[1], db'[x].endsAt)
    <3> TAKE x \in Keys
    <3>1. CASE x = Labels(k)
      <4>1. db'[x] = RowOf(cache[k]) /\ x[1] = k[1]
        BY <1>0, <2>1, <3>1 DEF TypeOK
      <4>2. db'[x].endsAt = cache[k].endsAt
        BY <4>1 DEF RowOf
      <4>3. cache[k] /= None
        BY <2>1, NoneIsNeither
      <4> QED BY <1>2, <1>5, <1>8, <2>1, <4>1, <4>2, <4>3
    <3>2. CASE x /= Labels(k)
      BY <1>0, <1>2, <1>6, <1>8, <2>1, <3>2 DEF TypeOK
    <3> QED BY <3>1, <3>2
  <2> QED BY <1>2, <1>5, <1>7, <1>8, <2>1, <2>2
<1>12. CASE Send
  <2>1. \A k \in Keys : cache'[k] /= None =>
            cache[k] /= None /\ cache'[k].endsAt = cache[k].endsAt
    BY <1>0, <1>12, SentStep
  <2>2. \A s \in Series, e \in BOOLEAN, name \in AlertNames :
            InTimeNext(s, am'[<<<<s, e>>, name>>])
    <3> TAKE s \in Series, e \in BOOLEAN, name \in AlertNames
    <3> DEFINE id == <<<<s, e>>, name>>
    <3>1. \/ am'[id] = now
          \/ \E k \in Keys : IsDue(k) /\ AlertId(k) = id /\ am'[id] = cache[k].endsAt
          \/ am'[id] = am[id]
      BY <1>0, <1>7, <1>12, SendShape
    <3>2. CASE am'[id] = now
      <4>1. now' = now
        BY <1>0, <1>12, SendShape
      <4>2. am'[id] \in Nat /\ am'[id] <= now' + MaxLag
        BY <1>4, <3>2, <4>1
      <4> QED BY <1>3, <4>2
    <3>3. ASSUME NEW k \in Keys, IsDue(k), AlertId(k) = id, am'[id] = cache[k].endsAt
          PROVE  InTimeNext(s, am'[id])
      <4>1. cache[k] /= None
        BY <1>0, <3>3 DEF IsDue, TypeOK
      <4>2. k[1] = s
        BY <3>3 DEF AlertId, Labels
      <4> QED BY <1>2, <1>5, <3>3, <4>1, <4>2
    <3>4. CASE am'[id] = am[id]
      BY <1>2, <1>7, <3>4
    <3> QED BY <3>1, <3>2, <3>3, <3>4
  <2>3. db' = db
    BY <1>0, <1>12, SendShape
  <2> QED BY <1>2, <1>5, <1>6, <1>8, <2>1, <2>2, <2>3
<1>13. CASE ClearState
  <2>1. /\ now' = now
        /\ cache' = [k \in Keys |-> None]
        /\ db' \in {[k \in Keys |-> None], db}
        /\ \A id \in AlertIds : am'[id] = am[id] \/ am'[id] \in now..(now + MaxLag)
    BY <1>0, <1>13, ClearShape
  <2>2. \A s \in Series, e \in BOOLEAN, name \in AlertNames :
            InTimeNext(s, am'[<<<<s, e>>, name>>])
    <3> TAKE s \in Series, e \in BOOLEAN, name \in AlertNames
    <3> DEFINE id == <<<<s, e>>, name>>
    <3>1. am'[id] = am[id] \/ am'[id] \in now..(now + MaxLag)
      BY <1>7, <2>1
    <3>2. CASE am'[id] = am[id]
      BY <1>2, <1>7, <3>2
    <3>3. CASE am'[id] \in now..(now + MaxLag)
      <4>1. am'[id] \in Nat /\ am'[id] <= now' + MaxLag
        BY <1>4, <2>1, <3>3
      <4> QED BY <1>3, <4>1
    <3> QED BY <3>1, <3>2, <3>3
  <2>3. \A k \in Keys : cache'[k] = None
    BY <2>1
  <2>4. \A k \in Keys : db'[k] \in {None, db[k]}
    BY <2>1
  <2> QED BY <1>2, <1>6, <1>8, <2>2, <2>3, <2>4
<1>14. CASE Restart
  <2>1. \A k \in Keys : cache'[k] /= None =>
            db[k] /= None /\ cache'[k] = WarmState(db[k], k[2])
    BY <1>0, <1>14, RestartShape
  <2>2. \A k \in Keys : cache'[k] /= None => cache'[k].endsAt = db[k].endsAt
    BY <1>0, <2>1, WarmStep, KeyIsPair DEF TypeOK
  <2>3. db' = db /\ am' \in {am, [id \in AlertIds |-> ZeroTime]}
    BY <1>0, <1>14, RestartShape
  <2>4. \A s \in Series, e \in BOOLEAN, name \in AlertNames :
            InTimeNext(s, am'[<<<<s, e>>, name>>])
    <3> TAKE s \in Series, e \in BOOLEAN, name \in AlertNames
    <3>1. 0 \in Nat /\ 0 <= now' + MaxLag
      BY <1>4, SumsGrow
    <3>2. am'[<<<<s, e>>, name>>] \in {am[<<<<s, e>>, name>>], 0}
      BY <1>7, <2>3 DEF ZeroTime
    <3> QED BY <1>2, <1>3, <1>7, <3>1, <3>2
  <2> QED BY <1>2, <1>6, <1>8, <2>1, <2>2, <2>3, <2>4
<1>15. CASE SaveFails \/ UpdateRule \/ UNCHANGED vars
  <2>1. cache' = cache /\ db' = db /\ am' = am
    BY <1>15 DEF SaveFails, UpdateRule, vars
  <2> QED BY <1>2, <1>5, <1>6, <1>7, <1>8, <2>1
<1> QED BY <1>10, <1>11, <1>12, <1>13, <1>14, <1>15 DEF Next, OutOfTime

(* No alert is valid longer than Validity after its series was abnormal.   *)
THEOREM GhostsDoExpire == Spec => []GhostsExpire
<1>1. Init => GhostOK
  <2> SUFFICES ASSUME Init PROVE GhostOK
    OBVIOUS
  <2>1. /\ \A s \in Series : hist[s].abnormal = 0
        /\ \A k \in Keys : cache[k] = None /\ db[k] = None
        /\ \A id \in AlertIds : am[id] = 0
        /\ now = StartTime
    BY DEF Init, ZeroTime
  <2>2. now \in Nat
    BY <2>1, TimeAssumption
  <2>3. GhostsExpire
    <3> SUFFICES ASSUME NEW s \in Series, NEW e \in BOOLEAN, NEW name \in AlertNames
                 PROVE  am[<<<<s, e>>, name>>] <= now + MaxLag
      BY DEF GhostsExpire
    <3>1. <<<<s, e>>, name>> \in AlertIds
      BY KeyIsPair DEF AlertIds
    <3> QED BY <2>1, <2>2, <3>1, LagAssumption
  <2> QED BY <2>1, <2>2, <2>3 DEF GhostOK
<1>2. Inv /\ Inv' /\ GhostOK /\ [Next]_vars => GhostOK'
  BY GhostNext
<1>3. GhostOK => GhostsExpire
  BY DEF GhostOK
<1> QED BY <1>1, <1>2, <1>3, InvHolds, PTL DEF Spec
-----------------------------------------------------------------------------
(* A restart loses nothing. *)

(* A state is stored as what Warm will make of its row. *)
LEMMA StoredStep ==
    /\ \A a \in AlertStates : IsStored(a, RowOf(a))
    /\ \A row \in Rows, e \in BOOLEAN : IsStored(WarmState(row, e), row)
    /\ IsStored(None, None)
    /\ \A row : IsStored(None, row) => row = None
<1>1. ASSUME NEW a \in AlertStates PROVE IsStored(a, RowOf(a))
  BY RowStep, NoneIsNeither DEF IsStored, RowOf
<1>2. ASSUME NEW row \in Rows, NEW e \in BOOLEAN PROVE IsStored(WarmState(row, e), row)
  <2> DEFINE a == WarmState(row, e)
  <2>1. /\ a \in AlertStates
        /\ a.state = TranslateInstanceState(row.state)
        /\ a.startsAt = row.startsAt /\ a.endsAt = row.endsAt /\ a.lastEval = row.lastEval
    BY WarmStep
  <2>2. \A x : TranslateInstanceState(TranslateInstanceState(x)) = TranslateInstanceState(x)
    BY DEF TranslateInstanceState
  <2> HIDE DEF a
  <2>3. a /= None /\ row /= None
    BY <2>1, NoneIsNeither
  <2>4. IsStored(a, row)
    BY <2>1, <2>2, <2>3 DEF IsStored
  <2> QED BY <2>4 DEF a
<1> QED BY <1>1, <1>2 DEF IsStored

(* No step lets the table and the cache drift apart. *)
LEMMA RowsNext == ASSUME Inv, Inv', RowsOK, [Next]_vars PROVE RowsOK'
<1>0. TypeOK /\ IdleOK /\ KeysOK /\ TypeOK'
  BY DEF Inv
<1> SUFFICES ASSUME NEW s \in Series, ~lost', ~hist'[s].relabelled
             PROVE  LET k == CacheID(s)
                    IN  /\ cache'[k] /= None => ~cache'[k].errLabels
                        /\ k \in todo' \/ IsStored(cache'[k], db'[k])
                        /\ k \in todo' => cache'[k] /= None
  BY DEF RowsOK
<1> DEFINE k == CacheID(s)
           Good == /\ cache[k] /= None => ~cache[k].errLabels
                   /\ k \in todo \/ IsStored(cache[k], db[k])
                   /\ k \in todo => cache[k] /= None
<1>a. ~lost /\ ~hist[s].relabelled => Good
  BY DEF RowsOK
<1>b. k \in Keys /\ k = <<s, FALSE>> /\ k[1] = s /\ k[2] = FALSE
  BY KeyIsPair, ZenonT(60)
<1>c. lost \in BOOLEAN /\ hist[s] \in Histories /\ cache[k] \in AlertStates \cup {None}
  BY <1>0, <1>b DEF TypeOK
<1>d. cache[k] /= None /\ ~cache[k].errLabels => Labels(k) = k
  <2> HAVE cache[k] /= None /\ ~cache[k].errLabels
  <2>1. cache[k].errLabels = FALSE
    BY <1>c DEF AlertStates
  <2> QED BY <1>b, <2>1 DEF Labels
<1> HIDE DEF k
<1>1. CASE Evaluate
  <2>0. /\ todo = {} /\ processed' = todo'
        /\ lost' = lost
        /\ \A x \in Keys : db'[x] = IF \E y \in Keys : Vanishes(y) /\ Labels(y) = x
                                    THEN None ELSE db[x]
    BY <1>0, <1>1, EvaluateStep DEF IdleOK
  <2>1. CASE k \in processed'
    <3>1. /\ IsRecorded(hist[s], hist'[s], cache[k], cache'[k], 
                        hist'[s].lastResult, now')
          /\ cache'[k] \in AlertStates
      <4>1. PICK result \in Results, a \in AlertStates :
                /\ IsRecorded(hist[s], hist'[s], cache[k], cache'[k], result, now')
                /\ cache'[k] \in AlertStates
        BY <1>0, <1>1, <2>1, SeriesStep DEF k
      <4>2. result = hist'[s].lastResult
        BY <4>1 DEF IsRecorded
      <4> QED BY <4>1, <4>2
    <3>2. ~cache'[k].errLabels
      BY <3>1 DEF IsRecorded
    <3> QED BY <2>0, <2>1, <3>1, <3>2, NoneIsNeither DEF k
  <2>2. CASE k \notin processed'
    <3>1. cache'[k] \in {None, cache[k]} /\ hist'[s].relabelled = hist[s].relabelled
      BY <1>0, <1>1, <2>2, NoResultStep DEF k
    <3>2. /\ cache[k] /= None => ~cache[k].errLabels
          /\ IsStored(cache[k], db[k])
      BY <1>a, <2>0, <3>1
    <3>3. CASE Vanishes(k)
      <4>1. Labels(k) = k /\ cache'[k] = None
        BY <1>d, <3>2, <3>3 DEF Vanishes
      <4>2. db'[k] = None
        BY <1>b, <2>0, <3>3, <4>1
      <4> QED BY <2>0, <2>2, <4>1, <4>2, StoredStep DEF k
    <3>4. CASE ~Vanishes(k)
      <4>1. cache'[k] = cache[k]
        BY <1>b, <2>2, <3>1, <3>4 DEF Vanishes
      <4>2. ASSUME NEW x \in Keys, Vanishes(x), Labels(x) = k PROVE FALSE
        <5>1. x[1] = s /\ cache[x].errLabels = FALSE /\ cache[x] /= None
          <6>1. <<x[1], cache[x].errLabels>> = <<s, FALSE>>
            BY <1>b, <4>2 DEF Labels
          <6> QED BY <4>2, <6>1, PairsAgree DEF Vanishes
        <5>2. x = <<s, x[2]>> /\ x[2] \in BOOLEAN
          BY <5>1, KeyIsPair
        <5>3. x[2] /= TRUE
          BY <1>0, <5>1, <5>2 DEF KeysOK
        <5> QED BY <1>b, <3>4, <4>2, <5>2, <5>3
      <4>3. db'[k] = db[k]
        BY <1>b, <2>0, <4>2
      <4> QED BY <2>0, <2>2, <3>2, <4>1, <4>3 DEF k
    <3> QED BY <3>3, <3>4
  <2> QED BY <2>1, <2>2
<1>2. CASE SaveRow
  <2>1. PICK x \in todo :
            /\ x \in Keys /\ cache[x] \in AlertStates /\ Labels(x) \in Keys
            /\ Labels(x) = <<x[1], cache[x].errLabels>>
            /\ db' = [db EXCEPT ![Labels(x)] = RowOf(cache[x])]
            /\ todo' = todo \ {x}
            /\ cache' = cache /\ hist' = hist /\ lost' = lost
    BY <1>0, <1>2, SaveShape
  <2>2. Good
    BY <1>a, <2>1
  <2>3. CASE x = k
    <3>1. Labels(k) = k
      BY <1>d, <2>1, <2>2, <2>3
    <3>2. db'[k] = RowOf(cache[k])
      BY <1>0, <1>b, <2>1, <2>3, <3>1 DEF TypeOK
    <3> QED BY <2>1, <2>2, <2>3, <3>2, StoredStep DEF k
  <2>4. CASE x /= k
    <3>1. Labels(x) /= k
      <4>1. PICK y \in Series : x = CacheID(y)
        BY <1>0, <2>1 DEF KeysOK, TypeOK
      <4>2. y /= s /\ x[1] = y
        BY <2>4, <4>1, KeyIsPair DEF k
      <4>3. ASSUME Labels(x) = k PROVE FALSE
        <5>1. <<x[1], cache[x].errLabels>> = <<s, FALSE>>
          BY <1>b, <4>3 DEF Labels
        <5> QED BY <4>2, <5>1, PairsAgree
      <4> QED BY <4>3
    <3>2. db'[k] = db[k]
      BY <1>0, <1>b, <2>1, <3>1 DEF TypeOK
    <3> QED BY <2>1, <2>2, <2>4, <3>2 DEF k
  <2> QED BY <2>3, <2>4
<1>3. CASE SaveFails
  BY <1>3 DEF SaveFails
<1>4. CASE Send
  <2>1. todo' = todo /\ db' = db /\ hist' = hist /\ lost' = lost
    BY <1>0, <1>4, SendShape
  <2>2. Good
    BY <1>a, <2>1
  <2>3. CASE cache[k] = None
    BY <1>0, <1>4, <1>b, <2>1, <2>2, <2>3, SentStep DEF k
  <2>4. CASE cache[k] /= None
    <3>1. /\ cache'[k] /= None
          /\ cache'[k].state = cache[k].state
          /\ cache'[k].errLabels = cache[k].errLabels
          /\ cache'[k].startsAt = cache[k].startsAt
          /\ cache'[k].endsAt = cache[k].endsAt
          /\ cache'[k].lastEval = cache[k].lastEval
      BY <1>0, <1>4, <1>b, <2>4, SentStep
    <3> QED BY <2>1, <2>2, <2>4, <3>1 DEF IsStored, k
  <2> QED BY <2>3, <2>4
<1>5. CASE UpdateRule
  BY <1>a, <1>5 DEF UpdateRule, k
<1>6. CASE ClearState
  <2>1. /\ pc = "idle" /\ todo' = todo
        /\ cache' = [x \in Keys |-> None]
        /\ hist'[s] = HistCleared(hist[s])
        /\ \/ db' = [x \in Keys |-> None] /\ lost' = lost
           \/ db' = db /\ \A x \in Keys : cache[x] = None
    BY <1>0, <1>6, ClearShape
  <2>2. todo' = {} /\ cache'[k] = None
    BY <1>0, <1>b, <2>1 DEF IdleOK
  <2>3. hist'[s].relabelled = hist[s].relabelled
    BY <1>c, <2>1 DEF HistCleared, Histories
  <2>4. CASE db' = [x \in Keys |-> None]
    BY <1>b, <2>2, <2>4, StoredStep DEF k
  <2>5. CASE db' = db /\ \A x \in Keys : cache[x] = None
    <3>1. ~lost
      BY <1>6 DEF ClearState
    <3>2. IsStored(cache[k], db[k])
      BY <1>a, <2>1, <2>2, <2>3, <3>1
    <3> QED BY <1>b, <2>2, <2>5, <3>2 DEF k
  <2> QED BY <2>1, <2>4, <2>5
<1>7. CASE Restart
  <2>1. /\ todo' = {} /\ db' = db /\ ~lost
        /\ cache'[k] = IF db[k] # None THEN WarmState(db[k], k[2]) ELSE None
    BY <1>0, <1>7, <1>b, RestartShape
  <2>2. CASE db[k] = None
    BY <2>1, <2>2, StoredStep DEF k
  <2>3. CASE db[k] /= None
    <3>1. db[k] \in Rows
      BY <1>0, <1>b, <2>3 DEF TypeOK
    <3>2. cache'[k] = WarmState(db[k], FALSE)
      BY <1>b, <2>1, <2>3
    <3>3. cache'[k].errLabels = FALSE /\ IsStored(cache'[k], db[k])
      BY <3>1, <3>2, WarmStep, StoredStep
    <3> QED BY <2>1, <3>3 DEF k
  <2> QED BY <2>2, <2>3
<1>8. CASE UNCHANGED vars
  BY <1>a, <1>8 DEF vars, k
<1> QED BY <1>1, <1>2, <1>3, <1>4, <1>5, <1>6, <1>7, <1>8 DEF Next, OutOfTime

(* Unless a database call failed, a new process finds exactly the states   *)
(* the old one had cached, up to translateInstanceState.                   *)
THEOREM RestartKeepsStates == Spec => []RestartLosesNothing
<1>1. Init => RowsOK
  <2> SUFFICES ASSUME Init, NEW s \in Series
               PROVE  /\ cache[CacheID(s)] = None
                      /\ IsStored(cache[CacheID(s)], db[CacheID(s)])
                      /\ CacheID(s) \notin todo
    BY DEF RowsOK
  <2>1. cache[CacheID(s)] = None /\ db[CacheID(s)] = None /\ todo = {}
    BY KeyIsPair DEF Init
  <2> QED BY <2>1, StoredStep
<1>2. Inv /\ Inv' /\ RowsOK /\ [Next]_vars => RowsOK'
  BY RowsNext
<1>3. Inv /\ RowsOK => RestartLosesNothing
  <2> SUFFICES ASSUME Inv, RowsOK, pc = "idle", ~lost, NEW s \in Series, ~hist[s].relabelled
               PROVE  LET k == CacheID(s)
                          warm == WarmState(db[k], FALSE)
                      IN  IF cache[k] = None THEN db[k] = None
                          ELSE /\ db[k] # None
                               /\ warm.state = TranslateInstanceState(cache[k].state)
                               /\ warm.startsAt = cache[k].startsAt
                               /\ warm.endsAt = cache[k].endsAt
                               /\ warm.lastEval = cache[k].lastEval
    BY DEF RestartLosesNothing
  <2> DEFINE k == CacheID(s)
  <2>1. IsStored(cache[k], db[k])
    BY DEF RowsOK, Inv, IdleOK
  <2>2. CASE cache[k] = None
    BY <2>1, <2>2 DEF IsStored
  <2>3. CASE cache[k] /= None
    BY <2>1, <2>3 DEF IsStored, WarmState
  <2> QED BY <2>2, <2>3
<1> QED BY <1>1, <1>2, <1>3, InvHolds, PTL DEF Spec
-----------------------------------------------------------------------------
(* Whatever is resolved is announced. *)

(* Who is posted under the name of the rule: the series itself, if it      *)
(* fires or has just been resolved.                                        *)
LEMMA SenderIsSeries ==
    ASSUME Inv, NEW s \in Series, NEW x \in Keys, IsDue(x), AlertId(x) = RuleAlert(s)
    PROVE  /\ x = CacheID(s)
           /\ IsFiring(s) \/ IsResolved(s)
<1>0. TypeOK /\ KeysOK
  BY DEF Inv
<1>1. <<Labels(x), AlertName(cache[x])>> = <<CacheID(s), "Rule">>
  BY DEF AlertId, RuleAlert
<1>2. Labels(x) = CacheID(s) /\ AlertName(cache[x]) = "Rule"
  BY <1>1, PairsAgree
<1>3. <<x[1], cache[x].errLabels>> = <<s, FALSE>>
  BY <1>2, KeyIsPair DEF Labels
<1>4. x[1] = s /\ cache[x].errLabels = FALSE
  BY <1>3, PairsAgree
<1>5. PICK y \in Series : x = CacheID(y)
  BY <1>0 DEF IsDue, KeysOK
<1>6. x = CacheID(s)
  BY <1>4, <1>5, KeyIsPair
<1>7. cache[x] /= None /\ cache[x].state \in EvalStates
  BY <1>0 DEF IsDue, TypeOK, AlertStates
<1>8. /\ cache[x].state \notin {"NoData", "Error", "Pending"}
      /\ cache[x].state = "Normal" => cache[x].resolved
  BY <1>2 DEF AlertName, IsDue, NeedsSending
<1>9. cache[x].state \in {"Normal", "Alerting"}
  BY <1>7, <1>8 DEF EvalStates
<1> QED BY <1>4, <1>6, <1>7, <1>8, <1>9 DEF IsFiring, IsResolved, IsDue

(* The labels of a state without those of an error are its cache ID. *)
LEMMA LabelsAreCacheID ==
    ASSUME TypeOK, NEW s \in Series, cache[CacheID(s)] /= None, ~cache[CacheID(s)].errLabels
    PROVE  Labels(CacheID(s)) = CacheID(s)
<1>1. cache[CacheID(s)].errLabels = FALSE
  BY LabelsAreKeys, KeyIsPair DEF AlertStates
<1> QED BY <1>1, KeyIsPair DEF Labels

(* No step leaves an alert open whose series no longer fires. *)
LEMMA OpenNext == ASSUME Inv, Inv', OpenOK, [Next]_vars PROVE OpenOK'
<1>0. TypeOK /\ IdleOK /\ KeysOK /\ TypeOK'
  BY DEF Inv
<1> DEFINE k(s) == CacheID(s)
           IsOpen(s) == am[RuleAlert(s)] > now + MaxLag
           Announced(s) == \/ hist[s].abandoned \/ IsFiring(s) \/ IsResolved(s)
                           \/ RuleAlert(s) \in missing
           Ended(s) == IsResolved(s) => cache[CacheID(s)].endsAt <= now \/ hist[s].abandoned
<1> SUFFICES ASSUME NEW s \in Series
             PROVE  (IsOpen(s) => Announced(s))' /\ Ended(s)'
  BY DEF OpenOK
<1>a. IsOpen(s) => Announced(s)
  BY DEF OpenOK
<1>b. Ended(s)
  BY DEF OpenOK
<1>c. CacheID(s) \in Keys /\ RuleAlert(s) \in AlertIds
  BY KeyIsPair
<1>d. /\ now \in Nat /\ now' \in Nat /\ MaxLag \in Nat
      /\ am[RuleAlert(s)] \in Nat
      /\ hist[s] \in Histories
      /\ cache[CacheID(s)] \in AlertStates \cup {None}
  BY <1>0, <1>c, LagAssumption DEF TypeOK
<1>1. CASE Evaluate
  <2>0. /\ processed = {} /\ missing = {} /\ am' = am /\ now' >= now
    BY <1>0, <1>1, <1>d, EvaluateStep, IntervalAssumption DEF IdleOK
  <2>1. IsOpen(s)' => hist[s].abandoned \/ IsFiring(s)
    <3>1. \A m, n, o, l \in Nat : m > n + l /\ n >= o => m > o + l
      OBVIOUS
    <3>2. IsOpen(s)' => IsOpen(s)
      BY <1>d, <2>0, <3>1
    <3> QED BY <1>a, <2>0, <3>2 DEF IsResolved
  <2>2. CASE CacheID(s) \in processed'
    <3>1. PICK result \in Results, a \in AlertStates :
              /\ Stepped(s, a, result)
              /\ IsRecorded(hist[s], hist'[s], cache[CacheID(s)], cache'[CacheID(s)], result, now')
              /\ cache'[CacheID(s)] \in AlertStates /\ hist'[s] \in Histories
      BY <1>0, <1>1, <2>2, SeriesStep
    <3> DEFINE b == cache'[CacheID(s)]
    <3>2. /\ b /= None
          /\ b.resolved = (a.state = "Alerting" /\ b.state = "Normal")
          /\ a.state = "Alerting" /\ b.state = "Normal" => b.endsAt = now' \/ result = "NoData"
          /\ b.state \in {"Alerting", "Normal"} => b.errLabels = a.errLabels
          /\ cache[CacheID(s)] /= None => a = cache[CacheID(s)]
          /\ a.state = "Alerting" => cache[CacheID(s)] /= None
      BY <3>1 DEF Stepped, IsEnded
    <3>3. /\ hist[s].abandoned => hist'[s].abandoned \/ (b.state = "Alerting" /\ ~b.errLabels)
          /\ a.state = "Alerting" /\ (\/ b.state \notin {"Normal", "Alerting"}
                                      \/ b.state = "Normal" /\ result = "NoData")
                => hist'[s].abandoned
      <4>1. /\ hist[s].abandoned => hist'[s].abandoned \/ (b.state = "Alerting" /\ ~b.errLabels)
            /\ /\ cache[CacheID(s)] /= None /\ cache[CacheID(s)].state = "Alerting"
               /\ \/ b.state \notin {"Normal", "Alerting"}
                  \/ b.state = "Normal" /\ result = "NoData"
               => hist'[s].abandoned
        BY <3>1 DEF IsRecorded
      <4> QED BY <3>2, <4>1
    <3> HIDE DEF b
    <3>4. IsOpen(s)' => Announced(s)'
      <4>1. ASSUME hist[s].abandoned PROVE hist'[s].abandoned \/ IsFiring(s)'
        BY <3>2, <3>3, <4>1 DEF IsFiring, b
      <4>2. ASSUME IsFiring(s) PROVE hist'[s].abandoned \/ IsFiring(s)' \/ IsResolved(s)'
        <5>1. a.state = "Alerting" /\ ~a.errLabels
          BY <3>2, <4>2 DEF IsFiring
        <5>2. CASE b.state = "Alerting"
          BY <3>2, <5>1, <5>2 DEF IsFiring, b
        <5>3. CASE b.state = "Normal"
          BY <2>2, <3>2, <5>1, <5>3 DEF IsResolved, b
        <5>4. CASE b.state \notin {"Alerting", "Normal"}
          BY <3>3, <5>1, <5>4
        <5> QED BY <5>2, <5>3, <5>4
      <4> QED BY <2>1, <4>1, <4>2
    <3>5. Ended(s)'
      <4> SUFFICES ASSUME IsResolved(s)'
                   PROVE  b.endsAt <= now' \/ hist'[s].abandoned
        BY DEF b
      <4>1. b.state = "Normal" /\ b.resolved
        BY DEF IsResolved, b
      <4>2. a.state = "Alerting"
        BY <3>2, <4>1
      <4> QED BY <1>d, <3>2, <3>3, <4>1, <4>2
    <3> QED BY <3>4, <3>5
  <2>3. CASE CacheID(s) \notin processed'
    <3>1. /\ cache'[CacheID(s)] \in {None, cache[CacheID(s)]}
          /\ hist'[s].abandoned = hist[s].abandoned
      BY <1>0, <1>1, <2>3, NoResultStep
    <3>2. ~IsResolved(s)'
      BY <2>3 DEF IsResolved
    <3>3. ASSUME IsFiring(s) PROVE IsFiring(s)' \/ RuleAlert(s) \in missing'
      <4>1. CASE cache'[CacheID(s)] = cache[CacheID(s)]
        BY <3>3, <4>1 DEF IsFiring
      <4>2. CASE cache'[CacheID(s)] = None
        <5>1. Vanishes(CacheID(s)) /\ cache[CacheID(s)].state = "Alerting"
          BY <1>c, <2>3, <3>3, <4>2 DEF IsFiring, Vanishes
        <5>2. <<Labels(CacheID(s)), "Rule">> \in missing'
          BY <1>0, <1>1, <1>c, <5>1, EvaluateStep
        <5>3. Labels(CacheID(s)) = CacheID(s)
          BY <1>0, <3>3, LabelsAreCacheID DEF IsFiring
        <5> QED BY <5>2, <5>3 DEF RuleAlert
      <4> QED BY <3>1, <4>1, <4>2
    <3> QED BY <2>1, <3>1, <3>2, <3>3
  <2> QED BY <2>2, <2>3
<1>2. CASE SaveRow
  <2>1. UNCHANGED <<now, cache, am, processed, missing, hist>>
    BY <1>0, <1>2, SaveShape
  <2> QED BY <1>a, <1>b, <2>1 DEF IsFiring, IsResolved
<1>3. CASE SaveFails
  BY <1>a, <1>b, <1>3 DEF SaveFails, IsFiring, IsResolved
<1>4. CASE Send
  <2>0. processed' = {} /\ missing' = {} /\ now' = now /\ hist' = hist
    BY <1>0, <1>4, SendShape
  <2>1. ~IsResolved(s)'
    BY <2>0 DEF IsResolved
  <2>2. IsFiring(s) => IsFiring(s)'
    BY <1>0, <1>4, <1>c, SentStep DEF IsFiring
  <2>3. IsResolved(s) => IsDue(CacheID(s)) /\ AlertId(CacheID(s)) = RuleAlert(s)
    <3> HAVE IsResolved(s)
    <3>1. IsDue(CacheID(s)) /\ AlertName(cache[CacheID(s)]) = "Rule"
      BY DEF IsResolved, IsDue, NeedsSending, AlertName
    <3>2. Labels(CacheID(s)) = CacheID(s)
      BY <1>0, LabelsAreCacheID DEF IsResolved, TypeOK
    <3> QED BY <3>1, <3>2 DEF AlertId, RuleAlert
  <2>4. ASSUME IsOpen(s)' PROVE hist'[s].abandoned \/ IsFiring(s)'
    <3>1. \/ RuleAlert(s) \in missing /\ am'[RuleAlert(s)] = now
          \/ \E x \in Keys : /\ IsDue(x) /\ AlertId(x) = RuleAlert(s)
                             /\ am'[RuleAlert(s)] = cache[x].endsAt
          \/ /\ RuleAlert(s) \notin missing
             /\ \A x \in Keys : ~(IsDue(x) /\ AlertId(x) = RuleAlert(s))
             /\ am'[RuleAlert(s)] = am[RuleAlert(s)]
      BY <1>0, <1>4, <1>c, SendShape
    <3>2. CASE am'[RuleAlert(s)] = now
      BY <1>d, <2>0, <2>4, <3>2
    <3>3. ASSUME NEW x \in Keys, IsDue(x), AlertId(x) = RuleAlert(s),
                 am'[RuleAlert(s)] = cache[x].endsAt
          PROVE  hist'[s].abandoned \/ IsFiring(s)'
      <4>1. x = CacheID(s) /\ (IsFiring(s) \/ IsResolved(s))
        BY <3>3, SenderIsSeries
      <4>2. CASE IsFiring(s)
        BY <2>2, <4>2
      <4>3. CASE IsResolved(s)
        <5>1. cache[CacheID(s)].endsAt <= now \/ hist[s].abandoned
          BY <1>b, <4>3
        <5>2. cache[CacheID(s)].endsAt \in Nat
          BY <1>0, <1>d, <4>3 DEF IsResolved, TypeOK, AlertStates
        <5>3. ~(cache[CacheID(s)].endsAt <= now)
          BY <1>d, <2>0, <2>4, <3>3, <4>1, <5>2
        <5> QED BY <2>0, <5>1, <5>3
      <4> QED BY <4>1, <4>2, <4>3
    <3>4. CASE /\ RuleAlert(s) \notin missing
               /\ \A x \in Keys : ~(IsDue(x) /\ AlertId(x) = RuleAlert(s))
               /\ am'[RuleAlert(s)] = am[RuleAlert(s)]
      <4>1. Announced(s)
        BY <1>a, <2>0, <2>4, <3>4
      <4> QED BY <1>c, <2>0, <2>2, <2>3, <3>4, <4>1
    <3> QED BY <3>1, <3>2, <3>3, <3>4
  <2> QED BY <2>1, <2>4
<1>5. CASE UpdateRule
  BY <1>a, <1>b, <1>5 DEF UpdateRule, IsFiring, IsResolved
<1>6. CASE ClearState
  <2>0. /\ processed = {} /\ processed' = {} /\ missing = {} /\ now' = now
        /\ hist'[s] = HistCleared(hist[s])
        /\ am'[RuleAlert(s)] = am[RuleAlert(s)] \/ am'[RuleAlert(s)] \in now..(now + MaxLag)
    BY <1>0, <1>6, <1>c, ClearShape DEF IdleOK
  <2>1. ~IsResolved(s) /\ ~IsResolved(s)'
    BY <2>0 DEF IsResolved
  <2>2. hist'[s].abandoned = hist[s].abandoned
    BY <1>d, <2>0 DEF HistCleared, Histories
  <2>3. ASSUME IsOpen(s)' PROVE hist[s].abandoned
    <3>1. am'[RuleAlert(s)] = am[RuleAlert(s)]
      BY <1>d, <2>0, <2>3
    <3>2. ~IsFiring(s)
      <4> SUFFICES ASSUME IsFiring(s) PROVE FALSE
        OBVIOUS
      <4>1. AlertId(CacheID(s)) = RuleAlert(s)
        BY <1>0, LabelsAreCacheID DEF IsFiring, AlertId, RuleAlert, AlertName
      <4>2. am'[RuleAlert(s)] <= now + MaxLag
        BY <1>0, <1>6, <1>c, <4>1, ClearShape DEF IsFiring
      <4> QED BY <1>d, <2>0, <2>3, <3>1, <4>2
    <3> QED BY <1>a, <2>0, <2>1, <2>3, <3>1, <3>2
  <2> QED BY <2>1, <2>2, <2>3
<1>7. CASE Restart
  <2>1. hist'[s] = HistRestarted(hist[s])
    BY <1>0, <1>7, RestartShape
  <2>2. hist'[s].abandoned
    BY <1>d, <2>1 DEF HistRestarted, Histories
  <2> QED BY <2>2
<1>8. CASE UNCHANGED vars
  BY <1>a, <1>b, <1>8 DEF vars, IsFiring, IsResolved
<1> QED BY <1>1, <1>2, <1>3, <1>4, <1>5, <1>6, <1>7, <1>8 DEF Next, OutOfTime

(* Whatever the order of results, edits and failures, a series that is     *)
(* Normal again has no open alert, unless that alert was abandoned.        *)
THEOREM ResolutionIsPosted == Spec => []ResolvedIsAnnounced
<1>1. Init => OpenOK
  <2> SUFFICES ASSUME Init, NEW s \in Series
               PROVE  ~(am[RuleAlert(s)] > now + MaxLag) /\ ~IsResolved(s)
    BY DEF OpenOK
  <2>1. am[RuleAlert(s)] = 0 /\ now = StartTime /\ processed = {}
    BY KeyIsPair DEF Init, ZeroTime
  <2>2. StartTime \in Nat /\ MaxLag \in Nat
    BY TimeAssumption, LagAssumption
  <2> QED BY <2>1, <2>2 DEF IsResolved
<1>2. Inv /\ Inv' /\ OpenOK /\ [Next]_vars => OpenOK'
  BY OpenNext
<1>3. Inv /\ OpenOK => ResolvedIsAnnounced
  <2> SUFFICES ASSUME Inv, OpenOK, pc = "idle", NEW s \in Series,
                      cache[CacheID(s)] /= None, cache[CacheID(s)].state = "Normal",
                      am[<<CacheID(s), "Rule">>] > now + MaxLag
               PROVE  hist[s].abandoned
    BY DEF ResolvedIsAnnounced
  <2>1. processed = {} /\ missing = {}
    BY DEF Inv, IdleOK
  <2>2. ~IsFiring(s) /\ ~IsResolved(s) /\ RuleAlert(s) \notin missing
    BY <2>1 DEF IsFiring, IsResolved
  <2> QED BY <2>2 DEF OpenOK, RuleAlert
<1> QED BY <1>1, <1>2, <1>3, InvHolds, PTL DEF Spec
-----------------------------------------------------------------------------
(* What fires reaches the Alertmanager. *)

(* Alerts outlive the resend delay, an interval and the lag of a posting.  *)
LagIsShort == Interval + ResendDelay + MaxLag <= Validity

(* Nothing is posted as vanished that has just been evaluated. *)
LEMMA EvaluatedIsNotMissing ==
    ASSUME Inv, Evaluate, NEW s \in Series, CacheID(s) \in processed'
    PROVE  RuleAlert(s) \notin missing'
<1>0. TypeOK /\ KeysOK
  BY DEF Inv
<1> SUFFICES ASSUME RuleAlert(s) \in missing' PROVE FALSE
  OBVIOUS
<1>1. PICK x \in Keys : Vanishes(x) /\ RuleAlert(s) = <<Labels(x), "Rule">>
  BY <1>0, EvaluateStep
<1>2. Labels(x) = CacheID(s)
  BY <1>1, PairsAgree DEF RuleAlert
<1>3. <<x[1], cache[x].errLabels>> = <<s, FALSE>>
  BY <1>2, KeyIsPair DEF Labels
<1>4. x[1] = s /\ cache[x].errLabels = FALSE /\ cache[x] /= None /\ x \notin processed'
  BY <1>1, <1>3, PairsAgree DEF Vanishes
<1>5. x = <<s, x[2]>> /\ x[2] \in BOOLEAN
  BY <1>4, KeyIsPair
<1>6. x[2] /= TRUE
  BY <1>0, <1>4, <1>5 DEF KeysOK
<1> QED BY <1>4, <1>5, <1>6, KeyIsPair

(* An Alerting state that is due is what is posted under the rule's name;  *)
(* one that is not leaves what was posted before.                          *)
LEMMA SentAlert ==
    ASSUME Inv, Send, NEW s \in Series,
           cache[CacheID(s)] /= None, cache[CacheID(s)].state = "Alerting",
           ~cache[CacheID(s)].errLabels, RuleAlert(s) \notin missing
    PROVE  am'[RuleAlert(s)] = IF IsDue(CacheID(s)) THEN cache[CacheID(s)].endsAt
                               ELSE am[RuleAlert(s)]
<1>0. TypeOK /\ CacheID(s) \in Keys /\ RuleAlert(s) \in AlertIds
  BY KeyIsPair DEF Inv
<1>1. AlertId(CacheID(s)) = RuleAlert(s)
  BY <1>0, LabelsAreCacheID DEF AlertId, RuleAlert, AlertName
<1>2. \A x \in Keys : IsDue(x) /\ AlertId(x) = RuleAlert(s) => x = CacheID(s)
  BY SenderIsSeries
<1> QED BY <1>0, <1>1, <1>2, SendShape

(* No step keeps what fires from being known, and valid, after the posting. *)
LEMMA SentNext == ASSUME LagIsShort, Inv, Inv', SentOK, [Next]_vars PROVE SentOK'
<1>0. TypeOK /\ IdleOK /\ KeysOK /\ TypeOK'
  BY DEF Inv
<1> DEFINE Sent(s) ==
        LET a == cache[CacheID(s)]
        IN  /\ a.lastSentAt <= now + MaxLag
            /\ CacheID(s) \in processed => \/ a.lastSentAt = ZeroTime
                                           \/ a.lastSentAt + Interval <= now + MaxLag
           Firing(s) ==
        LET a == cache[CacheID(s)]
        IN  /\ a.state = "Alerting"
            /\ a.lastEval = now
            /\ a.endsAt = now + Validity
            /\ hist[s].firing <= now
            /\ pc = "save" => CacheID(s) \in processed
           Known(s) ==
        LET a == cache[CacheID(s)]
        IN  /\ a.lastSentAt /= ZeroTime => IsKnown(s) \/ WasSentBefore(s)
            /\ pc = "idle" => /\ a.lastSentAt /= ZeroTime
                              /\ IF IsKnown(s) THEN am[RuleAlert(s)] > now + Interval
                                 ELSE a.lastSentAt + ResendDelay > now
           Good(s) ==
        cache[CacheID(s)] /= None =>
            /\ Sent(s)
            /\ hist[s].firing /= ZeroTime => /\ Firing(s)
                                             /\ ~cache[CacheID(s)].errLabels => Known(s)
            /\ CacheID(s) \in processed => RuleAlert(s) \notin missing
<1> SUFFICES ASSUME NEW s \in Series PROVE Good(s)'
  BY DEF SentOK
<1>a. Good(s)
  BY DEF SentOK
<1>b. CacheID(s) \in Keys /\ RuleAlert(s) \in AlertIds
  BY KeyIsPair
<1>c. /\ now \in Nat \ {ZeroTime} /\ now' \in Nat \ {ZeroTime} /\ MaxLag \in Nat
      /\ Interval \in Nat /\ Interval > 0 /\ ResendDelay \in Nat /\ Validity \in Nat
      /\ am[RuleAlert(s)] \in Nat /\ am'[RuleAlert(s)] \in Nat
      /\ hist[s] \in Histories /\ hist'[s] \in Histories
      /\ cache[CacheID(s)] \in AlertStates \cup {None}
      /\ cache'[CacheID(s)] \in AlertStates \cup {None}
  BY <1>0, <1>b, LagAssumption, IntervalAssumption, ResendDelayAssumption, ValidityIsLong
     DEF TypeOK
<1>d. \A a \in AlertStates : a.lastSentAt \in Nat /\ a.endsAt \in Nat
  BY DEF AlertStates
<1>1. CASE Evaluate
  <2>0. /\ pc' = "save" /\ am' = am /\ now' >= now + Interval
    BY <1>0, <1>1, EvaluateStep
  <2>a. \A m, n, i, l, x \in Nat :
            m >= n + i /\ x <= n + l => x <= m + l /\ x + i <= m + l
    OBVIOUS
  <2>1. CASE CacheID(s) \in processed'
    <3>1. PICK result \in Results, a \in AlertStates :
              /\ Stepped(s, a, result)
              /\ IsRecorded(hist[s], hist'[s], cache[CacheID(s)], cache'[CacheID(s)], result, now')
      BY <1>0, <1>1, <2>1, SeriesStep
    <3> DEFINE b == cache'[CacheID(s)]
    <3>2. /\ b /= None /\ b \in AlertStates
          /\ b.lastEval = now' /\ b.lastSentAt = a.lastSentAt
          /\ b.state = "Alerting" => b.endsAt = now' + Validity /\ b.errLabels = a.errLabels
          /\ cache[CacheID(s)] /= None => a = cache[CacheID(s)]
          /\ cache[CacheID(s)] = None => a.lastSentAt = ZeroTime
      BY <3>1 DEF Stepped, IsClocked, IsEnded
    <3>3. /\ b.state /= "Alerting" => hist'[s].firing = ZeroTime
          /\ b.state = "Alerting" => \/ hist'[s].firing = now'
                                     \/ /\ cache[CacheID(s)] /= None
                                        /\ hist[s].firing /= ZeroTime
                                        /\ hist'[s].firing = hist[s].firing
      BY <3>1 DEF IsRecorded
    <3> HIDE DEF b
    <3>4. /\ b.lastSentAt <= now' + MaxLag
          /\ b.lastSentAt = ZeroTime \/ b.lastSentAt + Interval <= now' + MaxLag
      <4>1. CASE cache[CacheID(s)] = None
        <5>1. b.lastSentAt = 0
          BY <3>2, <4>1 DEF ZeroTime
        <5> QED BY <1>c, <5>1, SumsGrow DEF ZeroTime
      <4>2. CASE cache[CacheID(s)] /= None
        <5>1. b.lastSentAt \in Nat /\ b.lastSentAt <= now + MaxLag
          BY <1>a, <1>d, <3>2, <4>2
        <5> QED BY <1>c, <2>0, <2>a, <5>1
      <4> QED BY <4>1, <4>2
    <3>5. ASSUME hist'[s].firing /= ZeroTime PROVE Firing(s)'
      <4>1. b.state = "Alerting"
        BY <3>3, <3>5
      <4>2. hist'[s].firing <= now'
        <5>1. CASE hist'[s].firing = now'
          BY <1>c, <5>1
        <5>2. CASE /\ cache[CacheID(s)] /= None
                   /\ hist[s].firing /= ZeroTime
                   /\ hist'[s].firing = hist[s].firing
          <6>1. hist[s].firing <= now /\ hist[s].firing \in Nat
            BY <1>a, <1>c, <5>2 DEF Histories
          <6> QED BY <1>c, <2>0, <5>2, <6>1
        <5> QED BY <3>3, <4>1, <5>1, <5>2
      <4> QED BY <2>1, <3>2, <4>1, <4>2 DEF b
    <3>6. ASSUME hist'[s].firing /= ZeroTime, ~b.errLabels, b.lastSentAt /= ZeroTime
          PROVE  IsKnown(s)' \/ WasSentBefore(s)'
      <4>1. b.state = "Alerting"
        BY <3>3, <3>6
      <4>2. CASE hist'[s].firing = now'
        BY <3>4, <3>6, <4>2 DEF WasSentBefore, b
      <4>3. CASE /\ cache[CacheID(s)] /= None
                 /\ hist[s].firing /= ZeroTime
                 /\ hist'[s].firing = hist[s].firing
        <5>1. b.lastSentAt = cache[CacheID(s)].lastSentAt /\ ~cache[CacheID(s)].errLabels
          BY <3>2, <3>6, <4>1, <4>3
        <5>2. IsKnown(s) \/ WasSentBefore(s)
          BY <1>a, <3>6, <4>3, <5>1
        <5> QED BY <2>0, <4>3, <5>1, <5>2 DEF IsKnown, WasSentBefore, b
      <4> QED BY <3>3, <4>1, <4>2, <4>3
    <3>7. RuleAlert(s) \notin missing'
      BY <1>1, <2>1, EvaluatedIsNotMissing
    <3> QED BY <2>0, <3>4, <3>5, <3>6, <3>7 DEF b
  <2>2. CASE CacheID(s) \notin processed'
    <3>1. cache'[CacheID(s)] \in {None, cache[CacheID(s)]} /\ hist'[s].firing = ZeroTime
      BY <1>0, <1>1, <2>2, NoResultStep
    <3>2. CASE cache'[CacheID(s)] = None
      BY <3>2
    <3>3. CASE cache'[CacheID(s)] /= None
      <4>1. cache'[CacheID(s)] = cache[CacheID(s)] /\ cache[CacheID(s)] /= None
        BY <3>1, <3>3
      <4>2. cache[CacheID(s)].lastSentAt \in Nat /\ cache[CacheID(s)].lastSentAt <= now + MaxLag
        BY <1>a, <1>c, <1>d, <4>1
      <4>3. cache[CacheID(s)].lastSentAt <= now' + MaxLag
        BY <1>c, <2>0, <2>a, <4>2
      <4> QED BY <2>2, <3>1, <4>1, <4>3
    <3> QED BY <3>2, <3>3
  <2> QED BY <2>1, <2>2
<1>2. CASE SaveRow \/ SaveFails \/ UpdateRule \/ UNCHANGED vars
  <2>1. UNCHANGED <<now, cache, am, pc, processed, missing, hist>>
    BY <1>0, <1>2, SaveShape DEF SaveFails, UpdateRule, vars
  <2>2. /\ now' = now /\ cache' = cache /\ am' = am /\ pc' = pc /\ processed' = processed
        /\ missing' = missing /\ hist' = hist
    BY <2>1
  <2> QED BY <1>a, <2>2 DEF IsKnown, WasSentBefore
<1>3. CASE Send
  <2> DEFINE a == cache[CacheID(s)]
             b == cache'[CacheID(s)]
  <2>0. /\ pc = "save" /\ pc' = "idle" /\ processed' = {} /\ missing' = {}
        /\ now' = now /\ hist' = hist
    BY <1>0, <1>3, SendShape
  <2> SUFFICES ASSUME b /= None PROVE Good(s)'
    OBVIOUS
  <2>1. /\ a /= None /\ a \in AlertStates /\ b \in AlertStates
        /\ b.state = a.state /\ b.errLabels = a.errLabels
        /\ b.endsAt = a.endsAt /\ b.lastEval = a.lastEval
        /\ ~IsDue(CacheID(s)) => b = a
        /\ IsDue(CacheID(s)) => \E lag \in 0..MaxLag : b.lastSentAt = now + lag
    BY <1>0, <1>b, <1>3, SentStep
  <2>2. a.lastSentAt \in Nat /\ b.lastSentAt \in Nat /\ a.lastSentAt <= now + MaxLag
    BY <1>a, <1>d, <2>1
  <2>3. IsDue(CacheID(s)) => now <= b.lastSentAt /\ b.lastSentAt <= now + MaxLag
    BY <1>c, <2>1
  <2> HIDE DEF a, b
  <2>4. b.lastSentAt <= now + MaxLag
    BY <2>1, <2>2, <2>3
  <2>5. hist[s].firing /= ZeroTime => Firing(s)'
    BY <1>a, <2>0, <2>1 DEF a, b
  <2>6. ASSUME hist[s].firing /= ZeroTime, ~b.errLabels PROVE Known(s)'
    <3>1. /\ a.state = "Alerting" /\ ~a.errLabels /\ CacheID(s) \in processed
          /\ a.endsAt = now + Validity /\ a.lastEval = now
          /\ RuleAlert(s) \notin missing
          /\ a.lastSentAt /= ZeroTime => IsKnown(s) \/ WasSentBefore(s)
      BY <1>a, <2>0, <2>1, <2>6 DEF a
    <3>2. am'[RuleAlert(s)] = IF IsDue(CacheID(s)) THEN a.endsAt ELSE am[RuleAlert(s)]
      BY <1>3, <2>1, <3>1, SentAlert DEF a
    <3>3. CASE IsDue(CacheID(s))
      <4>1. am'[RuleAlert(s)] = now + Validity
        BY <3>1, <3>2, <3>3
      <4>2. b.lastSentAt + Validity <= am'[RuleAlert(s)] + MaxLag
        BY <1>c, <2>2, <2>3, <3>3, <4>1
      <4>3. am'[RuleAlert(s)] > now + Interval
        BY <1>c, <4>1, ValidityIsLong
      <4>4. b.lastSentAt /= ZeroTime
        BY <1>c, <2>2, <2>3, <3>3 DEF ZeroTime
      <4> QED BY <2>0, <4>2, <4>3, <4>4 DEF IsKnown, b
    <3>4. CASE ~IsDue(CacheID(s))
      <4>1. b = a /\ am'[RuleAlert(s)] = am[RuleAlert(s)]
        BY <2>1, <3>2, <3>4
      <4>2. a.lastSentAt /= ZeroTime /\ ~(a.lastSentAt + ResendDelay <= now)
        BY <3>1, <3>4 DEF IsDue, NeedsSending, a
      <4>3. a.lastSentAt + ResendDelay > now
        BY <1>c, <2>2, <4>2
      <4>4. ASSUME IsKnown(s) PROVE am[RuleAlert(s)] > now + Interval
        <5>1. a.lastSentAt + Validity <= am[RuleAlert(s)] + MaxLag
          BY <4>4 DEF IsKnown, a
        <5> QED BY <1>c, <2>2, <4>3, <5>1 DEF LagIsShort
      <4>5. IsKnown(s) \/ WasSentBefore(s)
        BY <3>1, <4>2
      <4>6. IsKnown(s)' = IsKnown(s) /\ WasSentBefore(s)' = WasSentBefore(s)
        BY <2>0, <4>1 DEF IsKnown, WasSentBefore, a, b
      <4> QED BY <2>0, <4>1, <4>2, <4>3, <4>4, <4>5, <4>6 DEF a, b
    <3> QED BY <3>3, <3>4
  <2> QED BY <2>0, <2>4, <2>5, <2>6 DEF b
<1>4. CASE ClearState
  <2>1. cache'[CacheID(s)] = None
    BY <1>0, <1>4, <1>b, ClearShape
  <2> QED BY <2>1
<1>5. CASE Restart
  <2>1. /\ processed' = {} /\ hist'[s] = HistRestarted(hist[s])
        /\ cache'[CacheID(s)] /= None =>
               /\ db[CacheID(s)] /= None
               /\ cache'[CacheID(s)] = WarmState(db[CacheID(s)], CacheID(s)[2])
    BY <1>0, <1>5, <1>b, RestartShape
  <2>2. cache'[CacheID(s)] /= None => cache'[CacheID(s)].lastSentAt = 0
    <3> HAVE cache'[CacheID(s)] /= None
    <3>1. db[CacheID(s)] \in Rows /\ CacheID(s)[2] \in BOOLEAN
      BY <1>0, <1>b, <2>1, KeyIsPair DEF TypeOK
    <3> QED BY <2>1, <3>1, WarmStep DEF ZeroTime
  <2>3. hist'[s].firing = ZeroTime
    BY <1>c, <2>1 DEF HistRestarted, Histories
  <2>4. 0 <= now' + MaxLag
    BY <1>c, SumsGrow
  <2> QED BY <2>1, <2>2, <2>3, <2>4
<1> QED BY <1>1, <1>2, <1>3, <1>4, <1>5 DEF Next, OutOfTime

(* A series that fires is known to the Alertmanager in time, and its alert *)
(* outlasts the next evaluation, if no posting lags more than the alert's  *)
(* validity leaves after an interval and a resend delay.                   *)
THEOREM FiringIsPosted == ASSUME LagIsShort PROVE Spec => []FiringReachesAM
<1>1. Init => SentOK
  BY KeyIsPair DEF Init, SentOK
<1>2. Inv /\ Inv' /\ SentOK /\ [Next]_vars => SentOK'
  BY SentNext
<1>3. Inv /\ SentOK => FiringReachesAM
  <2> SUFFICES ASSUME Inv, SentOK, pc = "idle", NEW s \in Series,
                      cache[CacheID(s)] /= None, ~cache[CacheID(s)].errLabels,
                      hist[s].firing # ZeroTime,
                      now + Interval >= hist[s].firing + ResendDelay + MaxLag
               PROVE  am[AlertId(CacheID(s))] > now + Interval
    BY DEF FiringReachesAM
  <2> DEFINE a == cache[CacheID(s)]
  <2>1. /\ a.state = "Alerting" /\ a.lastSentAt /= ZeroTime
        /\ IsKnown(s) \/ WasSentBefore(s)
        /\ IF IsKnown(s) THEN am[RuleAlert(s)] > now + Interval
           ELSE a.lastSentAt + ResendDelay > now
    BY DEF SentOK
  <2>2. AlertId(CacheID(s)) = RuleAlert(s)
    BY <2>1, LabelsAreCacheID DEF Inv, AlertId, RuleAlert, AlertName
  <2>3. CASE IsKnown(s)
    BY <2>1, <2>2, <2>3
  <2>4. CASE ~IsKnown(s)
    <3>1. a.lastSentAt + Interval <= hist[s].firing + MaxLag
      BY <2>1, <2>4 DEF WasSentBefore
    <3>2. a.lastSentAt + ResendDelay > now
      BY <2>1, <2>4
    <3>3. a \in AlertStates /\ hist[s] \in Histories /\ now \in Nat
      BY KeyIsPair DEF Inv, TypeOK
    <3>4. a.lastSentAt \in Nat /\ hist[s].firing \in Nat
      BY <3>3 DEF AlertStates, Histories
    <3> HIDE DEF a
    <3>5. FALSE
      BY <3>1, <3>2, <3>3, <3>4, IntervalAssumption, ResendDelayAssumption, LagAssumption
    <3> QED BY <3>5
  <2> QED BY <2>3, <2>4
<1> QED BY <1>1, <1>2, <1>3, InvHolds, PTL DEF Spec
=============================================================================
