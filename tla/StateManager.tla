---------------------------- MODULE StateManager ----------------------------
(***************************************************************************)
(* The state manager of Grafana unified alerting for one alert rule: the   *)
(* cache of alert instances (state/cache.go), the alert_instance table it  *)
(* is saved to and warmed from (store/instance_database.go), and the       *)
(* alerts the rule routine posts after each evaluation                     *)
(* (state/manager.go, schedule/compat.go, evaluate and clearState in       *)
(* schedule/schedule.go).                                                  *)
(*                                                                         *)
(* One routine evaluates the rule, so the steps of an evaluation follow    *)
(* each other; between any two of them the process may die, the database   *)
(* may fail, and the rule may be edited.                                   *)
(***************************************************************************)
EXTENDS AlertState

CONSTANTS
    Series,         \* the dimensions the query of the rule may return
    RuleConfigs,    \* the options the rule may be given
    StartTime,      \* the time before the first evaluation
    MaxTime,        \* bound: no evaluation is scheduled after it
    MaxSkip,        \* bound: ticks from one evaluation to the next
    MaxUpsets,      \* bound: how often things go wrong or change, see Upset
    MaxLag,         \* bound: from the scheduled time of an evaluation to its posting
    None            \* no state in the cache, no row in the table

ASSUME RuleConfigsAssumption == RuleConfigs \subseteq RuleOptions
ASSUME TimeAssumption == /\ StartTime \in Nat \ {ZeroTime}
                         /\ MaxTime \in Nat
                         /\ MaxSkip \in Nat
                         /\ MaxUpsets \in Nat
ASSUME LagAssumption == MaxLag \in Nat
ASSUME NoneAssumption == None \notin AlertStates \cup Rows

VARIABLES
    rule,       \* the options of the version of the rule being evaluated
    dirty,      \* a newer version has come, the state is still the old one's
    started,    \* currentRuleVersion > 0
    now,        \* scheduledAt of the last evaluation
    cache,      \* the cached state of every label set, or None
    db,         \* the alert_instance row of every label set, or None
    am,         \* the EndsAt the Alertmanager last got for every alert
    pc,         \* "idle" or "save": between ProcessEvalResults and Send
    processed,  \* the label sets of the evaluation in progress
    todo,       \* those whose row is not yet saved
    missing,    \* alerts of vanished firing series, to be posted as resolved
    upsets,     \* how many upsets there have been
    lost,       \* history: some database call has failed
    hist        \* history of every series; properties alone read these two

vars == <<rule, dirty, started, now, cache, db, am, pc, processed, todo, missing,
          upsets, lost, hist>>

(* A label set: a series, and whether the labels of an error were added.   *)
(* A cache ID is made of the labels at the time the state was created.     *)
Keys == Series \X BOOLEAN
CacheID(s) == <<s, FALSE>>
Labels(k) == <<k[1], cache[k].errLabels>>

AlertIds == Keys \X AlertNames
AlertId(k) == <<Labels(k), AlertName(cache[k])>>

Absent == "absent"
Evaluations == [Series -> Results \cup {Absent}]

(* lastResult: the last result of the series; since: the first of the      *)
(* latest unbroken run of firing results; firing: since when every         *)
(* evaluation has left it Alerting; abnormal: the last evaluation that was *)
(* not Normal; abandoned: its alert was left open; relabelled: a query     *)
(* error has changed its labels.                                           *)
Histories == [lastResult : Results \cup {Absent}, since : Nat, firing : Nat,
              abnormal : Nat, abandoned : BOOLEAN, relabelled : BOOLEAN]

TypeOK ==
    /\ rule \in RuleConfigs
    /\ dirty \in BOOLEAN
    /\ started \in BOOLEAN
    /\ now \in Nat \ {ZeroTime}
    /\ cache \in [Keys -> AlertStates \cup {None}]
    /\ db \in [Keys -> Rows \cup {None}]
    /\ am \in [AlertIds -> Nat]
    /\ pc \in {"idle", "save"}
    /\ processed \in SUBSET Keys
    /\ todo \in SUBSET processed
    /\ \A k \in processed : cache[k] # None
    /\ missing \in SUBSET AlertIds
    /\ upsets \in 0..MaxUpsets
    /\ lost \in BOOLEAN
    /\ hist \in [Series -> Histories]

Init ==
    /\ rule \in RuleConfigs
    /\ dirty = FALSE
    /\ started = FALSE
    /\ now = StartTime
    /\ cache = [k \in Keys |-> None]
    /\ db = [k \in Keys |-> None]
    /\ am = [id \in AlertIds |-> ZeroTime]
    /\ pc = "idle"
    /\ processed = {}
    /\ todo = {}
    /\ missing = {}
    /\ upsets = 0
    /\ lost = FALSE
    /\ hist = [s \in Series |-> [lastResult |-> Absent, since |-> ZeroTime,
                                 firing |-> ZeroTime, abnormal |-> ZeroTime,
                                 abandoned |-> FALSE, relabelled |-> FALSE]]

-----------------------------------------------------------------------------
(* ProcessEvalResults on the cache: setNextState for every result, then    *)
(* staleResultsHandler for the states no result was about.                 *)

ResultKeys(res) == {CacheID(s) : s \in {x \in Series : res[x] # Absent}}

GetOrCreate(k, result, t) ==
    IF cache[k] = None THEN NewState(result, t) ELSE cache[k]

SetNextState(k, res, t) ==
    NextState(GetOrCreate(k, res[k[1]], t), rule, res[k[1]], t)

StaleKeys(res, t) ==
    {k \in Keys \ ResultKeys(res) : cache[k] # None /\ IsStale(cache[k], t)}

CacheAfter(res, t) ==
    [k \in Keys |-> IF k \in ResultKeys(res) THEN SetNextState(k, res, t)
                    ELSE IF k \in StaleKeys(res, t) THEN None
                    ELSE cache[k]]

MissingAlerts(res, t) ==
    {<<Labels(k), AlertName(ResolveMissing(cache[k], t))>> :
        k \in {x \in StaleKeys(res, t) : cache[x].state = "Alerting"}}

(* The rows of vanished series are kept (mutant of DeleteRows).            *)
SlipDeleteRows(ks) == db

(* The rows DeleteAlertInstances and DeleteAlertInstancesByRule remove.    *)
DeleteRows(ks) == [k \in Keys |-> IF k \in ks THEN None ELSE db[k]]

-----------------------------------------------------------------------------
(* History                                                                 *)

FiringResult(result) == result = "Alerting" \/ IsError(result)

HistAfter(h, before, after, result, t) ==
    [lastResult |-> result,
     since |-> IF ~FiringResult(result) THEN ZeroTime
               ELSE IF before = None \/ h.since = ZeroTime THEN t ELSE h.since,
     firing |-> IF after.state # "Alerting" THEN ZeroTime
                ELSE IF /\ before # None
                        /\ before.state = "Alerting"
                        /\ h.firing # ZeroTime
                     THEN h.firing ELSE t,
     abnormal |-> IF result = "Normal" THEN h.abnormal ELSE t,
     abandoned |-> IF after.state = "Alerting" /\ ~after.errLabels THEN FALSE
                   ELSE \/ h.abandoned
                        \/ /\ before # None
                           /\ before.state = "Alerting"
                           /\ after.state # "Normal" \/ result = "NoData",
     relabelled |-> h.relabelled \/ after.errLabels]

(* A series without a result: its alert, if it fires, is not extended.     *)
HistAbsent(h) == [h EXCEPT !.firing = ZeroTime]

HistCleared(h) == [h EXCEPT !.since = ZeroTime, !.firing = ZeroTime]

(* The process dies, perhaps before it posted a resolution.                *)
HistRestarted(h) == [h EXCEPT !.firing = ZeroTime, !.abandoned = TRUE]

-----------------------------------------------------------------------------
(* Actions                                                                 *)

(* A database call that fails, an evaluation that is late, an edit of the  *)
(* rule or the death of the process, n of which happen in this step.       *)
Upset(n) == /\ upsets + n <= MaxUpsets
            /\ upsets' = upsets + n

Fails(ok) == IF ok THEN 0 ELSE 1

(* The routine receives an evaluation of the version it knows, and         *)
(* ProcessEvalResults updates the cache and deletes the rows of what       *)
(* vanished; the deletion may fail, which is logged and ignored.           *)
Evaluate ==
    /\ pc = "idle"
    /\ ~dirty
    /\ \E res \in Evaluations, ticks \in 1..MaxSkip, deleted \in BOOLEAN :
          LET t == now + ticks * Interval
              stale == StaleKeys(res, t)
          IN  /\ t <= MaxTime
              /\ Upset(Fails(ticks = 1) + Fails(deleted))
              /\ deleted \/ stale # {}
              /\ now' = t
              /\ cache' = CacheAfter(res, t)
              /\ db' = IF deleted THEN DeleteRows({Labels(k) : k \in stale}) ELSE db
              /\ lost' = (lost \/ ~deleted)
              /\ missing' = MissingAlerts(res, t)
              /\ processed' = ResultKeys(res)
              /\ todo' = ResultKeys(res)
              /\ hist' = [s \in Series |->
                    IF res[s] = Absent THEN HistAbsent(hist[s])
                    ELSE HistAfter(hist[s], cache[CacheID(s)],
                                   SetNextState(CacheID(s), res, t),
                                   res[s], t)]
    /\ pc' = "save"
    /\ started' = TRUE
    /\ UNCHANGED <<rule, dirty, am>>

(* SaveAlertInstances upserts the rows one statement at a time             *)
SaveRow ==
    /\ pc = "save"
    /\ \E k \in todo :
          /\ db' = [db EXCEPT ![Labels(k)] = RowOf(cache[k])]
          /\ todo' = todo \ {k}
    /\ UNCHANGED <<rule, dirty, started, now, cache, am, pc, processed, missing, upsets, lost, hist>>

(* and stops at the first statement that fails; saveAlertStates logs it.   *)
SaveFails ==
    /\ pc = "save"
    /\ todo # {}
    /\ Upset(1)
    /\ todo' = {}
    /\ lost' = TRUE
    /\ UNCHANGED <<rule, dirty, started, now, cache, db, am, pc, processed, missing, hist>>

(* FromAlertStateToPostableAlerts and Send.                                *)
Send ==
    /\ pc = "save"
    /\ todo = {}
    /\ LET due == {k \in processed : NeedsSending(cache[k])}
       IN  /\ \E lag \in 0..MaxLag :
                cache' = [k \in Keys |->
                    IF k \in due THEN [cache[k] EXCEPT !.lastSentAt = now + lag]
                    ELSE cache[k]]
           /\ am' = [id \in AlertIds |->
                IF id \in missing THEN now
                ELSE IF \E k \in due : AlertId(k) = id
                THEN cache[CHOOSE k \in due : AlertId(k) = id].endsAt
                ELSE am[id]]
    /\ pc' = "idle"
    /\ processed' = {}
    /\ missing' = {}
    /\ UNCHANGED <<rule, dirty, started, now, db, todo, upsets, lost, hist>>

(* A new version of the rule reaches the routine: a routine that has       *)
(* evaluated a version will clear the state before it evaluates this one;  *)
(* one that has not does so only if the API told it about the update.      *)
UpdateRule ==
    /\ Upset(1)
    /\ rule' \in RuleConfigs \ {rule}
    /\ dirty' \in {started, TRUE}
    /\ UNCHANGED <<started, now, cache, db, am, pc, processed, todo, missing, lost, hist>>

(* clearState: the states are dropped, their rows deleted if there were    *)
(* any states, and an end is posted for those that were sent as firing.    *)
ClearState ==
    /\ pc = "idle"
    /\ dirty
    /\ dirty' = FALSE
    /\ cache' = [k \in Keys |-> None]
    /\ LET states == {k \in Keys : cache[k] # None}
           stopped == {AlertId(k) : k \in
                        {x \in states : cache[x].state \notin {"Normal", "Pending"}}}
       IN  /\ \E deleted \in BOOLEAN :
                /\ deleted \/ states # {}
                /\ Upset(Fails(deleted))
                /\ db' = IF deleted /\ states # {} THEN DeleteRows(Keys) ELSE db
                /\ lost' = (lost \/ ~deleted)
           /\ \E lag \in 0..MaxLag :
                am' = [id \in AlertIds |-> IF id \in stopped THEN now + lag ELSE am[id]]
    /\ hist' = [s \in Series |-> HistCleared(hist[s])]
    /\ UNCHANGED <<rule, started, now, pc, processed, todo, missing>>

(* The process dies, and a new one warms its cache from the table; a read  *)
(* that fails leaves the cache empty.  An Alertmanager of the process      *)
(* forgets its alerts, an external one keeps them.                         *)
Restart ==
    /\ \E read \in BOOLEAN :
          /\ Upset(1 + Fails(read))
          /\ cache' = [k \in Keys |->
                IF read /\ db[k] # None THEN WarmState(db[k], k[2]) ELSE None]
          /\ lost' = (lost \/ ~read)
    /\ am' \in {am, [id \in AlertIds |-> ZeroTime]}
    /\ pc' = "idle"
    /\ processed' = {}
    /\ todo' = {}
    /\ missing' = {}
    /\ dirty' = FALSE
    /\ started' = FALSE
    /\ hist' = [s \in Series |-> HistRestarted(hist[s])]
    /\ UNCHANGED <<rule, now, db>>

(* The bound on time is reached. *)
OutOfTime ==
    /\ pc = "idle"
    /\ ~dirty
    /\ now + Interval > MaxTime
    /\ UNCHANGED vars

Next == \/ Evaluate
        \/ SaveRow
        \/ SaveFails
        \/ Send
        \/ UpdateRule
        \/ ClearState
        \/ Restart
        \/ OutOfTime

Spec == Init /\ [][Next]_vars
-----------------------------------------------------------------------------
(* Properties                                                              *)

(* For is observed: an Alerting result makes a series fire only after an   *)
(* unbroken run of firing results at least For long, whatever errors,      *)
(* edits of the rule and restarts came before (resultAlerting).            *)
FiringAfterFor ==
    [][\A s \in Series :
          LET k == CacheID(s)
          IN  (/\ pc = "idle"
               /\ k \in processed'
               /\ cache[k] = None \/ cache[k].state # "Alerting"
               /\ cache'[k].state = "Alerting"
               /\ hist'[s].lastResult = "Alerting")
              => now' - hist'[s].since >= rule.for]_vars

(* The Alertmanager never resolves an alert on its own while it fires: at  *)
(* most ResendDelay and a lag after it began, the alert is known, and      *)
(* valid beyond the next evaluation unless that one is late.  This ties    *)
(* NeedsSending, LastSentAt and setEndsAt together; an alert that flaps    *)
(* within ResendDelay is posted late, but not later than that.             *)
FiringReachesAM ==
    pc = "idle" =>
        \A s \in Series :
            LET k == CacheID(s)
            IN  (/\ cache[k] # None
                 /\ ~cache[k].errLabels
                 /\ hist[s].firing # ZeroTime
                 /\ now + Interval >= hist[s].firing + ResendDelay + MaxLag)
                => am[AlertId(k)] > now + Interval

(* A series that is Normal again has no open alert, unless the alert was   *)
(* abandoned: the series went through NoData or Error, NoData was mapped   *)
(* to Normal, or the process died (State.Resolved and NeedsSending).       *)
ResolvedIsAnnounced ==
    pc = "idle" =>
        \A s \in Series :
            LET k == CacheID(s)
            IN  (/\ cache[k] # None
                 /\ cache[k].state = "Normal"
                 /\ ~cache[k].errLabels
                 /\ am[<<k, "Rule">>] > now + MaxLag)
                => hist[s].abandoned

(* Whatever is abandoned ends by itself: no alert of a series is valid     *)
(* longer than Validity after the last evaluation that was not Normal.     *)
GhostsExpire ==
    \A s \in Series, errLabels \in BOOLEAN, name \in AlertNames :
        LET end == am[<<<<s, errLabels>>, name>>]
        IN  end <= hist[s].abnormal + Validity \/ end <= now + MaxLag

(* As long as no database call failed, a restart between two evaluations   *)
(* finds exactly the cached states, up to translateInstanceState, even if  *)
(* the process died between two rows before.  A series whose labels were   *)
(* changed by a query error is excepted: its old row is never removed.     *)
RestartLosesNothing ==
    (pc = "idle" /\ ~lost) =>
        \A s \in Series :
            LET k == CacheID(s)
                warm == WarmState(db[k], FALSE)
            IN  ~hist[s].relabelled
                => IF cache[k] = None THEN db[k] = None
                   ELSE /\ db[k] # None
                        /\ warm.state = TranslateInstanceState(cache[k].state)
                        /\ warm.startsAt = cache[k].startsAt
                        /\ warm.endsAt = cache[k].endsAt
                        /\ warm.lastEval = cache[k].lastEval
=============================================================================
