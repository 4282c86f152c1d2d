--------------------------- MODULE RuleScheduler ---------------------------
(***************************************************************************)
(* The alert rule scheduler of Grafana unified alerting                    *)
(* (services/ngalert/schedule): the tick loop that keeps one routine per   *)
(* rule in step with the database, the two unbuffered channels it and the  *)
(* API talk to the routines through, the routines themselves, and the API  *)
(* calls that change rules while all of this runs.                         *)
(*                                                                         *)
(* Data is abstracted to what the scheduler tells apart.  A rule is a      *)
(* definition: which of the rules that had this UID it is, and its         *)
(* version.  The states a definition has produced are one member of a set: *)
(* in the cache, in the alert_instance table, and as a firing alert at the *)
(* Alertmanager; StateManager models what is inside.                       *)
(***************************************************************************)
EXTENDS Integers, Sequences, FiniteSets

CONSTANTS
    Rules,          \* the keys (organisation and UID) of the rules
    Infos,          \* bound: the alertRuleInfos alive at the same time
    MaxEdits,       \* bound: how often rules are created, updated or deleted
    MaxVersion,     \* bound: versions of one definition
    MaxGen,         \* bound: rules in a row under one key that are told apart, less one
    MaxInFlight,    \* bound: senders underway to one channel
    MaxCrashes,     \* bound: how often the process dies
    DbMayFail,      \* whether a database call of the scheduler may fail
    AlwaysDue,      \* whether every rule is due at every tick
    NoRule, NoDef, NoInfo   \* no key, no definition, no alertRuleInfo

ASSUME BoundsAssumption == /\ MaxEdits \in Nat
                           /\ MaxVersion \in Nat \ {0}
                           /\ MaxGen \in Nat
                           /\ MaxInFlight \in Nat \ {0}
                           /\ MaxCrashes \in Nat
                           /\ DbMayFail \in BOOLEAN
                           /\ AlwaysDue \in BOOLEAN

Versions == 1..MaxVersion
Defs == [gen : 0..MaxGen, ver : Versions]

ASSUME NoRuleAssumption == NoRule \notin Rules
ASSUME NoDefAssumption == NoDef \notin Defs
ASSUME NoInfoAssumption == NoInfo \notin Infos

VARIABLES
    ruleDB,         \* table alert_rule: the definition of every rule
    gen,            \* which rule was the latest under every key
    rows,           \* table alert_instance: whose states it holds
    cache,          \* state manager: whose states it holds
    warmed,         \* those of them that Warm has loaded
    firing,         \* Alertmanager: whose alerts it holds as firing, without
                    \* those that are abandoned (see ProcessResults)
    schedulable,    \* schedulableAlertRules
    registry,       \* alertRuleInfoRegistry
    routine,        \* the alertRuleInfos and the routines they belong to
    timers,         \* AfterFunc goroutines that have not called eval yet
    polled,         \* eval calls between their two selects
    updates,        \* UpdateAlertRule calls that have not begun
    updating,       \* update calls between their two selects
    deleting,       \* DeleteAlertRule calls of the API, by their next step
    stopping,       \* alertRuleInfos the API has taken out of the registry
    tick,           \* the tick loop and its local variables
    edits,
    crashes,
    overlapped      \* history: rules that got a routine while another lived

dbVars == <<ruleDB, gen, rows>>
stateVars == <<cache, warmed, firing>>
apiVars == <<updates, updating, deleting, stopping>>
senderVars == <<timers, polled>>
vars == <<dbVars, stateVars, schedulable, registry, routine, senderVars, apiVars,
          tick, edits, crashes, overlapped>>

(* The steps of a routine. In "idle" it waits in its select.               *)
RoutineSteps == {"none", "idle", "evaluating", "processing", "saving", "putting",
                 "sending", "clearing", "stopAlerts", "exited"}

Routines == [key : Rules \cup {NoRule}, pc : RoutineSteps, stopped : BOOLEAN,
             current : 0..MaxVersion, msg : Defs \cup {NoDef},
             gone : SUBSET Defs, next : RoutineSteps,
             evalCh : Seq(Defs), updateCh : Seq(Versions)]

TickSteps == {"idle", "fetch", "set", "list", "loop", "sweep"}

Snapshots == [Rules -> Defs \cup {NoDef}]

Ticks == [pc : TickSteps, rules : Snapshots, todo : SUBSET Rules,
          ready : SUBSET (Infos \X Defs), registered : SUBSET Rules,
          stop : Infos \cup {NoInfo}]

TypeOK ==
    /\ ruleDB \in Snapshots
    /\ gen \in [Rules -> 0..MaxGen]
    /\ rows \in [Rules -> SUBSET Defs]
    /\ cache \in [Rules -> SUBSET Defs]
    /\ warmed \in [Rules -> SUBSET Defs]
    /\ firing \in [Rules -> SUBSET Defs]
    /\ schedulable \in Snapshots
    /\ registry \in [Rules -> Infos \cup {NoInfo}]
    /\ routine \in [Infos -> Routines]
    /\ timers \in SUBSET (Infos \X Defs)
    /\ polled \in SUBSET (Infos \X Defs)
    /\ updates \in SUBSET (Rules \X Versions)
    /\ updating \in SUBSET (Infos \X Versions)
    /\ deleting \in [Rules -> {"none", "schedulable", "registry"}]
    /\ stopping \in SUBSET Infos
    /\ tick \in Ticks
    /\ edits \in 0..MaxEdits
    /\ crashes \in 0..MaxCrashes
    /\ overlapped \in SUBSET Rules

NoRules == [r \in Rules |-> NoDef]

IdleTick == [pc |-> "idle", rules |-> NoRules, todo |-> {}, ready |-> {},
             registered |-> {}, stop |-> NoInfo]

NewRoutine(r, pc) ==
    [key |-> r, pc |-> pc, stopped |-> FALSE, current |-> 0, msg |-> NoDef,
     gone |-> {}, next |-> "none", evalCh |-> <<>>, updateCh |-> <<>>]

NoRoutines == [i \in Infos |-> NewRoutine(NoRule, "none")]

Init ==
    /\ ruleDB = NoRules
    /\ gen = [r \in Rules |-> 0]
    /\ rows = [r \in Rules |-> {}]
    /\ cache = [r \in Rules |-> {}]
    /\ warmed = [r \in Rules |-> {}]
    /\ firing = [r \in Rules |-> {}]
    /\ schedulable = NoRules
    /\ registry = [r \in Rules |-> NoInfo]
    /\ routine = NoRoutines
    /\ timers = {}
    /\ polled = {}
    /\ updates = {}
    /\ updating = {}
    /\ deleting = [r \in Rules |-> "none"]
    /\ stopping = {}
    /\ tick = IdleTick
    /\ edits = 0
    /\ crashes = 0
    /\ overlapped = {}

Live(i) == routine[i].pc \notin {"none", "exited"}

-----------------------------------------------------------------------------
(* Rules are changed by the ruler API, which tells the scheduler, and by   *)
(* provisioning, which does not (told).                                    *)
Edit == edits < MaxEdits /\ edits' = edits + 1

(* InsertAlertRules: the version of a rule starts at 1, also if its key    *)
(* was that of another rule before.                                        *)
CreateRule(r) ==
    /\ Edit
    /\ ruleDB[r] = NoDef
    /\ LET g == IF gen[r] < MaxGen THEN gen[r] + 1 ELSE 0
       IN  /\ gen' = [gen EXCEPT ![r] = g]
           /\ ruleDB' = [ruleDB EXCEPT ![r] = [gen |-> g, ver |-> 1]]
    /\ UNCHANGED <<rows, stateVars, schedulable, registry, routine, senderVars,
                   apiVars, tick, crashes, overlapped>>

(* UpdateAlertRules, or IncreaseVersionForAllRulesInNamespace.             *)
UpdateRule(r) ==
    /\ Edit
    /\ ruleDB[r] # NoDef
    /\ ruleDB[r].ver < MaxVersion
    /\ ruleDB' = [ruleDB EXCEPT ![r].ver = @ + 1]
    /\ \E told \in BOOLEAN :
          updates' = IF told THEN updates \cup {<<r, ruleDB'[r].ver>>} ELSE updates
    /\ UNCHANGED <<gen, rows, stateVars, schedulable, registry, routine, senderVars,
                   updating, deleting, stopping, tick, crashes, overlapped>>

(* DeleteAlertRulesByUID removes the rule and its alert_instance rows in   *)
(* one transaction.                                                        *)
DeleteRule(r) ==
    /\ Edit
    /\ ruleDB[r] # NoDef
    /\ deleting[r] = "none"
    /\ ruleDB' = [ruleDB EXCEPT ![r] = NoDef]
    /\ rows' = [rows EXCEPT ![r] = {}]
    /\ \E told \in BOOLEAN :
          deleting' = IF told THEN [deleting EXCEPT ![r] = "schedulable"] ELSE deleting
    /\ UNCHANGED <<gen, stateVars, schedulable, registry, routine, senderVars,
                   updates, updating, stopping, tick, crashes, overlapped>>

(* schedule.UpdateAlertRule and the first select of alertRuleInfo.update:  *)
(* a version another call is blocked on is taken over if it is greater.    *)
BeginUpdate(r, v) ==
    /\ <<r, v>> \in updates
    /\ updates' = updates \ {<<r, v>>}
    /\ IF registry[r] = NoInfo THEN UNCHANGED <<routine, updating>>
       ELSE LET i == registry[r]
                ch == routine[i].updateCh
            IN  IF ch = <<>> THEN /\ updating' = updating \cup {<<i, v>>}
                                  /\ UNCHANGED routine
                ELSE /\ updating' = updating \cup
                            {<<i, IF Head(ch) > v THEN Head(ch) ELSE v>>}
                     /\ routine' = [routine EXCEPT ![i].updateCh = Tail(ch)]
    /\ UNCHANGED <<dbVars, stateVars, schedulable, registry, senderVars, deleting,
                   stopping, tick, edits, crashes, overlapped>>

(* Its second select: the version is offered to the routine.               *)
OfferUpdate(i, v) ==
    /\ <<i, v>> \in updating
    /\ Len(routine[i].updateCh) < MaxInFlight
    /\ updating' = updating \ {<<i, v>>}
    /\ routine' = [routine EXCEPT ![i].updateCh =
                      IF routine[i].stopped THEN @ ELSE Append(@, v)]
    /\ UNCHANGED <<dbVars, stateVars, schedulable, registry, senderVars, updates,
                   deleting, stopping, tick, edits, crashes, overlapped>>

(* schedule.DeleteAlertRule, called by the API: out of schedulableAlertRules, *)
DeleteSchedulable(r) ==
    /\ deleting[r] = "schedulable"
    /\ schedulable' = [schedulable EXCEPT ![r] = NoDef]
    /\ deleting' = [deleting EXCEPT ![r] = "registry"]
    /\ UNCHANGED <<dbVars, stateVars, registry, routine, senderVars, updates,
                   updating, stopping, tick, edits, crashes, overlapped>>

(* It stays registered, but is stopped (mutant of DeleteRegistered).       *)
SlipDeleteRegistered(r) ==
    /\ deleting[r] = "registry"
    /\ stopping' = stopping \cup ({registry[r]} \ {NoInfo})
    /\ deleting' = [deleting EXCEPT ![r] = "none"]
    /\ UNCHANGED <<dbVars, stateVars, schedulable, registry, routine, senderVars, updates,
                   updating, tick, edits, crashes, overlapped>>

(* out of the registry,                                                    *)
DeleteRegistered(r) ==
    /\ deleting[r] = "registry"
    /\ registry' = [registry EXCEPT ![r] = NoInfo]
    /\ stopping' = stopping \cup ({registry[r]} \ {NoInfo})
    /\ deleting' = [deleting EXCEPT ![r] = "none"]
    /\ UNCHANGED <<dbVars, stateVars, schedulable, routine, senderVars, updates,
                   updating, tick, edits, crashes, overlapped>>

(* and its context is cancelled with errRuleDeleted as the cause.          *)
Stop(i) ==
    /\ i \in stopping
    /\ routine' = [routine EXCEPT ![i].stopped = TRUE]
    /\ stopping' = stopping \ {i}
    /\ UNCHANGED <<dbVars, stateVars, schedulable, registry, senderVars, updates,
                   updating, deleting, tick, edits, crashes, overlapped>>

-----------------------------------------------------------------------------
(* schedulePeriodic: one tick is a sequence of steps of the loop.          *)

TickUnchanged == UNCHANGED <<dbVars, stateVars, apiVars, edits, crashes>>

(* updateSchedulableAlertRules reads the keys and versions first; a known  *)
(* set of rules with the same versions is kept.                            *)
KeyVersions(rules) ==
    [r \in Rules |-> IF rules[r] = NoDef THEN 0 ELSE rules[r].ver]

(* Only the keys are compared (mutant of NeedsUpdate).                     *)
SlipNeedsUpdate == {r \in Rules : schedulable[r] # NoDef} # {r \in Rules : ruleDB[r] # NoDef}

NeedsUpdate == KeyVersions(schedulable) # KeyVersions(ruleDB)

FetchKeys ==
    /\ tick.pc = "idle"
    /\ \/ /\ schedulable = NoRules \/ NeedsUpdate
          /\ tick' = [tick EXCEPT !.pc = "fetch"]
       \/ /\ schedulable # NoRules
          /\ ~NeedsUpdate \/ DbMayFail
          /\ tick' = [tick EXCEPT !.pc = "list"]
    /\ TickUnchanged
    /\ UNCHANGED <<schedulable, registry, routine, senderVars, overlapped>>

(* GetAlertRulesForScheduling reads the rules,                             *)
FetchRules ==
    /\ tick.pc = "fetch"
    /\ \/ tick' = [tick EXCEPT !.pc = "set", !.rules = ruleDB]
       \/ DbMayFail /\ tick' = [tick EXCEPT !.pc = "list"]
    /\ TickUnchanged
    /\ UNCHANGED <<schedulable, registry, routine, senderVars, overlapped>>

(* and set replaces all that was known, whatever was deleted in between.   *)
SetRules ==
    /\ tick.pc = "set"
    /\ schedulable' = tick.rules
    /\ tick' = [tick EXCEPT !.pc = "list"]
    /\ TickUnchanged
    /\ UNCHANGED <<registry, routine, senderVars, overlapped>>

(* The rules to schedule, and the rules that have a routine.               *)
ListRules ==
    /\ tick.pc = "list"
    /\ tick' = [tick EXCEPT
                  !.pc = "loop",
                  !.rules = schedulable,
                  !.todo = {r \in Rules : schedulable[r] # NoDef},
                  !.registered = {r \in Rules : registry[r] # NoInfo}]
    /\ TickUnchanged
    /\ UNCHANGED <<schedulable, registry, routine, senderVars, overlapped>>

(* An alertRuleInfo nothing refers to any more.                            *)
Free(i) == /\ ~Live(i)
           /\ \A r \in Rules : registry[r] # i
           /\ i \notin stopping
           /\ tick.stop # i
           /\ \A d \in Defs : <<i, d>> \notin timers \cup polled \cup tick.ready
           /\ \A v \in Versions : <<i, v>> \notin updating

(* The rule is looked up once more, and may be gone (mutant of             *)
(* ScheduleRule).                                                          *)
SlipScheduleRule(r) ==
    /\ tick.pc = "loop"
    /\ r \in tick.todo
    /\ \E i \in Infos :
          /\ IF registry[r] = i THEN UNCHANGED <<registry, routine>>
             ELSE /\ registry[r] = NoInfo
                  /\ Free(i)
                  /\ registry' = [registry EXCEPT ![r] = i]
                  /\ routine' = [routine EXCEPT ![i] = NewRoutine(r, "idle")]
          /\ tick' = [tick EXCEPT
                        !.todo = @ \ {r},
                        !.registered = @ \ {r},
                        !.ready = @ \cup {<<i, schedulable[r]>>}]
    /\ TickUnchanged
    /\ UNCHANGED <<schedulable, senderVars, overlapped>>

(* getOrCreateInfo for one of them, and go ruleRoutine if it is new. Each  *)
(* tick is one at which the rule is due or not.                            *)
ScheduleRule(r) ==
    /\ tick.pc = "loop"
    /\ r \in tick.todo
    /\ IF registry[r] # NoInfo
       THEN UNCHANGED <<registry, routine, overlapped>>
       ELSE /\ \E i \in Infos :
                  /\ Free(i)
                  /\ registry' = [registry EXCEPT ![r] = i]
                  /\ routine' = [routine EXCEPT ![i] = NewRoutine(r, "idle")]
            /\ overlapped' = IF \E i \in Infos : Live(i) /\ routine[i].key = r
                             THEN overlapped \cup {r} ELSE overlapped
    /\ \E due \in IF AlwaysDue THEN {TRUE} ELSE BOOLEAN :
          tick' = [tick EXCEPT
                     !.todo = @ \ {r},
                     !.registered = @ \ {r},
                     !.ready = IF due THEN @ \cup {<<registry'[r], tick.rules[r]>>} ELSE @]
    /\ TickUnchanged
    /\ UNCHANGED <<schedulable, senderVars>>

(* The evaluations a routine has not received.                             *)
InFlight(i) == LET of(S) == {m \in S : m[1] = i}
               IN  Cardinality(of(timers)) + Cardinality(of(polled))
                   + Len(routine[i].evalCh)

(* The evaluations are handed to timers. (Bound: too many evaluations in   *)
(* flight, or one of the same definition whose timer has not fired, delay  *)
(* the tick.)                                                              *)
StartTimers ==
    /\ tick.pc = "loop"
    /\ tick.todo = {}
    /\ \A m \in tick.ready : m \notin timers /\ InFlight(m[1]) < MaxInFlight
    /\ timers' = timers \cup tick.ready
    /\ tick' = [tick EXCEPT !.pc = "sweep", !.ready = {}, !.rules = NoRules]
    /\ TickUnchanged
    /\ UNCHANGED <<schedulable, registry, routine, polled, overlapped>>

(* The routine is not stopped (mutant of SweepRule).                       *)
SlipSweepRule(r) ==
    /\ tick.pc = "sweep"
    /\ tick.stop = NoInfo
    /\ r \in tick.registered
    /\ schedulable' = [schedulable EXCEPT ![r] = NoDef]
    /\ registry' = [registry EXCEPT ![r] = NoInfo]
    /\ tick' = [tick EXCEPT !.registered = @ \ {r}]
    /\ TickUnchanged
    /\ UNCHANGED <<routine, senderVars, overlapped>>

(* DeleteAlertRule for a rule that has a routine but is not scheduled,     *)
SweepRule(r) ==
    /\ tick.pc = "sweep"
    /\ tick.stop = NoInfo
    /\ r \in tick.registered
    /\ schedulable' = [schedulable EXCEPT ![r] = NoDef]
    /\ registry' = [registry EXCEPT ![r] = NoInfo]
    /\ tick' = [tick EXCEPT !.registered = @ \ {r}, !.stop = registry[r]]
    /\ TickUnchanged
    /\ UNCHANGED <<routine, senderVars, overlapped>>

SweepStop ==
    /\ tick.pc = "sweep"
    /\ tick.stop # NoInfo
    /\ routine' = [routine EXCEPT ![tick.stop].stopped = TRUE]
    /\ tick' = [tick EXCEPT !.stop = NoInfo]
    /\ TickUnchanged
    /\ UNCHANGED <<schedulable, registry, senderVars, overlapped>>

EndTick ==
    /\ tick.pc = "sweep"
    /\ tick.stop = NoInfo
    /\ tick.registered = {}
    /\ tick' = IdleTick
    /\ TickUnchanged
    /\ UNCHANGED <<schedulable, registry, routine, senderVars, overlapped>>

TickStep == \/ FetchKeys \/ FetchRules \/ SetRules \/ ListRules
            \/ \E r \in Rules : ScheduleRule(r) \/ SweepRule(r)
            \/ StartTimers \/ SweepStop \/ EndTick

-----------------------------------------------------------------------------
(* alertRuleInfo.eval. The channel has no buffer: a member of evalCh is a  *)
(* goroutine blocked in the second select, in the order they arrived.      *)

EvalUnchanged == UNCHANGED <<dbVars, stateVars, schedulable, registry, apiVars,
                             tick, edits, crashes, overlapped>>

(* The first select takes the message of another sender away.              *)
TimerFires(i, d) ==
    /\ <<i, d>> \in timers
    /\ <<i, d>> \notin polled
    /\ timers' = timers \ {<<i, d>>}
    /\ polled' = polled \cup {<<i, d>>}
    /\ routine' = [routine EXCEPT ![i].evalCh = IF @ = <<>> THEN @ ELSE Tail(@)]
    /\ EvalUnchanged

(* The second one blocks, unless the context is done.                      *)
OfferEval(i, d) ==
    /\ <<i, d>> \in polled
    /\ polled' = polled \ {<<i, d>>}
    /\ routine' = [routine EXCEPT ![i].evalCh =
                      IF routine[i].stopped THEN @ ELSE Append(@, d)]
    /\ UNCHANGED timers
    /\ EvalUnchanged

(* A blocked sender sees that the context is done.                         *)
GiveUp(i) ==
    /\ routine[i].stopped
    /\ \/ /\ routine[i].evalCh # <<>>
          /\ routine' = [routine EXCEPT ![i].evalCh = Tail(@)]
       \/ /\ routine[i].updateCh # <<>>
          /\ routine' = [routine EXCEPT ![i].updateCh = Tail(@)]
    /\ UNCHANGED senderVars
    /\ EvalUnchanged

-----------------------------------------------------------------------------
(* ruleRoutine                                                             *)

RoutineUnchanged == UNCHANGED <<ruleDB, gen, schedulable, registry, senderVars,
                                apiVars, tick, edits, crashes, overlapped>>

(* clearState, first part: removeByRuleUID empties the cache. The rows are *)
(* deleted and the alerts stopped only if there were states.               *)
Clear(i, next, R) ==
    LET r == R.key
        states == cache[r]
    IN  /\ cache' = [cache EXCEPT ![r] = {}]
        /\ warmed' = [warmed EXCEPT ![r] = {}]
        /\ routine' = [routine EXCEPT ![i] =
              IF states = {} THEN [R EXCEPT !.pc = next]
              ELSE [R EXCEPT !.pc = "clearing", !.gone = states, !.next = next]]

(* A message on updateCh: the version is newer than the evaluated one.     *)
ReceiveUpdate(i) ==
    /\ routine[i].pc = "idle"
    /\ routine[i].updateCh # <<>>
    /\ LET R == [routine[i] EXCEPT !.updateCh = Tail(@)]
       IN  IF R.current >= Head(routine[i].updateCh)
           THEN /\ routine' = [routine EXCEPT ![i] = R]
                /\ UNCHANGED <<cache, warmed>>
           ELSE Clear(i, "idle", R)
    /\ UNCHANGED <<rows, firing>>
    /\ RoutineUnchanged

(* Only a greater version clears the state (mutant of ReceiveEval).        *)
SlipReceiveEval(i) ==
    /\ routine[i].pc = "idle"
    /\ routine[i].evalCh # <<>>
    /\ LET d == Head(routine[i].evalCh)
           R == [routine[i] EXCEPT !.evalCh = Tail(@), !.msg = d, !.current = d.ver]
       IN  IF routine[i].current = 0 \/ routine[i].current >= d.ver
           THEN /\ routine' = [routine EXCEPT ![i] = [R EXCEPT !.pc = "evaluating"]]
                /\ UNCHANGED <<cache, warmed>>
           ELSE Clear(i, "evaluating", R)
    /\ UNCHANGED <<rows, firing>>
    /\ RoutineUnchanged

(* A message on evalCh: a different version clears the state, except for   *)
(* the first.                                                              *)
ReceiveEval(i) ==
    /\ routine[i].pc = "idle"
    /\ routine[i].evalCh # <<>>
    /\ LET d == Head(routine[i].evalCh)
           R == [routine[i] EXCEPT !.evalCh = Tail(@), !.msg = d, !.current = d.ver]
       IN  IF routine[i].current \in {0, d.ver}
           THEN /\ routine' = [routine EXCEPT ![i] = [R EXCEPT !.pc = "evaluating"]]
                /\ UNCHANGED <<cache, warmed>>
           ELSE Clear(i, "evaluating", R)
    /\ UNCHANGED <<rows, firing>>
    /\ RoutineUnchanged

(* The reason for the stop is lost (mutant of ReceiveDone).                *)
SlipReceiveDone(i) ==
    /\ routine[i].pc = "idle"
    /\ routine[i].stopped
    /\ routine' = [routine EXCEPT ![i].pc = "exited", ![i].current = 0]
    /\ UNCHANGED <<rows, stateVars>>
    /\ RoutineUnchanged

(* The context is done because the rule was deleted.                       *)
ReceiveDone(i) ==
    /\ routine[i].pc = "idle"
    /\ routine[i].stopped
    /\ Clear(i, "exited", [routine[i] EXCEPT !.current = 0])
    /\ UNCHANGED <<rows, firing>>
    /\ RoutineUnchanged

(* clearState, second part: DeleteAlertInstancesByRule runs with the       *)
(* context of the routine, a statement of which fails once it is done.     *)
ClearRows(i) ==
    /\ routine[i].pc = "clearing"
    /\ LET r == routine[i].key
           cleared == [rows EXCEPT ![r] = {}]
       IN  rows' \in IF routine[i].stopped THEN {rows}
                     ELSE IF DbMayFail THEN {rows, cleared} ELSE {cleared}
    /\ routine' = [routine EXCEPT ![i].pc = "stopAlerts"]
    /\ UNCHANGED stateVars
    /\ RoutineUnchanged

(* Nothing is sent once the context is done (mutant of StopAlerts).        *)
SlipStopAlerts(i) ==
    /\ routine[i].pc = "stopAlerts"
    /\ firing' = [firing EXCEPT ![routine[i].key] =
                     IF routine[i].stopped THEN @ ELSE @ \ routine[i].gone]
    /\ routine' = [routine EXCEPT ![i].pc = routine[i].next, ![i].gone = {},
                                  ![i].next = "none"]
    /\ UNCHANGED <<rows, cache, warmed>>
    /\ RoutineUnchanged

(* Third part: an end is sent for the alerts of the removed states, under  *)
(* the labels the states have now: not for those that were abandoned.      *)
StopAlerts(i) ==
    /\ routine[i].pc = "stopAlerts"
    /\ firing' = [firing EXCEPT ![routine[i].key] = @ \ routine[i].gone]
    /\ routine' = [routine EXCEPT ![i].pc = routine[i].next, ![i].gone = {},
                                  ![i].next = "none"]
    /\ UNCHANGED <<rows, cache, warmed>>
    /\ RoutineUnchanged

(* ConditionEval returns; results are dropped if the context is done.      *)
FinishEval(i) ==
    /\ routine[i].pc = "evaluating"
    /\ routine' = [routine EXCEPT ![i] =
                      IF routine[i].stopped THEN [@ EXCEPT !.pc = "idle", !.msg = NoDef]
                      ELSE [@ EXCEPT !.pc = "processing"]]
    /\ UNCHANGED <<rows, stateVars>>
    /\ RoutineUnchanged

(* ProcessEvalResults on the cache: states of the definition appear, and   *)
(* states of others that have become stale vanish.  A state that goes on   *)
(* to NoData, Error, Pending or other labels, or through NoData to Normal, *)
(* or is dropped while it is none that staleResultsHandler resolves,       *)
(* abandons the alert it was sent as: no end is ever sent for it, and it   *)
(* stays at the Alertmanager until it expires.                             *)
ProcessResults(i) ==
    /\ routine[i].pc = "processing"
    /\ LET r == routine[i].key
           d == routine[i].msg
       IN  \E stale \in SUBSET (cache[r] \ {d}) :
              /\ cache' = [cache EXCEPT ![r] = (@ \ stale) \cup {d}]
              /\ warmed' = [warmed EXCEPT ![r] = @ \ (stale \cup {d})]
              /\ routine' = [routine EXCEPT ![i].pc = "saving", ![i].gone = stale]
              /\ \E abandoned \in SUBSET ((stale \cup {d}) \cap firing[r]) :
                    firing' = [firing EXCEPT ![r] = @ \ abandoned]
    /\ UNCHANGED rows
    /\ RoutineUnchanged

(* and on the table, with the context of the routine again.                *)
SaveStates(i) ==
    /\ routine[i].pc = "saving"
    /\ LET r == routine[i].key
           saved == [rows EXCEPT ![r] = (@ \ routine[i].gone) \cup {routine[i].msg}]
       IN  rows' \in IF routine[i].stopped THEN {rows}
                     ELSE IF DbMayFail THEN {rows, saved} ELSE {saved}
    /\ routine' = [routine EXCEPT ![i].pc = "putting"]
    /\ UNCHANGED stateVars
    /\ RoutineUnchanged

(* FromAlertStateToPostableAlerts: states that are due are put back into   *)
(* the cache;                                                              *)
PutSent(i) ==
    /\ routine[i].pc = "putting"
    /\ LET r == routine[i].key
           d == routine[i].msg
       IN  \/ /\ cache' = [cache EXCEPT ![r] = @ \cup {d}]
              /\ routine' = [routine EXCEPT ![i].pc = "sending"]
              /\ UNCHANGED <<warmed, firing>>
           \/ /\ firing' = [firing EXCEPT ![r] = @ \ routine[i].gone]
              /\ routine' = [routine EXCEPT ![i].pc = "idle", ![i].gone = {},
                                            ![i].msg = NoDef]
              /\ UNCHANGED <<cache, warmed>>
    /\ UNCHANGED rows
    /\ RoutineUnchanged

(* Send: they fire, or are resolved like the stale ones.                   *)
SendAlerts(i) ==
    /\ routine[i].pc = "sending"
    /\ \E fires \in {{}, {routine[i].msg}} :
          firing' = [firing EXCEPT ![routine[i].key] =
                        (@ \ (routine[i].gone \cup {routine[i].msg})) \cup fires]
    /\ routine' = [routine EXCEPT ![i].pc = "idle", ![i].gone = {}, ![i].msg = NoDef]
    /\ UNCHANGED <<rows, cache, warmed>>
    /\ RoutineUnchanged

RoutineStep(i) == \/ ReceiveUpdate(i) \/ ReceiveEval(i) \/ ReceiveDone(i)
                  \/ ClearRows(i) \/ StopAlerts(i)
                  \/ FinishEval(i) \/ ProcessResults(i) \/ SaveStates(i)
                  \/ PutSent(i) \/ SendAlerts(i)

-----------------------------------------------------------------------------
(* The process dies. Its successor warms the cache from the table, for the *)
(* rules that exist.                                                       *)
Crash ==
    /\ crashes < MaxCrashes
    /\ crashes' = crashes + 1
    /\ cache' = [r \in Rules |-> IF ruleDB[r] = NoDef THEN {} ELSE rows[r]]
    /\ warmed' = cache'
    /\ schedulable' = NoRules
    /\ registry' = [r \in Rules |-> NoInfo]
    /\ routine' = NoRoutines
    /\ timers' = {}
    /\ polled' = {}
    /\ updates' = {}
    /\ updating' = {}
    /\ deleting' = [r \in Rules |-> "none"]
    /\ stopping' = {}
    /\ tick' = IdleTick
    /\ UNCHANGED <<dbVars, firing, edits, overlapped>>

Next == \/ \E r \in Rules : \/ CreateRule(r) \/ UpdateRule(r) \/ DeleteRule(r)
                            \/ DeleteSchedulable(r) \/ DeleteRegistered(r)
                            \/ \E v \in Versions : BeginUpdate(r, v)
        \/ TickStep
        \/ \E i \in Infos : \/ Stop(i) \/ GiveUp(i) \/ RoutineStep(i)
                            \/ \E v \in Versions : OfferUpdate(i, v)
                            \/ \E d \in Defs : TimerFires(i, d) \/ OfferEval(i, d)
        \/ Crash

(* Every goroutine that can go on does: the tick loop, the routines, the   *)
(* timers, and the API calls that have begun. Nobody has to edit a rule.   *)
(* For a routine that is strong fairness: once it waits in its select, Go  *)
(* hands it the next message directly, and no later sender takes that away.*)
Fairness ==
    /\ WF_vars(TickStep)
    /\ \A r \in Rules : /\ WF_vars(DeleteSchedulable(r))
                        /\ WF_vars(DeleteRegistered(r))
                        /\ \A v \in Versions : WF_vars(BeginUpdate(r, v))
    /\ \A i \in Infos : /\ WF_vars(Stop(i))
                        /\ WF_vars(GiveUp(i))
                        /\ SF_vars(RoutineStep(i))
                        /\ \A v \in Versions : WF_vars(OfferUpdate(i, v))
                        /\ \A d \in Defs : /\ WF_vars(TimerFires(i, d))
                                           /\ WF_vars(OfferEval(i, d))

Spec == Init /\ [][Next]_vars

FairSpec == Spec /\ Fairness

-----------------------------------------------------------------------------
(* Properties                                                              *)

(* No routine is left running that nobody will ever stop: while it is not  *)
(* stopped it is registered, or whoever unregistered it is about to stop   *)
(* it (DeleteAlertRule against the tick loop and itself).                  *)
NoLeakedRoutine ==
    \A i \in Infos :
        (Live(i) /\ ~routine[i].stopped) =>
            \/ registry[routine[i].key] = i
            \/ i \in stopping
            \/ tick.stop = i

OnlyRoutine(i) == \A j \in Infos : (Live(j) /\ routine[j].key = routine[i].key) => j = i

(* Once the routine of a deleted rule has lost its last predecessor, the   *)
(* states in the cache are those of the version it evaluated last, apart   *)
(* from what Warm loaded: late writes of a routine that was being stopped  *)
(* do not survive its exit, nor does a state an older version.             *)
StateMatchesVersion ==
    \A i \in Infos :
        (Live(i) /\ routine[i].pc = "idle" /\ OnlyRoutine(i)) =>
            \A d \in cache[routine[i].key] \ warmed[routine[i].key] :
                d.ver = routine[i].current

Forgotten(r) == /\ ruleDB[r] = NoDef
                /\ schedulable[r] = NoDef
                /\ registry[r] = NoInfo
                /\ \A i \in Infos : Live(i) => routine[i].key # r

(* When the last routine of a deleted rule is gone, so are its states. A   *)
(* rule that is deleted after a restart before it is scheduled never has   *)
(* a routine: the states that Warm loaded for it stay.                     *)
DeletedRuleHasNoState ==
    \A r \in Rules : Forgotten(r) => cache[r] \subseteq warmed[r]

(* And so are its alerts, also those a routine that was being stopped sent *)
(* late: the Alertmanager was sent an end for every one that had not been  *)
(* abandoned before. Only a rule that was created again while its old      *)
(* routine was still running may leave others: the alerts of the old       *)
(* routine are sent after the states of the new one were cleared.          *)
DeletedRuleEndsItsAlerts ==
    \A r \in Rules : Forgotten(r) => \/ firing[r] = {}
                                     \/ r \in overlapped
                                     \/ crashes > 0

(* fetcher.go:52: without a change the update of the rules is skipped.     *)
NoChangesMeansNoChanges ==
    [][(tick.pc = "idle" /\ tick'.pc = "list") => schedulable = ruleDB]_vars

(* A rule in the database is evaluated again and again.                    *)
Evaluates(r) == \E i \in Infos : /\ routine[i].key = r
                                 /\ routine[i].pc = "processing"
                                 /\ ruleDB[r] # NoDef
                                 /\ routine[i].msg.ver = ruleDB[r].ver
RuleIsEvaluated ==
    \A r \in Rules : []<>(ruleDB[r] = NoDef \/ Evaluates(r))

(* A rule that is deleted for good loses its routine and its states.       *)
DeletedRuleIsForgotten ==
    \A r \in Rules : <>[](ruleDB[r] = NoDef) => <>[](Forgotten(r) /\ cache[r] = {})

(* In the end only the latest version of a rule has states.                *)
LatestVersionTakesOver ==
    \A r \in Rules, v \in Versions :
        <>[](ruleDB[r] # NoDef /\ ruleDB[r].ver = v) =>
            <>[](\A d \in cache[r] : d.ver = v)
=============================================================================
