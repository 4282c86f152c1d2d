---------------------------- MODULE DashboardInit ----------------------------
(***************************************************************************)
(* How Grafana's frontend opens a dashboard: the page (DashboardPage), the *)
(* thunk initDashboard with its awaits, the variables of the dashboard     *)
(* (initVariablesTransaction, processVariable, updateOptions) and the      *)
(* store they share (public/app/features/dashboard, features/variables).   *)
(*                                                                         *)
(* A visit is one call of initDashboard; it is known by its number, as are *)
(* the DashboardModel and the DashboardQueryRunner that it makes.  What is *)
(* left of an earlier visit, at its awaits, goes on beside the later ones  *)
(* and shares with them one phase, one model, one runner and, if it is of  *)
(* the same dashboard, the state of the variables.                         *)
(*                                                                         *)
(* An event ends when the promises it has settled have run on: an event    *)
(* begins only when Proceed has nothing to do.                             *)
(***************************************************************************)
EXTENDS Integers, FiniteSets

CONSTANTS
    Dashboards,     \* their UIDs, which are the keys of the variables' state
    Caught,         \* those of the route whose loader catches what the fetch throws
    Variables,      \* the variables of a dashboard
    DependsOn,      \* whose values the query of a variable needs
    Refreshed,      \* variables whose options are loaded with the dashboard
    MaxVisits,      \* bound: how often a dashboard is opened
    None

ASSUME VisitsAssumption == MaxVisits \in Nat
ASSUME VariablesAssumption == /\ DependsOn \in [Variables -> SUBSET Variables]
                              /\ Refreshed \subseteq Variables
ASSUME CaughtAssumption == Caught \subseteq Dashboards

(* isDependencyGraphCircular is false of every variable. *)
ASSUME AcyclicAssumption ==
    \E rank \in [Variables -> 1..Cardinality(Variables)] :
        \A v \in Variables : \A w \in DependsOn[v] : rank[w] < rank[v]

Visits == 1..MaxVisits
Nobody == 0
Stub == MaxVisits + 1       \* the model of "Dashboard init failed"

ASSUME NoneAssumption == None \notin Dashboards

VARIABLES
    visits,     \* how many visits there have been
    uid,        \* the dashboard of every visit
    pc,         \* where a visit awaits: "fetching", "variables"; "none", "over";
                \* "cancelled": its fetch was, and the loader has yet to catch that
    missing,    \* visits that go on with a dashboard 'Not found'
    page,       \* whether DashboardPage is mounted
    phase,      \* state.dashboard.initPhase
    model,      \* state.dashboard.getModel()
    lastKey,    \* state.templating.lastKey
    transaction, \* status of the transaction of every key
    variables,  \* state of the variables of every key
    job,        \* processVariable of every visit and variable
    runner,     \* the global DashboardQueryRunner; the one before is destroyed
    mixed       \* history: dashboards of which two visits shared the variables

storeVars == <<phase, model, lastKey, transaction, variables>>
vars == <<visits, uid, pc, missing, page, storeVars, job, runner, mixed>>

Phases == {"NotStarted", "Fetching", "Services", "Failed", "Completed"}
Statuses == {"NotStarted", "Fetching", "Completed"}
VariableStates == {"Absent", "NotStarted", "Loading", "Done", "Error"}
Absent == [v \in Variables |-> "Absent"]

TypeOK ==
    /\ visits \in 0..MaxVisits
    /\ uid \in [Visits -> Dashboards \cup {None}]
    /\ pc \in [Visits -> {"none", "fetching", "cancelled", "variables", "over"}]
    /\ missing \subseteq Visits
    /\ page \in BOOLEAN
    /\ phase \in Phases
    /\ model \in Visits \cup {Nobody, Stub}
    /\ lastKey \in Dashboards \cup {None}
    /\ transaction \in [Dashboards -> Statuses]
    /\ variables \in [Dashboards -> [Variables -> VariableStates]]
    /\ job \in [Visits -> [Variables -> {"none", "waits", "free", "queries", "over"}]]
    /\ runner \in Visits \cup {Nobody}
    /\ mixed \subseteq Dashboards

Init ==
    /\ visits = 0
    /\ uid = [n \in Visits |-> None]
    /\ pc = [n \in Visits |-> "none"]
    /\ missing = {}
    /\ page = FALSE
    /\ phase = "NotStarted"
    /\ model = Nobody
    /\ lastKey = None
    /\ transaction = [u \in Dashboards |-> "NotStarted"]
    /\ variables = [u \in Dashboards |-> Absent]
    /\ job = [n \in Visits |-> [v \in Variables |-> "none"]]
    /\ runner = Nobody
    /\ mixed = {}
-----------------------------------------------------------------------------
(* The variables. *)

(* isWaitingForDependencies: a variable that was removed is not waited for. *)
SlipIsWaiting(v, states) ==      \* waits for a variable that was removed
    \E w \in DependsOn[v] : states[w] \notin {"Done", "Error"}

IsWaiting(v, states) == \E w \in DependsOn[v] : states[w] \in {"NotStarted", "Loading"}

(* After every action a waiting promise looks at the store again, and once *)
(* it is resolved it stays so.                                             *)
Resolve(jobs, states) ==
    [n \in Visits |-> [v \in Variables |->
        IF jobs[n][v] = "waits" /\ ~IsWaiting(v, states[uid[n]]) THEN "free" ELSE jobs[n][v]]]

HasOngoingTransaction(u) == transaction[u] /= "NotStarted"

(* A variable whose dependencies are there: updateOptions loads its        *)
(* options, or completeVariableLoading is all there is to do; neither does *)
(* anything without a transaction.                                         *)
ProcessVariable(n, v) ==
    /\ job[n][v] = "free"
    /\ LET u == uid[n]
           next == IF ~HasOngoingTransaction(u) THEN "over"
                   ELSE IF v \in Refreshed THEN "queries" ELSE "over"
       IN  /\ variables' = IF ~HasOngoingTransaction(u) THEN variables
                           ELSE [variables EXCEPT ![u][v] =
                                    IF v \in Refreshed THEN "Loading" ELSE "Done"]
           /\ job' = Resolve([job EXCEPT ![n][v] = next], variables')
    /\ UNCHANGED <<visits, uid, pc, missing, page, phase, model, lastKey, transaction, runner, mixed>>

(* cancelAllInFlightRequests: the fetch of a dashboard is cancelled too.   *)
(* What it throws is caught by the loader, or else initDashboard returns.  *)
Aborted ==
    [n \in Visits |-> IF pc[n] /= "fetching" THEN pc[n]
                      ELSE IF uid[n] \in Caught THEN "cancelled" ELSE "over"]

(* What cancelVariables leaves of the variables, the transactions, the     *)
(* promises and the requests.                                              *)
SlipCancel(u) ==     \* the transaction is cleared to nothing at all
    [variables |-> [variables EXCEPT ![u] = Absent],
     transaction |-> [transaction EXCEPT ![u] = "Absent"],
     job |-> Resolve(job, [variables EXCEPT ![u] = Absent]),
     pc |-> Aborted]

Cancel(u) ==
    [variables |-> [variables EXCEPT ![u] = Absent],
     transaction |-> [transaction EXCEPT ![u] = "NotStarted"],
     job |-> Resolve(job, [variables EXCEPT ![u] = Absent]),
     pc |-> Aborted]

Kept == [variables |-> variables, transaction |-> transaction, job |-> job, pc |-> pc]
-----------------------------------------------------------------------------
(* The rest of the promises that an event settles. *)

(* All variables of a visit are processed.  The visit makes its runner and *)
(* then sees whether it is still wanted.                                   *)
IsProcessed(n) == pc[n] = "variables" /\ \A v \in Variables : job[n][v] = "over"

SlipComplete(n) ==      \* the phase alone tells whether it is wanted
    /\ IsProcessed(n)
    /\ transaction' = [transaction EXCEPT ![uid[n]] = IF @ = "NotStarted" THEN @ ELSE "Completed"]
    /\ pc' = [pc EXCEPT ![n] = "over"]
    /\ runner' = n
    /\ IF phase = "Services"
       THEN phase' = "Completed" /\ model' = n
       ELSE UNCHANGED <<phase, model>>
    /\ UNCHANGED <<visits, uid, missing, page, lastKey, variables, job, mixed>>

SlipLatest(n) ==        \* only the latest visit may complete
    /\ IsProcessed(n)
    /\ transaction' = [transaction EXCEPT ![uid[n]] = IF @ = "NotStarted" THEN @ ELSE "Completed"]
    /\ pc' = [pc EXCEPT ![n] = "over"]
    /\ runner' = n
    /\ IF n = visits /\ lastKey = uid[n] /\ phase = "Services"
       THEN phase' = "Completed" /\ model' = n
       ELSE UNCHANGED <<phase, model>>
    /\ UNCHANGED <<visits, uid, missing, page, lastKey, variables, job, mixed>>

Complete(n) ==
    /\ IsProcessed(n)
    /\ transaction' = [transaction EXCEPT ![uid[n]] = IF @ = "NotStarted" THEN @ ELSE "Completed"]
    /\ pc' = [pc EXCEPT ![n] = "over"]
    /\ runner' = n
    /\ IF lastKey = uid[n] /\ phase = "Services"
       THEN phase' = "Completed" /\ model' = n
       ELSE UNCHANGED <<phase, model>>
    /\ UNCHANGED <<visits, uid, missing, page, lastKey, variables, job, mixed>>

(* The dashboard is there, be it one that says 'Not found'.  Variables     *)
(* that are still loading for the last dashboard are cancelled, whichever  *)
(* it is, and those of this one begin.                                     *)
SlipSuperseded == Kept      \* the variables of the last dashboard go on loading

Superseded ==
    IF lastKey /= None /\ transaction[lastKey] = "Fetching" THEN Cancel(lastKey) ELSE Kept

IsShared(n) ==
    \E m \in Visits \ {n} : uid[m] = uid[n] /\ (pc[m] = "variables" \/ (model = m /\ m \notin missing))

(* A dashboard 'Not found' has no variables, but begins and waits for what *)
(* another visit has left under its key.                                   *)
GoOn(n, found) ==
    /\ phase' = "Services"
    /\ missing' = IF found THEN missing ELSE missing \cup {n}
    /\ LET u == uid[n]
           before == Superseded
           mine == {v \in Variables : found \/ before.variables[u][v] /= "Absent"}
           own == [v \in Variables |-> IF v \in mine THEN "waits" ELSE "over"]
       IN  /\ pc' = [before.pc EXCEPT ![n] = "variables"]
           /\ transaction' = [before.transaction EXCEPT ![u] = "Fetching"]
           /\ lastKey' = u
           /\ variables' = [before.variables EXCEPT
                                ![u] = [v \in Variables |-> IF v \in mine THEN "NotStarted" ELSE "Absent"]]
           /\ job' = Resolve([before.job EXCEPT ![n] = own], variables')
           /\ mixed' = IF IsShared(n) THEN mixed \cup {u} ELSE mixed
    /\ UNCHANGED <<visits, uid, page, model, runner>>

(* The loader catches that the fetch was cancelled.                        *)
CatchCancelled(n) == pc[n] = "cancelled" /\ GoOn(n, FALSE)

Proceed ==
    \E n \in Visits : \/ Complete(n)
                      \/ CatchCancelled(n)
                      \/ \E v \in Variables : ProcessVariable(n, v)

Settled ==
    \A n \in Visits : /\ ~IsProcessed(n)
                      /\ pc[n] /= "cancelled"
                      /\ \A v \in Variables : job[n][v] /= "free"
-----------------------------------------------------------------------------
(* The events. *)

(* cleanUpDashboardAndVariables: only a model that is there is destroyed   *)
(* and has its variables cancelled; nothing is known of one underway.  The *)
(* models of 'Not found' and 'Dashboard init failed' have no UID, so that  *)
(* only the requests are cancelled.                                        *)
Closed ==
    IF model = Nobody THEN Kept
    ELSE IF model \in Visits \ missing THEN Cancel(uid[model])
    ELSE [Kept EXCEPT !.pc = Aborted]

(* The page is mounted, or its URL changes, or it is reloaded, which has   *)
(* no effect while it has no dashboard.                                    *)
Open(u) ==
    /\ Settled
    /\ visits < MaxVisits
    /\ page => model /= Nobody
    /\ page' = TRUE
    /\ visits' = visits + 1
    /\ uid' = [uid EXCEPT ![visits'] = u]
    /\ pc' = [Closed.pc EXCEPT ![visits'] = "fetching"]
    /\ variables' = Closed.variables
    /\ transaction' = Closed.transaction
    /\ job' = Closed.job
    /\ phase' = "Fetching"
    /\ model' = Nobody
    /\ UNCHANGED <<missing, lastKey, runner, mixed>>

(* The page is unmounted. *)
Leave ==
    /\ Settled
    /\ page
    /\ page' = FALSE
    /\ pc' = Closed.pc
    /\ variables' = Closed.variables
    /\ transaction' = Closed.transaction
    /\ job' = Closed.job
    /\ phase' = "NotStarted"
    /\ model' = Nobody
    /\ UNCHANGED <<visits, uid, missing, lastKey, runner, mixed>>

Fetched(n) ==
    /\ Settled
    /\ pc[n] = "fetching"
    /\ GoOn(n, TRUE)

(* The fetch fails, and the loader catches that.                           *)
NotFound(n) ==
    /\ Settled
    /\ pc[n] = "fetching"
    /\ uid[n] \in Caught
    /\ GoOn(n, FALSE)

(* The fetch fails and nothing catches that, or no model can be made of    *)
(* what was fetched.                                                       *)
InitFails(n) ==
    /\ Settled
    /\ pc[n] = "fetching"
    /\ pc' = [pc EXCEPT ![n] = "over"]
    /\ phase' = "Failed"
    /\ model' = Stub
    /\ UNCHANGED <<visits, uid, missing, page, lastKey, transaction, variables, job, runner, mixed>>

(* The query of a variable answers, fails or is cancelled, by whatever     *)
(* transaction is going on under its key by then.                          *)
Answer(n, v, result) ==
    /\ Settled
    /\ job[n][v] = "queries"
    /\ LET u == uid[n]
       IN  /\ variables' = IF variables[u][v] = "Absent" \/ ~HasOngoingTransaction(u) THEN variables
                           ELSE [variables EXCEPT ![u][v] = result]
           /\ job' = Resolve([job EXCEPT ![n][v] = "over"], variables')
    /\ UNCHANGED <<visits, uid, pc, missing, page, phase, model, lastKey, transaction, runner, mixed>>

Next ==
    \/ Proceed
    \/ \E u \in Dashboards : Open(u)
    \/ Leave
    \/ \E n \in Visits : \/ Fetched(n)
                         \/ NotFound(n)
                         \/ InitFails(n)
                         \/ \E v \in Variables, result \in {"Done", "Error"} : Answer(n, v, result)

(* Promises run on; as long as requests are underway some is answered,     *)
(* fails or is cancelled.                                                  *)
Fairness ==
    /\ WF_vars(Proceed)
    /\ WF_vars(\E n \in Visits : Fetched(n) \/ NotFound(n) \/ InitFails(n))
    /\ WF_vars(\E n \in Visits, v \in Variables, result \in {"Done", "Error"} : Answer(n, v, result))

Spec == Init /\ [][Next]_vars /\ Fairness
-----------------------------------------------------------------------------
(* Properties. *)

(* Variables load under one key at a time, the last one: getVariables and  *)
(* the VariableQueryRunner go by it, and what loads under another would be *)
(* neither read nor cancelled (variables/state/actions.ts                  *)
(* initVariablesTransaction).                                              *)
OneTransaction == \A u \in Dashboards : transaction[u] = "Fetching" => u = lastKey

(* The dashboard in the store has its variables: whatever earlier visits   *)
(* still do, they are neither missing nor loading.  A dashboard 'Not       *)
(* found' has none, and two visits of one dashboard that share the         *)
(* variables are excepted: the earlier one completes those of the later    *)
(* (initDashboard.ts, transactionReducer.ts).                              *)
DashboardHasVariables ==
    model \in Visits \ missing /\ uid[model] \notin mixed =>
        /\ transaction[uid[model]] = "Completed"
        /\ \A v \in Variables : variables[uid[model]][v] \in {"Done", "Error"}

(* No visit waits for ever for its variables, not for those of a dashboard *)
(* that was closed and reopened, nor for one whose query failed            *)
(* (variables/state/actions.ts processVariableDependencies).               *)
VariablesEnd == \A n \in Visits : pc[n] = "variables" ~> pc[n] = "over"

(* The page does not stay at loading: of the visits that go on, be they    *)
(* wanted, superseded or cancelled ones that say 'Not found', the last one *)
(* to start its variables completes (initDashboard.ts, getIfExistsLastKey  *)
(* and initPhase after initVariablesTransaction).                          *)
LoadingEnds == phase \in {"Fetching", "Services"} ~> phase \notin {"Fetching", "Services"}

(* "Then we can't continue initializing the previous dashboard": while one *)
(* dashboard is shown and stays, a visit of another does not replace, and  *)
(* so destroy, the runner of its queries (initDashboard.ts, after          *)
(* initVariablesTransaction).                                              *)
PreviousIsNotContinued ==
    [][runner' /= runner /\ model' = model /\ model \in Visits \ missing => uid[runner'] = uid[model]]_vars
=============================================================================
