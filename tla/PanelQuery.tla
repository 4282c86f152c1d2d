----------------------------- MODULE PanelQuery -----------------------------
(***************************************************************************)
(* How a panel of a Grafana dashboard gets its data: PanelQueryRunner and  *)
(* runRequest (public/app/features/query/state), the annotations and alert *)
(* states that DashboardQueryRunner merges in, and the view that shows the *)
(* result (PanelChrome).                                                   *)
(*                                                                         *)
(* A refresh is known by its number; the panel's run and the dashboard's   *)
(* run that it begins have that number too.  A result is abstracted to the *)
(* run that asked for it, the run its series come from, the response keys  *)
(* the series cover and the dashboard run its annotations come from.       *)
(***************************************************************************)
EXTENDS Integers

CONSTANTS
    MaxRuns,        \* bound: how often the panel is refreshed
    Sources,        \* data sources the panel may be set to
    Keys,           \* keys of the response packets of a query
    MergesDashData, \* the panel plugin supports annotations or alert states
    None

ASSUME RunsAssumption == MaxRuns \in Nat
ASSUME KeysAssumption == Keys /= {}
ASSUME MergesAssumption == MergesDashData \in BOOLEAN

Runs == 1..MaxRuns
NoRun == 0
RunsOrNone == 0..MaxRuns
LoadingStates == {"Loading", "Done", "Error"}
Results == [request : RunsOrNone, state : LoadingStates, series : RunsOrNone,
            keys : SUBSET Keys, annotations : RunsOrNone]
ASSUME NoneAssumption == None \notin Results \cup Sources \cup RunsOrNone

VARIABLES
    runs,       \* how many refreshes there have been
    pc,         \* every run: "none", "datasource" (awaited), "query" or "over"
    source,     \* the data source a run was started with
    timer,      \* runs whose timer will emit a loading state
    packets,    \* runRequest: the keys a run has got a response for
    failed,     \* runRequest: runs with an error among their packets
    raw,        \* combineLatest: the last PanelData of the subscribed run
    sub,        \* PanelQueryRunner.subscription: of which run
    open,       \* whether it is still subscribed
    lastResult, \* PanelQueryRunner.lastResult
    subject,    \* PanelQueryRunner.subject: the value it replays
    destroyed,  \* whether the runner, and with it the subject, is finished
    view,       \* PanelChrome's data; None: not started
    viewing,    \* whether the view is subscribed to the present subject
    dash,       \* every run of the dashboard's queries: "none", "work" or "over"
    dashTimer,  \* dashboard runs whose timer will publish an empty result
    results,    \* DashboardQueryRunner.results: the run it replays, NoRun: empty
    resent      \* history: since the last run a cancelled result was sent again

panelVars == <<runs, pc, source, timer, packets, failed, raw, sub, open>>
shownVars == <<lastResult, subject, view>>
dashVars == <<dash, dashTimer, results>>
vars == <<panelVars, shownVars, dashVars, destroyed, viewing, resent>>

TypeOK ==
    /\ runs \in RunsOrNone
    /\ pc \in [Runs -> {"none", "datasource", "query", "over"}]
    /\ source \in [Runs -> Sources \cup {None}]
    /\ timer \subseteq Runs
    /\ packets \in [Runs -> SUBSET Keys]
    /\ failed \subseteq Runs
    /\ raw \in Results \cup {None}
    /\ sub \in RunsOrNone
    /\ open \in BOOLEAN
    /\ lastResult \in Results \cup {None}
    /\ subject \in Results \cup {None}
    /\ destroyed \in BOOLEAN
    /\ view \in Results \cup {None}
    /\ viewing \in BOOLEAN
    /\ dash \in [Runs -> {"none", "work", "over"}]
    /\ dashTimer \subseteq Runs
    /\ results \in RunsOrNone \cup {None}
    /\ resent \in BOOLEAN

Init ==
    /\ runs = 0
    /\ pc = [n \in Runs |-> "none"]
    /\ source = [n \in Runs |-> None]
    /\ timer = {}
    /\ packets = [n \in Runs |-> {}]
    /\ failed = {}
    /\ raw = None
    /\ sub = NoRun
    /\ open = FALSE
    /\ lastResult = None
    /\ subject = None
    /\ destroyed = FALSE
    /\ view = None
    /\ viewing = TRUE
    /\ dash = [n \in Runs |-> "none"]
    /\ dashTimer = {}
    /\ results = None
    /\ resent = FALSE
-----------------------------------------------------------------------------
(* What is sent, and what the view makes of it. *)

(* While loading without series the last result is shown as loading. *)
PreProcess(data, last) ==
    IF data.state = "Loading" /\ data.keys = {} /\ last /= None
    THEN [last EXCEPT !.state = "Loading", !.request = data.request]
    ELSE data

(* onDataUpdate skips a loading state when it already shows one. *)
OnDataUpdate(data) ==
    IF view /= None /\ view.state = "Loading" /\ data.state = "Loading" THEN view ELSE data

(* subject.next, which a completed subject ignores. *)
Send(data) ==
    IF destroyed
    THEN UNCHANGED <<subject, view>>
    ELSE /\ subject' = data
         /\ view' = IF viewing THEN OnDataUpdate(data) ELSE view

(* The subscribed observable emits; merged with the dashboard's data it    *)
(* waits until there are some.                                             *)
Emit(data, annotations) ==
    IF data = None \/ (MergesDashData /\ annotations = None)
    THEN UNCHANGED shownVars
    ELSE LET merged == IF MergesDashData THEN [data EXCEPT !.annotations = annotations] ELSE data
             last == PreProcess(merged, lastResult)
         IN  lastResult' = last /\ Send(last)
-----------------------------------------------------------------------------
(* A refresh starts a run of the panel and, unless the panel alone is      *)
(* refreshed, one of the dashboard, which does not stop the earlier ones:  *)
(* takeUntil(this.runs) watches the list of workers, not their work.       *)
Refresh(s, alone) ==
    /\ runs < MaxRuns
    /\ ~destroyed
    /\ alone => runs > 0       \* initDashboard runs the dashboard's queries first
    /\ runs' = runs + 1
    /\ pc' = [pc EXCEPT ![runs'] = "datasource"]
    /\ source' = [source EXCEPT ![runs'] = s]
    /\ IF alone
       THEN UNCHANGED <<dash, dashTimer>>
       ELSE /\ dash' = [dash EXCEPT ![runs'] = "work"]
            /\ dashTimer' = dashTimer \cup {runs'}
    /\ UNCHANGED <<timer, packets, failed, raw, sub, open, shownVars, results, destroyed,
                   viewing, resent>>

(* Promises for one data source are settled in the order they were made. *)
SlipIsNext(n) == pc[n] = "datasource"    \* in any order
IsNext(n) == /\ pc[n] = "datasource"
             /\ \A m \in Runs : m < n /\ pc[m] = "datasource" => source[m] /= source[n]

(* Unsubscribing ends the run that is subscribed and cancels its request. *)
Unsubscribed == IF open /\ pc[sub] = "query" THEN [pc EXCEPT ![sub] = "over"] ELSE pc

SlipDataSourceReady(n) ==      \* the earlier subscription is overwritten
    /\ IsNext(n)
    /\ pc' = [pc EXCEPT ![n] = "query"]
    /\ timer' = {n}
    /\ sub' = n
    /\ open' = TRUE
    /\ raw' = None
    /\ resent' = FALSE
    /\ UNCHANGED <<runs, source, packets, failed, shownVars, dashVars, destroyed, viewing>>

DataSourceReady(n) ==
    /\ IsNext(n)
    /\ pc' = [Unsubscribed EXCEPT ![n] = "query"]
    /\ timer' = {n}
    /\ sub' = n
    /\ open' = TRUE
    /\ raw' = None
    /\ resent' = FALSE
    /\ UNCHANGED <<runs, source, packets, failed, shownVars, dashVars, destroyed, viewing>>

DataSourceFailed(n) ==
    /\ IsNext(n)
    /\ pc' = [pc EXCEPT ![n] = "over"]
    /\ UNCHANGED <<runs, source, timer, packets, failed, raw, sub, open, shownVars, dashVars,
                   destroyed, viewing, resent>>

SlipPanelData(n, state, keys) ==    \* the state of getDefaultPanelData is kept
    [request |-> n, state |-> IF keys = {} THEN "NotStarted" ELSE state,
     series |-> IF keys = {} THEN NoRun ELSE n, keys |-> keys, annotations |-> NoRun]

PanelData(n, state, keys) ==
    [request |-> n, state |-> state, series |-> IF keys = {} THEN NoRun ELSE n, keys |-> keys,
     annotations |-> NoRun]

(* 200 ms without a response. *)
LoadingTimer(n) ==
    /\ n \in timer
    /\ timer' = timer \ {n}
    /\ raw' = PanelData(n, "Loading", {})
    /\ Emit(raw', results)
    /\ UNCHANGED <<runs, pc, source, packets, failed, sub, open, dashVars, destroyed, viewing,
                   resent>>

(* processResponsePacket: an error in any packet is the state of the whole. *)
Response(n, k, isError, partial) ==
    /\ pc[n] = "query"
    /\ k \notin packets[n]
    /\ packets' = [packets EXCEPT ![n] = @ \cup {k}]
    /\ failed' = IF isError THEN failed \cup {n} ELSE failed
    /\ LET complete == packets'[n] = Keys
           state == IF n \in failed' THEN "Error"
                    ELSE IF partial /\ ~complete THEN "Loading" ELSE "Done"
       IN  /\ raw' = PanelData(n, state, packets'[n])
           /\ pc' = IF complete THEN [pc EXCEPT ![n] = "over"] ELSE pc
    /\ timer' = timer \ {n}
    /\ Emit(raw', results)
    /\ UNCHANGED <<runs, source, sub, open, dashVars, destroyed, viewing, resent>>

(* The query throws: the packets so far are shown with the error. *)
SlipQueryError(n) ==     \* the timer stops for results only
    /\ pc[n] = "query"
    /\ pc' = [pc EXCEPT ![n] = "over"]
    /\ failed' = failed \cup {n}
    /\ raw' = PanelData(n, "Error", packets[n])
    /\ Emit(raw', results)
    /\ UNCHANGED <<runs, source, timer, packets, sub, open, dashVars, destroyed, viewing, resent>>

QueryError(n) ==
    /\ pc[n] = "query"
    /\ pc' = [pc EXCEPT ![n] = "over"]
    /\ failed' = failed \cup {n}
    /\ timer' = timer \ {n}
    /\ raw' = PanelData(n, "Error", packets[n])
    /\ Emit(raw', results)
    /\ UNCHANGED <<runs, source, packets, sub, open, dashVars, destroyed, viewing, resent>>

(* The query completes and says no more, perhaps before it said anything   *)
(* (of() of the Grafana data source): the timer waits on, because          *)
(* takeUntil is ended by a result and not by a completion.                 *)
QueryCompletes(n) ==
    /\ pc[n] = "query"
    /\ ~(packets[n] /= {} /\ raw.state = "Loading")   \* it has not promised more
    /\ pc' = [pc EXCEPT ![n] = "over"]
    /\ UNCHANGED <<runs, source, timer, packets, failed, raw, sub, open, shownVars, dashVars,
                   destroyed, viewing, resent>>

(* The cancel button of the panel header. *)
SlipCancelQuery ==       \* unsubscribes without a last result
    /\ sub /= NoRun
    /\ ~destroyed
    /\ pc' = Unsubscribed
    /\ timer' = {}
    /\ open' = FALSE
    /\ raw' = None
    /\ UNCHANGED <<runs, source, packets, failed, sub, shownVars, dashVars, destroyed, viewing,
                   resent>>

CancelQuery ==
    /\ sub /= NoRun
    /\ ~destroyed
    /\ pc' = Unsubscribed
    /\ timer' = {}
    /\ open' = FALSE
    /\ raw' = None
    /\ IF lastResult /= None /\ lastResult.state = "Loading"
       THEN Send([lastResult EXCEPT !.state = "Done"])
       ELSE UNCHANGED <<subject, view>>
    /\ UNCHANGED <<runs, source, packets, failed, sub, lastResult, dashVars, destroyed, viewing,
                   resent>>

(* After a change of the panel's options, field configuration or plugin. *)
ResendLastResult ==
    /\ lastResult /= None
    /\ ~destroyed
    /\ Send(lastResult)
    /\ resent' = (resent \/ (~open /\ lastResult.state = "Loading"))
    /\ UNCHANGED <<panelVars, lastResult, dashVars, destroyed, viewing>>

(* The panel becomes a library panel: what it knew is cleared, and once    *)
(* the plugin is there a new view subscribes to the new subject.           *)
ClearLastResult ==
    /\ ~destroyed
    /\ lastResult' = None
    /\ subject' = None
    /\ viewing' = FALSE
    /\ UNCHANGED <<panelVars, view, dashVars, destroyed, resent>>

Remount ==
    /\ ~destroyed
    /\ view' = subject
    /\ viewing' = TRUE
    /\ UNCHANGED <<panelVars, lastResult, subject, dashVars, destroyed, resent>>

(* PanelModel.destroy: the panel is closed. *)
Destroy ==
    /\ ~destroyed
    /\ destroyed' = TRUE
    /\ viewing' = FALSE
    /\ pc' = Unsubscribed
    /\ timer' = {}
    /\ open' = FALSE
    /\ raw' = None
    /\ UNCHANGED <<runs, source, packets, failed, sub, shownVars, dashVars, resent>>

(* DashboardQueryRunner publishes; a subscribed panel merges its last data. *)
SlipPublishDashData(run) ==    \* withLatestFrom: only the panel's data makes it merge
    /\ results' = run
    /\ UNCHANGED <<panelVars, shownVars, destroyed, viewing, resent>>

PublishDashData(run) ==
    /\ results' = run
    /\ IF open /\ MergesDashData THEN Emit(raw, run) ELSE UNCHANGED shownVars
    /\ UNCHANGED <<panelVars, destroyed, viewing, resent>>

DashResult(n) ==
    /\ dash[n] = "work"
    /\ dash' = [dash EXCEPT ![n] = "over"]
    /\ dashTimer' = dashTimer \ {n}
    /\ PublishDashData(n)

SlipDashTimer(n) ==      \* no empty result: the panels wait for the annotations
    /\ n \in dashTimer
    /\ dashTimer' = dashTimer \ {n}
    /\ UNCHANGED <<panelVars, shownVars, dash, results, destroyed, viewing, resent>>

DashTimer(n) ==
    /\ n \in dashTimer
    /\ dashTimer' = dashTimer \ {n}
    /\ PublishDashData(NoRun)
    /\ UNCHANGED dash

Next ==
    \/ \E s \in Sources, alone \in BOOLEAN : Refresh(s, alone)
    \/ \E n \in Runs : \/ DataSourceReady(n)
                       \/ DataSourceFailed(n)
                       \/ LoadingTimer(n)
                       \/ \E k \in Keys, isError, partial \in BOOLEAN : Response(n, k, isError, partial)
                       \/ QueryError(n)
                       \/ QueryCompletes(n)
                       \/ DashResult(n)
                       \/ DashTimer(n)
    \/ CancelQuery
    \/ ResendLastResult
    \/ ClearLastResult
    \/ Remount
    \/ Destroy

(* Data sources load or fail, queries answer, fail or end, timers fire.    *)
Fairness ==
    \A n \in Runs :
        /\ WF_vars(DataSourceReady(n) \/ DataSourceFailed(n))
        /\ WF_vars(\/ QueryError(n)
                   \/ QueryCompletes(n)
                   \/ \E k \in Keys, isError, partial \in BOOLEAN : Response(n, k, isError, partial))
        /\ WF_vars(DashTimer(n))

Spec == Init /\ [][Next]_vars /\ Fairness
-----------------------------------------------------------------------------
(* Properties. *)
Shows(state) == view /= None /\ view.state = state

(* The query of a run has ended without a packet and without an error.     *)
SaidNothing(n) == pc[n] = "over" /\ packets[n] = {} /\ n \notin failed

(* A query that is underway belongs to the subscription of the runner: no  *)
(* request is left without somebody who can cancel it, and no two runs of  *)
(* a panel query at once (PanelQueryRunner.ts pipeToSubject).              *)
QueryIsOwned == \A n \in Runs : pc[n] = "query" => open /\ sub = n

(* The panel never goes back to the result of an earlier run, unless the   *)
(* data source of that run took longer to load (PanelQueryRunner.ts run).  *)
NeverGoesBack ==
    [][view /= None /\ view' /= None /\ view'.request < view.request
       => source[view'.request] /= source[view.request]]_vars

(* What the view shows as final of the subscribed run holds all that run   *)
(* got, by a packet each in any order, and what the dashboard published    *)
(* last, whichever of the two came later (runRequest.ts,                   *)
(* mergePanelAndDashData.ts).                                              *)
NothingIsMissing ==
    viewing /\ open /\ view /= None /\ view.request = sub /\ view.state /= "Loading" =>
        /\ view.series \in {NoRun, sub}
        /\ view.keys = packets[sub]
        /\ MergesDashData => view.annotations = results

(* A spinner turns only while a query is underway.  There are two          *)
(* exceptions, both the code's.  cancelQuery sends the last result as done *)
(* but keeps it as loading, and resendLastResult brings the spinner back   *)
(* (PanelQueryRunner.ts).  And a query that completes without a packet     *)
(* leaves the loading timer running, which shows a spinner that only       *)
(* another refresh or the user ends (runRequest.ts:169).                   *)
SpinnerIsHonest ==
    viewing /\ Shows("Loading") =>
        (open /\ (pc[sub] = "query" \/ SaidNothing(sub))) \/ resent

(* A spinner stops: the query answers or fails, or somebody cancels it.    *)
(* Only that of a query that has ended without a word may turn forever.    *)
SpinnerStops ==
    Shows("Loading") ~> \/ ~Shows("Loading") \/ ~viewing \/ resent
                        \/ open /\ SaidNothing(sub)

(* Once the last run queries it is shown, unless it is cancelled or has    *)
(* nothing to show, and it does not wait for annotations that are late.    *)
LastRunIsShown ==
    open /\ sub = MaxRuns /\ pc[sub] = "query" /\ packets[sub] = {} ~>
        \/ view /= None /\ view.request = MaxRuns /\ view.state \in {"Done", "Error"}
        \/ ~open \/ sub # MaxRuns \/ ~viewing \/ SaidNothing(MaxRuns)
=============================================================================
