-------------------------- MODULE PanelQuery_proofs --------------------------
(***************************************************************************)
(* Proofs about PanelQuery, for any number of runs, data sources and       *)
(* response keys, and for panels that merge the dashboard's data as well   *)
(* as for those that do not.  SpinnerIsHonest needs to know more than it   *)
(* says: what the runner remembers of the last result, of the raw data it  *)
(* merges and of the timers that are still to fire.                        *)
(* NothingIsMissing needs more again: where all that is shown came from.   *)
(***************************************************************************)
EXTENDS PanelQuery, TLAPS

IsLoading(data) == data /= None /\ data.state = "Loading"
IsQuerying == open /\ (pc[sub] = "query" \/ SaidNothing(sub))

(* A run that has not begun is nowhere. *)
FreshOK == \A n \in Runs : n > runs => pc[n] = "none"

(* A run has packets only once it queries, and its timer waits for them;   *)
(* it fails by a packet or ends by failing.                                *)
PacketsOK == /\ \A n \in Runs :
                    pc[n] \in {"none", "datasource"} \/ n \in timer => packets[n] = {}
             /\ \A n \in failed : pc[n] = "over" \/ packets[n] /= {}

(* Only the run that queries, or that has ended without a word, has a      *)
(* timer and data that are loading.  The last result does not fall behind  *)
(* the raw data.                                                           *)
TimerOK == \A n \in timer : pc[n] = "query" \/ (open /\ sub = n /\ SaidNothing(n))
RawOK == /\ open => sub \in Runs
         /\ IsLoading(raw) => IsQuerying
         /\ open /\ packets[sub] /= {} => raw /= None
         /\ raw /= None /\ IsLoading(lastResult) => IsLoading(raw)

(* A last result that is loading belongs to the query that is underway,    *)
(* if any run is subscribed.                                               *)
LastOK == /\ IsLoading(lastResult) /\ open => IsQuerying
          /\ lastResult /= None /\ MergesDashData => results /= None

(* The subject shows a spinner only while the last result is loading. *)
SubjectOK == ~destroyed /\ IsLoading(subject) => IsLoading(lastResult) /\ (IsQuerying \/ resent)

(* A view that is subscribed shows the state of its subject. *)
ViewOK == viewing => /\ ~destroyed
                     /\ (view = None) = (subject = None)
                     /\ IsLoading(view) = IsLoading(subject)

Inv == /\ TypeOK /\ FreshOK /\ PacketsOK /\ QueryIsOwned /\ TimerOK
       /\ RawOK /\ LastOK /\ SubjectOK /\ ViewOK
-----------------------------------------------------------------------------
(* The operators the actions are built from. *)

(* A run is a number that a result may have. *)
LEMMA RunsAreNumbers == Runs \subseteq RunsOrNone /\ NoRun \in RunsOrNone
BY RunsAssumption DEF Runs, RunsOrNone, NoRun

(* PanelData is a result, loading if it is said to be. *)
LEMMA PanelDataIsResult ==
    ASSUME NEW n \in Runs, NEW state \in LoadingStates, NEW keys \in SUBSET Keys
    PROVE  /\ PanelData(n, state, keys) \in Results
           /\ PanelData(n, state, keys).state = state
           /\ PanelData(n, state, keys) /= None
<1>1. PanelData(n, state, keys) \in Results
  BY RunsAreNumbers DEF PanelData, Results
<1>2. PanelData(n, state, keys).state = state
  BY DEF PanelData
<1> QED BY <1>1, <1>2, NoneAssumption

(* preProcessPanelData does not change the state. *)
LEMMA PreProcessKeepsState ==
    ASSUME NEW data \in Results, NEW last \in Results \cup {None}
    PROVE  /\ PreProcess(data, last) \in Results
           /\ PreProcess(data, last).state = data.state
BY DEF PreProcess, Results, LoadingStates

(* What Send leaves in the subject and the view is typed. *)
LEMMA SendIsTyped ==
    ASSUME TypeOK, NEW data \in Results, Send(data)
    PROVE  /\ subject' \in Results \cup {None}
           /\ view' \in Results \cup {None}
BY DEF TypeOK, Send, OnDataUpdate

(* After Send, a view that is subscribed shows the state of its subject.   *)
LEMMA SendShows ==
    ASSUME Inv, NEW data \in Results, Send(data)
    PROVE  /\ ~destroyed => subject' = data
           /\ viewing => /\ ~destroyed
                         /\ (view' = None) = (subject' = None)
                         /\ IsLoading(view') = IsLoading(subject')
BY NoneAssumption DEF Inv, TypeOK, ViewOK, Send, OnDataUpdate, IsLoading

(* What Emit leaves in the last result, the subject and the view.          *)
LEMMA EmitIsTyped ==
    ASSUME TypeOK, NEW data \in Results \cup {None},
           NEW annotations \in RunsOrNone \cup {None}, Emit(data, annotations)
    PROVE  /\ lastResult' \in Results \cup {None}
           /\ subject' \in Results \cup {None}
           /\ view' \in Results \cup {None}
<1>1. CASE data = None \/ (MergesDashData /\ annotations = None)
  BY <1>1 DEF Emit, TypeOK, shownVars
<1>2. CASE ~(data = None \/ (MergesDashData /\ annotations = None))
  <2> DEFINE merged == IF MergesDashData THEN [data EXCEPT !.annotations = annotations] ELSE data
  <2>1. merged \in Results
    BY <1>2 DEF Results
  <2>2. PreProcess(merged, lastResult) \in Results
    BY <2>1, PreProcessKeepsState DEF TypeOK
  <2>3. lastResult' = PreProcess(merged, lastResult) /\ Send(PreProcess(merged, lastResult))
    BY <1>2 DEF Emit
  <2> QED BY <2>2, <2>3, SendIsTyped
<1> QED BY <1>1, <1>2

(* Unsubscribing keeps the type of pc, and no run queries after it.        *)
LEMMA UnsubscribedEndsQuery ==
    ASSUME Inv
    PROVE  /\ Unsubscribed \in [Runs -> {"none", "datasource", "query", "over"}]
           /\ \A n \in Runs : Unsubscribed[n] /= "query"
           /\ \A n \in Runs : n > runs => Unsubscribed[n] = "none"
BY DEF Inv, TypeOK, QueryIsOwned, FreshOK, Unsubscribed

(* Emit settles what is loading: if anything is emitted, the last result   *)
(* and the subject that is open to it have the state of the data.          *)
LEMMA EmitKeepsState ==
    ASSUME Inv, NEW data \in Results \cup {None},
           NEW annotations \in RunsOrNone \cup {None}, Emit(data, annotations)
    PROVE  /\ \/ UNCHANGED shownVars /\ (data = None \/ (MergesDashData /\ annotations = None))
              \/ /\ data /= None
                 /\ lastResult' /= None
                 /\ MergesDashData => annotations /= None
                 /\ IsLoading(lastResult') = IsLoading(data)
                 /\ ~destroyed => IsLoading(subject') = IsLoading(data)
           /\ viewing => /\ ~destroyed
                         /\ (view' = None) = (subject' = None)
                         /\ IsLoading(view') = IsLoading(subject')
<1>1. CASE data = None \/ (MergesDashData /\ annotations = None)
  BY <1>1 DEF Emit, Inv, ViewOK, shownVars
<1>2. CASE ~(data = None \/ (MergesDashData /\ annotations = None))
  <2> DEFINE merged == IF MergesDashData THEN [data EXCEPT !.annotations = annotations] ELSE data
             last == PreProcess(merged, lastResult)
  <2>1. merged \in Results /\ merged.state = data.state
    BY <1>2 DEF Results
  <2>2. last \in Results /\ last.state = data.state
    BY <2>1, PreProcessKeepsState DEF Inv, TypeOK
  <2>3. lastResult' = last /\ Send(last)
    BY <1>2 DEF Emit
  <2>4. last /= None
    BY <2>2, NoneAssumption
  <2> HIDE DEF last
  <2>5. IsLoading(last) = IsLoading(data)
    BY <1>2, <2>2, <2>4 DEF IsLoading
  <2> QED BY <1>2, <2>2, <2>3, <2>4, <2>5, SendShows
<1> QED BY <1>1, <1>2
-----------------------------------------------------------------------------
(* Nothing has happened at the beginning. *)
LEMMA InitInv == Init => Inv
<1> SUFFICES ASSUME Init PROVE Inv
  OBVIOUS
<1>1. TypeOK
  BY RunsAssumption, RunsAreNumbers DEF Init, TypeOK, RunsOrNone, NoRun
<1> QED BY <1>1 DEF Init, Inv, FreshOK, PacketsOK, QueryIsOwned, TimerOK, RawOK, LastOK, SubjectOK, ViewOK,
                   IsLoading

(* Every step keeps the types. *)
LEMMA TypeNext == ASSUME Inv, [Next]_vars PROVE TypeOK'
<1> USE RunsAreNumbers, UnsubscribedEndsQuery DEF Inv, panelVars, shownVars, dashVars
<1>1. ASSUME NEW s \in Sources, NEW alone \in BOOLEAN, Refresh(s, alone) PROVE TypeOK'
  <2>1. runs' \in Runs
    BY <1>1, RunsAssumption DEF TypeOK, Refresh, Runs, RunsOrNone
  <2>2. /\ dash' \in [Runs -> {"none", "work", "over"}]
        /\ dashTimer' \subseteq Runs
    <3>1. CASE alone
      BY <1>1, <3>1 DEF TypeOK, Refresh
    <3>2. CASE ~alone
      BY <1>1, <2>1, <3>2 DEF TypeOK, Refresh
    <3> QED BY <3>1, <3>2
  <2> QED BY <1>1, <2>1, <2>2 DEF TypeOK, Refresh
<1>2. ASSUME NEW n \in Runs, DataSourceReady(n) PROVE TypeOK'
  BY <1>2 DEF TypeOK, DataSourceReady, IsNext
<1>3. ASSUME NEW n \in Runs, DataSourceFailed(n) PROVE TypeOK'
  BY <1>3 DEF TypeOK, DataSourceFailed
<1>4. ASSUME NEW n \in Runs, LoadingTimer(n) PROVE TypeOK'
  <2>1. raw' \in Results
    BY <1>4, PanelDataIsResult DEF LoadingTimer, LoadingStates
  <2>2. /\ lastResult' \in Results \cup {None}
        /\ subject' \in Results \cup {None}
        /\ view' \in Results \cup {None}
    BY <1>4, <2>1, EmitIsTyped DEF LoadingTimer, TypeOK
  <2> QED BY <1>4, <2>1, <2>2 DEF TypeOK, LoadingTimer
<1>5. ASSUME NEW n \in Runs, NEW k \in Keys, NEW isError \in BOOLEAN, NEW partial \in BOOLEAN,
             Response(n, k, isError, partial)
      PROVE  TypeOK'
  <2>1. raw' \in Results
    <3>1. packets'[n] \in SUBSET Keys
      BY <1>5 DEF Response, TypeOK
    <3> QED BY <1>5, <3>1, PanelDataIsResult DEF Response, LoadingStates
  <2>2. /\ lastResult' \in Results \cup {None}
        /\ subject' \in Results \cup {None}
        /\ view' \in Results \cup {None}
    BY <1>5, <2>1, EmitIsTyped DEF Response, TypeOK
  <2> QED BY <1>5, <2>1, <2>2 DEF TypeOK, Response
<1>6. ASSUME NEW n \in Runs, QueryError(n) PROVE TypeOK'
  <2>1. raw' \in Results
    BY <1>6, PanelDataIsResult DEF QueryError, LoadingStates, TypeOK
  <2>2. /\ lastResult' \in Results \cup {None}
        /\ subject' \in Results \cup {None}
        /\ view' \in Results \cup {None}
    BY <1>6, <2>1, EmitIsTyped DEF QueryError, TypeOK
  <2> QED BY <1>6, <2>1, <2>2 DEF TypeOK, QueryError
<1>17. ASSUME NEW n \in Runs, QueryCompletes(n) PROVE TypeOK'
  BY <1>17 DEF TypeOK, QueryCompletes
<1>7. ASSUME NEW run \in RunsOrNone, PublishDashData(run)
      PROVE  /\ results' \in RunsOrNone
             /\ lastResult' \in Results \cup {None}
             /\ subject' \in Results \cup {None}
             /\ view' \in Results \cup {None}
  BY <1>7, EmitIsTyped DEF PublishDashData, TypeOK
<1>8. ASSUME NEW n \in Runs, DashResult(n) PROVE TypeOK'
  BY <1>7, <1>8 DEF TypeOK, DashResult, PublishDashData
<1>9. ASSUME NEW n \in Runs, DashTimer(n) PROVE TypeOK'
  BY <1>7, <1>9 DEF TypeOK, DashTimer, PublishDashData
<1>10. CASE CancelQuery
  <2>1. CASE lastResult /= None /\ lastResult.state = "Loading"
    <3>1. [lastResult EXCEPT !.state = "Done"] \in Results
      BY <2>1 DEF TypeOK, Results, LoadingStates
    <3>2. /\ subject' \in Results \cup {None}
          /\ view' \in Results \cup {None}
      BY <1>10, <2>1, <3>1, SendIsTyped DEF CancelQuery
    <3> QED BY <1>10, <3>2 DEF TypeOK, CancelQuery
  <2>2. CASE ~(lastResult /= None /\ lastResult.state = "Loading")
    BY <1>10, <2>2 DEF TypeOK, CancelQuery
  <2> QED BY <2>1, <2>2
<1>11. CASE ResendLastResult
  <2>1. /\ subject' \in Results \cup {None}
        /\ view' \in Results \cup {None}
    BY <1>11, SendIsTyped DEF ResendLastResult, TypeOK
  <2>2. resent' \in BOOLEAN
    BY <1>11 DEF ResendLastResult, TypeOK
  <2> QED BY <1>11, <2>1, <2>2 DEF TypeOK, ResendLastResult
<1>12. CASE ClearLastResult
  BY <1>12 DEF TypeOK, ClearLastResult
<1>13. CASE Remount
  BY <1>13 DEF TypeOK, Remount
<1>14. CASE Destroy
  BY <1>14 DEF TypeOK, Destroy
<1>15. CASE UNCHANGED vars
  BY <1>15 DEF TypeOK, vars
<1> HIDE RunsAreNumbers, UnsubscribedEndsQuery DEF Inv, panelVars, shownVars, dashVars
<1>16. CASE Next
  BY <1>1, <1>2, <1>3, <1>4, <1>5, <1>6, <1>8, <1>9, <1>10, <1>11, <1>12, <1>13, <1>14, <1>16,
     <1>17, Zenon DEF Next
<1> QED BY <1>15, <1>16

(* A run gets packets, and a timer, only while it queries. *)
LEMMA PacketsNext == ASSUME Inv, [Next]_vars PROVE PacketsOK'
<1> USE RunsAreNumbers, UnsubscribedEndsQuery
    DEF panelVars, shownVars, dashVars, PacketsOK
<1>0. TypeOK /\ FreshOK /\ QueryIsOwned /\ PacketsOK
  BY DEF Inv
<1>a. \A n \in Runs : Unsubscribed[n] = pc[n] \/ (pc[n] = "query" /\ Unsubscribed[n] = "over")
  BY <1>0 DEF Unsubscribed, TypeOK, QueryIsOwned
<1>1. ASSUME NEW s \in Sources, NEW alone \in BOOLEAN, Refresh(s, alone) PROVE PacketsOK'
  <2>1. /\ runs + 1 \in Runs /\ pc' = [pc EXCEPT ![runs + 1] = "datasource"]
        /\ UNCHANGED <<timer, packets, failed>>
    BY <1>0, <1>1, RunsAssumption DEF Refresh, TypeOK, Runs, RunsOrNone
  <2>2. pc[runs + 1] = "none"
    BY <1>0, <2>1 DEF FreshOK, TypeOK, RunsOrNone
  <2> QED BY <1>0, <2>1, <2>2 DEF TypeOK
<1>2. ASSUME NEW n \in Runs, DataSourceReady(n) PROVE PacketsOK'
  <2>1. /\ pc[n] = "datasource" /\ pc' = [Unsubscribed EXCEPT ![n] = "query"]
        /\ timer' = {n} /\ UNCHANGED <<packets, failed>>
    BY <1>2 DEF DataSourceReady, IsNext
  <2> QED BY <1>0, <1>a, <2>1 DEF TypeOK
<1>3. ASSUME NEW n \in Runs, DataSourceFailed(n) PROVE PacketsOK'
  BY <1>0, <1>3 DEF DataSourceFailed, IsNext, TypeOK
<1>4. ASSUME NEW n \in Runs, LoadingTimer(n) \/ QueryCompletes(n) \/ QueryError(n)
      PROVE  PacketsOK'
  BY <1>0, <1>4 DEF LoadingTimer, QueryCompletes, QueryError, TypeOK
<1>5. ASSUME NEW n \in Runs, NEW k \in Keys, NEW isError \in BOOLEAN, NEW partial \in BOOLEAN,
             Response(n, k, isError, partial)
      PROVE  PacketsOK'
  <2>1. /\ pc[n] = "query" /\ packets' = [packets EXCEPT ![n] = @ \cup {k}]
        /\ timer' = timer \ {n} /\ failed' \subseteq failed \cup {n}
        /\ pc' = pc \/ pc' = [pc EXCEPT ![n] = "over"]
    BY <1>5 DEF Response
  <2> QED BY <1>0, <2>1 DEF TypeOK
<1>6. ASSUME NEW n \in Runs, DashResult(n) \/ DashTimer(n) PROVE PacketsOK'
  BY <1>0, <1>6 DEF DashResult, DashTimer, PublishDashData
<1>7. CASE CancelQuery \/ Destroy
  BY <1>0, <1>a, <1>7 DEF CancelQuery, Destroy, TypeOK
<1>8. CASE ResendLastResult \/ ClearLastResult \/ Remount
  BY <1>0, <1>8 DEF ResendLastResult, ClearLastResult, Remount
<1>9. CASE UNCHANGED vars
  BY <1>0, <1>9 DEF vars
<1> HIDE RunsAreNumbers, UnsubscribedEndsQuery DEF panelVars, shownVars, dashVars, PacketsOK
<1>10. CASE Next
  BY <1>1, <1>2, <1>3, <1>4, <1>5, <1>6, <1>7, <1>8, <1>10, Zenon DEF Next
<1> QED BY <1>9, <1>10

(* So do they keep the rest: what is loading belongs to a run that queries. *)
LEMMA OwnedNext ==
    ASSUME Inv, [Next]_vars
    PROVE  FreshOK' /\ QueryIsOwned' /\ TimerOK' /\ RawOK' /\ LastOK' /\ SubjectOK' /\ ViewOK'
<1> DEFINE Goal == FreshOK /\ QueryIsOwned /\ TimerOK /\ RawOK /\ LastOK /\ SubjectOK /\ ViewOK
<1> SUFFICES Goal'
  OBVIOUS
<1> USE RunsAreNumbers, NoneAssumption
    DEF Goal, panelVars, shownVars, dashVars, FreshOK, QueryIsOwned, TimerOK, RawOK, LastOK,
        SubjectOK, ViewOK, IsQuerying, SaidNothing
<1>0. TypeOK /\ Goal
  BY DEF Inv
<1>1. ASSUME NEW s \in Sources, NEW alone \in BOOLEAN, Refresh(s, alone) PROVE Goal'
  <2>1. /\ runs' = runs + 1 /\ runs' \in Runs
        /\ pc' = [pc EXCEPT ![runs'] = "datasource"]
        /\ UNCHANGED <<timer, packets, failed, raw, sub, open, shownVars, results, destroyed,
                       viewing, resent>>
    BY <1>0, <1>1, RunsAssumption DEF Refresh, TypeOK, Runs, RunsOrNone
  <2>2. pc[runs'] = "none"
    BY <1>0, <2>1 DEF TypeOK, RunsOrNone
  <2>3. FreshOK'
    BY <1>0, <2>1 DEF TypeOK, Runs, RunsOrNone
  <2>4. \A m \in Runs : /\ pc'[m] = "query" <=> pc[m] = "query"
                        /\ SaidNothing(m)' <=> SaidNothing(m)
    BY <2>1, <2>2 DEF TypeOK, Inv
  <2>5. timer \subseteq Runs
    BY <1>0 DEF TypeOK
  <2> HIDE DEF SaidNothing
  <2> QED BY <1>0, <2>1, <2>3, <2>4, <2>5 DEF IsLoading
<1>2. ASSUME NEW n \in Runs, DataSourceReady(n) PROVE Goal'
  <2>1. /\ pc' = [Unsubscribed EXCEPT ![n] = "query"]
        /\ sub' = n /\ open' /\ timer' = {n} /\ raw' = None
        /\ UNCHANGED <<shownVars, results, destroyed, viewing>>
    BY <1>2 DEF DataSourceReady
  <2>2. IsQuerying' /\ \A m \in Runs : pc'[m] = "query" => m = n
    BY <2>1, UnsubscribedEndsQuery
  <2>3. FreshOK'
    BY <1>0, <1>2, UnsubscribedEndsQuery DEF DataSourceReady, IsNext
  <2>4. packets'[n] = {}
    BY <1>2 DEF Inv, PacketsOK, DataSourceReady, IsNext
  <2> QED BY <1>0, <2>1, <2>2, <2>3, <2>4 DEF IsLoading
<1>3. ASSUME NEW n \in Runs, DataSourceFailed(n) PROVE Goal'
  BY <1>0, <1>3 DEF TypeOK, DataSourceFailed, IsNext, IsLoading
<1>a. timer \subseteq {sub} /\ \A n \in Runs : pc[n] = "query" => open /\ n = sub
  BY <1>0 DEF TypeOK
<1>4. ASSUME NEW n \in Runs, NEW data \in Results,
             raw' = data, Emit(data, results),
             open, n = sub, pc[n] /= "none", timer' = {},
             pc' \in {pc, [pc EXCEPT ![n] = "over"]},
             IsLoading(data) => IsQuerying',
             UNCHANGED <<runs, sub, open, results, destroyed, viewing, resent>>
      PROVE  Goal'
  <2>1. FreshOK' /\ QueryIsOwned' /\ TimerOK'
    BY <1>0, <1>4 DEF TypeOK
  <2>2. raw' /= None
    BY <1>4
  <2>3. /\ \/ UNCHANGED shownVars /\ (data = None \/ (MergesDashData /\ results = None))
           \/ /\ data /= None
              /\ lastResult' /= None
              /\ MergesDashData => results /= None
              /\ IsLoading(lastResult') = IsLoading(data)
              /\ ~destroyed => IsLoading(subject') = IsLoading(data)
        /\ viewing => /\ ~destroyed
                      /\ (view' = None) = (subject' = None)
                      /\ IsLoading(view') = IsLoading(subject')
    BY <1>4, EmitKeepsState DEF Inv, TypeOK
  <2>4. IsLoading(lastResult') => IsLoading(data)
    BY <1>0, <1>4, <2>2, <2>3 DEF IsLoading
  <2>5. LastOK' /\ RawOK'
    <3>1. lastResult' /= None /\ MergesDashData => results' /= None
      BY <1>0, <1>4, <2>3
    <3> QED BY <1>4, <2>2, <2>4, <3>1
  <2>6. SubjectOK' /\ ViewOK'
    BY <1>0, <1>4, <2>2, <2>3, <2>4 DEF IsLoading
  <2> QED BY <2>1, <2>5, <2>6
<1>5. ASSUME NEW n \in Runs, LoadingTimer(n) PROVE Goal'
  <2>1. PanelData(n, "Loading", {}) \in Results
    BY PanelDataIsResult DEF LoadingStates
  <2>2. /\ n \in timer /\ timer' = timer \ {n} /\ raw' = PanelData(n, "Loading", {})
        /\ Emit(raw', results)
        /\ UNCHANGED <<runs, pc, packets, failed, sub, open, results, destroyed, viewing, resent>>
    BY <1>5 DEF LoadingTimer
  <2>3. n = sub /\ IsQuerying /\ pc[n] /= "none" /\ timer' = {}
    BY <1>0, <1>a, <2>2 DEF SaidNothing
  <2>4. IsQuerying'
    BY <2>2, <2>3 DEF SaidNothing
  <2> QED BY <1>4, <2>1, <2>2, <2>3, <2>4
<1>6. ASSUME NEW n \in Runs, NEW k \in Keys, NEW isError \in BOOLEAN, NEW partial \in BOOLEAN,
             Response(n, k, isError, partial)
      PROVE  Goal'
  <2>1. packets'[n] \in SUBSET Keys
    BY <1>0, <1>6 DEF Response, TypeOK
  <2>2. PICK state \in LoadingStates :
            /\ raw' = PanelData(n, state, packets'[n])
            /\ pc' = IF packets'[n] = Keys THEN [pc EXCEPT ![n] = "over"] ELSE pc
            /\ state = "Loading" => packets'[n] /= Keys
    BY <1>6 DEF Response, LoadingStates
  <2>3. /\ pc[n] = "query" /\ timer' = timer \ {n} /\ Emit(raw', results)
        /\ UNCHANGED <<runs, sub, open, results, destroyed, viewing, resent>>
    BY <1>6 DEF Response
  <2>4. raw' \in Results /\ (IsLoading(raw') => pc' = pc)
    BY <2>1, <2>2, PanelDataIsResult DEF IsLoading
  <2>5. open /\ n = sub /\ timer' = {}
    BY <1>a, <2>3
  <2>6. IsLoading(raw') => IsQuerying'
    BY <2>3, <2>4, <2>5
  <2> QED BY <1>4, <2>2, <2>3, <2>4, <2>5, <2>6
<1>7. ASSUME NEW n \in Runs, QueryError(n) PROVE Goal'
  <2>1. /\ PanelData(n, "Error", packets[n]) \in Results
        /\ ~IsLoading(PanelData(n, "Error", packets[n]))
    BY <1>0, PanelDataIsResult DEF TypeOK, LoadingStates, IsLoading
  <2>2. /\ raw' = PanelData(n, "Error", packets[n]) /\ pc' = [pc EXCEPT ![n] = "over"]
        /\ pc[n] = "query" /\ timer' = timer \ {n} /\ Emit(raw', results)
        /\ UNCHANGED <<runs, sub, open, results, destroyed, viewing, resent>>
    BY <1>7 DEF QueryError
  <2>3. open /\ n = sub /\ timer' = {}
    BY <1>a, <2>2
  <2> QED BY <1>4, <2>1, <2>2, <2>3
<1>17. ASSUME NEW n \in Runs, QueryCompletes(n) PROVE Goal'
  <2>1. /\ pc[n] = "query" /\ pc' = [pc EXCEPT ![n] = "over"]
        /\ ~(packets[n] /= {} /\ raw.state = "Loading")
        /\ UNCHANGED <<runs, timer, packets, failed, raw, sub, open, shownVars, results, destroyed,
                       viewing, resent>>
    BY <1>17 DEF QueryCompletes
  <2>2. open /\ n = sub /\ timer \subseteq {n}
    BY <1>a, <2>1
  <2>3. FreshOK' /\ QueryIsOwned'
    BY <1>0, <2>1, <2>2 DEF TypeOK
  <2>4. CASE packets[n] = {}
    <3>1. SaidNothing(n)'
      BY <1>0, <2>1, <2>4 DEF TypeOK, Inv, PacketsOK, SaidNothing
    <3>2. TimerOK' /\ IsQuerying'
      BY <2>1, <2>2, <3>1
    <3> QED BY <1>0, <2>1, <2>3, <3>2 DEF IsLoading
  <2>5. CASE packets[n] /= {}
    <3>1. raw /= None /\ ~IsLoading(raw) /\ ~IsLoading(lastResult)
      BY <1>0, <2>1, <2>2, <2>5 DEF IsLoading
    <3>2. timer = {}
      BY <2>2, <2>5 DEF Inv, PacketsOK
    <3> QED BY <1>0, <2>1, <2>3, <3>1, <3>2 DEF IsLoading
  <2> QED BY <2>4, <2>5
<1>8. ASSUME NEW run \in RunsOrNone, PublishDashData(run),
             UNCHANGED <<panelVars, destroyed, viewing, resent>>
      PROVE  Goal'
  <2>1. results' /= None
    BY <1>8 DEF PublishDashData, RunsOrNone
  <2>2. FreshOK' /\ QueryIsOwned' /\ TimerOK'
    BY <1>0, <1>8
  <2>3. CASE UNCHANGED shownVars
    BY <1>0, <1>8, <2>1, <2>3 DEF IsLoading
  <2>4. CASE open /\ Emit(raw, run)
    <3>1. /\ \/ UNCHANGED shownVars
             \/ /\ lastResult' /= None
                /\ IsLoading(lastResult') = IsLoading(raw)
                /\ ~destroyed => IsLoading(subject') = IsLoading(raw)
          /\ viewing => /\ ~destroyed
                        /\ (view' = None) = (subject' = None)
                        /\ IsLoading(view') = IsLoading(subject')
      BY <1>0, <2>4, EmitKeepsState DEF TypeOK
    <3>2. LastOK' /\ RawOK'
      BY <1>0, <1>8, <2>1, <2>4, <3>1 DEF IsLoading
    <3>3. SubjectOK' /\ ViewOK'
      BY <1>0, <1>8, <2>1, <2>4, <3>1 DEF IsLoading
    <3> QED BY <2>2, <3>2, <3>3
  <2> QED BY <1>8, <2>3, <2>4 DEF PublishDashData
<1>9. ASSUME NEW n \in Runs, DashResult(n) \/ DashTimer(n) PROVE Goal'
  BY <1>8, <1>9 DEF DashResult, DashTimer, PublishDashData
<1>10. CASE CancelQuery
  <2>1. FreshOK' /\ QueryIsOwned' /\ TimerOK' /\ RawOK'
    BY <1>10, UnsubscribedEndsQuery DEF CancelQuery, IsLoading
  <2>2. LastOK'
    BY <1>0, <1>10 DEF CancelQuery, IsLoading
  <2>3. CASE IsLoading(lastResult)
    <3> DEFINE done == [lastResult EXCEPT !.state = "Done"]
    <3>1. done \in Results /\ done.state = "Done"
      BY <1>0, <2>3 DEF TypeOK, Results, LoadingStates, IsLoading
    <3>2. Send(done)
      BY <1>10, <2>3 DEF CancelQuery, IsLoading
    <3> HIDE DEF done
    <3>3. /\ ~destroyed => subject' = done
          /\ viewing => /\ ~destroyed
                        /\ (view' = None) = (subject' = None)
                        /\ IsLoading(view') = IsLoading(subject')
      BY <3>1, <3>2, SendShows
    <3> QED BY <1>10, <2>1, <2>2, <3>1, <3>3 DEF CancelQuery, IsLoading
  <2>4. CASE ~IsLoading(lastResult)
    BY <1>0, <1>10, <2>1, <2>2, <2>4 DEF CancelQuery, IsLoading
  <2> QED BY <2>3, <2>4
<1>11. CASE ResendLastResult
  <2>1. FreshOK' /\ QueryIsOwned' /\ TimerOK' /\ RawOK' /\ LastOK'
    BY <1>0, <1>11 DEF ResendLastResult, IsLoading
  <2>2. /\ subject' = lastResult
        /\ viewing => /\ (view' = None) = (subject' = None)
                      /\ IsLoading(view') = IsLoading(subject')
    BY <1>0, <1>11, SendShows DEF ResendLastResult, TypeOK
  <2>3. IsLoading(lastResult) => IsQuerying \/ resent'
    BY <1>0, <1>11 DEF ResendLastResult, IsLoading
  <2> QED BY <1>0, <1>11, <2>1, <2>2, <2>3 DEF ResendLastResult
<1>12. CASE ClearLastResult
  BY <1>0, <1>12 DEF TypeOK, ClearLastResult, IsLoading
<1>13. CASE Remount
  BY <1>0, <1>13 DEF TypeOK, Remount, IsLoading
<1>14. CASE Destroy
  <2>1. FreshOK' /\ QueryIsOwned' /\ TimerOK' /\ RawOK'
    BY <1>14, UnsubscribedEndsQuery DEF Destroy, IsLoading
  <2>2. LastOK' /\ SubjectOK' /\ ViewOK'
    BY <1>0, <1>14 DEF TypeOK, Destroy, IsLoading
  <2> QED BY <2>1, <2>2
<1>15. CASE UNCHANGED vars
  BY <1>0, <1>15 DEF vars, IsLoading
<1>16. CASE Next
  BY <1>1, <1>2, <1>3, <1>5, <1>6, <1>7, <1>9, <1>10, <1>11, <1>12, <1>13, <1>14, <1>16,
     <1>17, Zenon DEF Next
<1> QED BY <1>15, <1>16

(* The inductive invariant. *)
THEOREM InvHolds == Spec => []Inv
<1>1. Inv /\ [Next]_vars => Inv'
  BY TypeNext, PacketsNext, OwnedNext DEF Inv
<1> QED BY <1>1, InitInv, PTL DEF Spec

(* Every variable keeps its type: whatever is merged, patched or sent      *)
(* again is a whole result.                                                *)
THEOREM TypeCorrect == Spec => []TypeOK
<1>1. Inv => TypeOK
  BY DEF Inv
<1> QED BY <1>1, InvHolds, PTL

(* The runner never leaves a query behind that nobody can cancel.          *)
THEOREM QueriesAreOwned == Spec => []QueryIsOwned
<1>1. Inv => QueryIsOwned
  BY DEF Inv
<1> QED BY <1>1, InvHolds, PTL

(* A spinner that turns is turned by a query, was brought back, or is that *)
(* of a query that ended without a word.                                   *)
THEOREM SpinnersAreHonest == Spec => []SpinnerIsHonest
<1>1. Inv => SpinnerIsHonest
  BY DEF Inv, SubjectOK, ViewOK, IsLoading, IsQuerying, SpinnerIsHonest, Shows
<1> QED BY <1>1, InvHolds, PTL
-----------------------------------------------------------------------------
(* What is shown as final is whole.  On top of Inv: where the shown data   *)
(* came from, and that the raw data keep up with the packets.              *)

(* The raw data are all that the subscribed run got. *)
RawOfSub == /\ open => sub \in Runs /\ pc[sub] \notin {"none", "datasource"}
            /\ raw /= None => /\ open
                              /\ raw.request = sub
                              /\ raw.series \in {NoRun, sub}
                              /\ raw.keys = packets[sub]

(* What is shown came from a run that began to query, ... *)
Seen(data) == data /= None => /\ data.request \in Runs
                              /\ pc[data.request] \notin {"none", "datasource"}
                              /\ MergesDashData => results /= None

(* ... and what is final of the subscribed run is all of it. *)
Whole(data) == open /\ data /= None /\ data.request = sub =>
                   /\ raw /= None
                   /\ data.state /= "Loading" =>
                          /\ data.series \in {NoRun, sub}
                          /\ data.keys = packets[sub]
                          /\ MergesDashData => data.annotations = results

ShownOK == /\ Seen(lastResult) /\ Whole(lastResult)
           /\ ~destroyed => Seen(subject) /\ Whole(subject)
           /\ viewing => Seen(view) /\ Whole(view)

ShownInv == RawOfSub /\ ShownOK

(* What is emitted keeps its run, and all of it unless it is still loading. *)
LEMMA EmitShows ==
    ASSUME Inv, NEW data \in Results, NEW annotations \in RunsOrNone \cup {None},
           Emit(data, annotations), MergesDashData => annotations /= None
    PROVE  /\ lastResult' \in Results
           /\ lastResult'.request = data.request
           /\ lastResult'.state /= "Loading" =>
                  /\ lastResult'.series = data.series
                  /\ lastResult'.keys = data.keys
                  /\ MergesDashData => lastResult'.annotations = annotations
           /\ ~destroyed => subject' = lastResult'
           /\ viewing => view' = lastResult' \/ (view' = view /\ IsLoading(view))
<1> DEFINE merged == IF MergesDashData THEN [data EXCEPT !.annotations = annotations] ELSE data
           last == PreProcess(merged, lastResult)
<1>1. lastResult' = last /\ Send(last)
  BY NoneAssumption DEF Emit
<1>2. /\ merged \in Results
      /\ merged.request = data.request /\ merged.state = data.state
      /\ merged.series = data.series /\ merged.keys = data.keys
      /\ MergesDashData => merged.annotations = annotations
  BY DEF Results
<1> HIDE DEF merged
<1>3. /\ last \in Results
      /\ last.request = merged.request
      /\ last.state /= "Loading" => last = merged
  BY <1>2, PreProcessKeepsState DEF PreProcess, Inv, TypeOK, Results
<1> HIDE DEF last
<1>4. /\ ~destroyed => subject' = last
      /\ viewing => view' = last \/ (view' = view /\ IsLoading(view))
  BY <1>1 DEF Send, OnDataUpdate, IsLoading, Inv, ViewOK
<1> QED BY <1>1, <1>2, <1>3, <1>4

(* A run that has begun to query never goes back, nor do the annotations.  *)
LEMMA ProgressIsKept ==
    ASSUME Inv, [Next]_vars
    PROVE  /\ \A n \in Runs : pc[n] \notin {"none", "datasource"}
                              => pc'[n] \notin {"none", "datasource"}
           /\ results /= None => results' /= None
<1> DEFINE Goal == /\ \A n \in Runs : pc[n] \notin {"none", "datasource"}
                                       => pc'[n] \notin {"none", "datasource"}
                   /\ results /= None => results' /= None
<1> SUFFICES Goal
  OBVIOUS
<1> USE RunsAreNumbers, NoneAssumption DEF Inv, TypeOK, panelVars, dashVars
<1>1. \A n \in Runs : Unsubscribed[n] = pc[n] \/ Unsubscribed[n] = "over"
  BY DEF Unsubscribed
<1>2. ASSUME NEW s \in Sources, NEW alone \in BOOLEAN, Refresh(s, alone) PROVE Goal
  <2>1. pc' = [pc EXCEPT ![runs + 1] = "datasource"] /\ results' = results
        /\ runs + 1 \in Runs
    BY <1>2, RunsAssumption DEF Refresh, Runs, RunsOrNone
  <2>2. pc[runs + 1] = "none"
    BY <2>1 DEF FreshOK, RunsOrNone
  <2> QED BY <2>1, <2>2
<1>3. ASSUME NEW n \in Runs, DataSourceReady(n) \/ DataSourceFailed(n) PROVE Goal
  BY <1>1, <1>3, UnsubscribedEndsQuery DEF DataSourceReady, DataSourceFailed
<1>4. ASSUME NEW n \in Runs, LoadingTimer(n) \/ QueryError(n) \/ QueryCompletes(n) PROVE Goal
  BY <1>4 DEF LoadingTimer, QueryError, QueryCompletes
<1>5. ASSUME NEW n \in Runs, NEW k \in Keys, NEW isError \in BOOLEAN, NEW partial \in BOOLEAN,
             Response(n, k, isError, partial)
      PROVE  Goal
  BY <1>5 DEF Response
<1>6. ASSUME NEW n \in Runs, DashResult(n) \/ DashTimer(n) PROVE Goal
  BY <1>6 DEF DashResult, DashTimer, PublishDashData, RunsOrNone
<1>7. CASE CancelQuery \/ Destroy
  BY <1>1, <1>7 DEF CancelQuery, Destroy
<1>8. CASE ResendLastResult \/ ClearLastResult \/ Remount
  BY <1>8 DEF ResendLastResult, ClearLastResult, Remount
<1>9. CASE UNCHANGED vars
  BY <1>9 DEF vars
<1> HIDE RunsAreNumbers, NoneAssumption DEF Goal, Inv, TypeOK, panelVars, dashVars
<1>10. CASE Next
  BY <1>2, <1>3, <1>4, <1>5, <1>6, <1>7, <1>8, <1>10, Zenon DEF Next
<1> QED BY <1>9, <1>10

(* What is shown stays whole when the run subscribed to and all that       *)
(* belongs to it stay, or when nobody is subscribed any longer, or when    *)
(* it is a run that has shown nothing yet.                                 *)
LEMMA DataStay ==
    ASSUME Inv, [Next]_vars, NEW data, Seen(data), Whole(data),
           \/ ~open'
           \/ sub' \in Runs /\ pc[sub'] = "datasource"
           \/ UNCHANGED <<raw, sub, open, results>> /\ packets'[sub] = packets[sub]
    PROVE  /\ data /= None => /\ data.request \in Runs
                              /\ pc'[data.request] \notin {"none", "datasource"}
                              /\ MergesDashData => results' /= None
           /\ open' /\ data /= None /\ data.request = sub' =>
                  /\ raw' /= None
                  /\ data.state /= "Loading" =>
                         /\ data.series \in {NoRun, sub'}
                         /\ data.keys = packets'[sub']
                         /\ MergesDashData => data.annotations = results'
BY ProgressIsKept DEF Seen, Whole

(* What the subscribed run emits is whole, wherever it is shown. *)
LEMMA EmitIsWhole ==
    ASSUME Inv, ShownInv, [Next]_vars, NEW annotations \in RunsOrNone \cup {None},
           raw' \in Results, Emit(raw', annotations), annotations = results',
           open', raw'.request = sub', sub' \in Runs,
           raw'.series \in {NoRun, sub'}, raw'.keys = packets'[sub'],
           pc'[sub'] \notin {"none", "datasource"},
           UNCHANGED <<destroyed, viewing>>
    PROVE  ShownOK'
<1>1. CASE MergesDashData /\ annotations = None
  <2>1. UNCHANGED shownVars /\ results = None
    BY <1>1, ProgressIsKept DEF Emit
  <2>2. /\ lastResult = None
        /\ ~destroyed => subject = None
        /\ viewing => view = None
    BY <1>1, <2>1 DEF ShownInv, ShownOK, Seen
  <2> QED BY <2>1, <2>2 DEF ShownOK, Seen, Whole, shownVars
<1>2. CASE ~(MergesDashData /\ annotations = None)
  <2>1. /\ lastResult' \in Results
        /\ lastResult'.request = sub'
        /\ lastResult'.state /= "Loading" =>
               /\ lastResult'.series \in {NoRun, sub'}
               /\ lastResult'.keys = packets'[sub']
               /\ MergesDashData => lastResult'.annotations = results'
        /\ ~destroyed => subject' = lastResult'
        /\ viewing => view' = lastResult' \/ (view' = view /\ IsLoading(view))
    BY <1>2, EmitShows
  <2>2. raw' /= None /\ (MergesDashData => results' /= None)
    BY <1>2, NoneAssumption
  <2>3. Seen(lastResult)' /\ Whole(lastResult)'
    BY <2>1, <2>2 DEF Seen, Whole
  <2>4. ~destroyed' => Seen(subject)' /\ Whole(subject)'
    BY <2>1, <2>2 DEF Seen, Whole
  <2>5. ASSUME viewing PROVE Seen(view)' /\ Whole(view)'
    <3>1. CASE view' = lastResult'
      BY <2>3, <3>1 DEF Seen, Whole
    <3>2. CASE view' = view /\ IsLoading(view)
      <4>1. view.request \in Runs /\ pc'[view.request] \notin {"none", "datasource"}
        BY <2>5, <3>2, ProgressIsKept DEF ShownInv, ShownOK, Seen, IsLoading
      <4> QED BY <2>2, <3>2, <4>1 DEF Seen, Whole, IsLoading
    <3> QED BY <2>1, <2>5, <3>1, <3>2
  <2> QED BY <2>3, <2>4, <2>5 DEF ShownOK
<1> QED BY <1>1, <1>2

(* Nothing is shown at the beginning. *)
LEMMA InitShown == Init => ShownInv
BY DEF Init, ShownInv, RawOfSub, ShownOK, Seen, Whole

(* PanelData is of its run and of the packets it is given. *)
LEMMA PanelDataIsOfRun ==
    ASSUME NEW n \in Runs, NEW state \in LoadingStates, NEW keys \in SUBSET Keys
    PROVE  /\ PanelData(n, state, keys).request = n
           /\ PanelData(n, state, keys).series \in {NoRun, n}
           /\ PanelData(n, state, keys).keys = keys
BY DEF PanelData

(* Every step keeps what is shown whole. *)
LEMMA ShownNext == ASSUME Inv, ShownInv, [Next]_vars PROVE ShownInv'
<1> USE RunsAreNumbers DEF panelVars, shownVars, dashVars
<1>0. /\ TypeOK /\ FreshOK /\ QueryIsOwned /\ TimerOK /\ ViewOK
      /\ PacketsOK /\ RawOfSub /\ ShownOK
  BY DEF Inv, ShownInv
<1>a. \A n \in Runs : Unsubscribed[n] = pc[n] \/ (pc[n] = "query" /\ Unsubscribed[n] = "over")
  BY <1>0 DEF Unsubscribed, TypeOK, QueryIsOwned
(* Nothing new is shown. *)
<1>b. ASSUME lastResult' \in {lastResult, None},
             ~destroyed' => ~destroyed /\ subject' \in {subject, None},
             viewing' => \/ viewing /\ view' = view
                         \/ ~destroyed /\ view' = subject,
             \/ ~open'
             \/ sub' \in Runs /\ pc[sub'] = "datasource"
             \/ UNCHANGED <<raw, sub, open, results>> /\ packets'[sub] = packets[sub]
      PROVE  ShownOK'
  <2>1. Seen(lastResult)' /\ Whole(lastResult)'
    BY <1>0, <1>b, DataStay DEF ShownOK, Seen, Whole
  <2>2. ~destroyed' => Seen(subject)' /\ Whole(subject)'
    BY <1>0, <1>b, DataStay DEF ShownOK, Seen, Whole
  <2>3. viewing' => Seen(view)' /\ Whole(view)'
    BY <1>0, <1>b, DataStay DEF ShownOK, Seen, Whole
  <2> QED BY <2>1, <2>2, <2>3 DEF ShownOK
<1>1. ASSUME NEW s \in Sources, NEW alone \in BOOLEAN, Refresh(s, alone) PROVE ShownInv'
  <2>1. /\ runs + 1 \in Runs /\ pc' = [pc EXCEPT ![runs + 1] = "datasource"]
        /\ UNCHANGED <<timer, packets, raw, sub, open, shownVars, results, destroyed, viewing>>
    BY <1>0, <1>1, RunsAssumption DEF Refresh, TypeOK, Runs, RunsOrNone
  <2>2. pc[runs + 1] = "none"
    BY <1>0, <2>1 DEF FreshOK, TypeOK, RunsOrNone
  <2>3. RawOfSub'
    BY <1>0, <2>1, <2>2 DEF RawOfSub, TypeOK
  <2>4. ShownOK'
    BY <1>b, <2>1
  <2> QED BY <2>3, <2>4 DEF ShownInv
<1>2. ASSUME NEW n \in Runs, DataSourceReady(n) PROVE ShownInv'
  <2>1. /\ pc[n] = "datasource" /\ pc' = [Unsubscribed EXCEPT ![n] = "query"]
        /\ timer' = {n} /\ sub' = n /\ open' /\ raw' = None
        /\ UNCHANGED <<packets, shownVars, results, destroyed, viewing>>
    BY <1>2 DEF DataSourceReady, IsNext
  <2>2. pc'[n] = "query"
    BY <2>1, UnsubscribedEndsQuery
  <2>3. RawOfSub'
    BY <1>0, <1>a, <2>1, <2>2, UnsubscribedEndsQuery DEF RawOfSub
  <2>4. ShownOK'
    BY <1>b, <2>1
  <2> QED BY <2>3, <2>4 DEF ShownInv
<1>3. ASSUME NEW n \in Runs, DataSourceFailed(n) PROVE ShownInv'
  <2>1. RawOfSub'
    BY <1>0, <1>3 DEF DataSourceFailed, IsNext, TypeOK, RawOfSub
  <2>2. ShownOK'
    BY <1>b, <1>3 DEF DataSourceFailed
  <2> QED BY <2>1, <2>2 DEF ShownInv
(* The subscribed run emits. *)
<1>4. ASSUME NEW n \in Runs, NEW state \in LoadingStates, NEW keys \in SUBSET Keys,
             open, sub = n, pc[n] \in {"query", "over"},
             pc' \in {pc, [pc EXCEPT ![n] = "over"]},
             packets' = [packets EXCEPT ![n] = keys],
             raw' = PanelData(n, state, keys), Emit(raw', results),
             UNCHANGED <<sub, open, results, destroyed, viewing>>
      PROVE  ShownInv'
  <2>2. packets'[n] = keys /\ pc'[n] \in {"query", "over"}
    BY <1>0, <1>4 DEF TypeOK
  <2>3. /\ raw' \in Results /\ raw' /= None /\ raw'.request = n
        /\ raw'.series \in {NoRun, n} /\ raw'.keys = keys
    BY <1>4, PanelDataIsResult, PanelDataIsOfRun
  <2>4. ShownOK'
    BY <1>0, <1>4, <2>2, <2>3, EmitIsWhole DEF TypeOK
  <2>5. RawOfSub'
    BY <1>4, <2>2, <2>3 DEF RawOfSub
  <2> QED BY <2>4, <2>5 DEF ShownInv
<1>5. ASSUME NEW n \in Runs, LoadingTimer(n) PROVE ShownInv'
  <2>1. /\ n \in timer /\ raw' = PanelData(n, "Loading", {}) /\ Emit(raw', results)
        /\ UNCHANGED <<pc, packets, sub, open, results, destroyed, viewing>>
    BY <1>5 DEF LoadingTimer
  <2>2. open /\ sub = n /\ pc[n] \in {"query", "over"}
    BY <1>0, <2>1 DEF TimerOK, QueryIsOwned, SaidNothing
  <2>3. packets' = [packets EXCEPT ![n] = {}]
    BY <1>0, <2>1 DEF PacketsOK, TypeOK
  <2> QED BY <1>4, <2>1, <2>2, <2>3 DEF LoadingStates
<1>6. ASSUME NEW n \in Runs, NEW k \in Keys, NEW isError \in BOOLEAN, NEW partial \in BOOLEAN,
             Response(n, k, isError, partial)
      PROVE  ShownInv'
  <2>1. PICK state \in LoadingStates :
            /\ raw' = PanelData(n, state, packets'[n])
            /\ pc' \in {pc, [pc EXCEPT ![n] = "over"]}
    BY <1>6 DEF Response, LoadingStates
  <2>2. /\ packets'[n] \in SUBSET Keys
        /\ packets' = [packets EXCEPT ![n] = packets'[n]]
    BY <1>0, <1>6 DEF Response, TypeOK
  <2>3. /\ Emit(raw', results) /\ pc[n] = "query" /\ open /\ sub = n
        /\ UNCHANGED <<sub, open, results, destroyed, viewing>>
    BY <1>0, <1>6 DEF Response, QueryIsOwned
  <2> QED BY <1>4, <2>1, <2>2, <2>3
<1>7. ASSUME NEW n \in Runs, QueryError(n) PROVE ShownInv'
  <2>1. packets[n] \in SUBSET Keys /\ packets' = [packets EXCEPT ![n] = packets[n]]
    BY <1>0, <1>7 DEF QueryError, TypeOK
  <2>2. pc[n] = "query" /\ open /\ sub = n
    BY <1>0, <1>7 DEF QueryError, QueryIsOwned
  <2> QED BY <1>4, <1>7, <2>1, <2>2 DEF QueryError, LoadingStates
<1>17. ASSUME NEW n \in Runs, QueryCompletes(n) PROVE ShownInv'
  <2>1. /\ pc[n] = "query" /\ pc' = [pc EXCEPT ![n] = "over"]
        /\ UNCHANGED <<packets, raw, sub, open, shownVars, results, destroyed, viewing>>
    BY <1>17 DEF QueryCompletes
  <2>2. RawOfSub'
    BY <1>0, <2>1 DEF RawOfSub, TypeOK
  <2>3. ShownOK'
    BY <1>b, <2>1
  <2> QED BY <2>2, <2>3 DEF ShownInv
<1>8. ASSUME NEW run \in RunsOrNone, PublishDashData(run),
             UNCHANGED <<panelVars, destroyed, viewing>>
      PROVE  ShownInv'
  <2>1. results' = run /\ RawOfSub'
    BY <1>0, <1>8 DEF PublishDashData, RawOfSub
  <2>2. CASE open /\ raw /= None /\ MergesDashData
    <3>1. raw' \in Results /\ Emit(raw', run)
      BY <1>0, <1>8, <2>2 DEF PublishDashData, TypeOK
    <3>2. ShownOK'
      BY <1>0, <1>8, <2>1, <2>2, <3>1, EmitIsWhole DEF RawOfSub
    <3> QED BY <2>1, <3>2 DEF ShownInv
  <2>3. CASE ~(open /\ raw /= None /\ MergesDashData)
    <3>1. UNCHANGED shownVars
      BY <1>8, <2>3 DEF PublishDashData, Emit
    <3>2. results' /= None
      BY <2>1, NoneAssumption
    <3>3. ASSUME NEW data, Seen(data), Whole(data)
          PROVE  /\ data /= None => /\ data.request \in Runs
                                    /\ pc'[data.request] \notin {"none", "datasource"}
                                    /\ MergesDashData => results' /= None
                 /\ open' /\ data /= None /\ data.request = sub' =>
                        /\ raw' /= None
                        /\ data.state /= "Loading" =>
                               /\ data.series \in {NoRun, sub'}
                               /\ data.keys = packets'[sub']
                               /\ MergesDashData => data.annotations = results'
      BY <1>8, <2>3, <3>2, <3>3 DEF Seen, Whole
    <3>4. ShownOK'
      BY <1>0, <1>8, <3>1, <3>3 DEF ShownOK, Seen, Whole
    <3> QED BY <2>1, <3>4 DEF ShownInv
  <2> QED BY <2>2, <2>3
<1>9. ASSUME NEW n \in Runs, DashResult(n) \/ DashTimer(n) PROVE ShownInv'
  BY <1>8, <1>9 DEF DashResult, DashTimer, PublishDashData
<1>10. CASE CancelQuery
  <2>1. /\ pc' = Unsubscribed /\ timer' = {} /\ ~open' /\ raw' = None
        /\ UNCHANGED <<packets, lastResult, results, destroyed, viewing>>
    BY <1>10 DEF CancelQuery
  <2>2. RawOfSub'
    BY <1>0, <1>a, <2>1 DEF RawOfSub
  <2>3. CASE IsLoading(lastResult)
    <3> DEFINE done == [lastResult EXCEPT !.state = "Done"]
    <3>1. done \in Results /\ done.request = lastResult.request
      BY <1>0, <2>3 DEF TypeOK, Results, LoadingStates, IsLoading
    <3>2. Send(done)
      BY <1>10, <2>3 DEF CancelQuery, IsLoading
    <3> HIDE DEF done
    <3>3. /\ ~destroyed => subject' = done
          /\ viewing => view' = done \/ view' = view
      BY <1>0, <3>2 DEF Send, OnDataUpdate, ViewOK
    <3>4. Seen(done)
      BY <1>0, <2>3, <3>1 DEF ShownOK, Seen, IsLoading
    <3>5. ShownOK'
      BY <1>0, <2>1, <3>3, <3>4, ProgressIsKept DEF ShownOK, Seen, Whole
    <3> QED BY <2>2, <3>5 DEF ShownInv
  <2>4. CASE ~IsLoading(lastResult)
    <3>1. UNCHANGED <<subject, view>>
      BY <1>10, <2>4 DEF CancelQuery, IsLoading
    <3> QED BY <1>b, <2>1, <2>2, <3>1 DEF ShownInv
  <2> QED BY <2>3, <2>4
<1>11. CASE ResendLastResult
  <2>1. /\ UNCHANGED <<panelVars, lastResult, results, destroyed, viewing>>
        /\ subject' = lastResult
        /\ viewing => view' = lastResult \/ view' = view
    BY <1>11 DEF ResendLastResult, Send, OnDataUpdate
  <2>2. RawOfSub'
    BY <1>0, <2>1 DEF RawOfSub
  <2>3. ShownOK'
    BY <1>0, <2>1 DEF ShownOK, Seen, Whole
  <2> QED BY <2>2, <2>3 DEF ShownInv
<1>12. CASE ClearLastResult
  <2>1. RawOfSub'
    BY <1>0, <1>12 DEF ClearLastResult, RawOfSub
  <2>2. ShownOK'
    BY <1>b, <1>12 DEF ClearLastResult
  <2> QED BY <2>1, <2>2 DEF ShownInv
<1>13. CASE Remount
  <2>1. RawOfSub'
    BY <1>0, <1>13 DEF Remount, RawOfSub
  <2>2. ShownOK'
    BY <1>b, <1>13 DEF Remount
  <2> QED BY <2>1, <2>2 DEF ShownInv
<1>14. CASE Destroy
  <2>1. RawOfSub'
    BY <1>0, <1>a, <1>14 DEF Destroy, RawOfSub
  <2>2. ShownOK'
    BY <1>b, <1>14 DEF Destroy
  <2> QED BY <2>1, <2>2 DEF ShownInv
<1>15. CASE UNCHANGED vars
  <2>1. RawOfSub'
    BY <1>0, <1>15 DEF vars, RawOfSub
  <2>2. ShownOK'
    BY <1>b, <1>15 DEF vars
  <2> QED BY <2>1, <2>2 DEF ShownInv
<1> HIDE RunsAreNumbers DEF panelVars, shownVars, dashVars
<1>16. CASE Next
  BY <1>1, <1>2, <1>3, <1>5, <1>6, <1>7, <1>9, <1>10, <1>11, <1>12, <1>13, <1>14, <1>16,
     <1>17, Zenon DEF Next
<1> QED BY <1>15, <1>16

(* What the view shows as final holds all the packets of its run and the   *)
(* annotations published last, in whatever order they came.                *)
THEOREM ResultsAreWhole == Spec => []NothingIsMissing
<1>1. Inv /\ Inv' /\ ShownInv /\ [Next]_vars => ShownInv'
  BY ShownNext
<1>2. ShownInv => NothingIsMissing
  BY DEF ShownInv, ShownOK, Whole, NothingIsMissing
<1> QED BY <1>1, <1>2, InitShown, InvHolds, PTL DEF Spec
-----------------------------------------------------------------------------
(* The view does not go back.  On top of Inv and ShownInv: promises for    *)
(* one data source are settled in order, so that the run that is           *)
(* subscribed does not go back from anything that is still shown, and a    *)
(* result that may be sent again does not go back from the view.           *)

(* To go from the run of a to that of b is not to go back.                 *)
NotBack(a, b) == b < a => source[b] /= source[a]

(* A run that still awaits its data source is not overtaken by a later one *)
(* with the same.                                                          *)
InOrder == \A m, n \in Runs :
    m < n /\ pc[m] = "datasource" /\ source[m] = source[n] => pc[n] \in {"none", "datasource"}

(* What is shown has begun to query, and the subscribed run follows it.    *)
Began(data) == data /= None => /\ data.request \in Runs
                               /\ pc[data.request] \notin {"none", "datasource"}
Follows(data) == data /= None /\ sub \in Runs => NotBack(data.request, sub)
Precedes(a, b) == a /= None /\ b /= None => NotBack(a.request, b.request)

BackOK == /\ Began(lastResult) /\ Follows(lastResult)
          /\ Began(subject) /\ Follows(subject)
          /\ Began(view) /\ Follows(view)
          /\ Precedes(view, subject) /\ Precedes(view, lastResult)
          /\ Precedes(subject, lastResult)

(* The run subscribed to last has begun to query, though it may be over.   *)
SubBegan == sub \in Runs => pc[sub] \notin {"none", "datasource"}

BackInv == InOrder /\ SubBegan /\ BackOK

(* How what is shown may change: y is made of x, or of the subscribed run. *)
IsOf(y, x) == y /= None => x /= None /\ y.request = x.request
IsOfSub(y) == /\ y /= None /\ y.request = sub /\ sub \in Runs
              /\ pc[sub] \notin {"none", "datasource"}

ShownMoves ==
    \/ view' = view /\ IsOf(subject', subject) /\ (IsOf(lastResult', lastResult) \/ IsOfSub(lastResult'))
    \/ view' = view /\ IsOfSub(subject') /\ IsOfSub(lastResult')
    \/ view' = view /\ IsOf(subject', lastResult) /\ UNCHANGED lastResult
    \/ IsOf(view', subject) /\ UNCHANGED <<subject, lastResult>>
    \/ IsOf(view', lastResult) /\ IsOf(subject', lastResult) /\ UNCHANGED lastResult
    \/ IsOfSub(view') /\ IsOfSub(subject') /\ IsOfSub(lastResult')

(* What precedes x precedes what is made of x, and of the subscribed run.  *)
LEMMA PrecedesKept ==
    ASSUME UNCHANGED source
    PROVE  /\ \A a, x, y : Precedes(a, x) /\ IsOf(y, x) => Precedes(a, y)
           /\ \A a, b, x : Precedes(a, x) /\ IsOf(b, a) => Precedes(b, x)
           /\ \A a, y : Follows(a) /\ IsOfSub(y) => Precedes(a, y)
           /\ \A a, b : (Precedes(a, b) <=> (a /= None /\ b /= None =>
                         (b.request < a.request => source'[b.request] /= source'[a.request])))
BY DEF Precedes, Follows, IsOf, IsOfSub, NotBack

(* A run does not go back from itself.                                     *)
LEMMA SameRun ==
    /\ \A x : Began(x) => Precedes(x, x)
    /\ \A x, y : IsOfSub(x) /\ IsOfSub(y) => Precedes(x, y)
    /\ \A x : IsOf(x, x)
<1>1. Runs \subseteq Int
  BY RunsAssumption DEF Runs
<1>2. \A n \in Runs : ~(n < n)
  BY <1>1
<1>3. \A x : Began(x) => Precedes(x, x)
  BY <1>2 DEF Began, Precedes, NotBack
<1>4. \A x, y : IsOfSub(x) /\ IsOfSub(y) => Precedes(x, y)
  BY <1>2 DEF Precedes, NotBack, IsOfSub
<1>5. \A x : IsOf(x, x)
  BY DEF IsOf
<1> QED BY <1>3, <1>4, <1>5

(* Whatever is shown next, the view does not go back. *)
LEMMA MovesAreNotBack ==
    ASSUME BackOK, ShownMoves, UNCHANGED source
    PROVE  Precedes(view, view')
BY PrecedesKept, SameRun DEF BackOK, ShownMoves

(* Nothing shown loses its place in the order. *)
LEMMA MovesKeepOrder ==
    ASSUME Inv, BackOK, ShownMoves, [Next]_vars, UNCHANGED <<source, sub>>
    PROVE  BackOK'
<1>1. Runs \subseteq Int
  BY RunsAssumption DEF Runs
<1>2. \A n \in Runs : pc[n] \notin {"none", "datasource"} => pc'[n] \notin {"none", "datasource"}
  BY ProgressIsKept
<1> DEFINE Kept(y) ==
             /\ y /= None => y.request \in Runs /\ pc'[y.request] \notin {"none", "datasource"}
             /\ y /= None /\ sub' \in Runs
                => (sub' < y.request => source'[sub'] /= source'[y.request])
<1>3. \A x, y : IsOf(y, x) /\ Began(x) /\ Follows(x) => Kept(y)
  BY <1>2 DEF IsOf, Began, Follows, NotBack
<1>4. \A y : IsOfSub(y) => Kept(y)
  BY <1>1, <1>2 DEF IsOfSub
<1> HIDE DEF Kept
<1>5. Kept(lastResult') /\ Kept(subject') /\ Kept(view')
  BY <1>3, <1>4, SameRun DEF BackOK, ShownMoves
<1>6. Precedes(view', subject') /\ Precedes(view', lastResult') /\ Precedes(subject', lastResult')
  BY PrecedesKept, SameRun DEF BackOK, ShownMoves
<1>7. /\ Began(lastResult)' /\ Follows(lastResult)'
      /\ Began(subject)' /\ Follows(subject)'
      /\ Began(view)' /\ Follows(view)'
  BY <1>5 DEF Kept, Began, Follows, NotBack
<1>8. Precedes(view, subject)' /\ Precedes(view, lastResult)' /\ Precedes(subject, lastResult)'
  BY <1>6 DEF Precedes, NotBack
<1> QED BY <1>7, <1>8 DEF BackOK

(* A promise that is settled in order leaves the others in order. *)
LEMMA OrderKept ==
    ASSUME TypeOK, InOrder, UNCHANGED source,
           \A n \in Runs : \/ pc'[n] = pc[n]
                           \/ pc[n] = "query" /\ pc'[n] = "over"
                           \/ IsNext(n) /\ pc'[n] \in {"query", "over"}
    PROVE  InOrder'
<1> SUFFICES ASSUME NEW m \in Runs, NEW n \in Runs, m < n, pc'[m] = "datasource",
                    source[m] = source[n]
             PROVE  pc'[n] \in {"none", "datasource"}
  BY DEF InOrder
<1>1. pc[m] = "datasource"
  OBVIOUS
<1>2. pc[n] \in {"none", "datasource"}
  BY <1>1 DEF InOrder
<1>3. ~IsNext(n)
  BY <1>1 DEF IsNext
<1> QED BY <1>2, <1>3

(* What the subscribed run emits is of that run. *)
LEMMA EmitMoves ==
    ASSUME Inv, NEW data \in Results \cup {None}, NEW annotations \in RunsOrNone \cup {None},
           Emit(data, annotations), data /= None => IsOfSub(data)
    PROVE  ShownMoves
<1>1. CASE data = None \/ (MergesDashData /\ annotations = None)
  BY <1>1 DEF Emit, ShownMoves, IsOf, shownVars
<1>2. CASE ~(data = None \/ (MergesDashData /\ annotations = None))
  <2>1. /\ lastResult' \in Results
        /\ lastResult'.request = data.request
        /\ ~destroyed => subject' = lastResult'
        /\ viewing => view' = lastResult' \/ view' = view
    BY <1>2, EmitShows
  <2>2. /\ destroyed => subject' = subject /\ view' = view
        /\ ~viewing => view' = view
    BY <1>2 DEF Emit, Send
  <2>3. IsOfSub(lastResult')
    BY <1>2, <2>1, NoneAssumption DEF IsOfSub
  <2>4. viewing => ~destroyed
    BY DEF Inv, ViewOK
  <2> QED BY <2>1, <2>2, <2>3, <2>4 DEF ShownMoves, IsOf
<1> QED BY <1>1, <1>2

(* Every step keeps the order and does not go back.                       *)
BackStep == BackInv' /\ Precedes(view, view')

LEMMA BackNext == ASSUME Inv, ShownInv, BackInv, [Next]_vars PROVE BackStep
<1> USE RunsAreNumbers DEF panelVars, shownVars, dashVars
<1>0. /\ TypeOK /\ FreshOK /\ QueryIsOwned /\ TimerOK /\ ViewOK /\ RawOfSub
      /\ InOrder /\ SubBegan /\ BackOK
  BY DEF Inv, ShownInv, BackInv
<1>a. Runs \subseteq Int
  BY RunsAssumption DEF Runs
<1>b. \A n \in Runs : Unsubscribed[n] = pc[n] \/ (pc[n] = "query" /\ Unsubscribed[n] = "over")
  BY <1>0 DEF Unsubscribed, TypeOK, QueryIsOwned
<1>c. UNCHANGED shownVars => ShownMoves /\ Precedes(view, view')
  BY <1>0, SameRun DEF ShownMoves, IsOf, BackOK
<1>1. ASSUME NEW s \in Sources, NEW alone \in BOOLEAN, Refresh(s, alone) PROVE BackStep
  <2>1. /\ runs + 1 \in Runs
        /\ pc' = [pc EXCEPT ![runs + 1] = "datasource"]
        /\ source' = [source EXCEPT ![runs + 1] = s]
        /\ UNCHANGED <<sub, shownVars>>
    BY <1>0, <1>1, RunsAssumption DEF Refresh, TypeOK, Runs, RunsOrNone
  <2>2. \A n \in Runs : n >= runs + 1 => pc[n] = "none"
    BY <1>0, <1>a DEF FreshOK, TypeOK, RunsOrNone
  <2>3. InOrder'
    BY <1>0, <1>a, <2>1, <2>2 DEF InOrder, TypeOK
  <2>4. \A n \in Runs : pc[n] /= "none" => source'[n] = source[n] /\ pc'[n] = pc[n]
    BY <1>0, <1>a, <2>1, <2>2 DEF TypeOK
  <2>5. SubBegan'
    BY <1>0, <2>1, <2>4 DEF SubBegan
  <2>6. \A x : Began(x) /\ x /= None =>
            /\ x.request \in Runs /\ pc'[x.request] \notin {"none", "datasource"}
            /\ source'[x.request] = source[x.request]
    BY <2>4 DEF Began
  <2>7. sub \in Runs => source'[sub] = source[sub]
    BY <1>0, <2>4 DEF SubBegan
  <2>8. BackOK'
    BY <1>0, <2>1, <2>6, <2>7 DEF BackOK, Began, Follows, Precedes, NotBack
  <2> QED BY <1>c, <2>1, <2>3, <2>5, <2>8 DEF BackStep, BackInv
<1>d. \A n \in Runs : pc[n] \notin {"none", "datasource"} => pc'[n] \notin {"none", "datasource"}
  BY ProgressIsKept
<1>e. sub' = sub => SubBegan'
  BY <1>0, <1>d DEF SubBegan
<1>f. ASSUME ShownMoves, UNCHANGED <<source, sub>>,
             \A n \in Runs : pc'[n] = pc[n] \/ (pc[n] = "query" /\ pc'[n] = "over")
      PROVE  BackStep
  <2>1. InOrder'
    BY <1>0, <1>f, OrderKept
  <2>2. BackOK'
    BY <1>0, <1>f, MovesKeepOrder
  <2>3. Precedes(view, view')
    BY <1>0, <1>f, MovesAreNotBack
  <2> QED BY <1>e, <1>f, <2>1, <2>2, <2>3 DEF BackStep, BackInv
<1>2. ASSUME NEW n \in Runs, DataSourceReady(n) PROVE BackStep
  <2>1. /\ IsNext(n)
        /\ pc' = [Unsubscribed EXCEPT ![n] = "query"]
        /\ sub' = n
        /\ UNCHANGED <<source, shownVars>>
    BY <1>2 DEF DataSourceReady
  <2>2. \A m \in Runs : \/ pc'[m] = pc[m]
                        \/ pc[m] = "query" /\ pc'[m] = "over"
                        \/ IsNext(m) /\ pc'[m] \in {"query", "over"}
    BY <1>0, <1>b, <2>1, UnsubscribedEndsQuery
  <2>3. InOrder'
    BY <1>0, <2>1, <2>2, OrderKept
  <2>4. SubBegan'
    BY <1>0, <2>1, UnsubscribedEndsQuery DEF SubBegan
  <2>5. \A x : Began(x) /\ x /= None =>
            /\ x.request \in Runs /\ pc'[x.request] \notin {"none", "datasource"}
            /\ NotBack(x.request, n)
    BY <1>0, <1>d, <2>1 DEF Began, NotBack, InOrder, IsNext
  <2>6. BackOK'
    BY <1>0, <2>1, <2>5 DEF BackOK, Began, Follows, Precedes, NotBack
  <2> QED BY <1>c, <2>1, <2>3, <2>4, <2>6 DEF BackStep, BackInv
<1>3. ASSUME NEW n \in Runs, DataSourceFailed(n) PROVE BackStep
  <2>1. /\ IsNext(n)
        /\ \A m \in Runs : pc'[m] = pc[m] \/ (m = n /\ pc'[m] = "over")
        /\ UNCHANGED <<source, sub, shownVars>>
    BY <1>0, <1>3 DEF DataSourceFailed, TypeOK
  <2>2. InOrder'
    BY <1>0, <2>1, OrderKept
  <2>3. BackOK'
    BY <1>0, <1>c, <2>1, MovesKeepOrder
  <2> QED BY <1>c, <1>e, <2>1, <2>2, <2>3 DEF BackStep, BackInv
<1>4. ASSUME NEW n \in Runs, LoadingTimer(n) \/ QueryError(n) PROVE BackStep
  <2>1. pc[n] \in {"query", "over"}
    BY <1>0, <1>4 DEF LoadingTimer, QueryError, TimerOK, SaidNothing
  <2>2. n = sub
    BY <1>0, <1>4 DEF LoadingTimer, QueryError, TimerOK, QueryIsOwned
  <2>3. PICK state \in LoadingStates, keys \in SUBSET Keys : raw' = PanelData(n, state, keys)
    <3>1. CASE LoadingTimer(n)
      BY <3>1 DEF LoadingTimer, LoadingStates
    <3>2. CASE QueryError(n)
      BY <1>0, <3>2 DEF QueryError, LoadingStates, TypeOK
    <3> QED BY <1>4, <3>1, <3>2
  <2>4. raw' \in Results /\ IsOfSub(raw')
    BY <2>1, <2>2, <2>3, PanelDataIsResult, PanelDataIsOfRun DEF IsOfSub
  <2>5. Emit(raw', results)
    BY <1>4 DEF LoadingTimer, QueryError
  <2>6. ShownMoves
    BY <1>0, <2>4, <2>5, EmitMoves DEF TypeOK
  <2>7. /\ UNCHANGED <<source, sub>>
        /\ \A m \in Runs : pc'[m] = pc[m] \/ (pc[m] = "query" /\ pc'[m] = "over")
    BY <1>0, <1>4, <2>1 DEF LoadingTimer, QueryError, TypeOK
  <2> QED BY <1>f, <2>6, <2>7
<1>14. ASSUME NEW n \in Runs, QueryCompletes(n) PROVE BackStep
  <2>1. /\ UNCHANGED <<source, sub, shownVars>>
        /\ \A m \in Runs : pc'[m] = pc[m] \/ (pc[m] = "query" /\ pc'[m] = "over")
    BY <1>0, <1>14 DEF QueryCompletes, TypeOK
  <2> QED BY <1>c, <1>f, <2>1
<1>5. ASSUME NEW n \in Runs, NEW k \in Keys, NEW isError \in BOOLEAN, NEW partial \in BOOLEAN,
             Response(n, k, isError, partial)
      PROVE  BackStep
  <2>1. pc[n] = "query" /\ n = sub
    BY <1>0, <1>5 DEF Response, QueryIsOwned
  <2>2. PICK state \in LoadingStates : raw' = PanelData(n, state, packets'[n])
    BY <1>5 DEF Response, LoadingStates
  <2>3. packets'[n] \in SUBSET Keys
    BY <1>0, <1>5 DEF Response, TypeOK
  <2>4. raw' \in Results /\ IsOfSub(raw')
    BY <2>1, <2>2, <2>3, PanelDataIsResult, PanelDataIsOfRun DEF IsOfSub
  <2>5. Emit(raw', results)
    BY <1>5 DEF Response
  <2>6. ShownMoves
    BY <1>0, <2>4, <2>5, EmitMoves DEF TypeOK
  <2>7. /\ UNCHANGED <<source, sub>>
        /\ \A m \in Runs : pc'[m] = pc[m] \/ (pc[m] = "query" /\ pc'[m] = "over")
    BY <1>0, <1>5, <2>1 DEF Response, TypeOK
  <2> QED BY <1>f, <2>6, <2>7
<1>6. ASSUME NEW run \in RunsOrNone, PublishDashData(run) PROVE BackStep
  <2>1. open => raw \in Results \cup {None} /\ (raw /= None => IsOfSub(raw))
    BY <1>0 DEF TypeOK, RawOfSub, IsOfSub
  <2>2. ShownMoves
    BY <1>6, <1>c, <2>1, EmitMoves DEF PublishDashData
  <2> QED BY <1>6, <1>f, <2>2 DEF PublishDashData
<1>7. ASSUME NEW n \in Runs, DashResult(n) \/ DashTimer(n) PROVE BackStep
  BY <1>6, <1>7 DEF DashResult, DashTimer
<1>8. CASE CancelQuery
  <2>1. ShownMoves
    <3>1. CASE lastResult /= None /\ lastResult.state = "Loading"
      <4> DEFINE data == [lastResult EXCEPT !.state = "Done"]
      <4>1. data \in Results /\ data.request = lastResult.request
        BY <1>0, <3>1 DEF TypeOK, Results, LoadingStates
      <4> HIDE DEF data
      <4>2. IsOf(data, lastResult)
        BY <3>1, <4>1 DEF IsOf
      <4>3. ~destroyed /\ Send(data) /\ UNCHANGED lastResult
        BY <1>8, <3>1 DEF CancelQuery, data
      <4> QED BY <4>2, <4>3 DEF Send, OnDataUpdate, ShownMoves
    <3>2. CASE ~(lastResult /= None /\ lastResult.state = "Loading")
      BY <1>8, <1>c, <3>2 DEF CancelQuery
    <3> QED BY <3>1, <3>2
  <2> QED BY <1>8, <1>b, <1>f, <2>1 DEF CancelQuery
<1>9. CASE ResendLastResult
  <2>1. IsOf(lastResult, lastResult)
    BY DEF IsOf
  <2>2. ~destroyed /\ Send(lastResult) /\ UNCHANGED <<panelVars, lastResult>>
    BY <1>9 DEF ResendLastResult
  <2>3. ShownMoves
    BY <2>1, <2>2 DEF Send, OnDataUpdate, ShownMoves
  <2> QED BY <1>f, <2>2, <2>3
<1>10. CASE ClearLastResult \/ Remount
  <2>1. ShownMoves
    BY <1>10 DEF ClearLastResult, Remount, ShownMoves, IsOf
  <2> QED BY <1>f, <1>10, <2>1 DEF ClearLastResult, Remount
<1>11. CASE Destroy
  BY <1>11, <1>b, <1>c, <1>f DEF Destroy
<1>12. CASE UNCHANGED vars
  BY <1>12, <1>c, <1>f DEF vars
<1> HIDE RunsAreNumbers DEF panelVars, shownVars, dashVars
<1>13. CASE Next
  BY <1>1, <1>2, <1>3, <1>4, <1>5, <1>7, <1>8, <1>9, <1>10, <1>11, <1>13,
     <1>14, Zenon DEF Next
<1> QED BY <1>12, <1>13

(* A panel never goes back to an earlier run that was started with the     *)
(* same data source, whatever is late, cancelled or sent again.            *)
THEOREM RunsDoNotGoBack == Spec => NeverGoesBack
<1> DEFINE Back == view /= None /\ view' /= None /\ view'.request < view.request
                   => source[view'.request] /= source[view.request]
<1>1. Init => BackInv
  BY DEF Init, BackInv, InOrder, SubBegan, BackOK, Began, Follows, Precedes, Runs, NoRun
<1>2. Inv /\ ShownInv /\ BackInv /\ [Next]_vars => BackInv'
  BY BackNext DEF BackStep
<1>3. Inv /\ ShownInv /\ BackInv /\ [Next]_vars => [Back]_vars
  BY BackNext DEF BackStep, Precedes, NotBack
<1>4. Inv /\ ShownInv /\ [Next]_vars => ShownInv'
  BY ShownNext
<1> QED BY <1>1, <1>2, <1>3, <1>4, InitShown, InvHolds, PTL DEF Spec, NeverGoesBack
=============================================================================
