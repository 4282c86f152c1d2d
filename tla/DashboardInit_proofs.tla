------------------------ MODULE DashboardInit_proofs ------------------------
(***************************************************************************)
(* Proofs about DashboardInit, for any dashboards, variables, dependencies *)
(* and number of visits.                                                   *)
(*                                                                         *)
(* That the dashboard in the store has its variables is not inductive: a   *)
(* visit marks it as completed without looking at the variables, and what  *)
(* it relies on is that nobody touched them since it fetched its           *)
(* dashboard.  Those who can are the visits that share them: what is left  *)
(* of a visit, and the one whose model is in the store.                    *)
(***************************************************************************)
EXTENDS DashboardInit, TLAPS

(* A visit that still acts on its variables, or whose closing undoes them. *)
Live(n) == pc[n] = "variables" \/ (model = n /\ n \notin missing)

(* A visit that has begun has a dashboard; one that has not is nowhere. *)
VisitsOK == \A n \in Visits : /\ pc[n] /= "none" \/ model = n => uid[n] \in Dashboards
                              /\ n > visits => pc[n] = "none" /\ model /= n

(* Only a visit that awaits its variables processes any. *)
JobsOK == \A n \in Visits : \A v \in Variables :
              job[n][v] \in {"waits", "free", "queries"} => pc[n] = "variables"

(* The visit that shows its dashboard has completed. *)
ModelOK == model \in Visits => pc[model] = "over"

(* Two live visits of one dashboard share its variables. *)
SharedOK == \A m, n \in Visits : m /= n /\ uid[m] = uid[n] /\ Live(m) /\ Live(n) => uid[m] \in mixed

(* As long as the variables are still those of its dashboard, a visit that *)
(* shares them with nobody finds them as it left them.  A dashboard 'Not   *)
(* found' has none to find.                                                *)
IsAlone(n) == pc[n] = "variables" /\ n \notin missing /\ uid[n] = lastKey /\ uid[n] \notin mixed

IsReady(n) == /\ transaction[uid[n]] = "Fetching"
              /\ \A v \in Variables :
                     /\ job[n][v] /= "none"
                     /\ variables[uid[n]][v] /= "Absent"
                     /\ job[n][v] = "over" => variables[uid[n]][v] \in {"Done", "Error"}

AwaitedOK == \A n \in Visits : IsAlone(n) => IsReady(n)

Inv == /\ TypeOK /\ OneTransaction
       /\ VisitsOK /\ JobsOK /\ ModelOK /\ SharedOK /\ AwaitedOK
       /\ DashboardHasVariables
-----------------------------------------------------------------------------
Steps == {"none", "fetching", "cancelled", "variables", "over"}
Jobs == {"none", "waits", "free", "queries", "over"}

(* Resolve only lets jobs go that wait. *)
LEMMA ResolveOnlyFrees ==
    ASSUME NEW jobs \in [Visits -> [Variables -> Jobs]], NEW states
    PROVE  /\ Resolve(jobs, states) \in [Visits -> [Variables -> Jobs]]
           /\ \A n \in Visits : \A v \in Variables :
                  \/ Resolve(jobs, states)[n][v] = jobs[n][v]
                  \/ Resolve(jobs, states)[n][v] = "free" /\ jobs[n][v] = "waits"
<1> DEFINE R == Resolve(jobs, states)
<1>1. ASSUME NEW n \in Visits, NEW v \in Variables
      PROVE  /\ R[n][v] = jobs[n][v] \/ (R[n][v] = "free" /\ jobs[n][v] = "waits")
             /\ R[n][v] \in Jobs
  BY DEF Resolve, Jobs
<1>2. R = [n \in Visits |-> [v \in Variables |-> R[n][v]]]
  BY DEF Resolve
<1> HIDE DEF R
<1>3. R \in [Visits -> [Variables -> Jobs]]
  BY <1>1, <1>2
<1> QED BY <1>1, <1>3 DEF R

(* The variables of a dashboard that was removed are typed. *)
LEMMA AbsentIsTyped == Absent \in [Variables -> VariableStates]
BY DEF Absent, VariableStates

(* Nothing has happened at the beginning. *)
LEMMA InitInv == Init => Inv
<1> SUFFICES ASSUME Init PROVE Inv
  OBVIOUS
<1>1. TypeOK
  <2>1. variables \in [Dashboards -> [Variables -> VariableStates]]
    BY AbsentIsTyped DEF Init
  <2>2. visits \in 0..MaxVisits
    BY VisitsAssumption DEF Init
  <2> QED BY <2>1, <2>2 DEF Init, TypeOK, Phases, Statuses
<1> QED BY <1>1, NoneAssumption
        DEF Init, Inv, OneTransaction, VisitsOK, JobsOK, ModelOK, SharedOK, AwaitedOK, IsAlone,
            DashboardHasVariables, Live, Visits, Nobody
-----------------------------------------------------------------------------
(* What is left of the visits after an event that cancels: typed, and with *)
(* no step of a promise but that a fetch or a wait has ended.              *)
Leaves(left) ==
    /\ left.variables \in [Dashboards -> [Variables -> VariableStates]]
    /\ left.transaction \in [Dashboards -> Statuses]
    /\ left.job \in [Visits -> [Variables -> Jobs]]
    /\ left.pc \in [Visits -> Steps]
    /\ \A n \in Visits : left.pc[n] = pc[n] \/ (left.pc[n] \in {"cancelled", "over"} /\ pc[n] = "fetching")
    /\ \A n \in Visits : \A v \in Variables :
           \/ left.job[n][v] = job[n][v]
           \/ left.job[n][v] = "free" /\ job[n][v] = "waits"

LEMMA KeptLeaves == ASSUME TypeOK PROVE Leaves(Kept)
BY DEF TypeOK, Kept, Leaves, Jobs, Steps

LEMMA AbortedLeaves ==
    ASSUME TypeOK
    PROVE  /\ Aborted \in [Visits -> Steps]
           /\ \A n \in Visits : \/ Aborted[n] = pc[n]
                                \/ Aborted[n] \in {"cancelled", "over"} /\ pc[n] = "fetching"
BY DEF TypeOK, Steps, Aborted

LEMMA CancelLeaves == ASSUME TypeOK, NEW u \in Dashboards PROVE Leaves(Cancel(u))
<1>1. Cancel(u).variables \in [Dashboards -> [Variables -> VariableStates]]
  BY AbsentIsTyped DEF TypeOK, Cancel
<1>2. Cancel(u).transaction \in [Dashboards -> Statuses]
  BY DEF TypeOK, Statuses, Cancel
<1>3. Cancel(u).pc = Aborted
  BY DEF Cancel
<1>4. Cancel(u).job = Resolve(job, [variables EXCEPT ![u] = Absent])
  BY DEF Cancel
<1>5. job \in [Visits -> [Variables -> Jobs]]
  BY DEF TypeOK, Jobs
<1> QED BY <1>1, <1>2, <1>3, <1>4, <1>5, AbortedLeaves, ResolveOnlyFrees DEF Leaves

(* It leaves the other keys alone. *)
LEMMA CancelLeavesOthers ==
    ASSUME TypeOK, NEW u \in Dashboards, NEW w \in Dashboards
    PROVE  /\ w = u => Cancel(u).transaction[w] = "NotStarted"
           /\ w /= u => /\ Cancel(u).variables[w] = variables[w]
                        /\ Cancel(u).transaction[w] = transaction[w]
BY DEF TypeOK, Cancel

(* Closing touches only the dashboard whose model is in the store. *)
LEMMA ClosedLeaves ==
    ASSUME Inv
    PROVE  /\ Leaves(Closed)
           /\ \A u \in Dashboards :
                  \/ /\ model \in Visits \ missing /\ uid[model] = u
                     /\ Closed.transaction[u] = "NotStarted"
                  \/ /\ Closed.variables[u] = variables[u]
                     /\ Closed.transaction[u] = transaction[u]
<1> USE DEF Inv
<1>1. CASE model \in Visits \ missing
  <2>1. uid[model] \in Dashboards /\ model /= Nobody
    BY <1>1 DEF VisitsOK, Visits, Nobody
  <2>2. Closed = Cancel(uid[model])
    BY <1>1, <2>1 DEF Closed
  <2> QED BY <1>1, <2>1, <2>2, CancelLeaves, CancelLeavesOthers
<1>2. CASE model \notin Visits \ missing /\ model /= Nobody
  <2>1. /\ Closed.variables = variables /\ Closed.transaction = transaction
        /\ Closed.job = job /\ Closed.pc = Aborted
    BY <1>2 DEF Closed, Kept
  <2>2. Leaves(Closed)
    BY <2>1, AbortedLeaves DEF Leaves, TypeOK, Jobs
  <2> QED BY <2>1, <2>2
<1>3. CASE model \notin Visits \ missing /\ model = Nobody
  BY <1>3, KeptLeaves DEF Closed, Kept
<1> QED BY <1>1, <1>2, <1>3

(* A visit that supersedes the last one leaves no transaction underway, *)
(* and touches no other variables than those it cancels.                *)
LEMMA SupersededLeaves ==
    ASSUME Inv
    PROVE  /\ Leaves(Superseded)
           /\ \A u \in Dashboards :
                  /\ Superseded.transaction[u] /= "Fetching"
                  /\ \/ lastKey = u /\ transaction[u] = "Fetching"
                     \/ /\ Superseded.variables[u] = variables[u]
                        /\ Superseded.transaction[u] = transaction[u]
<1> USE DEF Inv
<1>1. CASE lastKey /= None /\ transaction[lastKey] = "Fetching"
  <2>1. lastKey \in Dashboards
    BY <1>1 DEF TypeOK
  <2>2. Superseded = Cancel(lastKey)
    BY <1>1 DEF Superseded
  <2> QED BY <1>1, <2>1, <2>2, CancelLeaves, CancelLeavesOthers DEF OneTransaction
<1>2. CASE ~(lastKey /= None /\ transaction[lastKey] = "Fetching")
  BY <1>2, KeptLeaves, NoneAssumption DEF Superseded, Kept, OneTransaction
<1> QED BY <1>1, <1>2
-----------------------------------------------------------------------------
(* Every event and every promise keeps the invariant. *)

(* Opening closes the dashboard in the store and begins a visit. *)
LEMMA OpenInv == ASSUME Inv, NEW u \in Dashboards, Open(u) PROVE Inv'
<1> DEFINE n == visits + 1
<1>1. /\ n \in Visits /\ visits' = n /\ visits' \in 0..MaxVisits
      /\ pc[n] = "none" /\ model /= n
  <2>1. n \in Visits /\ n \in 0..MaxVisits /\ n > visits
    BY VisitsAssumption DEF Inv, TypeOK, Visits, Open
  <2> QED BY <2>1 DEF Inv, VisitsOK, Open
<1>2. /\ uid' = [uid EXCEPT ![n] = u] /\ pc' = [Closed.pc EXCEPT ![n] = "fetching"]
      /\ variables' = Closed.variables /\ transaction' = Closed.transaction /\ job' = Closed.job
      /\ phase' = "Fetching" /\ model' = Nobody /\ page' = TRUE
      /\ UNCHANGED <<missing, lastKey, runner, mixed>>
  BY DEF Open
<1> HIDE DEF n
<1>3. Leaves(Closed) /\ Closed.pc[n] = "none"
  BY <1>1, ClosedLeaves DEF Leaves
<1>4. TypeOK'
  BY <1>1, <1>2, <1>3 DEF Inv, TypeOK, Leaves, Jobs, Steps, Phases
<1>5. OneTransaction'
  BY <1>2, ClosedLeaves DEF Inv, OneTransaction
<1>6. VisitsOK'
  <2>1. \A m \in Visits : m /= n => uid'[m] = uid[m] /\ pc'[m] = Closed.pc[m]
    BY <1>1, <1>2, <1>3 DEF Inv, TypeOK, Leaves
  <2>2. uid'[n] = u /\ pc'[n] = "fetching"
    BY <1>1, <1>2, <1>3 DEF Inv, TypeOK, Leaves
  <2>3. \A m \in Visits : m > visits' => m > visits /\ m /= n
    BY <1>1 DEF Inv, TypeOK, Visits, n
  <2> QED BY <1>1, <1>2, <1>3, <2>1, <2>2, <2>3 DEF Inv, VisitsOK, Leaves, Visits, Nobody
<1>7. \A m \in Visits : pc'[m] = "variables" => pc[m] = "variables" /\ m /= n
  BY <1>1, <1>2, <1>3 DEF Inv, TypeOK, Leaves
<1>8. \A m \in Visits : m /= n => uid'[m] = uid[m]
  BY <1>1, <1>2 DEF Inv, TypeOK
<1>9. JobsOK'
  <2>1. \A m \in Visits : pc[m] = "variables" => pc'[m] = "variables"
    BY <1>1, <1>2, <1>3 DEF Inv, TypeOK, Leaves
  <2> QED BY <1>2, <1>3, <2>1 DEF Inv, JobsOK, Leaves
<1>10. ModelOK' /\ DashboardHasVariables'
  BY <1>2 DEF ModelOK, DashboardHasVariables, Visits, Nobody
<1>11. SharedOK'
  BY <1>2, <1>7, <1>8 DEF Inv, SharedOK, Live, Visits, Nobody
<1>12. AwaitedOK'
  <2> SUFFICES ASSUME NEW m \in Visits, IsAlone(m)' PROVE IsReady(m)'
    BY DEF AwaitedOK
  <2>1. IsAlone(m) /\ uid'[m] = uid[m]
    BY <1>2, <1>7, <1>8 DEF IsAlone
  <2>2. uid[m] \in Dashboards /\ (model \in Visits \ missing => uid[model] /= uid[m])
    BY <2>1 DEF Inv, VisitsOK, ModelOK, SharedOK, Live, IsAlone
  <2>3. variables'[uid[m]] = variables[uid[m]] /\ transaction'[uid[m]] = transaction[uid[m]]
    BY <1>2, <2>2, ClosedLeaves
  <2>4. \A v \in Variables : \/ job'[m][v] = job[m][v]
                             \/ job'[m][v] = "free" /\ job[m][v] = "waits"
    BY <1>2, <1>3 DEF Leaves
  <2>5. IsReady(m)
    BY <2>1 DEF Inv, AwaitedOK
  <2> QED BY <2>1, <2>3, <2>4, <2>5 DEF IsReady
<1> QED BY <1>4, <1>5, <1>6, <1>9, <1>10, <1>11, <1>12 DEF Inv

(* Leaving closes it too. *)
LEMMA LeaveInv == ASSUME Inv, Leave PROVE Inv'
<1>1. /\ pc' = Closed.pc /\ variables' = Closed.variables /\ transaction' = Closed.transaction
      /\ job' = Closed.job /\ phase' = "NotStarted" /\ model' = Nobody /\ page' = FALSE
      /\ UNCHANGED <<visits, uid, missing, lastKey, runner, mixed>>
  BY DEF Leave
<1>2. Leaves(Closed)
  BY ClosedLeaves
<1>3. TypeOK'
  BY <1>1, <1>2 DEF Inv, TypeOK, Leaves, Jobs, Steps, Phases
<1>4. OneTransaction'
  BY <1>1, ClosedLeaves DEF Inv, OneTransaction
<1>5. VisitsOK'
  BY <1>1, <1>2 DEF Inv, VisitsOK, Leaves, Visits, Nobody
<1>6. \A m \in Visits : pc'[m] = "variables" <=> pc[m] = "variables"
  BY <1>1, <1>2 DEF Leaves
<1>7. JobsOK'
  BY <1>1, <1>2, <1>6 DEF Inv, JobsOK, Leaves
<1>8. ModelOK' /\ DashboardHasVariables'
  BY <1>1 DEF ModelOK, DashboardHasVariables, Visits, Nobody
<1>9. SharedOK'
  BY <1>1, <1>6 DEF Inv, SharedOK, Live, Visits, Nobody
<1>10. AwaitedOK'
  <2> SUFFICES ASSUME NEW m \in Visits, IsAlone(m)' PROVE IsReady(m)'
    BY DEF AwaitedOK
  <2>1. IsAlone(m)
    BY <1>1, <1>6 DEF IsAlone
  <2>2. uid[m] \in Dashboards /\ (model \in Visits \ missing => uid[model] /= uid[m])
    BY <2>1 DEF Inv, VisitsOK, ModelOK, SharedOK, Live, IsAlone
  <2>3. variables'[uid[m]] = variables[uid[m]] /\ transaction'[uid[m]] = transaction[uid[m]]
    BY <1>1, <2>2, ClosedLeaves
  <2>4. \A v \in Variables : \/ job'[m][v] = job[m][v]
                             \/ job'[m][v] = "free" /\ job[m][v] = "waits"
    BY <1>1, <1>2 DEF Leaves
  <2>5. IsReady(m) /\ uid'[m] = uid[m]
    BY <1>1, <2>1 DEF Inv, AwaitedOK
  <2> QED BY <2>3, <2>4, <2>5 DEF IsReady
<1> QED BY <1>3, <1>4, <1>5, <1>7, <1>8, <1>9, <1>10 DEF Inv

(* A failed visit leaves the variables alone. *)
LEMMA InitFailsInv == ASSUME Inv, NEW n \in Visits, InitFails(n) PROVE Inv'
<1>1. /\ pc[n] = "fetching" /\ pc' = [pc EXCEPT ![n] = "over"] /\ phase' = "Failed"
      /\ model' = Stub
      /\ UNCHANGED <<visits, uid, missing, page, lastKey, transaction, variables, job, runner, mixed>>
  BY DEF InitFails
<1>2. TypeOK' /\ OneTransaction'
  BY <1>1 DEF Inv, TypeOK, OneTransaction, Phases
<1>3. Stub \notin Visits
  BY VisitsAssumption DEF Stub, Visits
<1>4. VisitsOK'
  BY <1>1, <1>3 DEF Inv, TypeOK, VisitsOK
<1>5. \A m \in Visits : pc'[m] = "variables" <=> pc[m] = "variables"
  BY <1>1 DEF Inv, TypeOK
<1>6. JobsOK' /\ ModelOK' /\ DashboardHasVariables'
  BY <1>1, <1>3, <1>5 DEF Inv, JobsOK, ModelOK, DashboardHasVariables
<1>7. SharedOK'
  BY <1>1, <1>3, <1>5 DEF Inv, SharedOK, Live
<1>8. AwaitedOK'
  BY <1>1, <1>5 DEF Inv, AwaitedOK, IsAlone, IsReady
<1> QED BY <1>2, <1>4, <1>6, <1>7, <1>8 DEF Inv

(* A dashboard that is there begins its variables, under a key nothing     *)
(* else is underway for; if a live visit has that key they are shared.     *)
LEMMA GoOnInv ==
    ASSUME Inv, NEW n \in Visits, NEW found \in BOOLEAN, pc[n] \in {"fetching", "cancelled"},
           GoOn(n, found)
    PROVE  Inv'
<1> DEFINE u == uid[n]
           before == Superseded
           mine == {v \in Variables : found \/ before.variables[u][v] /= "Absent"}
           own == [v \in Variables |-> IF v \in mine THEN "waits" ELSE "over"]
           begun == [v \in Variables |-> IF v \in mine THEN "NotStarted" ELSE "Absent"]
           jobs == [before.job EXCEPT ![n] = own]
<1>1. /\ phase' = "Services" /\ lastKey' = u
      /\ missing' = IF found THEN missing ELSE missing \cup {n}
      /\ pc' = [before.pc EXCEPT ![n] = "variables"]
      /\ transaction' = [before.transaction EXCEPT ![u] = "Fetching"]
      /\ variables' = [before.variables EXCEPT ![u] = begun]
      /\ job' = Resolve(jobs, variables')
      /\ mixed' = IF IsShared(n) THEN mixed \cup {u} ELSE mixed
      /\ UNCHANGED <<visits, uid, page, model, runner>>
  BY DEF GoOn
<1>2. u \in Dashboards /\ n <= visits
  BY <1>1 DEF Inv, TypeOK, VisitsOK, Visits
<1>3. Leaves(before)
  BY SupersededLeaves
<1>4. /\ own \in [Variables -> Jobs]
      /\ begun \in [Variables -> VariableStates]
      /\ found => \A v \in Variables : own[v] = "waits" /\ begun[v] = "NotStarted"
  BY DEF Jobs, VariableStates
<1>5. \A w \in Dashboards :
          /\ before.transaction[w] /= "Fetching"
          /\ \/ lastKey = w /\ transaction[w] = "Fetching"
             \/ before.variables[w] = variables[w] /\ before.transaction[w] = transaction[w]
  BY SupersededLeaves
<1> HIDE DEF before, own, begun
<1>6. /\ jobs \in [Visits -> [Variables -> Jobs]]
      /\ jobs[n] = own
      /\ \A m \in Visits : m /= n => jobs[m] = before.job[m]
  BY <1>3, <1>4 DEF Leaves
<1> HIDE DEF jobs
<1>7. /\ job' \in [Visits -> [Variables -> Jobs]]
      /\ \A m \in Visits : \A v \in Variables :
             \/ job'[m][v] = jobs[m][v]
             \/ job'[m][v] = "free" /\ jobs[m][v] = "waits"
  BY <1>1, <1>6, ResolveOnlyFrees
<1>8. /\ variables' \in [Dashboards -> [Variables -> VariableStates]]
      /\ variables'[u] = begun
      /\ \A w \in Dashboards : w /= u => variables'[w] = before.variables[w]
  BY <1>1, <1>2, <1>3, <1>4 DEF Leaves
<1>9. /\ transaction' \in [Dashboards -> Statuses]
      /\ transaction'[u] = "Fetching"
      /\ \A w \in Dashboards : w /= u => transaction'[w] = before.transaction[w]
  BY <1>1, <1>2, <1>3 DEF Leaves, Statuses
<1>10. /\ pc' \in [Visits -> Steps]
       /\ pc'[n] = "variables"
       /\ \A m \in Visits :
              m /= n => pc'[m] = pc[m] \/ (pc'[m] \in {"cancelled", "over"} /\ pc[m] = "fetching")
  <2> DEFINE left == before.pc
  <2>1. pc' = [left EXCEPT ![n] = "variables"]
    BY <1>1
  <2>2. /\ left \in [Visits -> Steps]
        /\ \A m \in Visits :
               left[m] = pc[m] \/ (left[m] \in {"cancelled", "over"} /\ pc[m] = "fetching")
    BY <1>3 DEF Leaves
  <2> HIDE DEF left
  <2>3. pc' \in [Visits -> Steps] /\ pc'[n] = "variables"
    BY <2>1, <2>2 DEF Steps
  <2>4. \A m \in Visits : m /= n => pc'[m] = left[m]
    BY <2>1, <2>2
  <2> QED BY <2>2, <2>3, <2>4
<1>11. TypeOK'
  <2>1. mixed' \subseteq Dashboards /\ missing' \subseteq Visits
    BY <1>1, <1>2 DEF Inv, TypeOK
  <2> QED BY <2>1, <1>1, <1>2, <1>7, <1>8, <1>10, <1>9 DEF Inv, TypeOK, Jobs, Steps, Phases
<1>12. OneTransaction'
  BY <1>1, <1>5, <1>9 DEF OneTransaction
<1>13. VisitsOK'
  BY <1>1, <1>2, <1>10 DEF Inv, VisitsOK, Visits
<1>14. model /= n
  BY DEF Inv, ModelOK
<1>15. JobsOK' /\ ModelOK'
  <2>1. \A m \in Visits : \A v \in Variables :
            m /= n => \/ jobs[m][v] = job[m][v]
                      \/ jobs[m][v] = "free" /\ job[m][v] = "waits"
    BY <1>3, <1>6 DEF Leaves
  <2>2. JobsOK'
    BY <1>7, <1>10, <2>1 DEF Inv, JobsOK
  <2>3. ModelOK'
    BY <1>1, <1>10, <1>14 DEF Inv, ModelOK
  <2> QED BY <2>2, <2>3
<1>16. mixed \subseteq mixed' /\ \A m \in Visits : m /= n /\ uid[m] = u /\ Live(m) => u \in mixed'
  BY <1>1 DEF IsShared, Live
<1>17. \A m \in Visits : m /= n => (pc'[m] = "variables" <=> pc[m] = "variables")
  BY <1>10
<1>18. \A m \in Visits : m /= n => (m \in missing' <=> m \in missing)
  BY <1>1
<1>19. \A m \in Visits : m /= n => (Live(m)' <=> Live(m))
  BY <1>1, <1>17, <1>18 DEF Live
<1>20. SharedOK'
  BY <1>1, <1>16, <1>19 DEF Inv, SharedOK
<1>21. AwaitedOK'
  <2> SUFFICES ASSUME NEW m \in Visits, IsAlone(m)' PROVE IsReady(m)'
    BY DEF AwaitedOK
  <2>1. m = n
    BY <1>1, <1>16, <1>17 DEF IsAlone, Live
  <2>2. found
    BY <1>1, <2>1 DEF IsAlone
  <2>3. \A v \in Variables : jobs[n][v] = "waits" /\ variables'[u][v] = "NotStarted"
    BY <1>4, <1>6, <1>8, <2>2
  <2>4. \A v \in Variables : job'[n][v] \in {"waits", "free"}
    BY <1>7, <2>3
  <2> QED BY <1>1, <1>9, <2>1, <2>3, <2>4 DEF IsReady
<1>22. DashboardHasVariables'
  <2> SUFFICES ASSUME model \in Visits \ missing', uid[model] \notin mixed'
               PROVE  /\ transaction'[uid[model]] = "Completed"
                      /\ \A v \in Variables : variables'[uid[model]][v] \in {"Done", "Error"}
    BY <1>1 DEF DashboardHasVariables
  <2>1. uid[model] /= u /\ uid[model] \notin mixed /\ uid[model] \in Dashboards
    BY <1>14, <1>16, <1>18 DEF Live, Inv, VisitsOK
  <2>2. /\ transaction[uid[model]] = "Completed"
        /\ \A v \in Variables : variables[uid[model]][v] \in {"Done", "Error"}
    BY <1>14, <1>18, <2>1 DEF Inv, DashboardHasVariables
  <2> QED BY <1>5, <1>8, <1>9, <2>1, <2>2
<1> QED BY <1>11, <1>12, <1>13, <1>15, <1>20, <1>21, <1>22 DEF Inv

(* So does one that was fetched, or not found, or whose fetch was cancelled. *)
LEMMA FetchEndsInv ==
    ASSUME Inv, NEW n \in Visits, Fetched(n) \/ NotFound(n) \/ CatchCancelled(n)
    PROVE  Inv'
<1>1. pc[n] \in {"fetching", "cancelled"} /\ (GoOn(n, TRUE) \/ GoOn(n, FALSE))
  BY DEF Fetched, NotFound, CatchCancelled
<1> QED BY <1>1, GoOnInv

(* A variable that one of its visits processes concerns no other visit. *)
LEMMA VariableInv ==
    ASSUME Inv, NEW n \in Visits, NEW v \in Variables, NEW result \in {"Done", "Error"},
           ProcessVariable(n, v) \/ Answer(n, v, result)
    PROVE  Inv'
<1> DEFINE u == uid[n]
<1>1. UNCHANGED <<visits, uid, pc, missing, page, phase, model, lastKey, transaction, runner, mixed>>
  BY DEF ProcessVariable, Answer
<1>2. pc[n] = "variables" /\ u \in Dashboards /\ model /= n
  BY DEF Inv, JobsOK, VisitsOK, ModelOK, ProcessVariable, Answer
<1>3. PICK state \in VariableStates, next \in Jobs :
          /\ variables' \in {variables, [variables EXCEPT ![u][v] = state]}
          /\ job' = Resolve([job EXCEPT ![n][v] = next], variables')
          /\ state /= "Absent" /\ next /= "none"
          /\ next = "over" /\ IsReady(n)
             => state \in {"Done", "Error"} /\ variables' = [variables EXCEPT ![u][v] = state]
  <2> USE DEF VariableStates, Jobs
  <2>1. CASE ProcessVariable(n, v)
    <3>1. CASE HasOngoingTransaction(u) /\ v \in Refreshed
      <4> WITNESS "Loading" \in VariableStates, "queries" \in Jobs
      <4> QED BY <2>1, <3>1 DEF ProcessVariable
    <3>2. CASE HasOngoingTransaction(u) /\ v \notin Refreshed
      <4> WITNESS "Done" \in VariableStates, "over" \in Jobs
      <4> QED BY <2>1, <3>2 DEF ProcessVariable
    <3>3. CASE ~HasOngoingTransaction(u)
      <4> WITNESS "Done" \in VariableStates, "over" \in Jobs
      <4> QED BY <2>1, <3>3 DEF ProcessVariable, HasOngoingTransaction, IsReady
    <3> QED BY <3>1, <3>2, <3>3
  <2>2. CASE Answer(n, v, result)
    <3>1. result \in VariableStates
      BY DEF VariableStates
    <3> WITNESS result \in VariableStates, "over" \in Jobs
    <3> QED BY <2>2 DEF Answer, HasOngoingTransaction, IsReady
  <2> QED BY <2>1, <2>2
<1>4. variables' \in [Dashboards -> [Variables -> VariableStates]]
  BY <1>2, <1>3 DEF Inv, TypeOK
<1>5. [job EXCEPT ![n][v] = next] \in [Visits -> [Variables -> Jobs]]
  BY <1>3 DEF Inv, TypeOK, Jobs
<1>6. /\ job' \in [Visits -> [Variables -> Jobs]]
      /\ \A m \in Visits : \A w \in Variables :
             \/ job'[m][w] = [job EXCEPT ![n][v] = next][m][w]
             \/ job'[m][w] = "free" /\ [job EXCEPT ![n][v] = next][m][w] = "waits"
  <2> DEFINE jobs == [job EXCEPT ![n][v] = next]
  <2> HIDE DEF jobs
  <2>1. jobs \in [Visits -> [Variables -> Jobs]] /\ job' = Resolve(jobs, variables')
    BY <1>3, <1>5 DEF jobs
  <2>2. /\ job' \in [Visits -> [Variables -> Jobs]]
        /\ \A m \in Visits : \A w \in Variables :
               \/ job'[m][w] = jobs[m][w]
               \/ job'[m][w] = "free" /\ jobs[m][w] = "waits"
    BY <2>1, ResolveOnlyFrees
  <2> QED BY <2>2 DEF jobs
<1>7. \A m \in Visits : \A w \in Variables : m /= n \/ w /= v =>
          \/ job'[m][w] = job[m][w]
          \/ job'[m][w] = "free" /\ job[m][w] = "waits"
  BY <1>6 DEF Inv, TypeOK
<1>8. job'[n][v] = next \/ (job'[n][v] = "free" /\ next = "waits")
  BY <1>6 DEF Inv, TypeOK
<1>9. \A m \in Visits : Live(m) /\ m /= n /\ uid[m] = u => u \in mixed
  BY <1>2 DEF Inv, SharedOK, Live
<1>10. TypeOK' /\ OneTransaction' /\ VisitsOK' /\ ModelOK'
  BY <1>1, <1>4, <1>6 DEF Inv, TypeOK, OneTransaction, VisitsOK, ModelOK, Jobs
<1>11. JobsOK'
  BY <1>1, <1>2, <1>7 DEF Inv, JobsOK
<1>12. SharedOK'
  BY <1>1 DEF Inv, SharedOK, Live
<1>13. AwaitedOK'
  <2> SUFFICES ASSUME NEW m \in Visits, IsAlone(m)' PROVE IsReady(m)'
    BY DEF AwaitedOK
  <2>1. IsAlone(m) /\ IsReady(m) /\ uid[m] \in Dashboards
    BY <1>1 DEF IsAlone, Inv, AwaitedOK, VisitsOK
  <2>2. CASE m = n
    <3>1. job'[n][v] /= "none" /\ variables'[u][v] /= "Absent"
      BY <1>2, <1>3, <1>8, <2>1, <2>2 DEF IsReady, Inv, TypeOK
    <3>2. job'[n][v] = "over" => variables'[u][v] \in {"Done", "Error"}
      BY <1>2, <1>3, <1>8, <2>1, <2>2 DEF Inv, TypeOK
    <3>3. ASSUME NEW w \in Variables, w /= v
          PROVE  variables'[u][w] = variables[u][w]
      BY <1>2, <1>3, <3>3 DEF Inv, TypeOK
    <3> QED BY <1>1, <1>7, <2>1, <2>2, <3>1, <3>2, <3>3 DEF IsReady
  <2>3. CASE m /= n
    <3>1. uid[m] /= u
      BY <1>9, <2>1, <2>3 DEF IsAlone, Live
    <3>2. variables'[uid[m]] = variables[uid[m]]
      BY <1>3, <2>1, <3>1 DEF Inv, TypeOK
    <3> QED BY <1>1, <1>7, <2>1, <2>3, <3>2 DEF IsReady
  <2> QED BY <2>2, <2>3
<1>14. DashboardHasVariables'
  <2> SUFFICES ASSUME model \in Visits \ missing, uid[model] \notin mixed
               PROVE  /\ transaction[uid[model]] = "Completed"
                      /\ \A w \in Variables : variables'[uid[model]][w] \in {"Done", "Error"}
    BY <1>1 DEF DashboardHasVariables
  <2>1. uid[model] /= u /\ uid[model] \in Dashboards
    BY <1>2, <1>9 DEF Live, Inv, VisitsOK
  <2>2. variables'[uid[model]] = variables[uid[model]]
    BY <1>3, <2>1 DEF Inv, TypeOK
  <2> QED BY <2>2 DEF Inv, DashboardHasVariables
<1> QED BY <1>10, <1>11, <1>12, <1>13, <1>14 DEF Inv

(* A visit that completes and shows its dashboard is one that is ready. *)
LEMMA CompleteInv == ASSUME Inv, NEW n \in Visits, Complete(n) PROVE Inv'
<1> DEFINE u == uid[n]
<1>1. /\ pc[n] = "variables" /\ \A v \in Variables : job[n][v] = "over"
      /\ transaction' = [transaction EXCEPT ![u] = IF @ = "NotStarted" THEN @ ELSE "Completed"]
      /\ pc' = [pc EXCEPT ![n] = "over"] /\ runner' = n
      /\ UNCHANGED <<visits, uid, missing, page, lastKey, variables, job, mixed>>
  BY DEF Complete, IsProcessed
<1>2. \/ lastKey = u /\ phase' = "Completed" /\ model' = n
      \/ UNCHANGED <<phase, model>>
  BY DEF Complete
<1>3. u \in Dashboards /\ model /= n
  BY <1>1 DEF Inv, VisitsOK, ModelOK
<1>4. TypeOK' /\ OneTransaction'
  BY <1>1, <1>2, <1>3 DEF Inv, TypeOK, OneTransaction, Statuses, Phases
<1>5. VisitsOK' /\ ModelOK' /\ JobsOK'
  BY <1>1, <1>2, <1>3 DEF Inv, TypeOK, VisitsOK, ModelOK, JobsOK
<1>6. \A m \in Visits : Live(m)' => Live(m)
  BY <1>1, <1>2 DEF Inv, TypeOK, Live
<1>7. SharedOK'
  BY <1>1, <1>6 DEF Inv, SharedOK
<1>8. \A m \in Visits : Live(m) /\ m /= n /\ uid[m] = u => u \in mixed
  BY <1>1 DEF Inv, SharedOK, Live
<1>9. \A w \in Dashboards : w /= u => transaction'[w] = transaction[w]
  BY <1>1 DEF Inv, TypeOK
<1>10. AwaitedOK'
  <2> SUFFICES ASSUME NEW m \in Visits, IsAlone(m)' PROVE IsReady(m)'
    BY DEF AwaitedOK
  <2>1. IsAlone(m) /\ IsReady(m) /\ m /= n /\ uid[m] \in Dashboards
    BY <1>1 DEF IsAlone, Inv, AwaitedOK, VisitsOK, TypeOK
  <2>2. uid[m] /= u
    BY <1>8, <2>1 DEF IsAlone, Live
  <2> QED BY <1>1, <1>9, <2>1, <2>2 DEF IsReady
<1>11. DashboardHasVariables'
  <2>1. CASE model' = n /\ lastKey = u
    <3> SUFFICES ASSUME u \notin mixed, n \notin missing
                 PROVE  /\ transaction'[u] = "Completed"
                        /\ \A v \in Variables : variables[u][v] \in {"Done", "Error"}
      BY <1>1, <2>1 DEF DashboardHasVariables
    <3>1. IsReady(n)
      BY <1>1, <2>1 DEF Inv, AwaitedOK, IsAlone
    <3> QED BY <1>1, <1>3, <3>1 DEF IsReady, Inv, TypeOK
  <2>2. CASE UNCHANGED model
    <3> SUFFICES ASSUME model \in Visits \ missing, uid[model] \notin mixed
                 PROVE  /\ transaction'[uid[model]] = "Completed"
                        /\ \A v \in Variables : variables[uid[model]][v] \in {"Done", "Error"}
      BY <1>1, <2>2 DEF DashboardHasVariables
    <3>1. uid[model] /= u /\ uid[model] \in Dashboards
      BY <1>3, <1>8 DEF Live, Inv, VisitsOK
    <3> QED BY <1>9, <3>1 DEF Inv, DashboardHasVariables
  <2> QED BY <1>2, <2>1, <2>2
<1> QED BY <1>4, <1>5, <1>7, <1>10, <1>11 DEF Inv
-----------------------------------------------------------------------------
(* The inductive invariant. *)
THEOREM InvHolds == Spec => []Inv
<1>1. Inv /\ [Next]_vars => Inv'
  <2> SUFFICES ASSUME Inv, [Next]_vars PROVE Inv'
    OBVIOUS
  <2>1. CASE UNCHANGED vars
    BY <2>1 DEF vars, storeVars, Inv, TypeOK, OneTransaction, VisitsOK, JobsOK, ModelOK, SharedOK,
                Live, AwaitedOK, IsAlone, IsReady, DashboardHasVariables
  <2> QED BY <2>1, OpenInv, LeaveInv, InitFailsInv, FetchEndsInv, VariableInv, CompleteInv
          DEF Next, Proceed
<1> QED BY <1>1, InitInv, PTL DEF Spec

(* Every variable keeps its type. *)
THEOREM TypeCorrect == Spec => []TypeOK
<1>1. Inv => TypeOK
  BY DEF Inv
<1> QED BY <1>1, InvHolds, PTL

(* Variables load under one key at a time, however visits interleave.      *)
THEOREM OneTransactionAtATime == Spec => []OneTransaction
<1>1. Inv => OneTransaction
  BY DEF Inv
<1> QED BY <1>1, InvHolds, PTL

(* The dashboard in the store has its variables, for any dependencies      *)
(* between them and whatever earlier visits still do.                      *)
THEOREM ShownDashboardHasVariables == Spec => []DashboardHasVariables
<1>1. Inv => DashboardHasVariables
  BY DEF Inv
<1> QED BY <1>1, InvHolds, PTL
=============================================================================
