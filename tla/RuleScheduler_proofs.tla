------------------------ MODULE RuleScheduler_proofs ------------------------
(***************************************************************************)
(* Proofs about the alert rule scheduler, for any number of rules,         *)
(* alertRuleInfos, versions and senders in flight.                         *)
(***************************************************************************)
EXTENDS RuleScheduler, TLAPS

(* What an evaluation is made of is there: the rules the tick loop still   *)
(* has to schedule are in its snapshot, and a routine has a rule and, when *)
(* it evaluates or will when it has cleared the state, a message; what it  *)
(* does next is known while it clears the state.                           *)
TickHasRules == /\ tick.todo # {} => tick.pc = "loop"
                /\ \A r \in tick.todo : tick.rules[r] # NoDef

EvalSteps == {"evaluating", "processing", "saving", "putting", "sending"}

Complete(R) == /\ R.pc # "none" => R.key \in Rules
               /\ R.next \in IF R.pc \in {"clearing", "stopAlerts"}
                             THEN {"idle", "evaluating", "exited"} ELSE {"none"}
               /\ R.pc \in EvalSteps \/ R.next = "evaluating" => R.msg # NoDef

RoutinesComplete == \A i \in Infos : Complete(routine[i])

IInv == TypeOK /\ TickHasRules /\ RoutinesComplete
-----------------------------------------------------------------------------
(* The fields of a routine.                                                *)
LEMMA RoutineFields ==
    ASSUME NEW R \in Routines
    PROVE  /\ R.key \in Rules \cup {NoRule}
           /\ R.pc \in RoutineSteps
           /\ R.next \in RoutineSteps
           /\ R.stopped \in BOOLEAN
           /\ R.current \in 0..MaxVersion
           /\ R.msg \in Defs \cup {NoDef}
           /\ R.gone \in SUBSET Defs
           /\ R.evalCh \in Seq(Defs)
           /\ R.updateCh \in Seq(Versions)
BY DEF Routines

(* A new routine waits for messages.                                       *)
LEMMA NewRoutineType ==
    ASSUME NEW r \in Rules \cup {NoRule}, NEW pc \in RoutineSteps
    PROVE  NewRoutine(r, pc) \in Routines
<1>1. "none" \in RoutineSteps
  BY DEF RoutineSteps
<1>2. 0 \in 0..MaxVersion
  BY BoundsAssumption
<1>. QED
  BY <1>1, <1>2 DEF NewRoutine, Routines

(* Nothing is scheduled, evaluated or stored at the beginning.             *)
LEMMA InitInv == Init => IInv
<1>. SUFFICES ASSUME Init PROVE IInv
  OBVIOUS
<1>1. routine \in [Infos -> Routines]
  BY NewRoutineType DEF Init, NoRoutines, RoutineSteps
<1>2. NoRules \in Snapshots
  BY DEF NoRules, Snapshots
<1>3. tick \in Ticks
  BY <1>2 DEF Init, IdleTick, TickSteps, Ticks
<1>4. TypeOK
  BY <1>1, <1>2, <1>3, BoundsAssumption DEF Init, TypeOK
<1>5. TickHasRules
  BY DEF Init, TickHasRules, IdleTick
<1>6. RoutinesComplete
  BY DEF Init, RoutinesComplete, NoRoutines, NewRoutine, Complete, EvalSteps
<1>. QED
  BY <1>4, <1>5, <1>6 DEF IInv

(* A step of one routine.                                                  *)
LEMMA OneRoutine ==
    ASSUME TypeOK, RoutinesComplete, NEW i \in Infos, NEW R \in Routines,
           Complete(R),
           routine' = [routine EXCEPT ![i] = R]
    PROVE  routine' \in [Infos -> Routines] /\ RoutinesComplete'
BY DEF TypeOK, RoutinesComplete, Complete

(* A channel of a routine has nothing to do with the evaluation it does.   *)
LEMMA EvalChannel ==
    ASSUME TypeOK, RoutinesComplete, NEW i \in Infos, NEW ch \in Seq(Defs),
           routine' = [routine EXCEPT ![i].evalCh = ch]
    PROVE  routine' \in [Infos -> Routines] /\ RoutinesComplete'
<1>. DEFINE R == [routine[i] EXCEPT !.evalCh = ch]
<1>1. routine[i] \in Routines
  BY DEF TypeOK
<1>2. R \in Routines
  BY <1>1 DEF Routines
<1>3. Complete(R)
  BY <1>1 DEF RoutinesComplete, Complete, Routines
<1>4. routine' = [routine EXCEPT ![i] = R]
  OBVIOUS
<1>. QED
  BY <1>2, <1>3, <1>4, OneRoutine

(* Nor has the other one.                                                  *)
LEMMA UpdateChannel ==
    ASSUME TypeOK, RoutinesComplete, NEW i \in Infos, NEW ch \in Seq(Versions),
           routine' = [routine EXCEPT ![i].updateCh = ch]
    PROVE  routine' \in [Infos -> Routines] /\ RoutinesComplete'
<1>. DEFINE R == [routine[i] EXCEPT !.updateCh = ch]
<1>1. routine[i] \in Routines
  BY DEF TypeOK
<1>2. R \in Routines
  BY <1>1 DEF Routines
<1>3. Complete(R)
  BY <1>1 DEF RoutinesComplete, Complete, Routines
<1>4. routine' = [routine EXCEPT ![i] = R]
  OBVIOUS
<1>. QED
  BY <1>2, <1>3, <1>4, OneRoutine

(* What is read from a channel.                                            *)
LEMMA ChannelHead ==
    ASSUME NEW S, NEW ch \in Seq(S), ch # <<>>
    PROVE  Head(ch) \in S /\ Tail(ch) \in Seq(S)
OBVIOUS

(* No edit of a rule, and no call of the API to the scheduler, disturbs    *)
(* the invariant.                                                          *)
LEMMA ApiInv ==
    ASSUME IInv, NEW r \in Rules, NEW v \in Versions,
           \/ CreateRule(r) \/ UpdateRule(r) \/ DeleteRule(r)
           \/ BeginUpdate(r, v) \/ DeleteSchedulable(r) \/ DeleteRegistered(r)
    PROVE  IInv'
<1>. USE DEF IInv, dbVars, stateVars, apiVars, senderVars
<1>1. CASE CreateRule(r)
  BY <1>1, BoundsAssumption DEF CreateRule, Edit, TypeOK, Snapshots, Defs, Versions,
     TickHasRules, RoutinesComplete
<1>2. CASE UpdateRule(r)
  BY <1>2, BoundsAssumption, NoDefAssumption DEF UpdateRule, Edit, TypeOK, Snapshots, Defs,
     Versions, TickHasRules, RoutinesComplete
<1>3. CASE DeleteRule(r)
  BY <1>3, BoundsAssumption DEF DeleteRule, Edit, TypeOK, Snapshots,
     TickHasRules, RoutinesComplete
<1>4. CASE BeginUpdate(r, v)
  <2>. DEFINE i == registry[r]
              ch == routine[i].updateCh
  <2>1. CASE i = NoInfo
    BY <1>4, <2>1 DEF BeginUpdate, TypeOK, TickHasRules, RoutinesComplete
  <2>2. CASE i # NoInfo /\ ch = <<>>
    BY <1>4, <2>2 DEF BeginUpdate, TypeOK, TickHasRules, RoutinesComplete
  <2>3. CASE i # NoInfo /\ ch # <<>>
    <3>1. i \in Infos /\ routine[i] \in Routines
      BY <2>3 DEF TypeOK
    <3>2. Head(ch) \in Versions /\ Tail(ch) \in Seq(Versions)
      BY <2>3, <3>1, RoutineFields, ChannelHead
    <3>3. routine' = [routine EXCEPT ![i].updateCh = Tail(ch)]
      BY <1>4, <2>3 DEF BeginUpdate
    <3>4. routine' \in [Infos -> Routines] /\ RoutinesComplete'
      BY <3>1, <3>2, <3>3, UpdateChannel
    <3>5. updating' \in SUBSET (Infos \X Versions)
      BY <1>4, <2>3, <3>1, <3>2 DEF BeginUpdate, TypeOK
    <3>. QED
      BY <1>4, <3>4, <3>5 DEF BeginUpdate, TypeOK, TickHasRules
  <2>. QED
    BY <2>1, <2>2, <2>3
<1>5. CASE DeleteSchedulable(r)
  BY <1>5 DEF DeleteSchedulable, TypeOK, Snapshots, TickHasRules, RoutinesComplete
<1>6. CASE DeleteRegistered(r)
  BY <1>6 DEF DeleteRegistered, TypeOK, TickHasRules, RoutinesComplete
<1>. QED
  BY <1>1, <1>2, <1>3, <1>4, <1>5, <1>6
(* Nor do the messages to a routine, whether they come from the API or     *)
(* from a timer.                                                           *)
LEMMA SenderInv ==
    ASSUME IInv, NEW i \in Infos, NEW v \in Versions, NEW d \in Defs,
           \/ OfferUpdate(i, v) \/ Stop(i) \/ GiveUp(i)
           \/ TimerFires(i, d) \/ OfferEval(i, d)
    PROVE  IInv'
<1>. USE DEF IInv, dbVars, stateVars, apiVars, senderVars, EvalUnchanged
<1>1. routine[i] \in Routines
  BY DEF TypeOK
<1>2. /\ routine[i].evalCh \in Seq(Defs)
      /\ routine[i].updateCh \in Seq(Versions)
      /\ routine[i].evalCh # <<>> => Tail(routine[i].evalCh) \in Seq(Defs)
      /\ routine[i].updateCh # <<>> => Tail(routine[i].updateCh) \in Seq(Versions)
      /\ Append(routine[i].evalCh, d) \in Seq(Defs)
      /\ Append(routine[i].updateCh, v) \in Seq(Versions)
  BY <1>1, RoutineFields, ChannelHead
<1>3. CASE OfferUpdate(i, v)
  <2>1. routine' \in [Infos -> Routines] /\ RoutinesComplete'
    <3>. DEFINE ch == IF routine[i].stopped THEN routine[i].updateCh
                      ELSE Append(routine[i].updateCh, v)
    <3>1. ch \in Seq(Versions)
      BY <1>2
    <3>2. routine' = [routine EXCEPT ![i].updateCh = ch]
      BY <1>3 DEF OfferUpdate, TypeOK
    <3>. HIDE DEF ch
    <3>. QED
      BY <3>1, <3>2, UpdateChannel
  <2>. QED
    BY <1>3, <2>1 DEF OfferUpdate, TypeOK, TickHasRules
<1>4. CASE Stop(i)
  <2>. DEFINE R == [routine[i] EXCEPT !.stopped = TRUE]
  <2>1. R \in Routines
    BY <1>1 DEF Routines
  <2>2. Complete(R)
    BY <1>1 DEF RoutinesComplete, Complete, Routines
  <2>3. routine' = [routine EXCEPT ![i] = R]
    BY <1>4 DEF Stop
  <2>4. routine' \in [Infos -> Routines] /\ RoutinesComplete'
    BY <2>1, <2>2, <2>3, OneRoutine
  <2>. QED
    BY <1>4, <2>4 DEF Stop, TypeOK, TickHasRules
<1>5. CASE GiveUp(i)
  <2>1. routine' \in [Infos -> Routines] /\ RoutinesComplete'
    <3>1. CASE routine[i].evalCh # <<>> /\ routine' = [routine EXCEPT ![i].evalCh = Tail(@)]
      BY <1>2, <3>1, EvalChannel
    <3>2. CASE routine[i].updateCh # <<>> /\ routine' = [routine EXCEPT ![i].updateCh = Tail(@)]
      BY <1>2, <3>2, UpdateChannel
    <3>. QED
      BY <1>5, <3>1, <3>2 DEF GiveUp
  <2>. QED
    BY <1>5, <2>1 DEF GiveUp, TypeOK, TickHasRules
<1>6. CASE TimerFires(i, d)
  <2>1. routine' \in [Infos -> Routines] /\ RoutinesComplete'
    <3>. DEFINE ch == IF routine[i].evalCh = <<>> THEN routine[i].evalCh
                      ELSE Tail(routine[i].evalCh)
    <3>1. ch \in Seq(Defs)
      BY <1>2
    <3>2. routine' = [routine EXCEPT ![i].evalCh = ch]
      BY <1>6 DEF TimerFires, TypeOK
    <3>. HIDE DEF ch
    <3>. QED
      BY <3>1, <3>2, EvalChannel
  <2>. QED
    BY <1>6, <2>1 DEF TimerFires, TypeOK, TickHasRules
<1>7. CASE OfferEval(i, d)
  <2>1. routine' \in [Infos -> Routines] /\ RoutinesComplete'
    <3>. DEFINE ch == IF routine[i].stopped THEN routine[i].evalCh
                      ELSE Append(routine[i].evalCh, d)
    <3>1. ch \in Seq(Defs)
      BY <1>2
    <3>2. routine' = [routine EXCEPT ![i].evalCh = ch]
      BY <1>7 DEF OfferEval, TypeOK
    <3>. HIDE DEF ch
    <3>. QED
      BY <3>1, <3>2, EvalChannel
  <2>. QED
    BY <1>7, <2>1 DEF OfferEval, TypeOK, TickHasRules
<1>. QED
  BY <1>3, <1>4, <1>5, <1>6, <1>7
(* No step of the tick loop disturbs the invariant: in particular it       *)
(* schedules only rules of the snapshot it took.                           *)
LEMMA TickInv == ASSUME IInv, TickStep PROVE IInv'
<1>. USE DEF IInv, dbVars, stateVars, apiVars, senderVars, TickUnchanged
<1>1. CASE FetchKeys
  BY <1>1, SMTT(30) DEF FetchKeys, TypeOK, Ticks, TickSteps, TickHasRules, RoutinesComplete
<1>2. CASE FetchRules
  <2>1. tick' \in Ticks /\ tick'.todo = {}
    BY <1>2, ZenonT(60) DEF FetchRules, TypeOK, Ticks, TickSteps, TickHasRules
  <2>. QED
    BY <1>2, <2>1 DEF FetchRules, TypeOK, TickHasRules, RoutinesComplete
<1>3. CASE SetRules
  BY <1>3 DEF SetRules, TypeOK, Ticks, TickSteps, TickHasRules, RoutinesComplete
<1>4. CASE ListRules
  BY <1>4 DEF ListRules, TypeOK, Ticks, TickSteps, TickHasRules, RoutinesComplete
<1>5. ASSUME NEW r \in Rules, ScheduleRule(r) PROVE IInv'
  <2>1. r \in tick.todo /\ tick.rules[r] \in Defs
    BY <1>5 DEF ScheduleRule, TypeOK, Ticks, TickHasRules, Snapshots
  <2>2. routine' \in [Infos -> Routines] /\ RoutinesComplete' /\ registry'[r] \in Infos
        /\ registry' \in [Rules -> Infos \cup {NoInfo}] /\ overlapped' \in SUBSET Rules
    <3>1. CASE registry[r] # NoInfo
      BY <1>5, <3>1 DEF ScheduleRule, TypeOK, RoutinesComplete
    <3>2. CASE registry[r] = NoInfo
      <4>1. PICK i \in Infos : /\ registry' = [registry EXCEPT ![r] = i]
                               /\ routine' = [routine EXCEPT ![i] = NewRoutine(r, "idle")]
        BY <1>5, <3>2 DEF ScheduleRule
      <4>2. NewRoutine(r, "idle") \in Routines /\ Complete(NewRoutine(r, "idle"))
        BY NewRoutineType DEF RoutineSteps, Complete, EvalSteps, NewRoutine
      <4>3. routine' \in [Infos -> Routines] /\ RoutinesComplete'
        BY <4>1, <4>2, OneRoutine
      <4>. QED
        BY <1>5, <3>2, <4>1, <4>3 DEF ScheduleRule, TypeOK
    <3>. QED
      BY <3>1, <3>2
  <2>3. tick' \in Ticks /\ tick'.todo \subseteq tick.todo /\ tick'.rules = tick.rules
        /\ tick'.pc = tick.pc
    <3>1. PICK ready \in {tick.ready, tick.ready \cup {<<registry'[r], tick.rules[r]>>}} :
             tick' = [tick EXCEPT !.todo = @ \ {r}, !.registered = @ \ {r}, !.ready = ready]
      BY <1>5 DEF ScheduleRule
    <3>2. ready \in SUBSET (Infos \X Defs) /\ tick \in Ticks
      BY <2>1, <2>2 DEF TypeOK, Ticks
    <3>. QED
      BY <3>1, <3>2 DEF Ticks
  <2>. QED
    BY <1>5, <2>2, <2>3 DEF ScheduleRule, TypeOK, TickHasRules
<1>6. CASE StartTimers
  BY <1>6 DEF StartTimers, TypeOK, Ticks, TickSteps, TickHasRules, RoutinesComplete,
     NoRules, Snapshots
<1>7. ASSUME NEW r \in Rules, SweepRule(r) PROVE IInv'
  <2>1. tick' \in Ticks /\ tick'.todo = tick.todo /\ tick'.rules = tick.rules
        /\ tick'.pc = tick.pc
    BY <1>7 DEF SweepRule, TypeOK, Ticks
  <2>. QED
    BY <1>7, <2>1 DEF SweepRule, TypeOK, TickHasRules, RoutinesComplete, Snapshots
<1>8. CASE SweepStop
  <2>. DEFINE i == tick.stop
              R == [routine[i] EXCEPT !.stopped = TRUE]
  <2>1. i \in Infos /\ routine[i] \in Routines
    BY <1>8 DEF SweepStop, TypeOK, Ticks
  <2>2. R \in Routines
    BY <2>1 DEF Routines
  <2>3. Complete(R)
    BY <2>1 DEF RoutinesComplete, Complete, Routines
  <2>4. routine' = [routine EXCEPT ![i] = R]
    BY <1>8 DEF SweepStop
  <2>5. routine' \in [Infos -> Routines] /\ RoutinesComplete'
    BY <2>1, <2>2, <2>3, <2>4, OneRoutine
  <2>6. tick' \in Ticks /\ tick'.todo = tick.todo /\ tick'.rules = tick.rules
        /\ tick'.pc = tick.pc
    BY <1>8 DEF SweepStop, TypeOK, Ticks
  <2>. QED
    BY <1>8, <2>5, <2>6 DEF SweepStop, TypeOK, TickHasRules
<1>9. CASE EndTick
  BY <1>9 DEF EndTick, TypeOK, Ticks, TickSteps, TickHasRules, RoutinesComplete,
     IdleTick, NoRules, Snapshots
<1>. QED
  BY <1>1, <1>2, <1>3, <1>4, <1>5, <1>6, <1>7, <1>8, <1>9, TickStep DEF TickStep
(* The first part of clearState.                                           *)
LEMMA ClearType ==
    ASSUME TypeOK, RoutinesComplete, NEW i \in Infos, NEW R \in Routines,
           R.key \in Rules, R.pc = "idle", Complete(R),
           NEW next \in {"idle", "evaluating", "exited"},
           next = "evaluating" => R.msg # NoDef,
           Clear(i, next, R)
    PROVE  /\ routine' \in [Infos -> Routines]
           /\ RoutinesComplete'
           /\ cache' \in [Rules -> SUBSET Defs]
           /\ warmed' \in [Rules -> SUBSET Defs]
<1>1. cache[R.key] \in SUBSET Defs
  BY DEF TypeOK
<1>2. PICK S \in Routines : Complete(S) /\ routine' = [routine EXCEPT ![i] = S]
  <2>1. CASE cache[R.key] = {}
    <3>. DEFINE S == [R EXCEPT !.pc = next]
    <3>1. S \in Routines /\ Complete(S)
      BY DEF Routines, RoutineSteps, Complete, EvalSteps
    <3>. QED
      BY <2>1, <3>1 DEF Clear
  <2>2. CASE cache[R.key] # {}
    <3>. DEFINE S == [R EXCEPT !.pc = "clearing", !.gone = cache[R.key], !.next = next]
    <3>1. S \in Routines /\ Complete(S)
      BY <1>1 DEF Routines, RoutineSteps, Complete, EvalSteps
    <3>. QED
      BY <2>2, <3>1 DEF Clear
  <2>. QED
    BY <2>1, <2>2
<1>3. routine' \in [Infos -> Routines] /\ RoutinesComplete'
  BY <1>2, OneRoutine
<1>. QED
  BY <1>3 DEF Clear, TypeOK

(* No step of a routine disturbs the invariant.                            *)
LEMMA RoutineInv == ASSUME IInv, NEW i \in Infos, RoutineStep(i) PROVE IInv'
<1>. USE DEF IInv, dbVars, stateVars, apiVars, senderVars, RoutineUnchanged
<1>. DEFINE R == routine[i]
<1>1. R \in Routines /\ Complete(R)
  BY DEF TypeOK, RoutinesComplete
<1>2. CASE ReceiveUpdate(i)
  <2>. DEFINE S == [R EXCEPT !.updateCh = Tail(@)]
  <2>1. Tail(R.updateCh) \in Seq(Versions)
    BY <1>1, <1>2, RoutineFields, ChannelHead DEF ReceiveUpdate
  <2>2. S \in Routines /\ Complete(S) /\ S.key \in Rules /\ S.pc = "idle"
    BY <1>1, <1>2, <2>1 DEF ReceiveUpdate, Routines, Complete
  <2>3. CASE routine' = [routine EXCEPT ![i] = S] /\ UNCHANGED <<cache, warmed>>
    <3>1. routine' \in [Infos -> Routines] /\ RoutinesComplete'
      BY <2>2, <2>3, OneRoutine
    <3>. QED
      BY <1>2, <2>3, <3>1 DEF ReceiveUpdate, TypeOK, TickHasRules
  <2>4. CASE Clear(i, "idle", S)
    <3>1. /\ routine' \in [Infos -> Routines] /\ RoutinesComplete'
          /\ cache' \in [Rules -> SUBSET Defs]
          /\ warmed' \in [Rules -> SUBSET Defs]
      BY <2>2, <2>4, ClearType
    <3>. QED
      BY <1>2, <3>1 DEF ReceiveUpdate, TypeOK, TickHasRules
  <2>. QED
    BY <1>2, <2>3, <2>4 DEF ReceiveUpdate
<1>3. CASE ReceiveEval(i)
  <2>. DEFINE d == Head(R.evalCh)
              S == [R EXCEPT !.evalCh = Tail(@), !.msg = d, !.current = d.ver]
              T == [S EXCEPT !.pc = "evaluating"]
  <2>1. d \in Defs /\ Tail(R.evalCh) \in Seq(Defs)
    BY <1>1, <1>3, RoutineFields, ChannelHead DEF ReceiveEval
  <2>2. d # NoDef /\ d.ver \in 0..MaxVersion
    BY <2>1, NoDefAssumption, BoundsAssumption DEF Defs, Versions
  <2>3. S \in Routines /\ Complete(S) /\ S.key \in Rules /\ S.msg # NoDef /\ S.pc = "idle"
    BY <1>1, <1>3, <2>1, <2>2 DEF ReceiveEval, Routines, Complete
  <2>4. T \in Routines /\ Complete(T)
    BY <2>3 DEF Routines, Complete, RoutineSteps
  <2>5. CASE routine' = [routine EXCEPT ![i] = T] /\ UNCHANGED <<cache, warmed>>
    <3>1. routine' \in [Infos -> Routines] /\ RoutinesComplete'
      BY <2>4, <2>5, OneRoutine
    <3>. QED
      BY <1>3, <2>5, <3>1 DEF ReceiveEval, TypeOK, TickHasRules
  <2>6. CASE Clear(i, "evaluating", S)
    <3>1. /\ routine' \in [Infos -> Routines] /\ RoutinesComplete'
          /\ cache' \in [Rules -> SUBSET Defs]
          /\ warmed' \in [Rules -> SUBSET Defs]
      BY <2>3, <2>6, ClearType
    <3>. QED
      BY <1>3, <3>1 DEF ReceiveEval, TypeOK, TickHasRules
  <2>. QED
    BY <1>3, <2>5, <2>6 DEF ReceiveEval
<1>4. CASE ReceiveDone(i)
  <2>. DEFINE S == [R EXCEPT !.current = 0]
  <2>0. 0 \in 0..MaxVersion
    BY BoundsAssumption
  <2>1. S \in Routines /\ Complete(S) /\ S.key \in Rules /\ S.pc = "idle"
    BY <1>1, <1>4, <2>0, SMTT(30) DEF ReceiveDone, Routines, Complete
  <2>2. /\ routine' \in [Infos -> Routines] /\ RoutinesComplete'
        /\ cache' \in [Rules -> SUBSET Defs]
        /\ warmed' \in [Rules -> SUBSET Defs]
    BY <1>4, <2>1, ClearType DEF ReceiveDone
  <2>. QED
    BY <1>4, <2>2 DEF ReceiveDone, TypeOK, TickHasRules
<1>5. CASE ClearRows(i)
  <2>. DEFINE S == [R EXCEPT !.pc = "stopAlerts"]
  <2>1. S \in Routines /\ Complete(S) /\ R.key \in Rules
    BY <1>1, <1>5 DEF ClearRows, Routines, Complete, RoutineSteps, EvalSteps
  <2>2. routine' \in [Infos -> Routines] /\ RoutinesComplete'
    BY <1>5, <2>1, OneRoutine DEF ClearRows
  <2>3. rows' \in [Rules -> SUBSET Defs]
    BY <1>5, <2>1 DEF ClearRows, TypeOK
  <2>. QED
    BY <1>5, <2>2, <2>3 DEF ClearRows, TypeOK, TickHasRules
<1>6. CASE StopAlerts(i)
  <2>. DEFINE S == [R EXCEPT !.pc = R.next, !.gone = {}, !.next = "none"]
  <2>1. S \in Routines /\ R.key \in Rules
    BY <1>1, <1>6 DEF StopAlerts, Routines, Complete, RoutineSteps
  <2>2. Complete(S)
    BY <1>1, <1>6, <2>1 DEF StopAlerts, Routines, Complete, EvalSteps
  <2>3. routine' \in [Infos -> Routines] /\ RoutinesComplete'
    BY <1>6, <2>1, <2>2, OneRoutine DEF StopAlerts
  <2>. QED
    BY <1>6, <2>1, <2>3 DEF StopAlerts, TypeOK, TickHasRules
<1>7. CASE FinishEval(i)
  <2>. DEFINE S == IF R.stopped THEN [R EXCEPT !.pc = "idle", !.msg = NoDef]
                   ELSE [R EXCEPT !.pc = "processing"]
  <2>1. S \in Routines /\ Complete(S)
    BY <1>1, <1>7 DEF FinishEval, Routines, Complete, RoutineSteps, EvalSteps
  <2>2. routine' \in [Infos -> Routines] /\ RoutinesComplete'
    BY <1>7, <2>1, OneRoutine DEF FinishEval
  <2>. QED
    BY <1>7, <2>2 DEF FinishEval, TypeOK, TickHasRules
<1>8. CASE ProcessResults(i)
  <2>1. R.msg \in Defs /\ R.key \in Rules
    BY <1>1, <1>8 DEF ProcessResults, Complete, Routines, EvalSteps
  <2>2. PICK stale \in SUBSET (cache[R.key] \ {R.msg}) :
          /\ cache' = [cache EXCEPT ![R.key] = (@ \ stale) \cup {R.msg}]
          /\ warmed' = [warmed EXCEPT ![R.key] = @ \ (stale \cup {R.msg})]
          /\ routine' = [routine EXCEPT ![i].pc = "saving", ![i].gone = stale]
    BY <1>8 DEF ProcessResults
  <2>. DEFINE S == [R EXCEPT !.pc = "saving", !.gone = stale]
  <2>3. stale \in SUBSET Defs
    BY <2>1 DEF TypeOK
  <2>4. S \in Routines /\ Complete(S)
    BY <1>1, <2>1, <2>3, <1>8 DEF Routines, Complete, RoutineSteps, EvalSteps, ProcessResults
  <2>5. routine' = [routine EXCEPT ![i] = S]
    BY <2>2
  <2>6. routine' \in [Infos -> Routines] /\ RoutinesComplete'
    BY <2>4, <2>5, OneRoutine
  <2>7. cache' \in [Rules -> SUBSET Defs] /\ warmed' \in [Rules -> SUBSET Defs]
    BY <2>1, <2>2 DEF TypeOK
  <2>. QED
    BY <1>8, <2>6, <2>7 DEF ProcessResults, TypeOK, TickHasRules
<1>9. CASE SaveStates(i)
  <2>. DEFINE S == [R EXCEPT !.pc = "putting"]
  <2>1. R.msg \in Defs /\ R.key \in Rules
    BY <1>1, <1>9 DEF SaveStates, Complete, Routines, EvalSteps
  <2>2. S \in Routines /\ Complete(S)
    BY <1>1, <2>1, <1>9 DEF Routines, Complete, RoutineSteps, EvalSteps, SaveStates
  <2>3. routine' \in [Infos -> Routines] /\ RoutinesComplete'
    BY <1>9, <2>2, OneRoutine DEF SaveStates
  <2>4. rows' \in [Rules -> SUBSET Defs]
    BY <1>9, <2>1 DEF SaveStates, TypeOK
  <2>. QED
    BY <1>9, <2>3, <2>4 DEF SaveStates, TypeOK, TickHasRules
<1>10. CASE PutSent(i)
  <2>. DEFINE S == [R EXCEPT !.pc = "sending"]
              T == [R EXCEPT !.pc = "idle", !.gone = {}, !.msg = NoDef]
  <2>1. R.msg \in Defs /\ R.key \in Rules /\ R.pc = "putting"
    BY <1>1, <1>10 DEF PutSent, Complete, Routines, EvalSteps
  <2>2. S \in Routines /\ Complete(S) /\ T \in Routines /\ Complete(T)
    BY <1>1, <2>1, NoDefAssumption DEF Routines, Complete, RoutineSteps, EvalSteps
  <2>3. routine' = [routine EXCEPT ![i] = S] \/ routine' = [routine EXCEPT ![i] = T]
    BY <1>10 DEF PutSent
  <2>4. routine' \in [Infos -> Routines] /\ RoutinesComplete'
    BY <2>2, <2>3, OneRoutine
  <2>5. /\ cache' \in [Rules -> SUBSET Defs]
        /\ warmed' \in [Rules -> SUBSET Defs]
        /\ firing' \in [Rules -> SUBSET Defs]
    BY <1>10, <2>1 DEF PutSent, TypeOK
  <2>. QED
    BY <1>10, <2>4, <2>5 DEF PutSent, TypeOK, TickHasRules
<1>11. CASE SendAlerts(i)
  <2>. DEFINE S == [R EXCEPT !.pc = "idle", !.gone = {}, !.msg = NoDef]
  <2>1. R.msg \in Defs /\ R.key \in Rules
    BY <1>1, <1>11 DEF SendAlerts, Complete, Routines, EvalSteps
  <2>2. S \in Routines /\ Complete(S)
    BY <1>1, <1>11, <2>1 DEF SendAlerts, Routines, Complete, RoutineSteps, EvalSteps
  <2>3. routine' = [routine EXCEPT ![i] = S]
    BY <1>11 DEF SendAlerts
  <2>4. routine' \in [Infos -> Routines] /\ RoutinesComplete'
    BY <2>2, <2>3, OneRoutine
  <2>5. firing' \in [Rules -> SUBSET Defs]
    BY <1>11, <2>1 DEF SendAlerts, TypeOK
  <2>. QED
    BY <1>11, <2>4, <2>5 DEF SendAlerts, TypeOK, TickHasRules
<1>. QED
  BY <1>2, <1>3, <1>4, <1>5, <1>6, <1>7, <1>8, <1>9, <1>10, <1>11 DEF RoutineStep

(* Nor does the death of the process.                                      *)
LEMMA CrashInv == ASSUME IInv, Crash PROVE IInv'
<1>. USE DEF IInv, dbVars
<1>1. routine' \in [Infos -> Routines]
  BY NewRoutineType DEF Crash, NoRoutines, RoutineSteps
<1>2. RoutinesComplete'
  BY DEF Crash, RoutinesComplete, NoRoutines, NewRoutine, Complete, EvalSteps
<1>3. NoRules \in Snapshots
  BY DEF NoRules, Snapshots
<1>4. tick' \in Ticks /\ TickHasRules'
  BY <1>3 DEF Crash, IdleTick, Ticks, TickSteps, TickHasRules
<1>. QED
  BY <1>1, <1>2, <1>3, <1>4, BoundsAssumption DEF Crash, TypeOK

(* The invariant is inductive.                                             *)
LEMMA NextInv == ASSUME IInv, [Next]_vars PROVE IInv'
<1>1. CASE UNCHANGED vars
  BY <1>1 DEF vars, dbVars, stateVars, apiVars, senderVars, IInv, TypeOK,
     TickHasRules, RoutinesComplete
<1>2. CASE Next
  <2>1. ASSUME NEW r \in Rules,
               \/ CreateRule(r) \/ UpdateRule(r) \/ DeleteRule(r)
               \/ DeleteSchedulable(r) \/ DeleteRegistered(r)
               \/ \E v \in Versions : BeginUpdate(r, v)
        PROVE  IInv'
    <3>1. 1 \in Versions
      BY BoundsAssumption DEF Versions
    <3>. QED
      BY <2>1, <3>1, ApiInv
  <2>2. ASSUME NEW i \in Infos,
               \/ Stop(i) \/ GiveUp(i)
               \/ \E v \in Versions : OfferUpdate(i, v)
               \/ \E d \in Defs : TimerFires(i, d) \/ OfferEval(i, d)
        PROVE  IInv'
    <3>1. 1 \in Versions /\ [gen |-> 0, ver |-> 1] \in Defs
      BY BoundsAssumption DEF Versions, Defs
    <3>. QED
      BY <2>2, <3>1, SenderInv
  <2>. QED
    BY <1>2, <2>1, <2>2, TickInv, RoutineInv, CrashInv DEF Next
<1>. QED
  BY <1>1, <1>2

(* In every behaviour of the scheduler all data has its type, and what an  *)
(* evaluation is made of is there when it is needed.                       *)
THEOREM InvHolds == Spec => []IInv
<1>. QED
  BY InitInv, NextInv, PTL DEF Spec

(* The type invariant of the scheduler.                                    *)
THEOREM TypeCorrect == Spec => []TypeOK
<1>1. IInv => TypeOK
  BY DEF IInv
<1>. QED
  BY <1>1, InvHolds, PTL

-----------------------------------------------------------------------------
(* Routines are stopped                                                    *)

(* What becomes of a routine in a step that is its own, or that sends it a *)
(* message or stops it: it keeps its rule, does not come back to life and  *)
(* is not started again after it was stopped.                              *)
KeepsOn(j) == /\ routine'[j].key = routine[j].key
              /\ routine'[j].pc \notin {"none", "exited"} => Live(j)
              /\ routine[j].stopped => routine'[j].stopped

(* It is enough to show this for the record of the routine that changes.   *)
LEMMA KeepsOnOne ==
    ASSUME TypeOK, NEW i \in Infos, NEW R,
           routine' = [routine EXCEPT ![i] = R],
           R.key = routine[i].key,
           R.pc \notin {"none", "exited"} => Live(i),
           routine[i].stopped => R.stopped,
           NEW j \in Infos
    PROVE  KeepsOn(j)
BY DEF KeepsOn, TypeOK, Live

(* clearState touches none of this.                                        *)
LEMMA ClearKeepsOn ==
    ASSUME TypeOK, NEW i \in Infos, Live(i), NEW R \in Routines, NEW next,
           R.key = routine[i].key, R.stopped = routine[i].stopped,
           Clear(i, next, R), NEW j \in Infos
    PROVE  KeepsOn(j)
<1>1. CASE cache[R.key] = {}
  <2>. DEFINE S == [R EXCEPT !.pc = next]
  <2>1. S.key = R.key /\ S.stopped = R.stopped
    BY DEF Routines
  <2>2. routine' = [routine EXCEPT ![i] = S]
    BY <1>1 DEF Clear
  <2>. QED
    BY <2>1, <2>2, KeepsOnOne
<1>2. CASE cache[R.key] # {}
  <2>. DEFINE S == [R EXCEPT !.pc = "clearing", !.gone = cache[R.key], !.next = next]
  <2>1. S.key = R.key /\ S.stopped = R.stopped
    BY DEF Routines
  <2>2. routine' = [routine EXCEPT ![i] = S]
    BY <1>2 DEF Clear
  <2>. QED
    BY <2>1, <2>2, KeepsOnOne
<1>. QED
  BY <1>1, <1>2

(* A routine goes on through each of its own steps.                        *)
LEMMA RoutineKeepsOn ==
    ASSUME IInv, NEW i \in Infos, RoutineStep(i), NEW j \in Infos
    PROVE  KeepsOn(j)
<1>. USE DEF IInv
<1>. DEFINE R == routine[i]
<1>1. R \in Routines /\ routine \in [Infos -> Routines]
  BY DEF TypeOK
<1>2. CASE ReceiveUpdate(i)
  <2>. DEFINE S == [R EXCEPT !.updateCh = Tail(@)]
  <2>1. Tail(R.updateCh) \in Seq(Versions)
    BY <1>1, <1>2, RoutineFields, ChannelHead DEF ReceiveUpdate
  <2>2. S \in Routines /\ S.key = R.key /\ S.stopped = R.stopped /\ S.pc = R.pc /\ Live(i)
    BY <1>1, <1>2, <2>1 DEF ReceiveUpdate, Routines, Live
  <2>3. CASE routine' = [routine EXCEPT ![i] = S]
    BY <2>2, <2>3, KeepsOnOne
  <2>4. CASE Clear(i, "idle", S)
    BY <2>2, <2>4, ClearKeepsOn
  <2>. QED
    BY <1>2, <2>3, <2>4 DEF ReceiveUpdate
<1>3. CASE ReceiveEval(i)
  <2>. DEFINE d == Head(R.evalCh)
              S == [R EXCEPT !.evalCh = Tail(@), !.msg = d, !.current = d.ver]
              T == [S EXCEPT !.pc = "evaluating"]
  <2>1. d \in Defs /\ Tail(R.evalCh) \in Seq(Defs)
    BY <1>1, <1>3, RoutineFields, ChannelHead DEF ReceiveEval
  <2>2. d.ver \in 0..MaxVersion
    BY <2>1, BoundsAssumption DEF Defs, Versions
  <2>3. S \in Routines /\ S.key = R.key /\ S.stopped = R.stopped /\ Live(i)
    BY <1>1, <1>3, <2>1, <2>2 DEF ReceiveEval, Routines, Live
  <2>4. CASE routine' = [routine EXCEPT ![i] = T]
    <3>1. T.key = R.key /\ T.stopped = R.stopped
      BY <2>3 DEF Routines
    <3>. QED
      BY <2>3, <2>4, <3>1, KeepsOnOne
  <2>5. CASE Clear(i, "evaluating", S)
    BY <2>3, <2>5, ClearKeepsOn
  <2>. QED
    BY <1>3, <2>4, <2>5 DEF ReceiveEval
<1>4. CASE ReceiveDone(i)
  <2>. DEFINE S == [R EXCEPT !.current = 0]
  <2>1. S \in Routines /\ S.key = R.key /\ S.stopped = R.stopped
    <3>1. 0 \in 0..MaxVersion
      BY BoundsAssumption
    <3>. QED
      BY <1>1, <3>1 DEF Routines
  <2>2. Clear(i, "exited", S) /\ Live(i)
    BY <1>4 DEF ReceiveDone, Live
  <2>. HIDE DEF S
  <2>. QED
    BY <2>1, <2>2, ClearKeepsOn
<1>5. CASE ClearRows(i)
  BY <1>1, <1>5 DEF ClearRows, KeepsOn, Live, Routines
<1>6. CASE StopAlerts(i)
  BY <1>1, <1>6 DEF StopAlerts, KeepsOn, Live, Routines
<1>7. CASE FinishEval(i)
  <2>. DEFINE S == [R EXCEPT !.pc = "idle", !.msg = NoDef]
              T == [R EXCEPT !.pc = "processing"]
  <2>1. /\ S.key = R.key /\ S.stopped = R.stopped
        /\ T.key = R.key /\ T.stopped = R.stopped /\ Live(i)
    BY <1>1, <1>7 DEF FinishEval, Routines, Live
  <2>2. routine' = [routine EXCEPT ![i] = S] \/ routine' = [routine EXCEPT ![i] = T]
    BY <1>7 DEF FinishEval
  <2>. HIDE DEF S, T
  <2>. QED
    BY <2>1, <2>2, KeepsOnOne
<1>8. CASE ProcessResults(i)
  BY <1>1, <1>8 DEF ProcessResults, KeepsOn, Live, Routines
<1>9. CASE SaveStates(i)
  BY <1>1, <1>9 DEF SaveStates, KeepsOn, Live, Routines
<1>10. CASE PutSent(i)
  <2>. DEFINE S == [R EXCEPT !.pc = "sending"]
              T == [R EXCEPT !.pc = "idle", !.gone = {}, !.msg = NoDef]
  <2>1. /\ S.key = R.key /\ S.stopped = R.stopped
        /\ T.key = R.key /\ T.stopped = R.stopped /\ Live(i)
    BY <1>1, <1>10 DEF PutSent, Routines, Live
  <2>2. routine' = [routine EXCEPT ![i] = S] \/ routine' = [routine EXCEPT ![i] = T]
    BY <1>10 DEF PutSent
  <2>. HIDE DEF S, T
  <2>. QED
    BY <2>1, <2>2, KeepsOnOne
<1>11. CASE SendAlerts(i)
  BY <1>1, <1>11 DEF SendAlerts, KeepsOn, Live, Routines
<1>. QED
  BY <1>2, <1>3, <1>4, <1>5, <1>6, <1>7, <1>8, <1>9, <1>10, <1>11 DEF RoutineStep

(* A message changes nothing but a channel.                                *)
LEMMA ChannelKeepsOn ==
    ASSUME TypeOK, NEW i \in Infos, NEW ch, NEW j \in Infos,
           \/ routine' = [routine EXCEPT ![i].evalCh = ch]
           \/ routine' = [routine EXCEPT ![i].updateCh = ch]
    PROVE  KeepsOn(j)
<1>. DEFINE E == [routine[i] EXCEPT !.evalCh = ch]
            U == [routine[i] EXCEPT !.updateCh = ch]
<1>1. /\ E.key = routine[i].key /\ E.pc = routine[i].pc /\ E.stopped = routine[i].stopped
      /\ U.key = routine[i].key /\ U.pc = routine[i].pc /\ U.stopped = routine[i].stopped
  BY DEF TypeOK, Routines
<1>2. routine' = [routine EXCEPT ![i] = E] \/ routine' = [routine EXCEPT ![i] = U]
  OBVIOUS
<1>. HIDE DEF E, U
<1>. QED
  BY <1>1, <1>2, KeepsOnOne DEF Live

(* And through each message.                                               *)
LEMMA SenderKeepsOn ==
    ASSUME IInv, NEW j \in Infos,
           \/ \E r \in Rules, v \in Versions : BeginUpdate(r, v)
           \/ \E i \in Infos : \/ Stop(i) \/ GiveUp(i)
                               \/ \E v \in Versions : OfferUpdate(i, v)
                               \/ \E d \in Defs : TimerFires(i, d) \/ OfferEval(i, d)
    PROVE  KeepsOn(j)
<1>1. routine \in [Infos -> Routines]
  BY DEF IInv, TypeOK
<1>2. ASSUME NEW r \in Rules, NEW v \in Versions, BeginUpdate(r, v) PROVE KeepsOn(j)
  <2>. DEFINE k == registry[r]
              ch == Tail(routine[k].updateCh)
  <2>1. \/ UNCHANGED routine
        \/ k \in Infos /\ routine' = [routine EXCEPT ![k].updateCh = ch]
    BY <1>2 DEF BeginUpdate, IInv, TypeOK
  <2>. HIDE DEF k, ch
  <2>2. CASE UNCHANGED routine
    BY <2>2 DEF KeepsOn, Live
  <2>. QED
    BY <2>1, <2>2, ChannelKeepsOn DEF IInv
<1>3. ASSUME NEW i \in Infos, NEW v \in Versions, OfferUpdate(i, v) PROVE KeepsOn(j)
  BY <1>1, <1>3 DEF OfferUpdate, KeepsOn, Live, Routines
<1>4. ASSUME NEW i \in Infos, Stop(i) PROVE KeepsOn(j)
  BY <1>1, <1>4 DEF Stop, KeepsOn, Live, Routines
<1>5. ASSUME NEW i \in Infos, GiveUp(i) PROVE KeepsOn(j)
  <2>. DEFINE e == Tail(routine[i].evalCh)
              u == Tail(routine[i].updateCh)
  <2>1. \/ routine' = [routine EXCEPT ![i].evalCh = e]
        \/ routine' = [routine EXCEPT ![i].updateCh = u]
    BY <1>5 DEF GiveUp
  <2>. HIDE DEF e, u
  <2>. QED
    BY <2>1, ChannelKeepsOn DEF IInv
<1>6. ASSUME NEW i \in Infos, NEW d \in Defs, TimerFires(i, d) PROVE KeepsOn(j)
  BY <1>1, <1>6 DEF TimerFires, KeepsOn, Live, Routines
<1>7. ASSUME NEW i \in Infos, NEW d \in Defs, OfferEval(i, d) PROVE KeepsOn(j)
  BY <1>1, <1>7 DEF OfferEval, KeepsOn, Live, Routines
<1>. QED
  BY <1>2, <1>3, <1>4, <1>5, <1>6, <1>7

(* Whoever takes a routine out of the registry remembers to stop it, and a *)
(* new one is registered before it runs.                                   *)
Owned(j) == \/ registry[routine[j].key] = j
            \/ j \in stopping
            \/ tick.stop = j

(* No step of the scheduler leaves a routine that nobody will stop.        *)
LEMMA NoLeakedNext ==
    ASSUME IInv, NoLeakedRoutine, [Next]_vars
    PROVE  NoLeakedRoutine'
<1>. USE DEF dbVars, stateVars, apiVars, senderVars
<1>. SUFFICES ASSUME NEW j \in Infos,
                     routine'[j].pc \notin {"none", "exited"},
                     ~routine'[j].stopped
              PROVE  Owned(j)'
  BY DEF NoLeakedRoutine, Live, Owned
<1>1. /\ routine \in [Infos -> Routines]
      /\ registry \in [Rules -> Infos \cup {NoInfo}]
      /\ tick \in Ticks
      /\ j # NoInfo
      /\ Live(j) => routine[j].key \in Rules
  BY NoInfoAssumption DEF IInv, TypeOK, RoutinesComplete, Complete, Live
<1>2. KeepsOn(j) => Owned(j)
  BY DEF KeepsOn, NoLeakedRoutine, Owned
<1>3. CASE UNCHANGED vars
  BY <1>2, <1>3 DEF vars, KeepsOn, Live, Owned
<1>4. ASSUME KeepsOn(j), UNCHANGED <<registry, stopping, tick>>
      PROVE  Owned(j)'
  BY <1>2, <1>4 DEF KeepsOn, Owned
<1>5. ASSUME NEW r \in Rules,
             CreateRule(r) \/ UpdateRule(r) \/ DeleteRule(r) \/ DeleteSchedulable(r)
      PROVE  Owned(j)'
  <2>1. UNCHANGED <<routine, registry, stopping, tick>>
    BY <1>5 DEF CreateRule, UpdateRule, DeleteRule, DeleteSchedulable
  <2>. QED
    BY <1>4, <2>1 DEF KeepsOn, Live
<1>6. ASSUME NEW r \in Rules, DeleteRegistered(r)
      PROVE  Owned(j)'
  BY <1>1, <1>2, <1>6 DEF DeleteRegistered, KeepsOn, Live, Owned
<1>7. ASSUME NEW r \in Rules, NEW v \in Versions, BeginUpdate(r, v)
      PROVE  Owned(j)'
  BY <1>4, <1>7, SenderKeepsOn DEF BeginUpdate
<1>8. ASSUME NEW i \in Infos, Stop(i)
      PROVE  Owned(j)'
  <2>1. KeepsOn(j)
    BY <1>8, SenderKeepsOn
  <2>2. j # i
    BY <1>1, <1>8 DEF Stop, Routines
  <2>3. UNCHANGED <<registry, tick>> /\ stopping' = stopping \ {i}
    BY <1>8 DEF Stop
  <2>. QED
    BY <1>2, <2>1, <2>2, <2>3 DEF KeepsOn, Owned
<1>9. ASSUME NEW i \in Infos, NEW v \in Versions, NEW d \in Defs,
             GiveUp(i) \/ OfferUpdate(i, v) \/ TimerFires(i, d) \/ OfferEval(i, d)
      PROVE  Owned(j)'
  BY <1>4, <1>9, SenderKeepsOn DEF GiveUp, OfferUpdate, TimerFires, OfferEval, EvalUnchanged
<1>10. ASSUME NEW i \in Infos, RoutineStep(i)
       PROVE  Owned(j)'
  <2>1. UNCHANGED <<registry, stopping, tick>>
    BY <1>10 DEF RoutineStep, ReceiveUpdate, ReceiveEval, ReceiveDone, ClearRows, StopAlerts,
       FinishEval, ProcessResults, SaveStates, PutSent, SendAlerts, RoutineUnchanged
  <2>. QED
    BY <1>4, <1>10, <2>1, RoutineKeepsOn
<1>11. CASE \/ FetchKeys \/ FetchRules \/ SetRules \/ ListRules \/ StartTimers \/ EndTick
  <2>1. UNCHANGED <<routine, registry, stopping>>
    BY <1>11 DEF FetchKeys, FetchRules, SetRules, ListRules, StartTimers, EndTick, TickUnchanged
  <2>2. tick'.stop = tick.stop
    <3>1. CASE FetchKeys
      BY <1>1, <3>1 DEF FetchKeys, Ticks
    <3>2. CASE FetchRules
      BY <1>1, <3>2 DEF FetchRules, Ticks
    <3>3. CASE SetRules
      BY <1>1, <3>3 DEF SetRules, Ticks
    <3>4. CASE StartTimers
      BY <1>1, <3>4 DEF StartTimers, Ticks
    <3>5. CASE EndTick
      BY <1>1, <3>5 DEF EndTick, IdleTick
    <3>6. CASE ListRules
      BY <1>1, <3>6 DEF ListRules, Ticks
    <3>. QED
      BY <1>11, <3>1, <3>2, <3>3, <3>4, <3>5, <3>6
  <2>. QED
    BY <1>2, <2>1, <2>2 DEF KeepsOn, Live, Owned
<1>12. ASSUME NEW r \in Rules, ScheduleRule(r)
       PROVE  Owned(j)'
  <2>1. stopping' = stopping /\ tick'.stop = tick.stop
    BY <1>1, <1>12 DEF ScheduleRule, TickUnchanged, Ticks
  <2>2. CASE registry[r] # NoInfo
    BY <1>2, <1>12, <2>1, <2>2 DEF ScheduleRule, KeepsOn, Live, Owned
  <2>3. CASE registry[r] = NoInfo
    <3>1. PICK i \in Infos : /\ registry' = [registry EXCEPT ![r] = i]
                             /\ routine' = [routine EXCEPT ![i] = NewRoutine(r, "idle")]
      BY <1>12, <2>3 DEF ScheduleRule
    <3>2. CASE j = i
      BY <1>1, <3>1, <3>2 DEF NewRoutine, Owned
    <3>3. CASE j # i
      BY <1>1, <1>2, <2>1, <2>3, <3>1, <3>3 DEF KeepsOn, Live, Owned
    <3>. QED
      BY <3>2, <3>3
  <2>. QED
    BY <2>2, <2>3
<1>13. ASSUME NEW r \in Rules, SweepRule(r)
       PROVE  Owned(j)'
  BY <1>1, <1>2, <1>13 DEF SweepRule, TickUnchanged, Ticks, KeepsOn, Live, Owned
<1>14. CASE SweepStop
  BY <1>1, <1>2, <1>14 DEF SweepStop, TickUnchanged, Ticks, Routines, KeepsOn, Live, Owned
<1>15. CASE Crash
  BY <1>15 DEF Crash, NoRoutines, NewRoutine
<1>16. CASE TickStep
  BY <1>11, <1>12, <1>13, <1>14, <1>16 DEF TickStep
<1>17. ASSUME NEW i \in Infos,
              \/ GiveUp(i)
              \/ \E v \in Versions : OfferUpdate(i, v)
              \/ \E d \in Defs : TimerFires(i, d) \/ OfferEval(i, d)
       PROVE  Owned(j)'
  <2>1. 1 \in Versions /\ [gen |-> 0, ver |-> 1] \in Defs
    BY BoundsAssumption DEF Versions, Defs
  <2>. QED
    BY <1>9, <1>17, <2>1
<1>. QED
  BY <1>3, <1>5, <1>6, <1>7, <1>8, <1>10, <1>15, <1>16, <1>17 DEF Next

(* Every routine that is not stopped is registered, or about to be stopped *)
(* by DeleteAlertRule, whoever called that and whenever.                   *)
THEOREM NoRoutineLeaks == Spec => []NoLeakedRoutine
<1>1. Init => NoLeakedRoutine
  BY DEF Init, NoLeakedRoutine, NoRoutines, NewRoutine, Live
<1>. QED
  BY <1>1, InvHolds, NoLeakedNext, PTL DEF Spec
-----------------------------------------------------------------------------
(* States are cleared                                                      *)

(* A routine that has not begun to clear its states for the last time.     *)
Busy(R) == /\ R.pc \notin {"none", "exited"}
           /\ R.pc \in {"clearing", "stopAlerts"} => R.next # "exited"

(* States that were not loaded by Warm have a routine that will clear them *)
(* when it exits.                                                          *)
HasBusyRoutine(r) == \E i \in Infos : routine[i].key = r /\ Busy(routine[i])

StatesHaveRoutine == \A r \in Rules : cache[r] \subseteq warmed[r] \/ HasBusyRoutine(r)

(* Every routine that must still clear the states does so after the step.  *)
StaysBusy == \A j \in Infos : Busy(routine[j]) =>
                 routine'[j].key = routine[j].key /\ Busy(routine'[j])

(* A step that writes the record of one routine (routine[i] is replaced    *)
(* by R) leaves the other routines as busy as they were.                   *)
LEMMA BusyOne ==
    ASSUME TypeOK, NEW i \in Infos, NEW R, routine' = [routine EXCEPT ![i] = R],
           Busy(routine[i]) => R.key = routine[i].key /\ Busy(R)
    PROVE  StaysBusy
BY DEF StaysBusy, TypeOK

(* A message changes nothing but a channel.                                *)
LEMMA ChannelBusy ==
    ASSUME TypeOK, NEW i \in Infos, NEW ch,
           \/ routine' = [routine EXCEPT ![i].evalCh = ch]
           \/ routine' = [routine EXCEPT ![i].updateCh = ch]
    PROVE  StaysBusy
<1>. DEFINE E == [routine[i] EXCEPT !.evalCh = ch]
            U == [routine[i] EXCEPT !.updateCh = ch]
<1>1. /\ E.key = routine[i].key /\ E.pc = routine[i].pc /\ E.next = routine[i].next
      /\ U.key = routine[i].key /\ U.pc = routine[i].pc /\ U.next = routine[i].next
  BY DEF TypeOK, Routines
<1>2. routine' = [routine EXCEPT ![i] = E] \/ routine' = [routine EXCEPT ![i] = U]
  OBVIOUS
<1>. HIDE DEF E, U
<1>. QED
  BY <1>1, <1>2, BusyOne DEF Busy

(* Neither a message nor a cancelled context makes a routine exit: it does *)
(* that itself.                                                            *)
LEMMA SenderBusy ==
    ASSUME IInv,
           \/ \E r \in Rules, v \in Versions : BeginUpdate(r, v)
           \/ \E i \in Infos : \/ Stop(i) \/ GiveUp(i)
                               \/ \E v \in Versions : OfferUpdate(i, v)
                               \/ \E d \in Defs : TimerFires(i, d) \/ OfferEval(i, d)
    PROVE  StaysBusy /\ UNCHANGED <<cache, warmed>>
<1>. USE DEF IInv, stateVars, EvalUnchanged
<1>1. ASSUME NEW r \in Rules, NEW v \in Versions, BeginUpdate(r, v)
      PROVE  StaysBusy /\ UNCHANGED <<cache, warmed>>
  <2>. DEFINE k == registry[r]
              ch == Tail(routine[k].updateCh)
  <2>1. \/ UNCHANGED routine
        \/ k \in Infos /\ routine' = [routine EXCEPT ![k].updateCh = ch]
    BY <1>1 DEF BeginUpdate, TypeOK
  <2>2. UNCHANGED <<cache, warmed>>
    BY <1>1 DEF BeginUpdate
  <2>. HIDE DEF k, ch
  <2>3. CASE UNCHANGED routine
    BY <2>2, <2>3 DEF StaysBusy
  <2>. QED
    BY <2>1, <2>2, <2>3, ChannelBusy
<1>2. ASSUME NEW i \in Infos, Stop(i)
      PROVE  StaysBusy /\ UNCHANGED <<cache, warmed>>
  BY <1>2 DEF Stop, StaysBusy, Busy, TypeOK, Routines
<1>3. ASSUME NEW i \in Infos, GiveUp(i)
      PROVE  StaysBusy /\ UNCHANGED <<cache, warmed>>
  BY <1>3, ChannelBusy DEF GiveUp
<1>4. ASSUME NEW i \in Infos, NEW v \in Versions, OfferUpdate(i, v)
      PROVE  StaysBusy /\ UNCHANGED <<cache, warmed>>
  BY <1>4, ChannelBusy DEF OfferUpdate
<1>5. ASSUME NEW i \in Infos, NEW d \in Defs, TimerFires(i, d)
      PROVE  StaysBusy /\ UNCHANGED <<cache, warmed>>
  BY <1>5, ChannelBusy DEF TimerFires
<1>6. ASSUME NEW i \in Infos, NEW d \in Defs, OfferEval(i, d)
      PROVE  StaysBusy /\ UNCHANGED <<cache, warmed>>
  BY <1>6, ChannelBusy DEF OfferEval
<1>. QED
  BY <1>1, <1>2, <1>3, <1>4, <1>5, <1>6

(* The tick loop starts and stops routines, but makes none exit.           *)
LEMMA TickBusy ==
    ASSUME IInv, TickStep
    PROVE  StaysBusy /\ UNCHANGED <<cache, warmed>>
<1>. USE DEF IInv, stateVars, TickUnchanged
<1>1. CASE FetchKeys \/ FetchRules \/ SetRules \/ ListRules \/ StartTimers \/ EndTick
           \/ \E r \in Rules : SweepRule(r)
  BY <1>1 DEF FetchKeys, FetchRules, SetRules, ListRules, StartTimers, EndTick, SweepRule,
     StaysBusy
<1>2. ASSUME NEW r \in Rules, ScheduleRule(r)
      PROVE  StaysBusy /\ UNCHANGED <<cache, warmed>>
  <2>1. UNCHANGED routine
        \/ \E i \in Infos : ~Live(i) /\ routine' = [routine EXCEPT ![i] = NewRoutine(r, "idle")]
    BY <1>2 DEF ScheduleRule, Free
  <2>. QED
    BY <1>2, <2>1, BusyOne DEF ScheduleRule, StaysBusy, Busy, Live
<1>3. CASE SweepStop
  BY <1>3 DEF SweepStop, StaysBusy, Busy, TypeOK, Routines
<1>. QED
  BY <1>1, <1>2, <1>3 DEF TickStep
(* clearState before a new version makes no routine exit.                  *)
LEMMA ClearBusy ==
    ASSUME TypeOK, NEW i \in Infos, NEW R \in Routines,
           R.key = routine[i].key, NEW next \in {"idle", "evaluating"}, Clear(i, next, R)
    PROVE  StaysBusy
<1>1. CASE cache[R.key] = {}
  <2>. DEFINE S == [R EXCEPT !.pc = next]
  <2>1. S.key = R.key /\ Busy(S) /\ routine' = [routine EXCEPT ![i] = S]
    BY <1>1 DEF Clear, Routines, Busy
  <2>. QED
    BY <2>1, BusyOne
<1>2. CASE cache[R.key] # {}
  <2>. DEFINE S == [R EXCEPT !.pc = "clearing", !.gone = cache[R.key], !.next = next]
  <2>1. S.key = R.key /\ Busy(S) /\ routine' = [routine EXCEPT ![i] = S]
    BY <1>2 DEF Clear, Routines, Busy
  <2>. QED
    BY <2>1, BusyOne
<1>. QED
  BY <1>1, <1>2

(* A routine that exits clears the states of its rule, whoever made them;  *)
(* one that adds states is busy.                                           *)
LEMMA RoutineClears ==
    ASSUME IInv, StatesHaveRoutine, NEW i \in Infos, RoutineStep(i)
    PROVE  StatesHaveRoutine'
<1>. USE DEF IInv, stateVars
<1>. DEFINE R == routine[i]
            k == routine[i].key
<1>1. R \in Routines /\ Complete(R) /\ cache \in [Rules -> SUBSET Defs]
      /\ warmed \in [Rules -> SUBSET Defs]
  BY DEF TypeOK, RoutinesComplete
<1>2. ASSUME StaysBusy,
             \A r \in Rules : \/ cache'[r] \subseteq warmed'[r]
                              \/ cache'[r] = cache[r] /\ warmed'[r] = warmed[r]
                              \/ HasBusyRoutine(r)
      PROVE  StatesHaveRoutine'
  BY <1>2 DEF StatesHaveRoutine, StaysBusy, HasBusyRoutine
<1>3. ASSUME NEW S, NEW next, Clear(i, next, S), S.key = k, k \in Rules
      PROVE  \A r \in Rules : \/ cache'[r] \subseteq warmed'[r]
                              \/ cache'[r] = cache[r] /\ warmed'[r] = warmed[r] /\ r # k
  <2>1. /\ cache' = [cache EXCEPT ![k] = {}]
        /\ warmed' = [warmed EXCEPT ![k] = {}]
    BY <1>3 DEF Clear
  <2>. TAKE r \in Rules
  <2>2. CASE r = k
    BY <1>1, <1>3, <2>1, <2>2
  <2>3. CASE r # k
    BY <1>1, <2>1, <2>3
  <2>. QED
    BY <2>2, <2>3
<1>4. CASE ReceiveUpdate(i)
  <2>. DEFINE S == [R EXCEPT !.updateCh = Tail(@)]
  <2>1. Tail(R.updateCh) \in Seq(Versions)
    BY <1>1, <1>4, RoutineFields, ChannelHead DEF ReceiveUpdate
  <2>2. S \in Routines /\ S.key = k /\ k \in Rules
    BY <1>1, <1>4, <2>1 DEF ReceiveUpdate, Routines, Complete
  <2>3. CASE routine' = [routine EXCEPT ![i].updateCh = Tail(R.updateCh)]
             /\ UNCHANGED <<cache, warmed>>
    BY <1>2, <2>3, ChannelBusy
  <2>4. CASE Clear(i, "idle", S)
    <3>. HIDE DEF S
    <3>1. StaysBusy
      BY <2>2, <2>4, ClearBusy
    <3>. QED
      BY <1>2, <1>3, <2>2, <2>4, <3>1
  <2>. QED
    BY <1>4, <2>3, <2>4 DEF ReceiveUpdate
<1>5. CASE ReceiveEval(i)
  <2>. DEFINE d == Head(R.evalCh)
              S == [R EXCEPT !.evalCh = Tail(@), !.msg = d, !.current = d.ver]
              T == [S EXCEPT !.pc = "evaluating"]
  <2>1. d \in Defs /\ Tail(R.evalCh) \in Seq(Defs)
    BY <1>1, <1>5, RoutineFields, ChannelHead DEF ReceiveEval
  <2>2. d.ver \in 0..MaxVersion
    BY <2>1, BoundsAssumption DEF Defs, Versions
  <2>3. S \in Routines /\ S.key = k /\ k \in Rules
    BY <1>1, <1>5, <2>1, <2>2 DEF ReceiveEval, Routines, Complete
  <2>4. CASE routine' = [routine EXCEPT ![i] = T] /\ UNCHANGED <<cache, warmed>>
    <3>1. T.key = k /\ Busy(T)
      BY <2>3 DEF Routines, Busy
    <3>2. StaysBusy
      BY <2>4, <3>1, BusyOne
    <3>. QED
      BY <1>2, <2>4, <3>2
  <2>5. CASE Clear(i, "evaluating", S)
    <3>. HIDE DEF S
    <3>1. StaysBusy
      BY <2>3, <2>5, ClearBusy
    <3>. QED
      BY <1>2, <1>3, <2>3, <2>5, <3>1
  <2>. QED
    BY <1>5, <2>4, <2>5 DEF ReceiveEval
<1>6. CASE ReceiveDone(i)
  <2>. DEFINE S == [R EXCEPT !.current = 0]
  <2>1. S.key = k /\ k \in Rules /\ Clear(i, "exited", S)
    BY <1>1, <1>6 DEF ReceiveDone, Routines, Complete
  <2>2. \A j \in Infos : j # i => routine'[j] = routine[j]
    BY <1>6 DEF ReceiveDone, Clear, TypeOK
  <2>3. ASSUME NEW r \in Rules, r # k, HasBusyRoutine(r)
        PROVE  HasBusyRoutine(r)'
    <3>1. PICK j \in Infos : routine[j].key = r /\ Busy(routine[j])
      BY <2>3 DEF HasBusyRoutine
    <3>2. j # i
      BY <2>3, <3>1
    <3>. QED
      BY <2>2, <3>1, <3>2 DEF HasBusyRoutine
  <2>4. \A r \in Rules : \/ cache'[r] \subseteq warmed'[r]
                         \/ cache'[r] = cache[r] /\ warmed'[r] = warmed[r] /\ r # k
    BY <1>3, <2>1
  <2>. QED
    BY <2>3, <2>4 DEF StatesHaveRoutine
<1>7. ASSUME NEW S, routine' = [routine EXCEPT ![i] = S], S.key = k,
             Busy(R) => Busy(S), UNCHANGED <<cache, warmed>>
      PROVE  StatesHaveRoutine'
  BY <1>2, <1>7, BusyOne
<1>8. CASE ClearRows(i)
  <2>. DEFINE S == [R EXCEPT !.pc = "stopAlerts"]
  <2>1. S.key = k /\ (Busy(R) => Busy(S))
    BY <1>1, <1>8 DEF ClearRows, Routines, Busy
  <2>. QED
    BY <1>7, <1>8, <2>1 DEF ClearRows
<1>9. CASE StopAlerts(i)
  <2>. DEFINE S == [R EXCEPT !.pc = R.next, !.gone = {}, !.next = "none"]
  <2>1. S.key = k /\ (Busy(R) => Busy(S))
    BY <1>1, <1>9 DEF StopAlerts, Routines, Busy, Complete
  <2>. QED
    BY <1>7, <1>9, <2>1 DEF StopAlerts
<1>10. CASE FinishEval(i)
  <2>. DEFINE S == IF R.stopped THEN [R EXCEPT !.pc = "idle", !.msg = NoDef]
                   ELSE [R EXCEPT !.pc = "processing"]
  <2>1. S.key = k /\ Busy(S)
    BY <1>1 DEF Routines, Busy
  <2>2. routine' = [routine EXCEPT ![i] = S]
    BY <1>10 DEF FinishEval
  <2>. QED
    BY <1>7, <1>10, <2>1, <2>2 DEF FinishEval
<1>11. CASE SaveStates(i)
  <2>. DEFINE S == [R EXCEPT !.pc = "putting"]
  <2>1. S.key = k /\ Busy(S)
    BY <1>1 DEF Routines, Busy
  <2>. QED
    BY <1>7, <1>11, <2>1 DEF SaveStates
<1>12. CASE SendAlerts(i)
  <2>. DEFINE S == [R EXCEPT !.pc = "idle", !.gone = {}, !.msg = NoDef]
  <2>1. S.key = k /\ Busy(S)
    BY <1>1 DEF Routines, Busy
  <2>2. routine' = [routine EXCEPT ![i] = S]
    BY <1>12 DEF SendAlerts
  <2>. QED
    BY <1>7, <1>12, <2>1, <2>2 DEF SendAlerts
<1>13. CASE ProcessResults(i)
  <2>1. PICK stale \in SUBSET (cache[k] \ {R.msg}) :
          /\ cache' = [cache EXCEPT ![k] = (@ \ stale) \cup {R.msg}]
          /\ warmed' = [warmed EXCEPT ![k] = @ \ (stale \cup {R.msg})]
          /\ routine' = [routine EXCEPT ![i].pc = "saving", ![i].gone = stale]
    BY <1>13 DEF ProcessResults
  <2>. DEFINE S == [R EXCEPT !.pc = "saving", !.gone = stale]
  <2>2. S.key = k /\ Busy(S) /\ Busy(R)
    BY <1>1, <1>13 DEF Routines, Busy, ProcessResults
  <2>3. routine' = [routine EXCEPT ![i] = S]
    BY <2>1
  <2>4. StaysBusy
    BY <2>2, <2>3, BusyOne
  <2>5. HasBusyRoutine(k)
    BY <2>2 DEF HasBusyRoutine
  <2>. QED
    BY <1>1, <1>2, <2>1, <2>4, <2>5
<1>14. CASE PutSent(i)
  <2>. DEFINE S == [R EXCEPT !.pc = "sending"]
              T == [R EXCEPT !.pc = "idle", !.gone = {}, !.msg = NoDef]
  <2>1. S.key = k /\ Busy(S) /\ T.key = k /\ Busy(T) /\ Busy(R)
    BY <1>1, <1>14 DEF Routines, Busy, PutSent
  <2>2. routine' = [routine EXCEPT ![i] = S] \/ routine' = [routine EXCEPT ![i] = T]
    BY <1>14 DEF PutSent
  <2>3. StaysBusy
    BY <2>1, <2>2, BusyOne
  <2>4. HasBusyRoutine(k)
    BY <2>1 DEF HasBusyRoutine
  <2>5. \A r \in Rules : r # k => cache'[r] = cache[r] /\ warmed'[r] = warmed[r]
    BY <1>1, <1>14 DEF PutSent
  <2>. QED
    BY <1>2, <2>3, <2>4, <2>5
<1>. QED
  BY <1>4, <1>5, <1>6, <1>8, <1>9, <1>10, <1>11, <1>12, <1>13, <1>14 DEF RoutineStep

(* So do the other steps of the scheduler.                                 *)
LEMMA StatesNext ==
    ASSUME IInv, StatesHaveRoutine, [Next]_vars
    PROVE  StatesHaveRoutine'
<1>. USE DEF dbVars, stateVars, apiVars, senderVars
<1>1. ASSUME StaysBusy, UNCHANGED <<cache, warmed>>
      PROVE  StatesHaveRoutine'
  BY <1>1 DEF StatesHaveRoutine, StaysBusy, HasBusyRoutine
<1>2. CASE UNCHANGED vars
  BY <1>1, <1>2 DEF vars, StaysBusy
<1>3. ASSUME NEW r \in Rules,
             \/ CreateRule(r) \/ UpdateRule(r) \/ DeleteRule(r)
             \/ DeleteSchedulable(r) \/ DeleteRegistered(r)
      PROVE  StatesHaveRoutine'
  BY <1>1, <1>3 DEF CreateRule, UpdateRule, DeleteRule, DeleteSchedulable, DeleteRegistered,
     StaysBusy
<1>4. ASSUME NEW i \in Infos,
             \/ Stop(i) \/ GiveUp(i)
             \/ \E v \in Versions : OfferUpdate(i, v)
             \/ \E d \in Defs : TimerFires(i, d) \/ OfferEval(i, d)
      PROVE  StatesHaveRoutine'
  BY <1>1, <1>4, SenderBusy
<1>8. ASSUME NEW r \in Rules, NEW v \in Versions, BeginUpdate(r, v)
      PROVE  StatesHaveRoutine'
  BY <1>1, <1>8, SenderBusy
<1>5. CASE TickStep
  BY <1>1, <1>5, TickBusy
<1>6. CASE Crash
  BY <1>6 DEF Crash, StatesHaveRoutine
<1>7. ASSUME NEW i \in Infos, RoutineStep(i)
      PROVE  StatesHaveRoutine'
  BY <1>7, RoutineClears
<1>. HIDE DEF dbVars, stateVars, apiVars, senderVars
<1>. QED
  BY <1>2, <1>3, <1>4, <1>5, <1>6, <1>7, <1>8 DEF Next

(* When the routines of a deleted rule are gone, so are all states they    *)
(* made, however many there were and whatever order they ended in.         *)
THEOREM DeletedRuleLosesState == Spec => []DeletedRuleHasNoState
<1>1. Init => StatesHaveRoutine
  BY DEF Init, StatesHaveRoutine
<1>2. StatesHaveRoutine => DeletedRuleHasNoState
  BY DEF StatesHaveRoutine, HasBusyRoutine, Busy, DeletedRuleHasNoState, Forgotten, Live
<1>. QED
  BY <1>1, <1>2, InvHolds, StatesNext, PTL DEF Spec
-----------------------------------------------------------------------------
(* Versions of states                                                      *)

(* What a routine works on is what it evaluated last, and it has forgotten *)
(* that when it is about to exit.                                          *)
Versioned(R) == /\ R.pc \in EvalSteps \/ R.next = "evaluating" => R.msg.ver = R.current
                /\ R.next = "exited" => R.current = 0

(* R is the record of a routine of r that evaluated the version of d last. *)
Maker(R, r, d) == R.pc \notin {"none", "exited"} /\ R.key = r /\ R.current = d.ver

HasMaker(r, d) == \E i \in Infos : Maker(routine[i], r, d)

(* A state that was not loaded by Warm is of the version that a routine    *)
(* which is still there evaluated last.                                    *)
VersionsOK ==
    /\ \A i \in Infos : Versioned(routine[i])
    /\ \A r \in Rules : \A d \in cache[r] \ warmed[r] : HasMaker(r, d)

(* R and S are the record of a routine before and after something that is  *)
(* not its own step.                                                       *)
SameWork(R, S) == /\ S.key = R.key /\ S.pc = R.pc /\ S.next = R.next
                  /\ S.current = R.current /\ S.msg = R.msg /\ S.gone = R.gone

NobodyWorks == \A j \in Infos : SameWork(routine[j], routine'[j])

(* A message and a cancelled context are not work.                         *)
LEMMA ChannelWork ==
    ASSUME TypeOK, NEW i \in Infos, NEW ch,
           \/ routine' = [routine EXCEPT ![i].evalCh = ch]
           \/ routine' = [routine EXCEPT ![i].updateCh = ch]
           \/ routine' = [routine EXCEPT ![i].stopped = ch]
    PROVE  NobodyWorks
<1>. DEFINE E == [routine[i] EXCEPT !.evalCh = ch]
            U == [routine[i] EXCEPT !.updateCh = ch]
            D == [routine[i] EXCEPT !.stopped = ch]
<1>1. SameWork(routine[i], E) /\ SameWork(routine[i], U) /\ SameWork(routine[i], D)
  BY DEF TypeOK, Routines, SameWork
<1>2. \/ routine' = [routine EXCEPT ![i] = E]
      \/ routine' = [routine EXCEPT ![i] = U]
      \/ routine' = [routine EXCEPT ![i] = D]
  OBVIOUS
<1>. HIDE DEF E, U, D
<1>3. \A j \in Infos : j # i => routine'[j] = routine[j]
  BY <1>2 DEF TypeOK
<1>4. SameWork(routine[i], routine'[i])
  BY <1>1, <1>2 DEF TypeOK
<1>. QED
  BY <1>3, <1>4 DEF NobodyWorks, SameWork

(* The steps of the API and of the senders are no work of a routine.       *)
LEMMA SenderWork ==
    ASSUME IInv,
           \/ \E r \in Rules : \/ CreateRule(r) \/ UpdateRule(r) \/ DeleteRule(r)
                               \/ DeleteSchedulable(r) \/ DeleteRegistered(r)
                               \/ \E v \in Versions : BeginUpdate(r, v)
           \/ \E i \in Infos : \/ Stop(i) \/ GiveUp(i)
                               \/ \E v \in Versions : OfferUpdate(i, v)
                               \/ \E d \in Defs : TimerFires(i, d) \/ OfferEval(i, d)
    PROVE  NobodyWorks /\ UNCHANGED <<cache, warmed, firing, crashes, overlapped>>
<1>. USE DEF IInv, stateVars, EvalUnchanged
<1>. DEFINE Goal == NobodyWorks /\ UNCHANGED <<cache, warmed, firing, crashes, overlapped>>
<1>1. ASSUME UNCHANGED routine PROVE NobodyWorks
  BY <1>1 DEF NobodyWorks, SameWork
<1>2. ASSUME NEW r \in Rules,
             \/ CreateRule(r) \/ UpdateRule(r) \/ DeleteRule(r)
             \/ DeleteSchedulable(r) \/ DeleteRegistered(r)
      PROVE  Goal
  BY <1>1, <1>2 DEF CreateRule, UpdateRule, DeleteRule, DeleteSchedulable, DeleteRegistered
<1>3. ASSUME NEW r \in Rules, NEW v \in Versions, BeginUpdate(r, v)
      PROVE  Goal
  <2>. DEFINE k == registry[r]
              ch == Tail(routine[k].updateCh)
  <2>1. \/ UNCHANGED routine
        \/ k \in Infos /\ routine' = [routine EXCEPT ![k].updateCh = ch]
    BY <1>3 DEF BeginUpdate, TypeOK
  <2>2. UNCHANGED <<cache, warmed, firing, crashes, overlapped>>
    BY <1>3 DEF BeginUpdate
  <2>. HIDE DEF k, ch
  <2>. QED
    BY <1>1, <2>1, <2>2, ChannelWork
<1>4. ASSUME NEW i \in Infos, Stop(i) PROVE Goal
  BY <1>4, ChannelWork DEF Stop
<1>5. ASSUME NEW i \in Infos, GiveUp(i) PROVE Goal
  BY <1>5, ChannelWork DEF GiveUp
<1>6. ASSUME NEW i \in Infos, NEW v \in Versions, OfferUpdate(i, v) PROVE Goal
  BY <1>6, ChannelWork DEF OfferUpdate
<1>7. ASSUME NEW i \in Infos, NEW d \in Defs, TimerFires(i, d) PROVE Goal
  BY <1>7, ChannelWork DEF TimerFires
<1>8. ASSUME NEW i \in Infos, NEW d \in Defs, OfferEval(i, d) PROVE Goal
  BY <1>8, ChannelWork DEF OfferEval
<1>. QED
  BY <1>2, <1>3, <1>4, <1>5, <1>6, <1>7, <1>8

(* Routine i of rule r is new.                                             *)
Starts(r, i) == /\ ~Live(i)
                /\ routine' = [routine EXCEPT ![i] = NewRoutine(r, "idle")]
                /\ overlapped' = IF \E j \in Infos : Live(j) /\ routine[j].key = r
                                 THEN overlapped \cup {r} ELSE overlapped

(* Nor does the tick loop work for a routine; it may start one.            *)
LEMMA TickWork ==
    ASSUME IInv, TickStep
    PROVE  /\ UNCHANGED <<cache, warmed, firing, crashes>>
           /\ \/ NobodyWorks /\ UNCHANGED overlapped
              \/ \E r \in Rules, i \in Infos : Starts(r, i)
<1>. USE DEF IInv, stateVars, TickUnchanged
<1>1. ASSUME UNCHANGED routine PROVE NobodyWorks
  BY <1>1 DEF NobodyWorks, SameWork
<1>2. CASE FetchKeys \/ FetchRules \/ SetRules \/ ListRules \/ StartTimers \/ EndTick
           \/ \E r \in Rules : SweepRule(r)
  <2>1. UNCHANGED routine /\ UNCHANGED <<cache, warmed, firing, crashes, overlapped>>
    <3>1. CASE FetchKeys \/ FetchRules \/ SetRules
      BY <3>1 DEF FetchKeys, FetchRules, SetRules
    <3>2. CASE ListRules \/ StartTimers \/ EndTick
      BY <3>2 DEF ListRules, StartTimers, EndTick
    <3>3. CASE \E r \in Rules : SweepRule(r)
      BY <3>3 DEF SweepRule
    <3>. QED
      BY <1>2, <3>1, <3>2, <3>3
  <2>. QED
    BY <1>1, <2>1
<1>3. ASSUME NEW r \in Rules, ScheduleRule(r)
      PROVE  /\ UNCHANGED <<cache, warmed, firing, crashes>>
             /\ \/ NobodyWorks /\ UNCHANGED overlapped
                \/ \E i \in Infos : Starts(r, i)
  <2>1. UNCHANGED <<cache, warmed, firing, crashes>>
    BY <1>3 DEF ScheduleRule
  <2>2. CASE registry[r] # NoInfo
    <3>1. UNCHANGED <<routine, overlapped>>
      BY <1>3, <2>2 DEF ScheduleRule
    <3>. QED
      BY <1>1, <2>1, <3>1
  <2>3. CASE registry[r] = NoInfo
    <3>1. PICK i \in Infos : Free(i) /\ routine' = [routine EXCEPT ![i] = NewRoutine(r, "idle")]
      BY <1>3, <2>3 DEF ScheduleRule
    <3>2. overlapped' = IF \E j \in Infos : Live(j) /\ routine[j].key = r
                        THEN overlapped \cup {r} ELSE overlapped
      BY <1>3, <2>3 DEF ScheduleRule
    <3>. QED
      BY <2>1, <3>1, <3>2 DEF Free, Starts
  <2>. QED
    BY <2>2, <2>3
<1>4. CASE SweepStop
  <2>1. tick.stop \in Infos
    BY <1>4 DEF SweepStop, TypeOK, Ticks
  <2>. QED
    BY <1>4, <2>1, ChannelWork DEF SweepStop
<1>. QED
  BY <1>2, <1>3, <1>4 DEF TickStep

(* What nobody works on keeps its versions.                                *)
LEMMA IdleVersions ==
    ASSUME VersionsOK, NobodyWorks, UNCHANGED <<cache, warmed>>
    PROVE  VersionsOK'
BY DEF VersionsOK, NobodyWorks, SameWork, Versioned, HasMaker, Maker

(* A routine that works writes what it evaluates, or clears the cache; it  *)
(* forgets the version only when no state is left that it made.            *)
LEMMA WorkVersions ==
    ASSUME IInv, VersionsOK, NEW i \in Infos, NEW S,
           routine' = [routine EXCEPT ![i] = S],
           S.key = routine[i].key, Versioned(S),
           \A r \in Rules : r # S.key => cache'[r] = cache[r] /\ warmed'[r] = warmed[r],
           \/ cache'[S.key] = {}
           \/ /\ routine[i].current = 0
              /\ UNCHANGED <<cache, warmed>>
           \/ /\ S.current = routine[i].current
              /\ S.pc \notin {"none", "exited"}
              /\ \A d \in cache'[S.key] \ warmed'[S.key] :
                    \/ d \in cache[S.key] \ warmed[S.key]
                    \/ d.ver = S.current
    PROVE  VersionsOK'
<1>1. \A j \in Infos : routine'[j] = IF j = i THEN S ELSE routine[j]
  BY DEF IInv, TypeOK
<1>2. \A j \in Infos : Versioned(routine'[j])
  BY <1>1 DEF VersionsOK
<1>3. ASSUME NEW r \in Rules, NEW d \in cache'[r] \ warmed'[r]
      PROVE  HasMaker(r, d)'
  <2>1. ASSUME NEW j \in Infos, Maker(routine[j], r, d), Maker(S, r, d) \/ j # i
        PROVE  HasMaker(r, d)'
    BY <1>1, <2>1 DEF HasMaker
  <2>2. CASE r # S.key
    <3>1. PICK j \in Infos : Maker(routine[j], r, d)
      BY <1>3, <2>2 DEF VersionsOK, HasMaker
    <3>. QED
      BY <2>1, <2>2, <3>1 DEF Maker
  <2>3. CASE r = S.key /\ cache'[S.key] = {}
    BY <1>3, <2>3
  <2>4. CASE r = S.key /\ routine[i].current = 0 /\ UNCHANGED <<cache, warmed>>
    <3>1. PICK j \in Infos : Maker(routine[j], r, d)
      BY <1>3, <2>4 DEF VersionsOK, HasMaker
    <3>2. d \in Defs
      BY <1>3, <2>4 DEF IInv, TypeOK
    <3>3. d.ver # 0
      BY <3>2, BoundsAssumption DEF Defs, Versions
    <3>. QED
      BY <2>1, <2>4, <3>1, <3>3 DEF Maker
  <2>5. CASE /\ r = S.key
             /\ S.current = routine[i].current
             /\ S.pc \notin {"none", "exited"}
             /\ d \in cache[S.key] \ warmed[S.key] \/ d.ver = S.current
    <3>1. CASE d.ver = S.current
      BY <1>1, <2>5, <3>1 DEF HasMaker, Maker
    <3>2. CASE d \in cache[r] \ warmed[r]
      <4>1. PICK j \in Infos : Maker(routine[j], r, d)
        BY <3>2 DEF VersionsOK, HasMaker
      <4>. QED
        BY <2>1, <2>5, <4>1 DEF Maker
    <3>. QED
      BY <2>5, <3>1, <3>2
  <2>. QED
    BY <1>3, <2>2, <2>3, <2>4, <2>5
<1>. QED
  BY <1>2, <1>3 DEF VersionsOK

(* What a routine does when it is told to clear the state.                 *)
LEMMA ClearVersions ==
    ASSUME IInv, VersionsOK, NEW i \in Infos, NEW R \in Routines,
           R.key = routine[i].key, R.key \in Rules, R.next = "none",
           NEW next \in {"idle", "evaluating", "exited"},
           next = "evaluating" => R.msg.ver = R.current,
           next = "exited" => R.current = 0,
           Clear(i, next, R)
    PROVE  VersionsOK'
<1>1. cache \in [Rules -> SUBSET Defs] /\ warmed \in [Rules -> SUBSET Defs]
  BY DEF IInv, TypeOK
<1>2. /\ cache'[R.key] = {}
      /\ \A r \in Rules : r # R.key => cache'[r] = cache[r] /\ warmed'[r] = warmed[r]
  BY <1>1 DEF Clear
<1>3. CASE cache[R.key] = {}
  <2>. DEFINE S == [R EXCEPT !.pc = next]
  <2>1. S.key = R.key /\ Versioned(S) /\ routine' = [routine EXCEPT ![i] = S]
    BY <1>3 DEF Clear, Routines, Versioned, EvalSteps
  <2>. HIDE DEF S
  <2>. QED
    BY <1>2, <2>1, WorkVersions
<1>4. CASE cache[R.key] # {}
  <2>. DEFINE S == [R EXCEPT !.pc = "clearing", !.gone = cache[R.key], !.next = next]
  <2>1. S.key = R.key /\ Versioned(S) /\ routine' = [routine EXCEPT ![i] = S]
    BY <1>4 DEF Clear, Routines, Versioned, EvalSteps
  <2>. HIDE DEF S
  <2>. QED
    BY <1>2, <2>1, WorkVersions
<1>. QED
  BY <1>3, <1>4

(* So does every step of a routine.                                        *)
LEMMA RoutineVersions ==
    ASSUME IInv, VersionsOK, NEW i \in Infos, RoutineStep(i)
    PROVE  VersionsOK'
<1>. USE DEF stateVars
<1>. DEFINE R == routine[i]
            k == routine[i].key
<1>1. /\ R \in Routines /\ Complete(R) /\ Versioned(R)
      /\ cache \in [Rules -> SUBSET Defs]
      /\ warmed \in [Rules -> SUBSET Defs]
  BY DEF IInv, TypeOK, RoutinesComplete, VersionsOK
<1>2. ASSUME NEW S, routine' = [routine EXCEPT ![i] = S], S.key = k, Versioned(S),
             UNCHANGED <<cache, warmed>>,
             \/ R.current = 0
             \/ S.current = R.current /\ S.pc \notin {"none", "exited"}
      PROVE  VersionsOK'
  BY <1>2, WorkVersions
<1>4. CASE ReceiveUpdate(i)
  <2>. DEFINE S == [R EXCEPT !.updateCh = Tail(@)]
  <2>1. Tail(R.updateCh) \in Seq(Versions)
    BY <1>1, <1>4, RoutineFields, ChannelHead DEF ReceiveUpdate
  <2>2. /\ S \in Routines /\ S.key = k /\ k \in Rules /\ S.next = "none"
        /\ S.current = R.current /\ S.pc = "idle" /\ Versioned(S)
    BY <1>1, <1>4, <2>1 DEF ReceiveUpdate, Routines, Complete, Versioned, EvalSteps
  <2>3. CASE routine' = [routine EXCEPT ![i] = S] /\ UNCHANGED <<cache, warmed>>
    <3>. HIDE DEF S
    <3>. QED
      BY <1>2, <2>2, <2>3
  <2>4. CASE Clear(i, "idle", S)
    <3>. HIDE DEF S
    <3>. QED
      BY <2>2, <2>4, ClearVersions
  <2>. QED
    BY <1>4, <2>3, <2>4 DEF ReceiveUpdate
<1>5. CASE ReceiveEval(i)
  <2>. DEFINE d == Head(R.evalCh)
              S == [R EXCEPT !.evalCh = Tail(@), !.msg = d, !.current = d.ver]
              T == [S EXCEPT !.pc = "evaluating"]
  <2>1. d \in Defs /\ Tail(R.evalCh) \in Seq(Defs)
    BY <1>1, <1>5, RoutineFields, ChannelHead DEF ReceiveEval
  <2>2. d.ver \in 0..MaxVersion
    BY <2>1, BoundsAssumption DEF Defs, Versions
  <2>3. /\ S \in Routines /\ S.key = k /\ k \in Rules /\ S.next = "none"
        /\ S.msg.ver = S.current
    BY <1>1, <1>5, <2>1, <2>2 DEF ReceiveEval, Routines, Complete
  <2>4. CASE /\ R.current \in {0, d.ver}
             /\ routine' = [routine EXCEPT ![i] = T]
             /\ UNCHANGED <<cache, warmed>>
    <3>1. /\ T.key = k /\ T.pc = "evaluating" /\ T.current = d.ver /\ T.msg.ver = d.ver
          /\ T.next = "none"
      BY <1>1, <1>5, <2>1, <2>3 DEF Routines
    <3>2. Versioned(T)
      BY <3>1 DEF Versioned
    <3>. HIDE DEF T, d
    <3>. QED
      BY <1>2, <2>4, <3>1, <3>2
  <2>5. CASE Clear(i, "evaluating", S)
    <3>. HIDE DEF S
    <3>. QED
      BY <2>3, <2>5, ClearVersions
  <2>. QED
    BY <1>5, <2>4, <2>5 DEF ReceiveEval
<1>6. CASE ReceiveDone(i)
  <2>. DEFINE S == [R EXCEPT !.current = 0]
  <2>1. Clear(i, "exited", S) /\ R.pc = "idle"
    BY <1>6 DEF ReceiveDone
  <2>2. k \in Rules /\ R.next = "none"
    BY <1>1, <2>1 DEF Complete
  <2>0. 0 \in 0..MaxVersion
    BY BoundsAssumption
  <2>3. S \in Routines
    BY <1>1, <2>0, SMTT(30) DEF Routines
  <2>4. S.key = k /\ S.next = R.next /\ S.current = 0
    BY <1>1 DEF Routines
  <2>. HIDE DEF S
  <2>. QED
    BY <2>1, <2>2, <2>3, <2>4, ClearVersions
<1>8. CASE ClearRows(i)
  <2>. DEFINE S == [R EXCEPT !.pc = "stopAlerts"]
  <2>1. S.key = k /\ S.current = R.current /\ S.pc = "stopAlerts" /\ Versioned(S)
    BY <1>1, <1>8 DEF ClearRows, Routines, Versioned, EvalSteps
  <2>. QED
    BY <1>2, <1>8, <2>1 DEF ClearRows
<1>9. CASE StopAlerts(i)
  <2>. DEFINE S == [R EXCEPT !.pc = R.next, !.gone = {}, !.next = "none"]
  <2>1. S.key = k /\ S.current = R.current /\ S.pc = R.next /\ Versioned(S)
    BY <1>1, <1>9 DEF StopAlerts, Routines, Versioned, EvalSteps, Complete
  <2>2. R.next \in {"idle", "evaluating", "exited"} /\ (R.next = "exited" => R.current = 0)
    BY <1>1, <1>9 DEF StopAlerts, Complete, Versioned
  <2>. QED
    BY <1>2, <1>9, <2>1, <2>2 DEF StopAlerts
<1>10. CASE FinishEval(i)
  <2>. DEFINE S == IF R.stopped THEN [R EXCEPT !.pc = "idle", !.msg = NoDef]
                   ELSE [R EXCEPT !.pc = "processing"]
  <2>1. S.key = k /\ S.current = R.current /\ S.pc \notin {"none", "exited"} /\ Versioned(S)
    BY <1>1, <1>10 DEF FinishEval, Routines, Versioned, EvalSteps, Complete
  <2>2. routine' = [routine EXCEPT ![i] = S] /\ UNCHANGED <<cache, warmed>>
    BY <1>10 DEF FinishEval
  <2>. HIDE DEF S
  <2>. QED
    BY <1>2, <2>1, <2>2
<1>11. CASE SaveStates(i)
  <2>. DEFINE S == [R EXCEPT !.pc = "putting"]
  <2>1. S.key = k /\ S.current = R.current /\ S.pc = "putting" /\ Versioned(S)
    BY <1>1, <1>11 DEF SaveStates, Routines, Versioned, EvalSteps
  <2>. QED
    BY <1>2, <1>11, <2>1 DEF SaveStates
<1>12. CASE SendAlerts(i)
  <2>. DEFINE S == [R EXCEPT !.pc = "idle", !.gone = {}, !.msg = NoDef]
  <2>1. S.key = k /\ S.current = R.current /\ S.pc = "idle" /\ Versioned(S)
    BY <1>1, <1>12 DEF SendAlerts, Routines, Versioned, EvalSteps, Complete
  <2>2. routine' = [routine EXCEPT ![i] = S] /\ UNCHANGED <<cache, warmed>>
    BY <1>12 DEF SendAlerts
  <2>. HIDE DEF S
  <2>. QED
    BY <1>2, <2>1, <2>2
<1>13. CASE ProcessResults(i)
  <2>1. PICK stale \in SUBSET (cache[k] \ {R.msg}) :
          /\ cache' = [cache EXCEPT ![k] = (@ \ stale) \cup {R.msg}]
          /\ warmed' = [warmed EXCEPT ![k] = @ \ (stale \cup {R.msg})]
          /\ routine' = [routine EXCEPT ![i].pc = "saving", ![i].gone = stale]
    BY <1>13 DEF ProcessResults
  <2>. DEFINE S == [R EXCEPT !.pc = "saving", !.gone = stale]
  <2>2. /\ S.key = k /\ S.current = R.current /\ S.pc = "saving" /\ Versioned(S)
        /\ k \in Rules /\ R.msg.ver = R.current
    BY <1>1, <1>13 DEF ProcessResults, Routines, Versioned, EvalSteps, Complete
  <2>3. routine' = [routine EXCEPT ![i] = S]
    BY <2>1
  <2>4. \A r \in Rules : r # k => cache'[r] = cache[r] /\ warmed'[r] = warmed[r]
    BY <1>1, <2>1
  <2>5. \A d \in cache'[k] \ warmed'[k] : d \in cache[k] \ warmed[k] \/ d = R.msg
    BY <1>1, <2>1, <2>2
  <2>. HIDE DEF S
  <2>. QED
    BY <2>2, <2>3, <2>4, <2>5, WorkVersions
<1>14. CASE PutSent(i)
  <2>. DEFINE S == [R EXCEPT !.pc = "sending"]
              T == [R EXCEPT !.pc = "idle", !.gone = {}, !.msg = NoDef]
  <2>1. /\ S.key = k /\ S.current = R.current /\ S.pc = "sending" /\ Versioned(S)
        /\ T.key = k /\ T.current = R.current /\ T.pc = "idle" /\ Versioned(T)
        /\ k \in Rules /\ R.msg.ver = R.current
    BY <1>1, <1>14 DEF PutSent, Routines, Versioned, EvalSteps, Complete
  <2>2. \/ /\ routine' = [routine EXCEPT ![i] = S]
           /\ cache' = [cache EXCEPT ![k] = @ \cup {R.msg}]
           /\ UNCHANGED warmed
        \/ /\ routine' = [routine EXCEPT ![i] = T]
           /\ UNCHANGED <<cache, warmed>>
    BY <1>14 DEF PutSent
  <2>. HIDE DEF S, T
  <2>3. CASE /\ routine' = [routine EXCEPT ![i] = S]
             /\ cache' = [cache EXCEPT ![k] = @ \cup {R.msg}]
             /\ UNCHANGED warmed
    <3>1. \A r \in Rules : r # k => cache'[r] = cache[r] /\ warmed'[r] = warmed[r]
      BY <1>1, <2>3
    <3>2. \A d \in cache'[k] \ warmed'[k] : d \in cache[k] \ warmed[k] \/ d = R.msg
      BY <1>1, <2>1, <2>3
    <3>. QED
      BY <2>1, <2>3, <3>1, <3>2, WorkVersions
  <2>. QED
    BY <1>2, <2>1, <2>2, <2>3
<1>. QED
  BY <1>4, <1>5, <1>6, <1>8, <1>9, <1>10, <1>11, <1>12, <1>13, <1>14 DEF RoutineStep

(* A new routine has evaluated nothing.                                    *)
LEMMA StartVersions ==
    ASSUME IInv, VersionsOK, NEW r \in Rules, NEW i \in Infos, Starts(r, i),
           UNCHANGED <<cache, warmed>>
    PROVE  VersionsOK'
<1>1. \A j \in Infos : routine'[j] = IF j = i THEN NewRoutine(r, "idle") ELSE routine[j]
  BY DEF Starts, IInv, TypeOK
<1>2. Versioned(NewRoutine(r, "idle"))
  BY DEF Versioned, NewRoutine, EvalSteps
<1>3. \A j \in Infos, q \in Rules, d \in Defs : Maker(routine[j], q, d) => j # i
  BY DEF Maker, Starts, Live
<1>4. cache \in [Rules -> SUBSET Defs]
  BY DEF IInv, TypeOK
<1>. QED
  BY <1>1, <1>2, <1>3, <1>4 DEF VersionsOK, HasMaker

(* After a restart nothing but what Warm loaded is in the cache.           *)
LEMMA VersionsNext == IInv /\ VersionsOK /\ [Next]_vars => VersionsOK'
<1>. SUFFICES ASSUME IInv, VersionsOK, [Next]_vars PROVE VersionsOK'
  OBVIOUS
<1>1. CASE UNCHANGED vars
  BY <1>1, IdleVersions DEF vars, stateVars, NobodyWorks, SameWork
<1>2. CASE \/ \E r \in Rules : \/ CreateRule(r) \/ UpdateRule(r) \/ DeleteRule(r)
                               \/ DeleteSchedulable(r) \/ DeleteRegistered(r)
                               \/ \E v \in Versions : BeginUpdate(r, v)
           \/ \E i \in Infos : \/ Stop(i) \/ GiveUp(i)
                               \/ \E v \in Versions : OfferUpdate(i, v)
                               \/ \E d \in Defs : TimerFires(i, d) \/ OfferEval(i, d)
  BY <1>2, SenderWork, IdleVersions
<1>3. CASE TickStep
  BY <1>3, TickWork, IdleVersions, StartVersions
<1>4. ASSUME NEW i \in Infos, RoutineStep(i) PROVE VersionsOK'
  BY <1>4, RoutineVersions
<1>5. CASE Crash
  BY <1>5 DEF Crash, VersionsOK, NoRoutines, NewRoutine, Versioned, EvalSteps
<1>. QED
  BY <1>1, <1>2, <1>3, <1>4, <1>5 DEF Next

(* A routine that is alone with its rule has the version of every state    *)
(* that was not loaded at the start, however many routines there were      *)
(* before, and whatever updates and evaluations they got in which order.   *)
THEOREM StatesMatchVersion == Spec => []StateMatchesVersion
<1>1. Init => VersionsOK
  BY DEF Init, VersionsOK, NoRoutines, NewRoutine, Versioned, EvalSteps
<1>2. IInv /\ VersionsOK => StateMatchesVersion
  <2>. SUFFICES ASSUME IInv, VersionsOK, NEW i \in Infos,
                       Live(i), routine[i].pc = "idle", OnlyRoutine(i),
                       NEW d \in cache[routine[i].key] \ warmed[routine[i].key]
                PROVE  d.ver = routine[i].current
    BY DEF StateMatchesVersion
  <2>1. routine[i].key \in Rules
    BY DEF IInv, RoutinesComplete, Complete, Live
  <2>2. PICK j \in Infos : Maker(routine[j], routine[i].key, d)
    BY <2>1 DEF VersionsOK, HasMaker
  <2>. QED
    BY <2>2 DEF Maker, OnlyRoutine, Live
<1>. QED
  BY <1>1, <1>2, InvHolds, VersionsNext, PTL DEF Spec
-----------------------------------------------------------------------------
(* Alerts are resolved                                                     *)

(* A routine that has no states to resolve has forgotten the last ones.    *)
Tidy(R) == R.pc \in {"idle", "evaluating", "processing"} => R.gone = {}

(* R will resolve those of the firing alerts F that have no state in the   *)
(* cache C; what it is about to send has one.                              *)
Accounted(R, F, C) ==
    /\ Tidy(R)
    /\ F \subseteq C \cup IF R.pc \in {"none", "exited"} THEN {} ELSE R.gone
    /\ R.pc = "sending" => R.msg \in C

RoutineOf(r, i) == Live(i) /\ routine[i].key = r

(* Unless the process died or routines of the rule overlapped, the rule    *)
(* has one routine at most, and that accounts for the alerts that fire.    *)
AlertsOK ==
    crashes = 0 =>
        /\ \A r \in Rules : warmed[r] = {}
        /\ \A r \in Rules \ overlapped :
              /\ \A i, j \in Infos : RoutineOf(r, i) /\ RoutineOf(r, j) => i = j
              /\ \A i \in Infos : RoutineOf(r, i) => Accounted(routine[i], firing[r], cache[r])
              /\ (\A i \in Infos : ~RoutineOf(r, i)) => firing[r] \subseteq cache[r]

(* What nobody works on stays accounted for.                               *)
LEMMA IdleAlerts ==
    ASSUME AlertsOK, NobodyWorks, UNCHANGED <<cache, warmed, firing, crashes, overlapped>>
    PROVE  AlertsOK'
<1>1. \A r \in Rules, i \in Infos : RoutineOf(r, i)' <=> RoutineOf(r, i)
  BY DEF NobodyWorks, SameWork, RoutineOf, Live
<1>2. \A i \in Infos : \A F, C : Accounted(routine[i], F, C) => Accounted(routine'[i], F, C)
  BY DEF NobodyWorks, SameWork, Accounted, Tidy
<1>. QED
  BY <1>1, <1>2 DEF AlertsOK

(* A routine that works accounts for the alerts of its rule only.          *)
LEMMA WorkAlerts ==
    ASSUME IInv, AlertsOK, NEW i \in Infos, Live(i), NEW S,
           routine' = [routine EXCEPT ![i] = S],
           S.key = routine[i].key,
           UNCHANGED <<crashes, overlapped>>,
           \A r \in Rules : warmed'[r] \subseteq warmed[r],
           \A r \in Rules : r # S.key => cache'[r] = cache[r] /\ firing'[r] = firing[r],
           Accounted(routine[i], firing[S.key], cache[S.key])
              => Accounted(S, firing'[S.key], cache'[S.key])
    PROVE  AlertsOK'
<1>1. \A j \in Infos : routine'[j] = IF j = i THEN S ELSE routine[j]
  BY DEF IInv, TypeOK
<1>. SUFFICES ASSUME crashes = 0
              PROVE  AlertsOK'
  BY DEF AlertsOK
<1>2. \A r \in Rules : warmed'[r] = {}
  BY DEF AlertsOK
<1>3. ASSUME NEW r \in Rules \ overlapped, r # S.key
      PROVE  /\ \A j \in Infos : RoutineOf(r, j)' <=> RoutineOf(r, j)
             /\ \A j \in Infos : RoutineOf(r, j) => routine'[j] = routine[j]
             /\ cache'[r] = cache[r] /\ firing'[r] = firing[r]
  BY <1>1, <1>3 DEF RoutineOf, Live
<1>4. ASSUME S.key \in Rules \ overlapped
      PROVE  /\ \A j \in Infos : RoutineOf(S.key, j)' => j = i
             /\ Accounted(S, firing'[S.key], cache'[S.key])
  <2>1. RoutineOf(S.key, i)
    BY DEF RoutineOf
  <2>2. \A j \in Infos : RoutineOf(S.key, j) => j = i
    BY <1>4, <2>1 DEF AlertsOK
  <2>3. Accounted(routine[i], firing[S.key], cache[S.key])
    BY <1>4, <2>1 DEF AlertsOK
  <2>4. \A j \in Infos : RoutineOf(S.key, j)' /\ j # i => RoutineOf(S.key, j)
    BY <1>1 DEF RoutineOf, Live
  <2>. QED
    BY <2>2, <2>3, <2>4
<1>5. ASSUME NEW r \in Rules \ overlapped, r # S.key
      PROVE  /\ \A x, j \in Infos : RoutineOf(r, x)' /\ RoutineOf(r, j)' => x = j
             /\ \A j \in Infos : RoutineOf(r, j)' => Accounted(routine'[j], firing'[r], cache'[r])
             /\ (\A j \in Infos : ~RoutineOf(r, j)') => firing'[r] \subseteq cache'[r]
  <2>1. /\ \A x, j \in Infos : RoutineOf(r, x) /\ RoutineOf(r, j) => x = j
        /\ \A j \in Infos : RoutineOf(r, j) => Accounted(routine[j], firing[r], cache[r])
        /\ (\A j \in Infos : ~RoutineOf(r, j)) => firing[r] \subseteq cache[r]
    BY <1>5 DEF AlertsOK
  <2>. QED
    BY <1>3, <1>5, <2>1
<1>6. ASSUME S.key \in Rules \ overlapped
      PROVE  /\ \A j \in Infos : RoutineOf(S.key, j)'
                   => Accounted(routine'[j], firing'[S.key], cache'[S.key])
             /\ (\A j \in Infos : ~RoutineOf(S.key, j)') => firing'[S.key] \subseteq cache'[S.key]
  <2>1. \A j \in Infos : RoutineOf(S.key, j)'
                   => Accounted(routine'[j], firing'[S.key], cache'[S.key])
    BY <1>1, <1>4, <1>6
  <2>2. ASSUME \A j \in Infos : ~RoutineOf(S.key, j)'
        PROVE  firing'[S.key] \subseteq cache'[S.key]
    <3>1. S.pc \in {"none", "exited"}
      BY <1>1, <2>2 DEF RoutineOf, Live
    <3>. QED
      BY <1>4, <1>6, <3>1 DEF Accounted
  <2>. QED
    BY <2>1, <2>2
<1>7. ASSUME NEW r \in Rules \ overlapped
      PROVE  /\ \A x, j \in Infos : RoutineOf(r, x)' /\ RoutineOf(r, j)' => x = j
             /\ \A j \in Infos : RoutineOf(r, j)' => Accounted(routine'[j], firing'[r], cache'[r])
             /\ (\A j \in Infos : ~RoutineOf(r, j)') => firing'[r] \subseteq cache'[r]
  <2>1. CASE r = S.key
    BY <1>4, <1>6, <1>7, <2>1
  <2>. QED
    BY <1>5, <1>7, <2>1
<1>. QED
  BY <1>2, <1>7 DEF AlertsOK

(* The states a routine clears are those it will resolve.                  *)
LEMMA ClearAlerts ==
    ASSUME IInv, AlertsOK, NEW i \in Infos, Live(i), NEW R \in Routines,
           R.key = routine[i].key, R.gone = routine[i].gone, R.key \in Rules,
           routine[i].pc = "idle",
           NEW next \in {"idle", "evaluating", "exited"},
           Clear(i, next, R), UNCHANGED <<firing, crashes, overlapped>>
    PROVE  AlertsOK'
<1>1. cache \in [Rules -> SUBSET Defs] /\ warmed \in [Rules -> SUBSET Defs]
  BY DEF IInv, TypeOK
<1>2. /\ cache'[R.key] = {}
      /\ \A r \in Rules : warmed'[r] \subseteq warmed[r]
      /\ \A r \in Rules : r # R.key => cache'[r] = cache[r] /\ firing'[r] = firing[r]
      /\ UNCHANGED <<crashes, overlapped>>
  BY <1>1 DEF Clear
<1>3. CASE cache[R.key] = {}
  <2>. DEFINE S == [R EXCEPT !.pc = next]
  <2>1. /\ S.key = R.key /\ S.pc = next /\ S.gone = R.gone /\ S.key = routine[i].key
        /\ routine' = [routine EXCEPT ![i] = S]
    BY <1>3 DEF Clear, Routines
  <2>. HIDE DEF S
  <2>2. Accounted(routine[i], firing[S.key], cache[S.key])
              => Accounted(S, firing'[S.key], cache'[S.key])
    BY <1>2, <1>3, <2>1 DEF Accounted, Tidy
  <2>. QED
    BY <1>2, <2>1, <2>2, WorkAlerts, ZenonT(60)
<1>4. CASE cache[R.key] # {}
  <2>. DEFINE S == [R EXCEPT !.pc = "clearing", !.gone = cache[R.key], !.next = next]
  <2>1. /\ S.key = R.key /\ S.pc = "clearing" /\ S.gone = cache[R.key] /\ S.key = routine[i].key
        /\ routine' = [routine EXCEPT ![i] = S]
    BY <1>4 DEF Clear, Routines
  <2>. HIDE DEF S
  <2>2. Accounted(routine[i], firing[S.key], cache[S.key])
              => Accounted(S, firing'[S.key], cache'[S.key])
    BY <1>2, <2>1 DEF Accounted, Tidy
  <2>. QED
    BY <1>2, <2>1, <2>2, WorkAlerts, ZenonT(60)
<1>. QED
  BY <1>3, <1>4

(* A state is resolved after it left the cache and before the routine      *)
(* forgets it; what is sent is in the cache.                               *)
LEMMA RoutineAlerts ==
    ASSUME IInv, AlertsOK, NEW i \in Infos, RoutineStep(i)
    PROVE  AlertsOK'
<1>. USE DEF stateVars
<1>. DEFINE R == routine[i]
            k == routine[i].key
<1>1. /\ R \in Routines /\ Complete(R)
      /\ cache \in [Rules -> SUBSET Defs]
      /\ warmed \in [Rules -> SUBSET Defs]
      /\ firing \in [Rules -> SUBSET Defs]
  BY DEF IInv, TypeOK, RoutinesComplete
<1>2. Live(i) /\ k \in Rules
  <2>1. R.pc \in {"idle", "clearing", "stopAlerts"} \cup EvalSteps
    <3>1. CASE ReceiveUpdate(i) \/ ReceiveEval(i) \/ ReceiveDone(i)
      BY <3>1 DEF ReceiveUpdate, ReceiveEval, ReceiveDone
    <3>2. CASE ClearRows(i) \/ StopAlerts(i) \/ FinishEval(i)
      BY <3>2 DEF ClearRows, StopAlerts, FinishEval, EvalSteps
    <3>3. CASE ProcessResults(i) \/ SaveStates(i) \/ PutSent(i) \/ SendAlerts(i)
      BY <3>3 DEF ProcessResults, SaveStates, PutSent, SendAlerts, EvalSteps
    <3>. QED
      BY <3>1, <3>2, <3>3 DEF RoutineStep
  <2>. QED
    BY <1>1, <2>1 DEF Live, Complete, EvalSteps
<1>3. UNCHANGED <<crashes, overlapped>>
  BY DEF RoutineStep, ReceiveUpdate, ReceiveEval, ReceiveDone, ClearRows, StopAlerts,
     FinishEval, ProcessResults, SaveStates, PutSent, SendAlerts, RoutineUnchanged
<1>4. ASSUME NEW S, routine' = [routine EXCEPT ![i] = S], S.key = k,
             UNCHANGED <<cache, warmed>>,
             \A r \in Rules : r # k => firing'[r] = firing[r],
             Accounted(R, firing[k], cache[k]) => Accounted(S, firing'[k], cache[k])
      PROVE  AlertsOK'
  BY <1>2, <1>3, <1>4, WorkAlerts
<1>5. CASE ReceiveUpdate(i)
  <2>. DEFINE S == [R EXCEPT !.updateCh = Tail(@)]
  <2>1. Tail(R.updateCh) \in Seq(Versions)
    BY <1>1, <1>5, RoutineFields, ChannelHead DEF ReceiveUpdate
  <2>2. /\ S \in Routines /\ S.key = k /\ S.gone = R.gone /\ S.pc = "idle" /\ R.pc = "idle"
        /\ UNCHANGED firing
    BY <1>1, <1>5, <2>1 DEF ReceiveUpdate, Routines
  <2>3. \/ routine' = [routine EXCEPT ![i] = S] /\ UNCHANGED <<cache, warmed>>
        \/ Clear(i, "idle", S)
    BY <1>5 DEF ReceiveUpdate
  <2>. HIDE DEF S
  <2>4. Accounted(R, firing[k], cache[k]) => Accounted(S, firing'[k], cache[k])
    BY <2>2 DEF Accounted, Tidy
  <2>5. CASE routine' = [routine EXCEPT ![i] = S] /\ UNCHANGED <<cache, warmed>>
    BY <1>4, <2>2, <2>4, <2>5
  <2>6. CASE Clear(i, "idle", S)
    <3>1. UNCHANGED <<firing, crashes, overlapped>>
      BY <1>3, <2>2
    <3>2. S.key \in Rules /\ S.key = routine[i].key /\ routine[i].pc = "idle"
          /\ S.gone = routine[i].gone
      BY <1>2, <2>2
    <3>. QED
      BY <1>2, <2>2, <2>6, <3>1, <3>2, ClearAlerts
  <2>. QED
    BY <2>3, <2>5, <2>6
<1>6. CASE ReceiveEval(i)
  <2>. DEFINE d == Head(R.evalCh)
              S == [R EXCEPT !.evalCh = Tail(@), !.msg = d, !.current = d.ver]
              T == [S EXCEPT !.pc = "evaluating"]
  <2>1. d \in Defs /\ Tail(R.evalCh) \in Seq(Defs)
    BY <1>1, <1>6, RoutineFields, ChannelHead DEF ReceiveEval
  <2>2. d.ver \in 0..MaxVersion
    BY <2>1, BoundsAssumption DEF Defs, Versions
  <2>3. /\ S \in Routines /\ S.key = k /\ S.gone = R.gone /\ R.pc = "idle"
        /\ T.key = k /\ T.gone = R.gone /\ T.pc = "evaluating"
        /\ UNCHANGED firing
    BY <1>1, <1>6, <2>1, <2>2 DEF ReceiveEval, Routines
  <2>4. \/ routine' = [routine EXCEPT ![i] = T] /\ UNCHANGED <<cache, warmed>>
        \/ Clear(i, "evaluating", S)
    BY <1>6 DEF ReceiveEval
  <2>. HIDE DEF S, T, d
  <2>5. Accounted(R, firing[k], cache[k]) => Accounted(T, firing'[k], cache[k])
    BY <2>3 DEF Accounted, Tidy
  <2>6. CASE routine' = [routine EXCEPT ![i] = T] /\ UNCHANGED <<cache, warmed>>
    BY <1>4, <2>3, <2>5, <2>6
  <2>7. CASE Clear(i, "evaluating", S)
    <3>1. UNCHANGED <<firing, crashes, overlapped>>
      BY <1>3, <2>3
    <3>2. S.key \in Rules /\ S.key = routine[i].key /\ routine[i].pc = "idle"
          /\ S.gone = routine[i].gone
      BY <1>2, <2>3
    <3>. QED
      BY <1>2, <2>3, <2>7, <3>1, <3>2, ClearAlerts
  <2>. QED
    BY <2>4, <2>6, <2>7
<1>7. CASE ReceiveDone(i)
  <2>. DEFINE S == [R EXCEPT !.current = 0]
  <2>4. R.pc = "idle" /\ UNCHANGED firing /\ Clear(i, "exited", S)
    BY <1>7 DEF ReceiveDone
  <2>5. S \in Routines /\ S.key = k /\ S.gone = R.gone
    <3>1. 0 \in 0..MaxVersion
      BY BoundsAssumption
    <3>2. S.key = k /\ S.gone = R.gone
      BY <1>1 DEF Routines
    <3>. QED
      BY <1>1, <3>1, <3>2 DEF Routines
  <2>1. /\ S \in Routines /\ S.key = k /\ S.gone = R.gone /\ R.pc = "idle"
        /\ UNCHANGED firing /\ Clear(i, "exited", S)
    BY <2>4, <2>5
  <2>. HIDE DEF S
  <2>2. UNCHANGED <<firing, crashes, overlapped>>
    BY <1>3, <2>1
  <2>3. S.key \in Rules /\ S.key = routine[i].key /\ routine[i].pc = "idle"
        /\ S.gone = routine[i].gone
    BY <1>2, <2>1
  <2>. QED
    BY <1>2, <2>1, <2>2, <2>3, ClearAlerts
<1>8. CASE ClearRows(i)
  <2>. DEFINE S == [R EXCEPT !.pc = "stopAlerts"]
  <2>1. /\ S.key = k /\ S.pc = "stopAlerts" /\ S.gone = R.gone /\ R.pc = "clearing"
        /\ routine' = [routine EXCEPT ![i] = S] /\ UNCHANGED <<cache, warmed, firing>>
    BY <1>1, <1>8 DEF ClearRows, Routines
  <2>. HIDE DEF S
  <2>2. Accounted(R, firing[k], cache[k]) => Accounted(S, firing'[k], cache[k])
    BY <2>1 DEF Accounted, Tidy
  <2>. QED
    BY <1>4, <2>1, <2>2
<1>9. CASE StopAlerts(i)
  <2>. DEFINE S == [R EXCEPT !.pc = R.next, !.gone = {}, !.next = "none"]
  <2>1. /\ S.key = k /\ S.pc = R.next /\ S.gone = {} /\ R.pc = "stopAlerts"
        /\ R.next \in {"idle", "evaluating", "exited"}
        /\ routine' = [routine EXCEPT ![i] = S] /\ UNCHANGED <<cache, warmed>>
        /\ firing' = [firing EXCEPT ![k] = @ \ R.gone]
    BY <1>1, <1>9 DEF StopAlerts, Routines, Complete
  <2>. HIDE DEF S
  <2>2. Accounted(R, firing[k], cache[k]) => Accounted(S, firing'[k], cache[k])
    BY <1>1, <1>2, <2>1 DEF Accounted, Tidy
  <2>. QED
    BY <1>1, <1>4, <2>1, <2>2
<1>10. CASE FinishEval(i)
  <2>. DEFINE S == IF R.stopped THEN [R EXCEPT !.pc = "idle", !.msg = NoDef]
                   ELSE [R EXCEPT !.pc = "processing"]
  <2>1. S.key = k /\ S.pc \in {"idle", "processing"} /\ S.gone = R.gone /\ R.pc = "evaluating"
    BY <1>1, <1>10 DEF FinishEval, Routines
  <2>2. routine' = [routine EXCEPT ![i] = S] /\ UNCHANGED <<cache, warmed, firing>>
    BY <1>10 DEF FinishEval
  <2>. HIDE DEF S
  <2>3. Accounted(R, firing[k], cache[k]) => Accounted(S, firing'[k], cache[k])
    BY <2>1, <2>2 DEF Accounted, Tidy
  <2>. QED
    BY <1>4, <2>1, <2>2, <2>3
<1>11. CASE SaveStates(i)
  <2>. DEFINE S == [R EXCEPT !.pc = "putting"]
  <2>1. /\ S.key = k /\ S.pc = "putting" /\ S.gone = R.gone /\ R.pc = "saving"
        /\ routine' = [routine EXCEPT ![i] = S] /\ UNCHANGED <<cache, warmed, firing>>
    BY <1>1, <1>11 DEF SaveStates, Routines
  <2>. HIDE DEF S
  <2>2. Accounted(R, firing[k], cache[k]) => Accounted(S, firing'[k], cache[k])
    BY <2>1 DEF Accounted, Tidy
  <2>. QED
    BY <1>4, <2>1, <2>2
<1>12. CASE SendAlerts(i)
  <2>. DEFINE S == [R EXCEPT !.pc = "idle", !.gone = {}, !.msg = NoDef]
  <2>1. /\ S.key = k /\ S.pc = "idle" /\ S.gone = {} /\ R.pc = "sending"
        /\ routine' = [routine EXCEPT ![i] = S] /\ UNCHANGED <<cache, warmed>>
    <3>1. S.key = k /\ S.pc = "idle" /\ S.gone = {}
      BY <1>1 DEF Routines
    <3>2. routine' = [routine EXCEPT ![i] = S]
      BY <1>12 DEF SendAlerts
    <3>3. R.pc = "sending" /\ UNCHANGED <<cache, warmed>>
      BY <1>12 DEF SendAlerts
    <3>. QED
      BY <3>1, <3>2, <3>3
  <2>2. PICK fires \in {{}, {R.msg}} :
          firing' = [firing EXCEPT ![k] = (@ \ (R.gone \cup {R.msg})) \cup fires]
    BY <1>12 DEF SendAlerts
  <2>3. /\ \A r \in Rules : r # k => firing'[r] = firing[r]
        /\ firing'[k] \subseteq (firing[k] \ R.gone) \cup {R.msg}
    BY <1>1, <1>2, <2>2
  <2>. HIDE DEF S
  <2>4. Accounted(R, firing[k], cache[k]) => Accounted(S, firing'[k], cache[k])
    BY <2>1, <2>3 DEF Accounted, Tidy
  <2>. QED
    BY <1>4, <2>1, <2>3, <2>4
<1>13. CASE ProcessResults(i)
  <2>1. PICK stale \in SUBSET (cache[k] \ {R.msg}),
             abandoned \in SUBSET firing[k] :
          /\ cache' = [cache EXCEPT ![k] = (@ \ stale) \cup {R.msg}]
          /\ warmed' = [warmed EXCEPT ![k] = @ \ (stale \cup {R.msg})]
          /\ routine' = [routine EXCEPT ![i].pc = "saving", ![i].gone = stale]
          /\ firing' = [firing EXCEPT ![k] = @ \ abandoned]
    BY <1>13 DEF ProcessResults
  <2>. DEFINE S == [R EXCEPT !.pc = "saving", !.gone = stale]
  <2>2. /\ S.key = k /\ S.pc = "saving" /\ S.gone = stale /\ R.pc = "processing"
        /\ routine' = [routine EXCEPT ![i] = S]
    <3>1. S.key = k /\ S.pc = "saving" /\ S.gone = stale
      BY <1>1 DEF Routines
    <3>2. routine' = [routine EXCEPT ![i] = S]
      BY <2>1
    <3>3. R.pc = "processing"
      BY <1>13 DEF ProcessResults
    <3>. QED
      BY <3>1, <3>2, <3>3
  <2>3. /\ \A r \in Rules : r # k => cache'[r] = cache[r] /\ firing'[r] = firing[r]
        /\ \A r \in Rules : warmed'[r] \subseteq warmed[r]
        /\ cache'[k] = (cache[k] \ stale) \cup {R.msg}
        /\ firing'[k] \subseteq firing[k]
    BY <1>1, <1>2, <2>1
  <2>. HIDE DEF S
  <2>4. Accounted(R, firing[k], cache[k]) => Accounted(S, firing'[k], cache'[k])
    BY <2>2, <2>3 DEF Accounted, Tidy
  <2>. QED
    BY <1>2, <1>3, <2>2, <2>3, <2>4, WorkAlerts
<1>14. CASE PutSent(i)
  <2>. DEFINE S == [R EXCEPT !.pc = "sending"]
              T == [R EXCEPT !.pc = "idle", !.gone = {}, !.msg = NoDef]
  <2>1. /\ S.key = k /\ S.pc = "sending" /\ S.gone = R.gone /\ S.msg = R.msg
        /\ T.key = k /\ T.pc = "idle" /\ T.gone = {} /\ R.pc = "putting"
    BY <1>1, <1>14 DEF PutSent, Routines
  <2>2. \/ /\ routine' = [routine EXCEPT ![i] = S]
           /\ cache' = [cache EXCEPT ![k] = @ \cup {R.msg}]
           /\ UNCHANGED <<warmed, firing>>
        \/ /\ routine' = [routine EXCEPT ![i] = T]
           /\ firing' = [firing EXCEPT ![k] = @ \ R.gone]
           /\ UNCHANGED <<cache, warmed>>
    BY <1>14 DEF PutSent
  <2>. HIDE DEF S, T
  <2>3. CASE /\ routine' = [routine EXCEPT ![i] = S]
             /\ cache' = [cache EXCEPT ![k] = @ \cup {R.msg}]
             /\ UNCHANGED <<warmed, firing>>
    <3>1. /\ \A r \in Rules : r # k => cache'[r] = cache[r] /\ firing'[r] = firing[r]
          /\ \A r \in Rules : warmed'[r] \subseteq warmed[r]
          /\ cache'[k] = cache[k] \cup {R.msg} /\ firing'[k] = firing[k]
      BY <1>1, <1>2, <2>3
    <3>2. Accounted(R, firing[k], cache[k]) => Accounted(S, firing'[k], cache'[k])
      BY <2>1, <3>1 DEF Accounted, Tidy
    <3>3. S.key = routine[i].key /\ routine' = [routine EXCEPT ![i] = S]
      BY <2>1, <2>3
    <3>. QED
      BY ONLY IInv, AlertsOK, i \in Infos, <1>2, <1>3, <3>1, <3>2, <3>3, WorkAlerts
  <2>4. CASE /\ routine' = [routine EXCEPT ![i] = T]
             /\ firing' = [firing EXCEPT ![k] = @ \ R.gone]
             /\ UNCHANGED <<cache, warmed>>
    <3>1. /\ \A r \in Rules : r # k => firing'[r] = firing[r]
          /\ firing'[k] = firing[k] \ R.gone
      BY <1>1, <1>2, <2>4
    <3>2. Accounted(R, firing[k], cache[k]) => Accounted(T, firing'[k], cache[k])
      BY <2>1, <3>1 DEF Accounted, Tidy
    <3>. QED
      BY <1>4, <2>1, <2>4, <3>1, <3>2
  <2>. QED
    BY <2>2, <2>3, <2>4
<1>. QED
  BY <1>5, <1>6, <1>7, <1>8, <1>9, <1>10, <1>11, <1>12, <1>13, <1>14 DEF RoutineStep

(* The routine of a rule that had none has nothing to resolve.             *)
LEMMA StartAlerts ==
    ASSUME IInv, AlertsOK, NEW r \in Rules, NEW i \in Infos, Starts(r, i),
           UNCHANGED <<cache, warmed, firing, crashes>>
    PROVE  AlertsOK'
<1>. DEFINE S == NewRoutine(r, "idle")
<1>1. \A j \in Infos : routine'[j] = IF j = i THEN S ELSE routine[j]
  BY DEF Starts, IInv, TypeOK
<1>2. S.key = r /\ S.pc = "idle" /\ S.gone = {} /\ ~Live(i)
  BY DEF NewRoutine, Starts
<1>. HIDE DEF S
<1>. SUFFICES ASSUME crashes = 0,
                     NEW q \in Rules \ overlapped'
              PROVE  /\ \A x, j \in Infos : RoutineOf(q, x)' /\ RoutineOf(q, j)' => x = j
                     /\ \A j \in Infos : RoutineOf(q, j)'
                           => Accounted(routine'[j], firing'[q], cache'[q])
                     /\ (\A j \in Infos : ~RoutineOf(q, j)') => firing'[q] \subseteq cache'[q]
  BY DEF AlertsOK
<1>3. q \in Rules \ overlapped /\ (q = r => \A j \in Infos : ~RoutineOf(r, j))
  BY DEF Starts, RoutineOf
<1>4. /\ \A x, j \in Infos : RoutineOf(q, x) /\ RoutineOf(q, j) => x = j
      /\ \A j \in Infos : RoutineOf(q, j) => Accounted(routine[j], firing[q], cache[q])
      /\ (\A j \in Infos : ~RoutineOf(q, j)) => firing[q] \subseteq cache[q]
  BY <1>3 DEF AlertsOK
<1>5. CASE q # r
  <2>1. \A j \in Infos : RoutineOf(q, j)' <=> RoutineOf(q, j)
    BY <1>1, <1>2, <1>5 DEF RoutineOf, Live
  <2>2. \A j \in Infos : RoutineOf(q, j) => routine'[j] = routine[j]
    BY <1>1, <1>2 DEF RoutineOf
  <2>. QED
    BY <1>4, <2>1, <2>2
<1>6. CASE q = r
  <2>1. \A j \in Infos : RoutineOf(r, j)' <=> j = i
    BY <1>1, <1>2, <1>3, <1>6 DEF RoutineOf, Live
  <2>2. Accounted(S, firing'[r], cache'[r])
    BY <1>2, <1>3, <1>4, <1>6 DEF Accounted, Tidy
  <2>. QED
    BY <1>1, <1>6, <2>1, <2>2
<1>. QED
  BY <1>5, <1>6

LEMMA AlertsNext == IInv /\ AlertsOK /\ [Next]_vars => AlertsOK'
<1>. SUFFICES ASSUME IInv, AlertsOK, [Next]_vars PROVE AlertsOK'
  OBVIOUS
<1>1. CASE UNCHANGED vars
  BY <1>1, IdleAlerts DEF vars, stateVars, NobodyWorks, SameWork
<1>2. CASE \/ \E r \in Rules : \/ CreateRule(r) \/ UpdateRule(r) \/ DeleteRule(r)
                               \/ DeleteSchedulable(r) \/ DeleteRegistered(r)
                               \/ \E v \in Versions : BeginUpdate(r, v)
           \/ \E i \in Infos : \/ Stop(i) \/ GiveUp(i)
                               \/ \E v \in Versions : OfferUpdate(i, v)
                               \/ \E d \in Defs : TimerFires(i, d) \/ OfferEval(i, d)
  BY <1>2, SenderWork, IdleAlerts
<1>3. CASE TickStep
  <2>1. CASE NobodyWorks /\ UNCHANGED <<cache, warmed, firing, crashes, overlapped>>
    BY <2>1, IdleAlerts
  <2>2. CASE UNCHANGED <<cache, warmed, firing, crashes>> /\ \E r \in Rules, i \in Infos : Starts(r, i)
    BY <2>2, StartAlerts
  <2>. QED
    BY <1>3, <2>1, <2>2, TickWork
<1>4. ASSUME NEW i \in Infos, RoutineStep(i) PROVE AlertsOK'
  BY <1>4, RoutineAlerts
<1>5. CASE Crash
  <2>1. crashes' # 0
    BY <1>5 DEF Crash, IInv, TypeOK
  <2>. QED
    BY <2>1 DEF AlertsOK
<1>. QED
  BY <1>1, <1>2, <1>3, <1>4, <1>5 DEF Next

(* Unless its routines overlapped or the process died, a rule that is      *)
(* deleted leaves no alert that fires for ever, whether its routine is     *)
(* stopped before, while or after it evaluates, clears or sends.           *)
THEOREM DeletedRuleIsResolved == Spec => []DeletedRuleEndsItsAlerts
<1>1. Init => AlertsOK
  BY DEF Init, AlertsOK, NoRoutines, NewRoutine, RoutineOf, Live
<1>2. DeletedRuleHasNoState /\ AlertsOK /\ IInv => DeletedRuleEndsItsAlerts
  <2>. SUFFICES ASSUME DeletedRuleHasNoState, AlertsOK, IInv, NEW r \in Rules,
                       Forgotten(r), r \notin overlapped, crashes = 0
                PROVE  firing[r] = {}
    BY DEF DeletedRuleEndsItsAlerts, IInv, TypeOK
  <2>1. \A i \in Infos : ~RoutineOf(r, i)
    BY DEF Forgotten, RoutineOf
  <2>2. firing[r] \subseteq cache[r] /\ warmed[r] = {}
    BY <2>1 DEF AlertsOK
  <2>3. cache[r] \subseteq warmed[r]
    BY DEF DeletedRuleHasNoState
  <2>. QED
    BY <2>2, <2>3
<1>. QED
  BY <1>1, <1>2, InvHolds, DeletedRuleLosesState, AlertsNext, PTL DEF Spec
=============================================================================
