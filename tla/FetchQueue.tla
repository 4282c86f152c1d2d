----------------------------- MODULE FetchQueue -----------------------------
(***************************************************************************)
(* The request queue of Grafana's frontend: BackendSrv.fetch, FetchQueue,  *)
(* FetchQueueWorker and ResponseQueue (public/app/core/services).          *)
(*                                                                         *)
(* JavaScript runs one event to its end, but inside an event the observers *)
(* call each other: removing an entry starts another request, which        *)
(* cancels a third, whose consumer lets go of a fourth.  The calls that    *)
(* are still to be made are the variable calls; the next event waits until *)
(* it is empty.                                                            *)
(*                                                                         *)
(* An entry is the call of fetch that made it.  A consumer subscribes to   *)
(* one or more calls at once, as forkJoin does: the first error ends all.  *)
(***************************************************************************)
EXTENDS Integers, Sequences, SequencesExt, FiniteSets

CONSTANTS
    Ids,            \* the calls of fetch
    DataQueries,    \* those with the URL of a data query (isDataQuery)
    RequestIds,     \* options.requestId
    Consumers,      \* who subscribes to the results
    CallsOf,        \* the calls each consumer makes, in order
    RequestId,      \* the request ID of a call, or NoId
    LoginPing,      \* the loginPing a call makes after its first 401, or NoId
    MaxParallel,    \* maxParallelRequests
    NoId

ASSUME IdAssumption == /\ DataQueries \subseteq Ids
                       /\ NoId \notin Ids \cup RequestIds
ASSUME ConsumerAssumption == CallsOf \in [Consumers -> Seq(Ids)]
ASSUME OptionsAssumption == /\ RequestId \in [Ids -> RequestIds \cup {NoId}]
                            /\ LoginPing \in [Ids -> (Ids \ DataQueries) \cup {NoId}]
ASSUME MaxParallelAssumption == MaxParallel \in Nat

(* Every call of fetch makes an ID of its own (uuidv4). *)
ASSUME CallAssumption ==
    /\ \A c, d \in Consumers : \A m \in DOMAIN CallsOf[c], n \in DOMAIN CallsOf[d] :
            CallsOf[c][m] = CallsOf[d][n] => c = d /\ m = n
    /\ \A i, j \in Ids : LoginPing[i] = LoginPing[j] /\ LoginPing[i] /= NoId => i = j
    /\ \A i \in Ids, c \in Consumers : ~Contains(CallsOf[c], LoginPing[i])

VARIABLES
    keys,       \* FetchQueue.state: its keys in the order of insertion
    status,     \* FetchQueue.state: "Pending" or "InProgress", or "Done" if absent
    inner,      \* FetchQueueWorker: the entries concatMap has yet to emit
    buffer,     \* FetchQueueWorker: noOfInProgress of the updates concatMap holds back
    listening,  \* calls whose observer is subscribed
    started,    \* internalFetch streams that are subscribed, in that order
    phase,      \* of a started call: "first", "login" or "retry" of the HTTP request
    outcome,    \* what the observer was told last
    cancelled,  \* history: calls that takeUntil has cancelled
    calls       \* the calls to be made before the event is over

vars == <<keys, status, inner, buffer, listening, started, phase, outcome, cancelled, calls>>

Statuses == {"Done", "Pending", "InProgress"}
Phases == {"first", "login", "retry"}
Outcomes == {"none", "value", "error", "cancelled", "unsubscribed"}
Call == [op : {"add", "setInProgress", "fetch", "subscribe", "cancel", "setDone"},
         id : Ids \cup {NoId}]

TypeOK ==
    /\ keys \in Seq(Ids)
    /\ status \in [Ids -> Statuses]
    /\ inner \in Seq(Ids)
    /\ buffer \in Seq(Nat)
    /\ listening \subseteq Ids
    /\ started \in Seq(Ids)
    /\ phase \in [Ids -> Phases]
    /\ outcome \in [Ids -> Outcomes]
    /\ cancelled \subseteq Ids
    /\ calls \in Seq(Call)

Init ==
    /\ keys = <<>>
    /\ status = [i \in Ids |-> "Done"]
    /\ inner = <<>>
    /\ buffer = <<>>
    /\ listening = {}
    /\ started = <<>>
    /\ phase = [i \in Ids |-> "first"]
    /\ outcome = [i \in Ids |-> "none"]
    /\ cancelled = {}
    /\ calls = <<>>

Do(op, ids) == [n \in DOMAIN ids |-> [op |-> op, id |-> ids[n]]]
WorkerLoop == [op |-> "setInProgress", id |-> NoId]

(* The elements of a sequence that are in T, in their order.  (SelectSeq,   *)
(* written as a recursive function, which can be reasoned about.)          *)
Selected(s, T) ==
    LET F[n \in 0..Len(s)] ==
            IF n = 0 THEN <<>>
            ELSE IF s[n] \in T THEN Append(F[n - 1], s[n]) ELSE F[n - 1]
    IN  F[Len(s)]

Requested(r) == {i \in Ids : RequestId[i] = r}

WithStatus(s, st) == {i \in Ids : st[i] = s}
InProgress == WithStatus("InProgress", status)

(***************************************************************************)
(* FetchQueueWorker: the requests an update lets go.  The entries are read *)
(* when the update is processed, noOfInProgress is what it was when the    *)
(* update was published.                                                   *)
(***************************************************************************)
SlipAllowed(noOfInProgress, apis) == MaxParallel - noOfInProgress - apis + 1
Allowed(noOfInProgress, apis) == MaxParallel - noOfInProgress - apis

ToStart(ks, st, noOfInProgress) ==
    LET pending == WithStatus("Pending", st)
        api == Selected(ks, pending \ DataQueries)
        data == Selected(ks, pending \cap DataQueries)
        allowed == Allowed(noOfInProgress, Len(api))
    IN  api \o SubSeq(data, 1, IF allowed > Len(data) THEN Len(data) ELSE allowed)

(* publishUpdate after a change of the state, and then the remaining calls *)
(* of the event.  While concatMap emits, it keeps further updates back.    *)
SlipPublish(rest) ==        \* exhaustMap: updates while it emits are lost
    IF WithStatus("Pending", status') = {} \/ Contains(rest, WorkerLoop)
    THEN calls' = rest /\ UNCHANGED <<inner, buffer>>
    ELSE /\ inner' = ToStart(keys', status', Cardinality(WithStatus("InProgress", status')))
         /\ calls' = <<WorkerLoop>> \o rest
         /\ UNCHANGED buffer

SlipCountFree(rest) ==      \* publishes how many slots are free
    LET n == MaxParallel - Cardinality(WithStatus("InProgress", status'))
    IN  IF WithStatus("Pending", status') = {}
        THEN calls' = rest /\ UNCHANGED <<inner, buffer>>
        ELSE IF Contains(rest, WorkerLoop)
        THEN buffer' = Append(buffer, n) /\ calls' = rest /\ UNCHANGED inner
        ELSE /\ inner' = ToStart(keys', status', n)
             /\ calls' = <<WorkerLoop>> \o rest
             /\ UNCHANGED buffer

Publish(rest) ==
    LET n == Cardinality(WithStatus("InProgress", status'))
        busy == Contains(rest, WorkerLoop)
    IN  IF WithStatus("Pending", status') = {}
        THEN calls' = rest /\ UNCHANGED <<inner, buffer>>
        ELSE IF busy
        THEN /\ buffer' = Append(buffer, n)
             /\ calls' = rest
             /\ UNCHANGED inner
        ELSE /\ inner' = ToStart(keys', status', n)
             /\ calls' = <<WorkerLoop>> \o rest
             /\ UNCHANGED buffer
-----------------------------------------------------------------------------
(* The calls of one event. *)

Top(op) == /\ calls /= <<>>
           /\ Head(calls).op = op
id == Head(calls).id
Rest == Tail(calls)

(* An error reaches the consumer of a call, which lets go of all its calls. *)
ConsumerOf(i) == CHOOSE c \in Consumers : Contains(CallsOf[c], i)
Alone(i) == \A c \in Consumers : ~Contains(CallsOf[c], i)
Siblings(i) == IF Alone(i) THEN <<i>> ELSE CallsOf[ConsumerOf(i)]
LetGo(i) == Do("setDone", Siblings(i))

(* fetch is subscribed: it listens for its response, then joins the queue. *)
(* forkJoin goes on subscribing after an error, and lets go at once.       *)
Failed(i) == \E j \in ToSet(Siblings(i)) : outcome[j] = "cancelled"

Add ==
    /\ Top("add")
    /\ listening' = listening \cup {id}
    /\ keys' = IF status[id] = "Done" THEN Append(keys, id) ELSE keys
    /\ status' = [status EXCEPT ![id] = "Pending"]
    /\ Publish(Do("setDone", IF Failed(id) THEN <<id>> ELSE <<>>) \o Rest)
    /\ UNCHANGED <<started, phase, outcome, cancelled>>

(* concatMap emits its next entry: ResponseQueue marks it in progress, and *)
(* puts it back should it have left the queue meanwhile.                   *)
SetInProgress ==
    /\ Top("setInProgress")
    /\ inner /= <<>>
    /\ LET i == Head(inner)
           loop == <<WorkerLoop>> \o Rest
           n == Cardinality(WithStatus("InProgress", status'))
       IN  /\ keys' = IF status[i] = "Done" THEN Append(keys, i) ELSE keys
           /\ status' = [status EXCEPT ![i] = "InProgress"]
           /\ inner' = Tail(inner)
           /\ buffer' = IF WithStatus("Pending", status') = {} THEN buffer ELSE Append(buffer, n)
           /\ calls' = Do("fetch", <<i>>) \o loop
    /\ UNCHANGED <<listening, started, phase, outcome, cancelled>>

(* concatMap has emitted all and turns to the next update it kept back. *)
NextUpdate ==
    /\ Top("setInProgress")
    /\ inner = <<>>
    /\ IF buffer = <<>>
       THEN calls' = Rest /\ UNCHANGED <<inner, buffer>>
       ELSE /\ inner' = ToStart(keys, status, Head(buffer))
            /\ buffer' = Tail(buffer)
            /\ UNCHANGED calls
    /\ UNCHANGED <<keys, status, listening, started, phase, outcome, cancelled>>

(* internalFetch tells inFlightRequests of its request ID before it makes  *)
(* the stream that its own observer, if it still listens, subscribes to.   *)
SlipFetch ==     \* the older requests are not told
    /\ Top("fetch")
    /\ calls' = Do("subscribe", <<id>>) \o Rest
    /\ UNCHANGED <<keys, status, inner, buffer, listening, started, phase, outcome, cancelled>>

Fetch ==
    /\ Top("fetch")
    /\ LET r == RequestId[id]
           older == IF r = NoId THEN <<>> ELSE Selected(started, Requested(r))
       IN  calls' = Do("cancel", older) \o Do("subscribe", <<id>>) \o Rest
    /\ UNCHANGED <<keys, status, inner, buffer, listening, started, phase, outcome, cancelled>>

Subscribe ==
    /\ Top("subscribe")
    /\ started' = IF id \in listening THEN Append(started, id) ELSE started
    /\ calls' = Rest
    /\ UNCHANGED <<keys, status, inner, buffer, listening, phase, outcome, cancelled>>

(* takeUntil completes the empty stream, throwIfEmpty turns it into an error. *)
Cancel ==
    /\ Top("cancel")
    /\ IF Contains(started, id)
       THEN /\ started' = RemoveFirst(started, id)
            /\ outcome' = [outcome EXCEPT ![id] = "cancelled"]
            /\ cancelled' = cancelled \cup {id}
            /\ calls' = LetGo(id) \o Rest
       ELSE calls' = Rest /\ UNCHANGED <<started, outcome, cancelled>>
    /\ UNCHANGED <<keys, status, inner, buffer, listening, phase>>

(* The teardown of fetch.  A call that is cancelled inside its own add has *)
(* none to run before add returns; here it lets go at once.                *)
SetDone ==
    /\ Top("setDone")
    /\ IF id \in listening
       THEN /\ listening' = listening \ {id}
            /\ started' = RemoveFirst(started, id)
            /\ outcome' = [outcome EXCEPT ![id] = IF @ = "none" THEN "unsubscribed" ELSE @]
            /\ keys' = RemoveFirst(keys, id)
            /\ status' = [status EXCEPT ![id] = "Done"]
            /\ Publish(Rest)
       ELSE calls' = Rest /\ UNCHANGED <<listening, started, outcome, keys, status, inner, buffer>>
    /\ UNCHANGED <<phase, cancelled>>

Proceed == Add \/ SetInProgress \/ NextUpdate \/ Fetch \/ Subscribe \/ Cancel \/ SetDone
-----------------------------------------------------------------------------
(* The events. *)

Begin(todo) ==
    /\ calls = <<>>
    /\ calls' = todo
    /\ UNCHANGED <<keys, status, inner, buffer, listening, started, cancelled>>

Untouched(c) == \A n \in DOMAIN CallsOf[c] : LET i == CallsOf[c][n]
                                             IN  i \notin listening /\ outcome[i] = "none"

Request(c) ==
    /\ Untouched(c)
    /\ Begin(Do("add", CallsOf[c]))
    /\ UNCHANGED <<phase, outcome>>

Unsubscribe(c) ==
    /\ ToSet(CallsOf[c]) \cap listening /= {}
    /\ Begin(Do("setDone", CallsOf[c]))
    /\ UNCHANGED <<phase, outcome>>

(* resolveCancelerIfExists *)
ResolveCanceler(r) ==
    /\ Selected(started, Requested(r)) /= <<>>
    /\ Begin(Do("cancel", Selected(started, Requested(r))))
    /\ UNCHANGED <<phase, outcome>>

CancelAllInFlightRequests ==
    /\ started /= <<>>
    /\ Begin(Do("cancel", started))
    /\ UNCHANGED <<phase, outcome>>

(* The stream of a call ends, and with it the call or all of its consumer. *)
Ends(i, result) ==
    /\ outcome' = [outcome EXCEPT ![i] = result]
    /\ Begin(IF result = "value" THEN Do("setDone", <<i>>) ELSE LetGo(i))

(* The answer to the HTTP request.  Only the failure branch subscribes to  *)
(* it again after a login: a good answer then passes through no branch,    *)
(* the merged stream ends empty and throwIfEmpty reports a cancellation.   *)
Answer(i) ==
    /\ Contains(started, i)
    /\ \/ phase[i] = "first" /\ Ends(i, "value")
       \/ phase[i] = "retry" /\ Ends(i, "cancelled")
       \/ phase[i] /= "login" /\ Ends(i, "error")
    /\ UNCHANGED phase

(* 401 to the first attempt of a local URL by a user who is signed in. *)
Unauthorized(i) == Contains(started, i) /\ phase[i] = "first" /\ LoginPing[i] /= NoId

(* ERR_TOKEN_REVOKED: both branches join the same answer, which is over. *)
TokenRevoked(i) ==
    /\ Unauthorized(i)
    /\ Ends(i, "cancelled")
    /\ UNCHANGED phase

(* loginPing is another fetch. *)
Login(i) ==
    /\ Unauthorized(i)
    /\ phase' = [phase EXCEPT ![i] = "login"]
    /\ Begin(Do("add", <<LoginPing[i]>>))
    /\ UNCHANGED outcome

(* The promise of loginPing is settled. *)
SlipLoggedIn(i) ==      \* logs out after a 401 of loginPing and throws nothing
    /\ Contains(started, i)
    /\ phase[i] = "login"
    /\ outcome[LoginPing[i]] = "value"
    /\ phase' = [phase EXCEPT ![i] = "retry"]
    /\ Begin(<<>>)
    /\ UNCHANGED outcome

LoggedIn(i) ==
    /\ Contains(started, i)
    /\ phase[i] = "login"
    /\ \/ /\ outcome[LoginPing[i]] = "value"
          /\ phase' = [phase EXCEPT ![i] = "retry"]
          /\ Begin(<<>>)
          /\ UNCHANGED outcome
       \/ /\ outcome[LoginPing[i]] \in {"error", "cancelled"}
          /\ Ends(i, "error")
          /\ UNCHANGED phase

Next ==
    \/ Proceed
    \/ \E c \in Consumers : Request(c) \/ Unsubscribe(c)
    \/ \E r \in RequestIds : ResolveCanceler(r)
    \/ CancelAllInFlightRequests
    \/ \E i \in Ids : Answer(i) \/ TokenRevoked(i) \/ Login(i) \/ LoggedIn(i)

(* An event runs to its end; as long as requests are open, some are answered. *)
Fairness ==
    /\ WF_vars(Proceed)
    /\ WF_vars(\E i \in Ids : Answer(i) \/ LoggedIn(i))

Spec == Init /\ [][Next]_vars /\ Fairness
-----------------------------------------------------------------------------
(* Properties.  Between two events no calls are left. *)
Quiet == calls = <<>>

(* A slot of the queue is held for somebody: an entry in progress has an   *)
(* observer whose teardown will remove it.  backend_srv.ts:117 says that   *)
(* the teardown does so even if it is called before the response queue has *)
(* produced a result; but setInProgress (ResponseQueue.ts:30) puts back    *)
(* the entry of a request whose consumer let go while concatMap was        *)
(* emitting, and nobody ever removes that one.                             *)
SlotsAreHeld == Quiet => InProgress \subseteq listening

(* No more data queries are underway than maxParallelRequests, although    *)
(* the worker compares the entries of today with the noOfInProgress of     *)
(* the moment an update was published (FetchQueueWorker.ts concatMap).     *)
AtMostMaxParallel == Cardinality(InProgress \cap DataQueries) <= MaxParallel

(* Both hold as long as a request that is underway while a later one with  *)
(* its request ID listens has a consumer of its own: the start of the      *)
(* later one then lets go of that request alone.  If it lets go of a whole *)
(* forkJoin, neither need hold.                                            *)
SharersAreSingle ==
    \A i \in ToSet(started), j \in listening :
        i /= j /\ RequestId[i] = RequestId[j] /\ RequestId[i] /= NoId => Siblings(i) = <<i>>

(* Of the requests with one request ID the latest alone is underway, in    *)
(* whatever order the queue let them go (backend_srv.ts inFlightRequests). *)
OneInFlight ==
    \A i, j \in ToSet(started) : RequestId[i] = RequestId[j] /\ RequestId[i] /= NoId => i = j

(* The worker never leaves a request behind: between two events only data  *)
(* queries wait, and only for a slot.  It acts on updates alone, so one    *)
(* that it misses or misreads would leave a request waiting for ever.      *)
NothingWaitsNeedlessly ==
    Quiet => \A i \in WithStatus("Pending", status) :
                i \in DataQueries /\ Cardinality(InProgress) >= MaxParallel

(* Every call of fetch is answered, fails or is cancelled in the end, the  *)
(* queued ones and the ones that wait for a login included.                *)
EveryCallEnds == listening /= {} ~> listening = {}

(* A request that is repeated after a login and then reported as aborted   *)
(* has been cancelled: throwIfEmpty is there to tell the requests that     *)
(* takeUntil completed (backend_srv.ts toFailureStream,                    *)
(* handleStreamCancellation).                                              *)
RetryIsNotAborted ==
    \A i \in Ids : phase[i] = "retry" /\ outcome[i] = "cancelled" => i \in cancelled
=============================================================================
