----------------------------- MODULE LiveStream -----------------------------
(***************************************************************************)
(* Live data of Grafana's frontend (public/app/features/live): how the     *)
(* rows a server publishes on one channel reach the panels.                *)
(*                                                                         *)
(*   - CentrifugeService.getChannel and CentrifugeLiveChannel: the channel *)
(*     on the websocket, its state, and its end a quarter of a second      *)
(*     after the last listener left;                                       *)
(*   - LiveDataStream: the frame buffer that all panels of a channel share *)
(*     and that outlives the last of them for five seconds, and what each  *)
(*     of them is sent of it;                                              *)
(*   - GrafanaLiveService.getDataStream: the frame of a panel.             *)
(*                                                                         *)
(* The websocket and its server are external.  Rows are numbered in the    *)
(* order the server publishes them; a frame is the sequence of its rows.   *)
(* Channels and streams of the same channel ID are numbered too.           *)
(***************************************************************************)
EXTENDS Integers, Sequences, FiniteSets

CONSTANTS
    Subscribers,    \* panels
    MaxLength,      \* options.buffer.maxLength of each
    Replaces,       \* those with the Replace action
    DefaultLength,  \* defaultStreamingFrameOptions.maxLength
    Schemas,        \* structures of the frames
    MaxRows,        \* bound: rows the server publishes
    MaxPacket,      \* bound: rows of a message
    MaxMessages,    \* bound: messages
    MaxStreams,     \* bound: LiveDataStreams, one after the other
    MaxChannels,    \* bound: channels, one after the other
    None

Streams == 1..MaxStreams
Channels == 1..MaxChannels
Nothing == 0            \* no stream, no channel
NotYet == -1
NoSchema == None

ASSUME LengthAssumption == /\ MaxLength \in [Subscribers -> Nat \ {0}]
                           /\ DefaultLength \in Nat \ {0}
                           /\ Replaces \subseteq Subscribers
ASSUME BoundAssumption == /\ MaxPacket \in Nat /\ MaxRows \in Nat /\ MaxMessages \in Nat
                          /\ MaxStreams \in Nat /\ MaxChannels \in Nat

VARIABLES
    rows,       \* how many rows the server has published
    messages,   \* how many messages there have been
    connected,  \* State.Connected of the websocket
    blocked,    \* connectionBlocker: it never was
    ready,      \* liveTimer.ok: the page keeps up with its updates
    chan,       \* every CentrifugeLiveChannel; None: not created
    open,       \* CentrifugeService.open
    live,       \* every LiveDataStream; None: not created
    current,    \* CentrifugeService.liveDataStreamByChannelId
    user        \* every panel: its subscription and its frame

vars == <<rows, messages, connected, blocked, ready, chan, open, live, current, user>>

RowSeqs == Seq(1..MaxRows)
Message == [schema : Schemas \cup {NoSchema}, rows : RowSeqs]
InternalMessage == [type : {"Error", "ChangedSchema", "NewValues"}, rows : RowSeqs]
Channel == [state : {"Pending", "Connecting", "Connected", "Disconnected"},
            init : {"await", "refused", "done"},
            subscription : {"none", "subscribing", "subscribed", "unsubscribed"},
            last : Message \cup {None}, error : BOOLEAN, closing : BOOLEAN]
Stream == [source : Channels \cup {Nothing}, buffer : RowSeqs, maxLength : Nat, packet : 0..MaxRows,
           schema : Schemas \cup {NoSchema}, last : InternalMessage \cup {None},
           shutdown : BOOLEAN, timer : BOOLEAN, log : RowSeqs]
User == [on : Streams \cup {Nothing}, ahead : SUBSET Subscribers, canEmit : BOOLEAN,
         buffer : Seq(InternalMessage), fullFrame : BOOLEAN, fields : {"none", "own", "shared"},
         view : RowSeqs, seen : Nat \cup {NotYet}, gap : BOOLEAN]

(* None stands for what is not there.                                      *)
ASSUME NoneAssumption == /\ None \notin Schemas /\ None \notin Message /\ None \notin InternalMessage
                         /\ None \notin Channel /\ None \notin Stream

TypeOK ==
    /\ rows \in 0..MaxRows
    /\ messages \in 0..MaxMessages
    /\ {connected, blocked, ready} \subseteq BOOLEAN
    /\ chan \in [Channels -> Channel \cup {None}]
    /\ open \in Channels \cup {Nothing}
    /\ live \in [Streams -> Stream \cup {None}]
    /\ current \in Streams \cup {Nothing}
    /\ user \in [Subscribers -> User]
    /\ \A s \in Subscribers : Len(user[s].view) <= MaxLength[s]

Idle == [on |-> Nothing, ahead |-> {}, canEmit |-> TRUE, buffer |-> <<>>, fullFrame |-> TRUE,
         fields |-> "none", view |-> <<>>, seen |-> NotYet, gap |-> FALSE]

Init ==
    /\ rows = 0
    /\ messages = 0
    /\ connected \in BOOLEAN
    /\ blocked = ~connected
    /\ ready = TRUE
    /\ chan = [c \in Channels |-> None]
    /\ open = Nothing
    /\ live = [d \in Streams |-> None]
    /\ current = Nothing
    /\ user = [s \in Subscribers |-> Idle]
-----------------------------------------------------------------------------
(* StreamingDataFrame: the buffer of a stream.                             *)

Smaller(a, b) == IF a < b THEN a ELSE b
Larger(a, b) == IF a > b THEN a ELSE b

(* getNumberOfItemsToRemove, without a limit on the time they span.        *)
Trim(q, n) == SubSeq(q, Larger(Len(q) - n, 0) + 1, Len(q))

(* getValuesFromLastPacket: slice counts from the end if the buffer is     *)
(* shorter than the packet was.                                            *)
ValuesFromLastPacket(buffer, packet) ==
    IF packet <= Len(buffer) THEN Trim(buffer, packet) ELSE Trim(buffer, packet - Len(buffer))

(* push: a message may bring a schema, rows or both; the rows are not      *)
(* trimmed while there are none before them.                               *)
SchemaChanged(d, msg) == msg.schema \notin {NoSchema, d.schema}

PushFrame(d, msg) ==
    [d EXCEPT !.buffer = IF msg.rows = <<>> \/ @ = <<>> THEN @ \o msg.rows
                         ELSE Trim(@ \o msg.rows, d.maxLength),
              !.packet = Len(msg.rows),
              !.schema = IF SchemaChanged(d, msg) THEN msg.schema ELSE @,
              !.log = @ \o msg.rows]

(* resize: the buffer is as long as its longest subscriber wants it.       *)
Resize(d, n) == [d EXCEPT !.maxLength = Larger(@, n)]

(* pushNewValues, of a panel's own frame.                                  *)
PushNewValues(s, view, values) ==
    IF s \in Replaces THEN Trim(values, MaxLength[s]) ELSE Trim(view \o values, MaxLength[s])

(* LiveDataStream.process: the subscribers are told of the values of the   *)
(* message or of the change of the schema.                                 *)
Push(d, msg) ==
    LET next == PushFrame(d, msg)
    IN  [next EXCEPT !.last =
            IF SchemaChanged(d, msg) THEN [type |-> "ChangedSchema", rows |-> <<>>]
            ELSE [type |-> "NewValues", rows |-> ValuesFromLastPacket(next.buffer, next.packet)]]

EmptyStream ==
    [source |-> Nothing, buffer |-> <<>>, maxLength |-> DefaultLength, packet |-> 0,
     schema |-> NoSchema, last |-> None, shutdown |-> FALSE, timer |-> FALSE, log |-> <<>>]

(* A stream that has shut down, of which only the timer matters.           *)
Over(timer) == [EmptyStream EXCEPT !.shutdown = TRUE, !.timer = timer]

PushError(d) == [d EXCEPT !.last = [type |-> "Error", rows |-> <<>>]]
-----------------------------------------------------------------------------
(* What a subscriber is sent, and the frame it makes of it.                *)

HasType(msgs, type) == \E i \in 1..Len(msgs) : msgs[i].type = type

(* getFullFrameResponseData.                                               *)
SlipFullFrame(s, d, msgs) ==       \* the buffer as it is
    IF s \notin Replaces THEN d.buffer
    ELSE IF HasType(msgs, "Error") THEN <<>>
    ELSE Trim(d.buffer, d.packet)

FullFrame(s, d, msgs) ==
    IF s \notin Replaces THEN Trim(d.buffer, MaxLength[s])
    ELSE IF HasType(msgs, "Error") THEN <<>>
    ELSE Trim(d.buffer, Smaller(d.packet, MaxLength[s]))

(* reduceNewValuesSameSchemaMessages.                                      *)
NewValues(msgs) ==
    LET upTo[i \in 0..Len(msgs)] == IF i = 0 THEN <<>> ELSE upTo[i - 1] \o msgs[i].rows
    IN  upTo[Len(msgs)]

(* Whether the messages are emitted as a full frame: if it is the first,   *)
(* or there was an error or another schema.                                *)
Whole(u, msgs) == u.fullFrame \/ HasType(msgs, "Error") \/ HasType(msgs, "ChangedSchema")

(* A full frame has no fields if the stream has had no schema and no rows; *)
(* its values are copies of the stream's.                                  *)
FieldsOf(d) == IF d.schema = NoSchema /\ d.log = <<>> THEN "none" ELSE "own"

(* The buffered messages are emitted, as a full frame or as new values,    *)
(* which a frame without fields has no place for.                          *)
SlipShow(s, u, d, msgs) ==       \* the last message stands for all
    [u EXCEPT !.buffer = <<>>,
              !.fullFrame = FALSE,
              !.seen = Len(d.log),
              !.gap = @ /\ ~Whole(u, msgs),
              !.fields = IF Whole(u, msgs) THEN FieldsOf(d)
                         ELSE IF s \in Replaces /\ @ /= "none" THEN "shared" ELSE @,
              !.view = IF Whole(u, msgs) THEN FullFrame(s, d, msgs)
                       ELSE IF u.fields = "none" THEN @
                       ELSE PushNewValues(s, @, msgs[Len(msgs)].rows)]

Show(s, u, d, msgs) ==
    [u EXCEPT !.buffer = <<>>,
              !.fullFrame = FALSE,
              !.seen = Len(d.log),
              !.gap = @ /\ ~Whole(u, msgs),
              !.fields = IF Whole(u, msgs) THEN FieldsOf(d)
                         ELSE IF s \in Replaces /\ @ /= "none" THEN "shared" ELSE @,
              !.view = IF Whole(u, msgs) THEN FullFrame(s, d, msgs)
                       ELSE IF u.fields = "none" THEN @
                       ELSE PushNewValues(s, @, IF s \in Replaces THEN msgs[Len(msgs)].rows
                                                ELSE NewValues(msgs))]

(* The values of a message are the same arrays for all who are sent it.  A *)
(* panel that replaces makes them those of its own frame, without a copy,  *)
(* and splices the first rows off if they are too many for it: whoever is  *)
(* told after it, or holds the message back, or has made them its own      *)
(* before, is left with as many rows as each of the takers keeps.          *)
Takes(s, u, msgs) == s \in Replaces /\ u.fields /= "none" /\ ~Whole(u, msgs)

Keeps(q, takers) == Cardinality({i \in 1..Len(q) : \A r \in takers : Len(q) - i < MaxLength[r]})
Spliced(q, takers) == Trim(q, Keeps(q, takers))

(* Those of the takers that get the message before s reads it.             *)
Earlier(s, u, takers) == IF s \in takers \/ ~u.canEmit THEN takers ELSE takers \cap u.ahead

(* The last of the messages of s without the rows that are spliced off.    *)
Cut(s, u, msgs, takers) ==
    [msgs EXCEPT ![Len(msgs)].rows = Spliced(@, Earlier(s, u, takers))]

Bereft(s, u, msgs, cut) == [u EXCEPT !.gap = @ \/ (s \notin Replaces /\ ~u.fullFrame /\ cut /= msgs)]

(* bufferIfNot: d has just sent its last message.                          *)
Receive(s, u, d, takers) ==
    LET msgs == Cut(s, u, <<d.last>>, takers)
        v == Bereft(s, u, <<d.last>>, msgs)
    IN  IF u.canEmit THEN Show(s, v, d, msgs) ELSE [v EXCEPT !.buffer = Append(@, msgs[1])]

Observed(d) == \E s \in Subscribers : user[s].on = d
Listeners(c) == {d \in Streams : live[d] /= None /\ live[d].source = c}

(* The panels on d that take over the values of its next message.          *)
Takers(d, next) ==
    {r \in Subscribers : user[r].on = d /\ user[r].canEmit /\ Takes(r, user[r], <<next.last>>)}

(* The streams ds become next, and each of them tells its subscribers.     *)
Tell(ds, next) ==
    /\ live' = [d \in Streams |-> IF d \in ds THEN next[d] ELSE live[d]]
    /\ user' = [s \in Subscribers |-> LET u == user[s] IN
                   IF u.on \in ds THEN Receive(s, u, next[u.on], Takers(u.on, next[u.on])) ELSE u]
-----------------------------------------------------------------------------
(* The channel. *)

NewChannel(init) ==
    [state |-> "Pending", init |-> init, subscription |-> "none", last |-> None, error |-> FALSE,
     closing |-> FALSE]

Initalize(ch) == [ch EXCEPT !.init = "done", !.subscription = "subscribing", !.state = "Connecting"]

(* initChannel, if it had to wait for the websocket: it goes on whether or *)
(* not the channel has been disconnected meanwhile.                        *)
InitChannel(c) ==
    /\ chan[c] /= None
    /\ chan[c].init = "await"
    /\ ~blocked
    /\ \/ chan' = [chan EXCEPT ![c] = Initalize(@)]
       \/ chan' = [chan EXCEPT ![c].init = "refused"]
    /\ UNCHANGED <<rows, messages, connected, blocked, ready, open, live, current, user>>

(* The subscription ends, the stream of the channel completes, and with it *)
(* every LiveDataStream on it and its subscribers, the last of which       *)
(* starts a timer; shutdownCallback closes whatever channel is open.       *)
SlipClose(c, init) ==      \* onShutdown for want of subscribers only
    /\ chan' = [chan EXCEPT ![c] = NewChannel(init)]
    /\ open' = Nothing
    /\ live' = [d \in Streams |->
                   IF d \in Listeners(c)
                   THEN Over(live[d].timer \/ Observed(d))
                   ELSE live[d]]
    /\ user' = [s \in Subscribers |-> IF user[s].on \in Listeners(c) THEN Idle ELSE user[s]]
    /\ UNCHANGED current

Close(c, init) ==
    /\ chan' = [chan EXCEPT ![c] = NewChannel(init)]
    /\ open' = Nothing
    /\ live' = [d \in Streams |->
                   IF d \in Listeners(c)
                   THEN Over(live[d].timer \/ Observed(d))
                   ELSE live[d]]
    /\ user' = [s \in Subscribers |-> IF user[s].on \in Listeners(c) THEN Idle ELSE user[s]]
    /\ current' = IF Listeners(c) = {} THEN current ELSE Nothing

(* initChannel fails, and the channel is shut down with the error.         *)
RefuseChannel(c) ==
    /\ chan[c] /= None
    /\ chan[c].init = "refused"
    /\ Close(c, "done")
    /\ UNCHANGED <<rows, messages, connected, blocked, ready>>

(* disconnectIfNoListeners, 250 ms after the last listener left.           *)
CloseTimer(c) ==
    /\ chan[c] /= None
    /\ chan[c].closing
    /\ IF Listeners(c) = {}
       THEN Close(c, chan[c].init)
       ELSE /\ chan' = [chan EXCEPT ![c].closing = FALSE]
            /\ UNCHANGED <<open, live, current, user>>
    /\ UNCHANGED <<rows, messages, connected, blocked, ready>>

(* A message of the server on every channel that is subscribed, with a     *)
(* schema or without, with rows or without.                                *)
Publish(schema, n) ==
    /\ connected
    /\ messages < MaxMessages
    /\ rows + n <= MaxRows
    /\ n > 0 \/ schema /= NoSchema
    /\ LET msg == [schema |-> schema, rows |-> [i \in 1..n |-> rows + i]]
           cs == {c \in Channels : chan[c] /= None /\ chan[c].subscription = "subscribed"}
           ds == UNION {Listeners(c) : c \in cs}
       IN  /\ chan' = [c \in Channels |->
                          IF c \in cs
                          THEN [chan[c] EXCEPT !.last = IF schema = NoSchema THEN @ ELSE msg,
                                               !.error = FALSE]
                          ELSE chan[c]]
           /\ Tell(ds, [d \in ds |-> Push(live[d], msg)])
    /\ rows' = rows + n
    /\ messages' = messages + 1
    /\ UNCHANGED <<connected, blocked, ready, open, current>>

(* The last row published, which a query or a subscription returns.        *)
LastFrame(schema) == [schema |-> schema, rows |-> IF rows = 0 THEN <<>> ELSE <<rows>>]

(* "subscribed": the reply may hold the last frame of the server.          *)
Subscribed(c, data) ==
    /\ connected
    /\ chan[c] /= None
    /\ chan[c].subscription = "subscribing"
    /\ data /= None => messages < MaxMessages
    /\ chan' = [chan EXCEPT ![c].subscription = "subscribed", ![c].state = "Connected",
                            ![c].error = FALSE, ![c].last = IF data = None THEN @ ELSE data]
    /\ IF data = None
       THEN UNCHANGED <<live, user>>
       ELSE Tell(Listeners(c), [d \in Listeners(c) |-> Push(live[d], data)])
    /\ messages' = IF data = None THEN messages ELSE messages + 1
    /\ UNCHANGED <<rows, connected, blocked, ready, open, current>>

(* "error": the subscription could not be made yet, and is tried again.    *)
SubscriptionError(c) ==
    /\ connected
    /\ chan[c] /= None
    /\ chan[c].subscription = "subscribing"
    /\ messages < MaxMessages
    /\ chan' = [chan EXCEPT ![c].error = TRUE]
    /\ Tell(Listeners(c), [d \in Listeners(c) |-> PushError(live[d])])
    /\ messages' = messages + 1
    /\ UNCHANGED <<rows, connected, blocked, ready, open, current>>

(* "unsubscribed" by the server; the status repeats the error, if any.     *)
Unsubscribed(c) ==
    /\ connected
    /\ chan[c] /= None
    /\ chan[c].subscription \in {"subscribing", "subscribed"}
    /\ chan' = [chan EXCEPT ![c].subscription = "unsubscribed", ![c].state = "Disconnected"]
    /\ IF chan[c].error
       THEN Tell(Listeners(c), [d \in Listeners(c) |-> PushError(live[d])])
       ELSE UNCHANGED <<live, user>>
    /\ UNCHANGED <<rows, messages, connected, blocked, ready, open, current>>

Connect ==
    /\ ~connected
    /\ connected' = TRUE
    /\ blocked' = FALSE
    /\ UNCHANGED <<rows, messages, ready, chan, open, live, current, user>>

(* The websocket is lost: "subscribing" again on every channel.            *)
Disconnect ==
    /\ connected
    /\ messages < MaxMessages
    /\ connected' = FALSE
    /\ messages' = messages + 1
    /\ chan' = [c \in Channels |->
                   IF chan[c] /= None /\ chan[c].subscription = "subscribed"
                   THEN [chan[c] EXCEPT !.subscription = "subscribing", !.state = "Connecting"]
                   ELSE chan[c]]
    /\ UNCHANGED <<rows, blocked, ready, open, live, current, user>>
-----------------------------------------------------------------------------
(* Streams and their subscribers. *)

(* A new LiveDataStream starts with the status of the channel and the last *)
(* message with a schema, unless the channel is not connected.             *)
NewStream(c, ch) ==
    LET d == [EmptyStream EXCEPT !.source = c]
    IN  IF ch.error THEN PushError(d)
        ELSE IF ch.state \in {"Connected", "Pending"} /\ ch.last /= None THEN Push(d, ch.last)
        ELSE d

(* getDataStream and the subscription to what it returns: the stream may   *)
(* be there or not, and so may the channel.  An initial frame is taken     *)
(* unless the last packet had rows; the last message is replayed.          *)
Subscribe(s, frame, init) ==
    /\ user[s].on = Nothing
    /\ LET c == IF open /= Nothing THEN open ELSE Cardinality({x \in Channels : chan[x] /= None}) + 1
           d == IF current /= Nothing THEN current ELSE Cardinality({x \in Streams : live[x] /= None}) + 1
           ch == IF current = Nothing /\ open = Nothing THEN (IF init = "done" THEN Initalize(NewChannel(init)) ELSE NewChannel(init))
                 ELSE chan[c]
           got == IF current = Nothing THEN NewStream(c, ch) ELSE live[d]
           resized == [Resize(got, MaxLength[s]) EXCEPT !.timer = FALSE]
           takes == resized.packet = 0 /\ frame /= None
           next == IF takes THEN Push(resized, frame) ELSE resized
           u == [Idle EXCEPT !.on = d, !.ahead = {r \in Subscribers : user[r].on = d},
                             !.canEmit = ready \/ \E r \in Subscribers : user[r].on /= Nothing]
       IN  /\ d \in Streams
           /\ messages' = IF takes THEN messages + 1 ELSE messages
           /\ messages' <= MaxMessages
           /\ current' = d
           /\ live' = [live EXCEPT ![d] = next]
           /\ IF current = Nothing
              THEN /\ c \in Channels
                   /\ open' = c
                   /\ chan' = [chan EXCEPT ![c] = ch]
              ELSE UNCHANGED <<open, chan>>
           /\ user' = [r \in Subscribers |->
                          IF r = s THEN IF next.last = None THEN u ELSE Receive(s, u, next, {})
                          ELSE IF user[r].on = d /\ takes
                               THEN Receive(r, user[r], next, Takers(d, next))
                          ELSE user[r]]
    /\ UNCHANGED <<rows, connected, blocked, ready>>

SlipUnsubscribe(s) ==      \* the timer is started by get only
    /\ user[s].on /= Nothing
    /\ user' = [r \in Subscribers |-> IF r = s THEN Idle ELSE [user[r] EXCEPT !.ahead = @ \ {s}]]
    /\ UNCHANGED <<rows, messages, connected, blocked, ready, chan, open, live, current>>

Unsubscribe(s) ==
    /\ user[s].on /= Nothing
    /\ user' = [r \in Subscribers |-> IF r = s THEN Idle ELSE [user[r] EXCEPT !.ahead = @ \ {s}]]
    /\ live' = [live EXCEPT ![user[s].on].timer =
                   @ \/ \A r \in Subscribers \ {s} : user[r].on /= user[s].on]
    /\ UNCHANGED <<rows, messages, connected, blocked, ready, chan, open, current>>

(* shutdownIfNoSubscribers, five seconds after the last one left, which is *)
(* longer than a channel waits for its listeners.                          *)
ShutdownTimer(d) ==
    /\ live[d] /= None
    /\ live[d].timer
    /\ live[d].source /= Nothing => ~chan[live[d].source].closing
    /\ LET c == live[d].source IN
       IF Observed(d)
       THEN /\ live' = [live EXCEPT ![d].timer = FALSE]
            /\ UNCHANGED <<chan, current>>
       ELSE /\ live' = [live EXCEPT ![d] = Over(FALSE)]
            /\ current' = Nothing
            /\ chan' = IF c /= Nothing /\ Listeners(c) = {d}
                       THEN [chan EXCEPT ![c].closing = TRUE] ELSE chan
    /\ UNCHANGED <<rows, messages, connected, blocked, ready, open, user>>

(* liveTimer.ok changes: what has been held back is emitted.               *)
SlipSetReady ==      \* what was held back waits for the next message
    /\ ready' = ~ready
    /\ user' = [s \in Subscribers |-> [user[s] EXCEPT !.canEmit = user[s].on = Nothing \/ ready']]
    /\ UNCHANGED <<rows, messages, connected, blocked, chan, open, live, current>>

(* All who hold messages back hold the last one of their stream.           *)
Wakers(d, ok) ==
    {r \in Subscribers : user[r].on = d /\ ok /\ user[r].buffer /= <<>> /\ Takes(r, user[r], user[r].buffer)}

Wake(s, ok, takers) ==
    LET u == [user[s] EXCEPT !.canEmit = user[s].on = Nothing \/ ok]
        msgs == Cut(s, u, u.buffer, takers)
    IN  IF u.canEmit /\ u.buffer /= <<>> THEN Show(s, Bereft(s, u, u.buffer, msgs), live[u.on], msgs)
        ELSE IF u.fields = "shared" THEN [u EXCEPT !.view = Spliced(@, takers)]
        ELSE u

SetReady ==
    /\ ready' = ~ready
    /\ user' = [s \in Subscribers |-> Wake(s, ready', Wakers(user[s].on, ready'))]
    /\ UNCHANGED <<rows, messages, connected, blocked, chan, open, live, current>>

Frames == {None} \cup {LastFrame(schema) : schema \in Schemas}

Next ==
    \/ \E schema \in Schemas \cup {NoSchema}, n \in 0..MaxPacket : Publish(schema, n)
    \/ \E c \in Channels : \/ InitChannel(c)
                           \/ RefuseChannel(c)
                           \/ CloseTimer(c)
                           \/ \E data \in Frames : Subscribed(c, data)
                           \/ SubscriptionError(c)
                           \/ Unsubscribed(c)
    \/ Connect
    \/ Disconnect
    \/ \E s \in Subscribers : \/ \E frame \in Frames,
                                    init \in IF connected THEN {"done", "refused"} ELSE {"await"} :
                                    Subscribe(s, frame, init)
                              \/ Unsubscribe(s)
    \/ \E d \in Streams : ShutdownTimer(d)
    \/ SetReady

(* Timers fire. *)
Fairness ==
    /\ \A c \in Channels : WF_vars(CloseTimer(c)) /\ WF_vars(RefuseChannel(c))
    /\ \A d \in Streams : WF_vars(ShutdownTimer(d))

Spec == Init /\ [][Next]_vars /\ Fairness
-----------------------------------------------------------------------------
(* Properties. *)

(* What the frame of a panel that has been sent one is short of.           *)
Lacks(u) == IF u.seen = NotYet THEN "nothing"
            ELSE IF u.fields = "none" THEN "fields"
            ELSE IF u.gap THEN "rows" ELSE "nothing"

Promise == INSTANCE LiveFrames
             WITH log <- [d \in Streams |-> IF live[d] = None THEN <<>> ELSE live[d].log],
                  on <- [s \in Subscribers |-> user[s].on],
                  view <- [s \in Subscribers |-> user[s].view],
                  seen <- [s \in Subscribers |-> user[s].seen],
                  lacks <- [s \in Subscribers |-> Lacks(user[s])]

(* The frame a panel has put together from differences is the window of    *)
(* the stream's rows that it would be sent as a whole, but for the two     *)
(* exceptions of LiveFrames (LiveDataStream.ts get, live.ts getDataStream, *)
(* StreamingDataFrame.ts pushNewValues).                                   *)
ImplementsFrames == Promise!Spec

(* While the page keeps up, nothing the stream has is held back            *)
(* (LiveDataStream.ts bufferIfNot).                                        *)
ReadyIsCurrent ==
    ready => \A s \in Subscribers : user[s].on /= Nothing =>
        /\ user[s].buffer = <<>>
        /\ live[user[s].on].last /= None => user[s].seen = Len(live[user[s].on].log)

(* A panel that asks for a channel never gets a stream that is over: one   *)
(* that shuts down is forgotten at once (LiveDataStream.ts shutdown).      *)
CurrentIsAlive == current /= Nothing => ~live[current].shutdown /\ live[current].source /= Nothing

(* A channel that no panel listens to is closed in the end, whatever came  *)
(* in between (LiveDataStream.ts shutdownIfNoSubscribers, channel.ts       *)
(* disconnectIfNoListeners).                                               *)
UnusedChannelIsClosed ==
    (\A s \in Subscribers : user[s].on = Nothing)
        ~> open = Nothing \/ \E s \in Subscribers : user[s].on /= Nothing
=============================================================================
