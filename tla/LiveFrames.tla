----------------------------- MODULE LiveFrames -----------------------------
(***************************************************************************)
(* What a live data stream promises its subscribers: whatever is sent as a *)
(* whole frame, as a difference, late or several at once, a subscriber     *)
(* that appends sees a window of the rows of its stream in which no row is *)
(* lost, repeated or out of order, and one that replaces sees the last     *)
(* rows.  There are two exceptions: the rows of a message may be cut short *)
(* by a subscriber of the same stream that replaces and keeps fewer, and a *)
(* subscriber whose first frame came before there was anything in the      *)
(* stream may see nothing; both until a whole frame is sent again.         *)
(***************************************************************************)
EXTENDS Integers, Sequences

CONSTANTS
    Subscribers,
    Streams,
    MaxLength,  \* the length of every subscriber's frame
    Replaces    \* subscribers that want the last packet only

VARIABLES
    log,        \* the rows every stream has had
    on,         \* the stream of every subscriber, NoStream: none
    view,       \* the rows every subscriber sees
    seen,       \* how many rows of the log there were when it was shown any
    lacks       \* what its frame lacks: "nothing", "fields", "rows"

vars == <<log, on, view, seen, lacks>>

NoStream == 0
NotYet == -1

Trim(rows, n) == SubSeq(rows, IF Len(rows) > n THEN Len(rows) - n + 1 ELSE 1, Len(rows))

IsWindow(rows, n, whole) == rows = Trim(whole, Len(rows)) /\ Len(rows) <= n

(* A window with rows missing still shows the newest row.                  *)
ShowsNewest(rows, n, whole) ==
    /\ Len(rows) <= n
    /\ whole /= <<>> => rows /= <<>> /\ rows[Len(rows)] = whole[Len(whole)]

Init ==
    /\ log = [d \in Streams |-> <<>>]
    /\ on = [s \in Subscribers |-> NoStream]
    /\ view = [s \in Subscribers |-> <<>>]
    /\ seen = [s \in Subscribers |-> NotYet]
    /\ lacks = [s \in Subscribers |-> "nothing"]

(* A stream only grows, and is forgotten when nobody listens to it. *)
Grow(d) ==
    \/ /\ Len(log[d]) <= Len(log'[d])
       /\ SubSeq(log'[d], 1, Len(log[d])) = log[d]
    \/ log'[d] = <<>> /\ \A s \in Subscribers : on'[s] /= d

(* Another subscriber of the stream replaces, and keeps fewer than n rows. *)
CutShort(s, n) ==
    \E r \in Replaces \ {s} : on[r] = on[s] /\ on'[r] = on[s] /\ MaxLength[r] < n

(* What s has not been shown of its stream.                                *)
News(s) == SubSeq(log'[on[s]], seen[s] + 1, Len(log'[on[s]]))

MayLack(s) ==
    /\ seen[s] /= NotYet
    /\ lacks[s] = "rows" \/ (lacks[s] = "nothing" /\ CutShort(s, Len(News(s))))

(* What is shown stays, but for the rows that another splices off; rows    *)
(* that are yet to be shown may be spliced off too.                        *)
Idle(s) ==
    /\ UNCHANGED <<on[s], seen[s]>>
    /\ \/ UNCHANGED <<view[s], lacks[s]>>
       \/ /\ s \in Replaces
          /\ CutShort(s, Len(view[s]))
          /\ IsWindow(view'[s], Len(view[s]), view[s])
          /\ UNCHANGED lacks[s]
       \/ /\ s \notin Replaces
          /\ lacks'[s] = "rows"
          /\ MayLack(s)
          /\ UNCHANGED view[s]

Leave(s) ==
    /\ on'[s] = NoStream
    /\ view'[s] = <<>>
    /\ seen'[s] = NotYet
    /\ lacks'[s] = "nothing"

(* A frame of what the stream has; of nothing, it may have no fields.      *)
WholeFrame(s, d) ==
    /\ IsWindow(view'[s], MaxLength[s], log'[d])
    /\ lacks'[s] = "nothing" \/ (lacks'[s] = "fields" /\ log'[d] = <<>>)

(* A subscriber may see nothing at first. *)
Join(s) ==
    /\ on[s] = NoStream
    /\ on'[s] \in Streams
    /\ \/ view'[s] = <<>> /\ seen'[s] = NotYet /\ lacks'[s] = "nothing"
       \/ WholeFrame(s, on'[s]) /\ seen'[s] = Len(log'[on'[s]])

Show(s) ==
    /\ on[s] /= NoStream
    /\ on'[s] = on[s]
    /\ seen'[s] = Len(log'[on[s]])
    /\ \/ /\ s \in Replaces \/ seen[s] = NotYet \/ lacks[s] /= "nothing"
          /\ WholeFrame(s, on[s])
       \/ /\ s \notin Replaces
          /\ seen[s] /= NotYet
          /\ lacks[s] = "nothing"
          /\ lacks'[s] = "nothing"
          /\ view'[s] = Trim(view[s] \o News(s), MaxLength[s])
       \/ /\ s \notin Replaces
          /\ lacks'[s] = "rows"
          /\ MayLack(s)
          /\ ShowsNewest(view'[s], MaxLength[s], log'[on[s]])
       \/ /\ lacks[s] = "fields"
          /\ UNCHANGED <<view[s], lacks[s]>>

Next ==
    /\ \A d \in Streams : Grow(d)
    /\ \A s \in Subscribers : Idle(s) \/ Leave(s) \/ Join(s) \/ Show(s)

Spec == Init /\ [][Next]_vars
=============================================================================
