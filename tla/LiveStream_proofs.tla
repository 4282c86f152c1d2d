------------------------- MODULE LiveStream_proofs -------------------------
(***************************************************************************)
(* Proofs about live streams, for any panels, buffer lengths, numbers of   *)
(* rows, messages, streams and channels.                                   *)
(***************************************************************************)
EXTENDS LiveStream, SequenceTheorems, FiniteSetTheorems, WellFoundedInduction, TLAPS

-----------------------------------------------------------------------------
(* Sequences of rows                                                       *)

(* r is the end of q.                                                      *)
EndOf(r, q) == /\ Len(r) <= Len(q)
               /\ \A i \in 1..Len(r) : r[i] = q[Len(q) - Len(r) + i]

(* A trimmed sequence is the end of the sequence.                          *)
LEMMA TrimEnds ==
    ASSUME NEW S, NEW q \in Seq(S), NEW n \in Nat
    PROVE  /\ Trim(q, n) \in Seq(S)
           /\ Len(Trim(q, n)) = IF n < Len(q) THEN n ELSE Len(q)
           /\ EndOf(Trim(q, n), q)
<1>. DEFINE l == Len(q)
            m == IF l - n > 0 THEN l - n + 1 ELSE 1
            t == SubSeq(q, m, l)
<1>1. l \in Nat /\ m \in 1..(l + 1) /\ \A i \in 1..l : q[i] \in S
  BY LenProperties, ElementOfSeq
<1>2. Trim(q, n) = t
  BY <1>1 DEF Trim, Larger
<1>. HIDE DEF m, l
<1>3. m \in Int /\ l \in Int /\ \A i \in m..l : q[i] \in S
  BY <1>1
<1>4. /\ t \in Seq(S)
      /\ Len(t) = IF m <= l THEN l - m + 1 ELSE 0
      /\ \A i \in 1..(l - m + 1) : t[i] = q[m + i - 1]
  BY ONLY <1>3, SubSeqProperties
<1>. HIDE DEF t
<1>5. Len(t) = IF n < l THEN n ELSE l
  BY <1>1, <1>4 DEF m
<1>6. Len(t) = l - m + 1
  BY <1>1, <1>4
<1>7. \A i \in 1..Len(t) : t[i] = q[l - Len(t) + i]
  <2>. SUFFICES ASSUME NEW i \in 1..Len(t) PROVE t[i] = q[l - Len(t) + i]
    OBVIOUS
  <2>1. l - Len(t) + i = m + i - 1
    BY <1>1, <1>6
  <2>. QED
    BY <1>4, <1>6, <2>1
<1>8. Len(t) <= l
  BY <1>1, <1>5
<1>. QED
  BY <1>2, <1>4, <1>5, <1>7, <1>8 DEF EndOf, l

(* Two ends of the same length are the same.                               *)
LEMMA SameEnd ==
    ASSUME NEW S, NEW a \in Seq(S), NEW b \in Seq(S), NEW q \in Seq(S),
           EndOf(a, q), EndOf(b, q), Len(a) = Len(b)
    PROVE  a = b
<1>1. \A i \in 1..Len(a) : a[i] = b[i]
  BY DEF EndOf
<1>. QED
  BY <1>1, SeqEqual

LEMMA EndOfEnd ==
    ASSUME NEW S, NEW a \in Seq(S), NEW b \in Seq(S), NEW q \in Seq(S),
           EndOf(a, b), EndOf(b, q)
    PROVE  EndOf(a, q)
<1>1. Len(a) \in Nat /\ Len(b) \in Nat /\ Len(q) \in Nat /\ Len(a) <= Len(b) /\ Len(b) <= Len(q)
  BY LenProperties DEF EndOf
<1>2. ASSUME NEW i \in 1..Len(a)
      PROVE  a[i] = q[Len(q) - Len(a) + i]
  <2>1. Len(b) - Len(a) + i \in 1..Len(b)
    BY <1>1
  <2>2. Len(q) - Len(b) + (Len(b) - Len(a) + i) = Len(q) - Len(a) + i
    BY <1>1
  <2>. QED
    BY <2>1, <2>2 DEF EndOf
<1>. QED
  BY <1>1, <1>2 DEF EndOf

(* What is appended to both is the end of both.                            *)
LEMMA ConcatEnds ==
    ASSUME NEW S, NEW a \in Seq(S), NEW q \in Seq(S), NEW x \in Seq(S), EndOf(a, q)
    PROVE  EndOf(a \o x, q \o x)
<1>1. Len(a) \in Nat /\ Len(q) \in Nat /\ Len(x) \in Nat /\ Len(a) <= Len(q)
  BY LenProperties DEF EndOf
<1>2. /\ Len(a \o x) = Len(a) + Len(x)
      /\ \A i \in 1..(Len(a) + Len(x)) :
            (a \o x)[i] = IF i <= Len(a) THEN a[i] ELSE x[i - Len(a)]
      /\ Len(q \o x) = Len(q) + Len(x)
      /\ \A i \in 1..(Len(q) + Len(x)) :
            (q \o x)[i] = IF i <= Len(q) THEN q[i] ELSE x[i - Len(q)]
  BY ConcatProperties
<1>3. ASSUME NEW i \in 1..(Len(a) + Len(x))
      PROVE  (a \o x)[i] = (q \o x)[Len(q) + Len(x) - (Len(a) + Len(x)) + i]
  <2>. DEFINE j == Len(q) - Len(a) + i
  <2>1. /\ j \in 1..(Len(q) + Len(x))
        /\ Len(q) + Len(x) - (Len(a) + Len(x)) + i = j
        /\ (i <= Len(a) <=> j <= Len(q))
        /\ j - Len(q) = i - Len(a)
    BY <1>1
  <2>2. CASE i <= Len(a)
    <3>1. i \in 1..Len(a)
      BY <1>1, <2>2
    <3>. QED
      BY <1>2, <2>1, <2>2, <3>1 DEF EndOf
  <2>3. CASE ~(i <= Len(a))
    <3>. HIDE DEF j
    <3>. QED
      BY <1>2, <2>1, <2>3
  <2>. QED
    BY <2>2, <2>3
<1>. QED
  BY <1>1, <1>2, <1>3 DEF EndOf

(* To trim an end is to trim the whole, unless the end is too short.       *)
LEMMA TrimOfEnd ==
    ASSUME NEW S, NEW a \in Seq(S), NEW q \in Seq(S), NEW n \in Nat,
           EndOf(a, q), n <= Len(a) \/ a = q
    PROVE  Trim(a, n) = Trim(q, n)
<1>1. Len(a) \in Nat /\ Len(q) \in Nat /\ Len(a) <= Len(q)
  BY LenProperties DEF EndOf
<1>2. /\ Trim(a, n) \in Seq(S) /\ EndOf(Trim(a, n), a)
      /\ Len(Trim(a, n)) = IF n < Len(a) THEN n ELSE Len(a)
      /\ Trim(q, n) \in Seq(S) /\ EndOf(Trim(q, n), q)
      /\ Len(Trim(q, n)) = IF n < Len(q) THEN n ELSE Len(q)
  BY TrimEnds
<1>3. CASE n <= Len(a)
  <2>1. Len(Trim(a, n)) = Len(Trim(q, n))
    BY <1>1, <1>2, <1>3
  <2>2. EndOf(Trim(a, n), q)
    BY <1>2, EndOfEnd
  <2>. QED
    BY <1>2, <2>1, <2>2, SameEnd
<1>. QED
  BY <1>3

(* The last n rows of a sequence and what follows it are those of its last *)
(* m rows and what follows, if n is not greater than m.                    *)
LEMMA TrimConcat ==
    ASSUME NEW S, NEW q \in Seq(S), NEW x \in Seq(S), NEW m \in Nat, NEW n \in Nat, n <= m
    PROVE  Trim(Trim(q, m) \o x, n) = Trim(q \o x, n)
<1>. DEFINE a == Trim(q, m)
<1>1. /\ a \in Seq(S) /\ EndOf(a, q) /\ (m < Len(q) => Len(a) = m)
      /\ (~(m < Len(q)) => Len(a) = Len(q))
  BY TrimEnds
<1>. HIDE DEF a
<1>2. Len(a) \in Nat /\ Len(q) \in Nat /\ Len(x) \in Nat
  BY <1>1, LenProperties
<1>3. a \o x \in Seq(S) /\ q \o x \in Seq(S) /\ EndOf(a \o x, q \o x)
      /\ Len(a \o x) = Len(a) + Len(x)
  BY <1>1, ConcatProperties, ConcatEnds
<1>4. CASE m < Len(q)
  <2>1. n <= Len(a \o x)
    BY <1>1, <1>2, <1>3, <1>4
  <2>. QED
    BY <1>3, <2>1, TrimOfEnd DEF a
<1>5. CASE ~(m < Len(q))
  <2>1. EndOf(q, q)
    BY <1>2 DEF EndOf
  <2>2. a = q
    BY <1>1, <1>5, <2>1, SameEnd
  <2>. QED
    BY <2>2 DEF a
<1>. QED
  BY <1>4, <1>5

LEMMA Associative ==
    ASSUME NEW S, NEW a \in Seq(S), NEW b \in Seq(S), NEW c \in Seq(S)
    PROVE  a \o (b \o c) = (a \o b) \o c
BY ConcatAssociative, SMTT(30)

(* Trimming twice is trimming once.                                        *)
LEMMA TrimTwice ==
    ASSUME NEW S, NEW q \in Seq(S), NEW m \in Nat, NEW n \in Nat, n <= m
    PROVE  Trim(Trim(q, m), n) = Trim(q, n)
<1>1. <<>> \in Seq(S)
  BY EmptySeq
<1>2. Trim(Trim(q, m) \o <<>>, n) = Trim(q \o <<>>, n)
  BY <1>1, TrimConcat, ZenonT(60)
<1>3. Trim(q, m) \in Seq(S)
  BY TrimEnds
<1>. QED
  BY <1>2, <1>3, ConcatEmptySeq
-----------------------------------------------------------------------------
(* The rows of several messages                                            *)

(* A set of natural numbers has a least one: this stands for induction.    *)
LEMMA NatIsWellFounded == IsWellFoundedOn({p \in Nat \X Nat : p[1] < p[2]}, Nat)
<1>1. OpToRel(<, Nat) = {p \in Nat \X Nat : p[1] < p[2]}
  BY DEF OpToRel
<1>. QED
  BY <1>1, NatLessThanWellFounded

LEMMA LeastNat ==
    ASSUME NEW T \in SUBSET Nat, T # {}
    PROVE  \E n \in T : \A m \in T : n <= m
<1>1. PICK n \in T : \A m \in T : ~(<<m, n>> \in {p \in Nat \X Nat : p[1] < p[2]})
  BY NatIsWellFounded, WFMin, Zenon
<1>2. ASSUME NEW m \in T PROVE n <= m
  <2>1. m \in Nat /\ n \in Nat /\ <<m, n>> \in Nat \X Nat
    OBVIOUS
  <2>2. ~(m < n)
    BY <1>1, <2>1
  <2>. QED
    BY <2>1, <2>2
<1>. QED
  BY <1>2

(* f[i] is the rows of the first i messages.                               *)
UpTo(f, msgs, n) == f = [i \in 0..n |-> IF i = 0 THEN <<>> ELSE f[i - 1] \o msgs[i].rows]

LEMMA UpToExists ==
    ASSUME NEW msgs, NEW n \in Nat
    PROVE  \E f : UpTo(f, msgs, n)
<1>. DEFINE Bad == {m \in Nat : ~\E f : UpTo(f, msgs, m)}
<1>. SUFFICES ASSUME Bad # {} PROVE FALSE
  OBVIOUS
<1>1. PICK m \in Bad : \A k \in Bad : m <= k
  BY LeastNat
<1>2. CASE m = 0
  <2>. DEFINE g == [i \in 0..0 |-> <<>>]
  <2>1. UpTo(g, msgs, 0)
    BY DEF UpTo
  <2>. QED
    BY <1>1, <1>2, <2>1
<1>3. CASE m # 0
  <2>1. m \in Nat /\ m - 1 \in Nat /\ m - 1 \notin Bad
    BY <1>1, <1>3
  <2>2. PICK f : UpTo(f, msgs, m - 1)
    BY <2>1
  <2>. DEFINE g == [i \in 0..m |-> IF i = m THEN f[m - 1] \o msgs[m].rows ELSE f[i]]
  <2>3. \A i \in 0..m : i # m => i \in 0..(m - 1)
    BY <2>1
  <2>4. \A i \in 0..(m - 1) : f[i] = IF i = 0 THEN <<>> ELSE f[i - 1] \o msgs[i].rows
    BY <2>2 DEF UpTo
  <2>5. \A i \in 0..m : i # 0 => i - 1 \in 0..m /\ i - 1 # m
    BY <2>1
  <2>6. \A i \in 0..m : g[i] = IF i = 0 THEN <<>> ELSE g[i - 1] \o msgs[i].rows
    <3>. SUFFICES ASSUME NEW i \in 0..m
                  PROVE  g[i] = IF i = 0 THEN <<>> ELSE g[i - 1] \o msgs[i].rows
      OBVIOUS
    <3>1. i # 0 => g[i - 1] = f[i - 1]
      BY <2>5
    <3>2. CASE i = m
      BY <1>3, <3>1, <3>2
    <3>3. CASE i # m
      BY <2>3, <2>4, <3>1, <3>3
    <3>. QED
      BY <3>2, <3>3
  <2>7. UpTo(g, msgs, m)
    BY <2>6 DEF UpTo
  <2>. QED
    BY <1>1, <2>7
<1>. QED
  BY <1>2, <1>3

(* Messages with rows.                                                     *)
LEMMA UpToUnique ==
    ASSUME NEW f, NEW g, NEW msgs, NEW more, NEW n \in Nat, NEW m \in Nat, n <= m,
           \A i \in 1..n : msgs[i] = more[i],
           UpTo(f, msgs, n), UpTo(g, more, m)
    PROVE  \A i \in 0..n : f[i] = g[i]
<1>. DEFINE Bad == {i \in 0..n : f[i] # g[i]}
<1>. SUFFICES ASSUME Bad # {} PROVE FALSE
  OBVIOUS
<1>1. PICK k \in Bad : \A i \in Bad : k <= i
  <2>1. Bad \in SUBSET Nat
    OBVIOUS
  <2>. HIDE DEF Bad
  <2>. QED
    BY <2>1, LeastNat
<1>2. k \in 0..n /\ k \in 0..m
  BY <1>1
<1>3. /\ f[k] = IF k = 0 THEN <<>> ELSE f[k - 1] \o msgs[k].rows
      /\ g[k] = IF k = 0 THEN <<>> ELSE g[k - 1] \o more[k].rows
  BY <1>2 DEF UpTo
<1>4. k # 0
  BY <1>1, <1>3
<1>5. k - 1 \in 0..n /\ k - 1 \notin Bad /\ msgs[k] = more[k]
  BY <1>1, <1>2, <1>4
<1>6. f[k] = g[k]
  BY <1>3, <1>4, <1>5
<1>. QED
  BY <1>1, <1>6

LEMMA UpToType ==
    ASSUME NEW msgs, NEW n \in Nat, NEW f, NEW S,
           \A i \in 1..n : msgs[i].rows \in Seq(S), UpTo(f, msgs, n)
    PROVE  \A i \in 0..n : f[i] \in Seq(S)
<1>. DEFINE Bad == {i \in 0..n : f[i] \notin Seq(S)}
<1>. SUFFICES ASSUME Bad # {} PROVE FALSE
  OBVIOUS
<1>1. PICK k \in Bad : \A i \in Bad : k <= i
  <2>1. Bad \in SUBSET Nat
    OBVIOUS
  <2>. HIDE DEF Bad
  <2>. QED
    BY <2>1, LeastNat
<1>2. f[k] = IF k = 0 THEN <<>> ELSE f[k - 1] \o msgs[k].rows
  BY <1>1 DEF UpTo
<1>3. k # 0
  BY <1>1, <1>2, EmptySeq
<1>4. k - 1 \in 0..n /\ k - 1 \notin Bad /\ k \in 1..n
  BY <1>1, <1>3
<1>5. f[k] \in Seq(S)
  BY <1>2, <1>3, <1>4, ConcatProperties
<1>. QED
  BY <1>1, <1>5

(* The rows of the messages are those of all but the last, and those of it. *)
LEMMA NewValuesUpTo ==
    ASSUME NEW T, NEW msgs \in Seq(T)
    PROVE  \E f : UpTo(f, msgs, Len(msgs)) /\ NewValues(msgs) = f[Len(msgs)]
<1>. DEFINE f == CHOOSE f : UpTo(f, msgs, Len(msgs))
<1>1. Len(msgs) \in Nat
  BY LenProperties
<1>2. UpTo(f, msgs, Len(msgs))
  BY <1>1, UpToExists
<1>3. NewValues(msgs) = f[Len(msgs)]
  BY DEF NewValues, UpTo
<1>. QED
  BY <1>2, <1>3

LEMMA NewValuesOfMessages ==
    ASSUME NEW msgs \in Seq(InternalMessage)
    PROVE  /\ NewValues(msgs) \in RowSeqs
           /\ msgs = <<>> => NewValues(msgs) = <<>>
           /\ \A m \in InternalMessage :
                 NewValues(Append(msgs, m)) = NewValues(msgs) \o m.rows
<1>1. Len(msgs) \in Nat /\ \A i \in 1..Len(msgs) : msgs[i] \in InternalMessage
  BY LenProperties, ElementOfSeq
<1>2. PICK f : UpTo(f, msgs, Len(msgs)) /\ NewValues(msgs) = f[Len(msgs)]
  BY NewValuesUpTo
<1>3. NewValues(msgs) \in RowSeqs
  <2>1. \A i \in 1..Len(msgs) : msgs[i].rows \in Seq(1..MaxRows)
    BY <1>1 DEF InternalMessage, RowSeqs
  <2>2. \A i \in 0..Len(msgs) : f[i] \in Seq(1..MaxRows)
    BY <1>1, <1>2, <2>1, UpToType
  <2>. QED
    BY <1>1, <1>2, <2>2 DEF RowSeqs
<1>4. msgs = <<>> => NewValues(msgs) = <<>>
  <2>1. msgs = <<>> => Len(msgs) = 0
    OBVIOUS
  <2>2. 0 \in 0..Len(msgs)
    BY <1>1
  <2>. QED
    BY <1>2, <2>1, <2>2 DEF UpTo
<1>5. ASSUME NEW m \in InternalMessage
      PROVE  NewValues(Append(msgs, m)) = NewValues(msgs) \o m.rows
  <2>. DEFINE more == Append(msgs, m)
              n == Len(msgs)
  <2>1. /\ more \in Seq(InternalMessage) /\ Len(more) = n + 1
        /\ \A i \in 1..n : more[i] = msgs[i]
        /\ more[n + 1] = m
    BY AppendProperties
  <2>. HIDE DEF more
  <2>2. PICK g : UpTo(g, more, n + 1) /\ NewValues(more) = g[n + 1]
    BY <2>1, NewValuesUpTo
  <2>3. \A i \in 0..n : f[i] = g[i]
    BY <1>1, <1>2, <2>1, <2>2, UpToUnique
  <2>4. g[n + 1] = g[n] \o more[n + 1].rows
    <3>1. n + 1 \in 0..(n + 1) /\ n + 1 # 0 /\ (n + 1) - 1 = n
      BY <1>1
    <3>. QED
      BY <2>2, <3>1 DEF UpTo
  <2>5. g[n] = f[n]
    BY <1>1, <2>3
  <2>. QED
    BY <1>2, <2>1, <2>2, <2>4, <2>5 DEF more
<1>. QED
  BY <1>3, <1>4, <1>5
-----------------------------------------------------------------------------
(* Streams                                                                 *)

LEMMA StreamFields ==
    ASSUME NEW d \in Stream
    PROVE  /\ d.source \in Channels \cup {Nothing} /\ d.buffer \in RowSeqs
           /\ d.maxLength \in Nat /\ d.packet \in 0..MaxRows
           /\ d.schema \in Schemas \cup {NoSchema} /\ d.last \in InternalMessage \cup {None}
           /\ d.shutdown \in BOOLEAN /\ d.timer \in BOOLEAN /\ d.log \in RowSeqs
BY DEF Stream

(* A record with all these fields is a stream.                             *)
LEMMA StreamRecord ==
    ASSUME NEW d,
           d = [source |-> d.source, buffer |-> d.buffer, maxLength |-> d.maxLength,
                packet |-> d.packet, schema |-> d.schema, last |-> d.last,
                shutdown |-> d.shutdown, timer |-> d.timer, log |-> d.log],
           d.source \in Channels \cup {Nothing}, d.buffer \in RowSeqs,
           d.maxLength \in Nat, d.packet \in 0..MaxRows,
           d.schema \in Schemas \cup {NoSchema}, d.last \in InternalMessage \cup {None},
           d.shutdown \in BOOLEAN, d.timer \in BOOLEAN, d.log \in RowSeqs
    PROVE  d \in Stream
BY DEF Stream

(* Every message fits in a buffer of the default length.                   *)
PacketsFit == MaxPacket <= DefaultLength

(* A message that can be pushed.                                           *)
Fits(msg) == /\ msg \in Message /\ Len(msg.rows) <= MaxRows
             /\ PacketsFit => Len(msg.rows) <= DefaultLength

LEMMA TrimRows ==
    ASSUME NEW r \in RowSeqs, NEW n \in Nat
    PROVE  Trim(r, n) \in RowSeqs /\ Len(Trim(r, n)) <= n
<1>1. Trim(r, n) \in RowSeqs /\ Len(Trim(r, n)) = IF n < Len(r) THEN n ELSE Len(r)
  BY TrimEnds DEF RowSeqs
<1>2. Len(r) \in Nat
  BY LenProperties DEF RowSeqs
<1>. QED
  BY <1>1, <1>2

LEMMA ConcatRows ==
    ASSUME NEW r \in RowSeqs, NEW x \in RowSeqs
    PROVE  r \o x \in RowSeqs
BY ConcatProperties DEF RowSeqs

(* What push makes of the buffer of a stream.                              *)
Grown(buffer, x, n) == IF x = <<>> \/ buffer = <<>> THEN buffer \o x ELSE Trim(buffer \o x, n)

Pushed(d, msg, e) ==
    /\ e \in Stream
    /\ e.source = d.source /\ e.maxLength = d.maxLength
    /\ e.shutdown = d.shutdown /\ e.timer = d.timer
    /\ e.log = d.log \o msg.rows
    /\ e.buffer = Grown(d.buffer, msg.rows, d.maxLength)
    /\ e.packet = Len(msg.rows)
    /\ d.schema # NoSchema => e.schema # NoSchema
    /\ e.last \in InternalMessage /\ e.last # None
    /\ \/ e.last.type = "ChangedSchema" /\ e.last.rows = <<>>
       \/ /\ e.last.type = "NewValues"
          /\ e.last.rows = ValuesFromLastPacket(e.buffer, e.packet)

LEMMA PushFields ==
    ASSUME NEW d \in Stream, NEW msg, Fits(msg), NEW e, e = Push(d, msg)
    PROVE  Pushed(d, msg, e)
<1>. DEFINE f == PushFrame(d, msg)
<1>1. msg.rows \in RowSeqs /\ msg.schema \in Schemas \cup {NoSchema}
  BY DEF Fits, Message
<1>2. Len(msg.rows) \in 0..MaxRows
  BY <1>1, LenProperties, BoundAssumption DEF Fits, RowSeqs
<1>3. d.log \o msg.rows \in RowSeqs /\ d.buffer \o msg.rows \in RowSeqs
  BY <1>1, StreamFields, ConcatRows
<1>4. Grown(d.buffer, msg.rows, d.maxLength) \in RowSeqs
  BY <1>3, StreamFields, TrimRows DEF Grown
<1>5. /\ f.source = d.source /\ f.maxLength = d.maxLength
      /\ f.shutdown = d.shutdown /\ f.timer = d.timer /\ f.last = d.last
      /\ f.log = d.log \o msg.rows
      /\ f.buffer = Grown(d.buffer, msg.rows, d.maxLength)
      /\ f.packet = Len(msg.rows)
      /\ f.schema = IF SchemaChanged(d, msg) THEN msg.schema ELSE d.schema
  BY DEF PushFrame, Stream, Grown
<1>6. f \in Stream
  <2>. DEFINE f1 == [d EXCEPT !.buffer = Grown(d.buffer, msg.rows, d.maxLength)]
              f2 == [f1 EXCEPT !.packet = Len(msg.rows)]
              f3 == [f2 EXCEPT !.schema = IF SchemaChanged(d, msg) THEN msg.schema ELSE d.schema]
              f4 == [f3 EXCEPT !.log = d.log \o msg.rows]
  <2>1. f = f4
    <3>1. f = [d EXCEPT !.buffer = Grown(d.buffer, msg.rows, d.maxLength),
                        !.packet = Len(msg.rows),
                        !.schema = IF SchemaChanged(d, msg) THEN msg.schema ELSE d.schema,
                        !.log = d.log \o msg.rows]
      BY Zenon DEF PushFrame, Grown
    <3>. QED
      BY <3>1
  <2>2. f1 \in Stream
    BY <1>4 DEF Stream
  <2>. HIDE DEF f1
  <2>3. f2 \in Stream
    BY <1>2, <2>2 DEF Stream
  <2>. HIDE DEF f2
  <2>4. f3 \in Stream
    BY <1>1, <2>3 DEF Stream
  <2>. HIDE DEF f3
  <2>5. f4 \in Stream
    BY <1>3, <2>4 DEF Stream
  <2>. QED
    BY <2>1, <2>5
<1>. DEFINE last == IF SchemaChanged(d, msg) THEN [type |-> "ChangedSchema", rows |-> <<>>]
                    ELSE [type |-> "NewValues",
                          rows |-> ValuesFromLastPacket(f.buffer, f.packet)]
<1>7. ValuesFromLastPacket(f.buffer, f.packet) \in RowSeqs
  <2>1. f.packet \in Nat /\ f.buffer \in RowSeqs /\ Len(f.buffer) \in Nat
    BY <1>6, StreamFields, LenProperties, BoundAssumption DEF RowSeqs
  <2>2. ~(f.packet <= Len(f.buffer)) => f.packet - Len(f.buffer) \in Nat
    BY <2>1
  <2>. HIDE DEF f
  <2>. QED
    BY <2>1, <2>2, TrimRows DEF ValuesFromLastPacket
<1>8. last \in InternalMessage
  <2>1. <<>> \in RowSeqs
    BY EmptySeq DEF RowSeqs
  <2>. HIDE DEF f
  <2>. QED
    BY <1>7, <2>1 DEF InternalMessage
<1>9. e = [f EXCEPT !.last = last]
  BY DEF Push
<1>. HIDE DEF f, last
<1>10. e \in Stream
  BY <1>6, <1>8, <1>9 DEF Stream
<1>11. /\ e.source = f.source /\ e.maxLength = f.maxLength
       /\ e.shutdown = f.shutdown /\ e.timer = f.timer
       /\ e.log = f.log /\ e.buffer = f.buffer /\ e.packet = f.packet /\ e.last = last
       /\ e.schema = f.schema
  BY <1>6, <1>9 DEF Stream
<1>12. last # None
  BY <1>8, NoneAssumption
<1>13. \/ last.type = "ChangedSchema" /\ last.rows = <<>>
       \/ last.type = "NewValues" /\ last.rows = ValuesFromLastPacket(f.buffer, f.packet)
  BY DEF last
<1>14. d.schema # NoSchema => e.schema # NoSchema
  BY <1>5, <1>11 DEF SchemaChanged
<1>. QED
  BY <1>5, <1>8, <1>10, <1>11, <1>12, <1>13, <1>14 DEF Pushed

Failed(d, e) ==
    /\ e \in Stream
    /\ e.source = d.source /\ e.maxLength = d.maxLength
    /\ e.shutdown = d.shutdown /\ e.timer = d.timer
    /\ e.log = d.log /\ e.buffer = d.buffer /\ e.packet = d.packet /\ e.schema = d.schema
    /\ e.last \in InternalMessage /\ e.last # None
    /\ e.last.type = "Error" /\ e.last.rows = <<>>

LEMMA PushErrorFields ==
    ASSUME NEW d \in Stream, NEW e, e = PushError(d)
    PROVE  Failed(d, e)
<1>. DEFINE last == [type |-> "Error", rows |-> <<>>]
<1>1. <<>> \in RowSeqs
  BY EmptySeq DEF RowSeqs
<1>2. last \in InternalMessage /\ last.type = "Error" /\ last.rows = <<>>
  BY <1>1 DEF InternalMessage
<1>3. last # None
  BY <1>2, NoneAssumption
<1>4. e = [d EXCEPT !.last = last]
  BY DEF PushError
<1>. HIDE DEF last
<1>. QED
  BY <1>2, <1>3, <1>4 DEF Stream, Failed

LEMMA OverFields ==
    ASSUME NEW t \in BOOLEAN
    PROVE  /\ Over(t) \in Stream /\ Over(t).source = Nothing /\ Over(t).log = <<>>
           /\ Over(t).buffer = <<>> /\ Over(t).last = None
           /\ Over(t).maxLength = DefaultLength
<1>1. <<>> \in RowSeqs /\ 0 \in 0..MaxRows /\ DefaultLength \in Nat
  BY EmptySeq, LengthAssumption, BoundAssumption DEF RowSeqs
<1>. QED
  BY <1>1 DEF Over, EmptyStream, Stream, NoSchema

LEMMA EmptyStreamFields ==
    ASSUME NEW c \in Channels, NEW d, d = [EmptyStream EXCEPT !.source = c]
    PROVE  /\ d \in Stream /\ d.source = c /\ d.log = <<>> /\ d.buffer = <<>> /\ d.last = None
           /\ d.maxLength = DefaultLength /\ ~d.shutdown
<1>1. <<>> \in RowSeqs /\ 0 \in 0..MaxRows /\ DefaultLength \in Nat
  BY EmptySeq, LengthAssumption, BoundAssumption DEF RowSeqs
<1>. QED
  BY <1>1 DEF EmptyStream, Stream, NoSchema
-----------------------------------------------------------------------------
(* Panels                                                                  *)

LEMMA UserFields ==
    ASSUME NEW u \in User
    PROVE  /\ u.on \in Streams \cup {Nothing} /\ u.ahead \in SUBSET Subscribers
           /\ u.canEmit \in BOOLEAN /\ u.buffer \in Seq(InternalMessage)
           /\ u.fullFrame \in BOOLEAN /\ u.fields \in {"none", "own", "shared"}
           /\ u.view \in RowSeqs /\ u.seen \in Nat \cup {NotYet} /\ u.gap \in BOOLEAN
BY DEF User

LEMMA IdleFields ==
    /\ Idle \in User /\ Idle.on = Nothing /\ Idle.canEmit /\ Idle.buffer = <<>>
    /\ Idle.fullFrame /\ Idle.view = <<>> /\ Idle.seen = NotYet
    /\ Idle.ahead = {} /\ Idle.fields = "none" /\ Idle.gap = FALSE
<1>1. <<>> \in RowSeqs /\ <<>> \in Seq(InternalMessage)
  BY EmptySeq DEF RowSeqs
<1>. QED
  BY <1>1 DEF Idle, User

(* Two panels that differ in nothing but these.                            *)
SameBut(u, v, f) ==
    /\ f # "on" => v.on = u.on
    /\ f # "ahead" => v.ahead = u.ahead
    /\ f # "canEmit" => v.canEmit = u.canEmit
    /\ f # "buffer" => v.buffer = u.buffer
    /\ f # "fullFrame" => v.fullFrame = u.fullFrame
    /\ f # "fields" => v.fields = u.fields
    /\ f # "view" => v.view = u.view
    /\ f # "seen" => v.seen = u.seen
    /\ f # "gap" => v.gap = u.gap

LEMMA UserOn ==
    ASSUME NEW u \in User, NEW x \in Streams \cup {Nothing}, NEW v, v = [u EXCEPT !.on = x]
    PROVE  v \in User /\ v.on = x /\ SameBut(u, v, "on")
BY DEF User, SameBut

LEMMA UserAhead ==
    ASSUME NEW u \in User, NEW x \in SUBSET Subscribers, NEW v, v = [u EXCEPT !.ahead = x]
    PROVE  v \in User /\ v.ahead = x /\ SameBut(u, v, "ahead")
BY DEF User, SameBut

LEMMA UserCanEmit ==
    ASSUME NEW u \in User, NEW x \in BOOLEAN, NEW v, v = [u EXCEPT !.canEmit = x]
    PROVE  v \in User /\ v.canEmit = x /\ SameBut(u, v, "canEmit")
BY DEF User, SameBut

LEMMA UserBuffer ==
    ASSUME NEW u \in User, NEW x \in Seq(InternalMessage), NEW v, v = [u EXCEPT !.buffer = x]
    PROVE  v \in User /\ v.buffer = x /\ SameBut(u, v, "buffer")
BY DEF User, SameBut

LEMMA UserFullFrame ==
    ASSUME NEW u \in User, NEW x \in BOOLEAN, NEW v, v = [u EXCEPT !.fullFrame = x]
    PROVE  v \in User /\ v.fullFrame = x /\ SameBut(u, v, "fullFrame")
BY DEF User, SameBut

LEMMA UserFrameFields ==
    ASSUME NEW u \in User, NEW x \in {"none", "own", "shared"}, NEW v, v = [u EXCEPT !.fields = x]
    PROVE  v \in User /\ v.fields = x /\ SameBut(u, v, "fields")
BY DEF User, SameBut

LEMMA UserView ==
    ASSUME NEW u \in User, NEW x \in RowSeqs, NEW v, v = [u EXCEPT !.view = x]
    PROVE  v \in User /\ v.view = x /\ SameBut(u, v, "view")
BY DEF User, SameBut

LEMMA UserSeen ==
    ASSUME NEW u \in User, NEW x \in Nat \cup {NotYet}, NEW v, v = [u EXCEPT !.seen = x]
    PROVE  v \in User /\ v.seen = x /\ SameBut(u, v, "seen")
BY DEF User, SameBut

LEMMA UserGap ==
    ASSUME NEW u \in User, NEW x \in BOOLEAN, NEW v, v = [u EXCEPT !.gap = x]
    PROVE  v \in User /\ v.gap = x /\ SameBut(u, v, "gap")
BY DEF User, SameBut

(* As many of the last rows of q as each of the takers keeps.              *)
LEMMA KeepsRows ==
    ASSUME NEW q \in RowSeqs, NEW takers \in SUBSET Subscribers
    PROVE  /\ Keeps(q, takers) \in 0..Len(q)
           /\ Len(q) > 0 => Keeps(q, takers) > 0
           /\ Keeps(q, takers) < Len(q) => \E r \in takers : MaxLength[r] < Len(q)
<1>. DEFINE n == Len(q)
            K == {i \in 1..n : \A r \in takers : n - i < MaxLength[r]}
<1>1. n \in Nat /\ \A r \in takers : MaxLength[r] \in Nat \ {0}
  BY LenProperties, LengthAssumption DEF RowSeqs
<1>. HIDE DEF n
<1>2. IsFiniteSet(1..n) /\ Cardinality(1..n) = n
  <2>1. IsFiniteSet(1..n) /\ Cardinality(1..n) = IF 1 > n THEN 0 ELSE n - 1 + 1
    BY <1>1, FS_Interval
  <2>. QED
    BY <1>1, <2>1
<1>3. K \subseteq 1..n
  OBVIOUS
<1>4. IsFiniteSet(K) /\ Cardinality(K) \in Nat /\ Cardinality(K) <= n
  <2>1. IsFiniteSet(K) /\ Cardinality(K) <= Cardinality(1..n)
    BY <1>2, <1>3, FS_Subset
  <2>. QED
    BY <1>2, <2>1, FS_CardinalityType
<1>5. n > 0 => Cardinality(K) > 0
  <2>1. n > 0 => n \in K
    BY <1>1
  <2>2. K # {} => Cardinality(K) # 0
    BY <1>4, FS_EmptySet
  <2>. QED
    BY <1>4, <2>1, <2>2
<1>6. (\A r \in takers : ~(MaxLength[r] < n)) => Cardinality(K) = n
  <2>1. (\A r \in takers : ~(MaxLength[r] < n)) => K = 1..n
    BY <1>1
  <2>. QED
    BY <1>2, <2>1
<1>7. Keeps(q, takers) = Cardinality(K)
  BY DEF Keeps, n
<1>. HIDE DEF K
<1>8. Keeps(q, takers) \in 0..n /\ (n > 0 => Keeps(q, takers) > 0)
      /\ (Keeps(q, takers) < n => \E r \in takers : MaxLength[r] < n)
  BY <1>1, <1>4, <1>5, <1>6, <1>7
<1>. QED
  BY <1>8 DEF n

LEMMA SplicedRows ==
    ASSUME NEW q \in RowSeqs, NEW takers \in SUBSET Subscribers
    PROVE  /\ Spliced(q, takers) \in RowSeqs /\ EndOf(Spliced(q, takers), q)
           /\ Len(Spliced(q, takers)) \in Nat /\ Len(q) \in Nat
           /\ Len(q) > 0 => Len(Spliced(q, takers)) > 0
           /\ Spliced(q, takers) # q => \E r \in takers : MaxLength[r] < Len(q)
<1>. DEFINE k == Keeps(q, takers)
            t == Trim(q, k)
<1>1. q \in Seq(1..MaxRows) /\ Len(q) \in Nat
  BY LenProperties DEF RowSeqs
<1>2. /\ k \in 0..Len(q) /\ (Len(q) > 0 => k > 0)
      /\ k < Len(q) => \E r \in takers : MaxLength[r] < Len(q)
  BY KeepsRows
<1>3. Spliced(q, takers) = t
  BY DEF Spliced
<1>. HIDE DEF k
<1>4. t \in Seq(1..MaxRows) /\ Len(t) = (IF k < Len(q) THEN k ELSE Len(q)) /\ EndOf(t, q)
  <2>1. k \in Nat
    BY <1>1, <1>2
  <2>. QED
    BY <1>1, <2>1, TrimEnds
<1>. HIDE DEF t
<1>5. k = Len(q) => t = q
  <2>1. EndOf(q, q)
    BY <1>1 DEF EndOf
  <2>2. k = Len(q) => Len(t) = Len(q)
    BY <1>1, <1>4
  <2>. QED
    BY <1>1, <1>4, <2>1, <2>2, SameEnd
<1>6. Len(t) \in Nat /\ (Len(q) > 0 => Len(t) > 0)
  BY <1>1, <1>2, <1>4
<1>7. t # q => k < Len(q)
  BY <1>1, <1>2, <1>5
<1>. QED
  BY <1>1, <1>2, <1>3, <1>4, <1>6, <1>7 DEF RowSeqs

LEMMA FullFrameRows ==
    ASSUME NEW s \in Subscribers, NEW d \in Stream, NEW msgs
    PROVE  FullFrame(s, d, msgs) \in RowSeqs /\ Len(FullFrame(s, d, msgs)) <= MaxLength[s]
<1>1. d.buffer \in RowSeqs /\ d.packet \in Nat /\ MaxLength[s] \in Nat
  BY StreamFields, LengthAssumption, BoundAssumption
<1>2. Smaller(d.packet, MaxLength[s]) \in Nat /\ Smaller(d.packet, MaxLength[s]) <= MaxLength[s]
  BY <1>1 DEF Smaller
<1>3. <<>> \in RowSeqs /\ Len(<<>>) = 0
  BY EmptySeq DEF RowSeqs
<1>4. /\ Trim(d.buffer, MaxLength[s]) \in RowSeqs
      /\ Len(Trim(d.buffer, MaxLength[s])) <= MaxLength[s]
  BY <1>1, TrimRows
<1>. DEFINE k == Smaller(d.packet, MaxLength[s])
<1>5. /\ Trim(d.buffer, k) \in RowSeqs /\ Len(Trim(d.buffer, k)) <= k
      /\ Len(Trim(d.buffer, k)) \in Nat
  BY <1>1, <1>2, TrimRows, LenProperties DEF RowSeqs
<1>6. Len(Trim(d.buffer, k)) <= MaxLength[s]
  BY <1>1, <1>2, <1>5
<1>. QED
  BY <1>1, <1>3, <1>4, <1>5, <1>6 DEF FullFrame

LEMMA PushedRows ==
    ASSUME NEW s \in Subscribers, NEW view \in RowSeqs, NEW values \in RowSeqs
    PROVE  /\ PushNewValues(s, view, values) \in RowSeqs
           /\ Len(PushNewValues(s, view, values)) <= MaxLength[s]
<1>1. MaxLength[s] \in Nat /\ view \o values \in RowSeqs
  BY LengthAssumption, ConcatRows
<1>. QED
  BY <1>1, TrimRows DEF PushNewValues

(* A panel that is shown messages.                                         *)
ShownView(s, u, d, msgs) ==
    IF Whole(u, msgs) THEN FullFrame(s, d, msgs)
    ELSE IF u.fields = "none" THEN u.view
    ELSE PushNewValues(s, u.view, IF s \in Replaces THEN msgs[Len(msgs)].rows
                                  ELSE NewValues(msgs))
ShownFields(s, u, d, msgs) ==
    IF Whole(u, msgs) THEN FieldsOf(d)
    ELSE IF s \in Replaces /\ u.fields # "none" THEN "shared" ELSE u.fields
ShownGap(u, msgs) == u.gap /\ ~Whole(u, msgs)

Shown(s, u, d, msgs, v) ==
    /\ v \in User /\ v.on = u.on /\ v.canEmit = u.canEmit
    /\ v.buffer = <<>> /\ v.fullFrame = FALSE /\ v.seen = Len(d.log)
    /\ v.gap = ShownGap(u, msgs)
    /\ v.fields = ShownFields(s, u, d, msgs)
    /\ v.view = ShownView(s, u, d, msgs)
    /\ Len(v.view) <= MaxLength[s]

LEMMA ShowFields ==
    ASSUME NEW s \in Subscribers, NEW u \in User, Len(u.view) <= MaxLength[s], NEW d \in Stream,
           NEW msgs \in Seq(InternalMessage), msgs # <<>>, NEW v, v = Show(s, u, d, msgs)
    PROVE  Shown(s, u, d, msgs, v)
<1>. DEFINE view == ShownView(s, u, d, msgs)
            fields == ShownFields(s, u, d, msgs)
            gap == ShownGap(u, msgs)
            v1 == [u EXCEPT !.buffer = <<>>]
            v2 == [v1 EXCEPT !.fullFrame = FALSE]
            v3 == [v2 EXCEPT !.seen = Len(d.log)]
            v4 == [v3 EXCEPT !.gap = gap]
            v5 == [v4 EXCEPT !.fields = fields]
            v6 == [v5 EXCEPT !.view = view]
<1>1. view \in RowSeqs /\ Len(view) <= MaxLength[s]
  <2>1. Len(msgs) \in 1..Len(msgs) /\ msgs[Len(msgs)] \in InternalMessage
    BY LenProperties, EmptySeq, ElementOfSeq
  <2>2. msgs[Len(msgs)].rows \in RowSeqs /\ NewValues(msgs) \in RowSeqs
    BY <2>1, NewValuesOfMessages DEF InternalMessage
  <2>. QED
    BY <2>2, UserFields, FullFrameRows, PushedRows DEF ShownView
<1>2. Len(d.log) \in Nat /\ gap \in BOOLEAN /\ fields \in {"none", "own", "shared"}
  <2>1. Len(d.log) \in Nat
    BY StreamFields, LenProperties DEF RowSeqs
  <2>2. fields \in {"none", "own", "shared"}
    BY UserFields DEF ShownFields, FieldsOf
  <2>. QED
    BY <2>1, <2>2 DEF ShownGap
<1>3. v = v6
  <2>1. v = [u EXCEPT !.buffer = <<>>, !.fullFrame = FALSE, !.seen = Len(d.log), !.gap = gap,
                      !.fields = fields, !.view = view]
    BY Zenon DEF Show, ShownView, ShownFields, ShownGap
  <2>. QED
    BY <2>1
<1>4. <<>> \in Seq(InternalMessage)
  BY EmptySeq
<1>. HIDE DEF view, fields, gap
<1>5. v1 \in User /\ v1.buffer = <<>> /\ SameBut(u, v1, "buffer")
  BY <1>4, UserBuffer
<1>. HIDE DEF v1
<1>6. v2 \in User /\ v2.fullFrame = FALSE /\ SameBut(v1, v2, "fullFrame")
  BY <1>5, UserFullFrame
<1>. HIDE DEF v2
<1>7. v3 \in User /\ v3.seen = Len(d.log) /\ SameBut(v2, v3, "seen")
  BY <1>2, <1>6, UserSeen
<1>. HIDE DEF v3
<1>8. v4 \in User /\ v4.gap = gap /\ SameBut(v3, v4, "gap")
  BY <1>2, <1>7, UserGap
<1>. HIDE DEF v4
<1>9. v5 \in User /\ v5.fields = fields /\ SameBut(v4, v5, "fields")
  BY <1>2, <1>8, UserFrameFields
<1>. HIDE DEF v5
<1>10. v6 \in User /\ v6.view = view /\ SameBut(v5, v6, "view")
  BY <1>1, <1>9, UserView
<1>. HIDE DEF v6
<1>11. /\ v6.on = u.on /\ v6.canEmit = u.canEmit /\ v6.buffer = <<>> /\ v6.fullFrame = FALSE
       /\ v6.seen = Len(d.log) /\ v6.gap = gap /\ v6.fields = fields
  BY <1>5, <1>6, <1>7, <1>8, <1>9, <1>10 DEF SameBut
<1>. QED
  BY <1>1, <1>3, <1>10, <1>11 DEF view, fields, gap, Shown

(* A message of which the takers in rs have spliced rows off, and what it  *)
(* leaves of the panel that is sent it.                                    *)
Less(m, rs) == [m EXCEPT !.rows = Spliced(m.rows, rs)]
Short(s, u, m, n) == [u EXCEPT !.gap = u.gap \/ (s \notin Replaces /\ ~u.fullFrame /\ n # m)]

LEMMA LessMessage ==
    ASSUME NEW m \in InternalMessage, NEW rs \in SUBSET Subscribers, NEW n, n = Less(m, rs)
    PROVE  /\ n \in InternalMessage /\ n.type = m.type /\ n.rows = Spliced(m.rows, rs)
           /\ n # m => n.rows # m.rows
<1>1. m.rows \in RowSeqs
  BY DEF InternalMessage
<1>2. Spliced(m.rows, rs) \in RowSeqs
  BY <1>1, SplicedRows
<1>. DEFINE x == Spliced(m.rows, rs)
<1>3. n = [m EXCEPT !.rows = x] /\ x \in RowSeqs
  BY <1>2 DEF Less
<1>. HIDE DEF x
<1>4. n \in InternalMessage /\ n.type = m.type /\ n.rows = x
  BY <1>3 DEF InternalMessage
<1>5. x = m.rows => n = m
  BY <1>3 DEF InternalMessage
<1>. QED
  BY <1>4, <1>5 DEF x

LEMMA ShortUser ==
    ASSUME NEW s, NEW u \in User, NEW m, NEW n, NEW w, w = Short(s, u, m, n)
    PROVE  /\ w \in User /\ SameBut(u, w, "gap")
           /\ w.gap => u.gap \/ (s \notin Replaces /\ n # m)
           /\ u.gap \/ (s \notin Replaces /\ ~u.fullFrame /\ n # m) => w.gap
           /\ n = m => (w.gap => u.gap)
<1>. DEFINE g == u.gap \/ (s \notin Replaces /\ ~u.fullFrame /\ n # m)
<1>1. g \in BOOLEAN /\ u.gap \in BOOLEAN
  BY UserFields
<1>2. w = [u EXCEPT !.gap = g]
  BY DEF Short
<1>3. /\ g => u.gap \/ (s \notin Replaces /\ n # m)
      /\ u.gap \/ (s \notin Replaces /\ ~u.fullFrame /\ n # m) => g
      /\ n = m => (g => u.gap)
  BY <1>1
<1>. HIDE DEF g
<1>4. w \in User /\ w.gap = g /\ SameBut(u, w, "gap")
  BY <1>1, <1>2, UserGap
<1>. QED
  BY <1>3, <1>4

LEMMA EarlierTakers ==
    ASSUME NEW s, NEW u, NEW takers
    PROVE  Earlier(s, u, takers) \in SUBSET takers
BY DEF Earlier

LEMMA CutLast ==
    ASSUME NEW s \in Subscribers, NEW u \in User, NEW takers \in SUBSET Subscribers,
           NEW front \in Seq(InternalMessage), NEW m \in InternalMessage,
           NEW msgs, msgs = Append(front, m)
    PROVE  /\ Cut(s, u, msgs, takers) = Append(front, Less(m, Earlier(s, u, takers)))
           /\ Bereft(s, u, msgs, Cut(s, u, msgs, takers)) = Short(s, u, m, Less(m, Earlier(s, u, takers)))
<1>. DEFINE rs == Earlier(s, u, takers)
            n == Less(m, rs)
            l == Len(front)
            more == Append(front, n)
            c == Cut(s, u, msgs, takers)
<1>1. rs \in SUBSET takers
  BY DEF Earlier
<1>2. n \in InternalMessage
  <2>1. rs \in SUBSET Subscribers
    BY <1>1
  <2>. HIDE DEF rs
  <2>. QED
    BY <2>1, LessMessage
<1>3. /\ msgs \in Seq(InternalMessage) /\ Len(msgs) = l + 1 /\ l \in Nat
      /\ \A i \in 1..l : msgs[i] = front[i]
      /\ msgs[l + 1] = m
  BY AppendProperties, LenProperties
<1>4. c = [msgs EXCEPT ![l + 1] = n]
  <2>1. c = [msgs EXCEPT ![l + 1].rows = Spliced(@, rs)]
    BY <1>3 DEF Cut
  <2>2. c = [msgs EXCEPT ![l + 1] = Less(msgs[l + 1], rs)]
    BY <2>1 DEF Less
  <2>. QED
    BY <1>3, <2>2
<1>. HIDE DEF n
<1>5. /\ more \in Seq(InternalMessage) /\ Len(more) = l + 1
      /\ \A i \in 1..l : more[i] = front[i]
      /\ more[l + 1] = n
  BY <1>2, AppendProperties
<1>. HIDE DEF more, c, l, rs
<1>6. /\ c \in Seq(InternalMessage) /\ Len(c) = l + 1
      /\ \A i \in 1..(l + 1) : c[i] = IF i = l + 1 THEN n ELSE msgs[i]
  <2>1. l + 1 \in 1..Len(msgs)
    BY <1>3
  <2>. DEFINE k == l + 1
              x == [msgs EXCEPT ![k] = n]
  <2>. HIDE DEF k
  <2>2. /\ x \in Seq(InternalMessage) /\ Len(x) = Len(msgs)
        /\ \A i \in 1..Len(msgs) : x[i] = IF i = k THEN n ELSE msgs[i]
    <3>1. k \in 1..Len(msgs)
      BY <2>1 DEF k
    <3>. QED
      BY ONLY <1>2, <1>3, <3>1, ExceptSeq
  <2>3. c = x
    BY <1>4 DEF k
  <2>. HIDE DEF x
  <2>. QED
    BY <1>3, <2>2, <2>3 DEF k
<1>7. c = more
  <2>1. \A i \in 1..(l + 1) : c[i] = more[i]
    BY <1>3, <1>5, <1>6
  <2>. QED
    BY <1>5, <1>6, <2>1, SeqEqual
<1>8. c # msgs <=> n # m
  <2>1. n = m => c = msgs
    <3>1. n = m => \A i \in 1..(l + 1) : c[i] = msgs[i]
      BY <1>3, <1>6
    <3>. QED
      BY <1>3, <1>6, <3>1, SeqEqual
  <2>2. c = msgs => n = m
    <3>1. l + 1 \in 1..(l + 1)
      BY <1>3
    <3>. QED
      BY <1>3, <1>6, <3>1
  <2>. QED
    BY <2>1, <2>2
<1>9. Bereft(s, u, msgs, c) = Short(s, u, m, n)
  BY <1>8 DEF Bereft, Short
<1>. QED
  BY <1>1, <1>7, <1>9 DEF rs, n, more, c

LEMMA CutOne ==
    ASSUME NEW s \in Subscribers, NEW u \in User, NEW takers \in SUBSET Subscribers,
           NEW m \in InternalMessage, NEW rs, rs = Earlier(s, u, takers), NEW n, n = Less(m, rs)
    PROVE  /\ rs \in SUBSET takers
           /\ Cut(s, u, <<m>>, takers) = <<n>>
           /\ Bereft(s, u, <<m>>, <<n>>) = Short(s, u, m, n)
<1>. DEFINE a == <<m>>
            b == <<n>>
            o == <<>>
<1>1. a = Append(o, m) /\ o \in Seq(InternalMessage) /\ b = Append(o, n)
  BY EmptySeq
<1>. HIDE DEF a, b, o
<1>2. /\ Cut(s, u, a, takers) = Append(o, Less(m, Earlier(s, u, takers)))
      /\ Bereft(s, u, a, Cut(s, u, a, takers)) = Short(s, u, m, Less(m, Earlier(s, u, takers)))
  BY <1>1, CutLast
<1>3. rs \in SUBSET takers /\ Cut(s, u, a, takers) = b /\ Bereft(s, u, a, b) = Short(s, u, m, n)
  BY <1>1, <1>2, EarlierTakers
<1>. QED
  BY <1>3 DEF a, b

-----------------------------------------------------------------------------
(* The rows a panel has and those it is still owed                         *)

(* The rows after the first k.                                             *)
LEMMA Rest ==
    ASSUME NEW S, NEW q \in Seq(S), NEW k \in 0..Len(q)
    PROVE  /\ SubSeq(q, k + 1, Len(q)) \in Seq(S)
           /\ Len(SubSeq(q, k + 1, Len(q))) = Len(q) - k
           /\ \A i \in 1..(Len(q) - k) : SubSeq(q, k + 1, Len(q))[i] = q[k + i]
           /\ k = Len(q) => SubSeq(q, k + 1, Len(q)) = <<>>
<1>. DEFINE l == Len(q)
            t == SubSeq(q, k + 1, l)
<1>1. l \in Nat /\ \A i \in 1..l : q[i] \in S
  BY LenProperties, ElementOfSeq
<1>2. k + 1 \in Int /\ l \in Int /\ \A i \in (k + 1)..l : q[i] \in S
  BY <1>1
<1>3. /\ t \in Seq(S)
      /\ Len(t) = IF k + 1 <= l THEN l - (k + 1) + 1 ELSE 0
      /\ \A i \in 1..(l - (k + 1) + 1) : t[i] = q[k + 1 + i - 1]
  BY ONLY <1>2, SubSeqProperties
<1>. HIDE DEF t, l
<1>4. k \in 0..l
  BY DEF l
<1>5. Len(t) = l - k
  BY <1>1, <1>3, <1>4
<1>6. \A i \in 1..(l - k) : t[i] = q[k + i]
  <2>. SUFFICES ASSUME NEW i \in 1..(l - k) PROVE t[i] = q[k + i]
    OBVIOUS
  <2>1. l - (k + 1) + 1 = l - k /\ k + 1 + i - 1 = k + i
    BY <1>1, <1>4
  <2>. QED
    BY <1>3, <2>1
<1>7. k = l => t = <<>>
  BY <1>1, <1>3, <1>5, EmptySeq
<1>. QED
  BY <1>3, <1>5, <1>6, <1>7 DEF t, l

LEMMA RestOfConcat ==
    ASSUME NEW S, NEW q \in Seq(S), NEW x \in Seq(S), NEW k \in 0..Len(q)
    PROVE  SubSeq(q \o x, k + 1, Len(q \o x)) = SubSeq(q, k + 1, Len(q)) \o x
<1>. DEFINE a == SubSeq(q, k + 1, Len(q))
            qx == q \o x
            b == SubSeq(qx, k + 1, Len(qx))
<1>1. Len(q) \in Nat /\ Len(x) \in Nat /\ k \in Int
  BY LenProperties
<1>2. /\ qx \in Seq(S) /\ Len(qx) = Len(q) + Len(x)
      /\ \A i \in 1..(Len(q) + Len(x)) : qx[i] = IF i <= Len(q) THEN q[i] ELSE x[i - Len(q)]
  BY ConcatProperties
<1>3. a \in Seq(S) /\ Len(a) = Len(q) - k /\ \A i \in 1..(Len(q) - k) : a[i] = q[k + i]
  BY Rest
<1>. HIDE DEF qx, a
<1>4. k \in 0..Len(qx)
  BY <1>1, <1>2
<1>5. b \in Seq(S) /\ Len(b) = Len(qx) - k /\ \A i \in 1..(Len(qx) - k) : b[i] = qx[k + i]
  BY <1>2, <1>4, Rest
<1>. HIDE DEF b
<1>6. /\ a \o x \in Seq(S) /\ Len(a \o x) = Len(a) + Len(x)
      /\ \A i \in 1..(Len(a) + Len(x)) :
            (a \o x)[i] = IF i <= Len(a) THEN a[i] ELSE x[i - Len(a)]
  BY <1>3, ConcatProperties
<1>7. Len(b) = Len(a \o x)
  BY <1>1, <1>2, <1>3, <1>5, <1>6
<1>8. ASSUME NEW i \in 1..Len(b) PROVE b[i] = (a \o x)[i]
  <2>1. /\ i \in 1..(Len(a) + Len(x)) /\ i \in 1..(Len(qx) - k)
        /\ k + i \in 1..(Len(q) + Len(x))
        /\ (i <= Len(a)) <=> (k + i <= Len(q))
        /\ k + i - Len(q) = i - Len(a)
        /\ i <= Len(a) => i \in 1..(Len(q) - k)
    BY <1>1, <1>2, <1>3, <1>5
  <2>2. b[i] = qx[k + i]
    BY <1>5, <2>1
  <2>3. CASE i <= Len(a)
    BY <1>2, <1>3, <1>6, <2>1, <2>2, <2>3
  <2>4. CASE ~(i <= Len(a))
    <3>1. qx[k + i] = x[k + i - Len(q)]
      BY <1>2, <2>1, <2>4
    <3>2. (a \o x)[i] = x[i - Len(a)]
      BY <1>6, <2>1, <2>4
    <3>. QED
      BY <2>1, <2>2, <3>1, <3>2
  <2>. QED
    BY <2>3, <2>4
<1>9. b = a \o x
  BY <1>5, <1>6, <1>7, <1>8, SeqEqual
<1>. QED
  BY <1>9 DEF a, b, qx

LEMMA EndOfConcat ==
    ASSUME NEW S, NEW q \in Seq(S), NEW x \in Seq(S)
    PROVE  EndOf(x, q \o x)
<1>1. <<>> \in Seq(S) /\ EndOf(<<>>, q)
  BY EmptySeq, LenProperties DEF EndOf
<1>2. EndOf(<<>> \o x, q \o x)
  BY <1>1, ConcatEnds
<1>3. <<>> \o x = x
  BY ConcatEmptySeq
<1>. QED
  BY <1>2, <1>3

(* The buffer of a stream is the end of the rows it has had.               *)
BufferOK(d) ==
    /\ d.maxLength >= DefaultLength
    /\ EndOf(d.buffer, d.log)
    /\ d.last # None /\ d.last.type = "NewValues" => EndOf(d.last.rows, d.log)

LEMMA BufferPush ==
    ASSUME PacketsFit, NEW d \in Stream, NEW msg, Fits(msg), BufferOK(d),
           NEW e, e = Push(d, msg)
    PROVE  /\ BufferOK(e)
           /\ e.last.type = "NewValues" => e.last.rows = msg.rows
<1>. DEFINE S == 1..MaxRows
            x == msg.rows
            b == d.buffer
            L == d.maxLength
            l == d.log
<1>1. x \in Seq(S) /\ b \in Seq(S) /\ l \in Seq(S) /\ L \in Nat /\ EndOf(b, l) /\ DefaultLength \in Nat
  BY StreamFields, LengthAssumption DEF Fits, Message, RowSeqs, BufferOK
<1>2. Len(x) \in Nat /\ Len(b) \in Nat /\ Len(x) <= L
  BY <1>1, LenProperties DEF BufferOK, Fits
<1>3. /\ e.maxLength = L /\ e.log = l \o x /\ e.buffer = Grown(b, x, L) /\ e.packet = Len(x)
      /\ \/ e.last.type = "ChangedSchema"
         \/ e.last.type = "NewValues" /\ e.last.rows = ValuesFromLastPacket(e.buffer, e.packet)
  <2>1. Pushed(d, msg, e)
    BY PushFields
  <2>. QED
    BY <2>1 DEF Pushed
<1>4. L >= DefaultLength
  BY DEF BufferOK
<1>. HIDE DEF S, x, b, L, l
<1>. DEFINE g == Grown(b, x, L)
<1>5. b \o x \in Seq(S) /\ l \o x \in Seq(S) /\ Len(b \o x) = Len(b) + Len(x)
      /\ EndOf(b \o x, l \o x) /\ EndOf(x, b \o x)
  BY <1>1, ConcatProperties, ConcatEnds, EndOfConcat
<1>6. g \in Seq(S) /\ EndOf(g, b \o x) /\ Len(x) <= Len(g) /\ Len(g) \in Nat
  <2>1. EndOf(b \o x, b \o x)
    BY <1>2, <1>5 DEF EndOf
  <2>2. CASE x = <<>> \/ b = <<>>
    <3>1. g = b \o x
      BY <2>2 DEF Grown
    <3>. QED
      BY <1>2, <1>5, <2>1, <3>1
  <2>3. CASE ~(x = <<>> \/ b = <<>>)
    <3>1. g = Trim(b \o x, L)
      BY <2>3 DEF Grown
    <3>2. /\ g \in Seq(S) /\ EndOf(g, b \o x)
          /\ Len(g) = IF L < Len(b \o x) THEN L ELSE Len(b \o x)
      BY <1>1, <1>5, <3>1, TrimEnds
    <3>. QED
      BY <1>1, <1>2, <1>5, <3>2
  <2>. QED
    BY <2>2, <2>3
<1>. HIDE DEF g
<1>7. EndOf(g, l \o x)
  BY <1>5, <1>6, EndOfEnd
<1>8. Trim(g, Len(x)) = x
  <2>. DEFINE t == Trim(g, Len(x))
  <2>1. t \in Seq(S) /\ EndOf(t, g) /\ Len(t) = IF Len(x) < Len(g) THEN Len(x) ELSE Len(g)
    BY <1>2, <1>6, TrimEnds
  <2>. HIDE DEF t
  <2>2. Len(t) = Len(x)
    BY <1>2, <1>6, <2>1
  <2>3. EndOf(t, b \o x)
    BY <1>5, <1>6, <2>1, EndOfEnd
  <2>4. t = x
    BY <1>1, <1>5, <2>1, <2>2, <2>3, SameEnd
  <2>. QED
    BY <2>4 DEF t
<1>9. e.buffer = g
  BY <1>3 DEF g
<1>10. e.last.type = "NewValues" => e.last.rows = x
  BY <1>3, <1>6, <1>8, <1>9 DEF ValuesFromLastPacket
<1>11. EndOf(x, l \o x)
  BY <1>1, EndOfConcat
<1>12. BufferOK(e)
  BY <1>3, <1>4, <1>7, <1>9, <1>10, <1>11 DEF BufferOK
<1>. QED
  BY <1>10, <1>12 DEF x

LEMMA BufferError ==
    ASSUME NEW d \in Stream, BufferOK(d), NEW e, e = PushError(d)
    PROVE  BufferOK(e)
<1>1. Failed(d, e)
  BY PushErrorFields
<1>. QED
  BY <1>1 DEF Failed, BufferOK

(* The last row of q is the last of the whole.                             *)
Newest(q, whole) == whole # <<>> => q # <<>> /\ q[Len(q)] = whole[Len(whole)]

LEMMA NewestEnd ==
    ASSUME NEW S, NEW q \in Seq(S), NEW a \in Seq(S), NEW r \in Seq(S), r # <<>>, EndOf(r, q)
    PROVE  Newest(a \o r, q)
<1>1. Len(r) \in Nat /\ Len(r) > 0 /\ Len(q) \in Nat /\ Len(a) \in Nat
  BY LenProperties, EmptySeq
<1>2. r[Len(r)] = q[Len(q)]
  <2>1. Len(r) \in 1..Len(r) /\ Len(q) - Len(r) + Len(r) = Len(q)
    BY <1>1
  <2>. QED
    BY <2>1 DEF EndOf
<1>. DEFINE n == Len(a) + Len(r)
<1>3. Len(a \o r) = n /\ (a \o r)[n] = r[Len(r)]
  <2>1. /\ Len(a \o r) = Len(a) + Len(r)
        /\ \A i \in 1..(Len(a) + Len(r)) :
              (a \o r)[i] = IF i <= Len(a) THEN a[i] ELSE r[i - Len(a)]
    BY ConcatProperties
  <2>2. n \in 1..(Len(a) + Len(r)) /\ ~(n <= Len(a)) /\ n - Len(a) = Len(r)
    BY <1>1
  <2>. QED
    BY <2>1, <2>2
<1>4. a \o r # <<>>
  BY <1>1, <1>3, EmptySeq
<1>. QED
  BY <1>2, <1>3, <1>4 DEF Newest

LEMMA NewestConcat ==
    ASSUME NEW S, NEW q \in Seq(S), NEW a \in Seq(S), NEW x \in Seq(S), Newest(a, q)
    PROVE  Newest(a \o x, q \o x)
<1>1. CASE x = <<>>
  <2>1. a \o <<>> = a /\ q \o <<>> = q
    BY ConcatEmptySeq
  <2>. QED
    BY <1>1, <2>1
<1>2. CASE x # <<>>
  <2>1. EndOf(x, q \o x) /\ q \o x \in Seq(S)
    BY EndOfConcat, ConcatProperties
  <2>. DEFINE qx == q \o x
  <2>2. qx \in Seq(S) /\ EndOf(x, qx)
    BY <2>1
  <2>. HIDE DEF qx
  <2>3. Newest(a \o x, qx)
    BY ONLY <1>2, <2>2, a \in Seq(S), x \in Seq(S), NewestEnd
  <2>. QED
    BY <2>3 DEF qx
<1>. QED
  BY <1>1, <1>2

LEMMA NewestTrim ==
    ASSUME NEW S, NEW q \in Seq(S), NEW a \in Seq(S), NEW n \in Nat \ {0}, Newest(a, q)
    PROVE  Newest(Trim(a, n), q)
<1>. DEFINE t == Trim(a, n)
<1>1. t \in Seq(S) /\ Len(t) = (IF n < Len(a) THEN n ELSE Len(a)) /\ EndOf(t, a)
  BY TrimEnds
<1>. HIDE DEF t
<1>2. Len(a) \in Nat /\ Len(t) \in Nat
  BY <1>1, LenProperties
<1>3. ASSUME a # <<>> PROVE t # <<>> /\ t[Len(t)] = a[Len(a)]
  <2>1. Len(a) > 0
    BY <1>2, <1>3, EmptySeq
  <2>2. Len(t) \in 1..Len(t) /\ Len(a) - Len(t) + Len(t) = Len(a)
    BY <1>1, <1>2, <2>1
  <2>3. t # <<>>
    BY <2>2, EmptySeq
  <2>. QED
    BY <1>1, <2>2, <2>3 DEF EndOf
<1>4. Newest(t, q)
  BY <1>3 DEF Newest
<1>. QED
  BY <1>4 DEF t

Interrupted(msgs) == HasType(msgs, "Error") \/ HasType(msgs, "ChangedSchema")
Missing(seen, d) == SubSeq(d.log, seen + 1, Len(d.log))

(* What a panel that appends is owed, for which msgs are held back: all    *)
(* the rows it has not been shown, or a whole frame, or if rows have been  *)
(* spliced off, the newest row.                                            *)
Owed(s, u, msgs, d) ==
    IF u.gap THEN Interrupted(msgs) \/ Newest(u.view \o NewValues(msgs), d.log)
    ELSE /\ Trim(u.view \o Missing(u.seen, d), MaxLength[s]) = Trim(d.buffer, MaxLength[s])
         /\ Interrupted(msgs) \/ NewValues(msgs) = Missing(u.seen, d)

(* The rows of m are among those that a panel has not been shown.          *)
Recent(u, m, d) == /\ m.type = "NewValues" => EndOf(m.rows, d.log)
                   /\ u.seen # NotYet => u.seen + Len(m.rows) <= Len(d.log)

(* A panel that has seen the first rows of stream d, and for which msgs    *)
(* are held back.                                                          *)
Held(s, u, msgs, d) ==
    /\ MaxLength[s] <= d.maxLength
    /\ (u.seen = NotYet) <=> u.fullFrame
    /\ u.seen = NotYet => u.view = <<>>
    /\ u.seen <= Len(d.log)
    /\ u.gap => s \notin Replaces
    /\ u.fields = "shared" => s \in Replaces
    /\ u.seen # NotYet /\ u.fields # "none" => FieldsOf(d) = "own"
    /\ msgs # <<>> => Recent(u, msgs[Len(msgs)], d)
    /\ s \notin Replaces /\ u.seen # NotYet /\ u.fields # "none" => Owed(s, u, msgs, d)

LEMMA InterruptedAppend ==
    ASSUME NEW msgs \in Seq(InternalMessage), NEW m \in InternalMessage
    PROVE  Interrupted(Append(msgs, m)) <=> Interrupted(msgs) \/ m.type # "NewValues"
<1>. DEFINE more == Append(msgs, m)
            n == Len(msgs)
<1>1. /\ n \in Nat /\ Len(more) = n + 1 /\ \A i \in 1..n : more[i] = msgs[i]
      /\ more[n + 1] = m
  BY LenProperties, AppendProperties
<1>. HIDE DEF more, n
<1>2. ASSUME NEW type
      PROVE  HasType(more, type) <=> HasType(msgs, type) \/ m.type = type
  <2>1. \A i \in 1..Len(more) : i \in 1..n \/ i = n + 1
    BY <1>1
  <2>2. \A i \in 1..n : i \in 1..Len(more)
    BY <1>1
  <2>3. n + 1 \in 1..Len(more)
    BY <1>1
  <2>. QED
    BY <1>1, <2>1, <2>2, <2>3 DEF HasType, n
<1>3. m.type \in {"Error", "ChangedSchema", "NewValues"}
  BY DEF InternalMessage
<1>. QED
  BY <1>2, <1>3 DEF Interrupted, more

LEMMA AppendLast ==
    ASSUME NEW S, NEW q \in Seq(S), NEW m \in S
    PROVE  /\ Append(q, m) \in Seq(S) /\ Append(q, m) # <<>>
           /\ Append(q, m)[Len(Append(q, m))] = m
<1>. DEFINE p == Append(q, m)
<1>1. p \in Seq(S) /\ Len(p) = Len(q) + 1 /\ p[Len(q) + 1] = m /\ Len(q) \in Nat
  BY AppendProperties, LenProperties
<1>. HIDE DEF p
<1>2. p # <<>> /\ p[Len(p)] = m
  BY <1>1, EmptySeq
<1>. QED
  BY <1>1, <1>2 DEF p

(* Rows come for a panel, which is told of them.                           *)
LEMMA OwedPush ==
    ASSUME PacketsFit, NEW s \in Subscribers, NEW u \in User, NEW msgs \in Seq(InternalMessage),
           NEW d \in Stream, BufferOK(d), MaxLength[s] <= d.maxLength,
           u.seen \in 0..Len(d.log), Owed(s, u, msgs, d),
           NEW msg, Fits(msg), NEW e, e = Push(d, msg)
    PROVE  Owed(s, u, Append(msgs, e.last), e)
<1>. DEFINE S == 1..MaxRows
            x == msg.rows
            b == d.buffer
            M == MaxLength[s]
            L == d.maxLength
            l == d.log
            g == Grown(b, x, L)
            view == u.view
            seen == u.seen
            more == Append(msgs, e.last)
            r == Missing(seen, d)
            N == NewValues(msgs)
<1>1. x \in Seq(S) /\ b \in Seq(S) /\ l \in Seq(S) /\ L \in Nat /\ M \in Nat /\ view \in Seq(S)
  BY StreamFields, UserFields, LengthAssumption DEF Fits, Message, RowSeqs
<1>2. e.log = l \o x /\ e.buffer = g /\ e.last \in InternalMessage
  <2>1. Pushed(d, msg, e)
    BY PushFields
  <2>. QED
    BY <2>1 DEF Pushed
<1>3. e.last.type = "NewValues" => e.last.rows = x
  BY BufferPush
<1>4. M <= L /\ seen \in 0..Len(l)
  OBVIOUS
<1>5. N \in Seq(S)
  BY NewValuesOfMessages DEF RowSeqs
<1>6. Interrupted(more) \/ (~Interrupted(msgs) /\ NewValues(more) = N \o x)
  <2>1. Interrupted(more) <=> Interrupted(msgs) \/ e.last.type # "NewValues"
    BY <1>2, InterruptedAppend
  <2>2. NewValues(more) = N \o e.last.rows
    BY <1>2, NewValuesOfMessages
  <2>. QED
    BY <1>3, <2>1, <2>2
<1>7. /\ u.gap => Interrupted(msgs) \/ Newest(view \o N, l)
      /\ ~u.gap => Trim(view \o r, M) = Trim(b, M) /\ (Interrupted(msgs) \/ N = r)
  BY DEF Owed
<1>. HIDE DEF S, x, b, M, L, l, g, view, seen, more, N
<1>8. ASSUME u.gap
      PROVE  Interrupted(more) \/ Newest(view \o NewValues(more), e.log)
  <2>1. CASE Interrupted(more)
    BY <2>1
  <2>2. CASE ~Interrupted(more)
    <3>1. NewValues(more) = N \o x /\ Newest(view \o N, l)
      BY <1>6, <1>7, <1>8, <2>2
    <3>. DEFINE a == view \o N
    <3>2. a \in Seq(S)
      BY ONLY <1>1, <1>5, ConcatProperties
    <3>3. view \in Seq(S) /\ N \in Seq(S) /\ x \in Seq(S)
      BY ONLY <1>1, <1>5
    <3>4. Newest(a, l)
      BY <3>1
    <3>6. view \o (N \o x) = a \o x
      BY ONLY <3>3, Associative, SMTT(60)
    <3>. HIDE DEF a
    <3>5. Newest(a \o x, l \o x)
      BY ONLY <1>1, <3>2, <3>4, NewestConcat
    <3>. QED
      BY <1>2, <3>1, <3>5, <3>6
  <2>. QED
    BY <2>1, <2>2
<1>9. ASSUME ~u.gap
      PROVE  /\ Trim(view \o Missing(seen, e), M) = Trim(g, M)
             /\ Interrupted(more) \/ NewValues(more) = Missing(seen, e)
  <2>1. r \in Seq(S) /\ Missing(seen, e) = r \o x
    BY <1>1, <1>2, <1>4, Rest, RestOfConcat DEF Missing, l
  <2>2. Trim(view \o r, M) = Trim(b, M) /\ (Interrupted(msgs) \/ N = r)
    BY <1>7, <1>9
  <2>. HIDE DEF r
  <2>3. view \o (r \o x) = (view \o r) \o x
    <3>1. view \in Seq(S) /\ r \in Seq(S) /\ x \in Seq(S)
      BY <1>1, <2>1
    <3>. QED
      BY ONLY <3>1, ConcatAssociative
  <2>4. view \o r \in Seq(S) /\ b \o x \in Seq(S)
    BY ONLY <1>1, <2>1, ConcatProperties
  <2>5. Trim((view \o r) \o x, M) = Trim(Trim(view \o r, M) \o x, M)
    <3>. DEFINE a == view \o r
    <3>1. a \in Seq(S) /\ M <= M
      BY <1>1, <2>4
    <3>. HIDE DEF a
    <3>2. Trim(Trim(a, M) \o x, M) = Trim(a \o x, M)
      BY ONLY <1>1, <3>1, TrimConcat
    <3>. QED
      BY <3>2 DEF a
  <2>6. Trim(Trim(b, M) \o x, M) = Trim(b \o x, M)
    BY <1>1, TrimConcat
  <2>7. Trim(g, M) = Trim(b \o x, M)
    <3>1. Trim(Trim(b \o x, L), M) = Trim(b \o x, M)
      BY <1>1, <1>4, <2>4, TrimTwice
    <3>. QED
      BY <3>1 DEF g, Grown
  <2>8. Trim(view \o Missing(seen, e), M) = Trim(g, M)
    BY <2>1, <2>2, <2>3, <2>5, <2>6, <2>7
  <2>. QED
    BY <1>6, <2>1, <2>2, <2>8
<1>10. /\ u.gap => Interrupted(more) \/ Newest(u.view \o NewValues(more), e.log)
       /\ ~u.gap => /\ Trim(u.view \o Missing(u.seen, e), MaxLength[s]) = Trim(e.buffer, MaxLength[s])
                    /\ Interrupted(more) \/ NewValues(more) = Missing(u.seen, e)
  BY <1>2, <1>8, <1>9 DEF view, seen, M
<1>. QED
  BY <1>10 DEF Owed, more

LEMMA HeldPush ==
    ASSUME PacketsFit, NEW s \in Subscribers, NEW u \in User, NEW msgs \in Seq(InternalMessage),
           NEW d \in Stream, BufferOK(d), Held(s, u, msgs, d),
           NEW msg, Fits(msg), NEW e, e = Push(d, msg)
    PROVE  Held(s, u, Append(msgs, e.last), e)
<1>. DEFINE x == msg.rows
            more == Append(msgs, e.last)
<1>1. d.log \in RowSeqs /\ x \in RowSeqs
  BY StreamFields DEF Fits, Message
<1>2. Pushed(d, msg, e)
  BY PushFields
<1>3. BufferOK(e) /\ (e.last.type = "NewValues" => e.last.rows = x)
  BY BufferPush
<1>4. e.last \in InternalMessage /\ e.last # None /\ e.maxLength = d.maxLength /\ e.log = d.log \o x
  BY <1>2 DEF Pushed
<1>5. /\ Len(d.log) \in Nat /\ Len(x) \in Nat /\ Len(e.log) = Len(d.log) + Len(x)
      /\ u.seen <= Len(d.log) /\ u.seen \in Nat \cup {NotYet}
  <2>1. Len(d.log) \in Nat /\ Len(x) \in Nat
    BY <1>1, LenProperties DEF RowSeqs
  <2>2. Len(d.log \o x) = Len(d.log) + Len(x)
    BY <1>1, ConcatProperties DEF RowSeqs
  <2>. QED
    BY <1>4, <2>1, <2>2, UserFields DEF Held
<1>6. u.seen <= Len(e.log) /\ u.seen + Len(x) <= Len(e.log) /\ (u.seen # NotYet => u.seen \in 0..Len(d.log))
  <2>. DEFINE n == u.seen
              l == Len(d.log)
              m == Len(e.log)
              k == Len(x)
  <2>1. n \in Nat \cup {-1} /\ n <= l /\ l \in Nat /\ k \in Nat /\ m = l + k
    BY <1>5 DEF NotYet
  <2>. HIDE DEF n, l, m, k
  <2>2. n <= m /\ n + k <= m /\ (n # NotYet => n \in 0..l)
    BY <2>1 DEF NotYet
  <2>. QED
    BY <2>2 DEF n, l, m, k
<1>7. FieldsOf(d) = "own" => FieldsOf(e) = "own"
  <2>1. d.log # <<>> => e.log # <<>>
    BY <1>1, <1>4, <1>5, EmptySeq DEF RowSeqs
  <2>. QED
    BY <1>2, <2>1 DEF FieldsOf, Pushed
<1>8. Recent(u, e.last, e)
  <2>1. CASE e.last.type = "NewValues"
    BY <1>3, <1>4, <1>6, <2>1 DEF Recent, BufferOK
  <2>2. CASE e.last.type # "NewValues"
    <3>1. e.last.rows = <<>>
      BY <1>2, <2>2 DEF Pushed
    <3>2. Len(<<>>) = 0
      BY EmptySeq
    <3>3. u.seen # NotYet => u.seen + 0 <= Len(e.log)
      BY <1>6
    <3>. QED
      BY <2>2, <3>1, <3>2, <3>3 DEF Recent
  <2>. QED
    BY <2>1, <2>2
<1>9. more[Len(more)] = e.last
  BY <1>4, AppendLast
<1>10. s \notin Replaces /\ u.seen # NotYet /\ u.fields # "none" => Owed(s, u, more, e)
  BY <1>6, OwedPush DEF Held
<1>. HIDE DEF more, x
<1>11. Held(s, u, more, e)
  BY <1>4, <1>6, <1>7, <1>8, <1>9, <1>10 DEF Held
<1>. QED
  BY <1>11 DEF more

(* A panel is told of an error.                                            *)
LEMMA HeldError ==
    ASSUME NEW s \in Subscribers, NEW u \in User, NEW msgs \in Seq(InternalMessage),
           NEW d \in Stream, Held(s, u, msgs, d), NEW e, e = PushError(d)
    PROVE  Held(s, u, Append(msgs, e.last), e)
<1>. DEFINE more == Append(msgs, e.last)
<1>1. Failed(d, e)
  BY PushErrorFields
<1>2. e.last \in InternalMessage /\ e.last.type = "Error" /\ e.last.rows = <<>> /\ e.log = d.log
      /\ e.buffer = d.buffer
  BY <1>1 DEF Failed
<1>3. Interrupted(more)
  BY <1>2, InterruptedAppend
<1>4. Missing(u.seen, e) = Missing(u.seen, d)
  BY <1>2 DEF Missing
<1>5. more[Len(more)] = e.last
  BY <1>2, AppendLast
<1>6. Recent(u, e.last, e)
  <2>1. Len(<<>>) = 0 /\ u.seen <= Len(d.log) /\ u.seen \in Nat \cup {NotYet}
    BY UserFields, EmptySeq DEF Held
  <2>2. u.seen # NotYet => u.seen + 0 <= Len(d.log)
    BY <2>1
  <2>. QED
    BY <1>2, <2>1, <2>2 DEF Recent
<1>7. FieldsOf(e) = FieldsOf(d)
  BY <1>1 DEF FieldsOf, Failed
<1>8. s \notin Replaces /\ u.seen # NotYet /\ u.fields # "none" => Owed(s, u, more, e)
  BY <1>2, <1>3, <1>4 DEF Held, Owed
<1>. HIDE DEF more
<1>9. Held(s, u, more, e)
  BY <1>1, <1>5, <1>6, <1>7, <1>8 DEF Held, Failed
<1>. QED
  BY <1>9 DEF more

(* The frames LiveFrames speaks of.                                        *)
LEMMA SameTrim ==
    ASSUME NEW S, NEW q \in Seq(S), NEW n \in Nat
    PROVE  Promise!Trim(q, n) = Trim(q, n)
<1>1. Len(q) \in Nat
  BY LenProperties
<1>2. (IF Len(q) > n THEN Len(q) - n + 1 ELSE 1) = Larger(Len(q) - n, 0) + 1
  BY <1>1 DEF Larger
<1>. QED
  BY <1>2 DEF Promise!Trim, Trim

LEMMA EndIsWindow ==
    ASSUME NEW S, NEW a \in Seq(S), NEW q \in Seq(S), NEW n \in Nat, EndOf(a, q), Len(a) <= n
    PROVE  Promise!IsWindow(a, n, q)
<1>. DEFINE k == Len(a)
            t == Trim(q, k)
<1>1. k \in Nat /\ Len(q) \in Nat /\ k <= Len(q)
  BY LenProperties DEF EndOf
<1>2. Promise!Trim(q, k) = t
  BY <1>1, SameTrim
<1>3. t \in Seq(S) /\ EndOf(t, q) /\ Len(t) = IF k < Len(q) THEN k ELSE Len(q)
  BY <1>1, TrimEnds
<1>. HIDE DEF t
<1>4. Len(t) = Len(a)
  BY <1>1, <1>3
<1>5. a = t
  BY <1>3, <1>4, SameEnd
<1>. QED
  BY <1>2, <1>5 DEF Promise!IsWindow

(* The takers rs splice rows off the messages of which there are n.        *)
Loss(s, rs, n) == \E r \in rs \ {s} : MaxLength[r] < n

MayLack(s, u, log, rs) ==
    /\ u.seen # NotYet
    /\ Lacks(u) = "rows" \/ (Lacks(u) = "nothing" /\ Loss(s, rs, Len(log) - u.seen))

(* What LiveFrames allows of a panel u that stays, and of one that is      *)
(* shown what the stream has; it is v then.                                *)
Stays(s, u, v, log, rs) ==
    /\ v.on = u.on /\ v.seen = u.seen
    /\ \/ v.view = u.view /\ Lacks(v) = Lacks(u)
       \/ /\ s \in Replaces /\ Loss(s, rs, Len(u.view))
          /\ Promise!IsWindow(v.view, Len(u.view), u.view) /\ Lacks(v) = Lacks(u)
       \/ s \notin Replaces /\ Lacks(v) = "rows" /\ MayLack(s, u, log, rs) /\ v.view = u.view

WholeFrame(s, v, log) ==
    /\ Promise!IsWindow(v.view, MaxLength[s], log)
    /\ Lacks(v) = "nothing" \/ (Lacks(v) = "fields" /\ log = <<>>)

Promised(s, u, v, log, rs) ==
    /\ v.seen = Len(log)
    /\ \/ (s \in Replaces \/ u.seen = NotYet \/ Lacks(u) # "nothing") /\ WholeFrame(s, v, log)
       \/ /\ s \notin Replaces /\ u.seen # NotYet /\ Lacks(u) = "nothing" /\ Lacks(v) = "nothing"
          /\ v.view = Promise!Trim(u.view \o SubSeq(log, u.seen + 1, Len(log)), MaxLength[s])
       \/ /\ s \notin Replaces /\ Lacks(v) = "rows" /\ MayLack(s, u, log, rs)
          /\ Len(v.view) <= MaxLength[s] /\ Newest(v.view, log)
       \/ Lacks(u) = "fields" /\ Lacks(v) = "fields" /\ v.view = u.view

LEMMA FullFrameEnds ==
    ASSUME NEW s \in Subscribers, NEW d \in Stream, NEW msgs, BufferOK(d)
    PROVE  EndOf(FullFrame(s, d, msgs), d.log)
<1>. DEFINE S == 1..MaxRows
<1>1. d.buffer \in Seq(S) /\ d.log \in Seq(S) /\ d.packet \in Nat /\ MaxLength[s] \in Nat
      /\ EndOf(d.buffer, d.log)
  BY StreamFields, LengthAssumption, BoundAssumption DEF RowSeqs, BufferOK
<1>2. ASSUME NEW n \in Nat PROVE EndOf(Trim(d.buffer, n), d.log)
  BY <1>1, TrimEnds, EndOfEnd
<1>3. Smaller(d.packet, MaxLength[s]) \in Nat
  BY <1>1 DEF Smaller
<1>4. EndOf(<<>>, d.log)
  BY <1>1, LenProperties DEF EndOf
<1>. QED
  BY <1>1, <1>2, <1>3, <1>4 DEF FullFrame

(* Rows are spliced off the last message of a panel, m, of which n is left, *)
(* and the panel has a gap then.                                           *)
LEMMA HeldCut ==
    ASSUME NEW s \in Subscribers, NEW u \in User, NEW front \in Seq(InternalMessage),
           NEW m \in InternalMessage, NEW d \in Stream, Held(s, u, Append(front, m), d),
           NEW rs \in SUBSET Subscribers, NEW n, n = Less(m, rs), NEW w, w = Short(s, u, m, n)
    PROVE  /\ w \in User /\ SameBut(u, w, "gap")
           /\ n \in InternalMessage /\ n.type = m.type
           /\ w.gap => u.gap \/ (s \notin Replaces /\ \E r \in rs : MaxLength[r] < Len(m.rows))
           /\ u.gap => w.gap
           /\ ~w.gap => n = m \/ s \in Replaces \/ u.fullFrame
           /\ Held(s, w, Append(front, n), d)
<1>. DEFINE M1 == Append(front, m)
            M2 == Append(front, n)
<1>1. /\ n \in InternalMessage /\ n.type = m.type /\ n.rows = Spliced(m.rows, rs)
      /\ n # m => n.rows # m.rows
  BY LessMessage
<1>2. /\ w \in User /\ SameBut(u, w, "gap")
      /\ w.gap => u.gap \/ (s \notin Replaces /\ n # m)
      /\ u.gap \/ (s \notin Replaces /\ ~u.fullFrame /\ n # m) => w.gap
      /\ n = m => (w.gap => u.gap)
  <2>1. u \in User /\ w = Short(s, u, m, n)
    OBVIOUS
  <2>. QED
    BY ONLY <2>1, ShortUser
<1>3. m.rows \in RowSeqs /\ n.rows \in RowSeqs /\ d.log \in RowSeqs /\ w.view \in RowSeqs
  BY <1>1, <1>2, StreamFields, UserFields DEF InternalMessage
<1>4. /\ EndOf(n.rows, m.rows) /\ Len(n.rows) \in Nat /\ Len(m.rows) \in Nat
      /\ Len(m.rows) > 0 => Len(n.rows) > 0
      /\ n # m => \E r \in rs : MaxLength[r] < Len(m.rows)
  BY <1>1, <1>3, SplicedRows
<1>5. Len(n.rows) <= Len(m.rows)
  BY <1>4 DEF EndOf
<1>6. M1[Len(M1)] = m /\ M2[Len(M2)] = n /\ M1 # <<>> /\ M2 # <<>>
  BY <1>1, AppendLast
<1>7. /\ Interrupted(M1) <=> Interrupted(front) \/ m.type # "NewValues"
      /\ Interrupted(M2) <=> Interrupted(front) \/ n.type # "NewValues"
  BY <1>1, InterruptedAppend
<1>8. NewValues(M2) = NewValues(front) \o n.rows /\ NewValues(front) \in RowSeqs
  BY <1>1, NewValuesOfMessages
<1>9. Recent(u, m, d) /\ u.seen <= Len(d.log)
  BY <1>6 DEF Held
<1>10. w.seen = u.seen /\ w.view = u.view /\ w.fields = u.fields /\ w.fullFrame = u.fullFrame
  BY <1>2 DEF SameBut
<1>11. Recent(w, n, d)
  <2>1. n.type = "NewValues" => EndOf(n.rows, d.log)
    <3>1. CASE m.type = "NewValues"
      <4>1. EndOf(m.rows, d.log)
        BY <1>9, <3>1 DEF Recent
      <4>. QED
        BY <1>3, <1>4, <4>1, EndOfEnd DEF RowSeqs
    <3>. QED
      BY <1>1, <3>1
  <2>2. u.seen # NotYet => u.seen + Len(n.rows) <= Len(d.log)
    <3>1. u.seen \in Nat \cup {NotYet} /\ Len(d.log) \in Nat
      BY <1>3, UserFields, LenProperties, Z3 DEF RowSeqs
    <3>2. u.seen # NotYet => u.seen + Len(m.rows) <= Len(d.log)
      BY <1>9 DEF Recent
    <3>. QED
      BY <1>4, <1>5, <3>1, <3>2
  <2>. QED
    BY <1>10, <2>1, <2>2 DEF Recent
<1>12. w.gap => u.gap \/ (s \notin Replaces /\ \E r \in rs : MaxLength[r] < Len(m.rows))
  BY <1>2, <1>4
<1>13. (u.gap => w.gap) /\ (~w.gap => n = m \/ s \in Replaces \/ u.fullFrame)
  BY <1>2
<1>. HIDE DEF M1, M2
<1>14. ASSUME s \notin Replaces, w.seen # NotYet, w.fields # "none"
       PROVE  Owed(s, w, M2, d)
  <2>1. Owed(s, u, M1, d) /\ ~u.fullFrame
    BY <1>10, <1>14 DEF Held, M1
  <2>2. CASE n = m
    <3>1. (w.gap <=> u.gap) /\ M2 = M1
      BY <1>2, <2>2 DEF M1, M2
    <3>. QED
      BY <1>10, <2>1, <3>1 DEF Owed
  <2>3. CASE n # m
    <3>1. w.gap
      BY <1>2, <1>14, <2>1, <2>3
    <3>2. ASSUME ~Interrupted(M2)
          PROVE  Newest(w.view \o NewValues(M2), d.log)
      <4>1. EndOf(n.rows, d.log)
        BY <1>7, <1>11, <3>2 DEF Recent
      <4>2. n.rows # <<>>
        <5>1. PICK r \in rs : MaxLength[r] < Len(m.rows)
          BY <1>4, <2>3
        <5>2. MaxLength[r] \in Nat \ {0}
          BY LengthAssumption
        <5>3. Len(n.rows) > 0
          BY <1>4, <5>1, <5>2
        <5>. QED
          BY <5>3, EmptySeq
      <4>. DEFINE S == 1..MaxRows
                  a == w.view
                  b == NewValues(front)
                  x == n.rows
                  q == d.log
      <4>3. a \in Seq(S) /\ b \in Seq(S) /\ x \in Seq(S) /\ q \in Seq(S) /\ x # <<>> /\ EndOf(x, q)
        BY <1>3, <1>8, <4>1, <4>2 DEF RowSeqs
      <4>4. NewValues(M2) = b \o x
        BY <1>8
      <4>. HIDE DEF S, a, b, x, q
      <4>5. a \o (b \o x) = (a \o b) \o x
        BY ONLY <4>3, Associative, Z3
      <4>6. a \o b \in Seq(S)
        BY ONLY <4>3, ConcatProperties
      <4>7. Newest((a \o b) \o x, q)
        BY ONLY <4>3, <4>6, NewestEnd
      <4>. QED
        BY <4>4, <4>5, <4>7 DEF a, q
    <3>. QED
      BY <3>1, <3>2 DEF Owed
  <2>. QED
    BY <2>2, <2>3
<1>15. w.gap => s \notin Replaces
  BY <1>2 DEF Held
<1>16. Held(s, w, M2, d)
  BY <1>6, <1>10, <1>11, <1>14, <1>15 DEF Held
<1>. QED
  BY <1>1, <1>2, <1>12, <1>13, <1>16 DEF M2

(* A panel that has been shown all that its stream has.                    *)
UpToDate(s, v, d) ==
    /\ v.gap => s \notin Replaces
    /\ v.fields = "shared" => s \in Replaces
    /\ v.fields # "none" => FieldsOf(d) = "own"
    /\ s \notin Replaces /\ v.fields # "none" =>
          IF v.gap THEN Newest(v.view, d.log)
          ELSE Trim(v.view, MaxLength[s]) = Trim(d.buffer, MaxLength[s])

LEMMA UpToDateIsHeld ==
    ASSUME NEW s \in Subscribers, NEW v \in User, NEW d \in Stream, UpToDate(s, v, d),
           v.seen = Len(d.log), v.fullFrame = FALSE, MaxLength[s] <= d.maxLength
    PROVE  Held(s, v, <<>>, d)
<1>1. d.log \in RowSeqs /\ v.view \in RowSeqs /\ Len(d.log) \in Nat
  BY StreamFields, UserFields, LenProperties DEF RowSeqs
<1>2. v.seen # NotYet /\ v.seen <= Len(d.log) /\ v.seen \in 0..Len(d.log)
  BY <1>1 DEF NotYet
<1>3. Missing(v.seen, d) = <<>>
  BY <1>1, <1>2, Rest DEF Missing, RowSeqs
<1>4. NewValues(<<>>) = <<>>
  <2>1. <<>> \in Seq(InternalMessage)
    BY EmptySeq
  <2>. QED
    BY <2>1, NewValuesOfMessages
<1>5. v.view \o <<>> = v.view
  BY <1>1, ConcatEmptySeq DEF RowSeqs
<1>6. s \notin Replaces /\ v.fields # "none" => Owed(s, v, <<>>, d)
  BY <1>3, <1>4, <1>5 DEF UpToDate, Owed
<1>. QED
  BY <1>2, <1>6 DEF UpToDate, Held

(* What a panel lacks.                                                     *)
LEMMA Lacking ==
    ASSUME NEW u
    PROVE  /\ Lacks(u) \in {"nothing", "fields", "rows"}
           /\ u.seen = NotYet => Lacks(u) = "nothing"
           /\ u.seen # NotYet /\ u.fields = "none" => Lacks(u) = "fields"
           /\ u.seen # NotYet /\ u.fields # "none" /\ u.gap => Lacks(u) = "rows"
           /\ u.fields # "none" /\ ~u.gap => Lacks(u) = "nothing"
           /\ u.seen # NotYet /\ Lacks(u) = "nothing" => u.fields # "none" /\ ~u.gap
BY DEF Lacks

(* Showing a panel a whole frame.                                          *)
LEMMA HeldWhole ==
    ASSUME NEW s \in Subscribers, NEW u \in User, NEW d \in Stream, BufferOK(d),
           NEW msgs, Held(s, u, msgs, d), NEW more, NEW rs, NEW v \in User, v.seen = Len(d.log),
           v.view = FullFrame(s, d, more), v.fields = FieldsOf(d), ~v.gap,
           Len(v.view) <= MaxLength[s]
    PROVE  UpToDate(s, v, d) /\ Promised(s, u, v, d.log, rs)
<1>. DEFINE S == 1..MaxRows
            M == MaxLength[s]
            q == u.view \o Missing(u.seen, d)
<1>1. /\ d.buffer \in Seq(S) /\ d.log \in Seq(S) /\ u.view \in Seq(S) /\ v.view \in Seq(S)
      /\ M \in Nat /\ Len(d.log) \in Nat
  BY StreamFields, UserFields, LengthAssumption, LenProperties DEF RowSeqs
<1>2. EndOf(v.view, d.log)
  BY FullFrameEnds
<1>3. s \notin Replaces => v.view = Trim(d.buffer, M)
  BY DEF FullFrame
<1>4. v.seen # NotYet
  BY <1>1 DEF NotYet
<1>5. WholeFrame(s, v, d.log)
  <2>1. Promise!IsWindow(v.view, M, d.log)
    BY <1>1, <1>2, EndIsWindow
  <2>2. Lacks(v) = "nothing" \/ (Lacks(v) = "fields" /\ d.log = <<>>)
    BY DEF Lacks, FieldsOf
  <2>. QED
    BY <2>1, <2>2 DEF WholeFrame, M
<1>6. UpToDate(s, v, d)
  <2>1. Trim(Trim(d.buffer, M), M) = Trim(d.buffer, M)
    <3>1. M <= M
      BY <1>1
    <3>. HIDE DEF M, S
    <3>. QED
      BY ONLY <1>1, <3>1, TrimTwice
  <2>2. v.fields # "shared" /\ (v.fields # "none" => FieldsOf(d) = "own")
    BY DEF FieldsOf
  <2>. QED
    BY <1>3, <2>1, <2>2 DEF UpToDate, M
<1>7. ASSUME ~(s \in Replaces \/ u.seen = NotYet \/ Lacks(u) # "nothing")
      PROVE  Promised(s, u, v, d.log, rs)
  <2>1. u.fields # "none" /\ ~u.gap /\ u.seen # NotYet
    BY <1>7, Lacking
  <2>2. FieldsOf(d) = "own" /\ Trim(q, M) = Trim(d.buffer, M)
    BY <1>7, <2>1 DEF Held, Owed, M, q
  <2>3. Lacks(v) = "nothing"
    BY <2>2, Lacking
  <2>4. q \in Seq(S)
    <3>1. u.seen \in Nat \cup {NotYet} /\ u.seen <= Len(d.log)
      BY UserFields DEF Held
    <3>2. u.seen \in 0..Len(d.log)
      BY <1>1, <2>1, <3>1
    <3>3. Missing(u.seen, d) \in Seq(S)
      BY <1>1, <3>2, Rest DEF Missing
    <3>. HIDE DEF S
    <3>. QED
      BY <1>1, <3>3, ConcatProperties
  <2>. HIDE DEF q
  <2>5. v.view = Promise!Trim(q, M)
    BY <1>1, <1>3, <1>7, <2>2, <2>4, SameTrim
  <2>. QED
    BY <1>7, <2>1, <2>3, <2>5 DEF Promised, M, q, Missing
<1>8. ASSUME s \in Replaces \/ u.seen = NotYet \/ Lacks(u) # "nothing"
      PROVE  Promised(s, u, v, d.log, rs)
  BY <1>5, <1>8 DEF Promised
<1>. QED
  BY <1>6, <1>7, <1>8

NewsShown(s, w, d, msgs, v) ==
    /\ ~Whole(w, msgs) /\ v \in User
    /\ v.seen = Len(d.log) /\ Len(v.view) <= MaxLength[s]
    /\ (v.gap => w.gap) /\ (w.gap => v.gap)
    /\ v.fields = ShownFields(s, w, d, msgs) /\ v.view = ShownView(s, w, d, msgs)

(* Showing a panel the new values, which a frame without fields ignores.   *)
LEMMA HeldValues ==
    ASSUME NEW s \in Subscribers, NEW u \in User, NEW front \in Seq(InternalMessage),
           NEW m \in InternalMessage, NEW d \in Stream, Held(s, u, Append(front, m), d),
           NEW rs \in SUBSET Replaces, NEW n, n = Less(m, rs), NEW w, w = Short(s, u, m, n),
           NEW v, NewsShown(s, w, d, Append(front, n), v)
    PROVE  UpToDate(s, v, d) /\ Promised(s, u, v, d.log, rs)
<1>. SUFFICES ASSUME NEW more, more = Append(front, n), ~Whole(w, more), v \in User,
                     v.seen = Len(d.log), Len(v.view) <= MaxLength[s],
                     v.gap => w.gap, w.gap => v.gap,
                     v.fields = ShownFields(s, w, d, more), v.view = ShownView(s, w, d, more)
              PROVE  UpToDate(s, v, d) /\ Promised(s, u, v, d.log, rs)
  BY DEF NewsShown
<1>. DEFINE S == 1..MaxRows
            M == MaxLength[s]
            L == d.log
            N == NewValues(more)
            q == u.view \o Missing(u.seen, d)
<1>1. /\ w \in User /\ SameBut(u, w, "gap")
      /\ n \in InternalMessage /\ n.type = m.type
      /\ w.gap => u.gap \/ (s \notin Replaces /\ \E r \in rs : MaxLength[r] < Len(m.rows))
      /\ u.gap => w.gap
      /\ ~w.gap => n = m \/ s \in Replaces \/ u.fullFrame
      /\ Held(s, w, more, d)
  <2>1. rs \in SUBSET Subscribers
    BY LengthAssumption
  <2>. QED
    BY <2>1, HeldCut
<1>2. /\ w.seen = u.seen /\ w.view = u.view /\ w.fields = u.fields /\ w.fullFrame = u.fullFrame
  BY <1>1 DEF SameBut
<1>3. /\ d.buffer \in Seq(S) /\ L \in Seq(S) /\ u.view \in Seq(S) /\ v.view \in Seq(S)
      /\ M \in Nat \ {0} /\ Len(L) \in Nat /\ u.seen \in Nat \cup {NotYet}
  BY StreamFields, UserFields, LengthAssumption, LenProperties DEF RowSeqs
<1>4. more \in Seq(InternalMessage) /\ more[Len(more)] = n /\ more # <<>> /\ N \in Seq(S)
  <2>1. more \in Seq(InternalMessage) /\ more[Len(more)] = n /\ more # <<>>
    BY <1>1, AppendLast
  <2>. QED
    BY <2>1, NewValuesOfMessages DEF RowSeqs
<1>5. ~w.fullFrame /\ ~Interrupted(more) /\ u.seen # NotYet /\ v.seen # NotYet /\ u.seen <= Len(L)
  <2>1. ~w.fullFrame /\ ~Interrupted(more)
    BY DEF Whole, Interrupted
  <2>. QED
    BY <1>2, <1>3, <2>1 DEF Held, NotYet
<1>. HIDE DEF S, M, L, N, q
<1>6. CASE u.fields = "none"
  <2>1. v.view = u.view /\ v.fields = "none"
    BY <1>2, <1>6 DEF ShownView, ShownFields
  <2>2. Lacks(u) = "fields" /\ Lacks(v) = "fields"
    BY <1>5, <1>6, <2>1, Lacking
  <2>3. v.gap => s \notin Replaces
    BY <1>1 DEF Held
  <2>. QED
    BY <2>1, <2>2, <2>3 DEF UpToDate, Promised
<1>7. CASE u.fields # "none" /\ s \in Replaces
  <2>1. v.view = Trim(n.rows, M) /\ v.fields = "shared"
    BY <1>2, <1>4, <1>7 DEF ShownView, ShownFields, PushNewValues, M
  <2>2. ~v.gap /\ FieldsOf(d) = "own"
    BY <1>1, <1>2, <1>5, <1>7 DEF Held
  <2>3. Lacks(v) = "nothing"
    BY <2>1, <2>2, Lacking
  <2>4. EndOf(n.rows, L) /\ n.rows \in Seq(S)
    <3>1. n.type = "NewValues"
      <4>1. Interrupted(more) <=> Interrupted(front) \/ n.type # "NewValues"
        BY <1>1, InterruptedAppend
      <4>. QED
        BY <1>5, <4>1
    <3>2. Recent(w, n, d)
      BY <1>1, <1>4 DEF Held
    <3>. QED
      BY <1>1, <3>1, <3>2 DEF Recent, InternalMessage, RowSeqs, S, L
  <2>5. EndOf(v.view, L)
    <3>1. EndOf(Trim(n.rows, M), n.rows)
      BY <1>3, <2>4, TrimEnds
    <3>. QED
      BY <1>3, <2>1, <2>4, <3>1, EndOfEnd
  <2>6. Promise!IsWindow(v.view, M, L)
    <3>1. Len(v.view) <= M /\ M \in Nat
      BY <1>3 DEF M
    <3>. QED
      BY ONLY <1>3, <2>5, <3>1, EndIsWindow
  <2>. QED
    BY <1>7, <2>1, <2>2, <2>3, <2>6 DEF UpToDate, Promised, WholeFrame, M, L
<1>8. CASE u.fields # "none" /\ s \notin Replaces
  <2>1. v.view = Trim(u.view \o N, M) /\ v.fields = u.fields
    BY <1>2, <1>8 DEF ShownView, ShownFields, PushNewValues, M, N
  <2>2. FieldsOf(d) = "own" /\ v.fields # "shared" /\ Owed(s, w, more, d)
    BY <1>1, <1>2, <1>5, <1>8, <2>1 DEF Held
  <2>3. CASE w.gap
    <3>1. Newest(u.view \o N, L)
      BY <1>2, <1>5, <2>2, <2>3 DEF Owed, N, L
    <3>2. Newest(v.view, L)
      <4>. DEFINE a == u.view \o N
      <4>1. a \in Seq(S)
        BY ONLY <1>3, <1>4, ConcatProperties
      <4>2. Newest(a, L) /\ v.view = Trim(a, M)
        BY <2>1, <3>1
      <4>. HIDE DEF a
      <4>3. Newest(Trim(a, M), L)
        BY ONLY <1>3, <4>1, <4>2, NewestTrim
      <4>. QED
        BY <4>2, <4>3
    <3>3. v.gap /\ Lacks(v) = "rows"
      BY <1>5, <1>8, <2>1, <2>3, Lacking
    <3>4. MayLack(s, u, L, rs)
      <4>1. CASE u.gap
        BY <1>5, <1>8, <4>1, Lacking DEF MayLack
      <4>2. CASE ~u.gap
        <5>1. Lacks(u) = "nothing"
          BY <1>8, <4>2, Lacking
        <5>2. PICK r \in rs : MaxLength[r] < Len(m.rows)
          BY <1>1, <2>3, <4>2
        <5>3. r \in rs \ {s} /\ MaxLength[r] \in Nat
          BY <1>8, LengthAssumption
        <5>4. u.seen + Len(m.rows) <= Len(L)
          <6>1. Append(front, m)[Len(Append(front, m))] = m /\ Append(front, m) # <<>>
            BY AppendLast
          <6>. QED
            BY <1>5, <6>1 DEF Held, Recent, L
        <5>5. Len(m.rows) \in Nat
          <6>1. m.rows \in Seq(S)
            BY DEF InternalMessage, RowSeqs, S
          <6>. QED
            BY ONLY <6>1, LenProperties
        <5>6. MaxLength[r] < Len(L) - u.seen
          <6>1. u.seen \in Int /\ Len(L) \in Nat
            BY <1>3, <1>5 DEF NotYet
          <6>. QED
            BY ONLY <5>2, <5>3, <5>4, <5>5, <6>1
        <5>. QED
          BY <1>5, <5>1, <5>3, <5>6 DEF MayLack, Loss
      <4>. QED
        BY <4>1, <4>2
    <3>. QED
      BY <1>8, <2>2, <3>2, <3>3, <3>4 DEF UpToDate, Promised, L
  <2>4. CASE ~w.gap
    <3>1. /\ Trim(q, M) = Trim(d.buffer, M) /\ N = Missing(u.seen, d)
      BY <1>2, <1>5, <2>2, <2>4 DEF Owed, q, M, N
    <3>2. ~v.gap /\ ~u.gap /\ Lacks(u) = "nothing" /\ Lacks(v) = "nothing"
      BY <1>1, <1>8, <2>1, <2>4, Lacking
    <3>3. v.view = Trim(q, M) /\ q \in Seq(S)
      <4>1. u.view \o N \in Seq(S)
        BY ONLY <1>3, <1>4, ConcatProperties
      <4>. QED
        BY <2>1, <3>1, <4>1 DEF q
    <3>4. v.view = Promise!Trim(q, M)
      <4>1. M \in Nat
        BY <1>3
      <4>2. Promise!Trim(q, M) = Trim(q, M)
        BY ONLY <3>3, <4>1, SameTrim
      <4>. QED
        BY <3>3, <4>2
    <3>5. Trim(v.view, M) = Trim(d.buffer, M)
      <4>1. M \in Nat /\ M <= M
        BY <1>3
      <4>2. Trim(Trim(q, M), M) = Trim(q, M)
        BY ONLY <3>3, <4>1, TrimTwice
      <4>. QED
        BY <3>1, <3>3, <4>2
    <3>. QED
      BY <1>5, <1>8, <2>2, <3>2, <3>4, <3>5 DEF UpToDate, Promised, Missing, q, M, L
  <2>. QED
    BY <2>3, <2>4
<1>. QED
  BY <1>6, <1>7, <1>8

(* Showing a panel what it missed.                                         *)
LEMMA HeldShow ==
    ASSUME NEW s \in Subscribers, NEW u \in User, Len(u.view) <= MaxLength[s],
           NEW front \in Seq(InternalMessage), NEW m \in InternalMessage, NEW d \in Stream,
           BufferOK(d), Held(s, u, Append(front, m), d), NEW rs \in SUBSET Replaces,
           NEW n, n = Less(m, rs), NEW w, w = Short(s, u, m, n),
           NEW v, v = Show(s, w, d, Append(front, n))
    PROVE  Held(s, v, <<>>, d) /\ Promised(s, u, v, d.log, rs)
<1>. DEFINE more == Append(front, n)
            msgs == Append(front, m)
<1>1. w \in User /\ SameBut(u, w, "gap") /\ n \in InternalMessage
  <2>1. rs \in SUBSET Subscribers
    BY LengthAssumption
  <2>. QED
    BY <2>1, HeldCut
<1>2. more \in Seq(InternalMessage) /\ more # <<>>
  BY <1>1, AppendLast
<1>3. Len(w.view) <= MaxLength[s]
  BY <1>1 DEF SameBut
<1>4. v = Show(s, w, d, more) /\ Held(s, u, msgs, d) /\ more = Append(front, n)
  OBVIOUS
<1>5. MaxLength[s] <= d.maxLength
  BY DEF Held
<1>. HIDE DEF more, msgs
<1>6. Shown(s, w, d, more, v)
  BY <1>1, <1>2, <1>3, <1>4, ShowFields
<1>7. /\ v \in User /\ v.seen = Len(d.log) /\ v.fullFrame = FALSE /\ Len(v.view) <= MaxLength[s]
      /\ v.fields = ShownFields(s, w, d, more) /\ v.view = ShownView(s, w, d, more)
  BY <1>6 DEF Shown
<1>8. UpToDate(s, v, d) /\ Promised(s, u, v, d.log, rs)
  <2>1. CASE Whole(w, more)
    <3>1. ~v.gap
      BY <1>6, <2>1 DEF Shown, ShownGap
    <3>2. v.view = FullFrame(s, d, more) /\ v.fields = FieldsOf(d)
      BY <1>7, <2>1 DEF ShownView, ShownFields
    <3>. QED
      BY <1>4, <1>7, <3>1, <3>2, HeldWhole
  <2>2. CASE ~Whole(w, more)
    <3>1. (v.gap => w.gap) /\ (w.gap => v.gap)
      BY <1>6, <2>2 DEF Shown, ShownGap
    <3>2. NewsShown(s, w, d, more, v)
      BY <1>7, <2>2, <3>1 DEF NewsShown
    <3>. QED
      BY <1>4, <3>2, HeldValues DEF msgs, more
  <2>. QED
    BY <2>1, <2>2
<1>9. Held(s, v, <<>>, d)
  BY <1>5, <1>7, <1>8, UpToDateIsHeld
<1>. QED
  BY <1>8, <1>9
-----------------------------------------------------------------------------
(* What a step does to one panel and its stream                            *)

(* Panel s, in state u, listens to stream d.                               *)
Attends(u, d, ok) ==
    /\ d # None /\ ~d.shutdown
    /\ u.canEmit => u.buffer = <<>>
    /\ u.buffer = <<>> /\ d.last # None => u.seen = Len(d.log)
    /\ u.buffer # <<>> => d.last # None
    /\ ok => u.canEmit

PanelOK(s, u, d, ok) ==
    /\ Attends(u, d, ok)
    /\ PacketsFit => Held(s, u, u.buffer, d)

PanelTyped(s, u) == u \in User /\ Len(u.view) <= MaxLength[s]

(* The steps of LiveFrames for one panel and for one stream.               *)
Left(v) == v.on = Nothing /\ v.view = <<>> /\ v.seen = NotYet /\ Lacks(v) = "nothing"
Joined(s, u, v, log) ==
    /\ u.on = Nothing
    /\ v.on \in Streams
    /\ \/ v.view = <<>> /\ v.seen = NotYet /\ Lacks(v) = "nothing"
       \/ WholeFrame(s, v, log) /\ v.seen = Len(log)

(* Two panels with the same frame.                                         *)
SameFrame(u, v) ==
    /\ v.fullFrame = u.fullFrame /\ v.view = u.view /\ v.seen = u.seen /\ v.fields = u.fields
    /\ (v.gap => u.gap) /\ (u.gap => v.gap)

LEMMA SameFrameHeld ==
    ASSUME NEW s, NEW u, NEW v, SameFrame(u, v)
    PROVE  /\ \A msgs, d : Held(s, u, msgs, d) => Held(s, v, msgs, d)
           /\ Lacks(v) = Lacks(u)
           /\ \A x, log, rs : Promised(s, v, x, log, rs) => Promised(s, u, x, log, rs)
<1>1. Lacks(v) = Lacks(u)
  BY DEF SameFrame, Lacks
<1>2. ASSUME NEW msgs, NEW d, Held(s, u, msgs, d)
      PROVE  Held(s, v, msgs, d)
  <2>1. v.seen = u.seen /\ v.view = u.view /\ (v.gap => u.gap) /\ (u.gap => v.gap)
    BY DEF SameFrame
  <2>2. Owed(s, u, msgs, d) => Owed(s, v, msgs, d)
    BY <2>1 DEF Owed
  <2>3. \A m : Recent(u, m, d) => Recent(v, m, d)
    BY <2>1 DEF Recent
  <2>. QED
    BY <1>2, <2>2, <2>3 DEF SameFrame, Held
<1>3. ASSUME NEW x, NEW log, NEW rs, Promised(s, v, x, log, rs)
      PROVE  Promised(s, u, x, log, rs)
  <2>1. MayLack(s, v, log, rs) => MayLack(s, u, log, rs)
    BY <1>1 DEF MayLack, SameFrame
  <2>2. v.seen = u.seen /\ v.view = u.view
    BY DEF SameFrame
  <2>. QED
    BY <1>1, <1>3, <2>1, <2>2 DEF Promised
<1>. QED
  BY <1>1, <1>2, <1>3

(* What some takers may splice off, more of them may.                      *)
LEMMA MoreTakers ==
    ASSUME NEW s, NEW u, NEW log, NEW takers, NEW rs \in SUBSET takers
    PROVE  /\ \A n : Loss(s, rs, n) => Loss(s, takers, n)
           /\ MayLack(s, u, log, rs) => MayLack(s, u, log, takers)
           /\ \A v : Stays(s, u, v, log, rs) => Stays(s, u, v, log, takers)
           /\ \A v : Promised(s, u, v, log, rs) => Promised(s, u, v, log, takers)
<1>1. \A n : Loss(s, rs, n) => Loss(s, takers, n)
  BY DEF Loss
<1>2. MayLack(s, u, log, rs) => MayLack(s, u, log, takers)
  BY <1>1 DEF MayLack
<1>3. \A v : Stays(s, u, v, log, rs) => Stays(s, u, v, log, takers)
  BY <1>1, <1>2 DEF Stays
<1>4. \A v : Promised(s, u, v, log, rs) => Promised(s, u, v, log, takers)
  BY <1>2 DEF Promised
<1>. QED
  BY <1>1, <1>2, <1>3, <1>4

(* The stream is told of a message or of an error.                         *)
Heard(d, e) == \/ \E msg : Fits(msg) /\ e = Push(d, msg)
               \/ e = PushError(d)

LEMMA HeardStream ==
    ASSUME NEW d \in Stream, NEW e, Heard(d, e)
    PROVE  /\ e \in Stream /\ e.source = d.source /\ e.maxLength = d.maxLength
           /\ e.shutdown = d.shutdown /\ e.timer = d.timer
           /\ e.last \in InternalMessage /\ e.last # None
           /\ \E x \in RowSeqs : e.log = d.log \o x
           /\ PacketsFit /\ BufferOK(d) => BufferOK(e)
<1>1. CASE e = PushError(d)
  <2>1. Failed(d, e)
    BY <1>1, PushErrorFields
  <2>2. <<>> \in RowSeqs /\ d.log \o <<>> = d.log
    BY StreamFields, EmptySeq, ConcatEmptySeq DEF RowSeqs
  <2>3. \E x \in RowSeqs : e.log = d.log \o x
    BY <2>1, <2>2 DEF Failed
  <2>4. BufferOK(d) => BufferOK(e)
    BY <1>1, BufferError
  <2>. QED
    BY <2>1, <2>3, <2>4 DEF Failed
<1>2. CASE \E msg : Fits(msg) /\ e = Push(d, msg)
  <2>1. PICK msg : Fits(msg) /\ e = Push(d, msg)
    BY <1>2
  <2>2. Pushed(d, msg, e)
    BY <2>1, PushFields
  <2>3. msg.rows \in RowSeqs
    BY <2>1 DEF Fits, Message
  <2>4. \E x \in RowSeqs : e.log = d.log \o x
    BY <2>2, <2>3 DEF Pushed
  <2>5. PacketsFit /\ BufferOK(d) => BufferOK(e)
    BY <2>1, BufferPush
  <2>. QED
    BY <2>2, <2>4, <2>5 DEF Pushed
<1>. QED
  BY <1>1, <1>2 DEF Heard

LEMMA HeardHeld ==
    ASSUME PacketsFit, NEW s \in Subscribers, NEW u \in User,
           NEW d \in Stream, BufferOK(d), Held(s, u, u.buffer, d), NEW e, Heard(d, e)
    PROVE  Held(s, u, Append(u.buffer, e.last), e)
<1>. DEFINE msgs == u.buffer
<1>1. msgs \in Seq(InternalMessage) /\ Held(s, u, msgs, d)
  BY UserFields
<1>. HIDE DEF msgs
<1>2. CASE e = PushError(d)
  <2>1. Held(s, u, Append(msgs, e.last), e)
    BY <1>1, <1>2, HeldError
  <2>. QED
    BY <2>1 DEF msgs
<1>3. CASE \E msg : Fits(msg) /\ e = Push(d, msg)
  <2>1. PICK msg : Fits(msg) /\ e = Push(d, msg)
    BY <1>3
  <2>2. Held(s, u, Append(msgs, e.last), e)
    BY <1>1, <2>1, HeldPush
  <2>. QED
    BY <2>2 DEF msgs
<1>. QED
  BY <1>2, <1>3 DEF Heard

(* Panel s, that was u, is v after a step in which takers of its stream d  *)
(* may splice rows off.                                                    *)
PanelStep(s, u, v, d, ok, takers) ==
    /\ PanelTyped(s, v) /\ v.on = u.on
    /\ PanelOK(s, v, d, ok)
    /\ PacketsFit => Stays(s, u, v, d.log, takers) \/ Promised(s, u, v, d.log, takers)

(* A message of which n is left is held back.                              *)
LEMMA HeldBack ==
    ASSUME NEW s \in Subscribers, NEW u \in User, NEW d \in Stream, NEW m \in InternalMessage,
           Held(s, u, Append(u.buffer, m), d), NEW rs \in SUBSET Replaces,
           NEW n, n = Less(m, rs), NEW w, w = Short(s, u, m, n),
           NEW v \in User, SameBut(w, v, "buffer"), v.buffer = Append(w.buffer, n)
    PROVE  Held(s, v, v.buffer, d) /\ Stays(s, u, v, d.log, rs)
<1>. DEFINE front == u.buffer
            L == d.log
<1>1. rs \in SUBSET Subscribers /\ front \in Seq(InternalMessage) /\ Held(s, u, Append(front, m), d)
  BY LengthAssumption, UserFields
<1>. HIDE DEF front
<1>2. /\ w \in User /\ SameBut(u, w, "gap")
      /\ w.gap => u.gap \/ (s \notin Replaces /\ \E r \in rs : MaxLength[r] < Len(m.rows))
      /\ u.gap => w.gap
      /\ Held(s, w, Append(front, n), d)
  BY <1>1, HeldCut
<1>3. v.buffer = Append(front, n) /\ SameFrame(w, v)
  BY <1>2 DEF SameBut, SameFrame, front
<1>4. Held(s, v, v.buffer, d)
  <2>1. Held(s, v, Append(front, n), d)
    BY <1>2, <1>3, SameFrameHeld
  <2>. QED
    BY <1>3, <2>1
<1>5. /\ v.on = u.on /\ v.seen = u.seen /\ v.view = u.view /\ v.fields = u.fields
      /\ (v.gap => w.gap) /\ (w.gap => v.gap)
  BY <1>2 DEF SameBut
<1>6. CASE u.seen = NotYet \/ u.fields = "none" \/ ~w.gap \/ u.gap
  <2>1. Lacks(v) = Lacks(u)
    BY <1>2, <1>5, <1>6 DEF Lacks
  <2>. QED
    BY <1>4, <1>5, <2>1 DEF Stays
<1>7. CASE u.seen # NotYet /\ u.fields # "none" /\ w.gap /\ ~u.gap
  <2>1. Lacks(u) = "nothing" /\ Lacks(v) = "rows"
    BY <1>5, <1>7, Lacking
  <2>2. PICK r \in rs : MaxLength[r] < Len(m.rows)
    BY <1>2, <1>7
  <2>3. s \notin Replaces
    BY <1>2, <1>7
  <2>4. r \in rs \ {s} /\ MaxLength[r] \in Nat
    BY <1>1, <2>3, LengthAssumption
  <2>5. u.seen + Len(m.rows) <= Len(L)
    <3>1. Append(front, m)[Len(Append(front, m))] = m /\ Append(front, m) # <<>>
      BY <1>1, AppendLast
    <3>. QED
      BY <1>1, <1>7, <3>1 DEF Held, Recent
  <2>6. Len(m.rows) \in Nat /\ Len(L) \in Nat
    <3>1. m.rows \in Seq(1..MaxRows) /\ L \in Seq(1..MaxRows)
      BY StreamFields DEF InternalMessage, RowSeqs
    <3>. QED
      BY ONLY <3>1, LenProperties
  <2>7. u.seen \in Int
    BY UserFields DEF NotYet
  <2>. HIDE DEF L
  <2>8. MaxLength[r] < Len(L) - u.seen
    BY ONLY <2>2, <2>4, <2>5, <2>6, <2>7
  <2>9. MayLack(s, u, L, rs)
    BY <1>7, <2>1, <2>4, <2>8 DEF MayLack, Loss
  <2>. QED
    BY <1>4, <1>5, <2>1, <2>3, <2>9 DEF Stays, L
<1>. QED
  BY <1>6, <1>7

(* A panel receives the last message of its stream; held back, it would be *)
(* one more of those it is owed.                                           *)
LEMMA Received ==
    ASSUME NEW s \in Subscribers, NEW u, PanelTyped(s, u), NEW e \in Stream,
           e.last \in InternalMessage, ~e.shutdown, NEW ok, ok => u.canEmit,
           u.canEmit => u.buffer = <<>>,
           PacketsFit => BufferOK(e) /\ Held(s, u, Append(u.buffer, e.last), e),
           NEW takers \in SUBSET Replaces, NEW v, v = Receive(s, u, e, takers)
    PROVE  PanelStep(s, u, v, e, ok, takers)
<1>. DEFINE m == e.last
            rs == Earlier(s, u, takers)
            n == Less(m, rs)
            w == Short(s, u, m, n)
<1>1. u \in User /\ Len(u.view) <= MaxLength[s] /\ u.buffer \in Seq(InternalMessage)
  BY UserFields DEF PanelTyped
<1>2. e # None /\ e.last # None /\ m \in InternalMessage
  BY NoneAssumption
<1>3. takers \in SUBSET Subscribers /\ <<>> \in Seq(InternalMessage) /\ <<m>> = Append(<<>>, m)
      /\ <<n>> = Append(<<>>, n)
  BY LengthAssumption, EmptySeq
<1>4. /\ rs \in SUBSET takers
      /\ Cut(s, u, <<m>>, takers) = <<n>>
      /\ Bereft(s, u, <<m>>, <<n>>) = w
  <2>. HIDE DEF m
  <2>. QED
    BY <1>1, <1>2, <1>3, CutOne
<1>5. v = IF u.canEmit THEN Show(s, w, e, <<n>>) ELSE [w EXCEPT !.buffer = Append(@, n)]
  <2>1. <<n>>[1] = n
    OBVIOUS
  <2>. HIDE DEF n, w, rs
  <2>. QED
    BY <1>4, <2>1 DEF Receive
<1>6. n \in InternalMessage /\ w \in User /\ SameBut(u, w, "gap") /\ rs \in SUBSET Replaces
  <2>1. rs \in SUBSET Subscribers /\ rs \in SUBSET Replaces
    BY <1>3, <1>4
  <2>. HIDE DEF rs, m
  <2>2. n \in InternalMessage
    BY <1>2, <2>1, LessMessage
  <2>. HIDE DEF n
  <2>. QED
    BY <1>1, <2>1, <2>2, ShortUser
<1>7. n = Less(m, rs) /\ w = Short(s, u, m, n)
  OBVIOUS
<1>8. PacketsFit => BufferOK(e) /\ Held(s, u, Append(u.buffer, m), e)
  OBVIOUS
<1>. HIDE DEF w, n, rs
<1>9. CASE u.canEmit
  <2>. DEFINE msgs == <<n>>
  <2>1. msgs \in Seq(InternalMessage) /\ msgs # <<>> /\ msgs = Append(<<>>, n)
    BY <1>3, <1>6, AppendLast
  <2>. HIDE DEF msgs
  <2>2. v = Show(s, w, e, msgs) /\ Len(w.view) <= MaxLength[s]
    BY <1>1, <1>5, <1>6, <1>9 DEF msgs, SameBut
  <2>3. Shown(s, w, e, msgs, v)
    BY <1>6, <2>1, <2>2, ShowFields
  <2>4. /\ v \in User /\ v.on = u.on /\ v.canEmit /\ v.buffer = <<>> /\ v.seen = Len(e.log)
        /\ Len(v.view) <= MaxLength[s]
    BY <1>6, <1>9, <2>3 DEF Shown, SameBut
  <2>5. ASSUME PacketsFit
        PROVE  Held(s, v, v.buffer, e) /\ Promised(s, u, v, e.log, takers)
    <3>1. BufferOK(e) /\ Held(s, u, Append(<<>>, m), e)
      BY <1>8, <1>9, <2>5
    <3>2. v = Show(s, w, e, Append(<<>>, n))
      BY <2>1, <2>2
    <3>. HIDE DEF m
    <3>3. Held(s, v, <<>>, e) /\ Promised(s, u, v, e.log, rs)
      BY ONLY <1>1, <1>2, <1>3, <1>6, <1>7, <3>1, <3>2, HeldShow, s \in Subscribers, e \in Stream
    <3>. QED
      BY <1>4, <2>4, <3>3, MoreTakers
  <2>6. Attends(v, e, ok)
    BY <1>2, <1>9, <2>4 DEF Attends
  <2>. QED
    BY <2>4, <2>5, <2>6 DEF PanelTyped, PanelOK, PanelStep
<1>10. CASE ~u.canEmit
  <2>. DEFINE msgs == Append(w.buffer, n)
  <2>1. w.buffer = u.buffer /\ w.buffer \in Seq(InternalMessage)
    BY <1>1, <1>6 DEF SameBut
  <2>2. msgs \in Seq(InternalMessage) /\ msgs # <<>>
    BY <1>6, <2>1, AppendLast
  <2>3. v = [w EXCEPT !.buffer = msgs]
    BY <1>5, <1>10
  <2>. HIDE DEF msgs
  <2>4. v \in User /\ v.buffer = msgs /\ SameBut(w, v, "buffer")
    BY <1>6, <2>2, <2>3, UserBuffer
  <2>5. v.on = u.on /\ v.view = u.view /\ v.canEmit = u.canEmit
    BY <1>6, <2>4 DEF SameBut
  <2>6. ASSUME PacketsFit
        PROVE  Held(s, v, v.buffer, e) /\ Stays(s, u, v, e.log, takers)
    <3>1. Held(s, u, Append(u.buffer, m), e)
      BY <1>8, <2>6
    <3>2. v.buffer = Append(w.buffer, n)
      BY <2>4 DEF msgs
    <3>. HIDE DEF m
    <3>3. Held(s, v, v.buffer, e) /\ Stays(s, u, v, e.log, rs)
      BY <1>1, <1>2, <1>6, <1>7, <2>4, <3>1, <3>2, HeldBack
    <3>. QED
      BY <1>4, <3>3, MoreTakers
  <2>7. Attends(v, e, ok)
    BY <1>2, <1>10, <2>2, <2>4, <2>5 DEF Attends
  <2>. QED
    BY <1>1, <2>4, <2>5, <2>6, <2>7 DEF PanelTyped, PanelOK, PanelStep
<1>. QED
  BY <1>9, <1>10

(* The panels of a stream that is told of a message.                       *)
LEMMA HeardPanel ==
    ASSUME NEW s \in Subscribers, NEW u, PanelTyped(s, u), NEW d \in Stream, NEW ok,
           PanelOK(s, u, d, ok), PacketsFit => BufferOK(d), NEW e, Heard(d, e),
           NEW takers \in SUBSET Replaces, NEW v, v = Receive(s, u, e, takers)
    PROVE  PanelStep(s, u, v, e, ok, takers)
<1>1. /\ e \in Stream /\ e.last \in InternalMessage /\ e.shutdown = d.shutdown
      /\ PacketsFit => BufferOK(e)
  BY HeardStream
<1>2. u \in User
  BY DEF PanelTyped
<1>3. ~d.shutdown /\ (ok => u.canEmit) /\ (u.canEmit => u.buffer = <<>>)
  BY DEF PanelOK, Attends
<1>4. PacketsFit => Held(s, u, Append(u.buffer, e.last), e)
  BY <1>2, HeardHeld DEF PanelOK
<1>5. ~e.shutdown
  BY <1>1, <1>3
<1>. QED
  BY <1>1, <1>3, <1>4, <1>5, Received

(* A panel that joins a stream, which may replay its last message.         *)
Fresh(k, a, b) == [Idle EXCEPT !.on = k, !.ahead = a, !.canEmit = b]
Greeted(s, u, d) == IF d.last = None THEN u ELSE Receive(s, u, d, {})

PanelJoins(s, k, v, d, ok) ==
    /\ PanelTyped(s, v) /\ v.on = k
    /\ PanelOK(s, v, d, ok)
    /\ PacketsFit => Joined(s, Idle, v, d.log)

LEMMA JoinedPanel ==
    ASSUME NEW s \in Subscribers, NEW k \in Streams, NEW a \in SUBSET Subscribers, NEW b \in BOOLEAN,
           NEW d \in Stream, ~d.shutdown, MaxLength[s] <= d.maxLength, PacketsFit => BufferOK(d),
           NEW ok, ok => b, NEW v, v = Greeted(s, Fresh(k, a, b), d)
    PROVE  PanelJoins(s, k, v, d, ok)
<1>. DEFINE u == Fresh(k, a, b)
            w1 == [Idle EXCEPT !.on = k]
            w2 == [w1 EXCEPT !.ahead = a]
<1>1. /\ Idle \in User /\ Idle.buffer = <<>> /\ Idle.fullFrame /\ Idle.view = <<>>
      /\ Idle.seen = NotYet /\ Idle.fields = "none" /\ ~Idle.gap
  BY IdleFields
<1>2. u = [w2 EXCEPT !.canEmit = b] /\ v = Greeted(s, u, d)
  BY DEF Idle, Fresh
<1>. HIDE DEF u, w2
<1>3. w1 \in User /\ w1.on = k /\ SameBut(Idle, w1, "on")
  <2>. HIDE DEF Idle
  <2>. QED
    BY <1>1, UserOn
<1>4. w2 \in User /\ SameBut(w1, w2, "ahead")
  <2>. HIDE DEF w1
  <2>. QED
    BY <1>3, UserAhead DEF w2
<1>. HIDE DEF w1
<1>5. u \in User /\ u.canEmit = b /\ SameBut(w2, u, "canEmit")
  BY <1>2, <1>4, UserCanEmit
<1>6. /\ u.on = k /\ u.buffer = <<>> /\ u.fullFrame /\ u.view = <<>> /\ u.seen = NotYet
      /\ u.fields = "none" /\ ~u.gap
  BY <1>1, <1>3, <1>4, <1>5 DEF SameBut
<1>7. PanelTyped(s, u)
  <2>1. Len(<<>>) = 0 /\ MaxLength[s] \in Nat
    BY EmptySeq, LengthAssumption
  <2>. QED
    BY <1>5, <1>6, <2>1 DEF PanelTyped
<1>8. ASSUME NEW msgs, msgs # <<>> => Recent(u, msgs[Len(msgs)], d)
      PROVE  Held(s, u, msgs, d)
  <2>1. Len(d.log) \in Nat
    BY StreamFields, LenProperties DEF RowSeqs
  <2>2. NotYet <= Len(d.log)
    BY <2>1 DEF NotYet
  <2>. QED
    BY <1>6, <1>8, <2>2 DEF Held
<1>9. d # None
  BY NoneAssumption
<1>10. Lacks(u) = "nothing"
  BY <1>6, Lacking
<1>11. CASE d.last = None
  <2>1. Attends(u, d, ok)
    BY <1>5, <1>6, <1>9, <1>11 DEF Attends
  <2>2. Joined(s, Idle, u, d.log)
    BY <1>6, <1>10, IdleFields DEF Joined
  <2>3. Held(s, u, u.buffer, d)
    BY <1>6, <1>8
  <2>. QED
    BY <1>2, <1>6, <1>7, <1>11, <2>1, <2>2, <2>3 DEF PanelOK, PanelJoins, Greeted
<1>12. CASE d.last # None
  <2>1. d.last \in InternalMessage /\ v = Receive(s, u, d, {})
    BY <1>2, <1>12, StreamFields DEF Greeted
  <2>2. PacketsFit => BufferOK(d) /\ Held(s, u, Append(u.buffer, d.last), d)
    <3>. DEFINE msgs == Append(u.buffer, d.last)
    <3>1. u.buffer \in Seq(InternalMessage)
      BY <1>5, UserFields
    <3>2. msgs[Len(msgs)] = d.last
      BY <2>1, <3>1, AppendLast
    <3>3. PacketsFit => Recent(u, d.last, d)
      BY <1>6, <1>12 DEF Recent, BufferOK
    <3>. HIDE DEF msgs
    <3>4. PacketsFit => Held(s, u, msgs, d)
      BY <1>8, <3>2, <3>3
    <3>. QED
      BY <3>4 DEF msgs
  <2>3. (ok => u.canEmit) /\ (u.canEmit => u.buffer = <<>>)
    BY <1>5, <1>6
  <2>4. PanelStep(s, u, v, d, ok, {})
    BY <1>7, <2>1, <2>2, <2>3, Received
  <2>5. Stays(s, u, v, d.log, {}) => v.view = <<>> /\ v.seen = NotYet /\ Lacks(v) = "nothing"
    BY <1>6, <1>10 DEF Stays, MayLack, Loss
  <2>6. Promised(s, u, v, d.log, {}) => WholeFrame(s, v, d.log) /\ v.seen = Len(d.log)
    BY <1>6, <1>10 DEF Promised, MayLack
  <2>7. v.on = k /\ Idle.on = Nothing
    BY <1>6, <2>4, IdleFields DEF PanelStep
  <2>. QED
    BY <2>4, <2>5, <2>6, <2>7 DEF PanelStep, PanelJoins, Joined
<1>. QED
  BY <1>11, <1>12

(* The same stream with another timer, or longer.                          *)
Kept(d, e) ==
    /\ e \in Stream /\ e.source = d.source /\ e.buffer = d.buffer /\ e.log = d.log
    /\ e.last = d.last /\ e.shutdown = d.shutdown /\ e.packet = d.packet
    /\ e.schema = d.schema /\ d.maxLength <= e.maxLength

LEMMA TimerKept ==
    ASSUME NEW d \in Stream, NEW t \in BOOLEAN
    PROVE  Kept(d, [d EXCEPT !.timer = t])
<1>1. d.maxLength \in Nat
  BY StreamFields
<1>. QED
  BY <1>1 DEF Kept, Stream

LEMMA ResizeKept ==
    ASSUME NEW d \in Stream, NEW n \in Nat,
           NEW e, e = [Resize(d, n) EXCEPT !.timer = FALSE]
    PROVE  Kept(d, e) /\ n <= e.maxLength
<1>. DEFINE m == Larger(d.maxLength, n)
            f == [d EXCEPT !.maxLength = m]
<1>1. d.maxLength \in Nat
  BY StreamFields
<1>2. m \in Nat /\ d.maxLength <= m /\ n <= m
  BY <1>1 DEF Larger
<1>3. e = [f EXCEPT !.timer = FALSE]
  BY DEF Resize
<1>. HIDE DEF m
<1>4. /\ f \in Stream /\ f.source = d.source /\ f.buffer = d.buffer /\ f.log = d.log
      /\ f.last = d.last /\ f.shutdown = d.shutdown /\ f.packet = d.packet
      /\ f.schema = d.schema /\ f.maxLength = m
  BY <1>2 DEF Stream
<1>. HIDE DEF f
<1>5. Kept(f, e)
  BY <1>3, <1>4, TimerKept
<1>6. e.maxLength = m
  BY <1>3, <1>4 DEF Stream
<1>. QED
  BY <1>2, <1>4, <1>5, <1>6 DEF Kept

LEMMA KeptStream ==
    ASSUME NEW d \in Stream, NEW e, Kept(d, e)
    PROVE  /\ BufferOK(d) => BufferOK(e)
           /\ \A s \in Subscribers : \A u, ok : PanelOK(s, u, d, ok) => PanelOK(s, u, e, ok)
<1>1. e \in Stream /\ d.maxLength \in Nat /\ e.maxLength \in Nat /\ d.maxLength <= e.maxLength
  BY StreamFields DEF Kept
<1>2. e # None
  BY <1>1, NoneAssumption
<1>3. BufferOK(d) => BufferOK(e)
  BY <1>1, LengthAssumption DEF BufferOK, Kept
<1>4. ASSUME NEW s \in Subscribers, NEW u, NEW ok, PanelOK(s, u, d, ok)
      PROVE  PanelOK(s, u, e, ok)
  <2>1. Attends(u, e, ok)
    BY <1>2, <1>4 DEF PanelOK, Attends, Kept
  <2>2. ASSUME PacketsFit
        PROVE  Held(s, u, u.buffer, e)
    <3>1. Held(s, u, u.buffer, d)
      BY <1>4, <2>2 DEF PanelOK
    <3>2. MaxLength[s] <= e.maxLength
      BY <1>1, <3>1, LengthAssumption DEF Held
    <3>3. FieldsOf(e) = FieldsOf(d) /\ Missing(u.seen, e) = Missing(u.seen, d)
      BY DEF FieldsOf, Missing, Kept
    <3>4. \A m : Recent(u, m, d) => Recent(u, m, e)
      BY DEF Recent, Kept
    <3>5. Owed(s, u, u.buffer, d) => Owed(s, u, u.buffer, e)
      BY <3>3 DEF Owed, Kept
    <3>. QED
      BY <3>1, <3>2, <3>3, <3>4, <3>5 DEF Held, Kept
  <2>. QED
    BY <2>1, <2>2 DEF PanelOK
<1>. QED
  BY <1>3, <1>4

(* What SetReady makes of a panel.                                         *)
Woken(u, ok) == [u EXCEPT !.canEmit = u.on = Nothing \/ ok]
Roused(s, u, d, ok, takers) ==
    LET w == Woken(u, ok)
        msgs == Cut(s, w, w.buffer, takers)
    IN  IF w.canEmit /\ w.buffer # <<>> THEN Show(s, Bereft(s, w, w.buffer, msgs), d, msgs)
        ELSE IF w.fields = "shared" THEN [w EXCEPT !.view = Spliced(@, takers)]
        ELSE w

(* A panel whose rows are spliced off, because it shares them.             *)
LEMMA SplicedPanel ==
    ASSUME NEW s \in Subscribers, NEW u \in User, Len(u.view) <= MaxLength[s],
           NEW takers \in SUBSET Replaces, s \notin takers, u.fields = "shared",
           NEW v, v = [u EXCEPT !.view = Spliced(@, takers)], NEW d \in Stream
    PROVE  /\ v \in User /\ SameBut(u, v, "view") /\ Len(v.view) <= MaxLength[s]
           /\ Held(s, u, u.buffer, d) =>
                 Held(s, v, v.buffer, d) /\ \A log : Stays(s, u, v, log, takers)
<1>. DEFINE x == Spliced(u.view, takers)
            S == 1..MaxRows
<1>1. u.view \in RowSeqs /\ takers \in SUBSET Subscribers /\ MaxLength[s] \in Nat
  BY UserFields, LengthAssumption
<1>2. /\ x \in RowSeqs /\ EndOf(x, u.view) /\ Len(x) \in Nat /\ Len(u.view) \in Nat
      /\ x # u.view => \E r \in takers : MaxLength[r] < Len(u.view)
  BY <1>1, SplicedRows
<1>3. v = [u EXCEPT !.view = x]
  OBVIOUS
<1>. HIDE DEF x
<1>4. v \in User /\ v.view = x /\ SameBut(u, v, "view")
  BY <1>2, <1>3, UserView
<1>5. Len(x) <= Len(u.view)
  BY <1>2 DEF EndOf
<1>6. Len(v.view) <= MaxLength[s]
  BY <1>1, <1>2, <1>4, <1>5
<1>7. ASSUME Held(s, u, u.buffer, d)
      PROVE  Held(s, v, v.buffer, d)
  <2>1. s \in Replaces
    BY <1>7 DEF Held
  <2>2. u.view = <<>> => v.view = <<>>
    <3>1. u.view = <<>> => Len(u.view) = 0
      BY EmptySeq
    <3>2. u.view = <<>> => Len(x) = 0
      BY <1>2, <1>5, <3>1
    <3>. QED
      BY <1>2, <1>4, <3>2, EmptySeq DEF RowSeqs
  <2>3. \A m : Recent(u, m, d) => Recent(v, m, d)
    BY <1>4 DEF Recent, SameBut
  <2>4. v.buffer = u.buffer
    BY <1>4 DEF SameBut
  <2>. QED
    BY <1>4, <1>7, <2>1, <2>2, <2>3, <2>4 DEF Held, SameBut
<1>8. ASSUME Held(s, u, u.buffer, d), NEW log
      PROVE  Stays(s, u, v, log, takers)
  <2>1. v.on = u.on /\ v.seen = u.seen /\ v.fields = u.fields /\ v.gap = u.gap
    BY <1>4 DEF SameBut
  <2>2. Lacks(v) = Lacks(u) /\ s \in Replaces
    BY <1>8, <2>1 DEF Lacks, Held
  <2>3. CASE x = u.view
    BY <1>4, <2>1, <2>2, <2>3 DEF Stays
  <2>4. CASE x # u.view
    <3>1. Loss(s, takers, Len(u.view))
      BY <1>2, <2>4 DEF Loss
    <3>2. x \in Seq(S) /\ u.view \in Seq(S)
      BY <1>1, <1>2 DEF RowSeqs
    <3>. HIDE DEF S
    <3>3. Promise!IsWindow(x, Len(u.view), u.view)
      BY <1>2, <1>5, <3>2, EndIsWindow
    <3>. QED
      BY <1>4, <2>1, <2>2, <3>1, <3>3 DEF Stays
  <2>. QED
    BY <2>3, <2>4
<1>. QED
  BY <1>4, <1>6, <1>7, <1>8

(* A sequence that is not empty has a last element.                        *)
LEMMA LastAppended ==
    ASSUME NEW S, NEW q \in Seq(S), q # <<>>
    PROVE  \E front \in Seq(S) : \E m \in S : q = Append(front, m)
<1>. DEFINE k == Len(q) - 1
            front == SubSeq(q, 1, k)
            m == q[Len(q)]
            a == Append(front, m)
<1>1. Len(q) \in Nat \ {0} /\ m \in S /\ k \in 0..Len(q)
  BY EmptySeq, LenProperties, ElementOfSeq
<1>2. /\ front \in Seq(S) /\ Len(front) = k /\ \A i \in 1..k : front[i] = q[i]
  <2>1. k \in Int /\ 1 \in Int /\ k \in Nat
    BY <1>1
  <2>2. \A i \in 1..k : q[i] \in S
    BY <1>1, ElementOfSeq
  <2>. HIDE DEF k
  <2>3. /\ SubSeq(q, 1, k) \in Seq(S)
        /\ Len(SubSeq(q, 1, k)) = IF 1 <= k THEN k - 1 + 1 ELSE 0
        /\ \A i \in 1..k - 1 + 1 : SubSeq(q, 1, k)[i] = q[1 + i - 1]
    BY ONLY <2>1, <2>2, SubSeqProperties
  <2>. QED
    BY <2>1, <2>3
<1>. HIDE DEF front, m
<1>3. /\ a \in Seq(S) /\ Len(a) = k + 1 /\ \A i \in 1..k : a[i] = front[i]
      /\ a[k + 1] = m
  BY <1>1, <1>2, AppendProperties
<1>. HIDE DEF a
<1>4. Len(a) = Len(q) /\ \A i \in 1..Len(q) : a[i] = q[i]
  BY <1>1, <1>2, <1>3 DEF m
<1>5. a = q
  BY <1>3, <1>4, SeqEqual
<1>. QED
  BY <1>1, <1>2, <1>5 DEF a

(* liveTimer.ok becomes ok: the panel emits what it held back, or begins   *)
(* to hold back.                                                           *)
LEMMA ReadyPanel ==
    ASSUME NEW s \in Subscribers, NEW u, PanelTyped(s, u), NEW d \in Stream, NEW before,
           PanelOK(s, u, d, before), PacketsFit => BufferOK(d), NEW ok \in BOOLEAN,
           u.on # Nothing, NEW takers \in SUBSET Replaces,
           s \in takers => ok /\ u.buffer # <<>>, NEW v, v = Roused(s, u, d, ok, takers)
    PROVE  PanelStep(s, u, v, d, ok, takers)
<1>. DEFINE w == Woken(u, ok)
<1>1. u \in User /\ Len(u.view) <= MaxLength[s] /\ u.buffer \in Seq(InternalMessage)
  BY UserFields DEF PanelTyped
<1>2. w \in User /\ w.canEmit = ok /\ SameBut(u, w, "canEmit")
  <2>1. w = [u EXCEPT !.canEmit = ok]
    BY DEF Woken
  <2>. HIDE DEF w
  <2>. QED
    BY <1>1, <2>1, UserCanEmit
<1>3. v = IF w.canEmit /\ w.buffer # <<>>
          THEN Show(s, Bereft(s, w, w.buffer, Cut(s, w, w.buffer, takers)), d, Cut(s, w, w.buffer, takers))
          ELSE IF w.fields = "shared" THEN [w EXCEPT !.view = Spliced(@, takers)]
          ELSE w
  BY DEF Roused
<1>. HIDE DEF w
<1>4. /\ w.on = u.on /\ w.buffer = u.buffer /\ w.view = u.view /\ w.seen = u.seen
      /\ SameFrame(u, w)
  BY <1>2 DEF SameBut, SameFrame
<1>5. /\ d # None /\ ~d.shutdown
      /\ u.buffer = <<>> /\ d.last # None => u.seen = Len(d.log)
      /\ u.buffer # <<>> => d.last # None
  BY DEF PanelOK, Attends
<1>6. PacketsFit => Held(s, w, w.buffer, d)
  BY <1>4, SameFrameHeld DEF PanelOK
<1>7. CASE ok /\ u.buffer # <<>>
  <2>1. PICK front \in Seq(InternalMessage) : \E m \in InternalMessage : u.buffer = Append(front, m)
    BY <1>1, <1>7, LastAppended
  <2>2. PICK m \in InternalMessage : u.buffer = Append(front, m)
    BY <2>1
  <2>. DEFINE rs == Earlier(s, w, takers)
              n == Less(m, rs)
              x == Short(s, w, m, n)
              more == Append(front, n)
  <2>3. takers \in SUBSET Subscribers /\ rs \in SUBSET takers
    BY LengthAssumption, EarlierTakers
  <2>4. Cut(s, w, w.buffer, takers) = more /\ Bereft(s, w, w.buffer, more) = x
    <3>. DEFINE b == w.buffer
    <3>1. b = Append(front, m)
      BY <1>4, <2>2
    <3>. HIDE DEF b
    <3>2. /\ Cut(s, w, b, takers) = Append(front, Less(m, Earlier(s, w, takers)))
          /\ Bereft(s, w, b, Cut(s, w, b, takers)) = Short(s, w, m, Less(m, Earlier(s, w, takers)))
      <4>1. front \in Seq(InternalMessage) /\ m \in InternalMessage /\ takers \in SUBSET Subscribers
        BY <2>1, <2>2, <2>3
      <4>. HIDE DEF rs, n, x, more
      <4>. QED
        BY ONLY <1>2, <3>1, <4>1, CutLast, s \in Subscribers
    <3>. QED
      BY <3>2 DEF b
  <2>5. n = Less(m, rs) /\ x = Short(s, w, m, n) /\ rs \in SUBSET Subscribers /\ rs \in SUBSET Replaces
    BY <2>3
  <2>6. v = Show(s, x, d, more)
    BY <1>2, <1>3, <1>4, <1>7, <2>4
  <2>. HIDE DEF rs, n, x
  <2>7. n \in InternalMessage
    BY <2>2, <2>5, LessMessage
  <2>8. x \in User /\ SameBut(w, x, "gap")
    BY <1>2, <2>5, ShortUser
  <2>9. more \in Seq(InternalMessage) /\ more # <<>>
    BY <2>7, AppendLast
  <2>10. more = Append(front, n)
    OBVIOUS
  <2>. HIDE DEF more
  <2>11. Shown(s, x, d, more, v)
    <3>1. Len(x.view) <= MaxLength[s]
      BY <1>1, <1>4, <2>8 DEF SameBut
    <3>. QED
      BY <2>6, <2>8, <2>9, <3>1, ShowFields
  <2>12. /\ v \in User /\ v.on = u.on /\ v.canEmit = ok /\ v.buffer = <<>> /\ v.seen = Len(d.log)
         /\ Len(v.view) <= MaxLength[s]
    BY <1>2, <1>4, <2>8, <2>11 DEF Shown, SameBut
  <2>13. ASSUME PacketsFit
         PROVE  Held(s, v, v.buffer, d) /\ Promised(s, u, v, d.log, takers)
    <3>1. BufferOK(d) /\ Held(s, w, Append(front, m), d)
      BY <1>4, <1>6, <2>2, <2>13
    <3>2. v = Show(s, x, d, Append(front, n)) /\ Len(w.view) <= MaxLength[s]
      BY <1>1, <1>4, <2>6, <2>10
    <3>3. Held(s, v, <<>>, d) /\ Promised(s, w, v, d.log, rs)
      BY ONLY <1>2, <2>1, <2>2, <2>5, <3>1, <3>2, HeldShow, s \in Subscribers, d \in Stream
    <3>4. Promised(s, u, v, d.log, rs)
      BY <1>4, <3>3, SameFrameHeld
    <3>. QED
      BY <2>3, <2>12, <3>3, <3>4, MoreTakers
  <2>14. Attends(v, d, ok)
    BY <1>5, <1>7, <2>12 DEF Attends
  <2>. QED
    BY <2>12, <2>13, <2>14 DEF PanelTyped, PanelOK, PanelStep
<1>8. CASE ~(ok /\ u.buffer # <<>>)
  <2>1. /\ w.fields = "shared" => v = [w EXCEPT !.view = Spliced(@, takers)]
        /\ w.fields # "shared" => v = w
    BY <1>2, <1>3, <1>4, <1>8
  <2>2. s \notin takers
    BY <1>8
  <2>3. /\ v \in User /\ v.on = u.on /\ v.canEmit = ok /\ v.buffer = u.buffer /\ v.seen = u.seen
        /\ Len(v.view) <= MaxLength[s]
        /\ PacketsFit => Held(s, v, v.buffer, d) /\ Stays(s, w, v, d.log, takers)
    <3>1. CASE w.fields = "shared"
      <4>1. /\ v \in User /\ SameBut(w, v, "view") /\ Len(v.view) <= MaxLength[s]
            /\ Held(s, w, w.buffer, d) =>
                  Held(s, v, v.buffer, d) /\ \A log : Stays(s, w, v, log, takers)
        BY <1>1, <1>2, <1>4, <2>1, <2>2, <3>1, SplicedPanel
      <4>. QED
        BY <1>2, <1>4, <1>6, <4>1 DEF SameBut
    <3>2. CASE w.fields # "shared"
      BY <1>1, <1>2, <1>4, <1>6, <2>1, <3>2 DEF Stays
    <3>. QED
      BY <3>1, <3>2
  <2>4. PacketsFit => Stays(s, u, v, d.log, takers)
    <3>1. Lacks(w) = Lacks(u)
      BY <1>4, SameFrameHeld
    <3>2. MayLack(s, w, d.log, takers) => MayLack(s, u, d.log, takers)
      BY <1>4, <3>1 DEF MayLack
    <3>. QED
      BY <1>4, <2>3, <3>1, <3>2 DEF Stays
  <2>5. Attends(v, d, ok)
    BY <1>5, <1>8, <2>3 DEF Attends
  <2>. QED
    BY <2>3, <2>4, <2>5 DEF PanelTyped, PanelOK, PanelStep
<1>. QED
  BY <1>7, <1>8
-----------------------------------------------------------------------------
(* The inductive invariant                                                 *)

CountersOK ==
    /\ rows \in 0..MaxRows
    /\ messages \in 0..MaxMessages
    /\ {connected, blocked, ready} \subseteq BOOLEAN

ChanOK(ch) == ch \in Channel /\ (ch.last # None => Fits(ch.last))

ChannelsOK ==
    /\ chan \in [Channels -> Channel \cup {None}]
    /\ \A c \in Channels : chan[c] # None => ChanOK(chan[c])
    /\ open \in Channels \cup {Nothing}
    /\ open # Nothing => chan[open] # None
    /\ \A d \in Streams : live[d] # None /\ live[d].source # Nothing => chan[live[d].source] # None

StreamsOK ==
    /\ live \in [Streams -> Stream \cup {None}]
    /\ \A d \in Streams : live[d] # None /\ PacketsFit => BufferOK(live[d])
    /\ current \in Streams \cup {Nothing}
    /\ current # Nothing => live[current] # None /\ ~live[current].shutdown /\ live[current].source # Nothing
    /\ \E k \in 0..MaxStreams : \A d \in Streams : live[d] # None <=> d <= k

PanelsOK ==
    /\ user \in [Subscribers -> User]
    /\ \A s \in Subscribers :
          /\ PanelTyped(s, user[s])
          /\ IF user[s].on = Nothing THEN user[s] = Idle
             ELSE PanelOK(s, user[s], live[user[s].on], ready)

IInv == CountersOK /\ ChannelsOK /\ StreamsOK /\ PanelsOK

(* The steps of LiveFrames.                                                *)
LogAt(streams, d) == IF streams[d] = None THEN <<>> ELSE streams[d].log

StreamMoves(d) ==
    \/ \E x \in RowSeqs : LogAt(live', d) = LogAt(live, d) \o x
    \/ LogAt(live', d) = <<>> /\ \A s \in Subscribers : user'[s].on # d

(* Those who may splice rows off the messages that s is sent.              *)
Cutters(s) == {r \in Replaces : user[r].on = user[s].on /\ user'[r].on = user[s].on}

PanelMoves(s) ==
    \/ Stays(s, user[s], user'[s], LogAt(live', user[s].on), Cutters(s))
    \/ Left(user'[s])
    \/ Joined(s, user[s], user'[s], LogAt(live', user'[s].on))
    \/ /\ user[s].on # Nothing /\ user'[s].on = user[s].on
       /\ Promised(s, user[s], user'[s], LogAt(live', user[s].on), Cutters(s))

Moves == PacketsFit => /\ \A d \in Streams : StreamMoves(d)
                       /\ \A s \in Subscribers : PanelMoves(s)

(* What concerns streams and panels, and what concerns channels.           *)
LiveStep == StreamsOK' /\ PanelsOK' /\ Moves

SameSources ==
    \A d \in Streams : live'[d] # None /\ live'[d].source # Nothing =>
                          live[d] # None /\ live'[d].source = live[d].source

LEMMA StreamIs ==
    ASSUME StreamsOK, NEW d \in Streams, live[d] # None
    PROVE  live[d] \in Stream /\ (PacketsFit => BufferOK(live[d]))
BY DEF StreamsOK

LEMMA PanelIs ==
    ASSUME PanelsOK, NEW s \in Subscribers
    PROVE  /\ PanelTyped(s, user[s]) /\ user[s].on \in Streams \cup {Nothing}
           /\ user[s].on = Nothing => user[s] = Idle
           /\ user[s].on # Nothing =>
                 PanelOK(s, user[s], live[user[s].on], ready) /\ live[user[s].on] # None
BY UserFields DEF PanelsOK, PanelOK, Attends

LEMMA NothingIsNoStream == Nothing \notin Streams /\ Nothing \notin Channels
BY DEF Nothing, Streams, Channels

(* A panel that is left alone, and one that takes a step on its stream.    *)
LEMMA IdleLeft == Left(Idle)
BY IdleFields, Lacking DEF Left

LEMMA SamePanel ==
    ASSUME NEW s, user'[s] = user[s]
    PROVE  PanelMoves(s)
BY DEF PanelMoves, Stays

LEMMA PanelStepped ==
    ASSUME PacketsFit, NEW s \in Subscribers, user[s].on # Nothing, NEW d, NEW ok,
           LogAt(live', user[s].on) = d.log, NEW takers \in SUBSET Replaces,
           \A r \in takers : user[r].on = user[s].on /\ user'[r].on = user[s].on,
           PanelStep(s, user[s], user'[s], d, ok, takers)
    PROVE  PanelMoves(s)
<1>. DEFINE u == user[s]
            v == user'[s]
            log == d.log
            rs == Cutters(s)
<1>1. takers \in SUBSET rs
  BY DEF Cutters
<1>2. v.on = u.on /\ (Stays(s, u, v, log, takers) \/ Promised(s, u, v, log, takers))
  BY DEF PanelStep
<1>. HIDE DEF u, v, log, rs
<1>3. Stays(s, u, v, log, rs) \/ Promised(s, u, v, log, rs)
  BY <1>1, <1>2, MoreTakers
<1>. QED
  BY <1>2, <1>3 DEF PanelMoves, u, v, log, rs

(* A stream that is as long as it was, or longer.                          *)
LEMMA SameLog ==
    ASSUME NEW d \in Streams, StreamsOK, LogAt(live', d) = LogAt(live, d)
    PROVE  StreamMoves(d)
<1>1. LogAt(live, d) \in RowSeqs
  <2>1. CASE live[d] = None
    BY <2>1, EmptySeq DEF LogAt, RowSeqs
  <2>2. CASE live[d] # None
    BY <2>2, StreamIs, StreamFields DEF LogAt
  <2>. QED
    BY <2>1, <2>2
<1>2. <<>> \in RowSeqs /\ LogAt(live, d) \o <<>> = LogAt(live, d)
  BY <1>1, EmptySeq, ConcatEmptySeq DEF RowSeqs
<1>. QED
  BY <1>2 DEF StreamMoves

(* A step that changes neither streams nor panels.                         *)
LEMMA LiveUnchanged ==
    ASSUME StreamsOK, PanelsOK, UNCHANGED <<live, user, current, ready>>
    PROVE  LiveStep /\ SameSources
<1>1. StreamsOK' /\ PanelsOK'
  BY DEF StreamsOK, PanelsOK
<1>2. \A d \in Streams : StreamMoves(d)
  BY SameLog
<1>3. \A s \in Subscribers : PanelMoves(s)
  BY SamePanel
<1>. QED
  BY <1>1, <1>2, <1>3 DEF LiveStep, Moves, SameSources

(* A step in which the streams ds tell their panels something.             *)
LEMMA LiveTold ==
    ASSUME StreamsOK, PanelsOK, NEW ds \in SUBSET Streams, NEW next,
           \A d \in ds : live[d] # None /\ Heard(live[d], next[d]),
           Tell(ds, next), UNCHANGED <<current, ready>>
    PROVE  LiveStep /\ SameSources
<1>1. /\ live' = [d \in Streams |-> IF d \in ds THEN next[d] ELSE live[d]]
      /\ user' = [s \in Subscribers |-> IF user[s].on \in ds
                                        THEN Receive(s, user[s], next[user[s].on],
                                                     Takers(user[s].on, next[user[s].on]))
                                        ELSE user[s]]
  BY DEF Tell
<1>2. ASSUME NEW d \in ds
      PROVE  /\ live[d] \in Stream /\ live'[d] = next[d]
             /\ next[d] \in Stream /\ next[d].source = live[d].source
             /\ next[d].shutdown = live[d].shutdown
             /\ \E x \in RowSeqs : next[d].log = live[d].log \o x
             /\ PacketsFit => BufferOK(next[d])
             /\ next[d] # None
  <2>1. d \in Streams /\ live[d] # None /\ Heard(live[d], next[d])
    OBVIOUS
  <2>2. live[d] \in Stream /\ (PacketsFit => BufferOK(live[d]))
    BY <2>1, StreamIs
  <2>. DEFINE e == next[d]
              f == live[d]
  <2>3. live'[d] = e
    BY <1>1, <2>1
  <2>4. f \in Stream /\ Heard(f, e) /\ (PacketsFit => BufferOK(f))
    BY <2>1, <2>2
  <2>. HIDE DEF e, f
  <2>5. /\ e \in Stream /\ e.source = f.source
        /\ e.shutdown = f.shutdown
        /\ \E x \in RowSeqs : e.log = f.log \o x
        /\ PacketsFit => BufferOK(e)
    BY ONLY <2>4, HeardStream
  <2>6. e # None
    BY <2>5, NoneAssumption
  <2>. QED
    BY <2>2, <2>3, <2>5, <2>6 DEF e, f
<1>3. \A d \in Streams \ ds : live'[d] = live[d]
  BY <1>1
<1>4. \A d \in Streams : live'[d] # None <=> live[d] # None
  BY <1>2, <1>3
<1>5. StreamsOK'
  <2>1. live' \in [Streams -> Stream \cup {None}]
    BY <1>1, <1>2 DEF StreamsOK
  <2>2. \A d \in Streams : live'[d] # None /\ PacketsFit => BufferOK(live'[d])
    BY <1>2, <1>3 DEF StreamsOK
  <2>3. /\ current' \in Streams \cup {Nothing}
        /\ current' # Nothing => live'[current'] # None /\ ~live'[current'].shutdown
                                 /\ live'[current'].source # Nothing
    <3>1. current' = current
      OBVIOUS
    <3>2. \A d \in Streams : live[d] # None => /\ live'[d].shutdown = live[d].shutdown
                                               /\ live'[d].source = live[d].source
      BY <1>2, <1>3
    <3>. QED
      BY <1>4, <3>1, <3>2 DEF StreamsOK
  <2>4. \E k \in 0..MaxStreams : \A d \in Streams : live'[d] # None <=> d <= k
    BY <1>4 DEF StreamsOK
  <2>. QED
    BY <2>1, <2>2, <2>3, <2>4 DEF StreamsOK
<1>6. ASSUME NEW s \in Subscribers, user[s].on \in ds
      PROVE  /\ Takers(user[s].on, next[user[s].on]) \in SUBSET Replaces
             /\ PanelStep(s, user[s], user'[s], live'[user[s].on], ready,
                          Takers(user[s].on, next[user[s].on]))
  <2>. DEFINE d == user[s].on
              u == user[s]
              e == next[d]
              f == live[d]
              v == user'[s]
              takers == Takers(d, e)
  <2>1. v = Receive(s, u, e, takers)
    BY <1>1, <1>6
  <2>2. d # Nothing
    BY <1>6, NothingIsNoStream
  <2>3. PanelTyped(s, u) /\ PanelOK(s, u, f, ready)
    BY <2>2, PanelIs
  <2>4. f \in Stream /\ Heard(f, e) /\ (PacketsFit => BufferOK(f)) /\ live'[d] = e
    BY <1>2, <1>6 DEF StreamsOK
  <2>5. takers \in SUBSET Replaces
    BY DEF Takers, Takes
  <2>. HIDE DEF u, e, f, v, d, takers
  <2>6. PanelStep(s, u, v, e, ready, takers)
    BY <2>1, <2>3, <2>4, <2>5, HeardPanel
  <2>7. PanelStep(s, u, v, live'[d], ready, takers)
    BY <2>4, <2>6
  <2>. QED
    BY <2>5, <2>7 DEF u, v, d, e, takers
<1>7. \A s \in Subscribers : user[s].on \notin ds => user'[s] = user[s]
  BY <1>1
<1>8. PanelsOK'
  <2>1. ASSUME NEW s \in Subscribers
        PROVE  /\ PanelTyped(s, user'[s])
               /\ IF user'[s].on = Nothing THEN user'[s] = Idle
                  ELSE PanelOK(s, user'[s], live'[user'[s].on], ready')
    <3>1. CASE user[s].on \in ds
      <4>1. /\ PanelTyped(s, user'[s]) /\ user'[s].on = user[s].on
            /\ PanelOK(s, user'[s], live'[user[s].on], ready)
        BY <1>6, <3>1 DEF PanelStep
      <4>2. user'[s].on # Nothing
        BY <3>1, <4>1, NothingIsNoStream
      <4>. QED
        BY <4>1, <4>2
    <3>2. CASE user[s].on \notin ds
      <4>1. user'[s] = user[s]
        BY <1>7, <3>2
      <4>2. user[s].on # Nothing => live'[user[s].on] = live[user[s].on]
        BY <1>3, <3>2, PanelIs
      <4>. QED
        BY <4>1, <4>2, PanelIs
    <3>. QED
      BY <3>1, <3>2
  <2>2. user' \in [Subscribers -> User]
    BY <1>1, <2>1 DEF PanelTyped
  <2>. QED
    BY <2>1, <2>2 DEF PanelsOK
<1>9. Moves
  <2>1. ASSUME NEW d \in Streams PROVE StreamMoves(d)
    <3>1. CASE d \in ds
      <4>1. LogAt(live', d) = next[d].log /\ LogAt(live, d) = live[d].log
        BY <1>2, <3>1 DEF LogAt
      <4>. QED
        BY <1>2, <3>1, <4>1 DEF StreamMoves
    <3>2. CASE d \notin ds
      BY <1>3, <3>2, SameLog DEF LogAt
    <3>. QED
      BY <3>1, <3>2
  <2>2. ASSUME PacketsFit, NEW s \in Subscribers PROVE PanelMoves(s)
    <3>1. CASE user[s].on \in ds
      <4>. DEFINE d == user[s].on
                  takers == Takers(d, next[d])
      <4>1. LogAt(live', d) = live'[d].log
        BY <1>2, <3>1 DEF LogAt
      <4>2. d # Nothing
        BY <3>1, NothingIsNoStream
      <4>3. takers \in SUBSET Replaces /\ PanelStep(s, user[s], user'[s], live'[d], ready, takers)
        BY <1>6, <3>1
      <4>4. \A r \in takers : user[r].on = d /\ user'[r].on = d
        <5>1. ASSUME NEW r \in takers PROVE user[r].on = d /\ user'[r].on = d
          <6>1. r \in Subscribers /\ user[r].on = d
            BY <5>1 DEF Takers
          <6>2. user'[r].on = user[r].on
            BY <1>6, <3>1, <6>1 DEF PanelStep
          <6>. QED
            BY <6>1, <6>2
        <5>. QED
          BY <5>1
      <4>. HIDE DEF takers
      <4>. QED
        BY <2>2, <4>1, <4>2, <4>3, <4>4, PanelStepped
    <3>2. CASE user[s].on \notin ds
      BY <1>7, <3>2, SamePanel
    <3>. QED
      BY <3>1, <3>2
  <2>. QED
    BY <2>1, <2>2 DEF Moves
<1>10. SameSources
  BY <1>2, <1>3, <1>4 DEF SameSources
<1>. QED
  BY <1>5, <1>8, <1>9, <1>10 DEF LiveStep

(* A step in which the streams ds end, and the panels on them go.          *)
LEMMA LiveEnded ==
    ASSUME StreamsOK, PanelsOK, NEW ds \in SUBSET Streams, NEW timers,
           \A d \in ds : live[d] # None /\ timers[d] \in BOOLEAN,
           live' = [d \in Streams |-> IF d \in ds THEN Over(timers[d]) ELSE live[d]],
           user' = [s \in Subscribers |-> IF user[s].on \in ds THEN Idle ELSE user[s]],
           current' = IF ds = {} THEN current ELSE Nothing, ready' = ready
    PROVE  LiveStep /\ SameSources
<1>1. ASSUME NEW d \in ds
      PROVE  /\ live'[d] \in Stream /\ live'[d] # None /\ live'[d].source = Nothing
             /\ LogAt(live', d) = <<>> /\ BufferOK(live'[d])
  <2>. DEFINE e == Over(timers[d])
  <2>1. live'[d] = e /\ timers[d] \in BOOLEAN
    OBVIOUS
  <2>2. /\ e \in Stream /\ e.source = Nothing /\ e.log = <<>> /\ e.buffer = <<>> /\ e.last = None
        /\ e.maxLength = DefaultLength
    BY <2>1, OverFields
  <2>. HIDE DEF e
  <2>3. e # None
    BY <2>2, NoneAssumption
  <2>4. BufferOK(e)
    BY <2>2, LengthAssumption, EmptySeq DEF BufferOK, EndOf
  <2>. QED
    BY <2>1, <2>2, <2>3, <2>4 DEF LogAt
<1>2. \A d \in Streams \ ds : live'[d] = live[d]
  OBVIOUS
<1>3. \A d \in Streams : live'[d] # None <=> live[d] # None
  BY <1>1, <1>2
<1>4. StreamsOK'
  <2>1. live' \in [Streams -> Stream \cup {None}]
    BY <1>1, <1>2 DEF StreamsOK
  <2>2. \A d \in Streams : live'[d] # None /\ PacketsFit => BufferOK(live'[d])
    BY <1>1, <1>2 DEF StreamsOK
  <2>3. /\ current' \in Streams \cup {Nothing}
        /\ current' # Nothing => live'[current'] # None /\ ~live'[current'].shutdown
                                 /\ live'[current'].source # Nothing
    <3>1. CASE ds = {}
      <4>1. current' = current /\ \A d \in Streams : live'[d] = live[d]
        BY <1>2, <3>1
      <4>. QED
        BY <4>1 DEF StreamsOK
    <3>2. CASE ds # {}
      BY <3>2
    <3>. QED
      BY <3>1, <3>2
  <2>4. \E k \in 0..MaxStreams : \A d \in Streams : live'[d] # None <=> d <= k
    BY <1>3 DEF StreamsOK
  <2>. QED
    BY <2>1, <2>2, <2>3, <2>4 DEF StreamsOK
<1>5. \A s \in Subscribers : IF user[s].on \in ds THEN user'[s] = Idle ELSE user'[s] = user[s]
  OBVIOUS
<1>6. ASSUME NEW s \in Subscribers
      PROVE  /\ PanelTyped(s, user'[s])
             /\ IF user'[s].on = Nothing THEN user'[s] = Idle
                ELSE PanelOK(s, user'[s], live'[user'[s].on], ready') /\ user'[s].on \notin ds
  <2>1. PanelTyped(s, Idle) /\ Idle.on = Nothing
    BY IdleFields, EmptySeq, LengthAssumption DEF PanelTyped
  <2>2. CASE user[s].on \in ds
    BY <1>5, <2>1, <2>2
  <2>3. CASE user[s].on \notin ds
    <3>1. user'[s] = user[s]
      BY <1>5, <2>3
    <3>2. user[s].on # Nothing => live'[user[s].on] = live[user[s].on]
      BY <1>2, <2>3, PanelIs
    <3>. QED
      BY <2>3, <3>1, <3>2, PanelIs
  <2>. QED
    BY <2>2, <2>3
<1>7. PanelsOK'
  <2>1. user' \in [Subscribers -> User]
    BY <1>6 DEF PanelTyped
  <2>. QED
    BY <1>6, <2>1 DEF PanelsOK
<1>8. Moves
  <2>1. ASSUME NEW d \in Streams PROVE StreamMoves(d)
    <3>1. CASE d \in ds
      <4>1. \A s \in Subscribers : user'[s].on # d
        BY <1>6, <3>1, NothingIsNoStream
      <4>. QED
        BY <1>1, <3>1, <4>1 DEF StreamMoves
    <3>2. CASE d \notin ds
      BY <1>2, <3>2, SameLog DEF LogAt
    <3>. QED
      BY <3>1, <3>2
  <2>2. ASSUME NEW s \in Subscribers PROVE PanelMoves(s)
    <3>1. CASE user[s].on \in ds
      BY <1>5, <3>1, IdleLeft DEF PanelMoves
    <3>2. CASE user[s].on \notin ds
      BY <1>5, <3>2, SamePanel
    <3>. QED
      BY <3>1, <3>2
  <2>. QED
    BY <2>1, <2>2 DEF Moves
<1>9. SameSources
  BY <1>1, <1>2, <1>3 DEF SameSources
<1>. QED
  BY <1>4, <1>7, <1>8, <1>9 DEF LiveStep

(* A panel before which fewer get the messages than before.                *)
FewerAhead(s, u, v) == PanelTyped(s, u) /\ \E a \in SUBSET Subscribers : v = [u EXCEPT !.ahead = a]

LEMMA AheadFrame ==
    ASSUME NEW s, NEW u, NEW v, FewerAhead(s, u, v)
    PROVE  /\ PanelTyped(s, v) /\ v.on = u.on /\ v.view = u.view /\ v.seen = u.seen
           /\ v.buffer = u.buffer /\ v.canEmit = u.canEmit
           /\ SameFrame(u, v) /\ Lacks(v) = Lacks(u)
<1>1. u \in User /\ Len(u.view) <= MaxLength[s] /\ PanelTyped(s, u)
  BY DEF FewerAhead, PanelTyped
<1>2. v \in User /\ SameBut(u, v, "ahead")
  <2>1. PICK a \in SUBSET Subscribers : v = [u EXCEPT !.ahead = a]
    BY DEF FewerAhead
  <2>. QED
    BY <1>1, <2>1, UserAhead
<1>3. SameFrame(u, v) /\ v.on = u.on /\ v.view = u.view /\ v.seen = u.seen
      /\ v.buffer = u.buffer /\ v.canEmit = u.canEmit
  BY <1>2 DEF SameBut, SameFrame
<1>. QED
  BY <1>1, <1>2, <1>3, SameFrameHeld DEF PanelTyped

LEMMA AheadPanel ==
    ASSUME NEW s, NEW u, NEW v, FewerAhead(s, u, v), NEW d, NEW ok, PanelOK(s, u, d, ok)
    PROVE  PanelOK(s, v, d, ok)
<1>1. v.buffer = u.buffer /\ v.canEmit = u.canEmit /\ v.seen = u.seen /\ SameFrame(u, v)
  BY AheadFrame
<1>2. Attends(v, d, ok)
  BY <1>1 DEF PanelOK, Attends
<1>3. PacketsFit => Held(s, v, v.buffer, d)
  BY <1>1, SameFrameHeld DEF PanelOK
<1>. QED
  BY <1>2, <1>3 DEF PanelOK

(* A step in which a timer of stream d is started or stopped, and some     *)
(* panels leave.                                                           *)
LEMMA LiveKept ==
    ASSUME StreamsOK, PanelsOK, NEW d \in Streams, live[d] # None, NEW e, Kept(live[d], e),
           live' = [live EXCEPT ![d] = e],
           user' = [s \in Subscribers |-> user'[s]],
           \A s \in Subscribers :
              \/ user'[s] = user[s] \/ user'[s] = Idle
              \/ user[s].on # Nothing /\ \E a \in SUBSET Subscribers : user'[s] = [user[s] EXCEPT !.ahead = a],
           UNCHANGED <<current, ready>>
    PROVE  LiveStep /\ SameSources
<1>1. live[d] \in Stream /\ (PacketsFit => BufferOK(live[d]))
  BY StreamIs
<1>2. /\ live'[d] = e /\ \A x \in Streams \ {d} : live'[x] = live[x]
      /\ live' \in [Streams -> Stream \cup {None}]
  BY DEF StreamsOK, Kept
<1>3. /\ e \in Stream /\ e # None /\ e.source = live[d].source /\ e.log = live[d].log
      /\ e.shutdown = live[d].shutdown
  BY NoneAssumption DEF Kept
<1>4. /\ PacketsFit => BufferOK(e)
      /\ \A s \in Subscribers : \A u, ok : PanelOK(s, u, live[d], ok) => PanelOK(s, u, e, ok)
  <2>. DEFINE f == live[d]
  <2>1. f \in Stream /\ Kept(f, e)
    BY <1>1
  <2>. HIDE DEF f
  <2>2. /\ BufferOK(f) => BufferOK(e)
        /\ \A s \in Subscribers : \A u, ok : PanelOK(s, u, f, ok) => PanelOK(s, u, e, ok)
    BY <2>1, KeptStream
  <2>. QED
    BY <1>1, <2>2 DEF f
<1>5. \A x \in Streams : live'[x] # None <=> live[x] # None
  BY <1>2, <1>3
<1>6. StreamsOK'
  <2>1. \A x \in Streams : live'[x] # None /\ PacketsFit => BufferOK(live'[x])
    BY <1>2, <1>4 DEF StreamsOK
  <2>2. /\ current' \in Streams \cup {Nothing}
        /\ current' # Nothing => live'[current'] # None /\ ~live'[current'].shutdown
                                 /\ live'[current'].source # Nothing
    <3>1. \A x \in Streams : live[x] # None => /\ live'[x].shutdown = live[x].shutdown
                                               /\ live'[x].source = live[x].source
      BY <1>2, <1>3
    <3>. QED
      BY <1>5, <3>1 DEF StreamsOK
  <2>3. \E k \in 0..MaxStreams : \A x \in Streams : live'[x] # None <=> x <= k
    BY <1>5 DEF StreamsOK
  <2>. QED
    BY <1>2, <2>1, <2>2, <2>3 DEF StreamsOK
<1>7. ASSUME NEW s \in Subscribers
      PROVE  /\ PanelTyped(s, user'[s])
             /\ IF user'[s].on = Nothing THEN user'[s] = Idle
                ELSE PanelOK(s, user'[s], live'[user'[s].on], ready')
  <2>1. PanelTyped(s, Idle) /\ Idle.on = Nothing
    BY IdleFields, EmptySeq, LengthAssumption DEF PanelTyped
  <2>2. CASE user'[s] = Idle
    BY <2>1, <2>2
  <2>3. user[s].on # Nothing => PanelOK(s, user[s], live'[user[s].on], ready)
    <3>1. CASE user[s].on = d
      BY <1>2, <1>4, <3>1, PanelIs
    <3>2. CASE user[s].on # d
      <4>1. user[s].on # Nothing => live'[user[s].on] = live[user[s].on]
        BY <1>2, <3>2, PanelIs
      <4>. QED
        BY <4>1, PanelIs
    <3>. QED
      BY <3>1, <3>2
  <2>4. CASE user'[s] = user[s]
    BY <2>3, <2>4, PanelIs
  <2>5. CASE user[s].on # Nothing /\ \E a \in SUBSET Subscribers : user'[s] = [user[s] EXCEPT !.ahead = a]
    <3>1. PICK a \in SUBSET Subscribers : user'[s] = [user[s] EXCEPT !.ahead = a]
      BY <2>5
    <3>2. PanelTyped(s, user[s])
      BY PanelIs
    <3>. DEFINE u == user[s]
                v == user'[s]
    <3>3. FewerAhead(s, u, v)
      BY <3>1, <3>2 DEF FewerAhead
    <3>. HIDE DEF u, v
    <3>4. PanelTyped(s, v) /\ v.on = u.on
      BY <3>3, AheadFrame
    <3>5. \A x, ok : PanelOK(s, u, x, ok) => PanelOK(s, v, x, ok)
      BY <3>3, AheadPanel
    <3>. QED
      BY <2>3, <2>5, <3>4, <3>5 DEF u, v
  <2>. QED
    BY <2>2, <2>4, <2>5
<1>8. PanelsOK'
  <2>1. user' \in [Subscribers -> User]
    BY <1>7 DEF PanelTyped
  <2>. QED
    BY <1>7, <2>1 DEF PanelsOK
<1>9. Moves
  <2>1. ASSUME NEW x \in Streams PROVE StreamMoves(x)
    <3>1. LogAt(live', x) = LogAt(live, x)
      BY <1>2, <1>3 DEF LogAt
    <3>. QED
      BY <3>1, SameLog
  <2>2. ASSUME NEW s \in Subscribers PROVE PanelMoves(s)
    <3>1. CASE user'[s] = user[s]
      BY <3>1, SamePanel
    <3>2. CASE user'[s] = Idle
      BY <3>2, IdleLeft DEF PanelMoves
    <3>3. CASE \E a \in SUBSET Subscribers : user'[s] = [user[s] EXCEPT !.ahead = a]
      <4>1. PICK a \in SUBSET Subscribers : user'[s] = [user[s] EXCEPT !.ahead = a]
        BY <3>3
      <4>2. PanelTyped(s, user[s])
        BY PanelIs
      <4>. DEFINE u == user[s]
                  v == user'[s]
      <4>3. FewerAhead(s, u, v)
        BY <4>1, <4>2 DEF FewerAhead
      <4>. HIDE DEF u, v
      <4>4. v.on = u.on /\ v.view = u.view /\ v.seen = u.seen /\ Lacks(v) = Lacks(u)
        BY <4>3, AheadFrame
      <4>5. \A log, rs : Stays(s, u, v, log, rs)
        BY <4>4 DEF Stays
      <4>. QED
        BY <4>5 DEF PanelMoves, u, v
    <3>. QED
      BY <3>1, <3>2, <3>3
  <2>. QED
    BY <2>1, <2>2 DEF Moves
<1>10. SameSources
  BY <1>2, <1>3, <1>5 DEF SameSources
<1>. QED
  BY <1>6, <1>8, <1>9, <1>10 DEF LiveStep

(* A step of liveTimer.                                                    *)
LEMMA LiveReady ==
    ASSUME CountersOK, StreamsOK, PanelsOK, SetReady
    PROVE  LiveStep /\ SameSources
<1>. DEFINE takers(s) == Wakers(user[s].on, ready')
<1>1. /\ ready' = ~ready /\ ready' \in BOOLEAN /\ live' = live /\ current' = current
      /\ user' = [s \in Subscribers |-> Wake(s, ready', takers(s))]
  BY DEF SetReady, CountersOK
<1>2. ASSUME NEW s \in Subscribers, user[s].on = Nothing
      PROVE  user'[s] = Idle
  <2>1. user[s] = Idle
    BY <1>2, PanelIs
  <2>2. /\ Idle \in User /\ Idle.canEmit = TRUE /\ Idle.buffer = <<>> /\ Idle.on = Nothing
        /\ Idle.fields = "none"
    BY IdleFields, UserFields
  <2>3. [Idle EXCEPT !.canEmit = TRUE] = Idle
    BY <2>2 DEF User
  <2>4. [user[s] EXCEPT !.canEmit = user[s].on = Nothing \/ ready'] = Idle
    BY <2>1, <2>2, <2>3
  <2>5. Wake(s, ready', takers(s)) = Idle
    BY <2>2, <2>4 DEF Wake
  <2>. QED
    BY <1>1, <2>5
<1>3. ASSUME NEW s \in Subscribers, user[s].on # Nothing
      PROVE  /\ takers(s) \in SUBSET Replaces
             /\ PanelStep(s, user[s], user'[s], live[user[s].on], ready', takers(s))
  <2>. DEFINE u == user[s]
              ok == ready'
              d == live[u.on]
              v == user'[s]
              rs == takers(s)
  <2>1. PanelTyped(s, u) /\ PanelOK(s, u, d, ready) /\ d # None /\ u.on \in Streams
    BY <1>3, PanelIs
  <2>2. d \in Stream /\ (PacketsFit => BufferOK(d))
    BY <2>1, StreamIs
  <2>3. ok \in BOOLEAN
    BY <1>1
  <2>4. Woken(u, ok).on = u.on
    BY <2>1 DEF PanelTyped, User, Woken
  <2>5. v = Roused(s, u, d, ok, rs)
    <3>1. v = Wake(s, ok, rs)
      BY <1>1
    <3>2. Wake(s, ok, rs) = Roused(s, u, live[Woken(u, ok).on], ok, rs)
      BY DEF Wake, Roused, Woken
    <3>. QED
      BY <2>4, <3>1, <3>2
  <2>6. rs \in SUBSET Replaces /\ (s \in rs => ok /\ u.buffer # <<>>)
    BY DEF Wakers, Takes
  <2>7. u.on # Nothing
    BY <1>3
  <2>. HIDE DEF u, ok, d, v, rs
  <2>8. PanelStep(s, u, v, d, ok, rs)
    BY <2>1, <2>2, <2>3, <2>5, <2>6, <2>7, ReadyPanel
  <2>. QED
    BY <2>6, <2>8 DEF u, v, d, ok, rs
<1>4. StreamsOK'
  BY <1>1 DEF StreamsOK
<1>5. PanelsOK'
  <2>1. ASSUME NEW s \in Subscribers
        PROVE  /\ PanelTyped(s, user'[s])
               /\ IF user'[s].on = Nothing THEN user'[s] = Idle
                  ELSE PanelOK(s, user'[s], live'[user'[s].on], ready')
    <3>1. CASE user[s].on = Nothing
      <4>1. PanelTyped(s, Idle) /\ Idle.on = Nothing
        BY IdleFields, EmptySeq, LengthAssumption DEF PanelTyped
      <4>. QED
        BY <1>2, <3>1, <4>1
    <3>2. CASE user[s].on # Nothing
      <4>1. PanelStep(s, user[s], user'[s], live[user[s].on], ready', takers(s))
        BY <1>3, <3>2
      <4>. QED
        BY <1>1, <3>2, <4>1 DEF PanelStep
    <3>. QED
      BY <3>1, <3>2
  <2>2. user' \in [Subscribers -> User]
    BY <1>1, <2>1 DEF PanelTyped
  <2>. QED
    BY <2>1, <2>2 DEF PanelsOK
<1>6. Moves
  <2>1. \A d \in Streams : StreamMoves(d)
    BY <1>1, SameLog
  <2>2. ASSUME PacketsFit, NEW s \in Subscribers PROVE PanelMoves(s)
    <3>1. CASE user[s].on = Nothing
      BY <1>2, <3>1, IdleLeft DEF PanelMoves
    <3>2. CASE user[s].on # Nothing
      <4>. DEFINE rs == takers(s)
                  d == live[user[s].on]
                  ok == ready'
      <4>1. rs \in SUBSET Replaces /\ PanelStep(s, user[s], user'[s], d, ok, rs)
        BY <1>3, <3>2
      <4>2. LogAt(live', user[s].on) = d.log
        BY <1>1, <3>2, PanelIs DEF LogAt
      <4>3. \A r \in rs : user[r].on = user[s].on /\ user'[r].on = user[s].on
        <5>1. ASSUME NEW r \in rs PROVE user[r].on = user[s].on /\ user'[r].on = user[s].on
          <6>1. r \in Subscribers /\ user[r].on = user[s].on
            BY <5>1 DEF Wakers
          <6>2. user'[r].on = user[r].on
            BY <1>3, <3>2, <6>1 DEF PanelStep
          <6>. QED
            BY <6>1, <6>2
        <5>. QED
          BY <5>1
      <4>. HIDE DEF rs, d, ok
      <4>. QED
        BY <2>2, <3>2, <4>1, <4>2, <4>3, PanelStepped
    <3>. QED
      BY <3>1, <3>2
  <2>. QED
    BY <2>1, <2>2 DEF Moves
<1>7. SameSources
  BY <1>1 DEF SameSources
<1>. QED
  BY <1>4, <1>5, <1>6, <1>7 DEF LiveStep

(* A step in which panel s joins stream d, which is new or is there; the   *)
(* stream grows as long as the panel wants it, and may take a frame.       *)
Joining(s, d, got, long, takes, next, a, b) ==
    /\ s \in Subscribers /\ user[s].on = Nothing
    /\ d \in Streams
    /\ got \in Stream /\ ~got.shutdown /\ got.source # Nothing /\ (PacketsFit => BufferOK(got))
    /\ live[d] = got \/ (\A x \in Streams : live[x] # None <=> x < d)
    /\ Kept(got, long) /\ MaxLength[s] <= long.maxLength
    /\ takes \in BOOLEAN
    /\ IF takes THEN Heard(long, next) ELSE next = long
    /\ a \in SUBSET Subscribers /\ b \in BOOLEAN /\ (ready => b)
    /\ live' = [live EXCEPT ![d] = next] /\ current' = d /\ ready' = ready
    /\ user' = [r \in Subscribers |->
                   IF r = s THEN Greeted(s, Fresh(d, a, b), next)
                   ELSE IF user[r].on = d /\ takes THEN Receive(r, user[r], next, Takers(d, next))
                   ELSE user[r]]

LEMMA LiveJoined ==
    ASSUME StreamsOK, PanelsOK, NEW s, NEW d, NEW got, NEW long, NEW takes, NEW next,
           NEW a, NEW b, Joining(s, d, got, long, takes, next, a, b)
    PROVE  LiveStep /\ live'[d] # None /\ live'[d].source = got.source
<1>. USE DEF Joining
<1>1. /\ long \in Stream /\ long.source = got.source /\ ~long.shutdown /\ long.log = got.log
      /\ PacketsFit => BufferOK(long)
  BY KeptStream DEF Kept
<1>2. /\ next \in Stream /\ next.source = got.source /\ ~next.shutdown
      /\ next.maxLength = long.maxLength
      /\ \E x \in RowSeqs : next.log = got.log \o x
      /\ PacketsFit => BufferOK(next)
  <2>1. CASE takes
    <3>1. Heard(long, next)
      BY <2>1
    <3>2. /\ next \in Stream /\ next.source = long.source /\ next.shutdown = long.shutdown
          /\ next.maxLength = long.maxLength
          /\ \E x \in RowSeqs : next.log = long.log \o x
          /\ PacketsFit /\ BufferOK(long) => BufferOK(next)
      BY ONLY <1>1, <3>1, HeardStream
    <3>. QED
      BY <1>1, <3>2
  <2>2. CASE ~takes
    <3>1. next = long
      BY <2>2
    <3>2. <<>> \in RowSeqs /\ long.log \o <<>> = long.log
      BY <1>1, StreamFields, EmptySeq, ConcatEmptySeq DEF RowSeqs
    <3>. QED
      BY <1>1, <3>1, <3>2
  <2>. QED
    BY <2>1, <2>2
<1>3. next # None /\ got # None
  BY <1>2, NoneAssumption
<1>4. /\ live'[d] = next /\ \A x \in Streams \ {d} : live'[x] = live[x]
      /\ live' \in [Streams -> Stream \cup {None}]
  BY <1>2 DEF StreamsOK
<1>5. live[d] = got \/ live[d] = None
  BY DEF Streams
<1>6. StreamsOK'
  <2>1. \A x \in Streams : live'[x] # None /\ PacketsFit => BufferOK(live'[x])
    BY <1>2, <1>4 DEF StreamsOK
  <2>2. /\ current' \in Streams \cup {Nothing}
        /\ current' # Nothing => live'[current'] # None /\ ~live'[current'].shutdown
                                 /\ live'[current'].source # Nothing
    BY <1>2, <1>3, <1>4
  <2>3. \E k \in 0..MaxStreams : \A x \in Streams : live'[x] # None <=> x <= k
    <3>1. CASE live[d] = got
      <4>1. \A x \in Streams : live'[x] # None <=> live[x] # None
        BY <1>3, <1>4, <3>1
      <4>. QED
        BY <4>1 DEF StreamsOK
    <3>2. CASE \A x \in Streams : live[x] # None <=> x < d
      <4>1. ASSUME NEW x \in Streams PROVE live'[x] # None <=> x <= d
        <5>1. CASE x = d
          BY <1>3, <1>4, <5>1 DEF Streams
        <5>2. CASE x # d
          <6>1. x <= d <=> x < d
            BY <5>2, BoundAssumption DEF Streams
          <6>. QED
            BY <1>4, <3>2, <5>2, <6>1
        <5>. QED
          BY <5>1, <5>2
      <4>2. d \in 0..MaxStreams
        BY BoundAssumption DEF Streams
      <4>. QED
        BY <4>1, <4>2
    <3>. QED
      BY <3>1, <3>2
  <2>. QED
    BY <1>4, <2>1, <2>2, <2>3 DEF StreamsOK
<1>7. /\ PanelTyped(s, user'[s]) /\ user'[s].on = d
      /\ PanelOK(s, user'[s], next, ready)
      /\ PacketsFit => Joined(s, Idle, user'[s], next.log)
  <2>. DEFINE v == user'[s]
  <2>1. v = Greeted(s, Fresh(d, a, b), next)
    OBVIOUS
  <2>2. MaxLength[s] <= next.maxLength
    BY <1>2
  <2>. HIDE DEF v
  <2>3. PanelJoins(s, d, v, next, ready)
    BY <1>2, <2>1, <2>2, JoinedPanel
  <2>. QED
    BY <2>3 DEF v, PanelJoins
<1>8. ASSUME NEW r \in Subscribers, r # s, user[r].on = d
      PROVE  \/ takes /\ PanelStep(r, user[r], user'[r], next, ready, Takers(d, next))
             \/ user'[r] = user[r] /\ PanelOK(r, user[r], next, ready)
  <2>. DEFINE ur == user[r]
              v == user'[r]
  <2>1. PanelTyped(r, ur) /\ PanelOK(r, ur, live[d], ready) /\ live[d] # None
    BY <1>8, PanelIs, NothingIsNoStream
  <2>2. PanelOK(r, ur, got, ready)
    BY <1>5, <2>1
  <2>. HIDE DEF ur
  <2>3. PanelOK(r, ur, long, ready)
    BY <2>2, KeptStream
  <2>4. CASE takes
    <3>1. Heard(long, next)
      BY <2>4
    <3>. DEFINE rs == Takers(d, next)
    <3>2. v = Receive(r, ur, next, rs) /\ rs \in SUBSET Replaces
      BY <1>8, <2>4 DEF ur, Takers, Takes
    <3>. HIDE DEF v, rs
    <3>3. PanelStep(r, ur, v, next, ready, rs)
      BY <1>1, <2>1, <2>3, <3>1, <3>2, HeardPanel
    <3>. QED
      BY <2>4, <3>3 DEF ur, v, rs
  <2>5. CASE ~takes
    <3>1. next = long /\ v = user[r]
      BY <1>8, <2>5
    <3>. QED
      BY <2>3, <3>1 DEF ur
  <2>. QED
    BY <2>4, <2>5
<1>9. \A r \in Subscribers : r # s /\ user[r].on # d => user'[r] = user[r]
  OBVIOUS
<1>10. PanelsOK'
  <2>1. ASSUME NEW r \in Subscribers
        PROVE  /\ PanelTyped(r, user'[r])
               /\ IF user'[r].on = Nothing THEN user'[r] = Idle
                  ELSE PanelOK(r, user'[r], live'[user'[r].on], ready')
    <3>1. CASE r = s
      BY <1>4, <1>7, <3>1, NothingIsNoStream
    <3>2. CASE r # s /\ user[r].on = d
      <4>1. CASE PanelStep(r, user[r], user'[r], next, ready, Takers(d, next))
        BY <1>4, <3>2, <4>1, NothingIsNoStream DEF PanelStep
      <4>2. CASE user'[r] = user[r] /\ PanelOK(r, user[r], next, ready)
        BY <1>4, <3>2, <4>2, PanelIs, NothingIsNoStream
      <4>. QED
        BY <1>8, <3>2, <4>1, <4>2
    <3>3. CASE r # s /\ user[r].on # d
      <4>1. user'[r] = user[r]
        BY <1>9, <3>3
      <4>2. user[r].on # Nothing => live'[user[r].on] = live[user[r].on]
        BY <1>4, <3>3, PanelIs
      <4>. QED
        BY <4>1, <4>2, PanelIs
    <3>. QED
      BY <3>1, <3>2, <3>3
  <2>2. user' \in [Subscribers -> User]
    BY <2>1 DEF PanelTyped
  <2>. QED
    BY <2>1, <2>2 DEF PanelsOK
<1>11. Moves
  <2>1. ASSUME NEW x \in Streams PROVE StreamMoves(x)
    <3>1. CASE x # d
      BY <1>4, <3>1, SameLog DEF LogAt
    <3>2. CASE x = d /\ live[d] = got
      BY <1>2, <1>3, <1>4, <3>2 DEF LogAt, StreamMoves
    <3>3. CASE x = d /\ live[d] = None
      <4>1. LogAt(live', x) = next.log /\ LogAt(live, x) = <<>>
        BY <1>3, <1>4, <3>3 DEF LogAt
      <4>2. next.log \in RowSeqs /\ <<>> \o next.log = next.log
        BY <1>2, StreamFields, ConcatEmptySeq DEF RowSeqs
      <4>. QED
        BY <4>1, <4>2 DEF StreamMoves
    <3>. QED
      BY <1>5, <3>1, <3>2, <3>3
  <2>2. ASSUME PacketsFit, NEW r \in Subscribers PROVE PanelMoves(r)
    <3>1. LogAt(live', d) = next.log
      BY <1>3, <1>4 DEF LogAt
    <3>2. CASE r = s
      <4>1. user[s] = Idle
        BY PanelIs
      <4>. QED
        BY <1>7, <2>2, <3>1, <3>2, <4>1 DEF PanelMoves
    <3>3. CASE r # s /\ user[r].on = d
      <4>1. CASE takes /\ PanelStep(r, user[r], user'[r], next, ready, Takers(d, next))
        <5>. DEFINE rs == Takers(d, next)
        <5>1. rs \in SUBSET Replaces /\ PanelStep(r, user[r], user'[r], next, ready, rs)
          BY <4>1 DEF Takers, Takes
        <5>2. \A x \in rs : user[x].on = d /\ user'[x].on = d
          <6>1. ASSUME NEW x \in rs PROVE user[x].on = d /\ user'[x].on = d
            <7>1. x \in Subscribers /\ user[x].on = d /\ x # s
              BY <6>1, NothingIsNoStream DEF Takers
            <7>2. user'[x].on = user[x].on
              BY <1>8, <7>1 DEF PanelStep
            <7>. QED
              BY <7>1, <7>2
          <6>. QED
            BY <6>1
        <5>3. user[r].on # Nothing
          BY <3>3, NothingIsNoStream
        <5>. HIDE DEF rs
        <5>. QED
          BY ONLY <2>2, <3>1, <3>3, <5>1, <5>2, <5>3, PanelStepped
      <4>2. CASE user'[r] = user[r] /\ PanelOK(r, user[r], next, ready)
        BY <4>2, SamePanel
      <4>. QED
        BY <1>8, <3>3, <4>1, <4>2
    <3>4. CASE r # s /\ user[r].on # d
      BY <1>9, <3>4, SamePanel
    <3>. QED
      BY <3>2, <3>3, <3>4
  <2>. QED
    BY <2>1, <2>2 DEF Moves
<1>. QED
  BY <1>2, <1>3, <1>4, <1>6, <1>10, <1>11 DEF LiveStep
-----------------------------------------------------------------------------
(* Channels                                                                *)

LEMMA ChannelIs ==
    ASSUME ChannelsOK, NEW c \in Channels, chan[c] # None
    PROVE  ChanOK(chan[c]) /\ chan[c] \in Channel
BY DEF ChannelsOK, ChanOK

LEMMA ChannelIsNotNone ==
    ASSUME NEW ch, ChanOK(ch)
    PROVE  ch # None
BY NoneAssumption DEF ChanOK

LEMMA NewChannelOK ==
    ASSUME NEW init \in {"await", "refused", "done"}
    PROVE  /\ ChanOK(NewChannel(init)) /\ ChanOK(Initalize(NewChannel(init)))
           /\ NewChannel(init).last = None /\ Initalize(NewChannel(init)).last = None
<1>1. NewChannel(init) \in Channel /\ NewChannel(init).last = None
  BY DEF NewChannel, Channel
<1>2. Initalize(NewChannel(init)) \in Channel /\ Initalize(NewChannel(init)).last = None
  BY DEF NewChannel, Channel, Initalize
<1>. QED
  BY <1>1, <1>2 DEF ChanOK

(* A step after which every channel is as it was or has a last message     *)
(* that fits, and no other is open.                                        *)
LEMMA ChannelsKept ==
    ASSUME ChannelsOK, StreamsOK, SameSources, chan' = [c \in Channels |-> chan'[c]],
           \A c \in Channels : chan'[c] = chan[c] \/ ChanOK(chan'[c]),
           open' = open \/ open' = Nothing
    PROVE  ChannelsOK'
<1>1. \A c \in Channels : chan[c] # None => chan'[c] # None
  BY ChannelIsNotNone
<1>2. \A c \in Channels : chan'[c] \in Channel \cup {None}
  BY DEF ChannelsOK, ChanOK
<1>3. chan' \in [Channels -> Channel \cup {None}]
  BY <1>2
<1>4. \A c \in Channels : chan'[c] # None => ChanOK(chan'[c])
  BY DEF ChannelsOK
<1>5. open' \in Channels \cup {Nothing} /\ (open' # Nothing => chan'[open'] # None)
  BY <1>1 DEF ChannelsOK
<1>6. \A d \in Streams : live'[d] # None /\ live'[d].source # Nothing => chan'[live'[d].source] # None
  <2>. SUFFICES ASSUME NEW d \in Streams, live'[d] # None, live'[d].source # Nothing
                PROVE  chan'[live'[d].source] # None
    OBVIOUS
  <2>1. live[d] # None /\ live'[d].source = live[d].source
    BY DEF SameSources
  <2>2. chan[live[d].source] # None
    BY <2>1 DEF ChannelsOK
  <2>3. live[d].source \in Channels
    <3>1. live[d].source \in Channels \cup {Nothing}
      BY <2>1, StreamIs, StreamFields
    <3>. QED
      BY <2>1, <3>1
  <2>. QED
    BY <1>1, <2>1, <2>2, <2>3
<1>. QED
  BY <1>3, <1>4, <1>5, <1>6 DEF ChannelsOK

(* One channel changes.                                                    *)
LEMMA ChannelChanges ==
    ASSUME ChannelsOK, StreamsOK, SameSources, NEW c \in Channels, NEW ch, ChanOK(ch),
           chan' = [chan EXCEPT ![c] = ch], open' = open \/ open' = Nothing
    PROVE  ChannelsOK'
<1>1. chan' = [x \in Channels |-> chan'[x]]
  BY DEF ChannelsOK
<1>2. \A x \in Channels : chan'[x] = chan[x] \/ ChanOK(chan'[x])
  BY DEF ChannelsOK
<1>. QED
  BY <1>1, <1>2, ChannelsKept

LEMMA ChannelsUnchanged ==
    ASSUME ChannelsOK, StreamsOK, SameSources, UNCHANGED <<chan, open>>
    PROVE  ChannelsOK'
<1>1. chan' = [x \in Channels |-> chan'[x]]
  BY DEF ChannelsOK
<1>. QED
  BY <1>1, ChannelsKept

(* The messages of the server fit.                                         *)
LEMMA FrameFits ==
    ASSUME CountersOK, NEW frame \in Frames, frame # None
    PROVE  Fits(frame) /\ frame.schema \in Schemas
<1>1. PICK schema \in Schemas : frame = LastFrame(schema)
  BY DEF Frames
<1>2. rows \in 0..MaxRows /\ MaxRows \in Nat /\ DefaultLength \in Nat \ {0}
  BY BoundAssumption, LengthAssumption DEF CountersOK
<1>3. /\ frame.schema = schema
      /\ frame.rows = IF rows = 0 THEN <<>> ELSE <<rows>>
      /\ frame = [schema |-> frame.schema, rows |-> frame.rows]
  BY <1>1 DEF LastFrame
<1>4. CASE rows = 0
  <2>1. frame.rows \in RowSeqs /\ Len(frame.rows) = 0
    BY <1>3, <1>4, EmptySeq DEF RowSeqs
  <2>. QED
    BY <1>2, <1>3, <2>1 DEF Fits, Message
<1>5. CASE rows # 0
  <2>1. rows \in 1..MaxRows
    BY <1>2, <1>5
  <2>2. frame.rows = <<rows>>
    BY <1>3, <1>5
  <2>3. frame.rows \in RowSeqs /\ Len(frame.rows) = 1
    BY <2>1, <2>2 DEF RowSeqs
  <2>. QED
    BY <1>2, <1>3, <2>1, <2>3 DEF Fits, Message
<1>. QED
  BY <1>4, <1>5

LEMMA PublishedFits ==
    ASSUME CountersOK, NEW schema \in Schemas \cup {NoSchema}, NEW n \in 0..MaxPacket,
           rows + n <= MaxRows,
           NEW msg, msg = [schema |-> schema, rows |-> [i \in 1..n |-> rows + i]]
    PROVE  Fits(msg)
<1>1. rows \in 0..MaxRows /\ MaxRows \in Nat /\ MaxPacket \in Nat /\ DefaultLength \in Nat
  BY BoundAssumption, LengthAssumption DEF CountersOK
<1>2. n \in Nat /\ n <= MaxPacket /\ n <= MaxRows
  BY <1>1
<1>. DEFINE r == [i \in 1..n |-> rows + i]
<1>3. \A i \in 1..n : rows + i \in 1..MaxRows
  BY <1>1, <1>2
<1>4. r \in Seq(1..MaxRows) /\ Len(r) = n
  BY <1>2, <1>3
<1>. HIDE DEF r
<1>5. msg.rows = r /\ msg \in Message
  BY <1>4 DEF Message, RowSeqs, r
<1>6. PacketsFit => n <= DefaultLength
  BY <1>1, <1>2 DEF PacketsFit
<1>. QED
  BY <1>2, <1>4, <1>5, <1>6 DEF Fits
-----------------------------------------------------------------------------
(* Every action keeps the invariant, and takes a step of LiveFrames or     *)
(* stutters.                                                               *)

Step == IInv' /\ Moves

LEMMA Listening ==
    ASSUME StreamsOK, NEW c \in Channels
    PROVE  /\ Listeners(c) \in SUBSET Streams
           /\ \A d \in Listeners(c) : live[d] # None /\ live[d] \in Stream
BY StreamIs DEF Listeners

LEMMA InitChannelStep ==
    ASSUME IInv, NEW c \in Channels, InitChannel(c)
    PROVE  Step
<1>1. CountersOK' /\ LiveStep /\ SameSources
  BY LiveUnchanged DEF IInv, InitChannel, CountersOK
<1>2. ChanOK(chan[c]) /\ chan[c] \in Channel
  BY ChannelIs DEF IInv, InitChannel
<1>. DEFINE a == Initalize(chan[c])
            b == [chan[c] EXCEPT !.init = "refused"]
<1>3. ChanOK(a) /\ ChanOK(b)
  BY <1>2 DEF ChanOK, Channel, Initalize
<1>4. (chan' = [chan EXCEPT ![c] = a] \/ chan' = [chan EXCEPT ![c] = b]) /\ open' = open
  BY DEF InitChannel
<1>. HIDE DEF a, b
<1>5. ChannelsOK'
  BY <1>1, <1>3, <1>4, ChannelChanges DEF IInv
<1>. QED
  BY <1>1, <1>5 DEF Step, LiveStep, IInv

(* The end of a channel.                                                   *)
LEMMA CloseStep ==
    ASSUME IInv, NEW c \in Channels, NEW init \in {"await", "refused", "done"}, Close(c, init),
           UNCHANGED <<rows, messages, connected, blocked, ready>>
    PROVE  Step
<1>. DEFINE ds == Listeners(c)
            timers == [d \in ds |-> live[d].timer \/ Observed(d)]
<1>1. ds \in SUBSET Streams /\ \A d \in ds : live[d] # None /\ live[d] \in Stream
  BY Listening DEF IInv
<1>2. \A d \in ds : timers[d] \in BOOLEAN
  BY <1>1, StreamFields DEF Observed
<1>3. /\ chan' = [chan EXCEPT ![c] = NewChannel(init)]
      /\ open' = Nothing
      /\ user' = [s \in Subscribers |-> IF user[s].on \in ds THEN Idle ELSE user[s]]
      /\ current' = IF ds = {} THEN current ELSE Nothing
  BY DEF Close
<1>4. live' = [d \in Streams |-> IF d \in ds THEN Over(timers[d]) ELSE live[d]]
  BY DEF Close
<1>. HIDE DEF ds, timers
<1>5. LiveStep /\ SameSources
  BY <1>1, <1>2, <1>3, <1>4, LiveEnded DEF IInv
<1>6. ChannelsOK'
  BY <1>3, <1>5, NewChannelOK, ChannelChanges DEF IInv
<1>7. CountersOK'
  BY DEF IInv, CountersOK
<1>. QED
  BY <1>5, <1>6, <1>7 DEF Step, LiveStep, IInv

LEMMA RefuseChannelStep ==
    ASSUME IInv, NEW c \in Channels, RefuseChannel(c)
    PROVE  Step
BY CloseStep DEF RefuseChannel

LEMMA CloseTimerStep ==
    ASSUME IInv, NEW c \in Channels, CloseTimer(c)
    PROVE  Step
<1>1. ChanOK(chan[c]) /\ chan[c] \in Channel
  BY ChannelIs DEF IInv, CloseTimer
<1>2. CASE Listeners(c) = {}
  <2>1. chan[c].init \in {"await", "refused", "done"}
    BY <1>1 DEF Channel
  <2>2. Close(c, chan[c].init) /\ UNCHANGED <<rows, messages, connected, blocked, ready>>
    BY <1>2 DEF CloseTimer
  <2>. QED
    BY <2>1, <2>2, CloseStep
<1>3. CASE Listeners(c) # {}
  <2>. DEFINE a == [chan[c] EXCEPT !.closing = FALSE]
  <2>1. ChanOK(a)
    BY <1>1 DEF ChanOK, Channel
  <2>2. chan' = [chan EXCEPT ![c] = a] /\ open' = open
    BY <1>3 DEF CloseTimer
  <2>3. CountersOK' /\ LiveStep /\ SameSources
    BY <1>3, LiveUnchanged DEF IInv, CloseTimer, CountersOK
  <2>. HIDE DEF a
  <2>4. ChannelsOK'
    BY <2>1, <2>2, <2>3, ChannelChanges DEF IInv
  <2>. QED
    BY <2>3, <2>4 DEF Step, LiveStep, IInv
<1>. QED
  BY <1>2, <1>3

LEMMA PublishStep ==
    ASSUME IInv, NEW schema \in Schemas \cup {NoSchema}, NEW n \in 0..MaxPacket,
           Publish(schema, n)
    PROVE  Step
<1>. DEFINE msg == [schema |-> schema, rows |-> [i \in 1..n |-> rows + i]]
            cs == {c \in Channels : chan[c] # None /\ chan[c].subscription = "subscribed"}
            ds == UNION {Listeners(c) : c \in cs}
            next == [d \in ds |-> Push(live[d], msg)]
            told(c) == [chan[c] EXCEPT !.last = IF schema = NoSchema THEN @ ELSE msg,
                                       !.error = FALSE]
<1>1. /\ messages < MaxMessages /\ rows + n <= MaxRows
      /\ rows' = rows + n /\ messages' = messages + 1
      /\ UNCHANGED <<connected, blocked, ready, open, current>>
  BY DEF Publish
<1>2. /\ chan' = [c \in Channels |-> IF c \in cs THEN told(c) ELSE chan[c]]
      /\ Tell(ds, next)
  BY DEF Publish
<1>3. Fits(msg)
  BY <1>1, PublishedFits DEF IInv
<1>4. ds \in SUBSET Streams /\ \A d \in ds : live[d] # None
  BY Listening DEF IInv
<1>5. \A d \in ds : Heard(live[d], next[d])
  BY <1>3 DEF Heard
<1>6. \A c \in cs : ChanOK(told(c))
  <2>. SUFFICES ASSUME NEW c \in cs PROVE ChanOK(told(c))
    OBVIOUS
  <2>1. ChanOK(chan[c]) /\ chan[c] \in Channel
    BY ChannelIs DEF IInv
  <2>2. msg \in Message
    BY <1>3 DEF Fits
  <2>. DEFINE last == IF schema = NoSchema THEN chan[c].last ELSE msg
              a == [chan[c] EXCEPT !.last = last]
  <2>. HIDE DEF msg
  <2>3. last \in Message \cup {None} /\ (last # None => Fits(last))
    BY <1>3, <2>1, <2>2 DEF ChanOK, Channel
  <2>4. told(c) = [a EXCEPT !.error = FALSE]
    OBVIOUS
  <2>. HIDE DEF last
  <2>5. a \in Channel /\ a.last = last
    BY <2>1, <2>3 DEF Channel
  <2>. HIDE DEF a
  <2>6. [a EXCEPT !.error = FALSE] \in Channel /\ [a EXCEPT !.error = FALSE].last = last
    BY <2>5 DEF Channel
  <2>. HIDE DEF told
  <2>. QED
    BY <2>3, <2>4, <2>6 DEF ChanOK
<1>. HIDE DEF msg, next, told
<1>7. LiveStep /\ SameSources
  <2>. HIDE DEF ds
  <2>. QED
    BY <1>1, <1>2, <1>4, <1>5, LiveTold DEF IInv
<1>. HIDE DEF cs, ds
<1>8. ChannelsOK'
  <2>1. chan' = [c \in Channels |-> chan'[c]]
    BY <1>2
  <2>2. \A c \in Channels : chan'[c] = chan[c] \/ ChanOK(chan'[c])
    BY <1>2, <1>6
  <2>. QED
    BY <1>1, <1>7, <2>1, <2>2, ChannelsKept DEF IInv
<1>9. CountersOK'
  BY <1>1, BoundAssumption DEF IInv, CountersOK
<1>. QED
  BY <1>7, <1>8, <1>9 DEF Step, LiveStep, IInv

LEMMA SubscribedStep ==
    ASSUME IInv, NEW c \in Channels, NEW data \in Frames, Subscribed(c, data)
    PROVE  Step
<1>. DEFINE ds == Listeners(c)
            next == [d \in ds |-> Push(live[d], data)]
            a == [chan[c] EXCEPT !.subscription = "subscribed"]
            b == [a EXCEPT !.state = "Connected"]
            e == [b EXCEPT !.error = FALSE]
            last == IF data = None THEN chan[c].last ELSE data
            f == [e EXCEPT !.last = last]
<1>1. /\ chan[c] # None /\ (data # None => messages < MaxMessages)
      /\ messages' = IF data = None THEN messages ELSE messages + 1
      /\ UNCHANGED <<rows, connected, blocked, ready, open, current>>
  BY DEF Subscribed
<1>2. chan' = [chan EXCEPT ![c] = f]
  BY DEF Subscribed, ChannelsOK, IInv
<1>3. IF data = None THEN UNCHANGED <<live, user>> ELSE Tell(ds, next)
  BY DEF Subscribed
<1>4. data # None => Fits(data)
  BY FrameFits DEF IInv
<1>5. ChanOK(chan[c]) /\ chan[c] \in Channel
  BY <1>1, ChannelIs DEF IInv
<1>6. ChanOK(f)
  <2>1. last \in Message \cup {None} /\ (last # None => Fits(last))
    BY <1>4, <1>5 DEF ChanOK, Channel, Fits
  <2>. HIDE DEF last
  <2>2. a \in Channel
    BY <1>5 DEF Channel
  <2>. HIDE DEF a
  <2>3. b \in Channel
    BY <2>2 DEF Channel
  <2>. HIDE DEF b
  <2>4. e \in Channel
    BY <2>3 DEF Channel
  <2>. HIDE DEF e
  <2>5. f \in Channel /\ f.last = last
    BY <2>1, <2>4 DEF Channel
  <2>. QED
    BY <2>1, <2>5 DEF ChanOK
<1>7. LiveStep /\ SameSources
  <2>1. CASE data = None
    BY <1>1, <1>3, <2>1, LiveUnchanged DEF IInv
  <2>2. CASE data # None
    <3>1. ds \in SUBSET Streams /\ \A d \in ds : live[d] # None
      BY Listening DEF IInv
    <3>2. \A d \in ds : Heard(live[d], next[d])
      BY <1>4, <2>2 DEF Heard
    <3>3. Tell(ds, next)
      BY <1>3, <2>2
    <3>. HIDE DEF ds, next
    <3>. QED
      BY <1>1, <3>1, <3>2, <3>3, LiveTold DEF IInv
  <2>. QED
    BY <2>1, <2>2
<1>. HIDE DEF f
<1>8. ChannelsOK'
  BY <1>1, <1>2, <1>6, <1>7, ChannelChanges DEF IInv
<1>9. CountersOK'
  BY <1>1, BoundAssumption DEF IInv, CountersOK
<1>. QED
  BY <1>7, <1>8, <1>9 DEF Step, LiveStep, IInv

(* The streams of a channel are told of an error.                          *)
LEMMA ErrorTold ==
    ASSUME StreamsOK, PanelsOK, NEW c \in Channels,
           Tell(Listeners(c), [d \in Listeners(c) |-> PushError(live[d])]),
           UNCHANGED <<current, ready>>
    PROVE  LiveStep /\ SameSources
<1>. DEFINE ds == Listeners(c)
            next == [d \in ds |-> PushError(live[d])]
<1>1. ds \in SUBSET Streams /\ \A d \in ds : live[d] # None
  BY Listening
<1>2. \A d \in ds : Heard(live[d], next[d])
  BY DEF Heard
<1>3. Tell(ds, next)
  OBVIOUS
<1>. HIDE DEF ds, next
<1>. QED
  BY <1>1, <1>2, <1>3, LiveTold

LEMMA SubscriptionErrorStep ==
    ASSUME IInv, NEW c \in Channels, SubscriptionError(c)
    PROVE  Step
<1>. DEFINE a == [chan[c] EXCEPT !.error = TRUE]
<1>1. /\ chan[c] # None /\ messages < MaxMessages /\ messages' = messages + 1
      /\ UNCHANGED <<rows, connected, blocked, ready, open, current>>
      /\ Tell(Listeners(c), [d \in Listeners(c) |-> PushError(live[d])])
  BY DEF SubscriptionError
<1>2. chan' = [chan EXCEPT ![c] = a]
  BY DEF SubscriptionError
<1>3. ChanOK(a)
  <2>1. ChanOK(chan[c]) /\ chan[c] \in Channel
    BY <1>1, ChannelIs DEF IInv
  <2>. QED
    BY <2>1 DEF ChanOK, Channel
<1>4. LiveStep /\ SameSources
  BY <1>1, ErrorTold DEF IInv
<1>. HIDE DEF a
<1>5. ChannelsOK'
  BY <1>1, <1>2, <1>3, <1>4, ChannelChanges DEF IInv
<1>6. CountersOK'
  BY <1>1, BoundAssumption DEF IInv, CountersOK
<1>. QED
  BY <1>4, <1>5, <1>6 DEF Step, LiveStep, IInv

LEMMA UnsubscribedStep ==
    ASSUME IInv, NEW c \in Channels, Unsubscribed(c)
    PROVE  Step
<1>. DEFINE a == [chan[c] EXCEPT !.subscription = "unsubscribed"]
            b == [a EXCEPT !.state = "Disconnected"]
<1>1. /\ chan[c] # None
      /\ UNCHANGED <<rows, messages, connected, blocked, ready, open, current>>
      /\ \/ Tell(Listeners(c), [d \in Listeners(c) |-> PushError(live[d])])
         \/ UNCHANGED <<live, user>>
  BY DEF Unsubscribed
<1>2. chan' = [chan EXCEPT ![c] = b]
  BY DEF Unsubscribed, ChannelsOK, IInv
<1>3. ChanOK(b)
  <2>1. ChanOK(chan[c]) /\ chan[c] \in Channel
    BY <1>1, ChannelIs DEF IInv
  <2>2. a \in Channel /\ a.last = chan[c].last
    BY <2>1 DEF Channel
  <2>. HIDE DEF a
  <2>3. b \in Channel /\ b.last = chan[c].last
    BY <2>2 DEF Channel
  <2>. QED
    BY <2>1, <2>3 DEF ChanOK
<1>4. LiveStep /\ SameSources
  <2>1. CASE Tell(Listeners(c), [d \in Listeners(c) |-> PushError(live[d])])
    BY <1>1, <2>1, ErrorTold DEF IInv
  <2>2. CASE UNCHANGED <<live, user>>
    BY <1>1, <2>2, LiveUnchanged DEF IInv
  <2>. QED
    BY <1>1, <2>1, <2>2
<1>. HIDE DEF b
<1>5. ChannelsOK'
  BY <1>1, <1>2, <1>3, <1>4, ChannelChanges DEF IInv
<1>6. CountersOK'
  BY <1>1 DEF IInv, CountersOK
<1>. QED
  BY <1>4, <1>5, <1>6 DEF Step, LiveStep, IInv

LEMMA ConnectStep ==
    ASSUME IInv, Connect
    PROVE  Step
<1>1. LiveStep /\ SameSources
  BY LiveUnchanged DEF IInv, Connect
<1>2. ChannelsOK'
  BY <1>1, ChannelsUnchanged DEF IInv, Connect
<1>3. CountersOK'
  BY DEF IInv, CountersOK, Connect
<1>. QED
  BY <1>1, <1>2, <1>3 DEF Step, LiveStep, IInv

LEMMA DisconnectStep ==
    ASSUME IInv, Disconnect
    PROVE  Step
<1>. DEFINE a(c) == [chan[c] EXCEPT !.subscription = "subscribing"]
            b(c) == [a(c) EXCEPT !.state = "Connecting"]
<1>1. /\ messages < MaxMessages /\ messages' = messages + 1 /\ connected' = FALSE
      /\ UNCHANGED <<rows, blocked, ready, open, live, current, user>>
  BY DEF Disconnect
<1>2. chan' = [c \in Channels |->
                  IF chan[c] # None /\ chan[c].subscription = "subscribed" THEN b(c) ELSE chan[c]]
  BY DEF Disconnect
<1>3. ASSUME NEW c \in Channels, chan[c] # None
      PROVE  ChanOK(b(c))
  <2>1. ChanOK(chan[c]) /\ chan[c] \in Channel
    BY <1>3, ChannelIs DEF IInv
  <2>2. a(c) \in Channel /\ a(c).last = chan[c].last
    BY <2>1 DEF Channel
  <2>. HIDE DEF a
  <2>3. b(c) \in Channel /\ b(c).last = chan[c].last
    BY <2>2 DEF Channel
  <2>. QED
    BY <2>1, <2>3 DEF ChanOK
<1>. HIDE DEF b
<1>4. LiveStep /\ SameSources
  BY <1>1, LiveUnchanged DEF IInv
<1>5. ChannelsOK'
  <2>1. chan' = [c \in Channels |-> chan'[c]]
    BY <1>2
  <2>2. \A c \in Channels : chan'[c] = chan[c] \/ ChanOK(chan'[c])
    BY <1>2, <1>3
  <2>. QED
    BY <1>1, <1>4, <2>1, <2>2, ChannelsKept DEF IInv
<1>6. CountersOK'
  <2>1. messages + 1 \in 0..MaxMessages
    BY <1>1, BoundAssumption DEF IInv, CountersOK
  <2>2. {connected', blocked', ready'} \subseteq BOOLEAN
    BY <1>1 DEF IInv, CountersOK
  <2>. QED
    BY <1>1, <2>1, <2>2 DEF IInv, CountersOK
<1>. QED
  BY <1>4, <1>5, <1>6 DEF Step, LiveStep, IInv

LEMMA UnsubscribeStep ==
    ASSUME IInv, NEW s \in Subscribers, Unsubscribe(s)
    PROVE  Step
<1>. DEFINE d == user[s].on
            t == live[d].timer \/ \A r \in Subscribers \ {s} : user[r].on # d
            e == [live[d] EXCEPT !.timer = t]
<1>1. /\ d # Nothing
      /\ user' = [r \in Subscribers |-> IF r = s THEN Idle ELSE [user[r] EXCEPT !.ahead = @ \ {s}]]
      /\ UNCHANGED <<rows, messages, connected, blocked, ready, chan, open, current>>
  BY DEF Unsubscribe
<1>2. live' = [live EXCEPT ![d] = e]
  BY DEF Unsubscribe
<1>3. d \in Streams /\ live[d] # None
  BY <1>1, PanelIs DEF IInv
<1>4. live[d] \in Stream
  BY <1>3, StreamIs DEF IInv
<1>5. t \in BOOLEAN
  BY <1>4, StreamFields
<1>. HIDE DEF t, d
<1>6. Kept(live[d], e)
  BY <1>4, <1>5, TimerKept
<1>. HIDE DEF e
<1>7. LiveStep /\ SameSources
  <2>1. user' = [r \in Subscribers |-> user'[r]]
    BY <1>1
  <2>2. ASSUME NEW r \in Subscribers
        PROVE  \/ user'[r] = user[r] \/ user'[r] = Idle
               \/ user[r].on # Nothing /\ \E a \in SUBSET Subscribers : user'[r] = [user[r] EXCEPT !.ahead = a]
    <3>1. CASE r = s
      BY <1>1, <3>1
    <3>2. CASE r # s
      <4>. DEFINE a == user[r].ahead \ {s}
      <4>1. user'[r] = [user[r] EXCEPT !.ahead = a]
        BY <1>1, <3>2
      <4>2. user[r] \in User
        BY PanelIs DEF IInv, PanelTyped
      <4>3. a \in SUBSET Subscribers
        BY <4>2, UserFields
      <4>4. CASE user[r].on # Nothing
        BY <4>1, <4>3, <4>4
      <4>5. CASE user[r].on = Nothing
        <5>1. user[r] = Idle
          BY <4>5, PanelIs DEF IInv
        <5>2. a = Idle.ahead /\ Idle \in User
          BY <5>1, IdleFields
        <5>. HIDE DEF a
        <5>3. [Idle EXCEPT !.ahead = a] = Idle
          BY <5>2 DEF User
        <5>. QED
          BY <4>1, <5>1, <5>3
      <4>. QED
        BY <4>4, <4>5
    <3>. QED
      BY <3>1, <3>2
  <2>. QED
    BY <1>1, <1>2, <1>3, <1>6, <2>1, <2>2, LiveKept DEF IInv
<1>8. ChannelsOK'
  BY <1>1, <1>7, ChannelsUnchanged DEF IInv
<1>9. CountersOK'
  BY <1>1 DEF IInv, CountersOK
<1>. QED
  BY <1>7, <1>8, <1>9 DEF Step, LiveStep, IInv

LEMMA ShutdownTimerStep ==
    ASSUME IInv, NEW d \in Streams, ShutdownTimer(d)
    PROVE  Step
<1>1. /\ live[d] # None
      /\ UNCHANGED <<rows, messages, connected, blocked, ready, open, user>>
  BY DEF ShutdownTimer
<1>2. live[d] \in Stream
  BY <1>1, StreamIs DEF IInv
<1>3. CountersOK'
  BY <1>1 DEF IInv, CountersOK
<1>4. CASE Observed(d)
  <2>. DEFINE e == [live[d] EXCEPT !.timer = FALSE]
  <2>1. live' = [live EXCEPT ![d] = e] /\ UNCHANGED <<chan, current>>
    BY <1>4 DEF ShutdownTimer
  <2>2. Kept(live[d], e)
    BY <1>2, TimerKept
  <2>. HIDE DEF e
  <2>3. LiveStep /\ SameSources
    <3>1. user' = [r \in Subscribers |-> user'[r]] /\ \A r \in Subscribers : user'[r] = user[r]
      BY <1>1 DEF IInv, PanelsOK
    <3>. QED
      BY <1>1, <2>1, <2>2, <3>1, LiveKept DEF IInv
  <2>4. ChannelsOK'
    BY <1>1, <2>1, <2>3, ChannelsUnchanged DEF IInv
  <2>. QED
    BY <1>3, <2>3, <2>4 DEF Step, LiveStep, IInv
<1>5. CASE ~Observed(d)
  <2>. DEFINE c == live[d].source
              timers == [x \in {d} |-> FALSE]
              a == [chan[c] EXCEPT !.closing = TRUE]
  <2>1. /\ live' = [live EXCEPT ![d] = Over(FALSE)] /\ current' = Nothing
        /\ chan' = IF c # Nothing /\ Listeners(c) = {d}
                   THEN [chan EXCEPT ![c].closing = TRUE] ELSE chan
    BY <1>5 DEF ShutdownTimer
  <2>2. LiveStep /\ SameSources
    <3>1. live' = [x \in Streams |-> IF x \in {d} THEN Over(timers[x]) ELSE live[x]]
      BY <2>1 DEF IInv, StreamsOK
    <3>2. user' = [s \in Subscribers |-> IF user[s].on \in {d} THEN Idle ELSE user[s]]
      BY <1>1, <1>5 DEF IInv, PanelsOK, Observed
    <3>3. \A x \in {d} : live[x] # None /\ timers[x] \in BOOLEAN
      BY <1>1
    <3>4. {d} \in SUBSET Streams /\ current' = IF {d} = {} THEN current ELSE Nothing
      BY <2>1
    <3>. HIDE DEF timers
    <3>. QED
      BY <1>1, <3>1, <3>2, <3>3, <3>4, LiveEnded DEF IInv
  <2>3. ChannelsOK'
    <3>1. CASE c # Nothing /\ Listeners(c) = {d}
      <4>1. c \in Channels /\ chan[c] # None
        BY <1>1, <1>2, <3>1, StreamFields DEF IInv, ChannelsOK
      <4>2. ChanOK(a)
        <5>1. ChanOK(chan[c]) /\ chan[c] \in Channel
          BY <4>1, ChannelIs DEF IInv
        <5>. QED
          BY <5>1 DEF ChanOK, Channel
      <4>3. chan' = [chan EXCEPT ![c] = a]
        BY <2>1, <3>1
      <4>. HIDE DEF a, c
      <4>. QED
        BY <1>1, <2>2, <4>1, <4>2, <4>3, ChannelChanges DEF IInv
    <3>2. CASE ~(c # Nothing /\ Listeners(c) = {d})
      BY <1>1, <2>1, <2>2, <3>2, ChannelsUnchanged DEF IInv
    <3>. QED
      BY <3>1, <3>2
  <2>. QED
    BY <1>3, <2>2, <2>3 DEF Step, LiveStep, IInv
<1>. QED
  BY <1>4, <1>5

LEMMA SetReadyStep ==
    ASSUME IInv, SetReady
    PROVE  Step
<1>1. LiveStep /\ SameSources
  BY LiveReady DEF IInv
<1>2. ChannelsOK'
  BY <1>1, ChannelsUnchanged DEF IInv, SetReady
<1>3. CountersOK'
  BY DEF IInv, CountersOK, SetReady
<1>. QED
  BY <1>1, <1>2, <1>3 DEF Step, LiveStep, IInv

(* A new stream, told of the last message of its channel or of its error.  *)
LEMMA NewStreamOK ==
    ASSUME NEW c \in Channels, NEW ch, ChanOK(ch), NEW d, d = NewStream(c, ch)
    PROVE  /\ d \in Stream /\ d.source = c /\ ~d.shutdown
           /\ PacketsFit => BufferOK(d)
<1>. DEFINE e == [EmptyStream EXCEPT !.source = c]
<1>1. /\ e \in Stream /\ e.source = c /\ e.log = <<>> /\ e.buffer = <<>> /\ e.last = None
      /\ e.maxLength = DefaultLength /\ ~e.shutdown
  BY EmptyStreamFields
<1>2. BufferOK(e)
  BY <1>1, LengthAssumption, EmptySeq DEF BufferOK, EndOf
<1>3. \/ d = PushError(e)
      \/ d = Push(e, ch.last) /\ ch.last # None
      \/ d = e
  BY DEF NewStream
<1>. HIDE DEF e
<1>4. d = e \/ Heard(e, d)
  BY <1>3 DEF ChanOK, Heard
<1>5. CASE d = e
  BY <1>1, <1>2, <1>5
<1>6. CASE Heard(e, d)
  <2>1. /\ d \in Stream /\ d.source = e.source /\ d.shutdown = e.shutdown
        /\ PacketsFit /\ BufferOK(e) => BufferOK(d)
    BY ONLY <1>1, <1>6, HeardStream
  <2>. QED
    BY <1>1, <1>2, <2>1
<1>. QED
  BY <1>4, <1>5, <1>6

(* The streams there are are numbered from one.                            *)
LEMMA NextStream ==
    ASSUME StreamsOK, NEW d \in Streams, d = Cardinality({x \in Streams : live[x] # None}) + 1
    PROVE  \A x \in Streams : live[x] # None <=> x < d
<1>1. PICK k \in 0..MaxStreams : \A x \in Streams : live[x] # None <=> x <= k
  BY DEF StreamsOK
<1>2. {x \in Streams : live[x] # None} = 1..k
  BY <1>1, BoundAssumption DEF Streams
<1>3. Cardinality(1..k) = k
  <2>1. Cardinality(1..k) = IF 1 > k THEN 0 ELSE k - 1 + 1
    BY <1>1, BoundAssumption, FS_Interval
  <2>. QED
    BY <1>1, <2>1, BoundAssumption
<1>4. d = k + 1
  BY <1>2, <1>3
<1>. QED
  BY <1>1, <1>4, BoundAssumption DEF Streams

(* A panel subscribes to the stream there is.                              *)
LEMMA SubscribeStep ==
    ASSUME IInv, NEW s \in Subscribers, NEW frame \in Frames,
           NEW init \in {"await", "refused", "done"}, Subscribe(s, frame, init)
    PROVE  Step
<1>. DEFINE c == IF open # Nothing THEN open ELSE Cardinality({x \in Channels : chan[x] # None}) + 1
            d == IF current # Nothing THEN current
                 ELSE Cardinality({x \in Streams : live[x] # None}) + 1
            ch == IF current = Nothing /\ open = Nothing
                  THEN (IF init = "done" THEN Initalize(NewChannel(init)) ELSE NewChannel(init))
                  ELSE chan[c]
            got == IF current = Nothing THEN NewStream(c, ch) ELSE live[d]
            long == [Resize(got, MaxLength[s]) EXCEPT !.timer = FALSE]
            takes == long.packet = 0 /\ frame # None
            next == IF takes THEN Push(long, frame) ELSE long
            a == {r \in Subscribers : user[r].on = d}
            b == ready \/ \E r \in Subscribers : user[r].on # Nothing
<1>1. /\ user[s].on = Nothing
      /\ d \in Streams
      /\ messages' = (IF takes THEN messages + 1 ELSE messages) /\ messages' <= MaxMessages
      /\ current' = d
      /\ live' = [live EXCEPT ![d] = next]
      /\ UNCHANGED <<rows, connected, blocked, ready>>
  BY DEF Subscribe
<1>2. IF current = Nothing
      THEN c \in Channels /\ open' = c /\ chan' = [chan EXCEPT ![c] = ch]
      ELSE UNCHANGED <<open, chan>>
  BY DEF Subscribe
<1>3. user' = [r \in Subscribers |->
                  IF r = s THEN Greeted(s, Fresh(d, a, b), next)
                  ELSE IF user[r].on = d /\ takes THEN Receive(r, user[r], next, Takers(d, next))
                  ELSE user[r]]
  BY DEF Subscribe, Greeted, Fresh
<1>4. a \in SUBSET Subscribers /\ b \in BOOLEAN /\ (ready => b)
  BY DEF IInv, CountersOK
<1>5. current = Nothing => ChanOK(ch)
  <2>1. CASE current = Nothing /\ open = Nothing
    BY <2>1, NewChannelOK
  <2>2. CASE open # Nothing
    <3>1. c = open /\ open \in Channels /\ chan[open] # None
      BY <2>2 DEF IInv, ChannelsOK
    <3>. QED
      BY <2>2, <3>1, ChannelIs DEF IInv
  <2>. QED
    BY <2>1, <2>2
<1>. HIDE DEF a, b, c, ch
<1>6. /\ got \in Stream /\ ~got.shutdown /\ got.source # Nothing /\ (PacketsFit => BufferOK(got))
      /\ current = Nothing => got.source = c
      /\ current # Nothing => got.source = live[current].source
      /\ live[d] = got \/ \A x \in Streams : live[x] # None <=> x < d
  <2>1. CASE current = Nothing
    <3>1. got = NewStream(c, ch) /\ c \in Channels /\ ChanOK(ch)
      BY <1>2, <1>5, <2>1
    <3>2. d = Cardinality({x \in Streams : live[x] # None}) + 1
      BY <2>1
    <3>. HIDE DEF got, d
    <3>3. /\ got \in Stream /\ got.source = c /\ ~got.shutdown
          /\ PacketsFit => BufferOK(got)
      BY <3>1, NewStreamOK
    <3>4. \A x \in Streams : live[x] # None <=> x < d
      BY <1>1, <3>2, NextStream DEF IInv
    <3>. QED
      BY <2>1, <3>1, <3>3, <3>4, NothingIsNoStream
  <2>2. CASE current # Nothing
    <3>1. d = current /\ got = live[current]
      BY <2>2
    <3>2. current \in Streams /\ live[current] # None /\ ~live[current].shutdown
          /\ live[current].source # Nothing
      BY <2>2 DEF IInv, StreamsOK
    <3>. HIDE DEF got, d
    <3>3. live[current] \in Stream /\ (PacketsFit => BufferOK(live[current]))
      BY <3>2, StreamIs DEF IInv
    <3>. QED
      BY <2>2, <3>1, <3>2, <3>3
  <2>. QED
    BY <2>1, <2>2
<1>7. d = current \/ current = Nothing
  OBVIOUS
<1>. HIDE DEF d, got
<1>8. Kept(got, long) /\ MaxLength[s] <= long.maxLength
  <2>1. MaxLength[s] \in Nat
    BY LengthAssumption
  <2>. QED
    BY <1>6, <2>1, ResizeKept
<1>. HIDE DEF long
<1>9. takes \in BOOLEAN /\ IF takes THEN Heard(long, next) ELSE next = long
  <2>1. takes => Fits(frame)
    BY FrameFits DEF IInv
  <2>. QED
    BY <2>1 DEF Heard
<1>. HIDE DEF takes, next
<1>10. LiveStep /\ live'[d] # None /\ live'[d].source = got.source
  <2>1. Joining(s, d, got, long, takes, next, a, b)
    BY <1>1, <1>3, <1>4, <1>6, <1>8, <1>9 DEF Joining
  <2>. QED
    BY <2>1, LiveJoined DEF IInv
<1>11. CountersOK'
  <2>1. messages' \in 0..MaxMessages
    BY <1>1, BoundAssumption DEF IInv, CountersOK
  <2>. QED
    BY <1>1, <2>1 DEF IInv, CountersOK
<1>12. ChannelsOK'
  <2>1. \A x \in Streams \ {d} : live'[x] = live[x]
    BY <1>1 DEF IInv, StreamsOK
  <2>2. CASE current # Nothing
    <3>1. SameSources
      <4>1. live[d] # None /\ live'[d].source = live[d].source
        BY <1>6, <1>7, <1>10, <2>2 DEF IInv, StreamsOK
      <4>. QED
        BY <2>1, <4>1 DEF SameSources
    <3>. QED
      BY <1>2, <2>2, <3>1, ChannelsUnchanged DEF IInv
  <2>3. CASE current = Nothing
    <3>1. c \in Channels /\ open' = c /\ chan' = [chan EXCEPT ![c] = ch] /\ ChanOK(ch)
      BY <1>2, <1>5, <2>3
    <3>2. /\ chan' \in [Channels -> Channel \cup {None}] /\ chan'[c] = ch /\ ch # None
          /\ \A x \in Channels : chan'[x] # None => ChanOK(chan'[x])
          /\ \A x \in Channels : chan[x] # None => chan'[x] # None
      BY <3>1, ChannelIsNotNone DEF IInv, ChannelsOK, ChanOK
    <3>3. ASSUME NEW x \in Streams, live'[x] # None, live'[x].source # Nothing
          PROVE  chan'[live'[x].source] # None
      <4>1. CASE x = d
        BY <1>6, <1>10, <2>3, <3>2, <4>1
      <4>2. CASE x # d
        <5>1. live[x] # None /\ live'[x].source = live[x].source /\ live[x].source # Nothing
          BY <2>1, <3>3, <4>2
        <5>2. live[x].source \in Channels
          <6>1. live[x].source \in Channels \cup {Nothing}
            BY <5>1, StreamIs, StreamFields DEF IInv
          <6>. QED
            BY <5>1, <6>1
        <5>3. chan[live[x].source] # None
          BY <5>1 DEF IInv, ChannelsOK
        <5>. QED
          BY <3>2, <5>1, <5>2, <5>3
      <4>. QED
        BY <4>1, <4>2
    <3>. QED
      BY <3>1, <3>2, <3>3 DEF ChannelsOK
  <2>. QED
    BY <2>2, <2>3
<1>. QED
  BY <1>10, <1>11, <1>12 DEF Step, LiveStep, IInv
-----------------------------------------------------------------------------
(* The theorems                                                            *)

LEMMA InitOK ==
    ASSUME Init
    PROVE  IInv
<1>1. CountersOK
  BY BoundAssumption DEF Init, CountersOK
<1>2. ChannelsOK
  BY DEF Init, ChannelsOK
<1>3. StreamsOK
  <2>1. 0 \in 0..MaxStreams /\ \A d \in Streams : live[d] # None <=> d <= 0
    BY BoundAssumption DEF Init, Streams
  <2>. QED
    BY <2>1 DEF Init, StreamsOK
<1>4. PanelsOK
  <2>1. ASSUME NEW s \in Subscribers PROVE PanelTyped(s, Idle)
    BY IdleFields, EmptySeq, LengthAssumption DEF PanelTyped
  <2>2. Idle \in User /\ Idle.on = Nothing /\ user = [s \in Subscribers |-> Idle]
    BY IdleFields DEF Init
  <2>. QED
    BY <2>1, <2>2 DEF PanelsOK
<1>. QED
  BY <1>1, <1>2, <1>3, <1>4 DEF IInv

LEMMA NextOK ==
    ASSUME IInv, Next
    PROVE  Step
<1>1. ASSUME NEW c \in Channels,
             \/ InitChannel(c)
             \/ RefuseChannel(c)
             \/ CloseTimer(c)
             \/ \E data \in Frames : Subscribed(c, data)
             \/ SubscriptionError(c)
             \/ Unsubscribed(c)
      PROVE  Step
  BY <1>1, InitChannelStep, RefuseChannelStep, CloseTimerStep, SubscribedStep,
     SubscriptionErrorStep, UnsubscribedStep
<1>2. ASSUME NEW s \in Subscribers,
             \/ \E frame \in Frames,
                   init \in IF connected THEN {"done", "refused"} ELSE {"await"} :
                      Subscribe(s, frame, init)
             \/ Unsubscribe(s)
      PROVE  Step
  BY <1>2, SubscribeStep, UnsubscribeStep
<1>3. ASSUME \E schema \in Schemas \cup {NoSchema}, n \in 0..MaxPacket : Publish(schema, n)
      PROVE  Step
  BY <1>3, PublishStep
<1>. QED
  BY <1>1, <1>2, <1>3, ConnectStep, DisconnectStep, ShutdownTimerStep, SetReadyStep DEF Next

LEMMA StutterOK ==
    ASSUME IInv, UNCHANGED vars
    PROVE  IInv'
<1>1. UNCHANGED <<rows, messages, connected, blocked, ready, chan, open, live, current, user>>
  BY DEF vars
<1>2. CountersOK' /\ ChannelsOK'
  BY <1>1 DEF IInv, CountersOK, ChannelsOK
<1>3. StreamsOK' /\ PanelsOK'
  BY <1>1 DEF IInv, StreamsOK, PanelsOK
<1>. QED
  BY <1>2, <1>3 DEF IInv

(* The invariant on which the properties below rest: channels, streams and *)
(* panels are related as in ChannelsOK, StreamsOK and PanelsOK.            *)
THEOREM InvHolds == Spec => []IInv
<1>1. IInv /\ [Next]_vars => IInv'
  BY NextOK, StutterOK DEF Step
<1>. QED
  BY <1>1, InitOK, PTL DEF Spec

(* Every variable has its type, and no panel's frame is longer than the    *)
(* panel wants it (StreamingDataFrame.ts).                                 *)
THEOREM TypeCorrect == Spec => []TypeOK
<1>1. IInv => TypeOK
  BY DEF IInv, CountersOK, ChannelsOK, StreamsOK, PanelsOK, PanelTyped, TypeOK
<1>. QED
  BY <1>1, InvHolds, PTL

(* Nothing the stream has is held back while the page keeps up             *)
(* (LiveDataStream.ts bufferIfNot).                                        *)
THEOREM NothingIsHeldBack == Spec => []ReadyIsCurrent
<1>1. IInv => ReadyIsCurrent
  <2>. SUFFICES ASSUME IInv, ready, NEW s \in Subscribers, user[s].on # Nothing
                PROVE  /\ user[s].buffer = <<>>
                       /\ live[user[s].on].last # None => user[s].seen = Len(live[user[s].on].log)
    BY DEF ReadyIsCurrent
  <2>1. Attends(user[s], live[user[s].on], ready)
    BY PanelIs DEF IInv, PanelOK
  <2>. QED
    BY <2>1 DEF Attends
<1>. QED
  BY <1>1, InvHolds, PTL

(* The stream a panel would be given next is not over, whichever stream    *)
(* has shut down in between (LiveDataStream.ts shutdown).                  *)
THEOREM GivenStreamLives == Spec => []CurrentIsAlive
<1>1. IInv => CurrentIsAlive
  BY DEF IInv, StreamsOK, CurrentIsAlive
<1>. QED
  BY <1>1, InvHolds, PTL
-----------------------------------------------------------------------------
(* Live streams keep what LiveFrames promises                              *)

LEMMA InitPromise ==
    ASSUME Init
    PROVE  Promise!Init
BY IdleFields DEF Init, Lacks, Promise!Init, Promise!NoStream, Promise!NotYet, Nothing, NotYet

LEMMA GrowPromise ==
    ASSUME IInv, NEW d \in Streams, StreamMoves(d)
    PROVE  Promise!Grow(d)
<1>. DEFINE l == LogAt(live, d)
            m == LogAt(live', d)
<1>1. l \in RowSeqs
  <2>1. CASE live[d] = None
    BY <2>1, EmptySeq DEF LogAt, RowSeqs
  <2>2. CASE live[d] # None
    BY <2>2, StreamIs, StreamFields DEF LogAt, IInv
  <2>. QED
    BY <2>1, <2>2
<1>2. Promise!Grow(d) <=> \/ Len(l) <= Len(m) /\ SubSeq(m, 1, Len(l)) = l
                          \/ m = <<>> /\ \A s \in Subscribers : user'[s].on # d
  BY DEF Promise!Grow, LogAt
<1>3. \/ \E x \in RowSeqs : m = l \o x
      \/ m = <<>> /\ \A s \in Subscribers : user'[s].on # d
  BY DEF StreamMoves
<1>. HIDE DEF l, m
<1>4. ASSUME NEW x \in RowSeqs, m = l \o x
      PROVE  Len(l) <= Len(m) /\ SubSeq(m, 1, Len(l)) = l
  <2>1. /\ m \in Seq(1..MaxRows) /\ Len(m) = Len(l) + Len(x) /\ Len(l) \in Nat /\ Len(x) \in Nat
        /\ \A i \in 1..(Len(l) + Len(x)) : m[i] = IF i <= Len(l) THEN l[i] ELSE x[i - Len(l)]
    BY <1>1, <1>4, ConcatProperties, LenProperties DEF RowSeqs
  <2>2. \A i \in 1..Len(l) : m[i] = l[i] /\ m[i] \in 1..MaxRows
    <3>1. \A i \in 1..Len(l) : i \in 1..(Len(l) + Len(x)) /\ i <= Len(l)
      BY <2>1
    <3>2. \A i \in 1..Len(l) : l[i] \in 1..MaxRows
      BY <1>1, ElementOfSeq DEF RowSeqs
    <3>. QED
      BY <2>1, <3>1, <3>2
  <2>3. /\ SubSeq(m, 1, Len(l)) \in Seq(1..MaxRows)
        /\ Len(SubSeq(m, 1, Len(l))) = Len(l)
        /\ \A i \in 1..Len(l) : SubSeq(m, 1, Len(l))[i] = m[i]
    BY <2>1, <2>2, SubSeqProperties
  <2>. QED
    BY <1>1, <2>1, <2>2, <2>3, SeqEqual DEF RowSeqs
<1>. QED
  BY <1>2, <1>3, <1>4

LEMMA LogType ==
    ASSUME NEW streams \in [Streams -> Stream \cup {None}], NEW d \in Streams
    PROVE  LogAt(streams, d) \in RowSeqs
<1>1. CASE streams[d] = None
  BY <1>1, EmptySeq DEF LogAt, RowSeqs
<1>2. CASE streams[d] # None
  <2>1. streams[d] \in Stream
    BY <1>2
  <2>. QED
    BY <1>2, <2>1, StreamFields DEF LogAt
<1>. QED
  BY <1>1, <1>2

(* The rows that LiveFrames says panel s may be deprived of.               *)
LEMMA CutShortPromise ==
    ASSUME NEW s \in Subscribers, NEW n, Loss(s, Cutters(s), n)
    PROVE  \E r \in Replaces \ {s} : /\ user[r].on = user[s].on /\ user'[r].on = user[s].on
                                     /\ MaxLength[r] < n
BY DEF Loss, Cutters

LEMMA MayLackPromise ==
    ASSUME NEW s \in Subscribers, user[s] \in User, user[s].on \in Streams,
           LogAt(live', user[s].on) \in RowSeqs,
           MayLack(s, user[s], LogAt(live', user[s].on), Cutters(s))
    PROVE  Promise!MayLack(s)
<1>. DEFINE u == user[s]
            L == LogAt(live', u.on)
            N == SubSeq(L, u.seen + 1, Len(L))
<1>1. Promise!News(s) = N
  BY DEF Promise!News, LogAt
<1>2. L \in Seq(1..MaxRows) /\ u.seen \in Nat \cup {NotYet} /\ u.seen # NotYet
  BY UserFields DEF MayLack, RowSeqs
<1>3. Lacks(u) = "rows" \/ (Lacks(u) = "nothing" /\ Loss(s, Cutters(s), Len(L) - u.seen))
  BY DEF MayLack
<1>. HIDE DEF L
<1>4. CASE Lacks(u) = "rows"
  BY <1>2, <1>4 DEF Promise!MayLack, Promise!NotYet, NotYet
<1>5. CASE Lacks(u) = "nothing" /\ Loss(s, Cutters(s), Len(L) - u.seen)
  <2>1. PICK r \in Replaces \ {s} : /\ user[r].on = user[s].on /\ user'[r].on = user[s].on
                                    /\ MaxLength[r] < Len(L) - u.seen
    BY <1>5 DEF Loss, Cutters
  <2>2. MaxLength[r] \in Nat /\ Len(L) \in Nat /\ u.seen \in Nat /\ r \in Subscribers
    <3>1. Len(L) \in Nat
      BY <1>2, LenProperties
    <3>. QED
      BY <1>2, <3>1, LengthAssumption
  <2>3. u.seen \in 0..Len(L)
    BY <2>1, <2>2
  <2>4. Len(N) = Len(L) - u.seen
    <3>. DEFINE k == u.seen
    <3>1. k \in 0..Len(L)
      BY <2>3
    <3>. HIDE DEF k
    <3>2. Len(SubSeq(L, k + 1, Len(L))) = Len(L) - k
      BY <1>2, <3>1, Rest
    <3>. QED
      BY <3>2 DEF k
  <2>5. Len(Promise!News(s)) = Len(L) - u.seen
    BY <1>1, <2>4
  <2>6. MaxLength[r] < Len(Promise!News(s))
    BY <2>1, <2>5
  <2>. HIDE DEF u
  <2>. QED
    BY <1>2, <1>5, <2>1, <2>2, <2>6 DEF Promise!MayLack, Promise!CutShort, Promise!NotYet, NotYet, u
<1>. QED
  BY <1>3, <1>4, <1>5

LEMMA PanelPromise ==
    ASSUME IInv, StreamsOK', NEW s \in Subscribers, PanelMoves(s)
    PROVE  Promise!Idle(s) \/ Promise!Leave(s) \/ Promise!Join(s) \/ Promise!Show(s)
<1>. DEFINE u == user[s]
            v == user'[s]
            L == LogAt(live', u.on)
            cut == Cutters(s)
<1>1. u \in User /\ u.on \in Streams \cup {Nothing} /\ (u.on = Nothing => u = Idle)
  BY PanelIs DEF IInv, PanelTyped
<1>2. u.on \in Streams => L \in RowSeqs
  BY LogType DEF StreamsOK
<1>3. MayLack(s, u, L, cut) => Promise!MayLack(s)
  <2>1. MayLack(s, u, L, cut) => u.on \in Streams
    BY <1>1, IdleFields DEF MayLack
  <2>. QED
    BY <1>1, <1>2, <2>1, MayLackPromise
<1>4. CASE Stays(s, u, v, L, cut)
  <2>1. v.on = u.on /\ v.seen = u.seen
    BY <1>4 DEF Stays
  <2>2. CASE v.view = u.view /\ Lacks(v) = Lacks(u)
    BY <2>1, <2>2 DEF Promise!Idle
  <2>3. CASE /\ s \in Replaces /\ Loss(s, cut, Len(u.view))
             /\ Promise!IsWindow(v.view, Len(u.view), u.view) /\ Lacks(v) = Lacks(u)
    <3>1. PICK r \in Replaces \ {s} : /\ user[r].on = user[s].on /\ user'[r].on = user[s].on
                                      /\ MaxLength[r] < Len(u.view)
      BY <2>3 DEF Loss, Cutters
    <3>2. r \in Subscribers
      BY <3>1, LengthAssumption
    <3>. QED
      BY <2>1, <2>3, <3>1, <3>2 DEF Promise!Idle, Promise!CutShort
  <2>4. CASE s \notin Replaces /\ Lacks(v) = "rows" /\ MayLack(s, u, L, cut) /\ v.view = u.view
    BY <1>3, <2>1, <2>4 DEF Promise!Idle
  <2>. QED
    BY <1>4, <2>2, <2>3, <2>4 DEF Stays
<1>5. CASE Left(v)
  BY <1>5 DEF Left, Promise!Leave, Promise!NoStream, Promise!NotYet, Nothing, NotYet
<1>6. CASE Joined(s, u, v, LogAt(live', v.on))
  <2>1. v.on \in Streams
    BY <1>6 DEF Joined
  <2>. QED
    BY <1>6, <2>1 DEF Joined, WholeFrame, LogAt, Promise!Join, Promise!WholeFrame, Promise!NoStream,
                      Promise!NotYet, Nothing, NotYet
<1>7. CASE u.on # Nothing /\ v.on = u.on /\ Promised(s, u, v, L, cut)
  <2>1. u.on \in Streams
    BY <1>1, <1>7
  <2>2. v.seen = Len(L) /\ v.on = u.on /\ u.on # Nothing
    BY <1>7 DEF Promised
  <2>3. CASE (s \in Replaces \/ u.seen = NotYet \/ Lacks(u) # "nothing") /\ WholeFrame(s, v, L)
    <3>1. Promise!WholeFrame(s, u.on)
      BY <2>1, <2>3 DEF WholeFrame, Promise!WholeFrame, LogAt
    <3>. QED
      BY <2>1, <2>2, <2>3, <3>1
         DEF LogAt, WholeFrame, Promise!Show, Promise!WholeFrame, Promise!NoStream, Promise!NotYet, Nothing, NotYet
  <2>4. CASE /\ s \notin Replaces /\ u.seen # NotYet /\ Lacks(u) = "nothing" /\ Lacks(v) = "nothing"
             /\ v.view = Promise!Trim(u.view \o SubSeq(L, u.seen + 1, Len(L)), MaxLength[s])
    <3>1. Promise!News(s) = SubSeq(L, u.seen + 1, Len(L))
      BY <2>1 DEF Promise!News, LogAt
    <3>. QED
      BY <2>1, <2>2, <2>4, <3>1
         DEF LogAt, Promise!Show, Promise!NoStream, Promise!NotYet, Nothing, NotYet
  <2>5. CASE /\ s \notin Replaces /\ Lacks(v) = "rows" /\ MayLack(s, u, L, cut)
             /\ Len(v.view) <= MaxLength[s] /\ Newest(v.view, L)
    BY <1>3, <2>1, <2>2, <2>5
       DEF LogAt, Newest, Promise!ShowsNewest, Promise!Show, Promise!NoStream, Promise!NotYet, Nothing, NotYet
  <2>6. CASE Lacks(u) = "fields" /\ Lacks(v) = "fields" /\ v.view = u.view
    BY <2>1, <2>2, <2>6
       DEF LogAt, Promise!Show, Promise!NoStream, Promise!NotYet, Nothing, NotYet
  <2>. QED
    BY <1>7, <2>3, <2>4, <2>5, <2>6 DEF Promised
<1>. QED
  BY <1>4, <1>5, <1>6, <1>7 DEF PanelMoves

(* Whatever is sent as a whole, as a difference, late or several at once,  *)
(* every panel sees a window of the rows of its stream in which no row is  *)
(* lost, repeated or out of order, as long as a message of the server fits *)
(* in the buffer of a stream (LiveDataStream.ts get, live.ts               *)
(* getDataStream).                                                         *)
THEOREM FramesArePromised ==
    ASSUME PacketsFit
    PROVE  Spec => ImplementsFrames
<1>1. Init => Promise!Init
  BY InitPromise
<1>2. IInv /\ [Next]_vars => [Promise!Next]_(Promise!vars)
  <2>1. CASE IInv /\ Next
    <3>1. (\A d \in Streams : StreamMoves(d)) /\ \A s \in Subscribers : PanelMoves(s)
      BY <2>1, NextOK DEF Step, Moves
    <3>2. (\A d \in Streams : Promise!Grow(d))
      BY <2>1, <3>1, GrowPromise
    <3>3. \A s \in Subscribers : Promise!Idle(s) \/ Promise!Leave(s) \/ Promise!Join(s) \/ Promise!Show(s)
      BY <2>1, <3>1, NextOK, PanelPromise DEF Step, IInv
    <3>. QED
      BY <3>2, <3>3 DEF Promise!Next
  <2>2. CASE UNCHANGED vars
    BY <2>2 DEF vars, Promise!vars
  <2>. QED
    BY <2>1, <2>2
<1>. QED
  BY <1>1, <1>2, InvHolds, PTL DEF Spec, ImplementsFrames, Promise!Spec
=============================================================================
