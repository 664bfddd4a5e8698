--------------------------- MODULE Streams_proofs -----------------------------
(***************************************************************************)
(* Theorems about the streams of envelopes, for any number of connections, *)
(* traces, calls and subscriptions.                                        *)
(*                                                                         *)
(* EventRing: what a connection was sent is in order, and what it has not  *)
(* been sent and still wants is in the ring, in its batch or dropped.      *)
(* StreamHub: a connection and the snapshot get an envelope in the same    *)
(* step, or the connection leaves its hub in that step, and then it never  *)
(* comes back.                                                             *)
(* EventStream: late answers leave the rows in order, and what a mounted   *)
(* hook waits for is its source or a fetch of its own subscription.        *)
(***************************************************************************)
EXTENDS EventRing, StreamHub, EventStream, Selection_proofs, TLAPS

(***************************************************************************)
(* EventRing.                                                              *)
(***************************************************************************)

\* The numbers of b rise, from above l, and go no higher than what was assigned.
Rising(b, l) ==
    /\ b \in Seq(Envelope)
    /\ \A i \in DOMAIN b : l < b[i].sequence /\ b[i].sequence <= seq
    /\ \A i, j \in DOMAIN b : i < j => b[i].sequence < b[j].sequence

\* The numbers in s rise, and go no higher than l.
InOrder(s, l) ==
    /\ s \in Seq(Nat \ {0})
    /\ \A i \in DOMAIN s : s[i] <= l
    /\ \A i, j \in DOMAIN s : i < j => s[i] < s[j]

\* What an open connection has sent is in order and not beyond its cursor, and its batch
\* goes on from there.
ConnOK(c) ==
    /\ conn[c] \in [open : {TRUE}, filter : RingTrace \cup {AllTraces}, last : Nat,
                    batch : Seq(Envelope), sent : Seq(Nat \ {0})]
    /\ conn[c].last <= seq
    /\ Rising(conn[c].batch, conn[c].last)
    /\ InOrder(conn[c].sent, conn[c].last)

\* What c has of the ring, as MissedOnlyIfEvicted says it.
Served(c, env) ==
    Matches(conn[c].filter, env) =>
        \/ env.sequence \in SentBy(c) \cup InBatch(c)
        \/ env.sequence > conn[c].last /\ \A k \in InBatch(c) : k < env.sequence

RingInv ==
    /\ seq \in Nat /\ ring \in Seq(Envelope)
    /\ RingIsTheTail
    /\ DOMAIN conn = Conn
    /\ \A c \in Conn : \/ conn[c] = Closed
                       \/ ConnOK(c) /\ \A i \in DOMAIN ring : Served(c, ring[i])

\* emit() numbers on, and drops from the front.
LEMMA EmitKeepsTheTail ==
    ASSUME RingAssumption, RingInv, NEW t \in RingTrace, NEW n \in Note, Emit(t, n)
    PROVE  /\ seq' = seq + 1 /\ ring' \in Seq(Envelope) /\ RingIsTheTail'
           /\ \A i \in DOMAIN ring' : \/ ring'[i].sequence = seq + 1
                                      \/ \E j \in DOMAIN ring : ring'[i] = ring[j]
<1> DEFINE e == [sequence |-> seq + 1, trace |-> t, note |-> n]
           r == Append(ring, e)
<1>1. seq' = seq + 1 /\ ring' = Trimmed(r)
  BY DEF Emit
<1>2. e \in Envelope /\ e.sequence = seq + 1
  BY DEF RingInv, Envelope
<1> HIDE DEF e
<1>3. /\ r \in Seq(Envelope) /\ Len(r) = Len(ring) + 1 /\ Len(ring) \in Nat
      /\ r[Len(r)] = e /\ \A i \in 1..Len(ring) : r[i] = ring[i]
  BY <1>2 DEF RingInv
<1> HIDE DEF r
<1>4. Len(ring) <= RING_CAPACITY /\ RING_CAPACITY \in Nat \ {0} /\ seq \in Nat
  BY DEF RingInv, RingIsTheTail, RingAssumption
<1>5. \A i \in 1..Len(r) : r[i].sequence = seq + 1 - Len(r) + i
  <2>1. \A i \in 1..Len(ring) : ring[i].sequence = seq - Len(ring) + i
    BY DEF RingInv, RingIsTheTail
  <2>2. \A i \in 1..Len(r) : i = Len(r) \/ i \in 1..Len(ring)
    BY <1>3
  <2> QED
    BY <1>2, <1>3, <1>4, <2>1, <2>2
<1>6. \A i \in 1..Len(r) : \/ r[i].sequence = seq + 1
                           \/ \E j \in DOMAIN ring : r[i] = ring[j]
  <2>1. \A i \in 1..Len(r) : i = Len(r) \/ i \in 1..Len(ring)
    BY <1>3
  <2> QED
    BY <1>2, <1>3, <2>1 DEF RingInv
<1>7. CASE Len(r) > RING_CAPACITY
  <2> DEFINE d == Len(r) - RING_CAPACITY
  <2>1. d \in Nat /\ d + 1 \in 1..Len(r) /\ Len(r) = RING_CAPACITY + d
    BY <1>3, <1>4, <1>7
  <2>2. ring' = SubSeq(r, d + 1, Len(r))
    BY <1>1, <1>7 DEF Trimmed
  <2> HIDE DEF d
  <2>3. /\ ring' \in Seq(Envelope) /\ Len(ring') = RING_CAPACITY
        /\ \A i \in 1..Len(ring') : ring'[i] = r[d + i]
    <3>1. /\ SubSeq(r, d + 1, Len(r)) \in Seq(Envelope)
          /\ Len(SubSeq(r, d + 1, Len(r))) = Len(r) - d
          /\ \A i \in 1 .. Len(r) - d : SubSeq(r, d + 1, Len(r))[i] = r[d + i]
      BY <1>3, <2>1
    <3> QED
      BY <1>4, <2>1, <2>2, <3>1
  <2>4. \A i \in DOMAIN ring' : d + i \in 1..Len(r)
    BY <1>4, <2>1, <2>3
  <2>5. \A i \in DOMAIN ring' : ring'[i].sequence = seq' - Len(ring') + i
    BY <1>1, <1>4, <1>5, <2>1, <2>3, <2>4
  <2>6. \A i \in DOMAIN ring' : \/ ring'[i].sequence = seq + 1
                                \/ \E j \in DOMAIN ring : ring'[i] = ring[j]
    BY <1>6, <2>3, <2>4
  <2>7. Len(ring') <= RING_CAPACITY
    BY <1>4, <2>3
  <2> QED
    BY <1>1, <2>3, <2>5, <2>6, <2>7 DEF RingIsTheTail
<1>8. CASE Len(r) <= RING_CAPACITY
  <2>1. ring' = r
    BY <1>1, <1>3, <1>4, <1>8 DEF Trimmed
  <2>2. \A i \in DOMAIN ring' : ring'[i].sequence = seq' - Len(ring') + i
    <3>1. DOMAIN r = 1..Len(r) /\ seq' = seq + 1
      BY <1>1, <1>3
    <3>2. ASSUME NEW i \in DOMAIN r PROVE r[i].sequence = seq' - Len(r) + i
      <4>1. i \in 1..Len(r)
        BY <3>1
      <4>2. r[i].sequence = seq + 1 - Len(r) + i
        BY <1>5, <4>1
      <4> QED
        BY <1>3, <1>4, <3>1, <4>1, <4>2, SMT
    <3> QED
      BY <2>1, <3>2, Zenon
  <2> QED
    BY <1>1, <1>3, <1>6, <1>8, <2>1, <2>2 DEF RingIsTheTail
<1> QED
  BY <1>3, <1>4, <1>7, <1>8

\* since() returns what is above the cursor and matches, in the order of the numbers.
LEMMA SinceRises ==
    ASSUME RingInv, NEW l \in Nat, NEW f
    PROVE  /\ Rising(Since(l, f), l)
           /\ \A i \in DOMAIN ring :
                ring[i].sequence > l /\ Matches(f, ring[i]) =>
                    \E k \in DOMAIN Since(l, f) : Since(l, f)[k] = ring[i]
<1> DEFINE S == {env \in InRing : env.sequence > l /\ Matches(f, env)}
           b == Since(l, f)
<1>1. b = Selected(ring, S)
  BY DEF Since
<1>2. ring \in Seq(Envelope) /\ seq \in Nat /\ Len(ring) \in Nat
      /\ \A i \in DOMAIN ring : ring[i].sequence = seq - Len(ring) + i
  BY DEF RingInv, RingIsTheTail
<1>3. \A i \in DOMAIN ring : ring[i] \in S <=> ring[i].sequence > l /\ Matches(f, ring[i])
  BY DEF InRing
<1> HIDE DEF S, b
<1>4. b \in Seq(Envelope)
  BY <1>1, <1>2, SelectedFacts
<1>5. PICK pos : PicksUpTo(ring, S, Len(ring), b, pos)
  BY <1>1, <1>2, SelectedFacts
<1>6. /\ pos \in [1..Len(b) -> 1..Len(ring)]
      /\ \A i \in 1..Len(b) : ring[pos[i]] \in S /\ b[i] = ring[pos[i]]
      /\ \A i, j \in 1..Len(b) : i < j => pos[i] < pos[j]
      /\ \A k \in 1..Len(ring) : ring[k] \in S => \E i \in 1..Len(b) : pos[i] = k
  BY <1>5 DEF PicksUpTo
<1>7. \A i \in DOMAIN b : /\ pos[i] \in DOMAIN ring
                          /\ b[i].sequence = seq - Len(ring) + pos[i] /\ b[i].sequence > l
  BY <1>2, <1>3, <1>4, <1>6
<1>8. \A i \in DOMAIN b : l < b[i].sequence /\ b[i].sequence <= seq
  BY <1>2, <1>7
<1>9. ASSUME NEW i \in DOMAIN b, NEW j \in DOMAIN b, i < j
      PROVE  b[i].sequence < b[j].sequence
  <2>1. pos[i] \in Int /\ pos[j] \in Int /\ pos[i] < pos[j]
    BY <1>4, <1>6, <1>9
  <2>2. /\ b[i].sequence = seq - Len(ring) + pos[i]
        /\ b[j].sequence = seq - Len(ring) + pos[j]
    BY <1>7
  <2> QED
    BY <1>2, <2>1, <2>2
<1>10. Rising(b, l)
  BY <1>4, <1>8, <1>9 DEF Rising
<1>11. ASSUME NEW i \in DOMAIN ring, ring[i].sequence > l, Matches(f, ring[i])
       PROVE  \E k \in DOMAIN b : b[k] = ring[i]
  <2>1. i \in 1..Len(ring) /\ ring[i] \in S
    BY <1>2, <1>3, <1>11
  <2>2. PICK k \in 1..Len(b) : pos[k] = i
    BY <1>6, <2>1
  <2> QED
    BY <1>4, <1>6, <2>2
<1> QED
  BY <1>10, <1>11 DEF b

\* A sequence without its first element.
LEMMA TailFacts ==
    ASSUME NEW S, NEW b \in Seq(S), b # <<>>
    PROVE  /\ Len(b) \in Nat \ {0} /\ DOMAIN b = 1..Len(b) /\ b[1] \in S /\ Head(b) = b[1]
           /\ Tail(b) \in Seq(S) /\ DOMAIN Tail(b) = 1 .. Len(b) - 1
           /\ \A i \in 1 .. Len(b) - 1 : Tail(b)[i] = b[i + 1]
OBVIOUS

\* What is left of a batch goes on from the frame that was sent.
LEMMA RestRises ==
    ASSUME seq \in Nat, NEW l \in Nat, NEW b, Rising(b, l), b # <<>>
    PROVE  /\ Rising(Tail(b), Head(b).sequence)
           /\ Head(b).sequence \in Nat \ {0}
           /\ l < Head(b).sequence /\ Head(b).sequence <= seq
<1>1. /\ b \in Seq(Envelope)
      /\ \A i \in DOMAIN b : l < b[i].sequence /\ b[i].sequence <= seq
      /\ \A i, j \in DOMAIN b : i < j => b[i].sequence < b[j].sequence
  BY DEF Rising
<1>2. PICK m \in Nat \ {0} : m = Len(b)
  BY <1>1, TailFacts
<1>3. PICK t : t = Tail(b)
  OBVIOUS
<1>4. /\ DOMAIN b = 1..m /\ b[1] \in Envelope /\ Head(b) = b[1]
      /\ t \in Seq(Envelope) /\ DOMAIN t = 1 .. m - 1 /\ \A i \in 1 .. m - 1 : t[i] = b[i + 1]
  BY <1>1, <1>2, <1>3, TailFacts
<1>5. PICK n : n = b[1].sequence
  OBVIOUS
<1>6. n \in Nat \ {0} /\ l < n /\ n <= seq
  BY <1>1, <1>2, <1>4, <1>5 DEF Envelope
<1>7. \A i \in DOMAIN t : i + 1 \in DOMAIN b /\ 1 < i + 1 /\ t[i] = b[i + 1] /\ 1 \in DOMAIN b
  BY <1>2, <1>4
<1>8. \A i \in DOMAIN t : n < t[i].sequence /\ t[i].sequence <= seq
  BY <1>1, <1>5, <1>7
<1>9. ASSUME NEW i \in DOMAIN t, NEW j \in DOMAIN t, i < j
      PROVE  t[i].sequence < t[j].sequence
  <2>1. i + 1 < j + 1
    BY <1>4, <1>9
  <2> QED
    BY <1>1, <1>7, <2>1
<1> QED
  BY <1>3, <1>4, <1>5, <1>6, <1>8, <1>9 DEF Rising

\* What is in s.
Elements(s) == {s[i] : i \in DOMAIN s}

\* The numbers sent stay in order when a later one is added.
LEMMA SentRises ==
    ASSUME NEW l \in Nat, NEW n \in Nat \ {0}, l < n, NEW s, InOrder(s, l)
    PROVE  \A u : u = Append(s, n) =>
              /\ InOrder(u, n)
              /\ Elements(u) = Elements(s) \cup {n}
<1> SUFFICES ASSUME NEW u, u = Append(s, n)
             PROVE  /\ InOrder(u, n)
                    /\ Elements(u) = Elements(s) \cup {n}
  OBVIOUS
<1> s \in Seq(Nat \ {0})
  BY DEF InOrder
<1>1. PICK m \in Nat : m = Len(s)
  OBVIOUS
<1>2. /\ u \in Seq(Nat \ {0}) /\ DOMAIN u = 1 .. m + 1 /\ DOMAIN s = 1..m
      /\ u[m + 1] = n /\ \A i \in 1..m : u[i] = s[i]
  BY <1>1
<1>3. \A i \in 1 .. m + 1 : i = m + 1 \/ i \in 1..m
  OBVIOUS
<1>4. \A i \in 1..m : s[i] \in Nat /\ s[i] <= l /\ s[i] < n
  <2> SUFFICES ASSUME NEW i \in 1..m PROVE s[i] \in Nat /\ s[i] <= l /\ s[i] < n
    OBVIOUS
  <2>1. i \in DOMAIN s /\ s[i] \in Nat
    BY <1>2, s \in Seq(Nat \ {0})
  <2>2. s[i] <= l
    BY <2>1 DEF InOrder
  <2> QED
    BY <2>1, <2>2
<1>5. \A i \in DOMAIN u : u[i] <= n
  BY <1>2, <1>3, <1>4
<1>6. ASSUME NEW i \in DOMAIN u, NEW j \in DOMAIN u, i < j PROVE u[i] < u[j]
  <2>1. i \in 1..m
    BY <1>2, <1>6
  <2> QED
    BY <1>2, <1>3, <1>4, <1>6, <2>1 DEF InOrder
<1>7. Elements(u) = Elements(s) \cup {n}
  BY <1>2, <1>3 DEF Elements
<1> QED
  BY <1>2, <1>5, <1>6, <1>7 DEF InOrder

\* The frame sent was the first of the batch; what was sent or in the batch still is.
LEMMA FrameKeepsServed ==
    ASSUME RingInv, NEW c \in Conn, ConnOK(c), SendFrame(c)
    PROVE  ConnOK(c)' /\ \A i \in DOMAIN ring : Served(c, ring[i]) => Served(c, ring[i])'
<1>1. PICK b, l, s : b = conn[c].batch /\ l = conn[c].last /\ s = conn[c].sent
  OBVIOUS
<1>2. PICK n, t, u : n = Head(b).sequence /\ t = Tail(b) /\ u = Append(s, n)
  OBVIOUS
<1>3. /\ conn[c] \in [open : {TRUE}, filter : RingTrace \cup {AllTraces}, last : Nat,
                      batch : Seq(Envelope), sent : Seq(Nat \ {0})]
      /\ Rising(b, l) /\ InOrder(s, l)
  BY <1>1 DEF ConnOK
<1>4. b # <<>> /\ b \in Seq(Envelope) /\ l \in Nat /\ s \in Seq(Nat \ {0}) /\ seq \in Nat
  BY <1>1, <1>3 DEF SendFrame, RingInv
<1>5. Rising(t, n) /\ n \in Nat \ {0} /\ l < n /\ n <= seq
  BY <1>2, <1>3, <1>4, RestRises
<1>6. InOrder(u, n) /\ Elements(u) = Elements(s) \cup {n}
  <2>1. l \in Nat /\ n \in Nat \ {0} /\ l < n /\ InOrder(s, l) /\ u = Append(s, n)
    BY <1>2, <1>3, <1>4, <1>5
  <2> QED
    BY ONLY <2>1, SentRises, Zenon
<1>7. /\ seq' = seq /\ ring' = ring
      /\ conn' = [conn EXCEPT ![c] = [conn[c] EXCEPT !.last = n, !.sent = u, !.batch = t]]
  BY <1>1, <1>2, <1>3 DEF SendFrame
<1>8. conn'[c] = [open |-> TRUE, filter |-> conn[c].filter, last |-> n, batch |-> t, sent |-> u]
  BY <1>3, <1>7 DEF RingInv
<1>9. t \in Seq(Envelope) /\ Rising(t, n)'
  BY <1>5, <1>7 DEF Rising
<1>10. ConnOK(c)'
  <2>1. conn[c].filter \in RingTrace \cup {AllTraces}
    BY <1>3
  <2>2. conn'[c] \in [open : {TRUE}, filter : RingTrace \cup {AllTraces}, last : Nat,
                      batch : Seq(Envelope), sent : Seq(Nat \ {0})]
    BY <1>5, <1>6, <1>8, <1>9, <2>1 DEF InOrder
  <2>3. Rising(conn[c].batch, conn[c].last)'
    BY <1>8, <1>9 DEF Rising
  <2>4. conn'[c].last <= seq'
    BY <1>5, <1>7, <1>8
  <2>5. InOrder(conn'[c].sent, conn'[c].last)
    BY <1>6, <1>8
  <2>6. InOrder(conn[c].sent, conn[c].last)'
    BY <2>5 DEF InOrder
  <2> QED
    BY <2>2, <2>3, <2>4, <2>6 DEF ConnOK
<1>11. SentBy(c)' = SentBy(c) \cup {n}
  <2>1. SentBy(c)' = Elements(u) /\ SentBy(c) = Elements(s)
    BY <1>1, <1>8 DEF SentBy, Elements
  <2> QED
    BY <1>6, <2>1
<1>12. InBatch(c) = InBatch(c)' \cup {n}
  <2>1. InBatch(c)' = {t[i].sequence : i \in DOMAIN t}
        /\ InBatch(c) = {b[i].sequence : i \in DOMAIN b}
    BY <1>1, <1>8 DEF InBatch
  <2>2. PICK m \in Nat \ {0} : m = Len(b)
    BY <1>4, TailFacts
  <2>3. /\ DOMAIN b = 1..m /\ b[1].sequence = n
        /\ DOMAIN t = 1 .. m - 1 /\ \A i \in 1 .. m - 1 : t[i] = b[i + 1]
    BY <1>2, <1>4, <2>2, TailFacts
  <2>4. \A i \in 1..m : i = 1 \/ (i - 1 \in 1 .. m - 1 /\ i - 1 + 1 = i)
    OBVIOUS
  <2>5. \A i \in 1 .. m - 1 : i + 1 \in 1..m
    OBVIOUS
  <2>6. ASSUME NEW i \in DOMAIN b PROVE b[i].sequence \in InBatch(c)' \cup {n}
    <3>1. CASE i = 1
      BY <2>3, <3>1
    <3>2. CASE i # 1
      <4>1. i - 1 \in 1 .. m - 1 /\ i - 1 + 1 = i
        BY <2>3, <2>4, <3>2
      <4>2. t[i - 1] = b[i] /\ i - 1 \in DOMAIN t
        BY <2>3, <4>1
      <4> QED
        BY <2>1, <4>2
    <3> QED
      BY <3>1, <3>2
  <2>7. InBatch(c)' \subseteq InBatch(c)
    BY <2>1, <2>3, <2>5
  <2>8. n \in InBatch(c)
    BY <2>1, <2>3
  <2> QED
    BY <2>1, <2>6, <2>7, <2>8
<1>13. ASSUME NEW i \in DOMAIN ring, Served(c, ring[i]) PROVE Served(c, ring[i])'
  BY <1>7, <1>8, <1>11, <1>12, <1>13 DEF Served, Matches
<1> QED
  BY <1>10, <1>13

\* The number of an envelope is one.
LEMMA Numbered ==
    ASSUME NEW b \in Seq(Envelope), NEW i \in DOMAIN b
    PROVE  b[i].sequence \in Nat \ {0}
<1>1. b[i] \in Envelope
  OBVIOUS
<1> QED
  BY <1>1 DEF Envelope

\* A new envelope is above every cursor and every batch.
LEMMA EmitKeepsServed ==
    ASSUME RingAssumption, RingInv, NEW t \in RingTrace, NEW n \in Note, Emit(t, n),
           NEW c \in Conn, ConnOK(c), \A i \in DOMAIN ring : Served(c, ring[i])
    PROVE  ConnOK(c)' /\ \A i \in DOMAIN ring' : Served(c, ring[i])'
<1>1. /\ seq' = seq + 1 /\ seq \in Nat /\ conn' = conn
      /\ \A i \in DOMAIN ring' : \/ ring'[i].sequence = seq + 1
                                 \/ \E j \in DOMAIN ring : ring'[i] = ring[j]
  BY EmitKeepsTheTail DEF Emit, RingInv
<1>2. /\ conn[c].last \in Nat /\ conn[c].last <= seq
      /\ conn[c].batch \in Seq(Envelope)
      /\ \A i \in DOMAIN conn[c].batch : conn[c].batch[i].sequence <= seq
  BY DEF ConnOK, Rising
<1>3. \A i \in DOMAIN conn[c].batch : conn[c].batch[i].sequence \in Nat
  BY <1>2, Numbered
<1>4. ConnOK(c)'
  <2>1. Rising(conn[c].batch, conn[c].last)'
    BY <1>1, <1>2, <1>3 DEF ConnOK, Rising
  <2>2. InOrder(conn[c].sent, conn[c].last)'
    BY <1>1 DEF ConnOK, InOrder
  <2>3. conn'[c].last <= seq'
    BY <1>1, <1>2
  <2> QED
    BY <1>1, <2>1, <2>2, <2>3 DEF ConnOK
<1>5. SentBy(c)' = SentBy(c) /\ InBatch(c)' = InBatch(c)
  BY <1>1 DEF SentBy, InBatch
<1>6. \A k \in InBatch(c) : k < seq + 1
  BY <1>1, <1>2, <1>3 DEF InBatch
<1>7. ASSUME NEW i \in DOMAIN ring' PROVE Served(c, ring[i])'
  <2>1. CASE ring'[i].sequence = seq + 1
    <3>1. ring'[i].sequence > conn[c].last /\ \A k \in InBatch(c) : k < ring'[i].sequence
      BY <1>1, <1>2, <1>6, <2>1
    <3> QED
      BY <1>1, <1>5, <3>1 DEF Served
  <2>2. CASE \E j \in DOMAIN ring : ring'[i] = ring[j]
    <3>1. PICK j \in DOMAIN ring : ring'[i] = ring[j]
      BY <2>2
    <3>2. Served(c, ring[j])
      OBVIOUS
    <3> QED
      BY <1>1, <1>5, <3>1, <3>2 DEF Served, Matches
  <2> QED
    BY <1>1, <2>1, <2>2
<1> QED
  BY <1>4, <1>7

\* A poll takes all that is above the cursor and matches.
LEMMA PollKeepsServed ==
    ASSUME RingInv, NEW c \in Conn, ConnOK(c), Poll(c),
           \A i \in DOMAIN ring : Served(c, ring[i])
    PROVE  ConnOK(c)' /\ \A i \in DOMAIN ring : Served(c, ring[i])'
<1>1. PICK l, f, s : l = conn[c].last /\ f = conn[c].filter /\ s = conn[c].sent
  OBVIOUS
<1>2. PICK b : b = Since(l, f)
  OBVIOUS
<1>3. /\ conn[c] \in [open : {TRUE}, filter : RingTrace \cup {AllTraces}, last : Nat,
                      batch : Seq(Envelope), sent : Seq(Nat \ {0})]
      /\ l <= seq /\ l \in Nat /\ InOrder(s, l) /\ conn[c].batch = <<>>
      /\ f \in RingTrace \cup {AllTraces}
  BY <1>1 DEF ConnOK, Poll
<1>4. /\ Rising(b, l)
      /\ \A i \in DOMAIN ring :
           ring[i].sequence > l /\ Matches(f, ring[i]) => \E k \in DOMAIN b : b[k] = ring[i]
  BY <1>2, <1>3, SinceRises
<1>5. /\ seq' = seq /\ ring' = ring
      /\ conn' = [conn EXCEPT ![c] = [conn[c] EXCEPT !.batch = b]]
  BY <1>1, <1>2 DEF Poll
<1>6. conn'[c] = [open |-> TRUE, filter |-> f, last |-> l, batch |-> b, sent |-> s]
  BY <1>1, <1>3, <1>5 DEF RingInv
<1>7. b \in Seq(Envelope) /\ Rising(b, l)'
  BY <1>4, <1>5 DEF Rising
<1>8. ConnOK(c)'
  <2>1. conn'[c] \in [open : {TRUE}, filter : RingTrace \cup {AllTraces}, last : Nat,
                      batch : Seq(Envelope), sent : Seq(Nat \ {0})]
    BY <1>3, <1>6, <1>7 DEF InOrder
  <2>2. Rising(conn[c].batch, conn[c].last)'
    BY <1>6, <1>7 DEF Rising
  <2>3. conn'[c].last <= seq'
    BY <1>3, <1>5, <1>6
  <2>4. InOrder(conn'[c].sent, conn'[c].last)
    BY <1>3, <1>6
  <2>5. InOrder(conn[c].sent, conn[c].last)'
    BY <2>4 DEF InOrder
  <2> QED
    BY <2>1, <2>2, <2>3, <2>5 DEF ConnOK
<1>9. SentBy(c)' = SentBy(c) /\ InBatch(c)' = {b[i].sequence : i \in DOMAIN b} /\ InBatch(c) = {}
  BY <1>1, <1>3, <1>6 DEF SentBy, InBatch
<1>10. ASSUME NEW i \in DOMAIN ring PROVE Served(c, ring[i])'
  <2> SUFFICES ASSUME Matches(conn'[c].filter, ring'[i])
               PROVE  ring'[i].sequence \in SentBy(c)' \cup InBatch(c)'
    BY <1>5 DEF Served, Matches
  <2>1. Matches(f, ring[i]) /\ Matches(conn[c].filter, ring[i])
    BY <1>1, <1>5, <1>6 DEF Matches
  <2>2. ring[i].sequence \in SentBy(c) \/ ring[i].sequence > l
    BY <1>1, <1>9, <2>1 DEF Served
  <2>3. CASE ring[i].sequence > l
    <3>1. PICK k \in DOMAIN b : b[k] = ring[i]
      BY <1>4, <2>1, <2>3
    <3> QED
      BY <1>5, <1>9, <3>1
  <2> QED
    BY <1>5, <1>9, <2>2, <2>3
<1> QED
  BY <1>8, <1>10

\* All of the ring is ahead of a new connection.
LEMMA ConnectServes ==
    ASSUME RingInv, NEW c \in Conn, NEW f \in RingTrace \cup {AllTraces}, Connect(c, f)
    PROVE  ConnOK(c)' /\ \A i \in DOMAIN ring : Served(c, ring[i])'
<1>1. /\ seq' = seq /\ ring' = ring /\ seq \in Nat
      /\ conn'[c] = [open |-> TRUE, filter |-> f, last |-> 0, batch |-> <<>>, sent |-> <<>>]
  BY DEF Connect, Stream, RingInv
<1>2. ConnOK(c)'
  <2>1. conn'[c] \in [open : {TRUE}, filter : RingTrace \cup {AllTraces}, last : Nat,
                      batch : Seq(Envelope), sent : Seq(Nat \ {0})]
    BY <1>1
  <2>2. Rising(conn[c].batch, conn[c].last)'
    BY <1>1 DEF Rising
  <2>3. conn'[c].last <= seq'
    BY <1>1
  <2>4. InOrder(conn[c].sent, conn[c].last)'
    BY <1>1 DEF InOrder
  <2> QED
    BY <2>1, <2>2, <2>3, <2>4 DEF ConnOK
<1>3. SentBy(c)' = {} /\ InBatch(c)' = {}
  BY <1>1 DEF SentBy, InBatch
<1>4. \A i \in DOMAIN ring : ring[i].sequence \in Nat \ {0}
  BY Numbered DEF RingInv
<1> QED
  BY <1>1, <1>2, <1>3, <1>4 DEF Served

\* Nothing changes for a connection whose record and whose ring do not.
LEMMA OthersKeepServed ==
    ASSUME UNCHANGED <<seq, ring>>, NEW c, conn'[c] = conn[c]
    PROVE  /\ ConnOK(c)' = ConnOK(c)
           /\ \A i \in DOMAIN ring : Served(c, ring[i])' = Served(c, ring[i])
<1>1. SentBy(c)' = SentBy(c) /\ InBatch(c)' = InBatch(c)
  BY DEF SentBy, InBatch
<1> QED
  BY <1>1 DEF ConnOK, Rising, InOrder, Served, Matches

\* Before anything is emitted there is nothing to serve.
LEMMA RingInvInit == RingAssumption /\ RingInit => RingInv
BY DEF RingAssumption, RingInit, RingInv, RingIsTheTail

\* Every step keeps the ring the newest envelopes and every connection served from it.
LEMMA RingInvStep == RingAssumption /\ RingInv /\ [RingNext]_ringVars => RingInv'
<1> SUFFICES ASSUME RingAssumption, RingInv, [RingNext]_ringVars PROVE RingInv'
  OBVIOUS
<1>0. /\ seq \in Nat /\ ring \in Seq(Envelope) /\ RingIsTheTail /\ DOMAIN conn = Conn
      /\ \A c \in Conn : \/ conn[c] = Closed
                         \/ ConnOK(c) /\ \A i \in DOMAIN ring : Served(c, ring[i])
  BY DEF RingInv
<1>1. ASSUME NEW t \in RingTrace, NEW n \in Note, Emit(t, n) PROVE RingInv'
  <2>1. conn' = conn /\ seq' \in Nat /\ ring' \in Seq(Envelope) /\ RingIsTheTail'
    BY <1>0, <1>1, EmitKeepsTheTail DEF Emit
  <2>2. ASSUME NEW c \in Conn
        PROVE  \/ conn'[c] = Closed
               \/ ConnOK(c)' /\ \A i \in DOMAIN ring' : Served(c, ring[i])'
    BY <1>0, <1>1, <2>1, EmitKeepsServed
  <2> QED
    BY <1>0, <2>1, <2>2 DEF RingInv, Closed
<1>2. ASSUME NEW c \in Conn, UNCHANGED <<seq, ring>>, DOMAIN conn' = Conn,
             \A d \in Conn \ {c} : conn'[d] = conn[d],
             \/ conn'[c] = Closed
             \/ ConnOK(c)' /\ \A i \in DOMAIN ring : Served(c, ring[i])'
      PROVE  RingInv'
  <2>1. RingIsTheTail'
    BY <1>0, <1>2 DEF RingIsTheTail
  <2>2. ASSUME NEW d \in Conn
        PROVE  \/ conn'[d] = Closed
               \/ ConnOK(d)' /\ \A i \in DOMAIN ring' : Served(d, ring[i])'
    <3>1. CASE d = c
      BY <1>2, <3>1
    <3>2. CASE d # c
      BY <1>0, <1>2, <3>2, OthersKeepServed
    <3> QED
      BY <3>1, <3>2
  <2> QED
    BY <1>0, <1>2, <2>1, <2>2 DEF RingInv, Closed
<1>3. ASSUME NEW c \in Conn, NEW f \in RingTrace \cup {AllTraces}, Connect(c, f) PROVE RingInv'
  <2>1. /\ UNCHANGED <<seq, ring>> /\ DOMAIN conn' = Conn
        /\ \A d \in Conn \ {c} : conn'[d] = conn[d]
    BY <1>0, <1>3 DEF Connect
  <2>2. ConnOK(c)' /\ \A i \in DOMAIN ring : Served(c, ring[i])'
    BY <1>3, ConnectServes
  <2> QED
    BY <1>2, <2>1, <2>2
<1>4. ASSUME NEW c \in Conn, Poll(c) PROVE RingInv'
  <2>1. /\ UNCHANGED <<seq, ring>> /\ DOMAIN conn' = Conn
        /\ \A d \in Conn \ {c} : conn'[d] = conn[d]
    BY <1>0, <1>4 DEF Poll
  <2>2. conn[c].open
    BY <1>4 DEF Poll
  <2>3. ConnOK(c) /\ \A i \in DOMAIN ring : Served(c, ring[i])
    BY <1>0, <2>2 DEF Closed
  <2>4. ConnOK(c)' /\ \A i \in DOMAIN ring : Served(c, ring[i])'
    BY <1>4, <2>3, PollKeepsServed
  <2> QED
    BY <1>2, <2>1, <2>4
<1>5. ASSUME NEW c \in Conn, SendFrame(c) PROVE RingInv'
  <2>1. /\ UNCHANGED <<seq, ring>> /\ DOMAIN conn' = Conn
        /\ \A d \in Conn \ {c} : conn'[d] = conn[d]
    BY <1>0, <1>5 DEF SendFrame
  <2>2. conn[c].open
    BY <1>5 DEF SendFrame
  <2>3. ConnOK(c) /\ \A i \in DOMAIN ring : Served(c, ring[i])
    BY <1>0, <2>2 DEF Closed
  <2>4. ConnOK(c)' /\ \A i \in DOMAIN ring : Served(c, ring[i])'
    BY <1>5, <2>3, FrameKeepsServed
  <2> QED
    BY <1>2, <2>1, <2>4
<1>6. ASSUME NEW c \in Conn, Disconnect(c) PROVE RingInv'
  <2>1. /\ UNCHANGED <<seq, ring>> /\ DOMAIN conn' = Conn /\ conn'[c] = Closed
        /\ \A d \in Conn \ {c} : conn'[d] = conn[d]
    BY <1>0, <1>6 DEF Disconnect
  <2> QED
    BY <1>2, <2>1
<1>7. CASE UNCHANGED ringVars
  <2>1. UNCHANGED <<seq, ring, conn>>
    BY <1>7 DEF ringVars
  <2>2. RingIsTheTail'
    BY <1>0, <2>1 DEF RingIsTheTail
  <2> QED
    BY <1>0, <2>1, <2>2, OthersKeepServed DEF RingInv, Closed
<1> QED
  BY <1>1, <1>3, <1>4, <1>5, <1>6, <1>7 DEF RingNext

\* The ring and the route of api.py's stream: every connection, however late it polls and
\* whatever is evicted between its frames, is sent what the ring holds in order and once,
\* and misses only what the ring dropped.
THEOREM RingServesEveryConnection == RingSpec => []RingServesInOrder
<1>1. RingInv => RingServesInOrder
  <2> SUFFICES ASSUME RingInv PROVE RingServesInOrder
    OBVIOUS
  <2>1. ASSUME NEW c \in Conn, conn[c].open
        PROVE  ConnOK(c) /\ \A i \in DOMAIN ring : Served(c, ring[i])
    BY <2>1 DEF RingInv, Closed
  <2>2. SentInOrder
    BY <2>1 DEF SentInOrder, ConnOK, InOrder
  <2>3. MissedOnlyIfEvicted
    BY <2>1 DEF MissedOnlyIfEvicted, Served
  <2> QED
    BY <2>2, <2>3 DEF RingInv, RingServesInOrder
<1> QED
  BY <1>1, RingInvInit, RingInvStep, RingAssumption, PTL DEF RingSpec

-----------------------------------------------------------------------------
(***************************************************************************)
(* StreamHub.                                                              *)
(***************************************************************************)

LinkType == [hub : Transport, state : {"new", "open", "broken", "gone"},
             full : BOOLEAN, since : Nat, sent : Seq(HubEnvelope)]

CallType == [answer : {"waiting", "resolved", "threw"}, awaits : SUBSET Client]

\* A connection that takes what is published, up to the last number.
Streaming(c) == link[c].state = "open" /\ link[c].hub = kind /\ ~closed

\* What the properties need of the past: nothing is written before a connection is
\* attached, and what was recorded has a smaller number than what comes next.
HubInv ==
    /\ HubTypeOK
    /\ \A c \in Client : link[c].state = "new" => link[c].sent = <<>>
    /\ \A t \in TraceId : \A i \in DOMAIN collected[t] : collected[t][i].sequence < hubSeq
    /\ FramesWithoutGap
    /\ SnapshotHoldsAll

-----------------------------------------------------------------------------

\* What Publish writes.
Env(trace, degraded) == [sequence |-> hubSeq, trace |-> trace, degraded |-> degraded]

\* Every connection is written to, or is none that streams afterwards; and a connection is
\* only written to while it streams.
LEMMA PublishReachesStreaming ==
    ASSUME HubTypeOK, NEW trace \in TraceId, NEW degraded \in BOOLEAN,
           Publish(trace, degraded), NEW c \in Client
    PROVE  /\ link'[c] \in LinkType
           /\ link'[c].since = link[c].since
           /\ link'[c].state = "new" => link'[c].sent = link[c].sent /\ link[c].state = "new"
           /\ \/ link'[c].sent = link[c].sent /\ ~Streaming(c)'
              \/ link'[c].sent = Append(link[c].sent, Env(trace, degraded)) /\ Streaming(c)
<1> DEFINE env == Env(trace, degraded)
<1>1. env \in HubEnvelope /\ link[c] \in LinkType /\ link \in [Client -> LinkType]
  BY DEF HubTypeOK, Env, HubEnvelope, LinkType
<1>2. closed' = closed /\ kind' = kind
  BY DEF Publish
<1>3. CASE closed
  BY <1>1, <1>2, <1>3 DEF Publish, Streaming
<1>4. CASE ~closed
  <2>1. PICK throws \in SUBSET Members, fills \in SUBSET Client :
           /\ {m \in Members : link[m].state = "broken"} \subseteq throws
           /\ link' = [m \in Client |-> [Written(env, throws)[m] EXCEPT !.full = @ \/ m \in fills]]
    BY <1>4 DEF Publish, Env, CanFill, Members
  <2>2. link'[c] = [Written(env, throws)[c] EXCEPT !.full = @ \/ c \in fills]
    BY <2>1
  <2>3. CASE c \notin Members
    <3>1. Written(env, throws)[c] = link[c]
      BY <2>3 DEF Written
    <3>2. /\ link'[c] \in LinkType /\ link'[c].since = link[c].since
          /\ link'[c].sent = link[c].sent /\ link'[c].state = link[c].state
          /\ link'[c].hub = link[c].hub
      BY <1>1, <2>2, <3>1 DEF LinkType
    <3> QED
      BY <1>2, <2>3, <3>2 DEF Streaming, Members
  <2>4. CASE c \in throws
    <3>1. Written(env, throws)[c] = [link[c] EXCEPT !.state = "broken"]
      BY <2>1, <2>4 DEF Written
    <3>2. /\ link'[c] \in LinkType /\ link'[c].since = link[c].since
          /\ link'[c].sent = link[c].sent /\ link'[c].state = "broken"
      BY <1>1, <2>2, <3>1 DEF LinkType
    <3> QED
      BY <3>2 DEF Streaming
  <2>5. CASE c \in Members \ throws
    <3>1. Written(env, throws)[c] = [link[c] EXCEPT !.sent = Append(link[c].sent, env)]
      BY <2>5 DEF Written
    <3>2. Append(link[c].sent, env) \in Seq(HubEnvelope)
      BY <1>1 DEF LinkType
    <3>3. /\ link'[c] \in LinkType /\ link'[c].since = link[c].since
          /\ link'[c].sent = Append(link[c].sent, env) /\ link'[c].state = link[c].state
      <4> DEFINE w == Written(env, throws)[c]
      <4>1. w = [link[c] EXCEPT !.sent = Append(link[c].sent, env)]
        BY <3>1
      <4>2. /\ w \in LinkType /\ w.since = link[c].since /\ w.state = link[c].state
            /\ w.sent = Append(link[c].sent, env)
        <5> HIDE DEF env, w
        <5> QED
          BY <1>1, <3>2, <4>1 DEF LinkType
      <4>3. link'[c] = [w EXCEPT !.full = w.full \/ c \in fills]
        BY <2>2
      <4> HIDE DEF env, w
      <4> QED
        BY <4>2, <4>3 DEF LinkType
    <3>4. link[c].state = "open" /\ link[c].hub = kind
      BY <2>1, <2>5 DEF Members
    <3> QED
      BY <1>4, <3>3, <3>4 DEF Streaming
  <2> QED
    BY <2>3, <2>4, <2>5
<1> QED
  BY <1>3, <1>4

\* The envelope is recorded last in its trace, and nowhere else.
LEMMA PublishRecords ==
    ASSUME HubTypeOK, NEW trace \in TraceId, NEW degraded \in BOOLEAN,
           Publish(trace, degraded)
    PROVE  /\ collected' = [collected EXCEPT ![trace] = Append(@, Env(trace, degraded))]
           /\ hubSeq' = hubSeq + 1
BY DEF Publish, Recorded, Env

\* A step that publishes nothing and leaves each connection where it is, or takes it out
\* of its hub, keeps what was sent and recorded.
LEMMA NothingPublished ==
    ASSUME HubInv, HubTypeOK', UNCHANGED <<hubSeq, collected>>,
           \A c \in Client :
              /\ link'[c].sent = link[c].sent /\ link'[c].since = link[c].since
              /\ link'[c].state = "new" => link[c].state = "new"
              /\ Streaming(c)' => Streaming(c)
    PROVE  HubInv'
<1>1. FramesWithoutGap'
  BY DEF HubInv, FramesWithoutGap, Streaming
<1>2. SnapshotHoldsAll'
  BY DEF HubInv, SnapshotHoldsAll, Collect
<1> QED
  BY <1>1, <1>2 DEF HubInv

LEMMA AttachKeeps ==
    ASSUME HubInv, NEW c \in Client, NEW hub \in {"sse", "websocket"}, Attach(c, hub)
    PROVE  HubInv'
<1> DEFINE attached == [link[c] EXCEPT !.hub = hub, !.state = "open", !.since = hubSeq]
<1>1. link \in [Client -> LinkType] /\ hubSeq \in Nat
  BY DEF HubInv, HubTypeOK, LinkType
<1>2. link' = [link EXCEPT ![c] = attached]
  BY <1>1 DEF Attach, LinkType
<1>3. /\ attached \in LinkType /\ attached.sent = <<>> /\ attached.since = hubSeq
      /\ attached.state = "open"
  BY <1>1 DEF LinkType, Transport, HubInv, Attach
<1>4. HubTypeOK'
  BY <1>1, <1>2, <1>3 DEF HubInv, HubTypeOK, LinkType, Attach
<1>5. \A m \in Client : m # c => link'[m] = link[m]
  BY <1>1, <1>2
<1>6. link'[c] = attached
  BY <1>1, <1>2
<1>7. UNCHANGED <<kind, hubSeq, collected, closed>>
  BY DEF Attach
<1>8. FramesWithoutGap'
  <2> SUFFICES ASSUME NEW m \in Client
               PROVE  /\ \A i \in DOMAIN link'[m].sent :
                           link'[m].sent[i].sequence = link'[m].since + i - 1
                      /\ Streaming(m)' => link'[m].since + Len(link'[m].sent) = hubSeq'
    BY DEF FramesWithoutGap, Streaming
  <2>1. CASE m = c
    <3>1. link'[m].sent = <<>> /\ link'[m].since = hubSeq
      BY <1>3, <1>6, <2>1
    <3> QED
      BY <1>1, <1>7, <3>1
  <2>2. CASE m # c
    BY <1>5, <1>7, <2>2 DEF HubInv, FramesWithoutGap, Streaming
  <2> QED
    BY <2>1, <2>2
<1>9. SnapshotHoldsAll'
  <2>1. \A m \in Client : \A i \in DOMAIN link'[m].sent :
          i \in DOMAIN link[m].sent /\ link'[m].sent[i] = link[m].sent[i]
    <3>1. link'[c].sent = <<>>
      BY <1>3, <1>6
    <3> QED
      BY <1>5, <3>1
  <2> QED
    BY <1>7, <2>1 DEF HubInv, SnapshotHoldsAll, Collect
<1> QED
  BY <1>3, <1>4, <1>5, <1>6, <1>7, <1>8, <1>9 DEF HubInv

LEMMA RemoveKeeps ==
    ASSUME HubInv, NEW c \in Client, Remove(c)
    PROVE  HubInv'
<1>1. link \in [Client -> LinkType]
  BY DEF HubInv, HubTypeOK, LinkType
<1>2. link' \in [Client -> LinkType]
  BY <1>1 DEF Remove, LinkType
<1>3. HubTypeOK'
  BY <1>2 DEF HubInv, HubTypeOK, LinkType, Remove
<1>4. \A m \in Client :
         /\ link'[m].sent = link[m].sent /\ link'[m].since = link[m].since
         /\ link'[m].state = "new" => link[m].state = "new"
         /\ Streaming(m)' => Streaming(m)
  BY <1>1 DEF Remove, LinkType, Streaming
<1> QED
  BY <1>3, <1>4, NothingPublished DEF Remove

LEMMA DrainKeeps ==
    ASSUME HubInv, NEW c \in Client, Drain(c)
    PROVE  HubInv'
<1>1. link \in [Client -> LinkType] /\ calls \in Seq(CallType)
  BY DEF HubInv, HubTypeOK, LinkType, CallType
<1>2. link' \in [Client -> LinkType]
  BY <1>1 DEF Drain, LinkType
<1>3. \A call \in CallType : Released(call, c) \in CallType
  BY DEF CallType, Released
<1>4. calls' \in Seq(CallType)
  <2>1. \A k \in 1..Len(calls) : Released(calls[k], c) \in CallType
    BY <1>1, <1>3
  <2>2. calls' = [k \in 1..Len(calls) |-> Released(calls[k], c)]
    BY <1>1 DEF Drain
  <2> QED
    BY <1>1, <2>1, <2>2
<1>5. HubTypeOK'
  BY <1>2, <1>4 DEF HubInv, HubTypeOK, LinkType, CallType, Drain
<1>6. \A m \in Client :
         /\ link'[m].sent = link[m].sent /\ link'[m].since = link[m].since
         /\ link'[m].state = "new" => link[m].state = "new"
         /\ Streaming(m)' => Streaming(m)
  BY <1>1 DEF Drain, LinkType, Streaming
<1> QED
  BY <1>5, <1>6, NothingPublished DEF Drain

LEMMA CloseKeeps ==
    ASSUME HubInv, Close
    PROVE  HubInv'
<1>1. link \in [Client -> LinkType]
  BY DEF HubInv, HubTypeOK, LinkType
<1>2. link' \in [Client -> LinkType]
  BY <1>1 DEF Close, LinkType
<1>3. HubTypeOK'
  BY <1>2 DEF HubInv, HubTypeOK, LinkType, Close
<1>4. \A m \in Client :
         /\ link'[m].sent = link[m].sent /\ link'[m].since = link[m].since
         /\ link'[m].state = "new" => link[m].state = "new"
         /\ Streaming(m)' => Streaming(m)
  BY <1>1 DEF Close, LinkType, Streaming
<1> QED
  BY <1>3, <1>4, NothingPublished DEF Close

LEMMA RefuseKeeps ==
    ASSUME HubInv, Refuse
    PROVE  HubInv'
<1>1. calls \in Seq(CallType)
  BY DEF HubInv, HubTypeOK, CallType
<1>2. calls' \in Seq(CallType)
  BY <1>1 DEF Refuse, CallType
<1>3. HubTypeOK'
  BY <1>2 DEF HubInv, HubTypeOK, CallType, Refuse
<1> QED
  BY <1>3, NothingPublished DEF Refuse, Streaming

LEMMA PublishKeeps ==
    ASSUME HubInv, NEW trace \in TraceId, NEW degraded \in BOOLEAN,
           Publish(trace, degraded)
    PROVE  HubInv'
<1> DEFINE env == Env(trace, degraded)
<1>1. /\ HubTypeOK /\ hubSeq \in Nat /\ env \in HubEnvelope /\ env.sequence = hubSeq
      /\ env.trace = trace
      /\ \A c \in Client : link[c] \in LinkType
      /\ collected \in [TraceId -> Seq(HubEnvelope)]
  BY DEF HubInv, HubTypeOK, LinkType, Env, HubEnvelope
<1>2. \A c \in Client :
         /\ link'[c] \in LinkType
         /\ link'[c].since = link[c].since
         /\ link'[c].state = "new" => link'[c].sent = link[c].sent /\ link[c].state = "new"
         /\ \/ link'[c].sent = link[c].sent /\ ~Streaming(c)'
            \/ link'[c].sent = Append(link[c].sent, env) /\ Streaming(c)
  BY <1>1, PublishReachesStreaming
<1>3. collected' = [collected EXCEPT ![trace] = Append(@, env)] /\ hubSeq' = hubSeq + 1
  BY <1>1, PublishRecords
<1>4. HubTypeOK'
  <2>1. link' \in [Client -> LinkType]
    <3>1. \E new : link' = [c \in Client |-> new[c]]
      BY <1>1 DEF Publish, HubTypeOK
    <3> QED
      BY <1>2, <3>1
  <2>2. calls' \in Seq(CallType)
    <3>1. \E call \in CallType : calls' = Append(calls, call)
      BY DEF Publish, CallType, CanFill, Members
    <3> QED
      BY <1>1, <3>1 DEF HubTypeOK, CallType
  <2>3. collected' \in [TraceId -> Seq(HubEnvelope)]
    BY <1>1, <1>3
  <2>4. lastTrace' = trace /\ UNCHANGED <<kind, closed>>
    BY DEF Publish
  <2> QED
    BY <1>1, <1>3, <2>1, <2>2, <2>3, <2>4 DEF HubTypeOK, LinkType, CallType
<1>5. FramesWithoutGap'
  <2> SUFFICES ASSUME NEW c \in Client
               PROVE  /\ \A i \in DOMAIN link'[c].sent :
                           link'[c].sent[i].sequence = link'[c].since + i - 1
                      /\ Streaming(c)' => link'[c].since + Len(link'[c].sent) = hubSeq'
    BY DEF FramesWithoutGap, Streaming
  <2>1. /\ link[c].sent \in Seq(HubEnvelope) /\ link[c].since \in Nat
        /\ \A i \in DOMAIN link[c].sent : link[c].sent[i].sequence = link[c].since + i - 1
        /\ Streaming(c) => link[c].since + Len(link[c].sent) = hubSeq
    BY <1>1 DEF HubInv, FramesWithoutGap, Streaming, LinkType
  <2>2. CASE link'[c].sent = link[c].sent /\ ~Streaming(c)'
    BY <1>2, <2>1, <2>2
  <2>3. CASE link'[c].sent = Append(link[c].sent, env) /\ Streaming(c)
    <3> HIDE DEF env
    <3>1. link'[c].since = link[c].since /\ env.sequence = hubSeq
      BY <1>1, <1>2
    <3>2. Len(link'[c].sent) = Len(link[c].sent) + 1
      BY <2>1, <2>3
    <3>3. ASSUME NEW i \in DOMAIN link'[c].sent
          PROVE  link'[c].sent[i].sequence = link[c].since + i - 1
      <4>1. CASE i \in DOMAIN link[c].sent
        <5>1. link'[c].sent[i] = link[c].sent[i]
          BY <2>1, <2>3, <4>1
        <5> QED
          BY <2>1, <4>1, <5>1
      <4>2. CASE i = Len(link[c].sent) + 1
        <5>1. link'[c].sent[i] = env
          BY <2>1, <2>3, <4>2
        <5>2. link[c].since + i - 1 = hubSeq
          BY <1>1, <2>1, <2>3, <4>2
        <5> QED
          BY <3>1, <5>1, <5>2
      <4> QED
        BY <2>1, <2>3, <4>1, <4>2
    <3>4. link'[c].since + Len(link'[c].sent) = hubSeq'
      <4>1. /\ link[c].since \in Nat /\ Len(link[c].sent) \in Nat
            /\ link[c].since + Len(link[c].sent) = hubSeq
        BY <2>1, <2>3
      <4>2. hubSeq' = hubSeq + 1
        BY <1>3
      <4>3. link'[c].since = link[c].since
        BY <3>1
      <4> QED
        BY <3>2, <4>1, <4>2, <4>3
    <3> QED
      BY <3>1, <3>3, <3>4
  <2> QED
    BY <1>2, <2>2, <2>3
<1>6. \A t \in TraceId :
         /\ \A i \in DOMAIN collected[t] :
               i \in DOMAIN collected'[t] /\ collected'[t][i] = collected[t][i]
         /\ t = trace => \E j \in DOMAIN collected'[t] : collected'[t][j] = env
  BY <1>1, <1>3
<1>7. \A t \in TraceId : \A i \in DOMAIN collected'[t] :
         \/ i \in DOMAIN collected[t] /\ collected'[t][i] = collected[t][i]
         \/ i = Len(collected[t]) + 1 /\ collected'[t][i] = env
  BY <1>1, <1>3
<1>8. \A t \in TraceId : \A i \in DOMAIN collected'[t] : collected'[t][i].sequence < hubSeq'
  <2> SUFFICES ASSUME NEW t \in TraceId, NEW i \in DOMAIN collected'[t]
               PROVE  collected'[t][i].sequence < hubSeq'
    OBVIOUS
  <2>1. CASE i \in DOMAIN collected[t] /\ collected'[t][i] = collected[t][i]
    <3>1. collected[t] \in Seq(HubEnvelope)
      BY <1>1
    <3>2. collected[t][i].sequence < hubSeq
      BY <2>1 DEF HubInv
    <3>3. collected[t][i].sequence \in Nat
      <4>1. collected[t][i] \in HubEnvelope
        BY <2>1, <3>1
      <4> QED
        BY <4>1 DEF HubEnvelope
    <3> QED
      BY <1>1, <1>3, <2>1, <3>2, <3>3
  <2>2. CASE collected'[t][i] = env
    <3>1. collected'[t][i].sequence = hubSeq
      BY <1>1, <2>2
    <3> QED
      BY <1>1, <1>3, <3>1
  <2> QED
    BY <1>7, <2>1, <2>2
<1>9. SnapshotHoldsAll'
  <2>1. ASSUME NEW t \in TraceId, NEW i \in DOMAIN collected'[t], NEW j \in DOMAIN collected'[t], i < j
        PROVE  collected'[t][i].sequence < collected'[t][j].sequence
    <3>1. collected[t] \in Seq(HubEnvelope)
      BY <1>1
    <3>2. i \in DOMAIN collected[t] /\ collected'[t][i] = collected[t][i]
      <4>1. j <= Len(collected[t]) + 1 /\ i \in Nat /\ j \in Nat
        BY <1>1, <1>3, <2>1, <3>1
      <4> QED
        BY <1>7, <2>1, <3>1, <4>1
    <3>3. CASE j \in DOMAIN collected[t] /\ collected'[t][j] = collected[t][j]
      BY <2>1, <3>2, <3>3 DEF HubInv, SnapshotHoldsAll
    <3>4. CASE collected'[t][j] = env
      BY <1>1, <3>2, <3>4 DEF HubInv
    <3> QED
      BY <1>7, <3>3, <3>4
  <2>2. ASSUME NEW t \in TraceId, NEW c \in Client, NEW i \in DOMAIN link'[c].sent,
               link'[c].sent[i].trace = t
        PROVE  \E j \in DOMAIN collected'[t] : collected'[t][j] = link'[c].sent[i]
    <3>1. link[c].sent \in Seq(HubEnvelope)
      BY <1>1 DEF LinkType
    <3>2. CASE i \in DOMAIN link[c].sent /\ link'[c].sent[i] = link[c].sent[i]
      <4>1. PICK j \in DOMAIN collected[t] : collected[t][j] = link[c].sent[i]
        BY <2>2, <3>2 DEF HubInv, SnapshotHoldsAll, Collect
      <4> QED
        BY <1>6, <3>2, <4>1
    <3>3. CASE link'[c].sent[i] = env
      BY <1>1, <1>6, <2>2, <3>3
    <3>4. \/ i \in DOMAIN link[c].sent /\ link'[c].sent[i] = link[c].sent[i]
          \/ link'[c].sent[i] = env
      <4> HIDE DEF env
      <4>1. CASE link'[c].sent = link[c].sent
        BY <2>2, <4>1
      <4>2. CASE link'[c].sent = Append(link[c].sent, env)
        BY <2>2, <3>1, <4>2
      <4> QED
        BY <1>2, <4>1, <4>2
    <3> QED
      BY <3>2, <3>3, <3>4
  <2> QED
    BY <2>1, <2>2 DEF SnapshotHoldsAll, Collect
<1>10. \A c \in Client : link'[c].state = "new" => link'[c].sent = <<>>
  BY <1>2 DEF HubInv
<1> QED
  BY <1>4, <1>5, <1>8, <1>9, <1>10 DEF HubInv

-----------------------------------------------------------------------------

LEMMA HubInvInductive == HubInv /\ [HubNext]_hubVars => HubInv'
<1> SUFFICES ASSUME HubInv, [HubNext]_hubVars
             PROVE  HubInv'
  OBVIOUS
<1>1. ASSUME Refuse
      PROVE  HubInv'
  BY <1>1, RefuseKeeps
<1>2. ASSUME NEW t \in TraceId, NEW d \in BOOLEAN, Publish(t, d)
      PROVE  HubInv'
  BY <1>2, PublishKeeps
<1>3. ASSUME NEW c \in Client, NEW h \in {"sse", "websocket"}, Attach(c, h)
      PROVE  HubInv'
  BY <1>3, AttachKeeps
<1>4. ASSUME NEW c \in Client, Remove(c)
      PROVE  HubInv'
  BY <1>4, RemoveKeeps
<1>5. ASSUME NEW c \in Client, Drain(c)
      PROVE  HubInv'
  BY <1>5, DrainKeeps
<1>6. ASSUME Close
      PROVE  HubInv'
  BY <1>6, CloseKeeps
<1>7. ASSUME UNCHANGED hubVars
      PROVE  HubInv'
  <2>1. HubTypeOK'
    BY <1>7 DEF hubVars, HubInv, HubTypeOK
  <2> QED
    BY <1>7, <2>1, NothingPublished DEF hubVars, Streaming
<1> QED
  BY <1>1, <1>2, <1>3, <1>4, <1>5, <1>6, <1>7 DEF HubNext

LEMMA HubInvHolds == HubSpec => []HubInv
<1>1. HubInit => HubInv
  <2> SUFFICES ASSUME HubInit
               PROVE  HubInv
    OBVIOUS
  <2>1. HubTypeOK
    <3>1. Unattached \in LinkType
      BY DEF Unattached, LinkType, Transport
    <3>2. link \in [Client -> LinkType]
      BY <3>1 DEF HubInit
    <3>3. collected \in [TraceId -> Seq(HubEnvelope)]
      BY DEF HubInit
    <3>4. calls \in Seq(CallType)
      BY DEF HubInit
    <3> QED
      BY <3>2, <3>3, <3>4 DEF HubInit, HubTypeOK, LinkType, CallType
  <2>2. \A c \in Client : link[c].sent = <<>> /\ link[c].state = "new"
    BY DEF HubInit, Unattached
  <2>3. \A t \in TraceId : collected[t] = <<>>
    BY DEF HubInit
  <2>4. FramesWithoutGap
    <3>1. \A c \in Client : \A i \in DOMAIN link[c].sent : FALSE
      BY <2>2
    <3> QED
      BY <2>2, <3>1 DEF FramesWithoutGap
  <2>5. SnapshotHoldsAll
    BY <2>2, <2>3 DEF SnapshotHoldsAll, Collect
  <2> QED
    BY <2>1, <2>2, <2>3, <2>4, <2>5 DEF HubInv
<1> QED
  BY <1>1, HubInvInductive, PTL DEF HubSpec

\* Publisher, hubs and calls keep values of their shape.
THEOREM HubKeepsTypes == HubSpec => []HubTypeOK
<1>1. HubInv => HubTypeOK
  BY DEF HubInv
<1> QED
  BY <1>1, HubInvHolds, PTL

\* However calls, refused envelopes, failed writes, drains, disconnects and close()
\* interleave: a connection is sent consecutive numbers, up to the last while it streams,
\* and what collect() answers has everything that any connection was sent (publisher.ts,
\* adapters/sse.ts, adapters/websocket.ts).
THEOREM StreamsMatchSnapshots == HubSpec => []StreamAndSnapshotAgree
<1>1. HubInv => StreamAndSnapshotAgree
  BY DEF HubInv, StreamAndSnapshotAgree
<1> QED
  BY <1>1, HubInvHolds, PTL

(***************************************************************************)
(* EventStream.                                                            *)
(***************************************************************************)

ViewShape ==
    [status : {"connecting", "open", "closed", "error"}, error : BOOLEAN,
     degraded : BOOLEAN, rows : Seq([sequence : Nat, from : Nat])]

\* A view whose rows are in order and which does not hide a degraded one.
ViewOK(v) ==
    /\ v \in ViewShape
    /\ Rises(v.rows, 0)
    /\ \A r \in RowsOf(v.rows) : r.sequence \in Degraded => v.degraded

FetchShape == [sub : Nat, by : {"hook", "adapter"}, body : Nat \cup {Unanswered}]

\* A fetch brings something for subscription s.
Brings(f, s) == f.by = "hook" \/ (f.by = "adapter" /\ f.sub = s)

\* A fetch of the hook or of the current subscription is a reason to wait, one of an
\* earlier subscription is none; and every answer brings at least one envelope.
HookInv ==
    /\ published \in Nat /\ sub \in Nat /\ mounted \in BOOLEAN
    /\ source \in [live : BOOLEAN, next : Nat \ {0}]
    /\ \A f \in fetches : f \in FetchShape /\ f.body # 0
    /\ mounted => ~disposed
    /\ ViewOK(view)
    /\ mounted /\ view.status = "connecting" =>
         source.live \/ \E f \in fetches : Brings(f, sub)

\* A view's fields, and what updates make of them.
Views(a, b, c, d) == [status |-> a, error |-> b, degraded |-> c, rows |-> d]

WithStatus(v, s) == [v EXCEPT !.status = s]
WithError(v, e, s) == [v EXCEPT !.error = e, !.status = s]
WithRow(v, s, g, q) == [v EXCEPT !.status = s, !.degraded = g, !.rows = q]
Emptied(v, s, e, q) == [v EXCEPT !.status = s, !.error = e, !.rows = q]

LEMMA Updates ==
    ASSUME NEW a, NEW b, NEW c, NEW d, NEW s, NEW e, NEW g, NEW q,
           NEW v, v = Views(a, b, c, d)
    PROVE  /\ v.status = a /\ v.error = b /\ v.degraded = c /\ v.rows = d
           /\ WithStatus(v, s) = Views(s, b, c, d)
           /\ WithError(v, e, s) = Views(s, e, c, d)
           /\ WithRow(v, s, g, q) = Views(s, b, g, q)
           /\ Emptied(v, s, e, q) = Views(s, e, c, q)
<1>1. PICK v1, v2, v3, v4, v5, v6 :
        /\ v1 = [v EXCEPT !.status = s] /\ v2 = [v EXCEPT !.error = e]
        /\ v3 = [v1 EXCEPT !.degraded = g] /\ v4 = [v1 EXCEPT !.error = e]
        /\ v5 = [v EXCEPT !.status = s, !.degraded = g]
        /\ v6 = [v EXCEPT !.status = s, !.error = e]
  OBVIOUS
<1>2. v1 = Views(s, b, c, d)
  BY <1>1 DEF Views
<1>3. v2 = Views(a, e, c, d)
  BY <1>1 DEF Views
<1>4. v3 = Views(s, b, g, d) /\ v5 = v3
  <2>1. v3 = Views(s, b, g, d)
    BY <1>1, <1>2 DEF Views
  <2>2. v5 = v3
    BY <1>1
  <2> QED
    BY <2>1, <2>2
<1>5. v4 = Views(s, e, c, d) /\ v6 = v4
  <2>1. v4 = Views(s, e, c, d)
    BY <1>1, <1>2 DEF Views
  <2>2. v6 = v4
    BY <1>1
  <2> QED
    BY <2>1, <2>2
<1>6. [v EXCEPT !.error = e, !.status = s] = Views(s, e, c, d)
  <2>1. [v2 EXCEPT !.status = s] = Views(s, e, c, d)
    BY <1>3 DEF Views
  <2>2. [v EXCEPT !.error = e, !.status = s] = [v2 EXCEPT !.status = s]
    BY <1>1
  <2> QED
    BY <2>1, <2>2
<1>7. [v EXCEPT !.status = s, !.degraded = g, !.rows = q] = Views(s, b, g, q)
  <2>1. [v3 EXCEPT !.rows = q] = Views(s, b, g, q)
    BY <1>4 DEF Views
  <2>2. [v EXCEPT !.status = s, !.degraded = g, !.rows = q] = [v5 EXCEPT !.rows = q]
    BY <1>1
  <2> QED
    BY <1>4, <2>1, <2>2
<1>8. [v EXCEPT !.status = s, !.error = e, !.rows = q] = Views(s, e, c, q)
  <2>1. [v4 EXCEPT !.rows = q] = Views(s, e, c, q)
    BY <1>5 DEF Views
  <2>2. [v EXCEPT !.status = s, !.error = e, !.rows = q] = [v6 EXCEPT !.rows = q]
    BY <1>1
  <2> QED
    BY <1>5, <2>1, <2>2
<1>9. v.status = a /\ v.error = b /\ v.degraded = c /\ v.rows = d
  BY DEF Views
<1>10. WithStatus(v, s) = Views(s, b, c, d)
  BY <1>1, <1>2 DEF WithStatus
<1>11. WithError(v, e, s) = Views(s, e, c, d)
  BY <1>6 DEF WithError
<1>12. WithRow(v, s, g, q) = Views(s, b, g, q)
  BY <1>7 DEF WithRow
<1>13. Emptied(v, s, e, q) = Views(s, e, c, q)
  BY <1>8 DEF Emptied
<1> QED
  BY <1>9, <1>10, <1>11, <1>12, <1>13

LEMMA ViewIs ==
    ASSUME NEW v \in ViewShape
    PROVE  /\ v = Views(v.status, v.error, v.degraded, v.rows)
           /\ v.status \in {"connecting", "open", "closed", "error"} /\ v.error \in BOOLEAN
           /\ v.degraded \in BOOLEAN /\ v.rows \in Seq([sequence : Nat, from : Nat])
<1>1. PICK R : R = Seq([sequence : Nat, from : Nat])
  OBVIOUS
<1>2. v \in [status : {"connecting", "open", "closed", "error"}, error : BOOLEAN,
             degraded : BOOLEAN, rows : R]
  BY <1>1 DEF ViewShape
<1>3. v = Views(v.status, v.error, v.degraded, v.rows)
  BY <1>2 DEF Views
<1>4. /\ v.status \in {"connecting", "open", "closed", "error"} /\ v.error \in BOOLEAN
      /\ v.degraded \in BOOLEAN /\ v.rows \in R
  BY <1>2
<1> QED
  BY <1>1, <1>3, <1>4

\* onEnvelope keeps a view sound, and opens it.
LEMMA ShownIsSound ==
    ASSUME NEW v, ViewOK(v), NEW n \in Nat, NEW from \in Nat
    PROVE  ViewOK(Shown(v, n, from)) /\ Shown(v, n, from).status = "open"
<1> DEFINE T == [sequence : Nat, from : Nat]
           row == [sequence |-> n, from |-> from]
<1>1. v \in ViewShape /\ v.rows \in Seq(T) /\ v.degraded \in BOOLEAN /\ v.error \in BOOLEAN
  BY ViewIs DEF ViewOK
<1>2. v = Views(v.status, v.error, v.degraded, v.rows)
  BY ViewIs DEF ViewOK
<1>3. row \in T /\ row.sequence = n /\ \A r \in T : r.sequence \in Int
  OBVIOUS
<1> HIDE DEF T, row
<1>4. PICK q : q = InsertBySequence(v.rows, row)
  OBVIOUS
<1>5. q \in Seq(T) /\ Rises(q, 0) /\ RowsOf(q) = RowsOf(v.rows) \cup {row}
  <2>1. Rises(v.rows, 0) /\ 0 \in {0, 1} /\ 0 # 1
    BY DEF ViewOK
  <2> QED
    BY <1>1, <1>3, <1>4, <2>1, InsertedRises
<1>6. PICK d \in BOOLEAN : d = (v.degraded \/ n \in Degraded)
  OBVIOUS
<1>7. Shown(v, n, from) = Views("open", v.error, d, q)
  <2>1. Shown(v, n, from)
          = WithRow(v, "open", d, q)
    BY <1>4, <1>6, Zenon DEF Shown, row, WithRow
  <2> QED
    BY <1>2, <2>1, Updates
<1>8. PICK w : /\ w = Views("open", v.error, d, q)
               /\ w = [status |-> "open", error |-> v.error, degraded |-> d, rows |-> q]
  BY DEF Views
<1>9. w \in ViewShape
  BY <1>1, <1>5, <1>8 DEF ViewShape, T
<1>10. \A r \in RowsOf(w.rows) : r.sequence \in Degraded => w.degraded
  <2> SUFFICES ASSUME NEW r \in RowsOf(q), r.sequence \in Degraded PROVE d
    BY <1>8
  <2>1. CASE r \in RowsOf(v.rows)
    BY <1>6, <2>1 DEF ViewOK
  <2>2. CASE r = row
    BY <1>3, <1>6, <2>2
  <2> QED
    BY <1>5, <2>1, <2>2
<1> QED
  BY <1>5, <1>7, <1>8, <1>9, <1>10 DEF ViewOK

\* s shows the envelopes up to N one after the other.
ShowsTo(N, from, s) ==
    s = [k \in 0..N |-> IF k = 0 THEN view ELSE Shown(s[k - 1], k, from)]

\* A whole answer, one envelope after the other, keeps a view sound, and opens it.
LEMMA ShownUpToIsSound ==
    ASSUME ViewOK(view), NEW N \in Nat \ {0}, NEW from \in Nat
    PROVE  ViewOK(ShownUpTo(N, from)) /\ ShownUpTo(N, from).status = "open"
<1> DEFINE D == {v \in ViewShape : ViewOK(v)}
           G == [n \in 1..N |-> [v \in D |-> Shown(v, n, from)]]
<1>1. \A n \in 1..N, v \in D : Shown(v, n, from) \in D
  BY ShownIsSound DEF ViewOK
<1>2. \A n \in 1..N, v \in D : G[n][v] = Shown(v, n, from)
  OBVIOUS
<1>3. view \in D
  BY DEF ViewOK
<1> HIDE DEF D, G
<1>4. PICK s \in [0..N -> D] : s[0] = view /\ \A n \in 1..N : s[n] = G[n][s[n - 1]]
  <2>1. IsRule(G, N, D)
    BY <1>1, <1>2 DEF IsRule
  <2>2. \E s : Computes(G, N, D, view, s)
    BY <1>3, <2>1, RecursionExists
  <2> QED
    BY <2>2 DEF Computes
<1>5. \A n \in 0..N : s[n] = IF n = 0 THEN view ELSE Shown(s[n - 1], n, from)
  <2> SUFFICES ASSUME NEW n \in 0..N, n # 0 PROVE s[n] = Shown(s[n - 1], n, from)
    BY <1>4
  <2>1. n \in 1..N /\ n - 1 \in 0..N
    OBVIOUS
  <2>2. s[n] = G[n][s[n - 1]] /\ s[n - 1] \in D
    BY <1>4, <2>1
  <2> QED
    BY <1>2, <2>1, <2>2
<1>6. ShowsTo(N, from, s)
  BY <1>4, <1>5 DEF ShowsTo
<1> DEFINE g == CHOOSE h : ShowsTo(N, from, h)
<1>7. ShowsTo(N, from, g)
  BY <1>6
<1>8. ShownUpTo(N, from) = g[N]
  BY DEF ShownUpTo, ShowsTo
<1> HIDE DEF g
<1> DEFINE A == {n \in Nat : n <= N => ViewOK(g[n])}
<1>9. 0 \in A
  BY <1>7 DEF ShowsTo
<1>10. ASSUME NEW n \in Nat, n \in A PROVE n + 1 \in A
  <2> SUFFICES ASSUME n + 1 <= N PROVE ViewOK(g[n + 1])
    OBVIOUS
  <2>1. PICK m : m = n + 1
    OBVIOUS
  <2>2. m \in 0..N /\ m # 0 /\ m - 1 = n /\ m \in Nat /\ n <= N
    BY <2>1
  <2>3. g[m] = Shown(g[n], m, from)
    BY <1>7, <2>2 DEF ShowsTo
  <2>4. ViewOK(g[n])
    BY <1>10, <2>2
  <2> QED
    BY <2>1, <2>2, <2>3, <2>4, ShownIsSound
<1>11. \A n \in Nat : n \in A
  <2> HIDE DEF A
  <2> QED
    BY <1>9, <1>10, Counting
<1>12. N - 1 \in Nat /\ N \in 0..N /\ N # 0 /\ N - 1 <= N
  OBVIOUS
<1>13. PICK v : v = g[N - 1]
  OBVIOUS
<1>14. ViewOK(v) /\ g[N] = Shown(v, N, from)
  BY <1>7, <1>11, <1>12, <1>13 DEF ShowsTo
<1>15. ViewOK(Shown(v, N, from)) /\ Shown(v, N, from).status = "open"
  BY <1>12, <1>14, ShownIsSound
<1> QED
  BY <1>8, <1>14, <1>15

\* A fetch that has not brought an empty answer.
Waits(f) == f \in FetchShape /\ f.body # 0

LEMMA FetchWaits ==
    ASSUME NEW s \in Nat
    PROVE  /\ Waits(Fetch(s, "adapter")) /\ Brings(Fetch(s, "adapter"), s)
           /\ Waits(Fetch(s, "hook")) /\ Brings(Fetch(s, "hook"), s)
<1>1. -1 \in Nat \cup {-1} /\ -1 # 0
  OBVIOUS
<1>2. ASSUME NEW b \in {"hook", "adapter"}
      PROVE  Waits(Fetch(s, b)) /\ Fetch(s, b).by = b /\ Fetch(s, b).sub = s
  BY <1>1 DEF Waits, Fetch, FetchShape, Unanswered
<1> QED
  BY <1>2 DEF Brings

\* A view that is reset to a status other than "connecting", rows and flags kept.
LEMMA StatusIsSound ==
    ASSUME ViewOK(view), NEW s \in {"connecting", "open", "closed", "error"}, NEW e \in BOOLEAN
    PROVE  /\ ViewOK([view EXCEPT !.error = e, !.status = s])
           /\ ViewOK([view EXCEPT !.status = s])
           /\ ViewOK([view EXCEPT !.status = s, !.error = e, !.rows = <<>>])
<1>1. view = Views(view.status, view.error, view.degraded, view.rows)
      /\ view.error \in BOOLEAN /\ view.degraded \in BOOLEAN /\ view.rows \in Seq([sequence : Nat, from : Nat])
  BY ViewIs DEF ViewOK
<1>2. <<>> \in Seq([sequence : Nat, from : Nat]) /\ Rises(<<>>, 0) /\ RowsOf(<<>>) = {}
  BY DEF Rises, RowsOf
<1>3. PICK v, a, m, c, d : v = view /\ v = Views(a, m, c, d)
                           /\ m = view.error /\ c = view.degraded /\ d = view.rows
  BY <1>1
<1>4. v = Views(a, m, c, d)
  BY <1>3
<1>5. WithError(v, e, s) = Views(s, e, c, d)
  BY <1>4, Updates
<1>6. WithStatus(v, s) = Views(s, m, c, d)
  BY <1>4, Updates
<1>7. PICK q : q = <<>> /\ Emptied(v, s, e, q) = Views(s, e, c, q)
  <2>1. PICK q : q = <<>>
    OBVIOUS
  <2>2. Emptied(v, s, e, q) = Views(s, e, c, q)
    BY <1>4, Updates
  <2> QED
    BY <2>1, <2>2
<1>8. \A b \in BOOLEAN :
        ViewOK(Views(s, b, view.degraded, view.rows))
  BY <1>1 DEF ViewOK, ViewShape, Views
<1>9. ViewOK(Views(s, e, view.degraded, <<>>))
  BY <1>1, <1>2 DEF ViewOK, ViewShape, Views
<1>10. ViewOK(WithError(view, e, s)) /\ ViewOK(WithStatus(view, s)) /\ ViewOK(Emptied(view, s, e, <<>>))
  BY <1>1, <1>3, <1>5, <1>6, <1>7, <1>8, <1>9
<1> QED
  BY <1>10 DEF WithError, WithStatus, Emptied

\* A subscription that is opened has something to wait for.
LEMMA OpeningIsSound ==
    ASSUME HookInv, NEW o \in Options, NEW rest \in SUBSET fetches, OpenSubscription(o, rest),
           published' = published, mounted' \in BOOLEAN
    PROVE  HookInv'
<1>1. sub' \in Nat /\ ~disposed' /\ published' \in Nat
  BY DEF HookInv, OpenSubscription
<1>2. ViewOK(view)'
  BY StatusIsSound DEF HookInv, OpenSubscription
<1>3. CASE o.transport = "none"
  <2>1. source' = NoSource /\ fetches' = rest \cup {Fetch(sub', "adapter")}
    BY <1>3 DEF OpenSubscription
  <2>2. Waits(Fetch(sub', "adapter")) /\ Brings(Fetch(sub', "adapter"), sub')
    BY <1>1, FetchWaits
  <2>3. \A f \in rest : Waits(f)
    BY DEF HookInv, Waits
  <2>4. source' \in [live : BOOLEAN, next : Nat \ {0}]
    BY <2>1 DEF NoSource
  <2>5. \A f \in fetches' : Waits(f)
    BY <2>1, <2>2, <2>3
  <2>6. \E f \in fetches' : Brings(f, sub')
    BY <2>1, <2>2
  <2> QED
    BY <1>1, <1>2, <2>4, <2>5, <2>6 DEF HookInv, Waits
<1>4. CASE o.transport # "none"
  <2>1. fetches' = rest /\ \E n \in FirstOf : source' = [live |-> TRUE, next |-> n]
    BY <1>4 DEF OpenSubscription
  <2>2. source' \in [live : BOOLEAN, next : Nat \ {0}] /\ source'.live
    BY <2>1 DEF FirstOf, HookInv
  <2>3. \A f \in fetches' : Waits(f)
    BY <2>1 DEF HookInv, Waits
  <2> QED
    BY <1>1, <1>2, <2>2, <2>3 DEF HookInv, Waits
<1> QED
  BY <1>3, <1>4

\* Whatever onError does, it leaves something to wait for, or it says "error".
LEMMA ErrorIsSound ==
    ASSUME HookInv, opts \in Options, NEW src \in [live : BOOLEAN, next : Nat \ {0}],
           NEW rest \in SUBSET fetches, OnError(src, rest),
           UNCHANGED <<published, mounted, opts>>
    PROVE  HookInv'
<1>1. CASE OpenSubscription(opts, rest)
  BY <1>1, OpeningIsSound DEF HookInv
<1>2. CASE RunFallbackFetch(src, rest) /\ UNCHANGED <<sub, budget, disposed>>
  <2>1. ViewOK(view)'
    BY <1>2, StatusIsSound DEF HookInv, RunFallbackFetch
  <2>2. Waits(Fetch(sub, "hook")) /\ Brings(Fetch(sub, "hook"), sub')
    BY <1>2, FetchWaits DEF HookInv
  <2>3. fetches' = rest \cup {Fetch(sub, "hook")} /\ source' = src
    BY <1>2 DEF RunFallbackFetch
  <2>4. \A f \in fetches' : Waits(f)
    BY <2>2, <2>3 DEF HookInv, Waits
  <2>5. \E f \in fetches' : Brings(f, sub')
    BY <2>2, <2>3
  <2>6. published' \in Nat /\ sub' \in Nat /\ mounted' \in BOOLEAN /\ (mounted' => ~disposed')
    BY <1>2 DEF HookInv
  <2> QED
    BY <2>1, <2>3, <2>4, <2>5, <2>6 DEF HookInv, Waits
<1>3. CASE StayInError(src, rest) /\ UNCHANGED <<sub, budget, disposed>>
  <2>1. ViewOK(view)'
    BY <1>3, StatusIsSound DEF HookInv, StayInError
  <2>2. view'.status = "error"
    BY <1>3 DEF HookInv, StayInError, ViewOK, ViewShape
  <2>3. fetches' = rest /\ source' = src
    BY <1>3 DEF StayInError
  <2>4. \A f \in fetches' : Waits(f)
    BY <2>3 DEF HookInv, Waits
  <2>5. published' \in Nat /\ sub' \in Nat /\ mounted' \in BOOLEAN /\ (mounted' => ~disposed')
    BY <1>3 DEF HookInv
  <2> QED
    BY <2>1, <2>2, <2>3, <2>4, <2>5 DEF HookInv, Waits
<1> QED
  BY <1>1, <1>2, <1>3 DEF OnError

\* A fetch is over, and the view it leaves does not wait, or never waited for it.
LEMMA FetchEnds ==
    ASSUME HookInv, NEW f \in fetches, fetches' = fetches \ {f}, ViewOK(view)',
           UNCHANGED <<published, mounted, sub, source, disposed>>,
           \/ ~mounted \/ view'.status # "connecting"
           \/ view' = view /\ ~Brings(f, sub)
    PROVE  HookInv'
<1>1. \A h \in fetches' : Waits(h)
  BY DEF HookInv, Waits
<1>2. mounted' /\ view'.status = "connecting" => source'.live \/ (\E h \in fetches' : Brings(h, sub'))
  <2> SUFFICES ASSUME mounted, view'.status = "connecting", ~source.live
               PROVE  \E h \in fetches' : h.by = "hook" \/ (h.by = "adapter" /\ h.sub = sub)
    BY DEF Brings
  <2>1. view' = view /\ ~Brings(f, sub)
    OBVIOUS
  <2>2. PICK h \in fetches : Brings(h, sub)
    BY <2>1 DEF HookInv
  <2> QED
    BY <2>1, <2>2 DEF Brings
<1> QED
  BY <1>1, <1>2 DEF HookInv, Waits

\* Every step of the hook, the server or the network keeps HookInv.
LEMMA HookStep ==
    ASSUME HookInv, opts \in Options, [StreamNext]_streamVars
    PROVE  HookInv' /\ opts' \in Options
<1>1. CASE PublishNext
  <2>1. ViewOK(view)'
    BY <1>1 DEF HookInv, PublishNext, ViewOK
  <2> QED
    BY <1>1, <2>1 DEF HookInv, PublishNext, Brings
<1>2. CASE Mount
  BY <1>2, OpeningIsSound DEF Mount
<1>3. CASE Reconnect
  BY <1>3, OpeningIsSound DEF Reconnect, HookInv
<1>4. ASSUME NEW o \in Options, ChangeOptions(o) PROVE HookInv' /\ opts' \in Options
  BY <1>4, OpeningIsSound DEF ChangeOptions, HookInv
<1>5. CASE Unmount
  <2>1. ViewOK(view)'
    BY <1>5, StatusIsSound DEF Unmount, HookInv
  <2>2. source' \in [live : BOOLEAN, next : Nat \ {0}]
    BY <1>5 DEF Unmount, HookInv
  <2> QED
    BY <1>5, <2>1, <2>2 DEF Unmount, HookInv
<1>6. CASE Deliver
  <2>1. source.next \in Nat /\ sub \in Nat /\ ViewOK(view)
    BY DEF HookInv
  <2>2. ViewOK(view)' /\ view'.status = "open"
    BY <1>6, <2>1, ShownIsSound DEF Deliver, ViewOK
  <2>3. source' \in [live : BOOLEAN, next : Nat \ {0}]
    BY <1>6 DEF Deliver, HookInv
  <2>4. \A f \in fetches' : Waits(f)
    BY <1>6 DEF Deliver, HookInv, Waits
  <2> QED
    BY <1>6, <2>2, <2>3, <2>4 DEF Deliver, HookInv, Waits
<1>7. CASE StreamError
  <2>1. PICK again \in BOOLEAN, n \in FirstOf : OnError([live |-> again, next |-> n], fetches)
    BY <1>7 DEF StreamError
  <2>2. [live |-> again, next |-> n] \in [live : BOOLEAN, next : Nat \ {0}]
    BY DEF FirstOf, HookInv
  <2> QED
    BY <1>7, <2>1, <2>2, ErrorIsSound DEF StreamError
<1>8. CASE Malformed
  <2>1. [source EXCEPT !.next = @ + 1] \in [live : BOOLEAN, next : Nat \ {0}]
    BY DEF HookInv
  <2> QED
    BY <1>8, <2>1, ErrorIsSound DEF Malformed
<1>9. ASSUME NEW f \in fetches, Answer(f) PROVE HookInv' /\ opts' \in Options
  <2>1. PICK h : h = [f EXCEPT !.body = published]
    OBVIOUS
  <2>2. f \in FetchShape /\ published \in Nat /\ published # 0
    BY <1>9 DEF HookInv, Answer
  <2>3. h \in FetchShape /\ h.by = f.by /\ h.sub = f.sub /\ h.body = published
    BY <2>1, <2>2 DEF FetchShape
  <2>4. fetches' = (fetches \ {f}) \cup {h}
    BY <1>9, <2>1 DEF Answer
  <2>5. \A k \in fetches' : Waits(k)
    BY <2>2, <2>3, <2>4 DEF HookInv, Waits
  <2>6. ASSUME NEW k \in fetches, Brings(k, sub) PROVE \E l \in fetches' : Brings(l, sub')
    <3>1. sub' = sub
      BY <1>9 DEF Answer
    <3>2. CASE k = f
      BY <2>3, <2>4, <2>6, <3>1, <3>2 DEF Brings
    <3>3. CASE k # f
      BY <2>4, <2>6, <3>1, <3>3 DEF Brings
    <3> QED
      BY <3>2, <3>3
  <2>7. ViewOK(view)'
    BY <1>9 DEF HookInv, Answer, ViewOK
  <2> QED
    BY <1>9, <2>5, <2>6, <2>7 DEF HookInv, Answer, Waits
<1>10. ASSUME NEW f \in fetches, SnapshotArrives(f) PROVE HookInv' /\ opts' \in Options
  <2>1. CASE disposed
    <3>1. ViewOK(view)' /\ ~mounted
      BY <1>10, <2>1 DEF SnapshotArrives, HookInv, ViewOK
    <3> QED
      BY <1>10, <2>1, <3>1, FetchEnds DEF SnapshotArrives
  <2>2. CASE ~disposed
    <3>1. f \in FetchShape /\ f.body \in Nat /\ f.sub \in Nat
      BY <1>10 DEF SnapshotArrives, HookInv, FetchShape, Unanswered
    <3>2. PICK q : q = SnapshotRows(f)
      OBVIOUS
    <3>3. /\ q \in Seq([sequence : Nat, from : Nat]) /\ Len(q) = f.body
          /\ \A i \in 1..Len(q) : q[i].sequence = i
      <4>1. \A i \in 1..f.body : [sequence |-> i, from |-> f.sub] \in [sequence : Nat, from : Nat]
        BY <3>1
      <4>2. q \in [1..f.body -> [sequence : Nat, from : Nat]]
        BY <3>2, <4>1 DEF SnapshotRows
      <4>3. q \in Seq([sequence : Nat, from : Nat]) /\ Len(q) = f.body
        <5>1. \A T : \A n \in Nat : \A r \in [1..n -> T] : r \in Seq(T) /\ Len(r) = n
          OBVIOUS
        <5> QED
          BY <3>1, <4>2, <5>1
      <4> QED
        BY <3>2, <4>3 DEF SnapshotRows
    <3>4. PICK d \in BOOLEAN : d = (view.degraded \/ \E n \in 1..f.body : n \in Degraded)
      OBVIOUS
    <3>5. view' = [status |-> "closed", error |-> FALSE, degraded |-> d, rows |-> q]
      BY <1>10, <2>2, <3>2, <3>4 DEF SnapshotArrives, HookInv, ViewOK, ViewShape
    <3>6. Rises(q, 0)
      BY <3>1, <3>3 DEF Rises
    <3>7. \A r \in RowsOf(q) : r.sequence \in Degraded => d
      BY <3>3, <3>4 DEF RowsOf
    <3>8. ViewOK(view)' /\ view'.status = "closed"
      BY <3>3, <3>5, <3>6, <3>7 DEF ViewOK, ViewShape
    <3> QED
      BY <1>10, <3>8, FetchEnds DEF SnapshotArrives
  <2> QED
    BY <2>1, <2>2
<1>11. ASSUME NEW f \in fetches, SnapshotFails(f) PROVE HookInv' /\ opts' \in Options
  <2>1. CASE disposed
    <3>1. ViewOK(view)' /\ ~mounted
      BY <1>11, <2>1 DEF SnapshotFails, HookInv, ViewOK
    <3> QED
      BY <1>11, <2>1, <3>1, FetchEnds DEF SnapshotFails
  <2>2. CASE ~disposed
    <3>1. view' = [view EXCEPT !.error = TRUE, !.status = "error"]
      BY <1>11, <2>2 DEF SnapshotFails
    <3>2. ViewOK([view EXCEPT !.error = TRUE, !.status = "error"])
      BY StatusIsSound DEF HookInv
    <3>3. view'.status = "error"
      BY <3>1 DEF HookInv, ViewOK, ViewShape
    <3>4. ViewOK(view)'
      BY <3>1, <3>2 DEF ViewOK
    <3> QED
      BY <1>11, <3>3, <3>4, FetchEnds DEF SnapshotFails
  <2> QED
    BY <2>1, <2>2
<1>12. ASSUME NEW f \in fetches, AdapterArrives(f) PROVE HookInv' /\ opts' \in Options
  <2>1. f.by = "adapter" /\ f.body \in Nat \ {0} /\ f.sub \in Nat
    BY <1>12 DEF AdapterArrives, HookInv, FetchShape, Unanswered
  <2>2. CASE Current(f)
    <3>1. view' = ShownUpTo(f.body, f.sub)
      BY <1>12, <2>2 DEF AdapterArrives
    <3>2. ViewOK(ShownUpTo(f.body, f.sub)) /\ ShownUpTo(f.body, f.sub).status = "open"
      BY <2>1, ShownUpToIsSound DEF HookInv
    <3>3. ViewOK(view)' /\ view'.status = "open"
      BY <3>1, <3>2 DEF ViewOK
    <3> QED
      BY <1>12, <3>3, FetchEnds DEF AdapterArrives
  <2>3. CASE ~Current(f)
    <3>1. view' = view /\ (~mounted \/ ~Brings(f, sub))
      BY <1>12, <2>1, <2>3 DEF AdapterArrives, Current, Brings
    <3>2. ViewOK(view)'
      BY <3>1 DEF HookInv, ViewOK
    <3> QED
      BY <1>12, <3>1, <3>2, FetchEnds DEF AdapterArrives
  <2> QED
    BY <2>2, <2>3
<1>13. ASSUME NEW f \in fetches, AdapterFails(f) PROVE HookInv' /\ opts' \in Options
  <2>1. CASE OnError(source, fetches \ {f})
    <3>1. source \in [live : BOOLEAN, next : Nat \ {0}] /\ fetches \ {f} \in SUBSET fetches
      BY DEF HookInv
    <3> QED
      BY <1>13, <2>1, <3>1, ErrorIsSound DEF AdapterFails
  <2>2. CASE ~Current(f) /\ fetches' = fetches \ {f}
             /\ UNCHANGED <<sub, source, budget, disposed, view, errors>>
    <3>1. view' = view /\ (~mounted \/ ~Brings(f, sub))
      BY <1>13, <2>2 DEF AdapterFails, Current, Brings
    <3>2. ViewOK(view)'
      BY <3>1 DEF HookInv, ViewOK
    <3> QED
      BY <1>13, <2>2, <3>1, <3>2, FetchEnds DEF AdapterFails
  <2> QED
    BY <1>13, <2>1, <2>2 DEF AdapterFails
<1>14. CASE UNCHANGED streamVars
  <2>1. ViewOK(view)'
    BY <1>14 DEF HookInv, streamVars, ViewOK
  <2> QED
    BY <1>14, <2>1 DEF HookInv, streamVars, Brings
<1> QED
  BY <1>1, <1>2, <1>3, <1>4, <1>5, <1>6, <1>7, <1>8, <1>9, <1>10, <1>11, <1>12, <1>13, <1>14
     DEF StreamNext

\* A sound view and a cause to wait are what HookIsSound says.
LEMMA HookInvIsSound ==
    ASSUME HookInv
    PROVE  HookIsSound
<1>1. view.rows \in Seq([sequence : Nat, from : Nat]) /\ Rises(view.rows, 0)
  BY DEF HookInv, ViewOK, ViewShape
<1>2. DOMAIN view.rows = 1..Len(view.rows)
      /\ \A i \in 1..Len(view.rows) : view.rows[i].sequence \in Nat
  <2>1. PICK T, q : T = [sequence : Nat, from : Nat] /\ q = view.rows
    OBVIOUS
  <2>2. q \in Seq(T)
    BY <1>1, <2>1
  <2>3. DOMAIN q = 1..Len(q) /\ \A i \in 1..Len(q) : q[i] \in T
    BY <2>2
  <2> QED
    BY <2>1, <2>3
<1>3. \A i, j \in DOMAIN view.rows : i < j => view.rows[i].sequence <= view.rows[j].sequence
  BY <1>1, <1>2 DEF Rises
<1>4. \A i \in DOMAIN view.rows : view.rows[i].sequence \in Degraded => view.degraded
  BY <1>2 DEF HookInv, ViewOK, RowsOf
<1>5. ConnectingHasACause
  BY DEF HookInv, ConnectingHasACause
<1> QED
  BY <1>3, <1>4, <1>5 DEF HookIsSound, RowsAreSound

\* The hook shows envelopes in order and marks degraded ones, and a mounted hook that says
\* "connecting" has a source or a fetch to wait for, for any number of subscriptions,
\* errors and envelopes: useEventStream() with its retry, its fallback and late answers.
THEOREM HookAlwaysSound ==
    StreamSpec => []HookIsSound
<1>1. StreamInit => HookInv /\ opts \in Options
  <2> SUFFICES ASSUME StreamInit PROVE HookInv /\ opts \in Options
    OBVIOUS
  <2>1. <<>> \in Seq([sequence : Nat, from : Nat])
    OBVIOUS
  <2>2. ViewOK(view)
    BY <2>1 DEF StreamInit, ViewOK, ViewShape, Rises, RowsOf
  <2> QED
    <3>1. source \in [live : BOOLEAN, next : Nat \ {0}]
      BY DEF StreamInit, NoSource
    <3>2. published \in Nat /\ sub \in Nat /\ mounted = FALSE /\ fetches = {} /\ opts \in Options
      BY DEF StreamInit
    <3> QED
      BY <2>2, <3>1, <3>2 DEF HookInv
<1>2. (HookInv /\ opts \in Options) /\ [StreamNext]_streamVars => (HookInv /\ opts \in Options)'
  BY HookStep
<1>3. HookInv => HookIsSound
  BY HookInvIsSound
<1> QED
  BY <1>1, <1>2, <1>3, PTL DEF StreamSpec
=============================================================================
