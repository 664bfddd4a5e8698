------------------------------ MODULE EventRing -------------------------------
(***************************************************************************)
(* src/stayquiet/publish.py and the SSE route of src/stayquiet/api.py: the *)
(* ring of envelopes any thread emits into, and the connections that poll  *)
(* it.  emit() numbers and appends under publish._lock, since() copies     *)
(* under it, so each is one step; the frames of a copied batch leave one   *)
(* by one, with emits, evictions and disconnects in between.               *)
(***************************************************************************)
EXTENDS Integers, Sequences, Selection

CONSTANTS
    RingTrace,      \* trace ids envelopes carry
    Conn,           \* SSE connections, one per request to /events/stream
    Note,           \* what an envelope says besides its number and its trace
    AllTraces,      \* the missing trace_id filter
    RING_CAPACITY,  \* envelopes kept
    MaxEmits        \* bound: envelopes emitted

ASSUME RingAssumption ==
    /\ RING_CAPACITY \in Nat \ {0}
    /\ MaxEmits \in Nat
    /\ AllTraces \notin RingTrace

VARIABLES
    seq,            \* _seq: the last sequence assigned
    ring,           \* _ring: the envelopes kept, oldest first
    conn            \* per connection: its filter, its cursor `last`, the frames of the
                    \* batch it is still sending, and the sequences it has sent

ringVars == <<seq, ring, conn>>

Closed == [open |-> FALSE]

Stream(filter) ==
    [open |-> TRUE, filter |-> filter, last |-> 0, batch |-> <<>>, sent |-> <<>>]

RingInit ==
    /\ seq = 0
    /\ ring = <<>>
    /\ conn = [c \in Conn |-> Closed]

\* Dropping from the front until the ring fits.
Trimmed(s) ==
    IF Len(s) > RING_CAPACITY THEN SubSeq(s, Len(s) - RING_CAPACITY + 1, Len(s)) ELSE s

\* emit().
Emit(trace, note) ==
    /\ seq' = seq + 1
    /\ ring' = Trimmed(Append(ring, [sequence |-> seq + 1, trace |-> trace, note |-> note]))
    /\ UNCHANGED conn

Matches(filter, env) == filter \in {AllTraces, env.trace}

InRing == {ring[i] : i \in DOMAIN ring}

\* envelopes(trace_id), in ring order, which is sequence order (RingIsTheTail).
Envelopes(filter) == Selected(ring, {env \in InRing : Matches(filter, env)})

\* Variant: the envelope at the cursor comes again.
SinceInclusive(last, filter) ==
    Selected(ring, {env \in InRing : env.sequence >= last /\ Matches(filter, env)})

\* since(sequence, trace_id).
Since(last, filter) ==
    Selected(ring, {env \in InRing : env.sequence > last /\ Matches(filter, env)})

\* GET /events/stream: a connection starts at sequence 0, whatever an earlier one saw.
Connect(c, filter) ==
    /\ ~conn[c].open
    /\ conn' = [conn EXCEPT ![c] = Stream(filter)]
    /\ UNCHANGED <<seq, ring>>

\* One turn of the polling loop finds new envelopes.  An empty batch changes only the
\* keepalive count.
Poll(c) ==
    /\ conn[c].open
    /\ conn[c].batch = <<>>
    /\ Since(conn[c].last, conn[c].filter) # <<>>
    /\ conn' = [conn EXCEPT ![c].batch = Since(conn[c].last, conn[c].filter)]
    /\ UNCHANGED <<seq, ring>>

\* Variant: the cursor moves to the last number assigned.
SendFrameToLatest(c) ==
    /\ conn[c].open
    /\ conn[c].batch # <<>>
    /\ conn' = [conn EXCEPT
          ![c].last = seq,
          ![c].sent = Append(@, Head(conn[c].batch).sequence),
          ![c].batch = Tail(@)]
    /\ UNCHANGED <<seq, ring>>

\* The next frame of the batch: the cursor moves to it and it is yielded.
SendFrame(c) ==
    /\ conn[c].open
    /\ conn[c].batch # <<>>
    /\ conn' = [conn EXCEPT
          ![c].last = Head(conn[c].batch).sequence,
          ![c].sent = Append(@, Head(conn[c].batch).sequence),
          ![c].batch = Tail(@)]
    /\ UNCHANGED <<seq, ring>>

\* The client goes away, at a poll or in the middle of a batch.
Disconnect(c) ==
    /\ conn[c].open
    /\ conn' = [conn EXCEPT ![c] = Closed]
    /\ UNCHANGED <<seq, ring>>

RingNext ==
    \/ \E t \in RingTrace, n \in Note : seq < MaxEmits /\ Emit(t, n)
    \/ \E c \in Conn :
          \/ \E f \in RingTrace \cup {AllTraces} : Connect(c, f)
          \/ Poll(c)
          \/ SendFrame(c)
          \/ Disconnect(c)

\* The polling loop of an open connection is never starved; emits, connects and
\* disconnects come from outside.
RingFairness ==
    \A c \in Conn : WF_ringVars(Poll(c)) /\ WF_ringVars(SendFrame(c))

RingSpec == RingInit /\ [][RingNext]_ringVars /\ RingFairness

-----------------------------------------------------------------------------

Envelope == [sequence : Nat \ {0}, trace : RingTrace, note : Note]

\* Every variable holds values of its shape.
RingTypeOK ==
    /\ seq \in Nat
    /\ ring \in Seq(Envelope)
    /\ \A c \in Conn :
         conn[c] = Closed
         \/ conn[c] \in [open : {TRUE}, filter : RingTrace \cup {AllTraces}, last : Nat,
                         batch : Seq(Envelope), sent : Seq(Nat \ {0})]

\* The ring is the newest RING_CAPACITY envelopes at most, with no gap and no repeat,
\* in the order of their numbers ("globally monotonic").
RingIsTheTail ==
    /\ Len(ring) <= RING_CAPACITY
    /\ \A i \in DOMAIN ring : ring[i].sequence = seq - Len(ring) + i

\* Numbers no longer in the ring.
Evicted == 1 .. seq - Len(ring)

\* A connection never sends a frame twice or out of order, also when the ring moved on
\* under the batch it is sending.
SentInOrder ==
    \A c \in Conn : conn[c].open =>
        \A i, j \in DOMAIN conn[c].sent : i < j => conn[c].sent[i] < conn[c].sent[j]

SentBy(c) == {conn[c].sent[i] : i \in DOMAIN conn[c].sent}

InBatch(c) == {conn[c].batch[i].sequence : i \in DOMAIN conn[c].batch}

\* A connection that is behind misses an envelope only when the ring dropped it: all
\* that is still in the ring and matches the filter, up to the cursor, was sent, and
\* none of it is skipped by a poll that came late.
MissedOnlyIfEvicted ==
    \A c \in Conn : conn[c].open =>
        \A i \in DOMAIN ring :
            Matches(conn[c].filter, ring[i]) =>
                \/ ring[i].sequence \in SentBy(c) \cup InBatch(c)
                \/ ring[i].sequence > conn[c].last
                   /\ \A k \in InBatch(c) : k < ring[i].sequence

\* The ring and every connection to it, however late it polls.
RingServesInOrder == RingIsTheTail /\ SentInOrder /\ MissedOnlyIfEvicted

\* What is emitted while a client is connected reaches it, or the ring overran it, or
\* the client is gone.
EventuallySent ==
    \A c \in Conn, k \in 1..MaxEmits :
        (conn[c].open /\ \E i \in DOMAIN ring :
             ring[i].sequence = k /\ Matches(conn[c].filter, ring[i]))
        ~> (~conn[c].open \/ k \in SentBy(c) \/ k \in Evicted)
=============================================================================
