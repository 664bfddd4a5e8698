--------------------------- MODULE WebClient_proofs ----------------------------
(***************************************************************************)
(* Theorems about the web client, for any cycle and ring and any number of *)
(* clicks, faults and polls: appendEnvs() keeps the envelopes in order and *)
(* each once.  Joining gives envelopes that differ, sorting them gives     *)
(* numbers that rise (Selection_proofs), and the newest of them still do.  *)
(***************************************************************************)
EXTENDS WebClient, Selection_proofs, TLAPS

\* No number and no content comes twice.
Differ(q) ==
    \A i, j \in 1..Len(q) : i # j => q[i].sequence # q[j].sequence /\ q[i].key # q[j].key

\* The order and the uniqueness EnvelopesOnce asks of the envelopes kept.
InOrderOnce(q) ==
    \A i, j \in 1..Len(q) : i < j => q[i].sequence < q[j].sequence /\ q[i].key # q[j].key

\* An envelope that is fresh can join.
LEMMA FreshJoins ==
    ASSUME NEW q \in Seq(WebEnvelope), Differ(q), NEW env \in WebEnvelope, Fresh(q, env)
    PROVE  Append(q, env) \in Seq(WebEnvelope) /\ Differ(Append(q, env))
<1>1. PICK T, N : T = WebEnvelope /\ N = Len(q)
  OBVIOUS
<1>2. PICK p : p = Append(q, env)
  OBVIOUS
<1>3. /\ N \in Nat /\ p \in Seq(T) /\ Len(p) = N + 1 /\ p[N + 1] = env
      /\ \A i \in 1..N : p[i] = q[i]
  BY <1>1, <1>2
<1>4. \A i \in 1..N : q[i].sequence # env.sequence /\ q[i].key # env.key
  BY <1>1 DEF Fresh, Numbers, Contents
<1>5. Differ(p)
  <2> SUFFICES ASSUME NEW i \in 1 .. N + 1, NEW j \in 1 .. N + 1, i # j
               PROVE  p[i].sequence # p[j].sequence /\ p[i].key # p[j].key
    BY <1>3 DEF Differ
  <2>1. CASE i \in 1..N /\ j \in 1..N
    BY <1>1, <1>3, <2>1 DEF Differ
  <2>2. CASE i = N + 1 /\ j \in 1..N
    BY <1>3, <1>4, <2>2
  <2>3. CASE i \in 1..N /\ j = N + 1
    BY <1>3, <1>4, <2>3
  <2> QED
    BY <1>3, <2>1, <2>2, <2>3
<1> QED
  BY <1>1, <1>2, <1>3, <1>5

\* f joins the batch up to place N to what is kept.
JoinsTo(kept, batch, N, f) ==
    f = [n \in 0..N |-> IF n = 0 THEN kept
                        ELSE IF Fresh(f[n - 1], batch[n]) THEN Append(f[n - 1], batch[n])
                             ELSE f[n - 1]]

\* What is joined differs, from what is kept and among itself.
LEMMA JoinedDiffer ==
    ASSUME NEW kept \in Seq(WebEnvelope), Differ(kept), NEW batch \in Seq(WebEnvelope)
    PROVE  Joined(kept, batch) \in Seq(WebEnvelope) /\ Differ(Joined(kept, batch))
<1>1. PICK N \in Nat : N = Len(batch) /\ \A n \in 1..N : batch[n] \in WebEnvelope
  <2>1. PICK T : T = WebEnvelope
    OBVIOUS
  <2> QED
    BY <2>1
<1> DEFINE D == {q \in Seq(WebEnvelope) : Differ(q)}
           next(n, q) == IF Fresh(q, batch[n]) THEN Append(q, batch[n]) ELSE q
           G == [n \in 1..N |-> [q \in D |-> next(n, q)]]
<1>2. \A n \in 1..N, q \in D : next(n, q) \in D
  BY <1>1, FreshJoins
<1>3. \A n \in 1..N, q \in D : G[n][q] = next(n, q)
  OBVIOUS
<1>4. kept \in D /\ \A q \in D : q \in Seq(WebEnvelope) /\ Differ(q)
  OBVIOUS
<1> HIDE DEF D, G, next
<1>5. PICK f \in [0..N -> D] : f[0] = kept /\ \A n \in 1..N : f[n] = G[n][f[n - 1]]
  <2>1. IsRule(G, N, D)
    BY <1>2, <1>3 DEF IsRule
  <2>2. \E f : Computes(G, N, D, kept, f)
    BY <1>4, <2>1, RecursionExists
  <2> QED
    BY <2>2 DEF Computes
<1>6. \A n \in 0..N : f[n] = IF n = 0 THEN kept ELSE next(n, f[n - 1])
  <2> SUFFICES ASSUME NEW n \in 0..N, n # 0 PROVE f[n] = next(n, f[n - 1])
    BY <1>5
  <2>1. n \in 1..N /\ n - 1 \in 0..N
    OBVIOUS
  <2>2. f[n] = G[n][f[n - 1]] /\ f[n - 1] \in D
    BY <1>5, <2>1
  <2> QED
    BY <1>3, <2>1, <2>2
<1>7. JoinsTo(kept, batch, N, f)
  BY <1>5, <1>6 DEF JoinsTo, next
<1> DEFINE g == CHOOSE h : JoinsTo(kept, batch, N, h)
<1>8. JoinsTo(kept, batch, N, g)
  BY <1>7
<1>9. Joined(kept, batch) = g[N]
  BY <1>1 DEF Joined, JoinsTo
<1> HIDE DEF g
<1> DEFINE A == {n \in Nat : n <= N => g[n] \in D}
<1>10. 0 \in A
  BY <1>4, <1>8 DEF JoinsTo
<1>11. ASSUME NEW n \in Nat, n \in A PROVE n + 1 \in A
  <2> SUFFICES ASSUME n + 1 <= N PROVE g[n + 1] \in D
    OBVIOUS
  <2>1. PICK m : m = n + 1
    OBVIOUS
  <2>2. m \in 0..N /\ m \in 1..N /\ m # 0 /\ m - 1 = n /\ n <= N
    BY <2>1
  <2>3. g[m] = next(m, g[n])
    BY <1>8, <2>2 DEF JoinsTo, next
  <2>4. g[n] \in D
    BY <1>11, <2>2
  <2> QED
    BY <1>2, <2>1, <2>2, <2>3, <2>4
<1>12. N \in A
  <2> HIDE DEF A
  <2> QED
    BY <1>10, <1>11, Counting
<1> QED
  BY <1>4, <1>9, <1>12

\* The newest of what is in order are in order, and at most MaxKept.
LEMMA NewestInOrder ==
    ASSUME WebAssumption, NEW q \in Seq(WebEnvelope), InOrderOnce(q)
    PROVE  /\ Newest(q) \in Seq(WebEnvelope) /\ InOrderOnce(Newest(q))
           /\ Len(Newest(q)) <= MaxKept
<1>1. PICK T : T = WebEnvelope
  OBVIOUS
<1>2. PICK N \in Nat : T = WebEnvelope /\ N = Len(q) /\ q \in Seq(T)
  <2>1. q \in Seq(T)
    BY <1>1
  <2>2. Len(q) \in Nat
    BY <2>1
  <2> QED
    BY <1>1, <2>1, <2>2
<1>3. MaxKept \in Nat
  BY DEF WebAssumption
<1>4. CASE N > MaxKept
  <2>1. PICK d \in Nat : N = MaxKept + d /\ d >= 1
    <3>1. N - MaxKept \in Nat /\ N = MaxKept + (N - MaxKept) /\ N - MaxKept >= 1
      BY <1>3, <1>4
    <3> QED
      BY <3>1
  <2>2. PICK p : p = SubSeq(q, d + 1, N)
    OBVIOUS
  <2>3. /\ p \in Seq(T) /\ Len(p) = MaxKept /\ \A i \in 1..MaxKept : p[i] = q[d + i]
    <3>1. /\ SubSeq(q, d + 1, N) \in Seq(T) /\ Len(SubSeq(q, d + 1, N)) = N - d
          /\ \A i \in 1 .. N - d : SubSeq(q, d + 1, N)[i] = q[d + i]
      <4>1. d + 1 \in 1..Len(q) /\ q \in Seq(T) /\ N = Len(q) /\ N - d \in Nat
        BY <1>2, <1>3, <2>1
      <4>2. \A S : \A r \in Seq(S) : \A k \in Nat : k + 1 \in 1..Len(r) =>
              /\ SubSeq(r, k + 1, Len(r)) \in Seq(S) /\ Len(SubSeq(r, k + 1, Len(r))) = Len(r) - k
              /\ \A i \in 1 .. Len(r) - k : SubSeq(r, k + 1, Len(r))[i] = r[k + i]
        OBVIOUS
      <4> QED
        BY <4>1, <4>2
    <3>2. N - d = MaxKept
      BY <1>3, <2>1
    <3> QED
      BY <2>2, <3>1, <3>2
  <2>4. Newest(q) = p
    <3>1. N - MaxKept + 1 = d + 1
      BY <1>3, <2>1
    <3> QED
      BY <1>2, <1>4, <2>2, <3>1 DEF Newest
  <2>5. InOrderOnce(p)
    <3> SUFFICES ASSUME NEW i \in 1..MaxKept, NEW j \in 1..MaxKept, i < j
                 PROVE  p[i].sequence < p[j].sequence /\ p[i].key # p[j].key
      BY <2>3 DEF InOrderOnce
    <3>1. d + i \in 1..N /\ d + j \in 1..N /\ d + i < d + j
      BY <1>3, <2>1
    <3>2. PICK k, l : k = d + i /\ l = d + j
      OBVIOUS
    <3>3. p[i] = q[k] /\ p[j] = q[l]
      BY <2>3, <3>2
    <3>4. q[k].sequence < q[l].sequence /\ q[k].key # q[l].key
      BY <1>2, <3>1, <3>2 DEF InOrderOnce
    <3> QED
      BY <3>3, <3>4
  <2> QED
    BY <1>2, <1>3, <2>3, <2>4, <2>5
<1>5. CASE ~(N > MaxKept)
  <2>1. Newest(q) = q /\ N <= MaxKept
    BY <1>2, <1>3, <1>5 DEF Newest
  <2> QED
    BY <1>2, <2>1
<1> QED
  BY <1>4, <1>5

Kept(q) == q \in Seq(WebEnvelope) /\ InOrderOnce(q) /\ Len(q) <= MaxKept

\* appendEnvs() keeps them so, whatever batch it is given.
LEMMA AppendKeeps ==
    ASSUME WebAssumption, NEW kept, Kept(kept), NEW batch \in Seq(WebEnvelope)
    PROVE  Kept(AppendEnvs(kept, batch))
<1>1. \A r \in WebEnvelope : r.sequence \in Int /\ r.key \in Int
  BY DEF WebEnvelope, WebAssumption
<1>2. PICK T, N : T = WebEnvelope /\ N = Len(kept) /\ kept \in Seq(T) /\ N \in Nat
  BY DEF Kept
<1>3. \A i \in 1..N : kept[i] \in T
  BY <1>2
<1>4. Differ(kept)
  <2> SUFFICES ASSUME NEW i \in 1..N, NEW j \in 1..N, i # j
               PROVE  kept[i].sequence # kept[j].sequence /\ kept[i].key # kept[j].key
    BY <1>2 DEF Differ
  <2>1. kept[i].sequence \in Int /\ kept[j].sequence \in Int
    BY <1>1, <1>2, <1>3
  <2>2. CASE i < j
    BY <1>2, <2>1, <2>2 DEF Kept, InOrderOnce
  <2>3. CASE j < i
    BY <1>2, <2>1, <2>3 DEF Kept, InOrderOnce
  <2> QED
    BY <1>2, <2>2, <2>3
<1>5. PICK all : all = Joined(kept, batch)
  OBVIOUS
<1>6. all \in Seq(T) /\ Differ(all)
  BY <1>2, <1>4, <1>5, JoinedDiffer DEF Kept
<1>7. PICK q : q = SortBySequence(all)
  OBVIOUS
<1>8. q \in Seq(T) /\ Rises(q, 1) /\ RowsOf(q) = RowsOf(all)
  <2>1. \A r \in T : r.sequence \in Int
    BY <1>1, <1>2
  <2>2. \A i, j \in 1..Len(all) : i # j => all[i].sequence # all[j].sequence
    BY <1>6 DEF Differ
  <2> QED
    BY <1>6, <1>7, <2>1, <2>2, SortedRises
<1>9. InOrderOnce(q)
  <2> SUFFICES ASSUME NEW i \in 1..Len(q), NEW j \in 1..Len(q), i < j
               PROVE  q[i].sequence < q[j].sequence /\ q[i].key # q[j].key
    BY DEF InOrderOnce
  <2>1. q[i] \in T /\ q[j] \in T /\ q[i] \in RowsOf(all) /\ q[j] \in RowsOf(all)
    <3>1. q[i] \in T /\ q[j] \in T
      BY <1>8
    <3>2. q[i] \in RowsOf(q) /\ q[j] \in RowsOf(q)
      BY DEF RowsOf
    <3> QED
      BY <1>8, <3>1, <3>2
  <2>2. q[i].sequence \in Int /\ q[j].sequence \in Int /\ q[i].sequence + 1 <= q[j].sequence
    BY <1>1, <1>2, <1>8, <2>1 DEF Rises
  <2>3. PICK k, l \in 1..Len(all) : q[i] = all[k] /\ q[j] = all[l]
    BY <2>1 DEF RowsOf
  <2>4. k # l
    BY <2>2, <2>3
  <2> QED
    BY <1>6, <2>2, <2>3, <2>4 DEF Differ
<1>10. AppendEnvs(kept, batch) = IF all = kept THEN kept ELSE Newest(q)
  <2>1. {IF j = kept THEN kept ELSE Newest(SortBySequence(j)) : j \in {Joined(kept, batch)}}
          = {IF all = kept THEN kept ELSE Newest(q)}
    BY <1>5, <1>7
  <2> QED
    BY <2>1 DEF AppendEnvs
<1>11. CASE all = kept
  BY <1>10, <1>11
<1>12. CASE all # kept
  <2>1. AppendEnvs(kept, batch) = Newest(q)
    BY <1>10, <1>12
  <2>2. Newest(q) \in Seq(WebEnvelope) /\ InOrderOnce(Newest(q)) /\ Len(Newest(q)) <= MaxKept
    BY <1>2, <1>8, <1>9, NewestInOrder
  <2> QED
    BY <2>1, <2>2 DEF Kept
<1> QED
  BY <1>11, <1>12

\* What the service holds is what the source can bring, and what is kept is in order.
WebInv ==
    /\ srv \in AppState
    /\ stream.next \in Nat \ {0}
    /\ held \in Seq(WebEnvelope)
    /\ Kept(envs)

LEMMA EmptyIsState ==
    ASSUME WebAssumption
    PROVE  EMPTY_STATE \in AppState
<1>1. <<>> \in Seq(0..Steps)
  OBVIOUS
<1>2. 0 \in 0..Steps
  BY DEF WebAssumption
<1> QED
  BY <1>1, <1>2 DEF EMPTY_STATE, AppState

\* One more entry in the ring.
LEMMA RingGrows ==
    ASSUME NEW ring \in Seq(0..Steps), NEW key \in 0..Steps
    PROVE  Append(ring, key) \in Seq(0..Steps)
OBVIOUS

\* The service's steps keep its state in shape.
LEMMA ServiceInShape ==
    ASSUME WebAssumption, srv \in AppState,
           \/ CycleStarts \/ CycleEmits \/ ServerRestarts \/ AnswerFiled
           \/ \E b \in BOOLEAN : RunAnswered(b)
           \/ srv' = srv
    PROVE  srv' \in AppState
<1>1. /\ srv = [ring |-> srv.ring, card |-> srv.card, step |-> srv.step]
      /\ srv.ring \in Seq(0..Steps) /\ srv.card \in {"none", "pending", "resolved"}
      /\ srv.step \in 0..Steps
  <2>1. PICK R : R = Seq(0..Steps)
    OBVIOUS
  <2>2. srv \in [ring : R, card : {"none", "pending", "resolved"}, step : 0..Steps]
    BY <2>1 DEF AppState
  <2> QED
    BY <2>1, <2>2
<1>2. \A r \in Seq(0..Steps), c \in {"none", "pending", "resolved"}, s \in 0..Steps :
        [ring |-> r, card |-> c, step |-> s] \in AppState
  BY DEF AppState
<1>3. Steps \in Nat \ {0} /\ 0 \in 0..Steps /\ 1 \in 0..Steps
  BY DEF WebAssumption
<1>4. [srv EXCEPT !.step = 1] \in AppState
  <2>1. [srv EXCEPT !.step = 1] = [ring |-> srv.ring, card |-> srv.card, step |-> 1]
    BY <1>1
  <2> QED
    BY <1>1, <1>2, <1>3, <2>1
<1>5. CASE CycleStarts
  BY <1>4, <1>5 DEF CycleStarts, ServerStep
<1>6. CASE CycleEmits
  <2>1. PICK r, c, s :
          /\ r = Append(srv.ring, srv.step)
          /\ c = IF srv.step = Steps /\ srv.card = "none" THEN "pending" ELSE srv.card
          /\ s = IF srv.step = Steps THEN 0 ELSE srv.step + 1
    OBVIOUS
  <2>2. srv' = [ring |-> r, card |-> c, step |-> s]
    BY <1>6, <2>1 DEF CycleEmits, ServerStep
  <2>3. r \in Seq(0..Steps)
    BY <1>1, <2>1, RingGrows
  <2>4. c \in {"none", "pending", "resolved"} /\ s \in 0..Steps
    BY <1>1, <1>3, <2>1
  <2> QED
    BY <1>2, <2>2, <2>3, <2>4
<1>7. CASE ServerRestarts
  BY <1>7, EmptyIsState DEF ServerRestarts
<1>8. CASE AnswerFiled
  <2>1. CASE srv.card = "pending"
    <3>1. PICK r : r = Append(srv.ring, Resolved)
      OBVIOUS
    <3>2. srv' = [srv EXCEPT !.card = "resolved", !.ring = r]
      BY <1>8, <2>1, <3>1 DEF AnswerFiled
    <3>3. r \in Seq(0..Steps)
      BY <1>1, <1>3, <3>1, RingGrows DEF Resolved
    <3>4. PICK w : w = [srv EXCEPT !.card = "resolved"]
      OBVIOUS
    <3>5. w = [ring |-> srv.ring, card |-> "resolved", step |-> srv.step]
      BY <1>1, <3>4
    <3>6. [w EXCEPT !.ring = r] = [ring |-> r, card |-> "resolved", step |-> srv.step]
      BY <3>5
    <3>7. srv' = [w EXCEPT !.ring = r]
      BY <3>2, <3>4
    <3> QED
      BY <1>1, <1>2, <3>3, <3>6, <3>7
  <2>2. CASE srv.card # "pending"
    BY <1>8, <2>2 DEF AnswerFiled
  <2> QED
    BY <2>1, <2>2
<1>9. CASE \E b \in BOOLEAN : RunAnswered(b)
  BY <1>4, <1>9 DEF RunAnswered
<1> QED
  BY <1>5, <1>6, <1>7, <1>8, <1>9

\* Every step of the tab, the network or the service keeps WebInv.
LEMMA WebStep ==
    ASSUME WebAssumption, WebInv, [WebNext]_webVars
    PROVE  WebInv'
<1>1. srv \in AppState /\ stream.next \in Nat \ {0} /\ held \in Seq(WebEnvelope) /\ Kept(envs)
  BY DEF WebInv
<1>2. ASSUME srv' \in AppState, stream'.next \in Nat \ {0}, UNCHANGED <<envs, held>>
      PROVE  WebInv'
  BY <1>1, <1>2 DEF WebInv, Kept
<1>3. CASE CycleStarts \/ CycleEmits
  <2>1. srv' \in AppState
    BY <1>1, <1>3, ServiceInShape
  <2> QED
    BY <1>1, <1>2, <1>3, <2>1 DEF CycleStarts, CycleEmits, ServerStep, viewVars
<1>4. CASE ServerRestarts
  <2>1. srv' \in AppState
    BY <1>1, <1>4, ServiceInShape
  <2>2. stream'.next = stream.next
    BY <1>4 DEF ServerRestarts
  <2> QED
    BY <1>1, <1>2, <1>4, <2>1, <2>2 DEF ServerRestarts, viewVars
<1>5. ASSUME NEW s \in Slot, Poll(s) PROVE WebInv'
  BY <1>1, <1>2, <1>5 DEF Poll, viewVars
<1>6. ASSUME NEW r \in Request, AnswerFetch(r) \/ FailFetch(r) \/ PollArrives(r) PROVE WebInv'
  BY <1>1, <1>2, <1>6 DEF AnswerFetch, FailFetch, PollArrives, viewVars
<1>7. CASE StreamOpens
  BY <1>1, <1>2, <1>7 DEF StreamOpens, viewVars
<1>8. CASE StreamBreaks
  <2>1. stream'.next = stream.next
    BY <1>8 DEF StreamBreaks
  <2> QED
    BY <1>1, <1>2, <1>8, <2>1 DEF StreamBreaks, viewVars
<1>9. CASE Deliver
  <2>1. PICK n, env : n = stream.next /\ env = [sequence |-> n, key |-> srv.ring[n]]
    OBVIOUS
  <2>2. n \in Nat \ {0} /\ n <= Len(srv.ring)
    BY <1>1, <1>9, <2>1 DEF Deliver
  <2>3. env \in WebEnvelope
    <3>1. PICK R, r : R = 0..Steps /\ r = srv.ring /\ r \in Seq(R)
      BY <1>1 DEF AppState
    <3>2. r[n] \in R
      BY <2>2, <3>1
    <3> QED
      BY <2>1, <2>2, <3>1, <3>2 DEF WebEnvelope
  <2>4. stream'.next \in Nat \ {0} /\ srv' = srv
    <3>1. stream' = [stream EXCEPT !.next = n + 1] /\ srv' = srv
      BY <1>9, <2>1 DEF Deliver
    <3>2. stream'.next = n + 1
      BY <1>1, <3>1
    <3> QED
      BY <2>2, <3>1, <3>2
  <2>5. \/ UNCHANGED <<envs, held>>
        \/ held' \in {held, Append(held, env)} /\ UNCHANGED envs
        \/ envs' = AppendEnvs(envs, <<env>>) /\ UNCHANGED held
    BY <1>9, <2>1 DEF Deliver
  <2>6. CASE UNCHANGED <<envs, held>>
    BY <1>1, <1>2, <2>4, <2>6
  <2>7. CASE held' \in {held, Append(held, env)} /\ UNCHANGED envs
    <3>1. PICK T : T = WebEnvelope
      OBVIOUS
    <3>2. Append(held, env) \in Seq(T)
      BY <1>1, <2>3, <3>1
    <3>3. held' \in Seq(WebEnvelope)
      BY <1>1, <2>7, <3>1, <3>2
    <3>4. Kept(envs)'
      BY <1>1, <2>7 DEF Kept
    <3> QED
      BY <1>1, <2>4, <3>3, <3>4 DEF WebInv
  <2>8. CASE envs' = AppendEnvs(envs, <<env>>) /\ UNCHANGED held
    <3>1. PICK T : T = WebEnvelope
      OBVIOUS
    <3>2. <<env>> \in Seq(T)
      BY <2>3, <3>1
    <3>3. Kept(AppendEnvs(envs, <<env>>))
      BY <1>1, <3>1, <3>2, AppendKeeps
    <3>4. Kept(envs)'
      BY <2>8, <3>3 DEF Kept
    <3> QED
      BY <1>1, <2>4, <2>8, <3>4 DEF WebInv
  <2> QED
    BY <2>5, <2>6, <2>7, <2>8
<1>10. <<>> \in Seq(WebEnvelope)
  OBVIOUS
<1>11. Kept(<<>>)
  BY <1>10 DEF Kept, InOrderOnce, WebAssumption
<1>12. CASE RunNow
  <2>1. envs' = <<>> /\ held' = <<>> /\ srv' = srv /\ stream' = stream
    BY <1>12 DEF RunNow
  <2>2. Kept(envs)'
    BY <1>11, <2>1 DEF Kept
  <2> QED
    BY <1>1, <1>10, <2>1, <2>2 DEF WebInv
<1>13. ASSUME NEW b \in BOOLEAN, RunAnswered(b) PROVE WebInv'
  <2>1. srv' \in AppState
    BY <1>1, <1>13, ServiceInShape
  <2> QED
    BY <1>1, <1>2, <1>13, <2>1 DEF RunAnswered, viewVars
<1>14. CASE BusyEnds \/ WindowEnds
  BY <1>1, <1>2, <1>14 DEF BusyEnds, WindowEnds, viewVars
<1>15. ASSUME NEW k \in 1..clicks, Release(k) PROVE WebInv'
  <2>1. envs' = AppendEnvs(envs, held) /\ held' = <<>> /\ srv' = srv /\ stream' = stream
    BY <1>15 DEF Release
  <2>2. Kept(AppendEnvs(envs, held))
    BY <1>1, AppendKeeps
  <2>3. Kept(envs)'
    BY <2>1, <2>2 DEF Kept
  <2> QED
    BY <1>1, <1>10, <2>1, <2>3 DEF WebInv
<1>16. CASE HostAnswers \/ AnswerLost \/ AnswerSettles
  BY <1>1, <1>2, <1>16 DEF HostAnswers, AnswerLost, AnswerSettles, viewVars
<1>17. CASE AnswerFiled
  <2>1. srv' \in AppState
    BY <1>1, <1>17, ServiceInShape
  <2> QED
    BY <1>1, <1>2, <1>17, <2>1 DEF AnswerFiled, viewVars
<1>18. CASE UNCHANGED webVars
  BY <1>1, <1>2, <1>18 DEF webVars
<1> QED
  BY <1>3, <1>4, <1>5, <1>6, <1>7, <1>8, <1>9, <1>12, <1>13, <1>14, <1>15, <1>16, <1>17, <1>18
     DEF WebNext

\* The tab keeps at most MaxKept envelopes, in the order of their numbers, and shows none
\* twice, for any cycle, any number of restarts, reconnects, clicks and any held buffer:
\* appendEnvs() of App.tsx, whatever order the ring is resent in.
THEOREM EnvelopesShownOnce ==
    WebSpec => []EnvelopesOnce
<1>1. WebInit => WebInv
  <2> SUFFICES ASSUME WebInit PROVE WebInv
    OBVIOUS
  <2>1. <<>> \in Seq(WebEnvelope)
    OBVIOUS
  <2>2. Kept(envs)
    BY <2>1, WebAssumption DEF WebInit, Kept, InOrderOnce, WebAssumption
  <2>3. stream.next \in Nat \ {0} /\ held \in Seq(WebEnvelope) /\ srv \in AppState
    BY <2>1, WebAssumption, EmptyIsState DEF WebInit
  <2> QED
    BY <2>2, <2>3 DEF WebInv
<1>2. WebInv /\ [WebNext]_webVars => WebInv'
  BY WebAssumption, WebStep
<1>3. WebInv => EnvelopesOnce
  <2> SUFFICES ASSUME WebInv PROVE EnvelopesOnce
    OBVIOUS
  <2>1. envs \in Seq(WebEnvelope) /\ InOrderOnce(envs) /\ Len(envs) <= MaxKept
    BY DEF WebInv, Kept
  <2>2. DOMAIN envs = 1..Len(envs)
    BY <2>1
  <2> QED
    BY <2>1, <2>2 DEF EnvelopesOnce, InOrderOnce
<1> QED
  BY <1>1, <1>2, <1>3, PTL DEF WebSpec
=============================================================================
