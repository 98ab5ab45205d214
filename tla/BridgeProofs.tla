---------------------------- MODULE BridgeProofs ----------------------------
(***************************************************************************)
(* What the operators of Bridge do to the buffers, for every capacity and  *)
(* every content: the facts the proofs about its users cite.               *)
(***************************************************************************)
EXTENDS Bridge, SequenceTheorems, TLAPS

\* A waiting reader means an empty buffer: what makes every bridge_reset
\* effective.  It holds because BRIDGE_TRIGGER is one byte.
WaitingMeansEmpty == \A d \in Dir : waiting[d] => buf[d] = <<>>

\* The buffers are typed before and after bridge_init.
LEMMA InitType == bridge_init => BridgeTypeOK /\ WaitingMeansEmpty
BY BridgeAssumption DEF bridge_init, BridgeTypeOK, WaitingMeansEmpty

\* Sent returns a count between 0 and n that fits the space left.
LEMMA SentRange ==
  ASSUME NEW d \in Dir, NEW n \in Nat, BridgeTypeOK
  PROVE  Sent(d, n) \in 0..n /\ Sent(d, n) <= BUF_SIZE - Len(buf[d])
<1>1. Len(buf[d]) \in Nat /\ Len(buf[d]) <= BUF_SIZE /\ BUF_SIZE \in Nat
  BY BridgeAssumption, LenProperties DEF BridgeTypeOK
<1>2. CASE n <= BUF_SIZE - Len(buf[d])
  <2>1. Sent(d, n) = n
    BY <1>2 DEF Sent
  <2> QED BY <2>1, <1>2
<1>3. CASE ~(n <= BUF_SIZE - Len(buf[d]))
  <2>1. Sent(d, n) = BUF_SIZE - Len(buf[d])
    BY <1>3 DEF Sent
  <2> QED BY <2>1, <1>1, <1>3
<1> QED BY <1>2, <1>3

\* A push appends the first bytes of what it is offered, and only to its own
\* direction; if anything is queued afterwards, no reader is left waiting.
LEMMA PushProperties ==
  ASSUME NEW d \in Dir, NEW n \in Nat, BridgeTypeOK, WaitingMeansEmpty, Push(d, n)
  PROVE  /\ BridgeTypeOK'
         /\ WaitingMeansEmpty'
         /\ fed' = [fed EXCEPT ![d] = @ + n]
         /\ \A e \in Dir \ {d} : buf'[e] = buf[e]
         /\ Len(buf'[d]) \in Len(buf[d])..(Len(buf[d]) + n)
         /\ \A i \in 1..Len(buf[d]) : buf'[d][i] = buf[d][i]
         /\ \A i \in (Len(buf[d]) + 1)..Len(buf'[d]) :
              buf'[d][i] = fed[d] + (i - Len(buf[d]))
<1> DEFINE sent == Sent(d, n)
           new == [i \in 1..sent |-> fed[d] + i]
<1>1. sent \in 0..n /\ sent <= BUF_SIZE - Len(buf[d])
  BY SentRange
<1>2. buf[d] \in Seq(Nat) /\ fed[d] \in Nat /\ waiting[d] \in BOOLEAN
  BY DEF BridgeTypeOK
<1>3. Len(buf[d]) \in Nat
  BY <1>2, LenProperties
<1>4. sent \in Nat
  BY <1>1
<1>5. new \in Seq(Nat) /\ Len(new) = sent
  BY <1>2, <1>4
<1>6. \A i \in 1..sent : new[i] = fed[d] + i
  OBVIOUS
<1> HIDE DEF sent, new
<1>7. /\ buf[d] \o new \in Seq(Nat)
      /\ Len(buf[d] \o new) = Len(buf[d]) + sent
      /\ \A i \in 1..(Len(buf[d]) + sent) :
           (buf[d] \o new)[i] = IF i <= Len(buf[d]) THEN buf[d][i]
                                                    ELSE new[i - Len(buf[d])]
  BY <1>2, <1>5, ConcatProperties
<1>8. /\ buf' = [buf EXCEPT ![d] = buf[d] \o new]
      /\ fed' = [fed EXCEPT ![d] = @ + n]
      /\ waiting' = [waiting EXCEPT
                       ![d] = @ /\ (sent = 0 \/ Len(buf[d] \o new) < BRIDGE_TRIGGER)]
  BY DEF Push, sent, new
<1>9. buf'[d] = buf[d] \o new /\ \A e \in Dir \ {d} : buf'[e] = buf[e]
  BY <1>8 DEF BridgeTypeOK
<1>10. BridgeTypeOK'
  <2>1. buf' \in [Dir -> Seq(Nat)]
    BY <1>7, <1>8 DEF BridgeTypeOK
  <2>2. \A e \in Dir : Len(buf'[e]) <= BUF_SIZE
    <3>1. Len(buf'[d]) <= BUF_SIZE
      BY <1>1, <1>3, <1>4, <1>7, <1>9, BridgeAssumption
    <3> QED BY <3>1, <1>9 DEF BridgeTypeOK
  <2>3. fed' \in [Dir -> Nat]
    BY <1>8 DEF BridgeTypeOK
  <2>4. waiting' \in [Dir -> BOOLEAN]
    BY <1>8, <1>2 DEF BridgeTypeOK
  <2> QED BY <2>1, <2>2, <2>3, <2>4 DEF BridgeTypeOK
<1>11. WaitingMeansEmpty'
  <2>1. waiting'[d] => buf'[d] = <<>>
    <3> SUFFICES ASSUME waiting'[d] PROVE buf'[d] = <<>>
      OBVIOUS
    <3>1. waiting'[d] = (waiting[d] /\ (sent = 0 \/ Len(buf[d] \o new) < BRIDGE_TRIGGER))
      BY <1>8 DEF BridgeTypeOK
    <3>2. waiting[d] /\ (sent = 0 \/ Len(buf[d] \o new) < 1)
      BY <3>1, Zenon DEF BRIDGE_TRIGGER
    <3>3. Len(buf[d]) = 0
      BY <3>2 DEF WaitingMeansEmpty
    <3>4. Len(buf'[d]) = 0
      BY <3>2, <3>3, <1>4, <1>7, <1>9
    <3> QED BY <3>4, <1>7, <1>9, EmptySeq
  <2>2. \A e \in Dir \ {d} : waiting'[e] = waiting[e]
    BY <1>8 DEF BridgeTypeOK
  <2> QED BY <2>1, <2>2, <1>9 DEF WaitingMeansEmpty
<1>12. \A i \in (Len(buf[d]) + 1)..Len(buf'[d]) :
          buf'[d][i] = fed[d] + (i - Len(buf[d]))
  BY <1>3, <1>4, <1>6, <1>7, <1>9
<1>13. Len(buf'[d]) \in Len(buf[d])..(Len(buf[d]) + n)
  BY <1>1, <1>3, <1>4, <1>7, <1>9
<1>14. \A i \in 1..Len(buf[d]) : buf'[d][i] = buf[d][i]
  BY <1>3, <1>4, <1>7, <1>9
<1> QED BY <1>8, <1>9, <1>10, <1>11, <1>12, <1>13, <1>14

\* A receive that blocks changes no byte.
LEMMA BlockProperties ==
  ASSUME NEW d \in Dir, BridgeTypeOK, WaitingMeansEmpty, Block(d)
  PROVE  BridgeTypeOK' /\ WaitingMeansEmpty' /\ UNCHANGED <<buf, fed>>
BY DEF BridgeTypeOK, WaitingMeansEmpty, Block

\* A receive takes a prefix of the queue and leaves the rest, in order.
LEMMA TakeProperties ==
  ASSUME NEW d \in Dir, NEW max \in Nat, BridgeTypeOK, WaitingMeansEmpty,
         Take(d, max)
  PROVE  /\ BridgeTypeOK'
         /\ WaitingMeansEmpty'
         /\ UNCHANGED fed
         /\ \A e \in Dir \ {d} : buf'[e] = buf[e]
         /\ Available(d, max) \in Seq(Nat)
         /\ Len(Available(d, max)) + Len(buf'[d]) = Len(buf[d])
         /\ \A i \in 1..Len(Available(d, max)) : Available(d, max)[i] = buf[d][i]
         /\ \A i \in 1..Len(buf'[d]) : buf'[d][i] = buf[d][Len(Available(d, max)) + i]
<1> DEFINE k == IF Len(buf[d]) < max THEN Len(buf[d]) ELSE max
           avail == Available(d, max)
           rest == SubSeq(buf[d], k + 1, Len(buf[d]))
<1>1. buf[d] \in Seq(Nat) /\ Len(buf[d]) \in Nat
  BY LenProperties DEF BridgeTypeOK
<1>2. k \in 0..Len(buf[d])
  BY <1>1
<1>3. /\ avail \in Seq(Nat)
      /\ Len(avail) = k
      /\ \A i \in 1..k : avail[i] = buf[d][i]
  BY <1>1, <1>2, SubSeqProperties, ElementOfSeq DEF Available
<1>4. /\ rest \in Seq(Nat)
      /\ Len(rest) = Len(buf[d]) - k
      /\ \A i \in 1..(Len(buf[d]) - k) : rest[i] = buf[d][k + i]
  <2> HIDE DEF k
  <2>1. \A i \in (k + 1)..Len(buf[d]) : buf[d][i] \in Nat
    BY <1>1, <1>2, ElementOfSeq
  <2>2. k + 1 \in Int /\ Len(buf[d]) \in Int
    BY <1>1, <1>2
  <2>3. /\ rest \in Seq(Nat)
        /\ Len(rest) = IF k + 1 <= Len(buf[d]) THEN Len(buf[d]) - (k + 1) + 1 ELSE 0
        /\ \A i \in 1..(Len(buf[d]) - (k + 1) + 1) : rest[i] = buf[d][(k + 1) + i - 1]
    BY <2>1, <2>2, SubSeqProperties
  <2> HIDE DEF rest
  <2> QED BY <2>3, <1>1, <1>2
<1>5. buf' = [buf EXCEPT ![d] = rest]
  BY <1>3 DEF Take
<1>6. buf'[d] = rest /\ \A e \in Dir \ {d} : buf'[e] = buf[e]
  BY <1>5 DEF BridgeTypeOK
<1>7. waiting' = [waiting EXCEPT ![d] = FALSE] /\ UNCHANGED fed
  BY DEF Take
<1> HIDE DEF k, avail, rest
<1>8. BridgeTypeOK'
  <2>1. \A e \in Dir : Len(buf'[e]) <= BUF_SIZE
    <3>1. Len(buf'[d]) <= BUF_SIZE
      BY <1>1, <1>2, <1>4, <1>6, BridgeAssumption DEF BridgeTypeOK
    <3> QED BY <3>1, <1>6 DEF BridgeTypeOK
  <2>2. buf' \in [Dir -> Seq(Nat)]
    BY <1>4, <1>5 DEF BridgeTypeOK
  <2> QED BY <2>1, <2>2, <1>7 DEF BridgeTypeOK
<1>9. WaitingMeansEmpty'
  BY <1>6, <1>7 DEF WaitingMeansEmpty, BridgeTypeOK
<1> QED BY <1>1, <1>2, <1>3, <1>4, <1>6, <1>7, <1>8, <1>9 DEF avail

\* A reset empties both buffers: where FreeRTOS refuses it, the buffer is
\* empty already.
LEMMA ResetProperties ==
  ASSUME BridgeTypeOK, WaitingMeansEmpty, bridge_reset
  PROVE  /\ BridgeTypeOK'
         /\ WaitingMeansEmpty'
         /\ UNCHANGED fed
         /\ \A d \in Dir : buf'[d] = <<>>
<1>1. \A d \in Dir : buf'[d] = <<>>
  BY DEF bridge_reset, WaitingMeansEmpty
<1>2. buf' \in [Dir -> Seq(Nat)]
  <2>1. \A d \in Dir : (IF waiting[d] THEN buf[d] ELSE <<>>) \in Seq(Nat)
    BY EmptySeq DEF BridgeTypeOK
  <2> QED BY <2>1 DEF bridge_reset
<1>3. \A d \in Dir : Len(buf'[d]) <= BUF_SIZE
  BY <1>1, BridgeAssumption
<1>4. WaitingMeansEmpty'
  BY <1>1 DEF WaitingMeansEmpty
<1> QED BY <1>1, <1>2, <1>3, <1>4 DEF BridgeTypeOK, bridge_reset

-----------------------------------------------------------------------------
(* What a step of a user of the bridge can do to the buffers. *)

BridgeCall ==
  \/ \E d \in Dir, n \in Nat : Push(d, n)
  \/ \E d \in Dir : Block(d)
  \/ \E d \in Dir, n \in Nat : Take(d, n)
  \/ bridge_reset
  \/ UNCHANGED bridgeVars

\* Every call keeps the buffers typed, and a waiting reader's buffer empty.
LEMMA BridgeCallType ==
  ASSUME BridgeTypeOK, WaitingMeansEmpty, BridgeCall
  PROVE  BridgeTypeOK' /\ WaitingMeansEmpty'
<1>1. CASE \E d \in Dir, n \in Nat : Push(d, n)
  BY <1>1, PushProperties
<1>2. CASE \E d \in Dir : Block(d)
  BY <1>2, BlockProperties
<1>3. CASE \E d \in Dir, n \in Nat : Take(d, n)
  BY <1>3, TakeProperties
<1>4. CASE bridge_reset
  BY <1>4, ResetProperties
<1>5. CASE UNCHANGED bridgeVars
  BY <1>5 DEF bridgeVars, BridgeTypeOK, WaitingMeansEmpty
<1> QED BY <1>1, <1>2, <1>3, <1>4, <1>5 DEF BridgeCall

\* After any call, a byte in a buffer was there before or has just been
\* offered, and what was offered before stays counted.
LEMMA BridgeCallBytes ==
  ASSUME BridgeTypeOK, WaitingMeansEmpty, BridgeCall, NEW d \in Dir
  PROVE  /\ fed[d] <= fed'[d]
         /\ \A i \in 1..Len(buf'[d]) :
              \/ \E j \in 1..Len(buf[d]) : buf'[d][i] = buf[d][j]
              \/ fed[d] < buf'[d][i]
<1>0. /\ fed[d] \in Nat /\ buf[d] \in Seq(Nat) /\ Len(buf[d]) \in Nat
      /\ fed \in [Dir -> Nat]
  BY LenProperties DEF BridgeTypeOK
<1>1. ASSUME NEW e \in Dir, NEW n \in Nat, Push(e, n)
      PROVE  /\ fed[d] <= fed'[d]
             /\ \A i \in 1..Len(buf'[d]) :
                  \/ \E j \in 1..Len(buf[d]) : buf'[d][i] = buf[d][j]
                  \/ fed[d] < buf'[d][i]
  <2>1. CASE d = e
    <3>1. /\ fed' = [fed EXCEPT ![d] = @ + n]
          /\ Len(buf'[d]) \in Len(buf[d])..(Len(buf[d]) + n)
          /\ \A i \in 1..Len(buf[d]) : buf'[d][i] = buf[d][i]
          /\ \A i \in (Len(buf[d]) + 1)..Len(buf'[d]) :
               buf'[d][i] = fed[d] + (i - Len(buf[d]))
      BY <1>1, <2>1, PushProperties
    <3>2. fed[d] <= fed'[d]
      BY <1>0, <3>1
    <3>3. ASSUME NEW i \in 1..Len(buf'[d])
          PROVE  \/ \E j \in 1..Len(buf[d]) : buf'[d][i] = buf[d][j]
                 \/ fed[d] < buf'[d][i]
      <4>1. CASE i <= Len(buf[d])
        BY <3>1, <4>1, <1>0
      <4>2. CASE i > Len(buf[d])
        BY <3>1, <4>2, <1>0
      <4> QED BY <4>1, <4>2, <1>0, <3>1
    <3> QED BY <3>2, <3>3
  <2>2. CASE d # e
    <3>1. fed' = [fed EXCEPT ![e] = @ + n] /\ buf'[d] = buf[d]
      BY <1>1, <2>2, PushProperties
    <3> QED BY <3>1, <1>0, <2>2
  <2> QED BY <2>1, <2>2
<1>2. ASSUME NEW e \in Dir, NEW n \in Nat, Take(e, n)
      PROVE  /\ fed[d] <= fed'[d]
             /\ \A i \in 1..Len(buf'[d]) :
                  \/ \E j \in 1..Len(buf[d]) : buf'[d][i] = buf[d][j]
                  \/ fed[d] < buf'[d][i]
  <2>1. UNCHANGED fed
    BY <1>2, TakeProperties
  <2>2. CASE d # e
    <3>1. buf'[d] = buf[d]
      BY <1>2, <2>2, TakeProperties
    <3> QED BY <2>1, <3>1, <1>0
  <2>3. CASE d = e
    <3> DEFINE a == Len(Available(d, n))
    <3>1. /\ BridgeTypeOK'
          /\ Available(d, n) \in Seq(Nat)
          /\ a + Len(buf'[d]) = Len(buf[d])
          /\ \A i \in 1..Len(buf'[d]) : buf'[d][i] = buf[d][a + i]
      BY <1>2, <2>3, TakeProperties
    <3>2. a \in Nat /\ Len(buf'[d]) \in Nat
      BY <3>1, LenProperties DEF BridgeTypeOK
    <3> HIDE DEF a
    <3>3. \A i \in 1..Len(buf'[d]) : a + i \in 1..Len(buf[d])
      BY <3>1, <3>2, <1>0
    <3>4. fed[d] <= fed'[d]
      BY <2>1, <1>0
    <3>5. \A i \in 1..Len(buf'[d]) : \E j \in 1..Len(buf[d]) : buf'[d][i] = buf[d][j]
      BY <3>1, <3>3, Zenon
    <3> QED BY <3>4, <3>5
  <2> QED BY <2>2, <2>3
<1>3. CASE bridge_reset
  <2>1. UNCHANGED fed /\ buf'[d] = <<>>
    BY <1>3, ResetProperties
  <2> QED BY <2>1, <1>0
<1>4. CASE (\E e \in Dir : Block(e)) \/ UNCHANGED bridgeVars
  BY <1>4, <1>0 DEF Block, bridgeVars
<1> QED BY <1>1, <1>2, <1>3, <1>4 DEF BridgeCall

-----------------------------------------------------------------------------
(* Bytes on their way through one direction: a chunk its reader has popped,  *)
(* the queue behind it, the last byte that left and the number offered.      *)

\* s is increasing and all of it lies after lo and not after hi.
Increasing(s, lo, hi) ==
  /\ \A i, j \in 1..Len(s) : i < j => s[i] < s[j]
  /\ \A i \in 1..Len(s) : lo < s[i] /\ s[i] <= hi

\* Chunk and queue are in order, after what left, and the chunk comes first.
Flow(chunk, queue, last, hi) ==
  /\ Increasing(chunk, last, hi)
  /\ Increasing(queue, last, hi)
  /\ \A i \in 1..Len(chunk), j \in 1..Len(queue) : chunk[i] < queue[j]
  /\ last <= hi

\* Offering n bytes after hi and queueing the first of them keeps the order.
LEMMA FlowExtends ==
  ASSUME NEW chunk \in Seq(Nat), NEW q \in Seq(Nat), NEW r \in Seq(Nat),
         NEW last \in Nat, NEW hi \in Nat, NEW n \in Nat,
         Flow(chunk, q, last, hi),
         Len(r) \in Len(q)..(Len(q) + n),
         \A i \in 1..Len(q) : r[i] = q[i],
         \A i \in (Len(q) + 1)..Len(r) : r[i] = hi + (i - Len(q))
  PROVE  Flow(chunk, r, last, hi + n)
<1>1. Len(q) \in Nat /\ Len(r) \in Nat
  BY LenProperties
<1>2. /\ \A i \in 1..Len(chunk) : chunk[i] \in Nat
      /\ \A i \in 1..Len(q) : q[i] \in Nat
  BY ElementOfSeq
<1>3. \A i \in 1..Len(q) : last < q[i] /\ q[i] <= hi
  BY DEF Flow, Increasing
<1>4. \A i \in 1..Len(chunk) : last < chunk[i] /\ chunk[i] <= hi
  BY DEF Flow, Increasing
<1>5. last <= hi
  BY DEF Flow
<1>6. Increasing(chunk, last, hi + n)
  BY <1>2, <1>4 DEF Flow, Increasing
<1>7. ASSUME NEW i \in 1..Len(r), NEW j \in 1..Len(r), i < j
      PROVE  r[i] < r[j]
  <2>1. CASE j <= Len(q)
    <3>1. i \in 1..Len(q) /\ j \in 1..Len(q) /\ r[i] = q[i] /\ r[j] = q[j]
      BY <1>1, <1>7, <2>1
    <3> QED BY <3>1, <1>7 DEF Flow, Increasing
  <2>2. CASE i <= Len(q) /\ Len(q) < j
    <3>1. i \in 1..Len(q) /\ r[i] = q[i] /\ r[j] = hi + (j - Len(q))
      BY <1>1, <2>2
    <3> QED BY <3>1, <1>1, <1>2, <1>3, <2>2
  <2>3. CASE Len(q) < i
    <3>1. r[i] = hi + (i - Len(q)) /\ r[j] = hi + (j - Len(q))
      BY <1>1, <1>7, <2>3
    <3> QED BY <3>1, <1>1, <1>7
  <2> QED BY <2>1, <2>2, <2>3, <1>1
<1>8. ASSUME NEW i \in 1..Len(r)
      PROVE  /\ last < r[i] /\ r[i] <= hi + n
             /\ \A j \in 1..Len(chunk) : chunk[j] < r[i]
  <2>1. CASE i <= Len(q)
    <3>1. i \in 1..Len(q) /\ r[i] = q[i] /\ q[i] \in Nat
      BY <1>1, <1>2, <2>1
    <3>2. \A j \in 1..Len(chunk) : chunk[j] < r[i]
      BY <3>1 DEF Flow
    <3>3. last < r[i] /\ r[i] <= hi + n
      BY <3>1, <1>3
    <3> QED BY <3>2, <3>3
  <2>2. CASE Len(q) < i
    <3>1. r[i] = hi + (i - Len(q)) /\ 1 <= i - Len(q) /\ i - Len(q) <= n
      BY <1>1, <2>2
    <3>2. last < r[i] /\ r[i] <= hi + n
      BY <3>1, <1>1, <1>5
    <3>3. \A j \in 1..Len(chunk) : chunk[j] < r[i]
      BY <3>1, <1>1, <1>2, <1>4
    <3> QED BY <3>2, <3>3
  <2> QED BY <2>1, <2>2, <1>1
<1>9. last <= hi + n
  BY <1>5
<1>10. Increasing(r, last, hi + n)
  BY <1>7, <1>8 DEF Increasing
<1> QED BY <1>6, <1>8, <1>9, <1>10 DEF Flow

\* Popping a prefix of the queue into a new chunk keeps the order.
LEMMA FlowPops ==
  ASSUME NEW chunk, NEW q \in Seq(Nat), NEW a \in Seq(Nat), NEW r \in Seq(Nat),
         NEW last \in Nat, NEW hi \in Nat,
         Flow(chunk, q, last, hi),
         Len(a) + Len(r) = Len(q),
         \A i \in 1..Len(a) : a[i] = q[i],
         \A i \in 1..Len(r) : r[i] = q[Len(a) + i]
  PROVE  Flow(a, r, last, hi)
<1>1. Len(a) \in Nat /\ Len(q) \in Nat /\ Len(r) \in Nat
  BY LenProperties
<1>2. \A i \in 1..Len(a) : i \in 1..Len(q)
  BY <1>1
<1>3. \A i \in 1..Len(r) : Len(a) + i \in 1..Len(q)
  BY <1>1
<1>4. \A i, j \in 1..Len(r) : i < j => Len(a) + i < Len(a) + j
  BY <1>1
<1>5. \A i \in 1..Len(a), j \in 1..Len(r) : i < Len(a) + j
  BY <1>1
<1>6. Increasing(a, last, hi)
  BY <1>2 DEF Flow, Increasing
<1>7. Increasing(r, last, hi)
  BY <1>3, <1>4 DEF Flow, Increasing
<1>8. \A i \in 1..Len(a), j \in 1..Len(r) : a[i] < r[j]
  BY <1>2, <1>3, <1>5 DEF Flow, Increasing
<1> QED BY <1>6, <1>7, <1>8 DEF Flow

\* Delivering the chunk's first k bytes and keeping the rest keeps the order.
LEMMA FlowDelivers ==
  ASSUME NEW chunk \in Seq(Nat), NEW q \in Seq(Nat), NEW last \in Nat,
         NEW hi \in Nat, NEW k \in 1..Len(chunk), Flow(chunk, q, last, hi)
  PROVE  /\ Flow(SubSeq(chunk, k + 1, Len(chunk)), q, chunk[k], hi)
         /\ SubSeq(chunk, k + 1, Len(chunk)) \in Seq(Nat)
         /\ chunk[1] = Head(chunk)
         /\ chunk[1] \in (last + 1)..hi
         /\ chunk[k] \in chunk[1]..hi
<1> DEFINE rest == SubSeq(chunk, k + 1, Len(chunk))
<1>1. Len(chunk) \in Nat /\ \A i \in 1..Len(chunk) : chunk[i] \in Nat
  BY LenProperties, ElementOfSeq
<1>2. /\ rest \in Seq(Nat)
      /\ Len(rest) = Len(chunk) - k
      /\ \A i \in 1..(Len(chunk) - k) : rest[i] = chunk[k + i]
  <2>1. \A i \in (k + 1)..Len(chunk) : chunk[i] \in Nat
    BY <1>1
  <2>2. k + 1 \in Int /\ Len(chunk) \in Int
    BY <1>1
  <2>3. /\ rest \in Seq(Nat)
        /\ Len(rest) = IF k + 1 <= Len(chunk) THEN Len(chunk) - (k + 1) + 1 ELSE 0
        /\ \A i \in 1..(Len(chunk) - (k + 1) + 1) : rest[i] = chunk[(k + 1) + i - 1]
    BY <2>1, <2>2, SubSeqProperties
  <2> HIDE DEF rest
  <2> QED BY <2>3, <1>1
<1> HIDE DEF rest
<1>3. \A i \in 1..Len(rest) : k + i \in 1..Len(chunk) /\ k < k + i
  BY <1>1, <1>2
<1>4. \A i, j \in 1..Len(rest) : i < j => k + i < k + j
  BY <1>1, <1>2
<1>5. Increasing(rest, chunk[k], hi)
  BY <1>2, <1>3, <1>4 DEF Flow, Increasing
<1>6. Increasing(q, chunk[k], hi)
  BY DEF Flow, Increasing
<1>7. \A i \in 1..Len(rest), j \in 1..Len(q) : rest[i] < q[j]
  BY <1>2, <1>3 DEF Flow
<1>8. last < chunk[k] /\ chunk[k] <= hi
  BY DEF Flow, Increasing
<1>9. Flow(rest, q, chunk[k], hi)
  BY <1>5, <1>6, <1>7, <1>8 DEF Flow
<1>10. chunk[1] \in (last + 1)..hi /\ chunk[k] \in chunk[1]..hi
  <2>1. 1 \in 1..Len(chunk) /\ (k = 1 \/ 1 < k)
    BY <1>1
  <2>2. last < chunk[1] /\ chunk[1] <= hi /\ (k = 1 \/ chunk[1] < chunk[k])
    BY <2>1 DEF Flow, Increasing
  <2> QED BY <1>1, <1>8, <2>1, <2>2
<1>11. chunk[1] = Head(chunk)
  BY <1>1, HeadTailProperties
<1> QED BY <1>2, <1>9, <1>10, <1>11 DEF rest

\* Giving up the chunk keeps the order, and so does emptying the queue.
LEMMA FlowDrops ==
  ASSUME NEW chunk, NEW q, NEW last, NEW hi, Flow(chunk, q, last, hi)
  PROVE  Flow(<<>>, q, last, hi) /\ Flow(chunk, <<>>, last, hi)
BY DEF Flow, Increasing

\* What a bridge call other than a pop of direction d does to the flow of d.
LEMMA FlowCall ==
  ASSUME BridgeTypeOK, WaitingMeansEmpty, NEW d \in Dir,
         NEW chunk \in Seq(Nat), NEW last \in Nat,
         Flow(chunk, buf[d], last, fed[d]),
         \/ \E e \in Dir, n \in Nat : Push(e, n)
         \/ \E e \in Dir : Block(e)
         \/ \E e \in Dir \ {d}, n \in Nat : Take(e, n)
         \/ bridge_reset
         \/ UNCHANGED bridgeVars
  PROVE  Flow(chunk, buf'[d], last, fed'[d])
<1>0. buf[d] \in Seq(Nat) /\ fed[d] \in Nat
  BY DEF BridgeTypeOK
<1>1. ASSUME NEW e \in Dir, NEW n \in Nat, Push(e, n)
      PROVE  Flow(chunk, buf'[d], last, fed'[d])
  <2>1. CASE e = d
    <3>1. /\ BridgeTypeOK'
          /\ fed' = [fed EXCEPT ![d] = @ + n]
          /\ Len(buf'[d]) \in Len(buf[d])..(Len(buf[d]) + n)
          /\ \A i \in 1..Len(buf[d]) : buf'[d][i] = buf[d][i]
          /\ \A i \in (Len(buf[d]) + 1)..Len(buf'[d]) :
               buf'[d][i] = fed[d] + (i - Len(buf[d]))
      BY <1>1, <2>1, PushProperties
    <3>2. fed'[d] = fed[d] + n /\ buf'[d] \in Seq(Nat)
      BY <3>1 DEF BridgeTypeOK
    <3>3. Flow(chunk, buf'[d], last, fed[d] + n)
      <4> DEFINE q == buf[d]
                 r == buf'[d]
                 hi == fed[d]
      <4>1. /\ q \in Seq(Nat) /\ r \in Seq(Nat) /\ hi \in Nat
            /\ Flow(chunk, q, last, hi)
            /\ Len(r) \in Len(q)..(Len(q) + n)
            /\ \A i \in 1..Len(q) : r[i] = q[i]
            /\ \A i \in (Len(q) + 1)..Len(r) : r[i] = hi + (i - Len(q))
        BY <1>0, <3>1, <3>2
      <4> HIDE DEF q, r, hi
      <4>2. Flow(chunk, r, last, hi + n)
        BY <4>1, FlowExtends, Zenon
      <4> QED BY <4>2 DEF r, hi
    <3> QED BY <3>2, <3>3
  <2>2. CASE e # d
    <3>1. buf'[d] = buf[d] /\ fed' = [fed EXCEPT ![e] = @ + n]
      BY <1>1, <2>2, PushProperties
    <3>2. fed'[d] = fed[d]
      BY <2>2, <3>1 DEF BridgeTypeOK
    <3> QED BY <3>1, <3>2
  <2> QED BY <2>1, <2>2
<1>2. ASSUME NEW e \in Dir \ {d}, NEW n \in Nat, Take(e, n)
      PROVE  Flow(chunk, buf'[d], last, fed'[d])
  <2>1. buf'[d] = buf[d] /\ fed' = fed
    BY <1>2, TakeProperties
  <2> QED BY <2>1
<1>3. CASE bridge_reset
  <2>1. buf'[d] = <<>> /\ fed' = fed
    BY <1>3, ResetProperties
  <2> QED BY <2>1, FlowDrops
<1>4. CASE (\E e \in Dir : Block(e)) \/ UNCHANGED bridgeVars
  BY <1>4 DEF Block, bridgeVars
<1> QED BY <1>1, <1>2, <1>3, <1>4

\* A pop of direction d moves the head of its queue into the chunk.
LEMMA FlowTake ==
  ASSUME BridgeTypeOK, WaitingMeansEmpty, NEW d \in Dir, NEW max \in Nat,
         NEW chunk, NEW last \in Nat, Flow(chunk, buf[d], last, fed[d]),
         Take(d, max)
  PROVE  Flow(Available(d, max), buf'[d], last, fed'[d])
<1>1. /\ BridgeTypeOK' /\ UNCHANGED fed
      /\ Available(d, max) \in Seq(Nat)
      /\ Len(Available(d, max)) + Len(buf'[d]) = Len(buf[d])
      /\ \A i \in 1..Len(Available(d, max)) : Available(d, max)[i] = buf[d][i]
      /\ \A i \in 1..Len(buf'[d]) : buf'[d][i] = buf[d][Len(Available(d, max)) + i]
  BY TakeProperties
<1>2. buf[d] \in Seq(Nat) /\ buf'[d] \in Seq(Nat) /\ fed[d] \in Nat
  BY <1>1 DEF BridgeTypeOK
<1> QED BY <1>1, <1>2, FlowPops
=============================================================================
