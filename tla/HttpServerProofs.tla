-------------------------- MODULE HttpServerProofs --------------------------
(***************************************************************************)
(* Proofs about WebForm and HttpServer.                                    *)
(*                                                                         *)
(* The operators of WebForm are recursive functions, as the loops they     *)
(* model.  What such a loop computes is proved by induction, which is      *)
(* stated of a set of naturals here, to be used with the set of those that *)
(* have a property; and a recursive function is shown to satisfy its own   *)
(* equation before anything else is said of it.                            *)
(***************************************************************************)
EXTENDS HttpServer, SequenceTheorems, WellFoundedInduction, TLAPS

-----------------------------------------------------------------------------
(* Induction and recursion *)

\* A set of naturals that is not empty has a least element.
LEMMA LeastElement ==
  ASSUME NEW U \in SUBSET Nat, U # {}
  PROVE  \E m \in U : \A k \in U : m <= k
<1> DEFINE R == OpToRel(<, Nat)
<1>1. IsWellFoundedOn(R, Nat)
  BY NatLessThanWellFounded
<1>2. PICK m \in U : \A k \in U : ~(<<k, m>> \in R)
  <2> HIDE DEF R
  <2> QED BY <1>1, WFMin
<1>3. SUFFICES ASSUME NEW k \in U, k < m PROVE FALSE
  OBVIOUS
<1>4. k \in Nat /\ m \in Nat
  OBVIOUS
<1>5. <<k, m>> \in R
  BY <1>3, <1>4 DEF OpToRel
<1> QED BY <1>2, <1>5

\* A set that has 0, and the successor of each natural it has, has them all.
LEMMA NatSetInduction ==
  ASSUME NEW T, 0 \in T, \A n \in Nat : n \in T => n + 1 \in T
  PROVE  \A n \in Nat : n \in T
<1> DEFINE U == {n \in Nat : n \notin T}
<1> SUFFICES ASSUME U # {} PROVE FALSE
  OBVIOUS
<1>1. PICK m \in U : \A k \in U : m <= k
  BY LeastElement
<1>2. m # 0 /\ m - 1 \in Nat /\ m - 1 \notin U
  BY <1>1
<1> QED BY <1>1, <1>2

\* A loop of n turns over a state in S, and its states from c on.
LoopStep(G, S, n) == \A v \in S, i \in 1..n : G[<<v, i>>] \in S
LoopStates(G, S, n, c) ==
  {h \in [0..n -> S] : h[0] = c /\ \A i \in 1..n : h[i] = G[<<h[i - 1], i>>]}

\* It has such states: each is computed from the one before.
LEMMA LoopDefined ==
  ASSUME NEW S, NEW n \in Nat, NEW c \in S, NEW G, LoopStep(G, S, n)
  PROVE  LoopStates(G, S, n, c) # {}
<1> USE DEF LoopStep
<1> DEFINE Up(h, m) == [i \in 0..m |-> IF i = 0 THEN c ELSE G[<<h[i - 1], i>>]]
           T == {m \in Nat : m <= n => \E h \in [0..m -> S] : h = Up(h, m)}
<1>1. 0 \in T
  <2> DEFINE h == [i \in 0..0 |-> c]
  <2>1. h \in [0..0 -> S] /\ h = Up(h, 0)
    OBVIOUS
  <2> HIDE DEF h
  <2> QED BY <2>1
<1>2. \A m \in Nat : m \in T => m + 1 \in T
  <2> SUFFICES ASSUME NEW m \in Nat, m \in T, m + 1 <= n
               PROVE  \E k \in [0..(m + 1) -> S] : k = Up(k, m + 1)
    OBVIOUS
  <2>1. PICK h \in [0..m -> S] : h = Up(h, m)
    OBVIOUS
  <2> DEFINE k == [i \in 0..(m + 1) |-> IF i <= m THEN h[i] ELSE G[<<h[m], m + 1>>]]
  <2>2. h[m] \in S /\ m + 1 \in 1..n /\ G[<<h[m], m + 1>>] \in S
    OBVIOUS
  <2>3. k \in [0..(m + 1) -> S]
    BY <2>2
  <2>4. \A i \in 0..(m + 1) : k[i] = IF i = 0 THEN c ELSE G[<<k[i - 1], i>>]
    <3> TAKE i \in 0..(m + 1)
    <3>1. CASE i <= m
      <4>1. i \in 0..m /\ k[i] = h[i] /\ (i # 0 => k[i - 1] = h[i - 1])
        BY <3>1
      <4>2. h[i] = IF i = 0 THEN c ELSE G[<<h[i - 1], i>>]
        BY <2>1, <4>1
      <4> HIDE DEF k
      <4> QED BY <4>1, <4>2
    <3>2. CASE i = m + 1
      <4>1. k[i] = G[<<h[m], i>>] /\ k[i - 1] = h[m] /\ i # 0
        BY <3>2
      <4> HIDE DEF k
      <4> QED BY <4>1
    <3> QED BY <3>1, <3>2
  <2> HIDE DEF k
  <2>5. k = Up(k, m + 1)
    BY <2>3, <2>4
  <2> QED BY <2>3, <2>5
<1>3. n \in T
  <2> HIDE DEF T
  <2> QED BY <1>1, <1>2, NatSetInduction
<1>4. PICK h \in [0..n -> S] : h = Up(h, n)
  BY <1>3
<1>5. h[0] = c /\ \A i \in 1..n : h[i] = G[<<h[i - 1], i>>]
  BY <1>4
<1> QED BY <1>5 DEF LoopStates

\* A function with values in S that is computed from its end: each value from
\* those after it.
TailStep(G, S, n) ==
  /\ \A i \in 1..n : \A f \in [1..(n + 1) -> S] : G[<<i, f>>] \in S
  /\ \A i \in 1..n : \A f, g \in [1..(n + 1) -> S] :
       (\A j \in (i + 1)..(n + 1) : f[j] = g[j]) => G[<<i, f>>] = G[<<i, g>>]
TailFunctions(G, S, n, c) ==
  {h \in [1..(n + 1) -> S] : h[n + 1] = c /\ \A i \in 1..n : h[i] = G[<<i, h>>]}

\* There is one.
LEMMA TailDefined ==
  ASSUME NEW S, NEW n \in Nat, NEW c \in S, NEW G, TailStep(G, S, n)
  PROVE  TailFunctions(G, S, n, c) # {}
<1> USE DEF TailStep
<1> DEFINE Right(h, m) ==
             \A i \in (n + 1 - m)..(n + 1) : h[i] = IF i > n THEN c ELSE G[<<i, h>>]
           T == {m \in Nat : m <= n => \E h \in [1..(n + 1) -> S] : Right(h, m)}
<1>1. 0 \in T
  <2> DEFINE h == [i \in 1..(n + 1) |-> c]
  <2>1. h \in [1..(n + 1) -> S] /\ Right(h, 0)
    OBVIOUS
  <2> HIDE DEF h
  <2> QED BY <2>1
<1>2. \A m \in Nat : m \in T => m + 1 \in T
  <2> SUFFICES ASSUME NEW m \in Nat, m \in T, m + 1 <= n
               PROVE  \E h \in [1..(n + 1) -> S] : Right(h, m + 1)
    <3> HIDE DEF Right
    <3> QED OBVIOUS
  <2>1. PICK h \in [1..(n + 1) -> S] : Right(h, m)
    OBVIOUS
  <2> DEFINE at == n - m
             v == G[<<at, h>>]
             k == [j \in 1..(n + 1) |-> IF j = at THEN v ELSE h[j]]
  <2>2. at \in 1..n /\ at \in 1..(n + 1) /\ v \in S
    OBVIOUS
  <2> HIDE DEF at, v
  <2>3. k \in [1..(n + 1) -> S]
    BY <2>2
  <2>4. \A j \in 1..(n + 1) : j # at => k[j] = h[j]
    BY <2>2
  <2>5. k[at] = G[<<at, h>>]
    BY <2>2 DEF v
  <2> HIDE DEF k
  <2>6. \A i \in at..(n + 1) : i <= n => G[<<i, h>>] = G[<<i, k>>]
    <3> SUFFICES ASSUME NEW i \in at..(n + 1), i <= n PROVE G[<<i, h>>] = G[<<i, k>>]
      OBVIOUS
    <3>1. i \in 1..n /\ \A j \in (i + 1)..(n + 1) : h[j] = k[j]
      BY <2>2, <2>4
    <3> QED BY <2>3, <3>1
  <2>7. at = n - m
    BY DEF at
  <2>8. \A i \in at..(n + 1) : k[i] = IF i > n THEN c ELSE G[<<i, k>>]
    <3> TAKE i \in at..(n + 1)
    <3>1. CASE i = at
      BY <2>2, <2>5, <2>6, <3>1
    <3>2. CASE i # at
      <4>1. i \in (n + 1 - m)..(n + 1) /\ i \in 1..(n + 1)
        BY <2>2, <2>7, <3>2
      <4>2. k[i] = h[i] /\ h[i] = IF i > n THEN c ELSE G[<<i, h>>]
        BY <2>1, <2>4, <3>2, <4>1
      <4> QED BY <2>6, <4>1, <4>2
    <3> QED BY <3>1, <3>2
  <2>9. n + 1 - (m + 1) = at
    BY <2>7
  <2> QED BY <2>3, <2>8, <2>9
<1>3. n \in T
  <2> HIDE DEF T
  <2> QED BY <1>1, <1>2, NatSetInduction
<1>4. PICK h \in [1..(n + 1) -> S] : Right(h, n)
  BY <1>3
<1>5. \A i \in 1..(n + 1) : h[i] = IF i > n THEN c ELSE G[<<i, h>>]
  <2>1. n + 1 - n = 1
    OBVIOUS
  <2> QED BY <1>4, <2>1
<1>6. n + 1 \in 1..(n + 1) /\ n + 1 > n /\ \A i \in 1..n : i \in 1..(n + 1) /\ ~(i > n)
  OBVIOUS
<1>7. h[n + 1] = c /\ \A i \in 1..n : h[i] = G[<<i, h>>]
  BY <1>5, <1>6
<1> QED BY <1>7 DEF TailFunctions

-----------------------------------------------------------------------------
(* The scan list *)

\* What wifi_scan promises of its list, for the records it was given.
EachOnce(heard, list) ==
  /\ \A i, j \in 1..Len(list) : i < j =>
       list[i].ssid # list[j].ssid /\ list[i].rssi >= list[j].rssi
  /\ \A j \in 1..Len(list) : \E i \in 1..Len(heard) : list[j] = heard[i]
  /\ \A i \in 1..Len(heard) : heard[i].ssid # <<>> =>
       \/ \E j \in 1..Len(list) :
            list[j].ssid = heard[i].ssid /\ list[j].rssi >= heard[i].rssi
       \/ Len(list) = MAX_SCAN_APS

Record == [ssid : Seq(Char), rssi : Int]
Sorted(recs) == \A i, j \in 1..Len(recs) : i < j => recs[i].rssi >= recs[j].rssi

\* The same of the first i records.
EachOnceUpTo(recs, list, i) ==
  /\ list \in Seq(Record) /\ Len(list) <= MAX_SCAN_APS
  /\ \A a, b \in 1..Len(list) : a < b =>
       list[a].ssid # list[b].ssid /\ list[a].rssi >= list[b].rssi
  /\ \A a \in 1..Len(list) : \E k \in 1..i : list[a] = recs[k]
  /\ \A k \in 1..i : recs[k].ssid # <<>> =>
       \/ \E a \in 1..Len(list) :
            list[a].ssid = recs[k].ssid /\ list[a].rssi >= recs[k].rssi
       \/ Len(list) = MAX_SCAN_APS

\* A turn of the loop takes one more record into account.
LEMMA ListedStep ==
  ASSUME NEW recs \in Seq(Record), Sorted(recs), NEW i \in 1..Len(recs),
         NEW list, EachOnceUpTo(recs, list, i - 1)
  PROVE  EachOnceUpTo(recs, Listed(list, recs[i], MAX_SCAN_APS), i)
<1> DEFINE new == Listed(list, recs[i], MAX_SCAN_APS)
           rec == recs[i]
           skipped == \/ Len(list) >= MAX_SCAN_APS
                      \/ rec.ssid = <<>>
                      \/ \E a \in 1..Len(list) : list[a].ssid = rec.ssid
<1>1. /\ list \in Seq(Record) /\ Len(list) \in Nat /\ Len(list) <= MAX_SCAN_APS
      /\ MAX_SCAN_APS \in Nat
      /\ rec \in Record /\ rec.rssi \in Int
      /\ Len(recs) \in Nat /\ i \in Nat /\ i >= 1
  <2>1. list \in Seq(Record) /\ Len(list) <= MAX_SCAN_APS
    BY DEF EachOnceUpTo
  <2>2. rec \in Record
    BY ElementOfSeq
  <2>3. \A r \in Record : r.rssi \in Int
    BY DEF Record
  <2> HIDE DEF rec
  <2> QED BY <2>1, <2>2, <2>3, FormAssumption, LenProperties
<1>2. \A a \in 1..Len(list) : \E k \in 1..(i - 1) : list[a] = recs[k]
  BY DEF EachOnceUpTo
<1>3. \A a \in 1..Len(list) : list[a] \in Record /\ list[a].rssi \in Int
  <2>1. \A r \in Record : r.rssi \in Int
    BY DEF Record
  <2> QED BY <1>1, <2>1, ElementOfSeq
<1>4. \A a \in 1..Len(list) : list[a].rssi >= rec.rssi
  <2> TAKE a \in 1..Len(list)
  <2>1. PICK k \in 1..(i - 1) : list[a] = recs[k]
    BY <1>2
  <2>2. k \in 1..Len(recs) /\ k < i
    BY <1>1
  <2> QED BY <2>1, <2>2 DEF Sorted
<1>5. CASE skipped
  <2>1. new = list
    BY <1>1, <1>5 DEF Listed
  <2>2. rec.ssid # <<>> =>
          \/ \E a \in 1..Len(list) : list[a].ssid = rec.ssid /\ list[a].rssi >= rec.rssi
          \/ Len(list) = MAX_SCAN_APS
    BY <1>1, <1>4, <1>5
  <2>3. EachOnceUpTo(recs, list, i)
    <3>1. \A k \in 1..i : k = i \/ k \in 1..(i - 1)
      BY <1>1
    <3>2. 1..(i - 1) \subseteq 1..i
      BY <1>1
    <3> QED BY <2>2, <3>1, <3>2 DEF EachOnceUpTo
  <2> QED BY <2>1, <2>3
<1>6. CASE ~skipped
  <2>1. new = Append(list, rec)
    BY <1>6, <1>1 DEF Listed
  <2> DEFINE n == Len(list)
  <2>2. /\ new \in Seq(Record) /\ Len(new) = n + 1
        /\ \A a \in 1..n : new[a] = list[a]
        /\ new[n + 1] = rec
    BY <1>1, <2>1, AppendProperties
  <2>3. n < MAX_SCAN_APS /\ \A a \in 1..n : list[a].ssid # rec.ssid
    BY <1>1, <1>6
  <2> HIDE DEF new, n, rec
  <2>4. n \in Nat /\ \A a \in 1..(n + 1) : a \in 1..n \/ a = n + 1
    BY <1>1 DEF n
  <2>5. ASSUME NEW a \in 1..(n + 1), NEW b \in 1..(n + 1), a < b
        PROVE  new[a].ssid # new[b].ssid /\ new[a].rssi >= new[b].rssi
    <3>1. a \in 1..n
      BY <2>4, <2>5
    <3>2. CASE b = n + 1
      BY <1>4, <2>2, <2>3, <3>1, <3>2 DEF n
    <3>3. CASE b \in 1..n
      BY <2>2, <2>5, <3>1, <3>3 DEF n, EachOnceUpTo
    <3> QED BY <2>4, <3>2, <3>3
  <2>6. ASSUME NEW a \in 1..(n + 1)
        PROVE  \E k \in 1..i : new[a] = recs[k]
    <3>1. CASE a = n + 1
      BY <1>1, <2>2, <3>1 DEF rec
    <3>2. CASE a \in 1..n
      <4>1. PICK k \in 1..(i - 1) : list[a] = recs[k]
        BY <1>2, <3>2 DEF n
      <4> QED BY <1>1, <2>2, <3>2, <4>1
    <3> QED BY <2>4, <3>1, <3>2
  <2>7. ASSUME NEW k \in 1..i, recs[k].ssid # <<>>
        PROVE  \/ \E a \in 1..(n + 1) :
                    new[a].ssid = recs[k].ssid /\ new[a].rssi >= recs[k].rssi
               \/ n + 1 = MAX_SCAN_APS
    <3>1. CASE k = i
      <4>1. n + 1 \in 1..(n + 1) /\ new[n + 1] = recs[k]
        BY <2>2, <2>4, <3>1 DEF rec
      <4>2. recs[k].rssi >= recs[k].rssi
        BY <1>1, <3>1 DEF rec
      <4> QED BY <4>1, <4>2
    <3>2. CASE k \in 1..(i - 1)
      <4>1. PICK a \in 1..n : list[a].ssid = recs[k].ssid /\ list[a].rssi >= recs[k].rssi
        BY <2>3, <2>4, <2>7, <3>2 DEF EachOnceUpTo, n
      <4>2. a \in 1..(n + 1) /\ new[a] = list[a]
        BY <2>2, <2>4
      <4> QED BY <4>1, <4>2
    <3> QED BY <1>1, <3>1, <3>2
  <2>8. n + 1 <= MAX_SCAN_APS
    BY <1>1, <2>3, <2>4
  <2>9. EachOnceUpTo(recs, new, i)
    BY <2>2, <2>5, <2>6, <2>7, <2>8 DEF EachOnceUpTo
  <2> QED BY <2>9 DEF new, rec
<1> QED BY <1>5, <1>6

\* The recursive function of wifi_scan satisfies its equation.
LEMMA ScanDefined ==
  ASSUME NEW recs \in Seq(Record)
  PROVE  \E list :
           /\ list[0] = <<>>
           /\ \A i \in 1..Len(recs) : list[i] = Listed(list[i - 1], recs[i], MAX_SCAN_APS)
           /\ wifi_scan(recs, MAX_SCAN_APS) = list[Len(recs)]
<1> DEFINE n == Len(recs)
           S == Seq(Record)
           G == [p \in S \X (1..n) |-> Listed(p[1], recs[p[2]], MAX_SCAN_APS)]
           Eq(h) == [i \in 0..Len(recs) |->
                       IF i = 0 THEN <<>> ELSE Listed(h[i - 1], recs[i], MAX_SCAN_APS)]
           list == CHOOSE h : h = Eq(h)
<1>1. n \in Nat /\ <<>> \in S
  BY LenProperties, EmptySeq
<1>2. \A l \in S, i \in 1..n : Listed(l, recs[i], MAX_SCAN_APS) \in S
  BY ElementOfSeq, AppendProperties DEF Listed
<1>3. LoopStep(G, S, n)
  BY <1>2 DEF LoopStep
<1>4. PICK h \in LoopStates(G, S, n, <<>>) : TRUE
  <2> HIDE DEF G, S, n, list, Eq
  <2> QED BY <1>1, <1>3, LoopDefined
<1>5. h = Eq(h)
  <2>1. h \in [0..n -> S] /\ h[0] = <<>> /\ \A i \in 1..n : h[i] = G[<<h[i - 1], i>>]
    <3> HIDE DEF G, S, n
    <3> QED BY <1>4 DEF LoopStates
  <2>2. \A i \in 1..n : i \in 0..n /\ i - 1 \in 0..n /\ i # 0
    BY <1>1
  <2>3. \A i \in 1..n : h[i - 1] \in S
    <3> HIDE DEF n, S
    <3> QED BY <2>1, <2>2
  <2>4. \A i \in 1..n : h[i] = Listed(h[i - 1], recs[i], MAX_SCAN_APS)
    <3> TAKE i \in 1..n
    <3>1. <<h[i - 1], i>> \in S \X (1..n)
      BY <2>3
    <3>2. G[<<h[i - 1], i>>] = Listed(h[i - 1], recs[i], MAX_SCAN_APS)
      BY <3>1
    <3> HIDE DEF G, S, n
    <3> QED BY <2>1, <3>2
  <2>5. \A i \in 0..n : i = 0 \/ i \in 1..n
    BY <1>1
  <2> HIDE DEF n, S
  <2>6. \A i \in 0..n :
          h[i] = IF i = 0 THEN <<>> ELSE Listed(h[i - 1], recs[i], MAX_SCAN_APS)
    BY <2>1, <2>2, <2>4, <2>5
  <2>7. h = [i \in 0..n |->
               IF i = 0 THEN <<>> ELSE Listed(h[i - 1], recs[i], MAX_SCAN_APS)]
    BY <2>1, <2>6
  <2> QED BY <2>7 DEF n
<1>6. list = Eq(list)
  BY <1>5, Zenon
<1>7. wifi_scan(recs, MAX_SCAN_APS) = list[n]
  BY DEF wifi_scan
<1> HIDE DEF list
<1>8. /\ list[0] = <<>>
      /\ \A i \in 1..n : list[i] = Listed(list[i - 1], recs[i], MAX_SCAN_APS)
  BY <1>1, <1>6
<1> QED BY <1>7, <1>8

\* The list names each network once, with its strongest record, strongest
\* first, and leaves one out only when it is full.
LEMMA ScanEachOnce ==
  ASSUME NEW recs \in Seq(Record), Sorted(recs)
  PROVE  EachOnce(recs, wifi_scan(recs, MAX_SCAN_APS))
<1>1. PICK list :
        /\ list[0] = <<>>
        /\ \A i \in 1..Len(recs) : list[i] = Listed(list[i - 1], recs[i], MAX_SCAN_APS)
        /\ wifi_scan(recs, MAX_SCAN_APS) = list[Len(recs)]
  BY ScanDefined
<1> DEFINE T == {i \in Nat : i <= Len(recs) => EachOnceUpTo(recs, list[i], i)}
<1>2. Len(recs) \in Nat
  BY LenProperties
<1>3. 0 \in T
  <2>1. list[0] \in Seq(Record) /\ Len(list[0]) = 0 /\ 0 <= MAX_SCAN_APS
    BY <1>1, EmptySeq, FormAssumption
  <2> QED BY <2>1 DEF EachOnceUpTo
<1>4. \A i \in Nat : i \in T => i + 1 \in T
  <2> SUFFICES ASSUME NEW i \in Nat, i \in T, i + 1 <= Len(recs)
               PROVE  EachOnceUpTo(recs, list[i + 1], i + 1)
    OBVIOUS
  <2>1. i + 1 \in 1..Len(recs) /\ i + 1 - 1 = i
    BY <1>2
  <2>2. EachOnceUpTo(recs, list[i + 1 - 1], i + 1 - 1)
    BY <1>2, <2>1
  <2>3. list[i + 1] = Listed(list[i + 1 - 1], recs[i + 1], MAX_SCAN_APS)
    BY <1>1, <2>1
  <2> QED BY <2>1, <2>2, <2>3, ListedStep
<1>5. EachOnceUpTo(recs, list[Len(recs)], Len(recs))
  <2> HIDE DEF T
  <2>1. Len(recs) \in T
    BY <1>2, <1>3, <1>4, NatSetInduction
  <2> QED BY <1>2, <2>1 DEF T
<1> QED BY <1>1, <1>5 DEF EachOnce, EachOnceUpTo
-----------------------------------------------------------------------------
(* Strings *)

\* strlcpy keeps the characters, bounds the length, and copies a string that
\* fits.
LEMMA Copied ==
  ASSUME NEW A, NEW s \in Seq(A), NEW size \in Nat \ {0}
  PROVE  /\ strlcpy(s, size) \in Seq(A)
         /\ Len(strlcpy(s, size)) < size
         /\ Len(s) < size => strlcpy(s, size) = s
<1>1. Len(s) \in Nat /\ \A i \in 1..Len(s) : s[i] \in A
  BY LenProperties, ElementOfSeq
<1> DEFINE n == IF Len(s) < size THEN Len(s) ELSE size - 1
<1>2. n \in Nat /\ n <= Len(s) /\ n < size
  BY <1>1
<1> HIDE DEF n
<1>3. n \in Int /\ 1 \in Int /\ \A i \in 1..n : s[i] \in A
  BY <1>1, <1>2
<1>4. SubSeq(s, 1, n) \in Seq(A) /\ Len(SubSeq(s, 1, n)) = IF 1 <= n THEN n - 1 + 1 ELSE 0
  BY <1>3, SubSeqProperties
<1>5. Len(s) < size => SubSeq(s, 1, n) = s
  BY SubSeqFull DEF n
<1>6. strlcpy(s, size) = SubSeq(s, 1, n)
  BY DEF strlcpy, n
<1> HIDE DEF n
<1> QED BY <1>2, <1>4, <1>5, <1>6

\* u is s followed by t: where their elements stand in it.
Joined(u, s, t) ==
  /\ Len(s) \in Nat /\ Len(t) \in Nat /\ Len(u) = Len(s) + Len(t)
  /\ \A j \in 1..Len(s) : u[j] = s[j]
  /\ \A j \in 1..Len(t) : u[Len(s) + j] = t[j]

\* A concatenation is that.
LEMMA ConcatParts ==
  ASSUME NEW A, NEW s \in Seq(A), NEW t \in Seq(A), NEW u, u = s \o t
  PROVE  u \in Seq(A) /\ Joined(u, s, t)
<1> DEFINE m == Len(s)
           k == Len(t)
<1>1. m \in Nat /\ k \in Nat
  BY LenProperties
<1>2. /\ u \in Seq(A) /\ Len(u) = m + k
      /\ \A i \in 1..m + k : u[i] = IF i <= m THEN s[i] ELSE t[i - m]
  BY ConcatProperties
<1> HIDE DEF m, k
<1>3. \A j \in 1..m : u[j] = s[j]
  BY <1>1, <1>2
<1>4. ASSUME NEW j \in 1..k PROVE u[m + j] = t[j]
  <2> DEFINE i == m + j
  <2>1. i \in 1..m + k /\ ~(i <= m) /\ i - m = j
    BY <1>1
  <2> HIDE DEF i
  <2>2. u[i] = t[j]
    BY <1>2, <2>1
  <2> QED BY <2>2 DEF i
<1> QED BY <1>1, <1>2, <1>3, <1>4 DEF m, k, Joined

\* A string written piece by piece: out[i] is what stands after the first i.
Pieces(out, piece, n, A) ==
  /\ out[0] = <<>>
  /\ \A i \in 1..n : piece[i] \in Seq(A) /\ out[i] = out[i - 1] \o piece[i]

\* Each piece is found in the whole where it was written.
Placed(out, piece, n) ==
  \A i \in 1..n :
    /\ Len(out[i]) = Len(out[i - 1]) + Len(piece[i])
    /\ Len(out[i]) <= Len(out[n])
    /\ \A j \in 1..Len(piece[i]) : out[n][Len(out[i - 1]) + j] = piece[i][j]

\* The parts are strings.
LEMMA PiecesString ==
  ASSUME NEW A, NEW n \in Nat, NEW out, NEW piece, Pieces(out, piece, n, A)
  PROVE  \A i \in 0..n : out[i] \in Seq(A)
<1> USE DEF Pieces
<1> DEFINE T == {m \in Nat : m <= n => out[m] \in Seq(A)}
<1>1. 0 \in T
  BY EmptySeq
<1>2. ASSUME NEW m \in Nat, m \in T PROVE m + 1 \in T
  <2> SUFFICES ASSUME m + 1 <= n PROVE out[m + 1] \in Seq(A)
    OBVIOUS
  <2> DEFINE k == m + 1
  <2>1. k \in 1..n /\ k - 1 = m /\ out[m] \in Seq(A)
    BY <1>2
  <2> HIDE DEF k
  <2>2. piece[k] \in Seq(A) /\ out[k] = out[m] \o piece[k]
    BY <2>1
  <2>3. out[k] \in Seq(A)
    BY <2>1, <2>2, ConcatProperties
  <2> QED BY <2>3 DEF k
<1>3. \A m \in Nat : m \in T
  <2> HIDE DEF T
  <2> QED BY <1>1, <1>2, NatSetInduction
<1> QED BY <1>3

\* What is written stays.
LEMMA PiecesPlaced ==
  ASSUME NEW A, NEW n \in Nat, NEW out, NEW piece, Pieces(out, piece, n, A)
  PROVE  Placed(out, piece, n)
<1> SUFFICES ASSUME NEW i \in 1..n
             PROVE  /\ Len(out[i]) = Len(out[i - 1]) + Len(piece[i])
                    /\ Len(out[i]) <= Len(out[n])
                    /\ \A j \in 1..Len(piece[i]) :
                         out[n][Len(out[i - 1]) + j] = piece[i][j]
  BY DEF Placed
<1> DEFINE T == {m \in Nat : i + m <= n =>
                   /\ Len(out[i]) <= Len(out[i + m])
                   /\ \A j \in 1..Len(out[i]) : out[i + m][j] = out[i][j]}
<1>1. /\ \A k \in 0..n : out[k] \in Seq(A) /\ Len(out[k]) \in Nat
      /\ \A k \in 1..n : piece[k] \in Seq(A) /\ out[k] = out[k - 1] \o piece[k]
  <2>1. \A k \in 0..n : out[k] \in Seq(A)
    BY PiecesString
  <2>2. \A k \in 0..n : Len(out[k]) \in Nat
    BY <2>1, LenProperties
  <2> QED BY <2>1, <2>2 DEF Pieces
<1>2. 0 \in T
  <2>1. i + 0 = i /\ i \in 0..n
    OBVIOUS
  <2>2. Len(out[i]) <= Len(out[i])
    BY <1>1, <2>1
  <2> QED BY <2>1, <2>2
<1>3. ASSUME NEW m \in Nat, m \in T PROVE m + 1 \in T
  <2> SUFFICES ASSUME i + (m + 1) <= n
               PROVE  /\ Len(out[i]) <= Len(out[i + (m + 1)])
                      /\ \A j \in 1..Len(out[i]) : out[i + (m + 1)][j] = out[i][j]
    OBVIOUS
  <2> DEFINE k == i + (m + 1)
  <2>1. k \in 1..n /\ k - 1 = i + m /\ k - 1 \in 0..n /\ i \in 0..n
    OBVIOUS
  <2>2. /\ Len(out[i]) <= Len(out[k - 1])
        /\ \A j \in 1..Len(out[i]) : out[k - 1][j] = out[i][j]
    BY <1>3, <2>1
  <2> HIDE DEF k
  <2>3. out[k - 1] \in Seq(A) /\ piece[k] \in Seq(A) /\ out[k] = out[k - 1] \o piece[k]
    BY <1>1, <2>1
  <2> DEFINE s == out[k - 1]
             t == piece[k]
             u == out[k]
             a == Len(out[i])
  <2> HIDE DEF s, t, u
  <2>4. s \in Seq(A) /\ t \in Seq(A) /\ u = s \o t
    BY <2>3 DEF s, t, u
  <2>5. /\ Len(s) \in Nat /\ Len(t) \in Nat /\ Len(u) = Len(s) + Len(t)
        /\ \A j \in 1..Len(s) : u[j] = s[j]
    BY <2>4, ConcatParts DEF Joined
  <2>6. a \in Nat /\ a <= Len(s) /\ \A j \in 1..a : s[j] = out[i][j]
    BY <1>1, <2>1, <2>2 DEF s
  <2> HIDE DEF a
  <2>7. a <= Len(u) /\ \A j \in 1..a : u[j] = out[i][j]
    BY <2>5, <2>6
  <2> QED BY <2>7 DEF a, k, u
<1>4. /\ Len(out[i]) <= Len(out[n])
      /\ \A j \in 1..Len(out[i]) : out[n][j] = out[i][j]
  <2>1. \A m \in Nat : m \in T
    <3> HIDE DEF T
    <3> QED BY <1>2, <1>3, NatSetInduction
  <2>2. n - i \in Nat /\ i + (n - i) = n
    OBVIOUS
  <2> QED BY <2>1, <2>2
<1>5. /\ Len(out[i]) = Len(out[i - 1]) + Len(piece[i])
      /\ \A j \in 1..Len(piece[i]) : out[n][Len(out[i - 1]) + j] = piece[i][j]
  <2>1. i - 1 \in 0..n /\ i \in 0..n
    OBVIOUS
  <2>2. out[i - 1] \in Seq(A) /\ piece[i] \in Seq(A) /\ out[i] = out[i - 1] \o piece[i]
    BY <1>1, <2>1
  <2> DEFINE s == out[i - 1]
             t == piece[i]
             u == out[i]
  <2> HIDE DEF s, t, u
  <2>3. s \in Seq(A) /\ t \in Seq(A) /\ u = s \o t
    BY <2>2 DEF s, t, u
  <2>4. /\ Len(s) \in Nat /\ Len(t) \in Nat /\ Len(u) = Len(s) + Len(t)
        /\ \A k \in 1..Len(t) : u[Len(s) + k] = t[k]
    BY <2>3, ConcatParts DEF Joined
  <2>5. \A j \in 1..Len(t) : Len(s) + j \in 1..Len(u)
    BY <2>4
  <2>6. \A j \in 1..Len(t) : out[n][Len(s) + j] = t[j]
    BY <1>4, <2>4, <2>5 DEF u
  <2> QED BY <2>4, <2>6 DEF s, t, u
<1> QED BY <1>4, <1>5
-----------------------------------------------------------------------------
(* The form *)

\* What a field is made of once it is encoded.
Sent == Char \cup HexDigits

\* A character is sent as itself, or as an escape that stands for it.
LEMMA CodeOf ==
  ASSUME NEW c \in Char
  PROVE  \/ c \notin {"%", "+"} /\ Code(c) = <<c>>
         \/ \E h, l \in HexDigits : Code(c) = <<"%", h, l>> /\ CharOf(h, l) = c
<1> USE DEF Char, Reserved, HexDigits, Keys, TAB, Code, CharOf
<1>1. CASE c \in Unreserved
  <2>1. c \notin Reserved
    BY <1>1, FormAssumption
  <2> QED BY <2>1
<1>2. CASE c = "%"
  BY <1>2
<1>3. CASE c = "+"
  BY <1>3
<1>4. CASE c = " "
  BY <1>4
<1>5. CASE c = "\""
  BY <1>5
<1>6. CASE c = "\\"
  BY <1>6
<1>7. CASE c = TAB
  BY <1>7
<1> QED BY <1>1, <1>2, <1>3, <1>4, <1>5, <1>6, <1>7

\* The code of a character holds no key.
LEMMA CodeSent ==
  ASSUME NEW c \in Char
  PROVE  Code(c) \in Seq(Sent)
<1>1. CASE Code(c) = <<c>>
  BY <1>1 DEF Sent
<1>2. CASE \E h, l \in HexDigits : Code(c) = <<"%", h, l>>
  <2>1. PICK h \in HexDigits, l \in HexDigits : Code(c) = <<"%", h, l>>
    BY <1>2
  <2>2. "%" \in Sent /\ h \in Sent /\ l \in Sent
    BY DEF Sent, Char, Reserved
  <2> HIDE DEF Sent
  <2> QED BY <2>1, <2>2
<1> QED BY <1>1, <1>2, CodeOf

Codes(s) == [i \in 1..Len(s) |-> Code(s[i])]

\* The recursive function of encodeURIComponent writes the codes one by one.
LEMMA EncodeDefined ==
  ASSUME NEW s \in Seq(Char)
  PROVE  \E enc : /\ Pieces(enc, Codes(s), Len(s), Sent)
                  /\ encodeURIComponent(s) = enc[Len(s)]
<1> DEFINE n == Len(s)
           S == Seq(Sent)
           G == [p \in S \X (1..n) |-> p[1] \o Code(s[p[2]])]
           Eq(h) == [i \in 0..Len(s) |-> IF i = 0 THEN <<>> ELSE h[i - 1] \o Code(s[i])]
           enc == CHOOSE h : h = Eq(h)
<1>1. n \in Nat /\ <<>> \in S
  BY LenProperties, EmptySeq
<1>2. \A i \in 1..n : Code(s[i]) \in Seq(Sent)
  BY ElementOfSeq, CodeSent
<1>3. LoopStep(G, S, n)
  <2>1. \A e \in S, i \in 1..n : e \o Code(s[i]) \in S
    BY <1>2, ConcatProperties
  <2> QED BY <2>1 DEF LoopStep
<1>4. PICK h \in LoopStates(G, S, n, <<>>) : TRUE
  <2> HIDE DEF G, S, n, enc, Eq
  <2> QED BY <1>1, <1>3, LoopDefined
<1>5. h = Eq(h)
  <2>1. h \in [0..n -> S] /\ h[0] = <<>> /\ \A i \in 1..n : h[i] = G[<<h[i - 1], i>>]
    <3> HIDE DEF G, S, n
    <3> QED BY <1>4 DEF LoopStates
  <2>2. \A i \in 1..n : i \in 0..n /\ i - 1 \in 0..n /\ i # 0
    BY <1>1
  <2>3. \A i \in 1..n : h[i - 1] \in S
    <3> HIDE DEF n, S
    <3> QED BY <2>1, <2>2
  <2>4. \A i \in 1..n : h[i] = h[i - 1] \o Code(s[i])
    <3> TAKE i \in 1..n
    <3>1. <<h[i - 1], i>> \in S \X (1..n)
      BY <2>3
    <3>2. G[<<h[i - 1], i>>] = h[i - 1] \o Code(s[i])
      BY <3>1
    <3> HIDE DEF G, S, n
    <3> QED BY <2>1, <3>2
  <2>5. \A i \in 0..n : i = 0 \/ i \in 1..n
    BY <1>1
  <2> HIDE DEF n, S
  <2>6. \A i \in 0..n : h[i] = IF i = 0 THEN <<>> ELSE h[i - 1] \o Code(s[i])
    BY <2>1, <2>2, <2>4, <2>5
  <2>7. h = [i \in 0..n |-> IF i = 0 THEN <<>> ELSE h[i - 1] \o Code(s[i])]
    BY <2>1, <2>6
  <2> QED BY <2>7 DEF n
<1>6. enc = Eq(enc)
  BY <1>5, Zenon
<1>7. encodeURIComponent(s) = enc[n]
  BY DEF encodeURIComponent
<1> HIDE DEF enc
<1>8. enc[0] = <<>> /\ \A i \in 1..n : enc[i] = enc[i - 1] \o Code(s[i])
  <2>1. \A i \in 0..n : enc[i] = IF i = 0 THEN <<>> ELSE enc[i - 1] \o Code(s[i])
    BY <1>6
  <2>2. 0 \in 0..n /\ \A i \in 1..n : i \in 0..n /\ i # 0
    BY <1>1
  <2> HIDE DEF n
  <2> QED BY <2>1, <2>2
<1>9. Pieces(enc, Codes(s), n, Sent)
  BY <1>2, <1>8 DEF Pieces, Codes
<1> QED BY <1>7, <1>9
\* The character url_decode writes for position i, and where it goes on.
Decoded(t, i) ==
  IF EscapeAt(t, i) THEN CharOf(t[i + 1], t[i + 2]) ELSE IF t[i] = "+" THEN " " ELSE t[i]
Resumes(t, i) == IF EscapeAt(t, i) THEN i + 3 ELSE i + 1

\* dec[i] is what is decoded from position i on.
Decoding(t, dec) ==
  /\ dec \in [1..(Len(t) + 1) -> Seq(Byte)]
  /\ dec[Len(t) + 1] = <<>>
  /\ \A i \in 1..Len(t) : dec[i] = <<Decoded(t, i)>> \o dec[Resumes(t, i)]

\* Every position decodes to one character, and the next is not past the end.
LEMMA DecodedByte ==
  ASSUME NEW t \in Seq(Byte), NEW i \in 1..Len(t)
  PROVE  /\ Decoded(t, i) \in Byte
         /\ Resumes(t, i) \in (i + 1)..(Len(t) + 1)
<1>1. t[i] \in Byte /\ Len(t) \in Nat
  BY ElementOfSeq, LenProperties
<1>2. \A h, l : CharOf(h, l) \in Byte
  BY DEF CharOf, Byte, Char, Reserved
<1>3. " " \in Byte
  BY DEF Byte, Char, Reserved
<1>4. Decoded(t, i) \in Byte
  <2> HIDE DEF Byte
  <2> QED BY <1>1, <1>2, <1>3 DEF Decoded
<1>5. EscapeAt(t, i) => i + 2 <= Len(t)
  BY DEF EscapeAt
<1>6. Resumes(t, i) \in (i + 1)..(Len(t) + 1)
  BY <1>1, <1>5 DEF Resumes
<1> QED BY <1>4, <1>6

\* The recursive function of url_decode satisfies its equation.
LEMMA DecodeDefined ==
  ASSUME NEW t \in Seq(Byte)
  PROVE  \E dec : Decoding(t, dec) /\ url_decode(t) = dec[1]
<1> DEFINE n == Len(t)
           S == Seq(Byte)
           F == [1..(n + 1) -> S]
           G == [q \in (1..n) \X F |-> <<Decoded(t, q[1])>> \o q[2][Resumes(t, q[1])]]
           Eq(h) == [i \in 1..(Len(t) + 1) |->
                       IF i > Len(t) THEN <<>>
                       ELSE IF EscapeAt(t, i) THEN <<CharOf(t[i + 1], t[i + 2])>> \o h[i + 3]
                       ELSE <<IF t[i] = "+" THEN " " ELSE t[i]>> \o h[i + 1]]
           dec == CHOOSE h : h = Eq(h)
<1>1. n \in Nat /\ <<>> \in S
  BY LenProperties, EmptySeq
<1>2. \A i \in 1..n : Decoded(t, i) \in Byte /\ Resumes(t, i) \in (i + 1)..(n + 1)
  BY DecodedByte
<1>3. \A i \in 1..n : \A f \in F : G[<<i, f>>] = <<Decoded(t, i)>> \o f[Resumes(t, i)]
  OBVIOUS
<1>4. TailStep(G, S, n)
  <2> HIDE DEF G, n
  <2>1. ASSUME NEW i \in 1..n, NEW f \in F PROVE G[<<i, f>>] \in S
    <3>1. Resumes(t, i) \in 1..(n + 1)
      BY <1>1, <1>2
    <3>2. f[Resumes(t, i)] \in Seq(Byte) /\ <<Decoded(t, i)>> \in Seq(Byte)
      BY <1>2, <3>1
    <3>3. <<Decoded(t, i)>> \o f[Resumes(t, i)] \in Seq(Byte)
      BY <3>2, ConcatProperties
    <3> QED BY <1>3, <3>3
  <2>2. ASSUME NEW i \in 1..n, NEW f \in F, NEW g \in F,
               \A j \in (i + 1)..(n + 1) : f[j] = g[j]
        PROVE  G[<<i, f>>] = G[<<i, g>>]
    <3>1. f[Resumes(t, i)] = g[Resumes(t, i)]
      BY <1>2, <2>2
    <3>2. G[<<i, f>>] = <<Decoded(t, i)>> \o f[Resumes(t, i)]
      BY <1>3
    <3>3. G[<<i, g>>] = <<Decoded(t, i)>> \o g[Resumes(t, i)]
      BY <1>3
    <3> QED BY <3>1, <3>2, <3>3
  <2> QED BY <2>1, <2>2 DEF TailStep
<1>5. PICK h \in TailFunctions(G, S, n, <<>>) : TRUE
  <2> HIDE DEF G, S, n, dec, Eq, F
  <2> QED BY <1>1, <1>4, TailDefined
<1>6. h = Eq(h)
  <2>1. h \in F /\ h[n + 1] = <<>> /\ \A i \in 1..n : h[i] = G[<<i, h>>]
    <3> HIDE DEF G, S, n
    <3> QED BY <1>5 DEF TailFunctions, F
  <2>2. \A i \in 1..n : h[i] = <<Decoded(t, i)>> \o h[Resumes(t, i)]
    <3> HIDE DEF G, F, n
    <3> QED BY <1>3, <2>1
  <2>3. \A i \in 1..(n + 1) : (i > n /\ i = n + 1) \/ (~(i > n) /\ i \in 1..n)
    BY <1>1
  <2> HIDE DEF n
  <2>4. \A i \in 1..(n + 1) :
          h[i] = IF i > n THEN <<>>
                 ELSE IF EscapeAt(t, i) THEN <<CharOf(t[i + 1], t[i + 2])>> \o h[i + 3]
                 ELSE <<IF t[i] = "+" THEN " " ELSE t[i]>> \o h[i + 1]
    BY <2>1, <2>2, <2>3 DEF Decoded, Resumes
  <2>5. h = [i \in 1..(n + 1) |->
               IF i > n THEN <<>>
               ELSE IF EscapeAt(t, i) THEN <<CharOf(t[i + 1], t[i + 2])>> \o h[i + 3]
               ELSE <<IF t[i] = "+" THEN " " ELSE t[i]>> \o h[i + 1]]
    BY <2>1, <2>4
  <2> QED BY <2>5 DEF n
<1>7. dec = Eq(dec)
  BY <1>6, Zenon
<1>8. url_decode(t) = dec[1]
  BY DEF url_decode<1> HIDE DEF dec
<1>9. /\ dec = [i \in 1..(n + 1) |-> dec[i]]
      /\ dec[n + 1] = <<>>
      /\ \A i \in 1..n : dec[i] = <<Decoded(t, i)>> \o dec[Resumes(t, i)]
  <2>1. \A i \in 1..(n + 1) :
          dec[i] = IF i > n THEN <<>>
                   ELSE IF EscapeAt(t, i) THEN <<CharOf(t[i + 1], t[i + 2])>> \o dec[i + 3]
                   ELSE <<IF t[i] = "+" THEN " " ELSE t[i]>> \o dec[i + 1]
    BY <1>7
  <2>2. dec = [i \in 1..(n + 1) |-> dec[i]]
    BY <1>7
  <2>3. n + 1 \in 1..(n + 1) /\ n + 1 > n /\ \A i \in 1..n : i \in 1..(n + 1) /\ ~(i > n)
    BY <1>1
  <2> HIDE DEF n
  <2> QED BY <2>1, <2>2, <2>3 DEF Decoded, Resumes
<1> DEFINE T == {m \in Nat : \A i \in 1..(n + 1) : i >= n + 1 - m => dec[i] \in S}
<1> HIDE DEF n
<1>10. 0 \in T
  <2>1. \A i \in 1..(n + 1) : i >= n + 1 - 0 => i = n + 1
    BY <1>1
  <2> HIDE DEF S
  <2> QED BY <1>1, <1>9, <2>1
<1>11. ASSUME NEW m \in Nat, m \in T PROVE m + 1 \in T
  <2> SUFFICES ASSUME NEW i \in 1..(n + 1), i >= n + 1 - (m + 1) PROVE dec[i] \in S
    OBVIOUS
  <2>1. CASE i >= n + 1 - m
    BY <1>11, <2>1
  <2>2. CASE ~(i >= n + 1 - m)
    <3>1. i \in 1..n
      BY <1>1, <2>2
    <3> DEFINE j == Resumes(t, i)
    <3>2. j \in 1..(n + 1) /\ j >= n + 1 - m
      BY <1>1, <1>2, <3>1
    <3> HIDE DEF j
    <3>3. dec[j] \in Seq(Byte) /\ <<Decoded(t, i)>> \in Seq(Byte)
      BY <1>2, <1>11, <3>1, <3>2
    <3>4. <<Decoded(t, i)>> \o dec[j] \in Seq(Byte)
      BY <3>3, ConcatProperties
    <3> QED BY <1>9, <3>1, <3>4 DEF j
  <2> QED BY <2>1, <2>2
<1>12. \A i \in 1..(n + 1) : dec[i] \in S
  <2>1. \A m \in Nat : m \in T
    <3> HIDE DEF T
    <3> QED BY <1>10, <1>11, NatSetInduction
  <2>2. \A i \in 1..(n + 1) : i >= n + 1 - n
    BY <1>1
  <2> QED BY <1>1, <2>1, <2>2
<1>13. dec \in [1..(n + 1) -> S]
  <2> HIDE DEF S
  <2> QED BY <1>9, <1>12
<1>14. Decoding(t, dec)
  BY <1>9, <1>13 DEF Decoding, n
<1> QED BY <1>8, <1>14
\* What is decoded is a string of bytes, no longer than what was sent.
LEMMA DecodeShorter ==
  ASSUME NEW t \in Seq(Byte)
  PROVE  url_decode(t) \in Seq(Byte) /\ Len(url_decode(t)) <= Len(t)
<1>1. PICK dec : Decoding(t, dec) /\ url_decode(t) = dec[1]
  BY DecodeDefined
<1> DEFINE n == Len(t)
           T == {m \in Nat : \A i \in 1..(n + 1) : i >= n + 1 - m => Len(dec[i]) <= n + 1 - i}
<1>2. n \in Nat
  BY LenProperties
<1>3. /\ \A i \in 1..(n + 1) : dec[i] \in Seq(Byte)
      /\ dec[n + 1] = <<>>
      /\ \A i \in 1..n : dec[i] = <<Decoded(t, i)>> \o dec[Resumes(t, i)]
  BY <1>1 DEF Decoding
<1>4. \A i \in 1..n : Decoded(t, i) \in Byte /\ Resumes(t, i) \in (i + 1)..(n + 1)
  BY DecodedByte
<1> HIDE DEF n
<1>5. 0 \in T
  <2>1. \A i \in 1..(n + 1) : i >= n + 1 - 0 => i = n + 1
    BY <1>2
  <2>2. Len(dec[n + 1]) = 0
    BY <1>3, EmptySeq
  <2> QED BY <1>2, <2>1, <2>2
<1>6. ASSUME NEW m \in Nat, m \in T PROVE m + 1 \in T
  <2> SUFFICES ASSUME NEW i \in 1..(n + 1), i >= n + 1 - (m + 1)
               PROVE  Len(dec[i]) <= n + 1 - i
    OBVIOUS
  <2>1. CASE i >= n + 1 - m
    BY <1>6, <2>1
  <2>2. CASE ~(i >= n + 1 - m)
    <3>1. i \in 1..n
      BY <1>2, <2>2
    <3> DEFINE j == Resumes(t, i)
               d == <<Decoded(t, i)>>
               r == dec[j]
    <3>2. j \in 1..(n + 1) /\ j >= n + 1 - m /\ j >= i + 1
      BY <1>2, <1>4, <3>1
    <3>3. d \in Seq(Byte) /\ Len(d) = 1
      BY <1>4, <3>1
    <3> HIDE DEF j, d
    <3>4. r \in Seq(Byte) /\ Len(r) \in Nat /\ Len(r) <= n + 1 - j
      BY <1>3, <1>6, <3>2, LenProperties
    <3> HIDE DEF r
    <3>5. Len(d \o r) = Len(d) + Len(r)
      BY <3>3, <3>4, ConcatProperties
    <3>6. dec[i] = d \o r
      BY <1>3, <3>1 DEF d, j, r
    <3> QED BY <1>2, <3>2, <3>3, <3>4, <3>5, <3>6
  <2> QED BY <2>1, <2>2
<1>7. Len(dec[1]) <= n + 1 - 1
  <2>1. \A m \in Nat : m \in T
    <3> HIDE DEF T
    <3> QED BY <1>5, <1>6, NatSetInduction
  <2>2. 1 \in 1..(n + 1) /\ 1 >= n + 1 - n
    BY <1>2
  <2> QED BY <1>2, <2>1, <2>2
<1>8. 1 \in 1..(n + 1) /\ n + 1 - 1 = n
  BY <1>2
<1> QED BY <1>1, <1>3, <1>7, <1>8 DEF n

\* Where the code of s[i] stands, s[i] is decoded, and it is all that is used.
LEMMA CodeDecoded ==
  ASSUME NEW s \in Seq(Char), NEW enc, Pieces(enc, Codes(s), Len(s), Sent),
         NEW i \in 1..Len(s), NEW t, t = enc[Len(s)]
  PROVE  /\ Len(enc[i - 1]) + 1 \in 1..Len(t)
         /\ Decoded(t, Len(enc[i - 1]) + 1) = s[i]
         /\ Resumes(t, Len(enc[i - 1]) + 1) = Len(enc[i]) + 1
<1> DEFINE n == Len(s)
           a == Len(enc[i - 1])
           b == Len(enc[i])
           c == Code(s[i])
<1>1. s[i] \in Char /\ n \in Nat /\ i \in 1..n /\ i - 1 \in 0..n /\ i \in 0..n
  BY ElementOfSeq, LenProperties
<1> DEFINE piece == Codes(s)
<1>2. piece[i] = c
  BY DEF Codes
<1>3. Pieces(enc, piece, n, Sent)
  OBVIOUS
<1> HIDE DEF n, piece, c
<1>4. \A k \in 0..n : enc[k] \in Seq(Sent)
  BY <1>1, <1>3, PiecesString
<1>5. /\ b = a + Len(c)
      /\ b <= Len(enc[n])
      /\ \A j \in 1..Len(c) : enc[n][a + j] = c[j]
  <2>1. Placed(enc, piece, n)
    BY <1>1, <1>3, PiecesPlaced
  <2> QED BY <1>1, <1>2, <2>1 DEF Placed
<1>6. a \in Nat /\ b \in Nat /\ Len(enc[n]) \in Nat
  BY <1>1, <1>4, LenProperties
<1>7. t = enc[n]
  BY DEF n
<1> HIDE DEF a, b
<1>8. CASE s[i] \notin {"%", "+"} /\ c = <<s[i]>>
  <2>1. Len(c) = 1 /\ c[1] = s[i]
    BY <1>8
  <2> DEFINE p == a + 1
  <2>2. t[p] = s[i] /\ p \in 1..Len(t) /\ p + 1 = b + 1
    BY <1>5, <1>6, <1>7, <2>1
  <2> HIDE DEF p
  <2>3. ~EscapeAt(t, p)
    BY <1>8, <2>2 DEF EscapeAt
  <2>4. Decoded(t, p) = s[i] /\ Resumes(t, p) = b + 1
    BY <1>8, <2>2, <2>3 DEF Decoded, Resumes
  <2> QED BY <2>2, <2>4 DEF a, b, p
<1>9. CASE \E h, l \in HexDigits : c = <<"%", h, l>> /\ CharOf(h, l) = s[i]
  <2>1. PICK h \in HexDigits, l \in HexDigits : c = <<"%", h, l>> /\ CharOf(h, l) = s[i]
    BY <1>9
  <2>2. Len(c) = 3 /\ c[1] = "%" /\ c[2] = h /\ c[3] = l
    BY <2>1
  <2>3. b = a + 3 /\ b <= Len(t) /\ t[a + 1] = "%" /\ t[a + 2] = h /\ t[a + 3] = l
    BY <1>5, <1>6, <1>7, <2>2
  <2> DEFINE p == a + 1
  <2>4. /\ p \in 1..Len(t) /\ p + 1 = a + 2 /\ p + 2 = a + 3 /\ p + 2 <= Len(t)
        /\ p + 3 = b + 1
    BY <1>6, <1>7, <2>3
  <2>5. t[p] = "%"
    BY <2>3
  <2> HIDE DEF p
  <2>6. t[p + 1] = h /\ t[p + 2] = l
    BY <2>3, <2>4
  <2>7. EscapeAt(t, p)
    BY <2>4, <2>5, <2>6 DEF EscapeAt, isxdigit
  <2>8. Decoded(t, p) = s[i] /\ Resumes(t, p) = b + 1
    BY <2>1, <2>4, <2>6, <2>7 DEF Decoded, Resumes
  <2> QED BY <2>4, <2>8 DEF p, a, b
<1> QED BY <1>1, <1>8, <1>9, CodeOf DEF c
\* What url_decode makes of the page's encoding is what was typed.
THEOREM DecodeEncode ==
  ASSUME NEW s \in Seq(Char)
  PROVE  url_decode(encodeURIComponent(s)) = s
<1> DEFINE n == Len(s)
           t == encodeURIComponent(s)
<1>1. PICK enc : Pieces(enc, Codes(s), n, Sent) /\ t = enc[n]
  BY EncodeDefined
<1>2. n \in Nat
  BY LenProperties
<1> DEFINE piece == Codes(s)
<1>3. \A i \in 0..n : enc[i] \in Seq(Sent)
  <2>1. Pieces(enc, piece, n, Sent)
    BY <1>1
  <2> HIDE DEF n, piece
  <2> QED BY <1>2, <2>1, PiecesString
<1>4. t \in Seq(Byte)
  <2>1. t \in Seq(Sent) /\ Sent \subseteq Byte
    BY <1>1, <1>2, <1>3 DEF Sent, Byte
  <2> HIDE DEF t
  <2> QED BY <2>1, SeqMonotonic
<1>5. PICK dec : Decoding(t, dec) /\ url_decode(t) = dec[1]
  BY <1>4, DecodeDefined
<1>6. \A i \in 1..n :
        /\ Len(enc[i - 1]) + 1 \in 1..Len(t)
        /\ Decoded(t, Len(enc[i - 1]) + 1) = s[i]
        /\ Resumes(t, Len(enc[i - 1]) + 1) = Len(enc[i]) + 1
  BY <1>1, CodeDecoded
<1>7. /\ dec[Len(t) + 1] = <<>>
      /\ \A p \in 1..Len(t) : dec[p] = <<Decoded(t, p)>> \o dec[Resumes(t, p)]
  BY <1>5 DEF Decoding
<1>8. enc[0] = <<>>
  BY <1>1 DEF Pieces
<1> HIDE DEF n, t
<1> DEFINE T == {m \in Nat : m <= n => dec[Len(enc[n - m]) + 1] = SubSeq(s, n - m + 1, n)}
<1>9. 0 \in T
  <2>1. n - 0 = n /\ n + 1 \in Int /\ n < n + 1
    BY <1>2
  <2>2. SubSeq(s, n + 1, n) = <<>>
    BY <1>2, <2>1, SubSeqEmpty
  <2>3. dec[Len(enc[n]) + 1] = <<>>
    BY <1>1, <1>7
  <2> QED BY <2>1, <2>2, <2>3
<1>10. ASSUME NEW m \in Nat, m \in T PROVE m + 1 \in T
  <2> SUFFICES ASSUME m + 1 <= n
               PROVE  dec[Len(enc[n - (m + 1)]) + 1] = SubSeq(s, n - (m + 1) + 1, n)
    OBVIOUS
  <2> DEFINE i == n - m
             p == Len(enc[i - 1]) + 1
  <2>1. i \in 1..n /\ i - 1 = n - (m + 1) /\ n - (m + 1) + 1 = i
    BY <1>2
  <2>2. dec[Len(enc[i]) + 1] = SubSeq(s, i + 1, n)
    BY <1>2, <1>10
  <2> HIDE DEF i
  <2>3. p \in 1..Len(t) /\ Decoded(t, p) = s[i] /\ Resumes(t, p) = Len(enc[i]) + 1
    BY <1>6, <2>1
  <2> HIDE DEF p
  <2>4. dec[p] = <<s[i]>> \o SubSeq(s, i + 1, n)
    BY <1>7, <2>2, <2>3
  <2>5. SubSeq(s, i, n) = <<s[i]>> \o SubSeq(s, i + 1, n)
    <3>1. i \in 1..Len(s) /\ n \in i..Len(s)
      BY <1>2, <2>1 DEF n
    <3> QED BY <3>1, SubSeqRecursiveFirst
  <2> QED BY <2>1, <2>4, <2>5 DEF p
<1>11. dec[Len(enc[0]) + 1] = SubSeq(s, 1, n)
  <2>1. \A m \in Nat : m \in T
    <3> HIDE DEF T
    <3> QED BY <1>9, <1>10, NatSetInduction
  <2>2. n - n = 0 /\ n <= n
    BY <1>2
  <2> QED BY <1>2, <2>1, <2>2
<1>12. Len(enc[0]) + 1 = 1 /\ SubSeq(s, 1, n) = s
  BY <1>8, SubSeqFull DEF n
<1>13. url_decode(t) = s
  BY <1>5, <1>11, <1>12
<1> QED BY <1>13 DEF t

\* Where the value of the key at i ends.
ValueEnd(body, i) ==
  CHOOSE j \in i..Len(body) :
    /\ \A k \in (i + 1)..j : body[k] \notin Keys
    /\ j = Len(body) \/ body[j + 1] \in Keys

\* The value of a key ends within the body.
LEMMA ValueEnds ==
  ASSUME NEW body \in Seq(Byte), NEW i \in 1..Len(body)
  PROVE  ValueEnd(body, i) \in i..Len(body)
<1>1. Len(body) \in Nat
  BY LenProperties
<1> DEFINE U == {j \in i..Len(body) : j = Len(body) \/ body[j + 1] \in Keys}
<1>2. U \in SUBSET Nat /\ U # {}
  BY <1>1
<1>3. PICK m \in U : \A k \in U : m <= k
  <2> HIDE DEF U
  <2> QED BY <1>2, LeastElement
<1>4. m \in i..Len(body) /\ (m = Len(body) \/ body[m + 1] \in Keys)
  OBVIOUS
<1>5. ASSUME NEW k \in (i + 1)..m PROVE body[k] \notin Keys
  <2> DEFINE j == k - 1
  <2>1. j \in i..Len(body) /\ j < m /\ j + 1 = k /\ j \in Nat /\ m \in Nat
    BY <1>1
  <2>2. j \notin U
    <3> HIDE DEF U, j
    <3> QED BY <1>3, <2>1
  <2> HIDE DEF j
  <2> QED BY <2>1, <2>2
<1> QED BY <1>4, <1>5 DEF ValueEnd
\* A field is a string of bytes shorter than its buffer.
LEMMA FieldFits ==
  ASSUME NEW body \in Seq(Byte), NEW key, NEW size \in Nat \ {0}
  PROVE  KeyValue(body, key, size) \in Seq(Byte) /\ Len(KeyValue(body, key, size)) < size
<1> DEFINE at == {i \in 1..Len(body) : body[i] = key}
<1>1. CASE at = {}
  <2>1. KeyValue(body, key, size) = <<>>
    BY <1>1 DEF KeyValue
  <2> QED BY <2>1, EmptySeq
<1>2. CASE at # {}
  <2> DEFINE i == CHOOSE i \in at : TRUE
             j == ValueEnd(body, i)
             v == SubSeq(body, i + 1, j)
  <2>1. i \in 1..Len(body)
    BY <1>2
  <2>2. KeyValue(body, key, size) = strlcpy(v, size)
    BY <1>2 DEF KeyValue, ValueEnd
  <2> HIDE DEF i, j
  <2>3. j \in i..Len(body)
    BY <2>1, ValueEnds DEF j
  <2>4. Len(body) \in Nat /\ \A k \in 1..Len(body) : body[k] \in Byte
    BY LenProperties, ElementOfSeq
  <2>5. i + 1 \in Int /\ j \in Int /\ \A k \in (i + 1)..j : body[k] \in Byte
    BY <2>1, <2>3, <2>4
  <2>6. v \in Seq(Byte)
    BY <2>5, SubSeqProperties
  <2> HIDE DEF v
  <2> QED BY <2>2, <2>6, Copied
<1> QED BY <1>1, <1>2

\* The key is in the body once, at i, and its value ends at j.
OneField(body, key, i, j) ==
  /\ i \in 1..Len(body) /\ j \in i..Len(body)
  /\ \A k \in 1..Len(body) : body[k] = key <=> k = i
  /\ \A k \in (i + 1)..j : body[k] \notin Keys
  /\ j = Len(body) \/ body[j + 1] \in Keys

\* The field of such a key.
LEMMA FieldOf ==
  ASSUME NEW body \in Seq(Byte), NEW key, NEW size, NEW i, NEW j,
         OneField(body, key, i, j)
  PROVE  KeyValue(body, key, size) = strlcpy(SubSeq(body, i + 1, j), size)
<1> USE DEF OneField
<1>1. Len(body) \in Nat
  BY LenProperties
<1> DEFINE at == {k \in 1..Len(body) : body[k] = key}
           p == CHOOSE p \in at : TRUE
<1>2. at = {i}
  OBVIOUS
<1>3. p = i
  BY <1>2
<1>4. KeyValue(body, key, size) = strlcpy(SubSeq(body, p + 1, ValueEnd(body, p)), size)
  BY <1>2 DEF KeyValue, ValueEnd
<1>5. ASSUME NEW m \in i..Len(body), \A k \in (i + 1)..m : body[k] \notin Keys,
             m = Len(body) \/ body[m + 1] \in Keys
      PROVE  m = j
  <2>1. CASE m < j
    <3>1. m + 1 \in (i + 1)..j /\ m # Len(body)
      BY <1>1, <2>1
    <3> QED BY <1>5, <3>1
  <2>2. CASE j < m
    <3>1. j + 1 \in (i + 1)..m /\ j # Len(body)
      BY <1>1, <2>2
    <3> QED BY <1>5, <3>1
  <2> QED BY <1>1, <2>1, <2>2
<1>6. ValueEnd(body, i) = j
  BY <1>5 DEF ValueEnd
<1> HIDE DEF p
<1> QED BY <1>3, <1>4, <1>6

\* Whatever part of a body is received, the credentials fit their buffers.
LEMMA FieldsFit ==
  ASSUME NEW body \in Seq(Byte)
  PROVE  /\ Fields(body) \in [ssid : Seq(Byte), pass : Seq(Byte)]
         /\ Len(Fields(body).ssid) < SSID_FIELD /\ Len(Fields(body).pass) < PASS_FIELD
<1> DEFINE k == KeyValue(body, "ssid=", SSID_FIELD)
           q == KeyValue(body, "&pass=", PASS_FIELD)
<1>1. SSID_FIELD \in Nat \ {0} /\ PASS_FIELD \in Nat \ {0}
  BY FormAssumption
<1>2. k \in Seq(Byte) /\ Len(k) < SSID_FIELD
  BY <1>1, FieldFits
<1>3. q \in Seq(Byte) /\ Len(q) < PASS_FIELD
  BY <1>1, FieldFits
<1>4. Fields(body) = [ssid |-> url_decode(k), pass |-> url_decode(q)]
  BY DEF Fields
<1> HIDE DEF k, q
<1> DEFINE u == url_decode(k)
           v == url_decode(q)
<1>5. /\ u \in Seq(Byte) /\ Len(u) <= Len(k) /\ Len(u) \in Nat /\ Len(k) \in Nat
      /\ v \in Seq(Byte) /\ Len(v) <= Len(q) /\ Len(v) \in Nat /\ Len(q) \in Nat
  BY <1>2, <1>3, DecodeShorter, LenProperties
<1> HIDE DEF u, v
<1> QED BY <1>1, <1>2, <1>3, <1>4, <1>5 DEF u, v
\* An encoded string is one of bytes, and holds no key.
LEMMA EncodedSent ==
  ASSUME NEW s \in Seq(Char)
  PROVE  encodeURIComponent(s) \in Seq(Sent)
<1> DEFINE n == Len(s)
           piece == Codes(s)
<1>1. PICK enc : Pieces(enc, piece, n, Sent) /\ encodeURIComponent(s) = enc[n]
  BY EncodeDefined
<1>2. n \in Nat /\ n \in 0..n
  BY LenProperties
<1> HIDE DEF n, piece
<1> QED BY <1>1, <1>2, PiecesString

\* No character that is sent is a key.
LEMMA SentBytes == Sent \subseteq Byte /\ Sent \cap Keys = {}
<1>1. Unreserved \cap Keys = {}
  BY FormAssumption
<1>2. (Reserved \cup HexDigits) \cap Keys = {}
  BY DEF Reserved, HexDigits, Keys, TAB
<1>3. Sent \subseteq Byte
  BY DEF Sent, Byte
<1> QED BY <1>1, <1>2, <1>3 DEF Sent, Char

\* A body of two encoded fields.
Body(e, f) == <<"ssid=">> \o e \o <<"&pass=">> \o f

\* The keys and the encoded fields are found at their places in a body.
LEMMA BodyParts ==
  ASSUME NEW e \in Seq(Sent), NEW f \in Seq(Sent), NEW body, body = Body(e, f)
  PROVE  /\ body \in Seq(Byte)
         /\ Len(e) \in Nat /\ Len(f) \in Nat /\ Len(body) = Len(e) + Len(f) + 2
         /\ body[1] = "ssid=" /\ body[Len(e) + 2] = "&pass="
         /\ \A j \in 1..Len(e) : body[1 + j] = e[j]
         /\ \A j \in 1..Len(f) : body[Len(e) + 2 + j] = f[j]
<1> DEFINE k == <<"ssid=">>
           u == k \o e
           q == <<"&pass=">>
           v == u \o q
<1>1. /\ k \in Seq(Byte) /\ Len(k) = 1 /\ k[1] = "ssid="
      /\ q \in Seq(Byte) /\ Len(q) = 1 /\ q[1] = "&pass="
  BY DEF Byte, Keys
<1>2. e \in Seq(Byte) /\ f \in Seq(Byte)
  BY SentBytes, SeqMonotonic
<1>3. body = v \o f
  BY DEF Body
<1> HIDE DEF k, q
<1>4. u \in Seq(Byte) /\ Joined(u, k, e)
  BY <1>1, <1>2, ConcatParts
<1> HIDE DEF u
<1>5. v \in Seq(Byte) /\ Joined(v, u, q)
  BY <1>1, <1>4, ConcatParts
<1> HIDE DEF v
<1>6. body \in Seq(Byte) /\ Joined(body, v, f)
  BY <1>2, <1>3, <1>5, ConcatParts
<1>7. /\ Len(e) \in Nat /\ Len(u) = 1 + Len(e)
      /\ u[1] = "ssid=" /\ \A j \in 1..Len(e) : u[1 + j] = e[j]
  BY <1>1, <1>4 DEF Joined
<1>8. /\ Len(v) = Len(e) + 2
      /\ \A j \in 1..Len(u) : v[j] = u[j]
      /\ v[Len(e) + 2] = "&pass="
  <2>1. Len(u) + 1 = Len(e) + 2
    BY <1>7
  <2> QED BY <1>1, <1>5, <2>1 DEF Joined
<1>9. /\ body \in Seq(Byte) /\ Len(f) \in Nat /\ Len(body) = Len(v) + Len(f)
      /\ \A j \in 1..Len(v) : body[j] = v[j]
      /\ \A j \in 1..Len(f) : body[Len(v) + j] = f[j]
  BY <1>6 DEF Joined
<1>10. body[1] = "ssid=" /\ body[Len(e) + 2] = "&pass="
  <2>1. 1 \in 1..Len(u) /\ 1 \in 1..Len(v) /\ Len(e) + 2 \in 1..Len(v)
    BY <1>7, <1>8
  <2> QED BY <1>7, <1>8, <1>9, <2>1
<1>11. ASSUME NEW j \in 1..Len(e) PROVE body[1 + j] = e[j]
  <2>1. 1 + j \in 1..Len(u) /\ 1 + j \in 1..Len(v)
    BY <1>7, <1>8
  <2> QED BY <1>7, <1>8, <1>9, <2>1
<1>12. \A j \in 1..Len(f) : body[Len(e) + 2 + j] = f[j]
  BY <1>8, <1>9
<1>13. Len(body) = Len(e) + Len(f) + 2
  BY <1>7, <1>8, <1>9
<1> QED BY <1>7, <1>9, <1>10, <1>11, <1>12, <1>13

\* The two fields of such a body, if they fit their buffers.
LEMMA BodyFields ==
  ASSUME NEW e \in Seq(Sent), NEW f \in Seq(Sent),
         Len(e) < SSID_FIELD, Len(f) < PASS_FIELD
  PROVE  /\ KeyValue(Body(e, f), "ssid=", SSID_FIELD) = e
         /\ KeyValue(Body(e, f), "&pass=", PASS_FIELD) = f
<1> DEFINE body == Body(e, f)
           a == Len(e)
           b == Len(f)
<1>1. SSID_FIELD \in Nat \ {0} /\ PASS_FIELD \in Nat \ {0}
  BY FormAssumption
<1>2. /\ body \in Seq(Byte) /\ a \in Nat /\ b \in Nat /\ Len(body) = a + b + 2
      /\ body[1] = "ssid=" /\ body[a + 2] = "&pass="
      /\ \A j \in 1..a : body[1 + j] = e[j]
      /\ \A j \in 1..b : body[a + 2 + j] = f[j]
  BY BodyParts
<1>3. /\ \A j \in 1..a : e[j] \in Sent /\ e[j] \notin Keys
      /\ \A j \in 1..b : f[j] \in Sent /\ f[j] \notin Keys
  BY ElementOfSeq, SentBytes
<1> HIDE DEF body, a, b
<1>4. \A i \in 2..(a + 1) : body[i] = e[i - 1] /\ body[i] \notin Keys
  <2> TAKE i \in 2..(a + 1)
  <2> DEFINE j == i - 1
  <2>1. j \in 1..a /\ 1 + j = i
    BY <1>2
  <2> HIDE DEF j
  <2>2. body[i] = e[j] /\ e[j] \notin Keys
    BY <1>2, <1>3, <2>1
  <2> QED BY <2>2 DEF j
<1>5. \A i \in (a + 3)..(a + b + 2) : body[i] = f[i - (a + 2)] /\ body[i] \notin Keys
  <2> TAKE i \in (a + 3)..(a + b + 2)
  <2> DEFINE j == i - (a + 2)
  <2>1. j \in 1..b /\ a + 2 + j = i
    BY <1>2
  <2> HIDE DEF j
  <2>2. body[i] = f[j] /\ f[j] \notin Keys
    BY <1>2, <1>3, <2>1
  <2> QED BY <2>2 DEF j
<1>6. \A i \in 1..Len(body) :
        i = 1 \/ i \in 2..(a + 1) \/ i = a + 2 \/ i \in (a + 3)..(a + b + 2)
  BY <1>2
<1>7. "ssid=" \in Keys /\ "&pass=" \in Keys /\ "ssid=" # "&pass="
  BY DEF Keys
<1>8. KeyValue(body, "ssid=", SSID_FIELD) = e
  <2>1. 1 \in 1..Len(body) /\ a + 1 \in 1..Len(body) /\ 1 # a + 2
    BY <1>2
  <2>2. \A k \in 1..Len(body) : body[k] = "ssid=" <=> k = 1
    BY <1>2, <1>4, <1>5, <1>6, <1>7
  <2> DEFINE m == a + 1
  <2>3. m \in 1..Len(body) /\ m + 1 = a + 2 /\ m \in Int /\ 1 + 1 = 2
    BY <1>2
  <2>4. body[m + 1] \in Keys /\ \A k \in (1 + 1)..m : body[k] \notin Keys
    BY <1>2, <1>4, <1>7, <2>3
  <2> HIDE DEF m
  <2>5. KeyValue(body, "ssid=", SSID_FIELD) = strlcpy(SubSeq(body, 1 + 1, m), SSID_FIELD)
    <3>1. OneField(body, "ssid=", 1, m)
      BY <2>1, <2>2, <2>3, <2>4 DEF OneField
    <3> QED BY <1>2, <3>1, FieldOf
  <2>6. SubSeq(body, 2, m) = e
    <3>1. \A i \in 2..m : body[i] \in Sent
      BY <1>3, <1>4, <1>2 DEF m
    <3>2. /\ SubSeq(body, 2, m) \in Seq(Sent)
          /\ Len(SubSeq(body, 2, m)) = IF 2 <= m THEN m - 2 + 1 ELSE 0
          /\ \A i \in 1..(m - 2 + 1) : SubSeq(body, 2, m)[i] = body[2 + i - 1]
      BY <2>3, <3>1, SubSeqProperties
    <3>3. Len(SubSeq(body, 2, m)) = a /\ m - 2 + 1 = a
      BY <1>2, <3>2 DEF m
    <3>4. ASSUME NEW i \in 1..a PROVE SubSeq(body, 2, m)[i] = e[i]
      <4>1. 2 + i - 1 = 1 + i
        OBVIOUS
      <4> QED BY <1>2, <3>2, <3>3, <4>1
    <3>5. e \in Seq(Sent) /\ Len(e) = a
      BY DEF a
    <3> QED BY <3>2, <3>3, <3>4, <3>5, SeqEqual
  <2>7. strlcpy(e, SSID_FIELD) = e
    BY <1>1, Copied
  <2> QED BY <2>3, <2>5, <2>6, <2>7
<1>9. KeyValue(body, "&pass=", PASS_FIELD) = f
  <2> DEFINE p == a + 2
             m == a + b + 2
  <2>1. p \in 1..Len(body) /\ m \in p..Len(body) /\ m = Len(body) /\ 1 # p /\ m \in Int
    BY <1>2
  <2>2. \A k \in 1..Len(body) : body[k] = "&pass=" <=> k = p
    BY <1>2, <1>4, <1>5, <1>6, <1>7
  <2>3. p + 1 = a + 3 /\ \A k \in (p + 1)..m : body[k] \notin Keys
    BY <1>2, <1>5
  <2>4. p + 1 \in Int /\ m - (p + 1) + 1 = b /\ (p + 1 <= m <=> b # 0)
    BY <1>2
  <2>5. \A i \in 1..b : p + 1 + i - 1 = p + i /\ p + i \in (p + 1)..m
    BY <1>2
  <2>6. \A i \in (p + 1)..m : body[i] \in Sent
    BY <1>2, <1>3, <1>5
  <2>7. \A i \in 1..b : body[p + i] = f[i]
    BY <1>2
  <2> HIDE DEF p, m
  <2>8. KeyValue(body, "&pass=", PASS_FIELD) = strlcpy(SubSeq(body, p + 1, m), PASS_FIELD)
    <3>1. OneField(body, "&pass=", p, m)
      BY <2>1, <2>2, <2>3 DEF OneField
    <3> QED BY <1>2, <3>1, FieldOf
  <2> DEFINE w == SubSeq(body, p + 1, m)
  <2>9. w = f
    <3>1. m \in Int
      BY <2>1
    <3> DEFINE r == p + 1
    <3>2. r \in Int /\ \A i \in r..m : body[i] \in Sent
      BY <2>4, <2>6
    <3>3. w = SubSeq(body, r, m)
      OBVIOUS
    <3> HIDE DEF r, w
    <3>4. /\ w \in Seq(Sent)
          /\ Len(w) = IF r <= m THEN m - r + 1 ELSE 0
          /\ \A i \in 1..(m - r + 1) : w[i] = body[r + i - 1]
      BY <3>1, <3>2, <3>3, SubSeqProperties
    <3>5. /\ w \in Seq(Sent)
          /\ Len(w) = IF p + 1 <= m THEN m - (p + 1) + 1 ELSE 0
          /\ \A i \in 1..(m - (p + 1) + 1) : w[i] = body[p + 1 + i - 1]
      BY <3>4 DEF r
    <3>6. Len(w) = b
      BY <1>2, <2>4, <3>5
    <3>7. \A i \in 1..b : w[i] = f[i]
      BY <2>4, <2>5, <2>7, <3>5
    <3>8. f \in Seq(Sent) /\ Len(f) = b
      BY DEF b
    <3> QED BY <3>5, <3>6, <3>7, <3>8, SeqEqual
  <2>10. strlcpy(f, PASS_FIELD) = f
    BY <1>1, Copied
  <2> QED BY <2>8, <2>9, <2>10
<1> QED BY <1>8, <1>9 DEF body
\* A form whose fields fit once encoded is read as it was typed.
LEMMA FormRead ==
  ASSUME NEW f \in [ssid : Seq(Char), pass : Seq(Char)],
         Len(encodeURIComponent(f.ssid)) < SSID_FIELD,
         Len(encodeURIComponent(f.pass)) < PASS_FIELD
  PROVE  Fields(FormBody(f.ssid, f.pass)) = f
<1> DEFINE d == encodeURIComponent(f.ssid)
           e == encodeURIComponent(f.pass)
<1>1. f.ssid \in Seq(Char) /\ f.pass \in Seq(Char) /\ f = [ssid |-> f.ssid, pass |-> f.pass]
  OBVIOUS
<1>2. d \in Seq(Sent) /\ e \in Seq(Sent)
  BY <1>1, EncodedSent
<1>3. FormBody(f.ssid, f.pass) = Body(d, e)
  BY DEF FormBody, Body
<1>4. url_decode(d) = f.ssid /\ url_decode(e) = f.pass
  BY <1>1, DecodeEncode
<1> HIDE DEF d, e
<1>5. Len(d) < SSID_FIELD /\ Len(e) < PASS_FIELD
  BY DEF d, e
<1>6. /\ KeyValue(Body(d, e), "ssid=", SSID_FIELD) = d
      /\ KeyValue(Body(d, e), "&pass=", PASS_FIELD) = e
  BY <1>2, <1>5, BodyFields
<1> QED BY <1>1, <1>3, <1>4, <1>6 DEF Fields

\* The body of a form is one of bytes.
LEMMA FormBytes ==
  ASSUME NEW f \in [ssid : Seq(Char), pass : Seq(Char)]
  PROVE  FormBody(f.ssid, f.pass) \in Seq(Byte)
<1> DEFINE d == encodeURIComponent(f.ssid)
           e == encodeURIComponent(f.pass)
<1>1. d \in Seq(Sent) /\ e \in Seq(Sent)
  BY EncodedSent
<1>2. FormBody(f.ssid, f.pass) = Body(d, e)
  BY DEF FormBody, Body
<1> HIDE DEF d, e
<1> QED BY <1>1, <1>2, BodyParts

\* Forgetting is read as a form without a name.
LEMMA ForgetRead == ForgetBody \in Seq(Byte) /\ Fields(ForgetBody).ssid = <<>>
<1> DEFINE body == ForgetBody
           v == SubSeq(body, 1 + 1, 1)
<1>1. body \in Seq(Byte) /\ Len(body) = 1 /\ body[1] = "ssid="
  BY DEF ForgetBody, Byte, Keys
<1> HIDE DEF body
<1>2. OneField(body, "ssid=", 1, 1)
  BY <1>1 DEF OneField
<1>3. KeyValue(body, "ssid=", SSID_FIELD) = strlcpy(v, SSID_FIELD)
  BY <1>1, <1>2, FieldOf
<1>4. v = <<>>
  BY SubSeqEmpty
<1>5. SSID_FIELD \in Nat \ {0}
  BY FormAssumption
<1>6. strlcpy(<<>>, SSID_FIELD) = <<>>
  <2>1. <<>> \in Seq(Byte) /\ Len(<<>>) < SSID_FIELD
    BY <1>5, EmptySeq
  <2> QED BY <1>5, <2>1, Copied
<1>7. url_decode(<<>>) = <<>>
  <2>1. <<>> \in Seq(Byte) /\ Len(<<>>) = 0
    BY EmptySeq
  <2>2. PICK dec : Decoding(<<>>, dec) /\ url_decode(<<>>) = dec[1]
    BY <2>1, DecodeDefined
  <2> QED BY <2>1, <2>2 DEF Decoding
<1> QED BY <1>1, <1>3, <1>4, <1>6, <1>7 DEF Fields, body

\* What is received of a body.
LEMMA ReceivedPart ==
  ASSUME NEW body \in Seq(Byte), NEW got \in 1..Asked(body)
  PROVE  /\ SubSeq(body, 1, got) \in Seq(Byte)
         /\ got = Len(body) => SubSeq(body, 1, got) = body
<1>1. Len(body) \in Nat /\ \A i \in 1..Len(body) : body[i] \in Byte
  BY LenProperties, ElementOfSeq
<1>2. BODY_BUF \in Nat \ {0}
  BY FormAssumption
<1>3. got \in Int /\ got <= Len(body)
  BY <1>1, <1>2 DEF Asked
<1>4. \A i \in 1..got : body[i] \in Byte
  BY <1>1, <1>3
<1>5. SubSeq(body, 1, got) \in Seq(Byte)
  BY <1>3, <1>4, SubSeqProperties
<1> QED BY <1>5, SubSeqFull
-----------------------------------------------------------------------------
(* The answer to /status *)

\* What a JSON string is made of.
Shown == Byte \cup {"u"}

\* A character is written as itself, after a backslash, or as \u0009.
LEMMA EscapeOf ==
  ASSUME NEW c \in Byte
  PROVE  \/ c \notin {"\"", "\\", TAB} /\ Escape(c) = <<c>>
         \/ c \in {"\"", "\\"} /\ Escape(c) = <<"\\", c>>
         \/ c = TAB /\ Escape(c) = <<"\\", "u", "0", "0", "0", "9">>
BY DEF Escape, TAB

\* An escape is a string of at most six characters.
LEMMA EscapeShown ==
  ASSUME NEW c \in Byte
  PROVE  Escape(c) \in Seq(Shown) /\ Len(Escape(c)) <= 6
<1>1. c \in Shown /\ {"\\", "u", "0", "9"} \subseteq Shown
  BY DEF Shown, Byte, Char, Reserved, HexDigits
<1> HIDE DEF Shown
<1>2. <<c>> \in Seq(Shown) /\ Len(<<c>>) = 1
  BY <1>1
<1>3. <<"\\", c>> \in Seq(Shown) /\ Len(<<"\\", c>>) = 2
  BY <1>1
<1>4. /\ <<"\\", "u", "0", "0", "0", "9">> \in Seq(Shown)
      /\ Len(<<"\\", "u", "0", "0", "0", "9">>) = 6
  BY <1>1
<1>5. CASE Escape(c) = <<c>>
  BY <1>2, <1>5
<1>6. CASE Escape(c) = <<"\\", c>>
  BY <1>3, <1>6
<1>7. CASE Escape(c) = <<"\\", "u", "0", "0", "0", "9">>
  BY <1>4, <1>7
<1> QED BY <1>5, <1>6, <1>7, EscapeOf

Buffer == [out : Seq(Shown), full : BOOLEAN]
Escapes(s) == [i \in 1..Len(s) |-> Escape(s[i])]

\* A turn of json_escape's loop: the buffer stays one, and takes the character
\* as long as there is room for the longest escape.
LEMMA EscapedStep ==
  ASSUME NEW buf \in Buffer, NEW c \in Byte
  PROVE  /\ Escaped(buf, c) \in Buffer
         /\ ~buf.full /\ Len(buf.out) + 6 < ESC_BUF =>
              ~Escaped(buf, c).full /\ Escaped(buf, c).out = buf.out \o Escape(c)
<1>1. ESC_BUF \in Nat
  BY FormAssumption
<1>2. buf.out \in Seq(Shown) /\ buf.full \in BOOLEAN
  BY DEF Buffer
<1>3. Len(buf.out) \in Nat /\ buf.out \o Escape(c) \in Seq(Shown)
  BY <1>2, EscapeShown, LenProperties, ConcatProperties
<1> DEFINE more == [buf EXCEPT !.out = @ \o Escape(c)]
           done == [buf EXCEPT !.full = TRUE]
<1>4. done \in Buffer
  BY DEF Buffer
<1>5. more \in Buffer /\ more.out = buf.out \o Escape(c) /\ more.full = buf.full
  BY <1>3 DEF Buffer
<1>6. /\ Escaped(buf, c) \in {more, done}
      /\ ~buf.full /\ Len(buf.out) + 6 < ESC_BUF => Escaped(buf, c) = more
  BY <1>1, <1>3 DEF Escaped
<1> HIDE DEF more, done
<1> QED BY <1>2, <1>4, <1>5, <1>6

\* No name that is shown fills the buffer of its escaped form: the recursive
\* function of json_escape writes all the escapes.
LEMMA EscapeDefined ==
  ASSUME NEW s \in Seq(Byte), Len(s) < SHOWN_SSID
  PROVE  \E out : /\ Pieces(out, Escapes(s), Len(s), Shown)
                  /\ json_escape(s) = out[Len(s)]
<1> DEFINE n == Len(s)
           S == Buffer
           b0 == [out |-> <<>>, full |-> FALSE]
           G == [p \in S \X (1..n) |-> Escaped(p[1], s[p[2]])]
           Eq(h) == [i \in 0..Len(s) |->
                       IF i = 0 THEN [out |-> <<>>, full |-> FALSE]
                       ELSE Escaped(h[i - 1], s[i])]
           esc == CHOOSE h : h = Eq(h)
<1>1. n \in Nat /\ b0 \in S
  BY LenProperties, EmptySeq DEF Buffer
<1>2. \A i \in 1..n : s[i] \in Byte
  BY ElementOfSeq
<1>3. \A b \in S, i \in 1..n : Escaped(b, s[i]) \in S
  BY <1>2, EscapedStep
<1>4. LoopStep(G, S, n)
  BY <1>3 DEF LoopStep
<1>5. PICK h \in LoopStates(G, S, n, b0) : TRUE
  <2> HIDE DEF G, S, n, esc, Eq, b0
  <2> QED BY <1>1, <1>4, LoopDefined
<1>6. h = Eq(h)
  <2>1. h \in [0..n -> S] /\ h[0] = b0 /\ \A i \in 1..n : h[i] = G[<<h[i - 1], i>>]
    <3> HIDE DEF G, S, n, b0
    <3> QED BY <1>5 DEF LoopStates
  <2>2. \A i \in 1..n : i \in 0..n /\ i - 1 \in 0..n /\ i # 0
    BY <1>1
  <2>3. \A i \in 1..n : h[i - 1] \in S
    <3> HIDE DEF n, S, b0
    <3> QED BY <2>1, <2>2
  <2>4. \A i \in 1..n : h[i] = Escaped(h[i - 1], s[i])
    <3> TAKE i \in 1..n
    <3>1. <<h[i - 1], i>> \in S \X (1..n)
      BY <2>3
    <3>2. G[<<h[i - 1], i>>] = Escaped(h[i - 1], s[i])
      BY <3>1
    <3> HIDE DEF G, S, n
    <3> QED BY <2>1, <3>2
  <2>5. \A i \in 0..n : i = 0 \/ i \in 1..n
    BY <1>1
  <2> HIDE DEF n, S, b0
  <2>6. \A i \in 0..n : h[i] = IF i = 0 THEN b0 ELSE Escaped(h[i - 1], s[i])
    BY <2>1, <2>2, <2>4, <2>5
  <2>7. h = [i \in 0..n |-> IF i = 0 THEN b0 ELSE Escaped(h[i - 1], s[i])]
    BY <2>1, <2>6
  <2> QED BY <2>7 DEF n, b0
<1>7. esc = Eq(esc)
  BY <1>6, Zenon
<1>8. json_escape(s) = esc[n].out
  BY DEF json_escape
<1> HIDE DEF esc
<1>9. esc[0] = b0 /\ \A i \in 1..n : esc[i] = Escaped(esc[i - 1], s[i])
  <2>1. \A i \in 0..n : esc[i] = IF i = 0 THEN b0 ELSE Escaped(esc[i - 1], s[i])
    BY <1>7
  <2>2. 0 \in 0..n /\ \A i \in 1..n : i \in 0..n /\ i # 0
    BY <1>1
  <2> HIDE DEF n, b0
  <2> QED BY <2>1, <2>2
<1>10. n < SHOWN_SSID /\ SHOWN_SSID \in Nat /\ ESC_BUF \in Nat /\ 6 * (SHOWN_SSID - 1) < ESC_BUF
  BY FormAssumption
<1> DEFINE Room(i) == esc[i] \in Buffer /\ ~esc[i].full /\ Len(esc[i].out) <= 6 * i
           T == {m \in Nat : m <= n => Room(m)}
<1> HIDE DEF n
<1>11. 0 \in T
  <2>1. b0 \in Buffer /\ ~b0.full /\ Len(b0.out) = 0
    BY <1>1, EmptySeq
  <2> HIDE DEF b0
  <2> QED BY <1>9, <2>1
<1>12. ASSUME NEW m \in Nat, m <= n, Room(m), NEW i, i = m + 1, i <= n
       PROVE  Room(i) /\ esc[i].out = esc[m].out \o Escape(s[i])
  <2>1. i \in 1..n /\ i - 1 = m
    BY <1>12
  <2> DEFINE buf == esc[m]
             e == Escape(s[i])
  <2>2. /\ buf \in Buffer /\ ~buf.full /\ Len(buf.out) <= 6 * m
        /\ s[i] \in Byte /\ esc[i] = Escaped(buf, s[i])
    BY <1>2, <1>9, <1>12, <2>1
  <2> HIDE DEF buf
  <2>3. buf.out \in Seq(Shown) /\ Len(buf.out) \in Nat
    BY <2>2, LenProperties DEF Buffer
  <2>4. Len(buf.out) + 6 < ESC_BUF
    BY <1>1, <1>10, <1>12, <2>1, <2>2, <2>3
  <2>5. esc[i] \in Buffer /\ ~esc[i].full /\ esc[i].out = buf.out \o e
    BY <2>2, <2>4, EscapedStep
  <2>6. e \in Seq(Shown) /\ Len(e) \in Nat /\ Len(e) <= 6
    BY <2>2, EscapeShown, LenProperties
  <2> HIDE DEF e
  <2>7. Len(buf.out \o e) = Len(buf.out) + Len(e)
    BY <2>3, <2>6, ConcatProperties
  <2>8. Len(esc[i].out) <= 6 * i
    BY <1>12, <2>2, <2>3, <2>5, <2>6, <2>7
  <2> QED BY <2>5, <2>8 DEF buf, e
<1>13. \A m \in Nat : m <= n => Room(m)
  <2>1. \A m \in Nat : m \in T => m + 1 \in T
    <3> SUFFICES ASSUME NEW m \in Nat, m \in T, m + 1 <= n PROVE Room(m + 1)
      OBVIOUS
    <3>1. m <= n /\ Room(m)
      BY <1>1
    <3> HIDE DEF Room
    <3> QED BY <1>12, <3>1
  <2>2. \A m \in Nat : m \in T
    <3> HIDE DEF T
    <3> QED BY <1>11, <2>1, NatSetInduction
  <2> QED BY <2>2
<1> DEFINE out == [i \in 0..n |-> esc[i].out]
           piece == Escapes(s)
<1>14. Pieces(out, piece, n, Shown)
  <2>1. out[0] = <<>>
    BY <1>1, <1>9
  <2>2. ASSUME NEW i \in 1..n PROVE piece[i] \in Seq(Shown) /\ out[i] = out[i - 1] \o piece[i]
    <3>1. piece[i] = Escape(s[i]) /\ piece[i] \in Seq(Shown)
      BY <1>2, EscapeShown DEF Escapes, n
    <3> DEFINE m == i - 1
    <3>2. m \in Nat /\ m <= n /\ i = m + 1 /\ i <= n /\ m \in 0..n /\ i \in 0..n
      BY <1>1
    <3> HIDE DEF m
    <3>3. Room(m)
      BY <1>13, <3>2
    <3> HIDE DEF Room
    <3>4. esc[i].out = esc[m].out \o Escape(s[i])
      BY <1>12, <3>2, <3>3
    <3>5. out[i] = esc[i].out /\ out[m] = esc[m].out
      BY <3>2
    <3> HIDE DEF out, piece
    <3> QED BY <3>1, <3>4, <3>5 DEF m
  <2> HIDE DEF out, piece
  <2> QED BY <2>1, <2>2 DEF Pieces
<1>15. json_escape(s) = out[n]
  BY <1>1, <1>8
<1> HIDE DEF out
<1> QED BY <1>14, <1>15 DEF n
\* How a reader of JSON takes what stands at position i.
Paired(t, i) == i + 1 <= Len(t) /\ t[i + 1] \in {"\"", "\\"}
Coded(t, i) == i + 5 <= Len(t) /\ t[i + 1] = "u"
Refused(t, i) ==
  t[i] \in {"\"", TAB} \/ (t[i] = "\\" /\ ~Paired(t, i) /\ ~Coded(t, i))
ReadAs(t, i) ==
  IF t[i] # "\\" THEN t[i] ELSE IF Paired(t, i) THEN t[i + 1] ELSE CharOf(t[i + 4], t[i + 5])
ReadsOn(t, i) == IF t[i] # "\\" THEN i + 1 ELSE IF Paired(t, i) THEN i + 2 ELSE i + 6

Reading(t, read) ==
  /\ read[Len(t) + 1] = <<>>
  /\ \A i \in 1..Len(t) :
       ~Refused(t, i) => read[i] = <<ReadAs(t, i)>> \o read[ReadsOn(t, i)]

Marked == Shown \cup {"?"}

\* What is not refused is one character, and the next is not past the end.
LEMMA ReadOne ==
  ASSUME NEW t \in Seq(Shown), NEW i \in 1..Len(t), ~Refused(t, i)
  PROVE  ReadAs(t, i) \in Marked /\ ReadsOn(t, i) \in (i + 1)..(Len(t) + 1)
<1>1. Len(t) \in Nat /\ \A j \in 1..Len(t) : t[j] \in Marked
  BY ElementOfSeq, LenProperties DEF Marked
<1>2. \A h, l : CharOf(h, l) \in Marked
  BY DEF CharOf, Marked, Shown, Byte, Char, Reserved
<1>3. CASE t[i] # "\\"
  BY <1>1, <1>3 DEF ReadAs, ReadsOn
<1>4. CASE t[i] = "\\" /\ Paired(t, i)
  <2>1. i + 1 \in 1..Len(t)
    <3>1. i + 1 <= Len(t)
      BY <1>4 DEF Paired
    <3> QED BY <1>1, <3>1
  <2>2. ReadAs(t, i) = t[i + 1] /\ ReadsOn(t, i) = i + 2
    BY <1>4 DEF ReadAs, ReadsOn
  <2> QED BY <1>1, <2>1, <2>2
<1>5. CASE t[i] = "\\" /\ ~Paired(t, i)
  <2>1. i + 5 <= Len(t)
    BY <1>5 DEF Refused, Coded
  <2> QED BY <1>1, <1>2, <1>5, <2>1 DEF ReadAs, ReadsOn
<1> QED BY <1>3, <1>4, <1>5

\* The recursive function of JsonRead satisfies its equation.
LEMMA ReadDefined ==
  ASSUME NEW t \in Seq(Shown)
  PROVE  \E read : Reading(t, read) /\ JsonRead(t) = read[1]
<1> DEFINE n == Len(t)
           S == Seq(Marked)
           F == [1..(n + 1) -> S]
           Step(i, f) == IF Refused(t, i) THEN <<"?">> ELSE <<ReadAs(t, i)>> \o f[ReadsOn(t, i)]
           G == [q \in (1..n) \X F |-> Step(q[1], q[2])]
           Eq(h) == [i \in 1..(Len(t) + 1) |->
             IF i > Len(t) THEN <<>>
             ELSE IF t[i] \in {"\"", TAB} THEN <<"?">>
             ELSE IF t[i] # "\\" THEN <<t[i]>> \o h[i + 1]
             ELSE IF i + 1 <= Len(t) /\ t[i + 1] \in {"\"", "\\"}
                  THEN <<t[i + 1]>> \o h[i + 2]
             ELSE IF i + 5 <= Len(t) /\ t[i + 1] = "u"
                  THEN <<CharOf(t[i + 4], t[i + 5])>> \o h[i + 6]
             ELSE <<"?">>]
           read == CHOOSE h : h = Eq(h)
<1>1. n \in Nat /\ <<>> \in S
  BY LenProperties, EmptySeq
<1>2. \A i \in 1..n : ~Refused(t, i) =>
        ReadAs(t, i) \in Marked /\ ReadsOn(t, i) \in (i + 1)..(n + 1)
  BY ReadOne
<1>3. \A i \in 1..n : \A f \in F : G[<<i, f>>] = Step(i, f)
  OBVIOUS
<1>4. TailStep(G, S, n)
  <2> HIDE DEF G, n
  <2>1. ASSUME NEW i \in 1..n, NEW f \in F PROVE G[<<i, f>>] \in S
    <3>1. CASE Refused(t, i)
      <4>1. <<"?">> \in S
        BY DEF Marked
      <4> QED BY <1>3, <3>1, <4>1
    <3>2. CASE ~Refused(t, i)
      <4>1. ReadsOn(t, i) \in 1..(n + 1)
        BY <1>1, <1>2, <3>2
      <4>2. f[ReadsOn(t, i)] \in Seq(Marked) /\ <<ReadAs(t, i)>> \in Seq(Marked)
        BY <1>2, <3>2, <4>1
      <4>3. <<ReadAs(t, i)>> \o f[ReadsOn(t, i)] \in Seq(Marked)
        BY <4>2, ConcatProperties
      <4> QED BY <1>3, <3>2, <4>3
    <3> QED BY <3>1, <3>2
  <2>2. ASSUME NEW i \in 1..n, NEW f \in F, NEW g \in F,
               \A j \in (i + 1)..(n + 1) : f[j] = g[j]
        PROVE  G[<<i, f>>] = G[<<i, g>>]
    <3>1. ~Refused(t, i) => f[ReadsOn(t, i)] = g[ReadsOn(t, i)]
      BY <1>2, <2>2
    <3>2. Step(i, f) = Step(i, g)
      BY <3>1
    <3> HIDE DEF Step
    <3>3. G[<<i, f>>] = Step(i, f) /\ G[<<i, g>>] = Step(i, g)
      BY <1>3
    <3> QED BY <3>2, <3>3
  <2> QED BY <2>1, <2>2 DEF TailStep
<1>5. PICK h \in TailFunctions(G, S, n, <<>>) : TRUE
  <2> HIDE DEF G, S, n, read, Eq, F, Step
  <2> QED BY <1>1, <1>4, TailDefined
<1> DEFINE Value(f, i) ==
             IF t[i] \in {"\"", TAB} THEN <<"?">>
             ELSE IF t[i] # "\\" THEN <<t[i]>> \o f[i + 1]
             ELSE IF i + 1 <= Len(t) /\ t[i + 1] \in {"\"", "\\"}
                  THEN <<t[i + 1]>> \o f[i + 2]
             ELSE IF i + 5 <= Len(t) /\ t[i + 1] = "u"
                  THEN <<CharOf(t[i + 4], t[i + 5])>> \o f[i + 6]
             ELSE <<"?">>
<1>6. \A f, i : Value(f, i) = Step(i, f)
  BY DEF Refused, ReadAs, ReadsOn, Paired, Coded, TAB
<1>7. h = Eq(h)
  <2>1. h \in F /\ h[n + 1] = <<>> /\ \A i \in 1..n : h[i] = G[<<i, h>>]
    <3> HIDE DEF G, S, n
    <3> QED BY <1>5 DEF TailFunctions, F
  <2>2. \A i \in 1..n : h[i] = Value(h, i)
    <3> HIDE DEF G, F, n, Step, Value
    <3> QED BY <1>3, <1>6, <2>1
  <2>3. \A i \in 1..(n + 1) : (i > n /\ i = n + 1) \/ (~(i > n) /\ i \in 1..n)
    BY <1>1
  <2> HIDE DEF n, Value
  <2>4. \A i \in 1..(n + 1) : h[i] = IF i > n THEN <<>> ELSE Value(h, i)
    BY <2>1, <2>2, <2>3
  <2>5. h = [i \in 1..(n + 1) |-> IF i > n THEN <<>> ELSE Value(h, i)]
    BY <2>1, <2>4
  <2> QED BY <2>5 DEF n, Value
<1>8. read = Eq(read)
  BY <1>7, Zenon
<1>9. JsonRead(t) = read[1]
  BY DEF JsonRead
<1> HIDE DEF read
<1>10. Reading(t, read)
  <2>1. \A i \in 1..(n + 1) : read[i] = IF i > n THEN <<>> ELSE Value(read, i)
    BY <1>8
  <2>2. n + 1 \in 1..(n + 1) /\ n + 1 > n /\ \A i \in 1..n : i \in 1..(n + 1) /\ ~(i > n)
    BY <1>1
  <2> HIDE DEF n, Value
  <2>3. read[n + 1] = <<>> /\ \A i \in 1..n : read[i] = Step(i, read)
    <3> HIDE DEF Step
    <3> QED BY <1>6, <2>1, <2>2
  <2> QED BY <2>3 DEF Reading, n
<1> QED BY <1>9, <1>10
\* Where the escape of s[i] stands, s[i] is read, and it is all that is used.
LEMMA EscapeReadBack ==
  ASSUME NEW s \in Seq(Byte), NEW out, Pieces(out, Escapes(s), Len(s), Shown),
         NEW i \in 1..Len(s), NEW t, t = out[Len(s)]
  PROVE  /\ Len(out[i - 1]) + 1 \in 1..Len(t)
         /\ ~Refused(t, Len(out[i - 1]) + 1)
         /\ ReadAs(t, Len(out[i - 1]) + 1) = s[i]
         /\ ReadsOn(t, Len(out[i - 1]) + 1) = Len(out[i]) + 1
<1> DEFINE n == Len(s)
           a == Len(out[i - 1])
           b == Len(out[i])
           c == Escape(s[i])
           piece == Escapes(s)
<1>1. s[i] \in Byte /\ n \in Nat /\ i \in 1..n /\ i - 1 \in 0..n /\ i \in 0..n /\ n \in 0..n
  BY ElementOfSeq, LenProperties
<1>2. piece[i] = c
  BY DEF Escapes
<1>3. Pieces(out, piece, n, Shown)
  OBVIOUS
<1> HIDE DEF n, piece, c
<1>4. \A k \in 0..n : out[k] \in Seq(Shown)
  BY <1>1, <1>3, PiecesString
<1>5. /\ b = a + Len(c)
      /\ b <= Len(out[n])
      /\ \A j \in 1..Len(c) : out[n][a + j] = c[j]
  <2>1. Placed(out, piece, n)
    BY <1>1, <1>3, PiecesPlaced
  <2> QED BY <1>1, <1>2, <2>1 DEF Placed
<1>6. a \in Nat /\ b \in Nat /\ Len(out[n]) \in Nat
  BY <1>1, <1>4, LenProperties
<1>7. t = out[n]
  BY DEF n
<1> HIDE DEF a, b
<1> DEFINE p == a + 1
<1>8. CASE s[i] \notin {"\"", "\\", TAB} /\ c = <<s[i]>>
  <2>1. Len(c) = 1 /\ c[1] = s[i]
    BY <1>8
  <2>2. t[p] = s[i] /\ p \in 1..Len(t) /\ p + 1 = b + 1
    BY <1>5, <1>6, <1>7, <2>1
  <2> HIDE DEF p
  <2>3. ~Refused(t, p)
    BY <1>8, <2>2 DEF Refused
  <2>4. ReadAs(t, p) = s[i] /\ ReadsOn(t, p) = b + 1
    BY <1>8, <2>2 DEF ReadAs, ReadsOn
  <2> QED BY <2>2, <2>3, <2>4 DEF a, b, p
<1>9. CASE s[i] \in {"\"", "\\"} /\ c = <<"\\", s[i]>>
  <2>1. Len(c) = 2 /\ c[1] = "\\" /\ c[2] = s[i]
    BY <1>9
  <2>2. /\ t[a + 1] = "\\" /\ t[a + 2] = s[i] /\ b = a + 2 /\ b <= Len(t)
    BY <1>5, <1>6, <1>7, <2>1
  <2>3. /\ p \in 1..Len(t) /\ p + 1 = a + 2 /\ p + 1 <= Len(t) /\ p + 2 = b + 1
    BY <1>6, <1>7, <2>2
  <2>4. t[p] = "\\"
    BY <2>2
  <2> HIDE DEF p
  <2>5. t[p + 1] = s[i]
    BY <2>2, <2>3
  <2>6. Paired(t, p)
    BY <1>9, <2>3, <2>5 DEF Paired
  <2>7. ~Refused(t, p)
    BY <2>4, <2>6 DEF Refused, TAB
  <2>8. ReadAs(t, p) = s[i] /\ ReadsOn(t, p) = b + 1
    BY <2>3, <2>4, <2>5, <2>6 DEF ReadAs, ReadsOn
  <2> QED BY <2>3, <2>7, <2>8 DEF a, b, p
<1>10. CASE s[i] = TAB /\ c = <<"\\", "u", "0", "0", "0", "9">>
  <2>1. Len(c) = 6 /\ c[1] = "\\" /\ c[2] = "u" /\ c[5] = "0" /\ c[6] = "9"
    BY <1>10
  <2>2. /\ t[a + 1] = "\\" /\ t[a + 2] = "u" /\ t[a + 5] = "0" /\ t[a + 6] = "9"
        /\ b = a + 6 /\ b <= Len(t)
    BY <1>5, <1>6, <1>7, <2>1
  <2>3. /\ p \in 1..Len(t) /\ p + 1 = a + 2 /\ p + 4 = a + 5 /\ p + 5 = a + 6
        /\ p + 5 <= Len(t) /\ p + 6 = b + 1
    BY <1>6, <1>7, <2>2
  <2>4. t[p] = "\\"
    BY <2>2
  <2> HIDE DEF p
  <2>5. t[p + 1] = "u" /\ t[p + 4] = "0" /\ t[p + 5] = "9"
    BY <2>2, <2>3
  <2>6. ~Paired(t, p) /\ Coded(t, p)
    BY <2>3, <2>5 DEF Paired, Coded
  <2>7. ~Refused(t, p)
    BY <2>4, <2>6 DEF Refused, TAB
  <2>8. ReadAs(t, p) = CharOf("0", "9") /\ ReadsOn(t, p) = b + 1
    BY <2>3, <2>4, <2>5, <2>6 DEF ReadAs, ReadsOn
  <2>9. CharOf("0", "9") = TAB
    BY DEF CharOf
  <2> QED BY <1>10, <2>3, <2>7, <2>8, <2>9 DEF a, b, p
<1> QED BY <1>1, <1>8, <1>9, <1>10, EscapeOf DEF c

\* The escaped form of a name that is shown reads as that name.
LEMMA ReadEscape ==
  ASSUME NEW s \in Seq(Byte), Len(s) < SHOWN_SSID
  PROVE  JsonRead(json_escape(s)) = s
<1> DEFINE n == Len(s)
           t == json_escape(s)
           piece == Escapes(s)
<1>1. PICK out : Pieces(out, piece, n, Shown) /\ t = out[n]
  BY EscapeDefined
<1>2. n \in Nat /\ n \in 0..n
  BY LenProperties
<1>3. out[0] = <<>>
  BY <1>1 DEF Pieces
<1>4. \A i \in 1..n :
        /\ Len(out[i - 1]) + 1 \in 1..Len(t)
        /\ ~Refused(t, Len(out[i - 1]) + 1)
        /\ ReadAs(t, Len(out[i - 1]) + 1) = s[i]
        /\ ReadsOn(t, Len(out[i - 1]) + 1) = Len(out[i]) + 1
  BY <1>1, EscapeReadBack
<1>5. t \in Seq(Shown)
  <2> HIDE DEF n, piece, t
  <2> QED BY <1>1, <1>2, PiecesString
<1>6. PICK read : Reading(t, read) /\ JsonRead(t) = read[1]
  BY <1>5, ReadDefined
<1>7. /\ read[Len(t) + 1] = <<>>
      /\ \A p \in 1..Len(t) : ~Refused(t, p) => read[p] = <<ReadAs(t, p)>> \o read[ReadsOn(t, p)]
  BY <1>6 DEF Reading
<1> HIDE DEF n, t, piece
<1> DEFINE T == {m \in Nat : m <= n => read[Len(out[n - m]) + 1] = SubSeq(s, n - m + 1, n)}
<1>8. 0 \in T
  <2>1. n - 0 = n /\ n + 1 \in Int /\ n < n + 1
    BY <1>2
  <2>2. SubSeq(s, n + 1, n) = <<>>
    BY <1>2, <2>1, SubSeqEmpty
  <2>3. read[Len(out[n]) + 1] = <<>>
    BY <1>1, <1>7
  <2> QED BY <2>1, <2>2, <2>3
<1>9. ASSUME NEW m \in Nat, m \in T PROVE m + 1 \in T
  <2> SUFFICES ASSUME m + 1 <= n
               PROVE  read[Len(out[n - (m + 1)]) + 1] = SubSeq(s, n - (m + 1) + 1, n)
    OBVIOUS
  <2> DEFINE i == n - m
             p == Len(out[i - 1]) + 1
  <2>1. i \in 1..n /\ i - 1 = n - (m + 1) /\ n - (m + 1) + 1 = i
    BY <1>2
  <2>2. read[Len(out[i]) + 1] = SubSeq(s, i + 1, n)
    BY <1>2, <1>9
  <2> HIDE DEF i
  <2>3. /\ p \in 1..Len(t) /\ ~Refused(t, p) /\ ReadAs(t, p) = s[i]
        /\ ReadsOn(t, p) = Len(out[i]) + 1
    BY <1>4, <2>1
  <2> HIDE DEF p
  <2>4. read[p] = <<s[i]>> \o SubSeq(s, i + 1, n)
    BY <1>7, <2>2, <2>3
  <2>5. SubSeq(s, i, n) = <<s[i]>> \o SubSeq(s, i + 1, n)
    <3>1. i \in 1..Len(s) /\ n \in i..Len(s)
      BY <1>2, <2>1 DEF n
    <3> QED BY <3>1, SubSeqRecursiveFirst
  <2> QED BY <2>1, <2>4, <2>5 DEF p
<1>10. read[Len(out[0]) + 1] = SubSeq(s, 1, n)
  <2>1. \A m \in Nat : m \in T
    <3> HIDE DEF T
    <3> QED BY <1>8, <1>9, NatSetInduction
  <2>2. n - n = 0 /\ n <= n
    BY <1>2
  <2> QED BY <1>2, <2>1, <2>2
<1>11. Len(out[0]) + 1 = 1 /\ SubSeq(s, 1, n) = s
  BY <1>3, SubSeqFull DEF n
<1>12. JsonRead(t) = s
  BY <1>6, <1>10, <1>11
<1> QED BY <1>12 DEF t
-----------------------------------------------------------------------------
(* The inductive invariant of HttpServer *)

Elements(s) == {s[i] : i \in 1..Len(s)}
Distinct(s) == \A i, j \in 1..Len(s) : i # j => s[i] # s[j]
Creds == [ssid : Seq(Byte), pass : Seq(Byte)]

\* The sessions and the connections waiting are those of different clients; a
\* request is of an open session that is not the one uploading.
SessionInv ==
  /\ sess \in Seq(Clients) /\ Len(sess) <= MaxSockets
  /\ pending \in Seq(Clients) /\ Distinct(pending)
  /\ Waiting \cap Open = {}
  /\ asks \subseteq Open /\ ready \subseteq asks
  /\ serving \in Open \cup {Nobody} /\ serving \notin asks
  /\ sender \in {"sending", "silent", "gone"}

\* What is stored, configured and shown are strings that fit; what can be loaded
\* is what the driver has and what is shown; a form is stored as typed.
CredsInv ==
  /\ nvs \in Creds /\ Len(nvs.ssid) < SSID_FIELD /\ Len(nvs.pass) < PASS_FIELD
  /\ cfg \in Creds /\ Len(cfg.ssid) < DRV_SSID /\ Len(cfg.pass) < DRV_PASS
  /\ s_sta_ssid \in Seq(Byte) /\ Len(s_sta_ssid) < SHOWN_SSID
  /\ Loads(nvs) => cfg = AtBoot(nvs) /\ s_sta_ssid = strlcpy(nvs.ssid, SHOWN_SSID)
  /\ whole \in BOOLEAN
  /\ FormTakenAsTyped

\* The list answered is that of a scan.
ScanInv ==
  /\ scan.heard \in Heard \cup {<<>>}
  /\ ScanListsEachOnce

-----------------------------------------------------------------------------
(* Sessions *)

\* One element more.
LEMMA AppendElements ==
  ASSUME NEW X, NEW s \in Seq(X), NEW e \in X
  PROVE  /\ Append(s, e) \in Seq(X) /\ Len(Append(s, e)) = Len(s) + 1
         /\ Elements(Append(s, e)) = Elements(s) \cup {e}
         /\ Distinct(s) /\ e \notin Elements(s) => Distinct(Append(s, e))
<1> DEFINE t == Append(s, e)
           n == Len(s)
<1>1. /\ t \in Seq(X) /\ Len(t) = n + 1 /\ n \in Nat
      /\ \A i \in 1..n : t[i] = s[i]
      /\ t[n + 1] = e
  BY AppendProperties, LenProperties
<1> HIDE DEF t
<1>2. \A i \in 1..(n + 1) : i \in 1..n \/ i = n + 1
  BY <1>1
<1>3. Elements(t) = Elements(s) \cup {e}
  <2>1. 1..n \subseteq 1..(n + 1) /\ n + 1 \in 1..(n + 1)
    BY <1>1
  <2> QED BY <1>1, <1>2, <2>1 DEF Elements
<1>4. ASSUME Distinct(s), e \notin Elements(s) PROVE Distinct(t)
  <2>1. \A i \in 1..n : s[i] # e
    BY <1>4 DEF Elements
  <2> QED BY <1>1, <1>2, <1>4, <2>1 DEF Distinct
<1> QED BY <1>1, <1>3, <1>4 DEF t

\* The first element, and the others.
LEMMA TailElements ==
  ASSUME NEW X, NEW s \in Seq(X), s # <<>>
  PROVE  /\ Tail(s) \in Seq(X) /\ Len(Tail(s)) = Len(s) - 1 /\ Len(s) \in Nat \ {0}
         /\ Head(s) \in X
         /\ Elements(s) = Elements(Tail(s)) \cup {Head(s)}
         /\ Distinct(s) => Distinct(Tail(s)) /\ Head(s) \notin Elements(Tail(s))
<1> DEFINE t == Tail(s)
           n == Len(s)
<1>1. /\ t \in Seq(X) /\ Len(t) = n - 1 /\ Head(s) \in X
      /\ \A i \in 1..Len(t) : t[i] = s[i + 1]
  BY HeadTailProperties
<1>2. n \in Nat \ {0}
  BY EmptySeq
<1>3. Head(s) = s[1]
  BY <1>2
<1> HIDE DEF t
<1>4. \A i \in 1..n : i = 1 \/ (i - 1 \in 1..Len(t) /\ t[i - 1] = s[i])
  <2> SUFFICES ASSUME NEW i \in 1..n, i # 1 PROVE i - 1 \in 1..Len(t) /\ t[i - 1] = s[i]
    OBVIOUS
  <2> DEFINE j == i - 1
  <2>1. j \in 1..Len(t) /\ j + 1 = i
    BY <1>1, <1>2
  <2> HIDE DEF j
  <2>2. t[j] = s[i]
    BY <1>1, <2>1
  <2> QED BY <2>1, <2>2 DEF j
<1>5. \A j \in 1..Len(t) : j + 1 \in 1..n /\ j + 1 # 1
  BY <1>1, <1>2
<1>6. Elements(s) = Elements(t) \cup {Head(s)}
  <2>1. 1 \in 1..n
    BY <1>2
  <2>2. Elements(s) \subseteq Elements(t) \cup {Head(s)}
    BY <1>3, <1>4 DEF Elements
  <2>3. Elements(t) \cup {Head(s)} \subseteq Elements(s)
    BY <1>1, <1>3, <1>5, <2>1 DEF Elements
  <2> QED BY <2>2, <2>3
<1>7. ASSUME Distinct(s) PROVE Distinct(t) /\ Head(s) \notin Elements(t)
  <2>1. \A i, j \in 1..Len(t) : i # j => i + 1 # j + 1
    BY <1>1, <1>2
  <2>2. Distinct(t)
    BY <1>1, <1>5, <1>7, <2>1 DEF Distinct
  <2>3. 1 \in 1..n
    BY <1>2
  <2>4. \A j \in 1..Len(t) : t[j] # Head(s)
    BY <1>1, <1>3, <1>5, <1>7, <2>3 DEF Distinct
  <2> QED BY <2>2, <2>4 DEF Elements
<1> QED BY <1>1, <1>2, <1>6, <1>7 DEF t

\* Without an element: one shorter, and all the others are still there.
LEMMA WithoutElements ==
  ASSUME NEW X, NEW s \in Seq(X), NEW c \in Elements(s)
  PROVE  /\ Without(s, c) \in Seq(X) /\ Len(Without(s, c)) = Len(s) - 1 /\ Len(s) \in Nat
         /\ Elements(Without(s, c)) \subseteq Elements(s)
         /\ Elements(s) \ {c} \subseteq Elements(Without(s, c))
<1> DEFINE n == Len(s)
           k == CHOOSE k \in 1..Len(s) : s[k] = c
           u == SubSeq(s, 1, k - 1)
           v == SubSeq(s, k + 1, n)
           w == Without(s, c)
<1>1. w = u \o v
  BY DEF Without
<1>2. k \in 1..n /\ s[k] = c
  BY DEF Elements
<1>3. n \in Nat /\ \A i \in 1..n : s[i] \in X
  BY LenProperties, ElementOfSeq
<1> HIDE DEF k, n
<1>4. /\ u \in Seq(X) /\ Len(u) = k - 1
      /\ \A i \in 1..(k - 1) : u[i] = s[i]
  <2> DEFINE m == k - 1
  <2>1. m \in Int /\ m >= 0 /\ \A i \in 1..m : s[i] \in X
    BY <1>2, <1>3
  <2> HIDE DEF m
  <2>2. /\ SubSeq(s, 1, m) \in Seq(X)
        /\ Len(SubSeq(s, 1, m)) = IF 1 <= m THEN m - 1 + 1 ELSE 0
        /\ \A i \in 1..(m - 1 + 1) : SubSeq(s, 1, m)[i] = s[1 + i - 1]
    BY <2>1, SubSeqProperties
  <2>3. Len(SubSeq(s, 1, m)) = m /\ m - 1 + 1 = m /\ \A i \in 1..m : 1 + i - 1 = i
    BY <2>1, <2>2
  <2> QED BY <2>2, <2>3 DEF m
<1>5. /\ v \in Seq(X) /\ Len(v) = n - k
      /\ \A i \in 1..(n - k) : v[i] = s[k + i]
  <2> DEFINE m == k + 1
  <2>1. m \in Int /\ n \in Int /\ n - m + 1 = n - k /\ \A i \in m..n : s[i] \in X
    BY <1>2, <1>3
  <2>2. (m <= n <=> n - k # 0) /\ \A i \in 1..(n - k) : m + i - 1 = k + i
    BY <1>2, <1>3
  <2> HIDE DEF m
  <2>3. /\ SubSeq(s, m, n) \in Seq(X)
        /\ Len(SubSeq(s, m, n)) = IF m <= n THEN n - m + 1 ELSE 0
        /\ \A i \in 1..(n - m + 1) : SubSeq(s, m, n)[i] = s[m + i - 1]
    BY <2>1, SubSeqProperties
  <2> QED BY <2>1, <2>2, <2>3 DEF m
<1> HIDE DEF u, v, w
<1>6. w \in Seq(X) /\ Joined(w, u, v)
  BY <1>1, <1>4, <1>5, ConcatParts
<1>7. /\ Len(w) = n - 1
      /\ \A i \in 1..(k - 1) : w[i] = s[i]
      /\ \A i \in 1..(n - k) : w[k - 1 + i] = s[k + i]
  <2>1. /\ Len(w) = Len(u) + Len(v)
        /\ \A i \in 1..Len(u) : w[i] = u[i]
        /\ \A i \in 1..Len(v) : w[Len(u) + i] = v[i]
    BY <1>6 DEF Joined
  <2>2. Len(w) = n - 1
    BY <1>2, <1>3, <1>4, <1>5, <2>1
  <2>3. \A i \in 1..(k - 1) : w[i] = s[i]
    BY <1>4, <2>1
  <2>4. \A i \in 1..(n - k) : w[k - 1 + i] = s[k + i]
    BY <1>4, <1>5, <2>1
  <2> QED BY <2>2, <2>3, <2>4
<1>8. ASSUME NEW j \in 1..Len(w) PROVE \E i \in 1..n : w[j] = s[i]
  <2>1. CASE j <= k - 1
    BY <1>2, <1>3, <1>7, <2>1
  <2>2. CASE ~(j <= k - 1)
    <3> DEFINE i == j - (k - 1)
    <3>1. i \in 1..(n - k) /\ k - 1 + i = j /\ k + i \in 1..n
      BY <1>2, <1>3, <1>7, <2>2
    <3> HIDE DEF i
    <3>2. w[j] = s[k + i]
      BY <1>7, <3>1
    <3> QED BY <3>1, <3>2
  <2> QED BY <2>1, <2>2
<1>9. ASSUME NEW i \in 1..n, s[i] # c PROVE \E j \in 1..Len(w) : w[j] = s[i]
  <2>1. CASE i < k
    BY <1>2, <1>3, <1>7, <2>1
  <2>2. CASE ~(i < k)
    <3> DEFINE j == i - k
    <3>1. j \in 1..(n - k) /\ k + j = i /\ k - 1 + j \in 1..Len(w)
      BY <1>2, <1>3, <1>7, <1>9, <2>2
    <3> HIDE DEF j
    <3>2. w[k - 1 + j] = s[i]
      BY <1>7, <3>1
    <3> QED BY <3>1, <3>2
  <2> QED BY <2>1, <2>2
<1>10. Elements(w) \subseteq Elements(s)
  BY <1>8 DEF Elements, n
<1>11. Elements(s) \ {c} \subseteq Elements(w)
  BY <1>9 DEF Elements, n
<1> QED BY <1>3, <1>6, <1>7, <1>10, <1>11 DEF n, w
\* A session that is kept moves to the end: the same sessions are open.
LEMMA KeepsOpen ==
  ASSUME SessionInv, NEW c \in Open, Keeps(c)
  PROVE  sess' \in Seq(Clients) /\ Len(sess') <= MaxSockets /\ Open' = Open
<1> DEFINE w == Without(sess, c)
<1>1. c \in Elements(sess) /\ sess \in Seq(Clients) /\ c \in Clients
  BY ElementOfSeq DEF SessionInv, Open, Elements
<1>2. /\ w \in Seq(Clients) /\ Len(w) = Len(sess) - 1 /\ Len(sess) \in Nat
      /\ Elements(w) \subseteq Elements(sess) /\ Elements(sess) \ {c} \subseteq Elements(w)
  BY <1>1, WithoutElements
<1> HIDE DEF w
<1>3. /\ Append(w, c) \in Seq(Clients) /\ Len(Append(w, c)) = Len(w) + 1
      /\ Elements(Append(w, c)) = Elements(w) \cup {c}
  BY <1>1, <1>2, AppendElements
<1>4. sess' = Append(w, c)
  BY DEF Keeps, w
<1>5. Elements(sess') = Elements(sess)
  BY <1>1, <1>2, <1>3, <1>4
<1>6. Open' = Elements(sess') /\ Open = Elements(sess)
  BY DEF Open, Elements
<1>7. Len(sess) <= MaxSockets /\ Len(sess') = Len(sess)
  BY <1>2, <1>3, <1>4 DEF SessionInv
<1> QED BY <1>3, <1>4, <1>5, <1>6, <1>7

\* One that is closed: the others stay open.
LEMMA ClosesOpen ==
  ASSUME SessionInv, NEW c \in Open, Closes(c)
  PROVE  /\ sess' \in Seq(Clients) /\ Len(sess') <= MaxSockets
         /\ Open' \subseteq Open /\ Open \ {c} \subseteq Open'
<1> DEFINE w == Without(sess, c)
<1>1. c \in Elements(sess) /\ sess \in Seq(Clients)
  BY DEF SessionInv, Open, Elements
<1>2. /\ w \in Seq(Clients) /\ Len(w) = Len(sess) - 1 /\ Len(sess) \in Nat
      /\ Elements(w) \subseteq Elements(sess) /\ Elements(sess) \ {c} \subseteq Elements(w)
  BY <1>1, WithoutElements
<1>3. sess' = w
  BY DEF Closes
<1> HIDE DEF w
<1>4. Open' = Elements(sess') /\ Open = Elements(sess)
  BY DEF Open, Elements
<1>5. Len(sess) <= MaxSockets /\ MaxSockets \in Nat
  BY HttpAssumption DEF SessionInv
<1> QED BY <1>2, <1>3, <1>4, <1>5

\* The sessions are clients'.
LEMMA OpenClients ==
  ASSUME SessionInv
  PROVE  Open \subseteq Clients /\ Waiting \subseteq Clients /\ Nobody \notin asks
<1>1. Open \subseteq Clients /\ Waiting \subseteq Clients
  BY ElementOfSeq DEF SessionInv, Open, Waiting
<1> QED BY <1>1, HttpAssumption DEF SessionInv

\* At first nobody is connected.
LEMMA SessionInit == Init => SessionInv
<1> SUFFICES ASSUME Init PROVE SessionInv
  OBVIOUS
<1>1. <<>> \in Seq(Clients) /\ Len(<<>>) = 0 /\ MaxSockets \in Nat
  BY EmptySeq, HttpAssumption
<1>2. sess = <<>> /\ pending = <<>> /\ asks = {} /\ ready = {} /\ serving = Nobody
  BY DEF Init
<1>3. Open = {} /\ Waiting = {} /\ Distinct(pending)
  BY <1>2, <1>1 DEF Open, Waiting, Distinct
<1> QED BY <1>1, <1>2, <1>3 DEF SessionInv, Init

\* A request that is answered: the sender's session stays, or is closed.
LEMMA SessionServed ==
  ASSUME SessionInv, NEW c \in Clients, Serve(c), Keeps(c) \/ Closes(c),
         UNCHANGED <<serving, sender>>
  PROVE  SessionInv'
<1>1. /\ c \in ready /\ c \in asks /\ c \in Open
      /\ serving = Nobody /\ ready' = ready \ {c} /\ asks' = asks \ {c}
      /\ pending' = pending /\ serving' = serving /\ sender' = sender
  BY DEF SessionInv, Serve
<1>2. /\ sess' \in Seq(Clients) /\ Len(sess') <= MaxSockets
      /\ Open' \subseteq Open /\ Open \ {c} \subseteq Open'
  BY <1>1, KeepsOpen, ClosesOpen
<1>3. Waiting' = Waiting /\ Distinct(pending)'
  BY <1>1 DEF Waiting, Distinct, SessionInv
<1> QED BY <1>1, <1>2, <1>3, OpenClients DEF SessionInv

\* The session of an upload that ends is closed.
LEMMA SessionEndUpload ==
  ASSUME SessionInv, serving # Nobody, EndUpload
  PROVE  SessionInv'
<1>1. /\ serving \in Open /\ Closes(serving)
      /\ serving' = Nobody /\ sender' = "sending"
      /\ pending' = pending /\ asks' = asks /\ ready' = ready
  BY DEF SessionInv, EndUpload
<1>2. /\ sess' \in Seq(Clients) /\ Len(sess') <= MaxSockets
      /\ Open' \subseteq Open /\ Open \ {serving} \subseteq Open'
  BY <1>1, ClosesOpen
<1>3. Waiting' = Waiting /\ Distinct(pending)'
  BY <1>1 DEF Waiting, Distinct, SessionInv
<1> QED BY <1>1, <1>2, <1>3, OpenClients DEF SessionInv

\* A restart closes everything.
LEMMA SessionBoot == ASSUME Boot PROVE SessionInv'
<1>1. <<>> \in Seq(Clients) /\ Len(<<>>) = 0 /\ MaxSockets \in Nat
  BY EmptySeq, HttpAssumption
<1>2. /\ sess' = <<>> /\ pending' = <<>> /\ asks' = {} /\ ready' = {}
      /\ serving' = Nobody /\ sender' = "sending"
  BY DEF Boot
<1>3. Open' = {} /\ Waiting' = {} /\ Distinct(pending)'
  BY <1>2, <1>1 DEF Open, Waiting, Distinct
<1> QED BY <1>1, <1>2, <1>3 DEF SessionInv

\* A round that accepts: the newcomer was not among the sessions, and those
\* that stay were open.
LEMMA SessionRound ==
  ASSUME SessionInv, Round
  PROVE  SessionInv'
<1>1. /\ serving = Nobody /\ ready' = asks' /\ serving' = serving /\ sender' = sender
      /\ AcceptOldest \/ UNCHANGED <<pending, sess, asks>>
  BY DEF Round
<1>2. CASE UNCHANGED <<pending, sess, asks>>
  <2>1. Open' = Open /\ Waiting' = Waiting /\ Distinct(pending)'
    BY <1>2 DEF Open, Waiting, Distinct, SessionInv
  <2> QED BY <1>1, <1>2, <2>1 DEF SessionInv
<1>3. CASE AcceptOldest
  <2> DEFINE kept == Kept
             c == Head(pending)
  <2>1. /\ pending # <<>> /\ sess' = Append(kept, c) /\ pending' = Tail(pending)
        /\ asks' = asks \cap Elements(kept)
    BY <1>3 DEF AcceptOldest, Elements
  <2>2. sess \in Seq(Clients) /\ Len(sess) \in Nat /\ Len(sess) <= MaxSockets
    BY LenProperties DEF SessionInv
  <2>3. MaxSockets \in Nat \ {0}
    BY HttpAssumption
  <2>4. kept \in Seq(Clients) /\ Len(kept) < MaxSockets /\ Elements(kept) \subseteq Elements(sess)
    <3>1. CASE Len(sess) < MaxSockets
      BY <2>2, <3>1 DEF Kept
    <3>2. CASE ~(Len(sess) < MaxSockets)
      <4>1. sess # <<>>
        BY <2>2, <2>3, <3>2
      <4>2. kept = Tail(sess)
        BY <3>2 DEF Kept
      <4> QED BY <2>2, <2>3, <4>1, <4>2, TailElements
    <3> QED BY <3>1, <3>2
  <2>5. /\ pending' \in Seq(Clients) /\ c \in Clients
        /\ Elements(pending) = Elements(pending') \cup {c}
        /\ Distinct(pending') /\ c \notin Elements(pending')
    <3>1. pending \in Seq(Clients) /\ Distinct(pending)
      BY DEF SessionInv
    <3> HIDE DEF c
    <3> QED BY <2>1, <3>1, TailElements DEF c
  <2> HIDE DEF kept, c
  <2>6. /\ sess' \in Seq(Clients) /\ Len(sess') = Len(kept) + 1
        /\ Elements(sess') = Elements(kept) \cup {c}
    BY <2>1, <2>4, <2>5, AppendElements
  <2>7. Len(sess') <= MaxSockets
    <3>1. Len(kept) \in Nat
      BY <2>4, LenProperties
    <3> QED BY <2>3, <2>4, <2>6, <3>1
  <2>8. /\ Open = Elements(sess) /\ Open' = Elements(sess')
        /\ Waiting = Elements(pending) /\ Waiting' = Elements(pending')
    BY DEF Open, Waiting, Elements
  <2>9. Waiting \cap Open = {}
    BY DEF SessionInv
  <2>10. Waiting' \cap Open' = {} /\ asks' \subseteq Open'
    BY <2>1, <2>4, <2>5, <2>6, <2>8, <2>9
  <2>11. Distinct(pending)'
    BY <2>5 DEF Distinct
  <2>12. Nobody \notin asks'
    BY <2>1, OpenClients
  <2> QED BY <1>1, <2>5, <2>6, <2>7, <2>10, <2>11, <2>12 DEF SessionInv
<1> QED BY <1>1, <1>2, <1>3
\* Every step keeps SessionInv.
LEMMA SessionStep ==
  ASSUME SessionInv, [Next]_vars
  PROVE  SessionInv'
<1>1. ASSUME UNCHANGED <<pending, sess>>, asks' \subseteq Open, ready' \subseteq asks',
             serving' \in Open \cup {Nobody}, serving' \notin asks',
             sender' \in {"sending", "silent", "gone"}
      PROVE  SessionInv'
  <2>1. Open' = Open /\ Waiting' = Waiting /\ Distinct(pending)'
    BY <1>1 DEF Open, Waiting, Distinct, SessionInv
  <2> QED BY <1>1, <2>1 DEF SessionInv
<1>2. CASE Round
  BY <1>2, SessionRound
<1>3. ASSUME NEW c \in Clients, Handler(c) PROVE SessionInv'
  <2>1. CASE Get(c)
    BY <2>1, SessionServed DEF Get
  <2>2. CASE scan_get(c)
    BY <2>2, SessionServed DEF scan_get
  <2>3. CASE wifi_post(c)
    BY <2>3, SessionServed DEF wifi_post, PostForm, PostFails
  <2>4. CASE Upload(c)
    <3>1. /\ UNCHANGED <<pending, sess>> /\ ready' = ready \ {c} /\ asks' = asks \ {c}
          /\ serving' = c /\ sender' = "sending" /\ c \in ready
      BY <2>4 DEF Upload, Serve
    <3> QED BY <1>1, <3>1 DEF SessionInv
  <2>5. CASE Hangup(c)
    BY <2>5, SessionServed DEF Hangup
  <2> QED BY <1>3, <2>1, <2>2, <2>3, <2>4, <2>5 DEF Handler
<1>4. CASE UploadAborted \/ UploadRefused
  BY <1>4, SessionEndUpload DEF UploadAborted, UploadRefused
<1>5. CASE UploadAccepted \/ Boot
  BY <1>5, SessionBoot DEF UploadAccepted
<1>6. ASSUME NEW c \in Clients, Connect(c) PROVE SessionInv'
  <2>1. /\ c \notin Open /\ c \notin Waiting /\ pending' = Append(pending, c)
        /\ UNCHANGED <<sess, asks, ready, serving, sender>>
    BY <1>6 DEF Connect
  <2>2. pending \in Seq(Clients) /\ Distinct(pending) /\ c \notin Elements(pending)
    BY <2>1 DEF SessionInv, Waiting, Elements
  <2>3. /\ pending' \in Seq(Clients) /\ Distinct(pending')
        /\ Elements(pending') = Elements(pending) \cup {c}
    BY <2>1, <2>2, AppendElements
  <2>4. Open' = Open /\ Waiting' = Waiting \cup {c} /\ Distinct(pending)'
    <3>1. Waiting = Elements(pending) /\ Waiting' = Elements(pending')
      BY DEF Waiting, Elements
    <3> QED BY <2>1, <2>3, <3>1 DEF Open, Distinct
  <2> QED BY <2>1, <2>3, <2>4 DEF SessionInv
<1>7. ASSUME NEW c \in Clients, Ask(c) PROVE SessionInv'
  BY <1>1, <1>7 DEF Ask, SessionInv
<1>8. CASE Stall \/ Resume \/ BreakOff
  BY <1>1, <1>8 DEF Stall, Resume, BreakOff, SessionInv
<1>9. CASE UNCHANGED vars
  BY <1>1, <1>9 DEF vars, netVars, SessionInv
<1> QED BY <1>2, <1>3, <1>4, <1>5, <1>6, <1>7, <1>8, <1>9 DEF Next, HttpTask

-----------------------------------------------------------------------------
(* Credentials *)

\* What is configured is strings that fit, and the same live and at boot.
LEMMA DriverStringsFit ==
  ASSUME NEW c \in Creds
  PROVE  /\ AtBoot(c) \in Creds /\ Applied(c) = AtBoot(c)
         /\ Len(AtBoot(c).ssid) < DRV_SSID /\ Len(AtBoot(c).pass) < DRV_PASS
         /\ strlcpy(c.ssid, SHOWN_SSID) \in Seq(Byte)
         /\ Len(strlcpy(c.ssid, SHOWN_SSID)) < SHOWN_SSID
<1>1. c.ssid \in Seq(Byte) /\ c.pass \in Seq(Byte)
  BY DEF Creds
<1>2. {DRV_SSID, DRV_PASS, SHOWN_SSID} \subseteq Nat \ {0}
  BY FormAssumption
<1> DEFINE u == strlcpy(c.ssid, DRV_SSID)
           v == strlcpy(c.pass, DRV_PASS)
           w == strlcpy(c.ssid, SHOWN_SSID)
<1>3. u \in Seq(Byte) /\ Len(u) < DRV_SSID
  BY <1>1, <1>2, Copied
<1>4. v \in Seq(Byte) /\ Len(v) < DRV_PASS
  BY <1>1, <1>2, Copied
<1>5. w \in Seq(Byte) /\ Len(w) < SHOWN_SSID
  BY <1>1, <1>2, Copied
<1>6. Applied(c) = AtBoot(c) /\ AtBoot(c) = [ssid |-> u, pass |-> v]
  BY DEF Applied, AtBoot
<1> HIDE DEF u, v
<1> QED BY <1>3, <1>4, <1>5, <1>6 DEF Creds

\* Nothing stored fits everywhere, and is not loaded.
LEMMA NothingFits ==
  /\ Nothing \in Creds /\ Nothing.ssid = <<>> /\ Nothing.pass = <<>> /\ ~Loads(Nothing)
  /\ <<>> \in Seq(Byte) /\ Len(<<>>) = 0
  /\ {SSID_FIELD, PASS_FIELD, DRV_SSID, DRV_PASS, SHOWN_SSID} \subseteq Nat \ {0}
<1>1. <<>> \in Seq(Byte) /\ Len(<<>>) = 0
  BY EmptySeq
<1>2. {SSID_FIELD, PASS_FIELD, DRV_SSID, DRV_PASS, SHOWN_SSID} \subseteq Nat \ {0}
  BY FormAssumption
<1> QED BY <1>1, <1>2 DEF Nothing, Creds, Loads

\* At first nothing is stored, configured or shown.
LEMMA CredsInit == Init => CredsInv
<1> SUFFICES ASSUME Init PROVE CredsInv
  OBVIOUS
<1>1. nvs = Nothing /\ cfg = Nothing /\ s_sta_ssid = <<>> /\ typed = Nothing /\ whole = TRUE
  BY DEF Init
<1> QED BY <1>1, NothingFits DEF CredsInv, FormTakenAsTyped

\* What a form leaves stored.
Stored(creds) == IF creds.ssid # <<>> THEN creds ELSE Nothing

\* The credentials of a form fit; and if all of it was received and its fields
\* fit, what is stored is what was typed.
LEMMA PostRead ==
  ASSUME NEW post \in Joins \cup Forgets
  PROVE  /\ post.creds \in Creds /\ post.whole \in BOOLEAN
         /\ Len(post.creds.ssid) < SSID_FIELD /\ Len(post.creds.pass) < PASS_FIELD
         /\ /\ post.whole
            /\ Len(encodeURIComponent(post.typed.ssid)) < SSID_FIELD
            /\ Len(encodeURIComponent(post.typed.pass)) < PASS_FIELD
            => Stored(post.creds) = post.typed
<1>1. ASSUME NEW f, NEW body \in Seq(Byte), post \in Posted(f, body),
             /\ Len(encodeURIComponent(f.ssid)) < SSID_FIELD
             /\ Len(encodeURIComponent(f.pass)) < PASS_FIELD
             => Stored(Fields(body)) = f
      PROVE  /\ post.creds \in Creds /\ post.whole \in BOOLEAN
             /\ Len(post.creds.ssid) < SSID_FIELD /\ Len(post.creds.pass) < PASS_FIELD
             /\ /\ post.whole
                /\ Len(encodeURIComponent(post.typed.ssid)) < SSID_FIELD
                /\ Len(encodeURIComponent(post.typed.pass)) < PASS_FIELD
                => Stored(post.creds) = post.typed
  <2>1. PICK got \in 1..Asked(body) :
          post = [typed |-> f, whole |-> got = Len(body),
                  creds |-> Fields(SubSeq(body, 1, got))]
    BY <1>1 DEF Posted
  <2> DEFINE part == SubSeq(body, 1, got)
  <2>2. part \in Seq(Byte) /\ (got = Len(body) => part = body)
    BY ReceivedPart
  <2> HIDE DEF part
  <2>3. post.typed = f /\ post.whole = (got = Len(body)) /\ post.creds = Fields(part)
    BY <2>1 DEF part
  <2>4. /\ Fields(part) \in Creds
        /\ Len(Fields(part).ssid) < SSID_FIELD /\ Len(Fields(part).pass) < PASS_FIELD
    BY <2>2, FieldsFit DEF Creds
  <2>5. post.whole => Stored(post.creds) = Stored(Fields(body))
    BY <2>2, <2>3
  <2>6. post.whole \in BOOLEAN
    BY <2>3
  <2> QED BY <1>1, <2>3, <2>4, <2>5, <2>6
<1>2. CASE post \in Joins
  <2>1. PICK f \in Forms : post \in Posted(f, FormBody(f.ssid, f.pass))
    BY <1>2 DEF Joins
  <2>2. f \in [ssid : Seq(Char), pass : Seq(Char)] /\ f.ssid # <<>>
    BY HttpAssumption
  <2>3. FormBody(f.ssid, f.pass) \in Seq(Byte)
    BY <2>2, FormBytes
  <2>4. /\ Len(encodeURIComponent(f.ssid)) < SSID_FIELD
        /\ Len(encodeURIComponent(f.pass)) < PASS_FIELD
        => Stored(Fields(FormBody(f.ssid, f.pass))) = f
    BY <2>2, FormRead DEF Stored
  <2> QED BY <1>1, <2>1, <2>3, <2>4
<1>3. CASE post \in Forgets
  <2>1. post \in Posted(Nothing, ForgetBody)
    BY <1>3 DEF Forgets
  <2>2. ForgetBody \in Seq(Byte) /\ Stored(Fields(ForgetBody)) = Nothing
    BY ForgetRead DEF Stored
  <2> QED BY <1>1, <2>1, <2>2
<1> QED BY <1>2, <1>3

\* A form leaves what is stored, configured and shown in agreement.
LEMMA CredsPost ==
  ASSUME CredsInv, NEW post \in Joins \cup Forgets, wifi_set_station(post.creds),
         typed' = post.typed, whole' = post.whole
  PROVE  CredsInv'
<1> DEFINE creds == post.creds
<1>1. /\ creds \in Creds /\ Len(creds.ssid) < SSID_FIELD /\ Len(creds.pass) < PASS_FIELD
      /\ whole' \in BOOLEAN
  BY PostRead
<1>2. nvs' = Stored(creds)
  BY DEF wifi_set_station, Stored
<1>3. FormTakenAsTyped'
  BY <1>2, PostRead DEF FormTakenAsTyped
<1> HIDE DEF creds
<1>4. wifi_set_station(creds)
  BY DEF creds
<1>5. CASE creds.ssid # <<>>
  <2>1. nvs' = creds /\ cfg' = Applied(creds) /\ s_sta_ssid' = strlcpy(creds.ssid, SHOWN_SSID)
    BY <1>4, <1>5 DEF wifi_set_station
  <2> QED BY <1>1, <1>3, <2>1, DriverStringsFit DEF CredsInv
<1>6. CASE creds.ssid = <<>>
  <2>1. nvs' = Nothing /\ cfg' = cfg /\ s_sta_ssid' = <<>>
    BY <1>4, <1>6 DEF wifi_set_station
  <2> QED BY <1>1, <1>3, <2>1, NothingFits DEF CredsInv
<1> QED BY <1>5, <1>6

\* So does a restart.
LEMMA CredsBoot ==
  ASSUME CredsInv, Boot
  PROVE  CredsInv'
<1>1. nvs' = nvs /\ typed' = typed /\ whole' = whole
  BY DEF Boot, formVars
<1>2. FormTakenAsTyped'
  BY <1>1 DEF CredsInv, FormTakenAsTyped
<1>3. CASE Loads(nvs)
  <2>1. cfg' = AtBoot(nvs) /\ s_sta_ssid' = strlcpy(nvs.ssid, SHOWN_SSID)
    BY <1>3 DEF Boot
  <2> QED BY <1>1, <1>2, <2>1, DriverStringsFit DEF CredsInv
<1>4. CASE ~Loads(nvs)
  <2>1. cfg' = Nothing /\ s_sta_ssid' = <<>>
    BY <1>4 DEF Boot
  <2> QED BY <1>1, <1>2, <1>4, <2>1, NothingFits DEF CredsInv
<1> QED BY <1>3, <1>4

\* Every step keeps CredsInv; only a form and a restart touch it.
LEMMA CredsStep ==
  ASSUME CredsInv, [Next]_vars
  PROVE  CredsInv'
<1>1. CASE UNCHANGED <<staVars, formVars>>
  BY <1>1 DEF CredsInv, FormTakenAsTyped, staVars, formVars
<1>2. CASE Boot
  BY <1>2, CredsBoot
<1>3. ASSUME NEW c \in Clients, PostForm(c) PROVE CredsInv'
  BY <1>3, CredsPost DEF PostForm
<1>4. \/ UNCHANGED <<staVars, formVars>>
      \/ Boot
      \/ \E c \in Clients : PostForm(c)
  BY DEF Next, HttpTask, Handler, Round, Get, scan_get, wifi_post, PostFails, Upload, Hangup,
         UploadAborted, UploadRefused, UploadAccepted, EndUpload, Connect, Ask, Stall,
         Resume, BreakOff, vars
<1> QED BY <1>1, <1>2, <1>3, <1>4
-----------------------------------------------------------------------------
(* The scan *)

\* A scan that hears nothing, or is not the last request, lists nothing.
LEMMA ScanNothing ==
  /\ EachOnce(<<>>, <<>>)
  /\ wifi_scan(<<>>, MAX_SCAN_APS) = <<>>
<1>1. <<>> \in Seq(Record) /\ Len(<<>>) = 0
  BY EmptySeq
<1>2. wifi_scan(<<>>, MAX_SCAN_APS) = <<>>
  BY <1>1, ScanDefined
<1> QED BY <1>1, <1>2 DEF EachOnce

\* What is answered to any scan.
LEMMA ScanAnswered ==
  ASSUME NEW recs \in Heard \cup {<<>>},
         scan' = [heard |-> recs, list |-> wifi_scan(recs, MAX_SCAN_APS)]
  PROVE  ScanInv'
<1>1. EachOnce(recs, wifi_scan(recs, MAX_SCAN_APS))
  <2>1. CASE recs = <<>>
    BY <2>1, ScanNothing
  <2>2. CASE recs \in Heard
    <3>1. recs \in Seq(Record) /\ Sorted(recs)
      BY <2>2, HttpAssumption DEF Record, Sorted
    <3> QED BY <3>1, ScanEachOnce
  <2> QED BY <2>1, <2>2
<1>2. scan'.heard = recs /\ scan'.list = wifi_scan(recs, MAX_SCAN_APS)
  OBVIOUS
<1>3. EachOnce(scan'.heard, scan'.list)
  BY <1>1, <1>2
<1>4. ScanListsEachOnce'
  BY <1>3 DEF ScanListsEachOnce, EachOnce
<1> QED BY <1>2, <1>4 DEF ScanInv

\* No scan was the last request.
LEMMA ScanForgotten == ASSUME scan' = NoScan PROVE ScanInv'
<1>1. scan' = [heard |-> <<>>, list |-> wifi_scan(<<>>, MAX_SCAN_APS)]
  BY ScanNothing DEF NoScan
<1> QED BY <1>1, ScanAnswered

\* Before the first request there is none.
LEMMA ScanInit == Init => ScanInv
<1> SUFFICES ASSUME Init PROVE ScanInv
  OBVIOUS
<1>1. scan.heard = <<>> /\ scan.list = <<>>
  BY DEF Init, NoScan
<1>2. EachOnce(scan.heard, scan.list)
  BY <1>1, ScanNothing
<1> QED BY <1>1, <1>2 DEF ScanInv, ScanListsEachOnce, EachOnce

\* Every step keeps ScanInv.
LEMMA ScanStep ==
  ASSUME ScanInv, [Next]_vars
  PROVE  ScanInv'
<1>1. CASE scan' = scan
  BY <1>1 DEF ScanInv, ScanListsEachOnce
<1>2. CASE scan' = NoScan
  BY <1>2, ScanForgotten
<1>3. ASSUME NEW c \in Clients, scan_get(c) PROVE ScanInv'
  BY <1>3, ScanAnswered DEF scan_get
<1>4. scan' = scan \/ scan' = NoScan \/ \E c \in Clients : scan_get(c)
  BY DEF Next, HttpTask, Handler, Round, Get, wifi_post, PostForm, PostFails, Upload,
         Hangup, UploadAborted, UploadRefused, UploadAccepted, EndUpload, Boot,
         Connect, Ask, Stall, Resume, BreakOff, vars
<1> QED BY <1>1, <1>2, <1>3, <1>4

-----------------------------------------------------------------------------
(* Theorems *)

HInv == SessionInv /\ CredsInv /\ ScanInv

\* HInv holds at first, and every step keeps it.
LEMMA Invariance == Spec => []HInv
<1>1. Init => HInv
  BY SessionInit, CredsInit, ScanInit DEF HInv
<1>2. HInv /\ [Next]_vars => HInv'
  BY SessionStep, CredsStep, ScanStep DEF HInv
<1> QED BY <1>1, <1>2, PTL DEF Spec

\* Sessions and connections are those of different clients, within the sockets
\* there are; only an open session has a request; and every string fits the
\* buffer or the field it is in.
THEOREM TypeCorrect == Spec => []TypeOK
<1>1. HInv => TypeOK
  BY OpenClients DEF HInv, SessionInv, CredsInv, ScanInv, TypeOK
<1> QED BY <1>1, Invariance, PTL

\* wifi_post stores a form that was received as a whole, and whose fields fit
\* once encoded, exactly as it was typed, whatever its characters: url_decode
\* undoes the page's encoding, and no part of one field is taken for the other.
THEOREM FormStoredAsTyped == Spec => []FormTakenAsTyped
<1>1. HInv => FormTakenAsTyped
  BY DEF HInv, CredsInv
<1> QED BY <1>1, Invariance, PTL

\* Every name and password the driver can hold, once stored, is loaded by the
\* next boot, and the driver and the shown name are already as that boot sets
\* them.
THEOREM BootKeeps == Spec => []BootKeepsNetwork
<1>1. HInv => BootKeepsNetwork
  <2> SUFFICES ASSUME CredsInv, Possible(nvs)
               PROVE  Loads(nvs) /\ cfg = AtBoot(nvs) /\ s_sta_ssid = nvs.ssid
    BY DEF HInv, BootKeepsNetwork
  <2>1. /\ nvs.ssid # <<>> /\ Len(nvs.ssid) <= DRV_SSID /\ Len(nvs.pass) <= DRV_PASS
        /\ nvs.ssid \in Seq(Byte) /\ nvs.pass \in Seq(Byte)
    BY DEF Possible, CredsInv, Creds
  <2>2. /\ DRV_SSID < SHOWN_SSID /\ DRV_PASS < LOAD_PASS /\ SHOWN_SSID \in Nat \ {0}
        /\ {DRV_SSID, DRV_PASS, LOAD_PASS} \subseteq Nat
    BY FormAssumption
  <2>3. Len(nvs.ssid) \in Nat /\ Len(nvs.pass) \in Nat
    BY <2>1, LenProperties
  <2>4. Loads(nvs) /\ Len(nvs.ssid) < SHOWN_SSID
    BY <2>1, <2>2, <2>3 DEF Loads
  <2>5. strlcpy(nvs.ssid, SHOWN_SSID) = nvs.ssid
    BY <2>1, <2>2, <2>4, Copied
  <2> QED BY <2>4, <2>5 DEF CredsInv
<1> QED BY <1>1, Invariance, PTL

\* The name in the answer to /status reads, as JSON, as the one that is shown:
\* no name that fits s_sta_ssid fills the buffer of its escaped form.
THEOREM StatusNames == Spec => []StatusNamesNetwork
<1>1. HInv => StatusNamesNetwork
  BY ReadEscape DEF HInv, CredsInv, StatusNamesNetwork
<1> QED BY <1>1, Invariance, PTL

\* The list in the answer to /scan names each network once, with the strongest
\* record of it, strongest first, and leaves one out only when it is full.
THEOREM ScanLists == Spec => []ScanListsEachOnce
<1>1. HInv => ScanListsEachOnce
  BY DEF HInv, ScanInv
<1> QED BY <1>1, Invariance, PTL
=============================================================================
