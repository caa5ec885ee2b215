----------------------- MODULE ApplicationLifecycle_proofs -----------------------
(***************************************************************************)
(* What the bridge promises whoever calls it, what the lifecycle promises, *)
(* and what the bridge promises under it, for any number of attempts,      *)
(* runtimes and events and any limits of the queue.                        *)
(*                                                                         *)
(* Of RuntimeBridge alone: the types, the two counters of the event queue, *)
(* and the account fence.  The counters are a sum and a cardinality over   *)
(* the posted calls, so most of the work is about sums that lose their     *)
(* first term and sequences that are delivered one by one.                 *)
(*                                                                         *)
(* Of both together, three invariants that build on one another: the control *)
(* of the bridge, which is inductive only because the lifecycle starts a   *)
(* runtime when every earlier one is over; the mode of the lifecycle, which *)
(* says just that; and the order and completeness of the events on their   *)
(* way, which need both.                                                   *)
(***************************************************************************)
EXTENDS ApplicationLifecycle, WellFoundedInduction, FiniteSetTheorems, TLAPS

-----------------------------------------------------------------------------
(* Folds.  FoldLeft is defined by recursion on sets of indices.  Its value  *)
(* is tabulated over the initial segments 1 .. k, and what is to be shown   *)
(* of it goes along the table by induction on k.                            *)

\* A set of naturals that is not empty has a least element.
LEMMA Least ==
  ASSUME NEW T \in SUBSET Nat, T # {}
  PROVE  \E x \in T : \A y \in T : x <= y
<1>1. IsWellFoundedOn(OpToRel(<, Nat), Nat)
  BY NatLessThanWellFounded
<1>2. PICK x \in T : \A y \in T : ~(<<y, x>> \in OpToRel(<, Nat))
  BY <1>1, WFMin
<1>3. \A y \in T : ~(y < x)
  BY <1>2 DEF OpToRel
<1> QED
  BY <1>3

\* Induction over the naturals, for a set: the theorems of the library take an operator.
LEMMA Induct ==
  ASSUME NEW S \in SUBSET Nat, 0 \in S, \A n \in S : n + 1 \in S
  PROVE  S = Nat
<1> SUFFICES ASSUME Nat \ S # {} PROVE FALSE
  OBVIOUS
<1>1. PICK x \in Nat \ S : \A y \in Nat \ S : x <= y
  BY Least
<1>2. x - 1 \in Nat /\ x - 1 \in S
  BY <1>1
<1> QED
  BY <1>1, <1>2

\* The greatest index of a set that contains the last one.
LEMMA TopIsMax ==
  ASSUME NEW k \in Nat, NEW s \in SUBSET (1 .. k + 1), k + 1 \in s
  PROVE  Max(s) = k + 1
<1>1. \A y \in s : k + 1 >= y
  OBVIOUS
<1>2. /\ Max(s) \in s
      /\ \A y \in s : Max(s) >= y
  BY <1>1 DEF Max
<1>3. \A x \in s : x \in Nat /\ x <= k + 1
  OBVIOUS
<1>4. Max(s) \in Nat /\ Max(s) <= k + 1 /\ Max(s) >= k + 1
  BY <1>2, <1>3
<1> HIDE DEF Max
<1> QED
  BY <1>4

\* The greatest index of a set of indices is one of them.
LEMMA MaxIn ==
  ASSUME NEW n \in Nat, NEW s \in SUBSET (1 .. n), s # {}
  PROVE  Max(s) \in s
<1> DEFINE T == {m \in Nat : \A y \in s : y <= m}
<1>1. PICK m \in T : \A x \in T : m <= x
  <2>1. n \in T /\ T \in SUBSET Nat
    OBVIOUS
  <2> HIDE DEF T
  <2> QED
    BY <2>1, Least
<1>2. m \in s
  <2>1. CASE m = 0
    <3>1. PICK y \in s : TRUE
      OBVIOUS
    <3>2. y <= 0 /\ y \in Nat /\ y >= 1
      BY <1>1, <2>1
    <3> QED
      BY <3>2
  <2>2. CASE m # 0
    <3>1. m - 1 \in Nat /\ ~(m <= m - 1)
      BY <2>2, <1>1
    <3>2. PICK y \in s : ~(y <= m - 1)
      BY <1>1, <3>1
    <3>3. y <= m /\ y \in Nat
      BY <1>1
    <3> QED
      BY <1>1, <3>1, <3>2, <3>3
  <2> QED
    BY <2>1, <2>2
<1>3. \A y \in s : m >= y
  BY <1>1
<1> QED
  BY <1>2, <1>3 DEF Max

\* f tabulates the fold of q, from base by step, over every set of indices of q.
IsTable(f, n, base, step, q) ==
  f = [s \in SUBSET (1 .. n) |-> IF s = {} THEN base
                                 ELSE step[<<f[s \ {Max(s)}], q[Max(s)]>>]]

\* Such a table exists, so the CHOOSE in the definition of the fold has a witness.
LEMMA Table ==
  ASSUME NEW n \in Nat, NEW D, NEW E, NEW base \in D, NEW step \in [D \X E -> D],
         NEW q \in [1 .. n -> E]
  PROVE  \E f : f \in [SUBSET (1 .. n) -> D] /\ IsTable(f, n, base, step, q)
<1> DEFINE Good(k) == {f \in [SUBSET (1 .. k) -> D] :
                         \A s \in SUBSET (1 .. k) :
                           f[s] = IF s = {} THEN base
                                  ELSE step[<<f[s \ {Max(s)}], q[Max(s)]>>]}
           S == {k \in Nat : k <= n => Good(k) # {}}
<1> HIDE DEF Good
<1>1. 0 \in S
  <2> DEFINE f0 == [s \in SUBSET (1 .. 0) |-> base]
  <2>1. f0 \in Good(0)
    BY DEF Good
  <2> HIDE DEF f0
  <2> QED
    BY <2>1
<1>2. ASSUME NEW k \in S PROVE k + 1 \in S
  <2> SUFFICES ASSUME k + 1 <= n
               PROVE  Good(k + 1) # {}
    OBVIOUS
  <2>1. k \in Nat /\ k <= n /\ Good(k) # {}
    OBVIOUS
  <2>2. PICK f : f \in Good(k)
    BY <2>1
  <2>3. f \in [SUBSET (1 .. k) -> D]
    BY <2>2 DEF Good
  <2> DEFINE g == [s \in SUBSET (1 .. k + 1) |->
                     IF k + 1 \in s THEN step[<<f[s \ {k + 1}], q[k + 1]>>] ELSE f[s]]
  <2>4. ASSUME NEW s \in SUBSET (1 .. k + 1) PROVE s \ {k + 1} \in SUBSET (1 .. k)
    OBVIOUS
  <2>5. g \in [SUBSET (1 .. k + 1) -> D]
    <3>1. ASSUME NEW s \in SUBSET (1 .. k + 1) PROVE g[s] \in D
      <4>1. CASE k + 1 \in s
        <5>1. f[s \ {k + 1}] \in D /\ q[k + 1] \in E
          BY <2>1, <2>4, <2>3
        <5> QED
          BY <4>1, <5>1
      <4>2. CASE k + 1 \notin s
        <5>1. s \in SUBSET (1 .. k)
          BY <2>4, <4>2
        <5> QED
          BY <2>3, <4>2, <5>1
      <4> QED
        BY <4>1, <4>2
    <3> QED
      BY <3>1
  <2>6. ASSUME NEW s \in SUBSET (1 .. k + 1)
        PROVE  g[s] = IF s = {} THEN base ELSE step[<<g[s \ {Max(s)}], q[Max(s)]>>]
    <3>1. CASE k + 1 \in s
      <4>1. Max(s) = k + 1
        BY <3>1, TopIsMax
      <4>2. s \ {k + 1} \in SUBSET (1 .. k) /\ s \ {k + 1} \in SUBSET (1 .. k + 1)
        BY <2>4
      <4>3. g[s \ {k + 1}] = f[s \ {k + 1}]
        BY <4>2
      <4>4. g[s] = step[<<f[s \ {k + 1}], q[k + 1]>>]
        BY <3>1
      <4> HIDE DEF g
      <4> QED
        BY <3>1, <4>1, <4>3, <4>4
    <3>2. CASE k + 1 \notin s
      <4>1. s \in SUBSET (1 .. k)
        BY <2>4, <3>2
      <4>2. \A t \in SUBSET s : g[t] = f[t]
        BY <3>2, <4>1
      <4>3. s \ {Max(s)} \in SUBSET s /\ s \in SUBSET s
        OBVIOUS
      <4>4. f[s] = IF s = {} THEN base ELSE step[<<f[s \ {Max(s)}], q[Max(s)]>>]
        BY <2>2, <4>1 DEF Good
      <4>5. g[s] = f[s] /\ g[s \ {Max(s)}] = f[s \ {Max(s)}]
        BY <4>2, <4>3
      <4> HIDE DEF g
      <4> QED
        BY <4>4, <4>5
    <3> QED
      BY <3>1, <3>2
  <2> HIDE DEF g
  <2> QED
    BY <2>5, <2>6 DEF Good
<1>3. S = Nat
  <2>1. S \in SUBSET Nat
    OBVIOUS
  <2> HIDE DEF S
  <2> QED
    BY <1>1, <1>2, <2>1, Induct
<1>4. n \in S
  BY <1>3
<1>5. Good(n) # {}
  BY <1>4
<1>6. PICK f : f \in Good(n)
  BY <1>5
<1>7. f \in [SUBSET (1 .. n) -> D]
  BY <1>6 DEF Good
<1>8. f = [s \in SUBSET (1 .. n) |-> IF s = {} THEN base
                                     ELSE step[<<f[s \ {Max(s)}], q[Max(s)]>>]]
  BY <1>6, <1>7 DEF Good
<1> HIDE DEF Good, S
<1> QED
  BY <1>8, <1>7 DEF IsTable

\* The initial segments of 1 .. n, on which the fold goes forward one index at a time.
LEMMA Initials ==
  ASSUME NEW n \in Nat
  PROVE  /\ 1 .. 0 = {} /\ {} \in SUBSET (1 .. n)
         /\ \A k \in 1 .. n : /\ 1 .. k \in SUBSET (1 .. n) /\ 1 .. k # {}
                             /\ Max(1 .. k) = k
                             /\ (1 .. k) \ {k} = 1 .. k - 1
<1>1. ASSUME NEW k \in 1 .. n
      PROVE  1 .. k \in SUBSET (1 .. n) /\ 1 .. k # {} /\ (1 .. k) \ {k} = 1 .. k - 1
  OBVIOUS
<1>2. ASSUME NEW k \in 1 .. n PROVE Max(1 .. k) = k
  <2>1. PICK j \in Nat : k = j + 1
    <3>1. k - 1 \in Nat /\ k = (k - 1) + 1
      OBVIOUS
    <3> QED
      BY <3>1
  <2> QED
    BY <2>1, TopIsMax
<1> QED
  BY <1>1, <1>2

\* What holds at 0 and is handed from k - 1 to k holds all along a table.
LEMMA Along ==
  ASSUME NEW n \in Nat, NEW D, NEW h, h[0] \in D,
         \A k \in 1 .. n : h[k - 1] \in D => h[k] \in D
  PROVE  \A k \in 0 .. n : h[k] \in D
<1> DEFINE S == {k \in Nat : k <= n => h[k] \in D}
<1>1. 0 \in S
  OBVIOUS
<1>2. ASSUME NEW k \in S PROVE k + 1 \in S
  <2> SUFFICES ASSUME k + 1 <= n PROVE h[k + 1] \in D
    OBVIOUS
  <2>1. h[k] \in D /\ k + 1 \in 1 .. n /\ (k + 1) - 1 = k
    OBVIOUS
  <2> QED
    BY <2>1
<1>3. S = Nat
  <2>1. S \in SUBSET Nat
    OBVIOUS
  <2> HIDE DEF S
  <2> QED
    BY <1>1, <1>2, <2>1, Induct
<1>4. ASSUME NEW k \in 0 .. n PROVE h[k] \in D
  <2>1. k \in S
    BY <1>3
  <2> QED
    BY <2>1
<1> QED
  BY <1>4

\* The calls posted to the GUI thread, what one weighs in m_queuedBytes, and what a
\* loop of them weighs.
Calls == QueuedCall \cup StopCall \cup StartCall
Weight(c) == IF c.call = "event" THEN c.event.size ELSE 0
Bytes(q) == FoldLeft(LAMBDA n, c : IF c.call = "event" THEN n + c.event.size ELSE n, 0, q)

\* A call weighs a natural number of bytes.
LEMMA WeightType == \A c \in Calls : Weight(c) \in Nat
  BY ConstantsAssumption DEF Calls, Weight, QueuedCall, StopCall, StartCall, Event

\* h grows by w, index after index.
Grows(h, n, w) == \A k \in 1 .. n : h[k] = h[k - 1] + w[k]

\* h[k] is the weight of the first k calls of q, and h[n] that of all of them.
Sums(h, q, n) ==
  /\ h \in [0 .. n -> Nat]
  /\ h[0] = 0
  /\ Bytes(q) = h[n]
  /\ \A k \in 1 .. n : h[k] = h[k - 1] + Weight(q[k])

\* The weight of a loop is the last entry of a table of partial sums.
LEMMA BytesTable ==
  ASSUME NEW q \in Seq(Calls)
  PROVE  \E h : Sums(h, q, Len(q))
<1> DEFINE n == Len(q)
           step == [x \in Nat \X Calls |-> x[1] + Weight(x[2])]
           Value(f, s) == IF q[Max(s)].call = "event"
                          THEN f[s \ {Max(s)}] + q[Max(s)].event.size
                          ELSE f[s \ {Max(s)}]
           Solves(f) == f = [s \in SUBSET (1 .. n) |-> IF s = {} THEN 0 ELSE Value(f, s)]
<1>1. n \in Nat /\ q \in [1 .. n -> Calls] /\ DOMAIN q = 1 .. n
  OBVIOUS
<1>2. step \in [Nat \X Calls -> Nat]
  BY WeightType
<1> HIDE DEF n
<1>3. \E f : Solves(f)
  <2>1. PICK f : f \in [SUBSET (1 .. n) -> Nat] /\ IsTable(f, n, 0, step, q)
    <3> HIDE DEF step, Value, Solves
    <3>1. 0 \in Nat
      OBVIOUS
    <3> QED
      BY <1>1, <1>2, <3>1, Table
  <2>2. ASSUME NEW s \in SUBSET (1 .. n), s # {}
        PROVE  step[<<f[s \ {Max(s)}], q[Max(s)]>>] = Value(f, s)
    <3>1. Max(s) \in s
      BY <2>2, <1>1, MaxIn
    <3>2. f[s \ {Max(s)}] \in Nat /\ q[Max(s)] \in Calls
      <4>1. s \ {Max(s)} \in SUBSET (1 .. n) /\ Max(s) \in 1 .. n
        BY <3>1
      <4> QED
        BY <1>1, <2>1, <4>1
    <3>3. q[Max(s)].call = "event" => q[Max(s)].event.size \in Nat
      BY <3>2, WeightType DEF Weight
    <3> QED
      BY <3>2, <3>3 DEF Weight
  <2>3. Solves(f)
    <3> HIDE DEF Value, step
    <3> QED
      BY <2>1, <2>2 DEF IsTable
  <2> QED
    BY <2>3
<1>4. PICK it : Solves(it) /\ Bytes(q) = it[1 .. n]
  <2> DEFINE c == CHOOSE f : Solves(f)
  <2>1. Solves(c)
    <3> HIDE DEF Solves
    <3> QED
      BY <1>3
  <2>2. Bytes(q) = c[1 .. n]
    BY <1>1 DEF Bytes, FoldLeft, MapThenFoldSet
  <2> HIDE DEF Solves, c
  <2> QED
    BY <2>1, <2>2
<1>5. PICK h : h = [k \in 0 .. n |-> it[1 .. k]]
  OBVIOUS
<1>6. it[1 .. 0] = 0
  BY <1>1, <1>4, Initials
<1>7. ASSUME NEW k \in 1 .. n
      PROVE  it[1 .. k] = IF q[k].call = "event" THEN it[1 .. k - 1] + q[k].event.size
                          ELSE it[1 .. k - 1]
  <2>1. it[1 .. k] = Value(it, 1 .. k)
    <3> HIDE DEF Value
    <3> QED
      BY <1>1, <1>4, Initials
  <2>2. Max(1 .. k) = k /\ (1 .. k) \ {k} = 1 .. k - 1
    BY <1>1, Initials
  <2> QED
    BY <2>1, <2>2
<1> HIDE DEF Solves
<1>8. ASSUME NEW k \in 1 .. n, h[k - 1] \in Nat
      PROVE  h[k] \in Nat /\ h[k] = h[k - 1] + Weight(q[k])
  <2>1. q[k] \in Calls /\ k - 1 \in 0 .. n /\ k \in 0 .. n
    BY <1>1
  <2>2. q[k].call = "event" => q[k].event.size \in Nat
    BY <2>1, WeightType DEF Weight
  <2> QED
    BY <1>5, <1>7, <1>8, <2>1, <2>2 DEF Weight
<1>9. h[0] = 0 /\ h[n] = it[1 .. n]
  BY <1>1, <1>5, <1>6
<1>10. \A k \in 0 .. n : h[k] \in Nat
  <2>1. \A k \in 1 .. n : h[k - 1] \in Nat => h[k] \in Nat
    BY <1>8
  <2>2. h[0] \in Nat
    BY <1>9
  <2> QED
    BY <1>1, <2>1, <2>2, Along
<1>11. h \in [0 .. n -> Nat]
  BY <1>5, <1>10
<1>12. \A k \in 1 .. n : h[k] = h[k - 1] + Weight(q[k])
  <2> TAKE k \in 1 .. n
  <2>1. k - 1 \in 0 .. n
    BY <1>1
  <2> QED
    BY <1>8, <1>10, <2>1
<1> QED
  BY <1>4, <1>9, <1>11, <1>12 DEF n, Sums

-----------------------------------------------------------------------------
(* The posted events, counted and weighed, as calls are posted and taken.   *)

\* Two tables that grow alike differ by what they differ by at 0.
LEMMA SameTable ==
  ASSUME NEW n \in Nat, NEW g \in [0 .. n -> Nat], NEW h \in [0 .. n -> Nat], NEW w,
         \A k \in 1 .. n : w[k] \in Nat, Grows(g, n, w), Grows(h, n, w)
  PROVE  g[n] = h[n] + (g[0] - h[0])
<1>1. PICK d : d = [k \in 0 .. n |-> g[k] - h[k]]
  OBVIOUS
<1>2. PICK D : D = {g[0] - h[0]}
  OBVIOUS
<1>3. d[0] \in D
  BY <1>1, <1>2
<1>4. ASSUME NEW k \in 1 .. n, d[k - 1] \in D PROVE d[k] \in D
  <2>1. k - 1 \in 0 .. n /\ k \in 0 .. n
    OBVIOUS
  <2>2. g[k] \in Nat /\ g[k - 1] \in Nat /\ h[k] \in Nat /\ h[k - 1] \in Nat /\ w[k] \in Nat
    BY <2>1
  <2>3. d[k] = g[k] - h[k] /\ d[k - 1] = g[k - 1] - h[k - 1]
    BY <1>1, <2>1
  <2>4. g[k] = g[k - 1] + w[k] /\ h[k] = h[k - 1] + w[k]
    BY DEF Grows
  <2>5. d[k] = d[k - 1]
    BY <2>2, <2>3, <2>4
  <2> QED
    BY <1>4, <2>5
<1>5. \A k \in 0 .. n : d[k] \in D
  BY <1>3, <1>4, Along
<1>6. d[n] = g[n] - h[n] /\ d[n] = g[0] - h[0]
  BY <1>1, <1>2, <1>5
<1>7. g[n] \in Nat /\ h[n] \in Nat /\ g[0] \in Nat /\ h[0] \in Nat
  OBVIOUS
<1> QED
  BY <1>6, <1>7

\* An empty loop weighs nothing.
LEMMA BytesOfEmpty == Bytes(<<>>) = 0
<1>1. <<>> \in Seq(Calls) /\ Len(<<>>) = 0
  OBVIOUS
<1>2. PICK h : Sums(h, <<>>, 0)
  BY <1>1, BytesTable
<1> QED
  BY <1>2 DEF Sums

\* A call posted adds its weight.
LEMMA BytesOfAppend ==
  ASSUME NEW q \in Seq(Calls), NEW c \in Calls
  PROVE  /\ Bytes(q) \in Nat
         /\ Bytes(Append(q, c)) = Bytes(q) + Weight(c)
<1>1. PICK n \in Nat : n = Len(q)
  OBVIOUS
<1>2. PICK r : r = Append(q, c)
  OBVIOUS
<1>3. r \in Seq(Calls) /\ Len(r) = n + 1 /\ r[n + 1] = c /\ \A k \in 1 .. n : r[k] = q[k]
  BY <1>1, <1>2
<1>4. PICK h : Sums(h, q, n)
  BY <1>1, BytesTable
<1>5. PICK g : Sums(g, r, n + 1)
  BY <1>3, BytesTable
<1>6. /\ h \in [0 .. n -> Nat] /\ h[0] = 0 /\ Bytes(q) = h[n]
      /\ \A k \in 1 .. n : h[k] = h[k - 1] + Weight(q[k])
  BY <1>4 DEF Sums
<1>7. /\ g \in [0 .. n + 1 -> Nat] /\ g[0] = 0 /\ Bytes(r) = g[n + 1]
      /\ \A k \in 1 .. n + 1 : g[k] = g[k - 1] + Weight(r[k])
  BY <1>5 DEF Sums
<1>8. PICK f : f = [k \in 0 .. n |-> g[k]]
  OBVIOUS
<1>9. PICK w : w = [k \in 1 .. n |-> Weight(q[k])]
  OBVIOUS
<1>10. f \in [0 .. n -> Nat] /\ f[0] = 0 /\ f[n] = g[n]
  BY <1>7, <1>8
<1>11. ASSUME NEW k \in 1 .. n
      PROVE  w[k] \in Nat /\ f[k] = f[k - 1] + w[k] /\ h[k] = h[k - 1] + w[k]
  <2>1. q[k] \in Calls /\ k \in 1 .. n + 1 /\ k - 1 \in 0 .. n /\ k \in 0 .. n
    BY <1>1
  <2>2. g[k] = g[k - 1] + Weight(r[k]) /\ r[k] = q[k] /\ Weight(q[k]) \in Nat
    BY <1>3, <1>7, <2>1, WeightType
  <2>3. f[k] = g[k] /\ f[k - 1] = g[k - 1] /\ w[k] = Weight(q[k])
    BY <1>8, <1>9, <2>1
  <2> QED
    BY <1>6, <2>2, <2>3
<1>12. (\A k \in 1 .. n : w[k] \in Nat) /\ Grows(f, n, w) /\ Grows(h, n, w)
  BY <1>11 DEF Grows
<1>13. f[n] = h[n] + (f[0] - h[0])
  BY <1>6, <1>10, <1>12, SameTable
<1>14. g[n + 1] = g[n] + Weight(c)
  <2>1. n + 1 \in 1 .. n + 1 /\ (n + 1) - 1 = n
    OBVIOUS
  <2> QED
    BY <1>3, <1>7, <2>1
<1>15. h[n] \in Nat /\ g[n] = h[n]
  BY <1>6, <1>10, <1>13
<1> QED
  BY <1>2, <1>6, <1>7, <1>14, <1>15

\* The call taken takes its weight away: here the fold starts one call later.
LEMMA BytesOfTail ==
  ASSUME NEW q \in Seq(Calls), q # <<>>
  PROVE  /\ Bytes(q) \in Nat /\ Bytes(Tail(q)) \in Nat
         /\ Bytes(q) = Weight(Head(q)) + Bytes(Tail(q))
<1>1. PICK n \in Nat : Len(q) = n + 1
  <2>1. Len(q) \in Nat /\ Len(q) # 0
    OBVIOUS
  <2>2. Len(q) - 1 \in Nat /\ Len(q) = (Len(q) - 1) + 1
    BY <2>1
  <2> QED
    BY <2>2
<1>2. PICK r : r = Tail(q)
  OBVIOUS
<1>3. r \in Seq(Calls) /\ Len(r) = n /\ \A k \in 1 .. n : r[k] = q[k + 1]
  BY <1>1, <1>2
<1>4. PICK h : Sums(h, q, n + 1)
  BY <1>1, BytesTable
<1>5. PICK g : Sums(g, r, n)
  BY <1>3, BytesTable
<1>6. /\ h \in [0 .. n + 1 -> Nat] /\ h[0] = 0 /\ Bytes(q) = h[n + 1]
      /\ \A k \in 1 .. n + 1 : h[k] = h[k - 1] + Weight(q[k])
  BY <1>4 DEF Sums
<1>7. /\ g \in [0 .. n -> Nat] /\ g[0] = 0 /\ Bytes(r) = g[n]
      /\ \A k \in 1 .. n : g[k] = g[k - 1] + Weight(r[k])
  BY <1>5 DEF Sums
<1>8. PICK f : f = [k \in 0 .. n |-> h[k + 1]]
  OBVIOUS
<1>9. PICK w : w = [k \in 1 .. n |-> Weight(r[k])]
  OBVIOUS
<1>10. f \in [0 .. n -> Nat] /\ f[0] = h[1] /\ f[n] = h[n + 1]
  <2>1. \A k \in 0 .. n : k + 1 \in 0 .. n + 1
    OBVIOUS
  <2> QED
    BY <1>6, <1>8, <2>1
<1>11. ASSUME NEW k \in 1 .. n
      PROVE  w[k] \in Nat /\ f[k] = f[k - 1] + w[k] /\ g[k] = g[k - 1] + w[k]
  <2>1. r[k] \in Calls /\ k + 1 \in 1 .. n + 1 /\ k - 1 \in 0 .. n /\ k \in 0 .. n
        /\ (k + 1) - 1 = k /\ (k - 1) + 1 = k
    BY <1>3
  <2>2. h[k + 1] = h[k] + Weight(q[k + 1]) /\ r[k] = q[k + 1] /\ Weight(r[k]) \in Nat
    BY <1>3, <1>6, <2>1, WeightType
  <2>3. f[k] = h[k + 1] /\ f[k - 1] = h[k] /\ w[k] = Weight(r[k])
    BY <1>8, <1>9, <2>1
  <2> QED
    BY <1>7, <2>2, <2>3
<1>12. (\A k \in 1 .. n : w[k] \in Nat) /\ Grows(f, n, w) /\ Grows(g, n, w)
  BY <1>11 DEF Grows
<1>13. f[n] = g[n] + (f[0] - g[0])
  BY <1>7, <1>10, <1>12, SameTable
<1>14. h[1] = Weight(q[1]) /\ q[1] = Head(q) /\ Weight(q[1]) \in Nat
  <2>1. 1 \in 1 .. n + 1 /\ 1 - 1 = 0 /\ q[1] \in Calls /\ q[1] = Head(q)
    BY <1>1
  <2>2. h[1] = h[0] + Weight(q[1])
    BY <1>6, <2>1
  <2> QED
    BY <1>6, <2>1, <2>2, WeightType
<1>15. g[n] \in Nat /\ h[n + 1] \in Nat
  BY <1>6, <1>7
<1> QED
  BY <1>2, <1>6, <1>7, <1>10, <1>13, <1>14, <1>15

\* The events of a loop, how many there are, and how many a single call is.
Events(q) == {i \in DOMAIN q : q[i].call = "event"}
Count(q)  == Cardinality(Events(q))
One(c)    == IF c.call = "event" THEN 1 ELSE 0

\* A loop has finitely many events.
LEMMA EventsFinite ==
  ASSUME NEW q \in Seq(Calls)
  PROVE  IsFiniteSet(Events(q)) /\ Count(q) \in Nat
<1>1. PICK n \in Nat : n = Len(q)
  OBVIOUS
<1>2. Events(q) \in SUBSET (1 .. n) /\ IsFiniteSet(1 .. n)
  BY <1>1, FS_Interval DEF Events
<1> QED
  BY <1>2, FS_Subset, FS_CardinalityType DEF Count

\* An event posted is one event more.
LEMMA CountOfAppend ==
  ASSUME NEW q \in Seq(Calls), NEW c \in Calls
  PROVE  Count(Append(q, c)) = Count(q) + One(c)
<1>1. PICK n \in Nat : n = Len(q)
  OBVIOUS
<1>2. PICK r : r = Append(q, c)
  OBVIOUS
<1>3. /\ DOMAIN r = 1 .. n + 1 /\ r[n + 1] = c /\ \A k \in 1 .. n : r[k] = q[k]
      /\ DOMAIN q = 1 .. n
  BY <1>1, <1>2
<1>4. n + 1 \notin Events(q)
  BY <1>3 DEF Events
<1>5. CASE c.call = "event"
  <2>1. Events(r) = Events(q) \cup {n + 1}
    BY <1>3, <1>5 DEF Events
  <2>2. Cardinality(Events(q) \cup {n + 1}) = Cardinality(Events(q)) + 1
    BY <1>4, EventsFinite, FS_AddElement
  <2> QED
    BY <1>2, <1>5, <2>1, <2>2 DEF Count, One
<1>6. CASE c.call # "event"
  <2>1. Events(r) = Events(q)
    BY <1>3, <1>6 DEF Events
  <2> QED
    BY <1>2, <1>6, <2>1, EventsFinite DEF Count, One
<1> QED
  BY <1>5, <1>6

\* An event taken is one event fewer, by the bijection that shifts the indices by one.
LEMMA CountOfTail ==
  ASSUME NEW q \in Seq(Calls), q # <<>>
  PROVE  /\ Tail(q) \in Seq(Calls)
         /\ Count(Tail(q)) \in Nat
         /\ Count(q) = Count(Tail(q)) + One(Head(q))
<1>1. PICK n \in Nat : Len(q) = n + 1
  <2>1. Len(q) \in Nat /\ Len(q) # 0
    OBVIOUS
  <2>2. Len(q) - 1 \in Nat /\ Len(q) = (Len(q) - 1) + 1
    BY <2>1
  <2> QED
    BY <2>2
<1>2. PICK r : r = Tail(q)
  OBVIOUS
<1>3. /\ r \in Seq(Calls) /\ DOMAIN r = 1 .. n /\ \A k \in 1 .. n : r[k] = q[k + 1]
      /\ DOMAIN q = 1 .. n + 1 /\ q[1] = Head(q)
  BY <1>1, <1>2
<1>4. PICK T : T = Events(q) \ {1}
  OBVIOUS
<1>5. PICK f : f = [i \in Events(r) |-> i + 1]
  OBVIOUS
<1>6. f \in Bijection(Events(r), T)
  <2>1. \A i \in Events(r) : i \in 1 .. n /\ i + 1 \in T
    BY <1>3, <1>4 DEF Events
  <2>2. f \in [Events(r) -> T]
    BY <1>5, <2>1
  <2>3. \A a, b \in Events(r) : f[a] = f[b] => a = b
    BY <1>5, <2>1
  <2>4. ASSUME NEW j \in T PROVE \E i \in Events(r) : f[i] = j
    <3>1. j \in 1 .. n + 1 /\ j # 1 /\ q[j].call = "event"
      BY <1>3, <1>4 DEF Events
    <3>2. j - 1 \in 1 .. n /\ (j - 1) + 1 = j
      BY <3>1
    <3>3. j - 1 \in Events(r)
      BY <1>3, <3>1, <3>2 DEF Events
    <3> QED
      BY <1>5, <3>2, <3>3
  <2>5. f \in Injection(Events(r), T)
    BY <2>2, <2>3 DEF Injection, IsInjective
  <2>6. f \in Surjection(Events(r), T)
    BY <2>2, <2>4 DEF Surjection
  <2> QED
    BY <2>5, <2>6 DEF Bijection
<1>7. IsFiniteSet(Events(r)) /\ Cardinality(Events(r)) \in Nat /\ IsFiniteSet(Events(q))
  BY <1>3, EventsFinite DEF Count
<1>8. Cardinality(T) = Cardinality(Events(r))
  <2>1. ExistsBijection(Events(r), T)
    BY <1>6 DEF ExistsBijection
  <2> QED
    BY <1>7, <2>1, FS_Bijection
<1>9. Cardinality(T) = IF 1 \in Events(q) THEN Cardinality(Events(q)) - 1
                       ELSE Cardinality(Events(q))
  BY <1>4, <1>7, FS_RemoveElement
<1>10. 1 \in Events(q) <=> Head(q).call = "event"
  BY <1>3 DEF Events
<1>11. Cardinality(Events(q)) \in Nat
  BY EventsFinite DEF Count
<1> QED
  BY <1>2, <1>3, <1>7, <1>8, <1>9, <1>10, <1>11 DEF Count, One

-----------------------------------------------------------------------------
(* What deliverEvent does with one event and with a sequence of them.       *)

\* The account of the bridge, and what a delivery changes: the account and the history.
Account == [epoch : Epochs, user : Users]
Told    == [account : Account, last : History]

\* The bounds of the model and the limits of the queue are naturals.
LEMMA Limits == StartLimit \in Nat /\ EmitLimit \in Nat /\ EventLimit \in Nat /\ ByteLimit \in Nat
  BY ConstantsAssumption

\* The fence: an event moves the account of the bridge to its own or leaves it, the
\* epoch never falls, and an admitted event is of the account the bridge is then at.
LEMMA AfterType ==
  ASSUME NEW at \in Account, NEW e \in Event
  PROVE  /\ After(at, e) \in Account
         /\ at.epoch \in Nat /\ After(at, e).epoch \in Nat
         /\ ~(After(at, e).epoch < at.epoch)
         /\ Admitted(at, e) => [epoch |-> e.epoch, user |-> e.user] = After(at, e)
<1>1. /\ e.epoch \in Epochs /\ e.user \in Users /\ e.type \in Types
      /\ at.epoch \in Epochs /\ at.user \in Users /\ at = [epoch |-> at.epoch, user |-> at.user]
  BY DEF Event, Account
<1>2. e.epoch \in Nat /\ at.epoch \in Nat
  BY <1>1, ConstantsAssumption
<1>3. CASE Admitted(at, e) /\ MovesAccount(e.type)
  <2>1. After(at, e) = [epoch |-> e.epoch, user |-> e.user]
    BY <1>3 DEF After
  <2>2. e.epoch >= at.epoch
    BY <1>2, <1>3 DEF Admitted
  <2> QED
    BY <1>1, <1>2, <2>1, <2>2 DEF Account
<1>4. CASE ~(Admitted(at, e) /\ MovesAccount(e.type))
  <2>1. After(at, e) = at
    BY <1>4 DEF After
  <2>2. ASSUME Admitted(at, e) PROVE e.epoch = at.epoch /\ e.user = at.user
    BY <1>4, <2>2 DEF Admitted, MovesAccount
  <2> QED
    BY <1>1, <1>2, <2>1, <2>2
<1> QED
  BY <1>3, <1>4

\* One delivery, field by field; it keeps the history free of an event that passed the
\* fence out of account.
LEMMA DeliveredFields ==
  ASSUME NEW s \in Told, NEW e \in Event, generation \in 0 .. StartLimit
  PROVE  /\ Delivered(s, e) \in Told
         /\ Delivered(s, e).account = After(s.account, e)
         /\ Delivered(s, e).last.runtime = IF e.runtime = generation THEN e.runtime
                                           ELSE s.last.runtime
         /\ Delivered(s, e).last.n = IF e.runtime = generation THEN e.n ELSE s.last.n
         /\ Delivered(s, e).last.gap <=>
              s.last.gap \/ (e.runtime = generation /\ e.n # s.last.n + 1)
         /\ Delivered(s, e).last.foreign \subseteq
              s.last.foreign \cup (IF e.runtime = generation THEN {} ELSE {e.runtime})
         /\ ~s.last.stray => ~Delivered(s, e).last.stray
<1> DEFINE d == Delivered(s, e)
<1>1. /\ s.account \in Account /\ s.last \in History
      /\ s.last.gap \in BOOLEAN /\ s.last.foreign \subseteq Runtime /\ s.last.stray \in BOOLEAN
      /\ s.last.runtime \in 0 .. StartLimit /\ s.last.n \in 0 .. EmitLimit
  BY DEF Told, History
<1>2. e.runtime \in 0 .. StartLimit /\ e.runtime \in Runtime /\ e.n \in 0 .. EmitLimit
  <2>1. e.runtime \in 1 .. StartLimit /\ e.n \in 1 .. EmitLimit
    BY DEF Event, Runtime
  <2> QED
    BY <2>1, Limits DEF Runtime
<1>3. PICK a \in Account : a = After(s.account, e)
  BY <1>1, AfterType
<1>4. PICK l : l = [runtime |-> IF e.runtime = generation THEN e.runtime ELSE s.last.runtime,
                    n       |-> IF e.runtime = generation THEN e.n ELSE s.last.n,
                    gap     |-> s.last.gap \/ (e.runtime = generation /\ e.n # s.last.n + 1),
                    foreign |-> IF e.runtime = generation THEN s.last.foreign
                                ELSE s.last.foreign \cup {e.runtime},
                    stray   |-> \/ s.last.stray
                                \/ a.epoch < s.account.epoch
                                \/ Admitted(s.account, e)
                                   /\ [epoch |-> e.epoch, user |-> e.user] # a]
  OBVIOUS
<1>5. d = [account |-> a, last |-> l]
  BY <1>3, <1>4 DEF Delivered
<1>6. l.runtime \in 0 .. StartLimit /\ l.n \in 0 .. EmitLimit
  BY <1>1, <1>2, <1>4
<1>7. l.gap \in BOOLEAN /\ l.foreign \subseteq Runtime /\ l.stray \in BOOLEAN
  BY <1>1, <1>2, <1>4
<1>8. l = [runtime |-> l.runtime, n |-> l.n, gap |-> l.gap, foreign |-> l.foreign,
           stray |-> l.stray]
  BY <1>4
<1>9. l \in History
  BY <1>6, <1>7, <1>8 DEF History
<1>10. ~s.last.stray => ~l.stray
  BY <1>1, <1>3, <1>4, AfterType
<1>11. d \in Told
  BY <1>5, <1>9 DEF Told
<1>12. d.account = a /\ d.last = l
  BY <1>5
<1> HIDE DEF d
<1>13. /\ l.runtime = IF e.runtime = generation THEN e.runtime ELSE s.last.runtime
       /\ l.n = IF e.runtime = generation THEN e.n ELSE s.last.n
       /\ l.gap <=> s.last.gap \/ (e.runtime = generation /\ e.n # s.last.n + 1)
       /\ l.foreign \subseteq
            s.last.foreign \cup (IF e.runtime = generation THEN {} ELSE {e.runtime})
  BY <1>4
<1> QED
  BY <1>3, <1>10, <1>11, <1>12, <1>13 DEF d

\* h[k] is the account and the history after the first k events of q.
Tells(h, q, n) ==
  /\ h[0] = [account |-> account, last |-> last]
  /\ \A k \in 0 .. n : h[k] \in Told
  /\ \A k \in 1 .. n : h[k] = Delivered(h[k - 1], q[k])
  /\ FoldLeft(Delivered, [account |-> account, last |-> last], q) = h[n]

\* The delivery of a sequence of events is the last entry of such a table.
LEMMA DeliverTable ==
  ASSUME NEW q \in Seq(Event), account \in Account, last \in History,
         generation \in 0 .. StartLimit
  PROVE  \E h : Tells(h, q, Len(q))
<1> DEFINE n == Len(q)
           base == [account |-> account, last |-> last]
           step == [x \in Told \X Event |-> Delivered(x[1], x[2])]
           Value(f, s) == Delivered(f[s \ {Max(s)}], q[Max(s)])
           Solves(f) == f = [s \in SUBSET (1 .. n) |-> IF s = {} THEN base ELSE Value(f, s)]
<1>1. n \in Nat /\ q \in [1 .. n -> Event] /\ DOMAIN q = 1 .. n
  OBVIOUS
<1>2. base \in Told
  BY DEF Told
<1>3. step \in [Told \X Event -> Told]
  <2>1. \A x \in Told \X Event : Delivered(x[1], x[2]) \in Told
    BY DeliveredFields
  <2> QED
    BY <2>1
<1> HIDE DEF n, base
<1>4. \E f : Solves(f)
  <2>1. PICK f : f \in [SUBSET (1 .. n) -> Told] /\ IsTable(f, n, base, step, q)
    <3> HIDE DEF step, Value, Solves
    <3> QED
      BY <1>1, <1>2, <1>3, Table
  <2>2. ASSUME NEW s \in SUBSET (1 .. n), s # {}
        PROVE  step[<<f[s \ {Max(s)}], q[Max(s)]>>] = Value(f, s)
    <3>1. Max(s) \in s
      BY <2>2, <1>1, MaxIn
    <3>2. f[s \ {Max(s)}] \in Told /\ q[Max(s)] \in Event
      <4>1. s \ {Max(s)} \in SUBSET (1 .. n) /\ Max(s) \in 1 .. n
        BY <3>1
      <4> QED
        BY <1>1, <2>1, <4>1
    <3> QED
      BY <3>2
  <2>3. Solves(f)
    <3> HIDE DEF Value, step
    <3> QED
      BY <2>1, <2>2 DEF IsTable
  <2> QED
    BY <2>3
<1>5. PICK it : Solves(it) /\ FoldLeft(Delivered, base, q) = it[1 .. n]
  <2> DEFINE c == CHOOSE f : Solves(f)
  <2>1. Solves(c)
    <3> HIDE DEF Solves
    <3> QED
      BY <1>4
  <2>2. FoldLeft(Delivered, base, q) = c[1 .. n]
    BY <1>1 DEF FoldLeft, MapThenFoldSet
  <2> HIDE DEF Solves, c
  <2> QED
    BY <2>1, <2>2
<1>6. PICK h : h = [k \in 0 .. n |-> it[1 .. k]]
  OBVIOUS
<1>7. it[1 .. 0] = base
  BY <1>1, <1>5, Initials
<1>8. ASSUME NEW k \in 1 .. n PROVE it[1 .. k] = Delivered(it[1 .. k - 1], q[k])
  <2>1. it[1 .. k] = Value(it, 1 .. k)
    <3> HIDE DEF Value
    <3> QED
      BY <1>1, <1>5, Initials
  <2>2. Max(1 .. k) = k /\ (1 .. k) \ {k} = 1 .. k - 1
    BY <1>1, Initials
  <2> QED
    BY <2>1, <2>2
<1> HIDE DEF Solves
<1>9. ASSUME NEW k \in 1 .. n PROVE h[k] = Delivered(h[k - 1], q[k])
  <2>1. k - 1 \in 0 .. n /\ k \in 0 .. n
    BY <1>1
  <2> QED
    BY <1>6, <1>8, <2>1
<1>10. h[0] = base /\ h[n] = it[1 .. n]
  BY <1>1, <1>6, <1>7
<1>11. \A k \in 0 .. n : h[k] \in Told
  <2>1. \A k \in 1 .. n : h[k - 1] \in Told => h[k] \in Told
    BY <1>1, <1>9, DeliveredFields
  <2>2. h[0] \in Told
    BY <1>2, <1>10
  <2> QED
    BY <1>1, <2>1, <2>2, Along
<1> QED
  BY <1>5, <1>9, <1>10, <1>11 DEF n, base, Tells

-----------------------------------------------------------------------------
(* What the type invariant and the counters say, in the form the steps use. *)

\* deliverEvent of a sequence of events keeps the types, and lets nothing pass the
\* fence out of account.
LEMMA DeliverKeeps ==
  ASSUME NEW q \in Seq(Event), account \in Account, last \in History,
         generation \in 0 .. StartLimit, Deliver(q)
  PROVE  account' \in Account /\ last' \in History /\ (~last.stray => ~last'.stray)
<1>1. PICK n \in Nat : n = Len(q) /\ q \in [1 .. n -> Event]
  OBVIOUS
<1>2. PICK h : Tells(h, q, n)
  BY <1>1, DeliverTable
<1>3. account' = h[n].account /\ last' = h[n].last
  BY <1>2 DEF Deliver, Tells
<1>4. h[n] \in Told
  BY <1>2 DEF Tells
<1>5. ASSUME ~last.stray PROVE ~h[n].last.stray
  <2> DEFINE D == {s \in Told : ~s.last.stray}
  <2>1. h[0] \in D
    BY <1>2, <1>5 DEF Tells, Told
  <2>2. ASSUME NEW k \in 1 .. n, h[k - 1] \in D PROVE h[k] \in D
    <3>1. h[k] = Delivered(h[k - 1], q[k]) /\ h[k] \in Told /\ q[k] \in Event
      BY <1>1, <1>2 DEF Tells
    <3>2. h[k - 1] \in Told /\ ~h[k - 1].last.stray
      BY <2>2
    <3>3. ~Delivered(h[k - 1], q[k]).last.stray
      BY <3>1, <3>2, DeliveredFields
    <3> QED
      BY <3>1, <3>3
  <2>3. \A k \in 0 .. n : h[k] \in D
    <3> HIDE DEF D
    <3> QED
      BY <2>1, <2>2, Along
  <2> QED
    BY <2>3
<1> QED
  BY <1>3, <1>4, <1>5 DEF Told

\* The callback in progress, the phases of a runtime, and what the model keeps of it.
Busy == [pc : {"reserve", "post", "postStop"}, generation : Runtime, event : Event]
Phases == {"none", "starting", "returned", "running", "abandoned", "stopped", "failed"}
World  == [phase : Phases, emitted : 0 .. EmitLimit, epoch : Epochs]

\* The callback thread is in a callback, with a generation and an event, or idle.
LEMMA CbCases ==
  ASSUME TypeOK
  PROVE  /\ cb.pc # "idle" => cb \in Busy /\ cb.event.size \in Nat /\ cb.generation \in Runtime
         /\ cb.pc = "idle" => cb = CbIdle
<1>1. cb = CbIdle \/ cb \in Busy
  BY DEF TypeOK, Busy, CbIdle
<1>2. cb = CbIdle => cb.pc = "idle"
  BY DEF CbIdle
<1>3. cb \in Busy => cb.pc # "idle" /\ cb.event \in Event /\ cb.generation \in Runtime
  BY DEF Busy
<1>4. cb.event \in Event => cb.event.size \in Nat
  BY ConstantsAssumption DEF Event
<1> QED
  BY <1>1, <1>2, <1>3, <1>4

\* CountersExact in terms of the count and the weight of the loop.
Counted ==
  alive => /\ queued.events = Count(loop) + (IF cb.pc = "post" THEN 1 ELSE 0)
           /\ queued.bytes = (IF cb.pc = "post" THEN cb.event.size ELSE 0) + Bytes(loop)

\* It is the property that the runs check.
LEMMA CountedIsExact == Counted <=> CountersExact
  BY DEF Counted, CountersExact, Count, Events, InLoop, Bytes

\* A runtime that changes its phase keeps the type of the runtimes.
LEMMA PhaseKeepsType ==
  ASSUME TypeOK, NEW r \in Runtime, NEW p \in Phases, Phase(r, p)
  PROVE  runtime' \in [Runtime -> World]
<1>1. runtime \in [Runtime -> World]
  BY DEF TypeOK, World, Phases
<1>2. [runtime[r] EXCEPT !.phase = p] \in World
  BY <1>1 DEF World
<1> QED
  BY <1>1, <1>2 DEF Phase

\* TypeOK, with the names that are used here.
LEMMA TypeFacts ==
  ASSUME TypeOK
  PROVE  /\ alive \in BOOLEAN /\ starting \in BOOLEAN /\ failed \in BOOLEAN
         /\ generation \in 0 .. StartLimit /\ started \in 0 .. StartLimit
         /\ handle \in 0 .. StartLimit /\ gui \in 0 .. StartLimit
         /\ queued \in [events : Nat, bytes : Nat]
         /\ startup \in Seq(Event) /\ Len(startup) <= EventLimit
         /\ loop \in Seq(Calls)
         /\ account \in Account
         /\ cb \in {CbIdle} \cup Busy
         /\ runtime \in [Runtime -> World]
         /\ last \in History
<1>1. /\ alive \in BOOLEAN /\ starting \in BOOLEAN /\ failed \in BOOLEAN
      /\ generation \in 0 .. StartLimit /\ started \in 0 .. StartLimit
      /\ handle \in 0 .. StartLimit /\ gui \in 0 .. StartLimit
      /\ queued \in [events : Nat, bytes : Nat]
      /\ startup \in Seq(Event) /\ Len(startup) <= EventLimit
      /\ last \in History
  BY DEF TypeOK
<1>2. loop \in Seq(Calls)
  BY DEF TypeOK, Calls
<1>3. account \in Account
  BY DEF TypeOK, Account
<1>4. cb \in {CbIdle} \cup Busy
  BY DEF TypeOK, CbIdle, Busy
<1>5. runtime \in [Runtime -> World]
  BY DEF TypeOK, World, Phases
<1> QED
  BY <1>1, <1>2, <1>3, <1>4, <1>5

\* What the kinds of posted calls carry, count and weigh.
LEMMA CallCases ==
  ASSUME NEW c \in Calls
  PROVE  /\ c.call \in {"event", "overflow", "started"} /\ c.generation \in Runtime
         /\ c.call = "event" => c.event \in Event /\ c.event.size \in Nat
                                /\ Weight(c) = c.event.size /\ One(c) = 1
         /\ c.call = "started" => c.ok \in BOOLEAN
         /\ c.call # "event" => Weight(c) = 0 /\ One(c) = 0
<1>1. c \in QueuedCall => c.call = "event" /\ c.generation \in Runtime /\ c.event \in Event
                          /\ c.event.size \in Nat
  BY ConstantsAssumption DEF QueuedCall, Event
<1>2. c \in StopCall => c.call = "overflow" /\ c.generation \in Runtime
  BY DEF StopCall
<1>3. c \in StartCall => c.call = "started" /\ c.generation \in Runtime /\ c.ok \in BOOLEAN
  BY DEF StartCall
<1> QED
  BY <1>1, <1>2, <1>3 DEF Calls, Weight, One

\* The call a step takes is the first of the loop.
LEMMA Taken ==
  ASSUME TypeOK, NEW name, Takes(name)
  PROVE  /\ loop # <<>> /\ Head(loop) \in Calls /\ Head(loop).call = name
         /\ loop' = Tail(loop) /\ loop' \in Seq(Calls)
         /\ GuiFree
  BY TypeFacts DEF Takes

\* A step that takes a call keeps the counters exact when it releases what the call
\* counted for, as the posted lambda of queueEvent does first of all.
LEMMA CountedAfterTake ==
  ASSUME TypeOK, Counted, NEW name, Takes(name), alive' = alive, cb' = cb,
         IF name = "event" THEN queued' = Released(Head(loop).event.size)
         ELSE queued' = queued
  PROVE  Counted' /\ queued' \in [events : Nat, bytes : Nat]
<1>1. PICK q \in Seq(Calls) : q = Tail(loop)
  BY Taken
<1>2. PICK c \in Calls : c = Head(loop) /\ c.call = name
  BY Taken
<1>3. /\ Count(q) \in Nat /\ Count(loop) = Count(q) + One(c)
      /\ Bytes(q) \in Nat /\ Bytes(loop) = Weight(c) + Bytes(q)
  BY <1>1, <1>2, Taken, CountOfTail, BytesOfTail, TypeFacts
<1>4. alive
  BY Taken DEF GuiFree
<1>5. PICK one \in Nat : one = IF cb.pc = "post" THEN 1 ELSE 0
  OBVIOUS
<1>6. PICK size \in Nat : size = IF cb.pc = "post" THEN cb.event.size ELSE 0
  BY CbCases
<1>7. queued.events = Count(loop) + one /\ queued.bytes = size + Bytes(loop)
  BY <1>4, <1>5, <1>6 DEF Counted
<1>8. queued \in [events : Nat, bytes : Nat]
  BY TypeFacts
<1>9. queued'.events = Count(q) + one /\ queued'.bytes = size + Bytes(q)
      /\ queued' \in [events : Nat, bytes : Nat]
  <2>1. CASE name = "event"
    <3>1. One(c) = 1 /\ Weight(c) = c.event.size /\ c.event.size \in Nat
      BY <1>2, <2>1, CallCases
    <3>2. queued' = [events |-> queued.events - 1, bytes |-> queued.bytes - c.event.size]
      BY <1>2, <2>1 DEF Released
    <3>3. queued.events - 1 = Count(q) + one /\ queued.bytes - c.event.size = size + Bytes(q)
      BY <1>3, <1>7, <3>1
    <3> QED
      BY <1>3, <3>2, <3>3
  <2>2. CASE name # "event"
    <3>1. One(c) = 0 /\ Weight(c) = 0
      BY <1>2, <2>2, CallCases
    <3>2. Count(loop) = Count(q) /\ Bytes(loop) = Bytes(q)
      BY <1>3, <3>1
    <3> QED
      BY <1>7, <1>8, <2>2, <3>2
  <2> QED
    BY <2>1, <2>2
<1>10. loop' = q
  BY <1>1, Taken
<1> QED
  BY <1>5, <1>6, <1>9, <1>10 DEF Counted

\* A step that posts a call keeps the counters exact: an event was reserved before.
LEMMA CountedAfterPost ==
  ASSUME TypeOK, Counted, NEW c \in Calls, loop' = Append(loop, c), alive' = alive,
         queued' = queued,
         \/ c.call # "event" /\ (cb' = cb \/ (cb.pc = "postStop" /\ cb' = CbIdle))
         \/ c.call = "event" /\ cb.pc = "post" /\ cb' = CbIdle /\ c.event = cb.event
  PROVE  Counted'
<1> SUFFICES ASSUME alive
             PROVE  /\ queued.events = Count(loop') + (IF cb'.pc = "post" THEN 1 ELSE 0)
                    /\ queued.bytes = (IF cb'.pc = "post" THEN cb'.event.size ELSE 0)
                                      + Bytes(loop')
  BY DEF Counted
<1>1. PICK q : q = Append(loop, c)
  OBVIOUS
<1>2. /\ Count(loop) \in Nat /\ Bytes(loop) \in Nat
      /\ Count(q) = Count(loop) + One(c) /\ Bytes(q) = Bytes(loop) + Weight(c)
  BY <1>1, TypeFacts, EventsFinite, CountOfAppend, BytesOfAppend
<1>3. /\ queued.events = Count(loop) + (IF cb.pc = "post" THEN 1 ELSE 0)
      /\ queued.bytes = (IF cb.pc = "post" THEN cb.event.size ELSE 0) + Bytes(loop)
  BY DEF Counted
<1>4. CbIdle.pc = "idle"
  BY DEF CbIdle
<1>5. cb.pc = "post" => cb.event.size \in Nat
  BY CbCases
<1>6. loop' = q
  BY <1>1
<1>7. CASE c.call # "event"
  <2>1. One(c) = 0 /\ Weight(c) = 0
    BY <1>7, CallCases
  <2>2. cb' = cb \/ (cb.pc # "post" /\ cb'.pc # "post")
    BY <1>4, <1>7
  <2> QED
    BY <1>2, <1>3, <1>5, <1>6, <2>1, <2>2
<1>8. CASE c.call = "event"
  <2>1. One(c) = 1 /\ Weight(c) = cb.event.size
    BY <1>8, CallCases
  <2>2. cb.pc = "post" /\ cb'.pc # "post"
    BY <1>4, <1>8
  <2> QED
    BY <1>2, <1>3, <1>5, <1>6, <2>1, <2>2
<1> QED
  BY <1>7, <1>8

-----------------------------------------------------------------------------
(* The types and the counters, step by step: the GUI thread's own calls and *)
(* the threads of the runtime.                                              *)

\* TypeOK of the next state, from its parts.
LEMMA TypeAgain ==
  ASSUME /\ alive' \in BOOLEAN /\ starting' \in BOOLEAN /\ failed' \in BOOLEAN
         /\ generation' \in 0 .. StartLimit /\ started' \in 0 .. StartLimit
         /\ handle' \in 0 .. StartLimit /\ gui' \in 0 .. StartLimit,
         queued' \in [events : Nat, bytes : Nat],
         startup' \in Seq(Event) /\ Len(startup') <= EventLimit,
         loop' \in Seq(Calls),
         account' \in Account /\ last' \in History,
         cb' \in {CbIdle} \cup Busy,
         runtime' \in [Runtime -> World]
  PROVE  TypeOK'
<1>1. loop' \in Seq(QueuedCall \cup StopCall \cup StartCall)
  BY DEF Calls
<1>2. account' \in [epoch : Epochs, user : Users]
  BY DEF Account
<1>3. cb' \in {[pc |-> "idle"]}
              \cup [pc : {"reserve", "post", "postStop"}, generation : Runtime, event : Event]
  BY DEF CbIdle, Busy
<1>4. runtime' \in [Runtime -> [phase : {"none", "starting", "returned", "running",
                                         "abandoned", "stopped", "failed"},
                                emitted : 0 .. EmitLimit, epoch : Epochs]]
  BY DEF World, Phases
<1> QED
  BY <1>1, <1>2, <1>3, <1>4 DEF TypeOK

\* The values of the initial state are of their types.
LEMMA Zeros == 0 \in Epochs /\ "" \in Users /\ 0 \in 0 .. EmitLimit /\ 0 \in 0 .. StartLimit
<1>1. 0 \in Epochs /\ "" \in Users
  BY ConstantsAssumption
<1>2. 0 \in 0 .. EmitLimit /\ 0 \in 0 .. StartLimit
  BY Limits
<1> QED
  BY <1>1, <1>2

\* m_startupEvents may be empty.
LEMMA NothingStopped == <<>> \in Seq(Event) /\ Len(<<>>) <= EventLimit
  BY Limits

\* The types and the counters: subtracting from a counter keeps it a natural only
\* because the event subtracted was counted.
Sound == TypeOK /\ Counted

\* The bridge starts sound.
LEMMA InitSound ==
  ASSUME Init
  PROVE  Sound /\ AccountFenced
<1>1. TypeOK
  <2>1. queued \in [events : Nat, bytes : Nat] /\ account \in [epoch : Epochs, user : Users]
    BY Zeros DEF Init, SignedOut
  <2>2. runtime \in [Runtime -> [phase : {"none", "starting", "returned", "running",
                                          "abandoned", "stopped", "failed"},
                                 emitted : 0 .. EmitLimit, epoch : Epochs]]
    BY Zeros DEF Init
  <2>3. last \in History
    BY Zeros DEF Init, NothingYet, History
  <2>4. startup \in Seq(Event) /\ Len(startup) <= EventLimit
    BY NothingStopped DEF Init
  <2>5. loop \in Seq(QueuedCall \cup StopCall \cup StartCall)
    BY DEF Init
  <2>6. cb \in {[pc |-> "idle"]}
    BY DEF Init, CbIdle
  <2>7. /\ alive \in BOOLEAN /\ starting \in BOOLEAN /\ failed \in BOOLEAN
        /\ generation \in 0 .. StartLimit /\ started \in 0 .. StartLimit
        /\ handle \in 0 .. StartLimit /\ gui \in 0 .. StartLimit
    BY Zeros DEF Init
  <2> QED
    BY <2>1, <2>2, <2>3, <2>4, <2>5, <2>6, <2>7 DEF TypeOK
<1>2. Counted
  <2>1. Events(<<>>) = {}
    BY DEF Events
  <2>2. Count(<<>>) = 0
    BY <2>1, FS_EmptySet DEF Count
  <2> QED
    BY <2>2, BytesOfEmpty DEF Init, Counted, CbIdle
<1>3. AccountFenced
  BY DEF Init, AccountFenced, NothingYet
<1> QED
  BY <1>1, <1>2, <1>3 DEF Sound

\* A step that leaves the queue alone keeps the counters exact.
LEMMA CountedStays ==
  ASSUME Counted, alive' = alive, queued' = queued, loop' = loop,
         cb' = cb \/ (cb.pc # "post" /\ cb'.pc # "post")
  PROVE  Counted'
  BY DEF Counted

\* startAsync.
LEMMA SoundStartAsync ==
  ASSUME Sound, StartAsync
  PROVE  Sound' /\ ~last'.stray
<1> USE DEF Sound
<1>1. started + 1 \in Runtime
  <2>1. started \in 0 .. StartLimit /\ started < StartLimit
    BY TypeFacts DEF StartAsync
  <2> QED
    BY <2>1, Limits DEF Runtime
<1>2. runtime' \in [Runtime -> World]
  BY <1>1, PhaseKeepsType DEF StartAsync, Phases
<1>3. last' \in History /\ account' \in Account /\ ~last'.stray
  BY Zeros DEF StartAsync, NothingYet, History, SignedOut, Account
<1>4. started' \in 0 .. StartLimit /\ generation' \in 0 .. StartLimit
  BY <1>1, Limits DEF StartAsync, Runtime
<1>5. TypeOK'
  BY <1>2, <1>3, <1>4, TypeFacts, TypeAgain DEF StartAsync
<1>6. Counted'
  BY CountedStays DEF StartAsync
<1> QED
  BY <1>3, <1>5, <1>6

\* The start thread.
LEMMA SoundKodosiStarts ==
  ASSUME Sound, NEW r \in Runtime, NEW ok \in BOOLEAN, KodosiStarts(r, ok)
  PROVE  Sound'
<1> USE DEF Sound
<1>1. runtime' \in [Runtime -> World]
  <2>1. \E p \in Phases : Phase(r, p)
    BY DEF KodosiStarts, Phases
  <2> QED
    BY <2>1, PhaseKeepsType
<1>2. CASE alive
  <2>1. PICK c : c = [call |-> "started", generation |-> r, ok |-> ok]
    OBVIOUS
  <2>2. c \in Calls /\ c.call # "event"
    BY <2>1 DEF Calls, StartCall
  <2>3. loop' = Append(loop, c)
    BY <1>2, <2>1 DEF KodosiStarts
  <2>4. loop' \in Seq(Calls)
    BY <2>2, <2>3, TypeFacts
  <2>5. TypeOK'
    BY <1>1, <2>4, TypeFacts, TypeAgain DEF KodosiStarts
  <2>6. Counted'
    BY <2>2, <2>3, CountedAfterPost DEF KodosiStarts
  <2> QED
    BY <2>5, <2>6
<1>3. CASE ~alive
  <2>1. loop' = loop
    BY <1>3 DEF KodosiStarts
  <2>2. TypeOK'
    BY <1>1, <2>1, TypeFacts, TypeAgain DEF KodosiStarts
  <2>3. Counted'
    BY <2>1, CountedStays DEF KodosiStarts
  <2> QED
    BY <2>2, <2>3
<1> QED
  BY <1>2, <1>3

\* What stop() resets is of its type.
LEMMA StopTypes ==
  ASSUME TypeOK, BeginStop
  PROVE  /\ startup' \in Seq(Event) /\ Len(startup') <= EventLimit
         /\ generation' \in 0 .. StartLimit /\ gui' \in 0 .. StartLimit
         /\ handle' \in 0 .. StartLimit
  BY TypeFacts, NothingStopped, Limits DEF BeginStop

\* stop.
LEMMA SoundStop ==
  ASSUME Sound, Stop
  PROVE  Sound'
<1> USE DEF Sound
<1>1. TypeOK'
  BY StopTypes, TypeFacts, TypeAgain DEF Stop
<1>2. Counted'
  BY CountedStays DEF Stop
<1> QED
  BY <1>1, <1>2

\* kodosi_stop returns.
LEMMA SoundJoined ==
  ASSUME Sound, Joined
  PROVE  Sound'
<1> USE DEF Sound
<1>1. gui \in Runtime
  BY TypeFacts, Limits DEF Joined, Runtime
<1>2. runtime' \in [Runtime -> World]
  BY <1>1, PhaseKeepsType DEF Joined, Phases
<1>3. gui' \in 0 .. StartLimit
  BY Limits DEF Joined
<1>4. TypeOK'
  BY <1>2, <1>3, TypeFacts, TypeAgain DEF Joined
<1>5. Counted'
  BY CountedStays DEF Joined
<1> QED
  BY <1>4, <1>5

\* A detached thread stops an abandoned runtime.
LEMMA SoundStopAbandoned ==
  ASSUME Sound, NEW r \in Runtime, StopAbandoned(r)
  PROVE  Sound'
<1> USE DEF Sound
<1>1. runtime' \in [Runtime -> World]
  BY PhaseKeepsType DEF StopAbandoned, Phases
<1>2. TypeOK'
  BY <1>1, TypeFacts, TypeAgain DEF StopAbandoned
<1>3. Counted'
  BY CountedStays DEF StopAbandoned
<1> QED
  BY <1>2, <1>3

\* The destructor: the posted events go with the object, and their counters.
LEMMA SoundDestroy ==
  ASSUME Sound, Destroy
  PROVE  Sound'
<1> USE DEF Sound
<1>1. runtime' \in [Runtime -> World]
  <2>1. \A r \in Runtime : runtime[r] \in World
    BY TypeFacts
  <2>2. \A w \in World : [w EXCEPT !.phase = "abandoned"] \in World
    BY DEF World, Phases
  <2> QED
    BY <2>1, <2>2 DEF Destroy
<1>2. loop' \in Seq(Calls)
  BY DEF Destroy
<1>3. TypeOK'
  BY <1>1, <1>2, StopTypes, TypeFacts, TypeAgain DEF Destroy
<1>4. Counted'
  BY DEF Destroy, Counted
<1> QED
  BY <1>3, <1>4

\* What a runtime emits is an event of its own, the next one.
LEMMA EmissionType ==
  ASSUME TypeOK, NEW r \in Runtime, NEW event \in Emission(r), runtime[r].emitted < EmitLimit
  PROVE  /\ event \in Event /\ event.runtime = r /\ event.n = runtime[r].emitted + 1
         /\ event.epoch \in Epochs /\ runtime[r].emitted \in Nat
         /\ runtime[r].emitted + 1 \in 0 .. EmitLimit
<1>1. runtime[r].emitted \in 0 .. EmitLimit
  BY TypeFacts DEF World
<1>2. runtime[r].emitted \in Nat /\ runtime[r].emitted + 1 \in 1 .. EmitLimit
  BY <1>1, Limits
<1>3. PICK size \in Sizes, type \in Types, epoch \in Epochs, user \in Users :
        event = [runtime |-> r, n |-> runtime[r].emitted + 1, size |-> size, type |-> type,
                 epoch |-> epoch, user |-> user]
  BY DEF Emission
<1>4. event \in Event
  BY <1>2, <1>3 DEF Event
<1> QED
  BY <1>2, <1>3, <1>4, Limits

\* A callback begins.
LEMMA SoundEmit ==
  ASSUME Sound, NEW r \in Runtime, NEW event \in Emission(r), Emit(r, event)
  PROVE  Sound'
<1> USE DEF Sound
<1>1. /\ event \in Event /\ event.epoch \in Epochs
      /\ runtime[r].emitted + 1 \in 0 .. EmitLimit
  BY EmissionType DEF Emit
<1>2. runtime' \in [Runtime -> World]
  <2>1. runtime \in [Runtime -> World]
    BY TypeFacts
  <2>2. PICK w : w = [runtime[r] EXCEPT !.emitted = runtime[r].emitted + 1,
                        !.epoch = IF event.epoch > runtime[r].epoch THEN event.epoch
                                  ELSE runtime[r].epoch]
    OBVIOUS
  <2>3. w \in World
    BY <1>1, <2>1, <2>2 DEF World
  <2>4. runtime' = [runtime EXCEPT ![r] = w]
    BY <2>1, <2>2 DEF Emit
  <2> QED
    BY <2>1, <2>3, <2>4
<1>3. cb' \in {CbIdle} \cup Busy
  <2>1. alive /\ generation # 0 => generation \in Runtime
    BY TypeFacts, Limits DEF Runtime
  <2> QED
    BY <1>1, <2>1 DEF Emit, Busy
<1>4. TypeOK'
  BY <1>2, <1>3, TypeFacts, TypeAgain DEF Emit
<1>5. cb.pc # "post" /\ cb'.pc # "post"
  BY DEF Emit, CbIdle
<1>6. Counted'
  BY <1>5, CountedStays DEF Emit
<1> QED
  BY <1>4, <1>6

\* A loop weighs a natural number of bytes.
LEMMA BytesNat ==
  ASSUME NEW q \in Seq(Calls)
  PROVE  Bytes(q) \in Nat
<1>1. PICK h : Sums(h, q, Len(q))
  BY BytesTable
<1> QED
  BY <1>1 DEF Sums

\* The callback thread reserves room for its event, or is refused.
LEMMA SoundReserve ==
  ASSUME Sound, Reserve
  PROVE  Sound'
<1> USE DEF Sound
<1>1. cb \in Busy /\ cb.event.size \in Nat /\ cb.pc = "reserve"
  BY CbCases DEF Reserve
<1>2. \A p \in {"reserve", "post", "postStop"} : [cb EXCEPT !.pc = p] \in Busy
  BY <1>1 DEF Busy
<1>3. \A p \in {"reserve", "post", "postStop"} :
        [cb EXCEPT !.pc = p].pc = p /\ [cb EXCEPT !.pc = p].event = cb.event
  BY <1>1 DEF Busy
<1>4. CASE Fits(cb.event.size)
  <2>1. cb' \in Busy /\ cb'.pc = "post" /\ cb'.event = cb.event /\ failed' = failed
        /\ queued' = [events |-> queued.events + 1, bytes |-> queued.bytes + cb.event.size]
    BY <1>2, <1>3, <1>4 DEF Reserve
  <2>2. queued.events \in Nat /\ queued.bytes \in Nat
    BY TypeFacts
  <2>3. queued' \in [events : Nat, bytes : Nat]
    BY <1>1, <2>1, <2>2
  <2>4. TypeOK'
    BY <2>1, <2>3, TypeFacts, TypeAgain DEF Reserve
  <2>5. Counted'
    <3>1. Count(loop) \in Nat /\ Bytes(loop) \in Nat
      BY TypeFacts, EventsFinite, BytesNat
    <3>2. alive' = alive /\ loop' = loop
      BY DEF Reserve
    <3>3. ASSUME alive PROVE queued.events = Count(loop) /\ queued.bytes = Bytes(loop)
      BY <1>1, <3>1, <3>3 DEF Counted
    <3> QED
      BY <1>1, <2>1, <3>1, <3>2, <3>3 DEF Counted
  <2> QED
    BY <2>4, <2>5
<1>5. CASE ~Fits(cb.event.size)
  <2>1. cb' \in {CbIdle} \cup Busy /\ cb'.pc # "post" /\ failed' \in BOOLEAN /\ queued' = queued
    <3>1. cb' = Refused /\ failed' = TRUE /\ queued' = queued
      BY <1>5 DEF Reserve
    <3>2. Refused = CbIdle \/ Refused = [cb EXCEPT !.pc = "postStop"]
      BY DEF Refused
    <3>3. CbIdle.pc = "idle"
      BY DEF CbIdle
    <3> QED
      BY <1>2, <1>3, <3>1, <3>2, <3>3
  <2>2. TypeOK'
    BY <2>1, TypeFacts, TypeAgain DEF Reserve
  <2>3. Counted'
    BY <1>1, <2>1, CountedStays DEF Reserve
  <2> QED
    BY <2>2, <2>3
<1> QED
  BY <1>4, <1>5

\* The callback thread posts the event it reserved room for, or the call to stop.
LEMMA SoundPost ==
  ASSUME Sound, Post
  PROVE  Sound'
<1> USE DEF Sound
<1>1. cb \in Busy /\ cb.pc \in {"post", "postStop"}
  BY CbCases DEF Post
<1>2. PICK c : c = Posted
  OBVIOUS
<1>3. /\ c \in Calls
      /\ cb.pc = "post" => c.call = "event" /\ c.event = cb.event
      /\ cb.pc = "postStop" => c.call # "event"
  BY <1>1, <1>2 DEF Posted, Calls, QueuedCall, StopCall, Busy
<1>4. loop' = Append(loop, c) /\ cb' = CbIdle /\ alive' = alive /\ queued' = queued
  BY <1>2 DEF Post
<1>5. loop' \in Seq(Calls)
  BY <1>3, <1>4, TypeFacts
<1>6. TypeOK'
  BY <1>4, <1>5, TypeFacts, TypeAgain DEF Post
<1>7. Counted'
  BY <1>1, <1>3, <1>4, CountedAfterPost
<1> QED
  BY <1>6, <1>7

-----------------------------------------------------------------------------
(* The types, the counters and the fence over the posted calls.             *)

\* The GUI thread takes an event: it is released first, and then dropped, held or
\* delivered.
LEMMA SoundRunEvent ==
  ASSUME Sound, RunEvent
  PROVE  Sound' /\ (AccountFenced => AccountFenced')
<1> USE DEF Sound
<1>1. Takes("event") /\ cb' = cb /\ alive' = alive
  BY DEF RunEvent
<1>2. Counted' /\ queued' \in [events : Nat, bytes : Nat]
  BY <1>1, CountedAfterTake DEF RunEvent
<1>3. PICK event \in Event : event = Head(loop).event
  BY <1>1, Taken, CallCases
<1>4. loop' \in Seq(Calls)
  BY <1>1, Taken
<1>5. /\ generation' \in 0 .. StartLimit /\ handle' \in 0 .. StartLimit
      /\ gui' \in 0 .. StartLimit
      /\ startup' \in Seq(Event) /\ Len(startup') <= EventLimit
      /\ account' \in Account /\ last' \in History
      /\ AccountFenced => AccountFenced'
  <2>1. CASE UNCHANGED <<generation, handle, startup, account, gui, last>>
    BY <2>1, TypeFacts DEF AccountFenced
  <2>2. CASE BeginStop /\ UNCHANGED <<account, last>>
    BY <2>2, StopTypes, TypeFacts DEF AccountFenced
  <2>3. CASE /\ ~TooMany(event) /\ startup' = Append(startup, event)
             /\ UNCHANGED <<generation, handle, gui, account, last>>
    <3>1. ~(Len(startup) >= EventLimit)
      BY <2>3 DEF TooMany
    <3>2. startup \in Seq(Event) /\ Len(startup) \in Nat
      BY TypeFacts
    <3>3. startup' \in Seq(Event) /\ Len(startup') = Len(startup) + 1
      BY <2>3, <3>2
    <3>4. Len(startup') <= EventLimit
      BY <3>1, <3>2, <3>3, Limits
    <3> QED
      BY <2>3, <3>3, <3>4, TypeFacts DEF AccountFenced
  <2>4. CASE Deliver(<<event>>) /\ UNCHANGED <<generation, handle, startup, gui>>
    <3>1. <<event>> \in Seq(Event)
      OBVIOUS
    <3>2. account' \in Account /\ last' \in History /\ (~last.stray => ~last'.stray)
      BY <2>4, <3>1, DeliverKeeps, TypeFacts
    <3> QED
      BY <2>4, <3>2, TypeFacts DEF AccountFenced
  <2> QED
    BY <1>3, <2>1, <2>2, <2>3, <2>4 DEF RunEvent
<1>6. TypeOK'
  BY <1>1, <1>2, <1>4, <1>5, TypeFacts, TypeAgain DEF RunEvent
<1> QED
  BY <1>2, <1>5, <1>6

\* The GUI thread takes the call to stop.
LEMMA SoundRunOverflow ==
  ASSUME Sound, RunOverflow
  PROVE  Sound'
<1> USE DEF Sound
<1>1. Takes("overflow") /\ cb' = cb /\ alive' = alive /\ queued' = queued
  BY DEF RunOverflow
<1>2. Counted' /\ loop' \in Seq(Calls)
  BY <1>1, CountedAfterTake, Taken
<1>3. /\ generation' \in 0 .. StartLimit /\ handle' \in 0 .. StartLimit
      /\ gui' \in 0 .. StartLimit
      /\ startup' \in Seq(Event) /\ Len(startup') <= EventLimit
  <2>1. BeginStop \/ UNCHANGED <<generation, handle, startup, gui>>
    BY DEF RunOverflow
  <2> QED
    BY <2>1, StopTypes, TypeFacts
<1>4. TypeOK'
  BY <1>1, <1>2, <1>3, TypeFacts, TypeAgain DEF RunOverflow
<1> QED
  BY <1>2, <1>4

\* The start was called off.
LEMMA SoundStartCancelled ==
  ASSUME Sound, StartCancelled
  PROVE  Sound'
<1> USE DEF Sound
<1>1. Takes("started") /\ cb' = cb /\ alive' = alive /\ queued' = queued
  BY DEF StartCancelled
<1>2. Counted' /\ loop' \in Seq(Calls)
  BY <1>1, CountedAfterTake, Taken
<1>3. runtime' \in [Runtime -> World]
  <2>1. PICK r \in Runtime : r = Head(loop).generation
    BY <1>1, Taken, CallCases
  <2>2. Phase(r, "abandoned") \/ runtime' = runtime
    BY <2>1 DEF StartCancelled, Abandoned
  <2> QED
    BY <2>1, <2>2, PhaseKeepsType, TypeFacts DEF Phases
<1>4. TypeOK'
  BY <1>1, <1>2, <1>3, TypeFacts, TypeAgain DEF StartCancelled
<1> QED
  BY <1>2, <1>4

\* The start succeeded: the events held are delivered.
LEMMA SoundStartSucceeded ==
  ASSUME Sound, StartSucceeded
  PROVE  Sound' /\ (AccountFenced => AccountFenced')
<1> USE DEF Sound
<1>1. Takes("started") /\ cb' = cb /\ alive' = alive /\ queued' = queued
  BY DEF StartSucceeded
<1>2. Counted' /\ loop' \in Seq(Calls)
  BY <1>1, CountedAfterTake, Taken
<1>3. PICK r \in Runtime : r = Head(loop).generation
  BY <1>1, Taken, CallCases
<1>4. runtime' \in [Runtime -> World]
  BY <1>3, PhaseKeepsType DEF StartSucceeded, Phases
<1>5. handle' \in 0 .. StartLimit
  BY <1>3, Limits DEF StartSucceeded, Runtime
<1>6. account' \in Account /\ last' \in History /\ (~last.stray => ~last'.stray)
  BY DeliverKeeps, TypeFacts DEF StartSucceeded
<1>7. startup' \in Seq(Event) /\ Len(startup') <= EventLimit
  BY NothingStopped DEF StartSucceeded
<1>8. TypeOK'
  BY <1>1, <1>2, <1>4, <1>5, <1>6, <1>7, TypeFacts, TypeAgain DEF StartSucceeded
<1> QED
  BY <1>2, <1>6, <1>8 DEF AccountFenced

\* The start failed.
LEMMA SoundStartFailed ==
  ASSUME Sound, StartFailed
  PROVE  Sound'
<1> USE DEF Sound
<1>1. Takes("started") /\ cb' = cb /\ alive' = alive /\ queued' = queued
  BY DEF StartFailed
<1>2. Counted' /\ loop' \in Seq(Calls)
  BY <1>1, CountedAfterTake, Taken
<1>3. generation' \in 0 .. StartLimit
  BY Zeros DEF StartFailed
<1>4. TypeOK'
  BY <1>1, <1>2, <1>3, TypeFacts, TypeAgain DEF StartFailed
<1> QED
  BY <1>2, <1>4

\* The inductive invariant of the bridge.
BridgeInv == Sound /\ AccountFenced

\* Every step keeps it.
LEMMA BridgeStep ==
  ASSUME BridgeInv, [Next]_bridgeVars
  PROVE  BridgeInv'
<1>1. Sound /\ AccountFenced
  BY DEF BridgeInv
<1>2. CASE StartAsync
  BY <1>1, <1>2, SoundStartAsync DEF BridgeInv, AccountFenced
<1>3. CASE Stop
  BY <1>1, <1>3, SoundStop DEF BridgeInv, AccountFenced, Stop
<1>4. CASE Destroy
  BY <1>1, <1>4, SoundDestroy DEF BridgeInv, AccountFenced, Destroy
<1>5. CASE Joined
  BY <1>1, <1>5, SoundJoined DEF BridgeInv, AccountFenced, Joined
<1>6. CASE PostedCalls
  <2>1. CASE RunEvent
    BY <1>1, <2>1, SoundRunEvent DEF BridgeInv
  <2>2. CASE RunOverflow
    BY <1>1, <2>2, SoundRunOverflow DEF BridgeInv, AccountFenced, RunOverflow
  <2>3. CASE StartCancelled
    BY <1>1, <2>3, SoundStartCancelled DEF BridgeInv, AccountFenced, StartCancelled
  <2>4. CASE StartSucceeded
    BY <1>1, <2>4, SoundStartSucceeded DEF BridgeInv
  <2>5. CASE StartFailed
    BY <1>1, <2>5, SoundStartFailed DEF BridgeInv, AccountFenced, StartFailed
  <2> QED
    BY <1>6, <2>1, <2>2, <2>3, <2>4, <2>5 DEF PostedCalls
<1>7. CASE RuntimeSide
  <2>1. ASSUME NEW r \in Runtime, NEW ok \in BOOLEAN, KodosiStarts(r, ok) PROVE BridgeInv'
    BY <1>1, <2>1, SoundKodosiStarts DEF BridgeInv, AccountFenced, KodosiStarts
  <2>2. ASSUME NEW r \in Runtime, StopAbandoned(r) PROVE BridgeInv'
    BY <1>1, <2>2, SoundStopAbandoned DEF BridgeInv, AccountFenced, StopAbandoned
  <2>3. ASSUME NEW r \in Runtime, NEW event \in Emission(r), Emit(r, event) PROVE BridgeInv'
    BY <1>1, <2>3, SoundEmit DEF BridgeInv, AccountFenced, Emit
  <2>4. CASE Reserve
    BY <1>1, <2>4, SoundReserve DEF BridgeInv, AccountFenced, Reserve
  <2>5. CASE Post
    BY <1>1, <2>5, SoundPost DEF BridgeInv, AccountFenced, Post
  <2> QED
    BY <1>7, <2>1, <2>2, <2>3, <2>4, <2>5 DEF RuntimeSide
<1>8. CASE UNCHANGED bridgeVars
  <2>1. TypeOK'
    BY <1>1, <1>8, TypeFacts, TypeAgain DEF bridgeVars, Sound
  <2>2. Counted'
    BY <1>1, <1>8, CountedStays DEF bridgeVars, Sound
  <2> QED
    BY <1>1, <1>8, <2>1, <2>2 DEF bridgeVars, Sound, BridgeInv, AccountFenced
<1> QED
  BY <1>2, <1>3, <1>4, <1>5, <1>6, <1>7, <1>8 DEF Next

\* The bridge keeps its inductive invariant, whoever calls it and however the threads
\* interleave.
THEOREM Invariance == Spec => []BridgeInv
<1>1. Init => BridgeInv
  BY InitSound DEF BridgeInv
<1>2. BridgeInv /\ [Next]_bridgeVars => BridgeInv'
  BY BridgeStep
<1> QED
  BY <1>1, <1>2, PTL DEF Spec

\* Every variable of the bridge keeps its type; m_queuedEvents and m_queuedBytes never
\* fall below zero.
THEOREM TypeCorrect == Spec => []TypeOK
<1>1. BridgeInv => TypeOK
  BY DEF BridgeInv, Sound
<1> QED
  BY <1>1, Invariance, PTL

\* The two counters of the event queue hold exactly the events that are posted or about
\* to be, over refusals, stops, restarts and the destructor, whatever the limits are.
THEOREM CountersExactAlways == Spec => []CountersExact
<1>1. BridgeInv => CountersExact
  BY CountedIsExact DEF BridgeInv, Sound
<1> QED
  BY <1>1, Invariance, PTL

\* An event passes the fence of deliverEvent only as an event of the account the bridge
\* is then at, and the epoch of that account never falls while a runtime runs.
THEOREM AccountFencedAlways == Spec => []AccountFenced
<1>1. BridgeInv => AccountFenced
  BY DEF BridgeInv
<1> QED
  BY <1>1, Invariance, PTL

-----------------------------------------------------------------------------
(* The control of the bridge: one runtime at a time, its start and its calls. *)

\* The phases in which a runtime is over, and in which it may call back.
Gone == {"stopped", "failed"}
Living == {"starting", "returned", "running", "abandoned"}

\* The runtime last started is the only one that may be alive; handle, generation and
\* the runtime being stopped are that one or none.
Current ==
  /\ handle \in {0, started} /\ generation \in {0, started} /\ gui \in {0, started}
  /\ starting \/ generation # 0 => started # 0
  /\ handle # 0 => ~starting /\ runtime[started].phase = "running"
  /\ gui # 0 => handle = 0 /\ generation = 0 /\ ~starting /\ runtime[started].phase = "running"
  /\ generation # 0 /\ ~starting => runtime[started].phase = "running"
  /\ \A r \in Runtime : r > started => runtime[r].phase = "none" /\ runtime[r].emitted = 0
  /\ \A r \in Runtime : r < started => runtime[r].phase \in Gone

\* A start that is under way has its thread in kodosi_start, or its one call in the
\* loop, which tells what kodosi_start returned.
StartCalls ==
  /\ \A i \in DOMAIN loop : loop[i].call = "started" =>
       /\ starting /\ loop[i].generation = started
       /\ runtime[started].phase = IF loop[i].ok THEN "returned" ELSE "failed"
  /\ \A i, j \in DOMAIN loop : loop[i].call = "started" /\ loop[j].call = "started" => i = j
  /\ started # 0 /\ runtime[started].phase = "starting" =>
       (alive => starting) /\ \A i \in DOMAIN loop : loop[i].call # "started"

\* A posted event is of the runtime of its generation, and a callback in progress is of
\* the current one.
Owned ==
  /\ \A i \in DOMAIN loop :
       /\ loop[i].generation <= started
       /\ loop[i].call = "event" => loop[i].event.runtime = loop[i].generation
  /\ cb.pc # "idle" =>
       /\ started # 0 /\ cb.generation = started /\ cb.event.runtime = started
       /\ runtime[started].phase \in Living

\* An event is held back only while its runtime is starting; only those of a start that
\* failed stay behind.
Held ==
  \A i \in DOMAIN startup :
    \/ runtime[startup[i].runtime].phase = "failed"
    \/ starting /\ generation = started /\ startup[i].runtime = started

\* The control of the bridge under its one caller.
Control == Current /\ StartCalls /\ Owned /\ Held

\* Generations are naturals, and the one started is a runtime.
LEMMA Numbers ==
  ASSUME TypeOK
  PROVE  /\ started \in Nat /\ generation \in Nat /\ handle \in Nat /\ gui \in Nat
         /\ started \in 0 .. StartLimit
         /\ Runtime \subseteq Nat
         /\ started # 0 => started \in Runtime
  BY TypeFacts, Limits DEF Runtime

\* A loop with a call more.
LEMMA Grown ==
  ASSUME TypeOK, NEW c \in Calls, loop' = Append(loop, c)
  PROVE  /\ DOMAIN loop \in SUBSET Nat /\ DOMAIN loop \subseteq DOMAIN loop'
         /\ \A i \in DOMAIN loop' :
              \/ i \in DOMAIN loop /\ loop'[i] = loop[i]
              \/ i \notin DOMAIN loop /\ loop'[i] = c /\ \A j \in DOMAIN loop : j < i
         /\ \A i, j \in DOMAIN loop' : i \notin DOMAIN loop /\ j \notin DOMAIN loop => i = j
         /\ \E i \in DOMAIN loop' : i \notin DOMAIN loop
         /\ \A i \in DOMAIN loop : loop[i] \in Calls
<1>1. loop \in Seq(Calls)
  BY TypeFacts
<1>2. PICK n \in Nat : n = Len(loop)
  BY <1>1
<1>3. DOMAIN loop = 1 .. n /\ \A i \in 1 .. n : loop[i] \in Calls
  BY <1>1, <1>2
<1>4. /\ DOMAIN loop' = 1 .. n + 1 /\ loop'[n + 1] = c
      /\ \A i \in 1 .. n : loop'[i] = loop[i]
  BY <1>1, <1>2
<1>5. \A i \in 1 .. n + 1 : i \in 1 .. n \/ i = n + 1
  OBVIOUS
<1>6. n + 1 \notin 1 .. n /\ (\A j \in 1 .. n : j < n + 1) /\ n + 1 \in 1 .. n + 1
  OBVIOUS
<1> QED
  BY <1>3, <1>4, <1>5, <1>6

\* A loop with its first call taken.
LEMMA Shrunk ==
  ASSUME TypeOK, NEW name, Takes(name)
  PROVE  /\ DOMAIN loop \in SUBSET Nat /\ DOMAIN loop' \in SUBSET Nat
         /\ 1 \in DOMAIN loop /\ loop[1] = Head(loop) /\ loop[1] \in Calls
         /\ loop[1].call = name
         /\ \A i \in DOMAIN loop' : i + 1 \in DOMAIN loop /\ loop'[i] = loop[i + 1] /\ i + 1 # 1
         /\ \A i \in DOMAIN loop : /\ loop[i] \in Calls
                                   /\ i # 1 => i - 1 \in DOMAIN loop' /\ loop'[i - 1] = loop[i]
         /\ alive /\ gui = 0
<1>1. loop \in Seq(Calls) /\ loop # <<>> /\ loop' = Tail(loop)
  BY TypeFacts, Taken
<1>2. PICK n \in Nat : Len(loop) = n + 1
  <2>1. Len(loop) \in Nat /\ Len(loop) # 0
    BY <1>1
  <2>2. Len(loop) - 1 \in Nat /\ Len(loop) = (Len(loop) - 1) + 1
    BY <2>1
  <2> QED
    BY <2>2
<1>3. /\ DOMAIN loop = 1 .. n + 1 /\ \A i \in 1 .. n + 1 : loop[i] \in Calls
      /\ loop[1] = Head(loop)
  BY <1>1, <1>2
<1>4. DOMAIN loop' = 1 .. n /\ \A i \in 1 .. n : loop'[i] = loop[i + 1]
  BY <1>1, <1>2
<1>5. \A i \in 1 .. n : i + 1 \in 1 .. n + 1 /\ i + 1 # 1
  OBVIOUS
<1>6. \A i \in 1 .. n + 1 : i # 1 => i - 1 \in 1 .. n /\ (i - 1) + 1 = i
  OBVIOUS
<1>7. 1 \in 1 .. n + 1 /\ 1 .. n \in SUBSET Nat /\ 1 .. n + 1 \in SUBSET Nat
  OBVIOUS
<1>8. alive /\ gui = 0 /\ Head(loop).call = name
  BY DEF Takes, GuiFree
<1> QED
  BY <1>3, <1>4, <1>5, <1>6, <1>7, <1>8

\* A runtime that changes its phase changes nothing else, and no other changes.
LEMMA PhaseMeans ==
  ASSUME TypeOK, NEW r \in Runtime, NEW p, Phase(r, p)
  PROVE  /\ runtime'[r].phase = p /\ runtime'[r].emitted = runtime[r].emitted
         /\ \A s \in Runtime : s # r => runtime'[s] = runtime[s]
         /\ \A s \in Runtime : runtime'[s].emitted = runtime[s].emitted
<1>1. runtime \in [Runtime -> World] /\ runtime' = [runtime EXCEPT ![r].phase = p]
  BY TypeFacts DEF Phase
<1>2. runtime[r] \in World
  BY <1>1
<1> QED
  BY <1>1, <1>2 DEF World

\* An event held is of some runtime.
LEMMA HeldRuntime ==
  ASSUME TypeOK, NEW i \in DOMAIN startup
  PROVE  startup[i].runtime \in Runtime /\ startup[i].n \in Nat /\ i \in Nat
<1>1. startup \in Seq(Event)
  BY TypeFacts
<1>2. startup[i] \in Event /\ i \in Nat
  BY <1>1
<1> QED
  BY <1>2 DEF Event

\* Nothing is started in the beginning.
LEMMA InitControl == Init => Control
  BY DEF Init, Control, Current, StartCalls, Owned, Held, CbIdle, Runtime

\* What stop() leaves behind.
LEMMA ControlAfterStop ==
  ASSUME TypeOK, Control, BeginStop, starting' = starting, started' = started
  PROVE  /\ Held' /\ handle' = 0 /\ generation' = 0 /\ gui' \in {0, started} /\ startup' = <<>>
         /\ gui' # 0 => ~starting /\ runtime[started].phase = "running"
  BY DEF Control, Current, Held, BeginStop

\* startAsync, when every earlier runtime is over: the lifecycle never calls it before.
\* The new generation then has no event held, posted or called back.
LEMMA ControlStartAsync ==
  ASSUME TypeOK, Control, StartAsync,
         \A r \in Runtime : r <= started => runtime[r].phase \in Gone
  PROVE  Control'
<1> USE DEF Control
<1>1. PICK n \in Runtime : n = started + 1
  <2>1. started < StartLimit
    BY DEF StartAsync
  <2> QED
    BY <2>1, Numbers, Limits DEF Runtime
<1>2. /\ started' = n /\ generation' = n /\ starting' = TRUE /\ handle' = 0 /\ gui' = 0
      /\ loop' = loop /\ cb' = cb /\ startup' = startup /\ alive' = alive
      /\ started \in Nat /\ n \in Nat /\ n # 0 /\ n > started
      /\ handle = 0 /\ gui = 0 /\ alive /\ ~starting
  BY <1>1, Numbers DEF StartAsync, GuiFree, Runtime
<1>3. /\ runtime'[n].phase = "starting"
      /\ \A s \in Runtime : s # n => runtime'[s] = runtime[s]
      /\ \A s \in Runtime : runtime'[s].emitted = runtime[s].emitted
  BY <1>1, PhaseMeans DEF StartAsync
<1>4. \A r \in Runtime : r \in Nat
  BY DEF Runtime
<1>5. Current'
  <2>1. \A r \in Runtime : r > n => r > started /\ r # n
    BY <1>2, <1>4
  <2>2. \A r \in Runtime : r < n => r <= started /\ r # n
    BY <1>1, <1>2, <1>4
  <2> QED
    BY <1>2, <1>3, <2>1, <2>2 DEF Current
<1>6. cb.pc = "idle"
  <2>1. ASSUME cb.pc # "idle" PROVE FALSE
    <3>1. started # 0 /\ runtime[started].phase \in Living
      BY <2>1 DEF Owned
    <3>2. started \in Runtime /\ started <= started
      BY <3>1, Numbers
    <3> QED
      BY <3>1, <3>2 DEF Living, Gone
  <2> QED
    BY <2>1
<1>7. StartCalls'
  <2>1. \A i \in DOMAIN loop : loop[i].call # "started"
    BY <1>2 DEF StartCalls
  <2> QED
    BY <1>2, <2>1 DEF StartCalls
<1>8. Owned'
  <2>1. \A i \in DOMAIN loop : loop[i].generation \in Nat
    <3>1. loop \in Seq(Calls)
      BY TypeFacts
    <3>2. \A i \in DOMAIN loop : loop[i] \in Calls
      BY <3>1
    <3> QED
      BY <3>2, <1>4, CallCases
  <2>2. \A i \in DOMAIN loop : loop[i].generation <= n
    BY <1>2, <2>1 DEF Owned
  <2> QED
    BY <1>2, <1>6, <2>2 DEF Owned
<1>9. Held'
  <2>1. ASSUME NEW i \in DOMAIN startup PROVE runtime'[startup[i].runtime].phase = "failed"
    <3>1. runtime[startup[i].runtime].phase = "failed" /\ startup[i].runtime \in Runtime
      BY <1>2, HeldRuntime DEF Held
    <3>2. runtime[n].phase = "none"
      BY <1>1, <1>2 DEF Current
    <3> QED
      BY <1>3, <3>1, <3>2
  <2> QED
    BY <1>2, <2>1 DEF Held
<1> QED
  BY <1>5, <1>7, <1>8, <1>9

\* Only the current runtime is alive.
LEMMA OnlyCurrent ==
  ASSUME TypeOK, Current, NEW r \in Runtime,
         runtime[r].phase \in Living
  PROVE  r = started /\ started # 0
<1>1. r \in Nat /\ started \in Nat /\ r # 0
  BY Numbers DEF Runtime
<1>2. ~(r > started) /\ ~(r < started)
  BY DEF Current, Living, Gone
<1> QED
  BY <1>1, <1>2

\* The start thread posts its call, or gives the handle to kodosi_stop.
LEMMA ControlKodosiStarts ==
  ASSUME TypeOK, Control, NEW r \in Runtime, NEW ok \in BOOLEAN, KodosiStarts(r, ok)
  PROVE  Control'
<1> USE DEF Control
<1>1. r = started /\ started # 0 /\ runtime[r].phase = "starting" /\ cb.pc = "idle"
  BY OnlyCurrent DEF KodosiStarts, Living
<1>2. /\ starting' = starting /\ started' = started /\ generation' = generation /\ cb' = cb
      /\ startup' = startup /\ alive' = alive /\ handle' = handle /\ gui' = gui
  BY DEF KodosiStarts
<1>3. PICK p : Phase(r, p) /\ p = IF ok THEN IF alive THEN "returned" ELSE "abandoned" ELSE "failed"
  BY DEF KodosiStarts
<1>4. /\ runtime'[r].phase = p
      /\ \A s \in Runtime : s # r => runtime'[s] = runtime[s]
      /\ \A s \in Runtime : runtime'[s].emitted = runtime[s].emitted
  BY <1>3, PhaseMeans
<1>5. \A s \in Runtime : s \in Nat /\ started \in Nat
  BY Numbers
<1>6. Current'
  <2>1. \A s \in Runtime : (s > started \/ s < started) => s # r
    BY <1>1, <1>5
  <2> QED
    BY <1>1, <1>2, <1>4, <2>1 DEF Current
<1>7. \A i \in DOMAIN loop : loop[i].call # "started"
  BY <1>1 DEF StartCalls
<1>8. Held'
  <2>1. ASSUME NEW i \in DOMAIN startup, runtime[startup[i].runtime].phase = "failed"
        PROVE  runtime'[startup[i].runtime].phase = "failed"
    BY <1>1, <1>4, <2>1, HeldRuntime
  <2> QED
    BY <1>2, <2>1 DEF Held
<1>9. CASE alive
  <2>1. PICK c : c = [call |-> "started", generation |-> r, ok |-> ok]
    OBVIOUS
  <2>2. c \in Calls /\ c.call = "started" /\ c.generation = r /\ c.ok = ok
    BY <2>1 DEF Calls, StartCall
  <2>3. loop' = Append(loop, c)
    BY <1>9, <2>1 DEF KodosiStarts
  <2>4. \A i \in DOMAIN loop' : \/ i \in DOMAIN loop /\ loop'[i] = loop[i]
                                \/ i \notin DOMAIN loop /\ loop'[i] = c
    BY <2>2, <2>3, Grown
  <2>5. \A i, j \in DOMAIN loop' : i \notin DOMAIN loop /\ j \notin DOMAIN loop => i = j
    BY <2>2, <2>3, Grown
  <2>6. starting
    BY <1>1, <1>9 DEF StartCalls
  <2>7. StartCalls'
    <3>1. \A i \in DOMAIN loop' : loop'[i].call = "started" => loop'[i] = c /\ i \notin DOMAIN loop
      BY <1>7, <2>4
    <3>2. p = IF ok THEN "returned" ELSE "failed"
      BY <1>3, <1>9
    <3>3. p # "starting"
      BY <3>2
    <3> QED
      BY <1>1, <1>2, <1>4, <2>2, <2>5, <2>6, <3>1, <3>2, <3>3 DEF StartCalls
  <2>8. Owned'
    <3>1. r <= started
      BY <1>1, <1>5
    <3> QED
      BY <1>1, <1>2, <2>2, <2>4, <3>1 DEF Owned
  <2> QED
    BY <1>6, <1>8, <2>7, <2>8
<1>10. CASE ~alive
  <2>1. loop' = loop
    BY <1>10 DEF KodosiStarts
  <2>2. StartCalls'
    BY <1>2, <1>7, <1>10, <2>1 DEF StartCalls
  <2>3. Owned'
    BY <1>1, <1>2, <2>1 DEF Owned
  <2> QED
    BY <1>6, <1>8, <2>2, <2>3
<1> QED
  BY <1>9, <1>10

\* stop.
LEMMA ControlStop ==
  ASSUME TypeOK, Control, Stop
  PROVE  Control'
<1>1. /\ starting' = starting /\ started' = started /\ runtime' = runtime /\ loop' = loop
      /\ cb' = cb /\ alive' = alive /\ BeginStop
  BY DEF Stop
<1>2. /\ Held' /\ handle' = 0 /\ generation' = 0 /\ gui' \in {0, started}
      /\ gui' # 0 => ~starting /\ runtime[started].phase = "running"
  BY <1>1, ControlAfterStop
<1>3. Current'
  BY <1>1, <1>2 DEF Control, Current
<1>4. StartCalls' /\ Owned'
  BY <1>1 DEF Control, StartCalls, Owned
<1> QED
  BY <1>2, <1>3, <1>4 DEF Control

\* kodosi_stop returns: no callback is in progress.
LEMMA ControlJoined ==
  ASSUME TypeOK, Control, Joined
  PROVE  Control'
<1> USE DEF Control
<1>1. /\ gui = started /\ started # 0 /\ started \in Runtime /\ ~starting /\ generation = 0
      /\ handle = 0 /\ runtime[started].phase = "running"
  BY Numbers DEF Joined, Current
<1>2. /\ starting' = starting /\ started' = started /\ generation' = generation /\ cb' = cb
      /\ startup' = startup /\ alive' = alive /\ handle' = handle /\ gui' = 0 /\ loop' = loop
  BY DEF Joined
<1>3. /\ runtime'[started].phase = "stopped"
      /\ \A s \in Runtime : s # started => runtime'[s] = runtime[s]
      /\ \A s \in Runtime : runtime'[s].emitted = runtime[s].emitted
  BY <1>1, PhaseMeans DEF Joined
<1>4. \A s \in Runtime : s \in Nat /\ started \in Nat
  BY Numbers
<1>5. Current'
  <2>1. \A s \in Runtime : (s > started \/ s < started) => s # started
    BY <1>4
  <2> QED
    BY <1>1, <1>2, <1>3, <2>1 DEF Current
<1>6. cb.pc = "idle"
  BY <1>1 DEF Owned, Joined, InCallback
<1>7. StartCalls' /\ Owned'
  BY <1>1, <1>2, <1>3, <1>6 DEF StartCalls, Owned
<1>8. Held'
  <2>1. ASSUME NEW i \in DOMAIN startup
        PROVE  runtime'[startup[i].runtime].phase = "failed"
    <3>1. runtime[startup[i].runtime].phase = "failed"
      BY <1>1 DEF Held
    <3> QED
      BY <1>1, <1>3, <3>1, HeldRuntime
  <2> QED
    BY <1>2, <2>1 DEF Held
<1> QED
  BY <1>5, <1>7, <1>8

\* An abandoned runtime is stopped.
LEMMA ControlStopAbandoned ==
  ASSUME TypeOK, Control, NEW r \in Runtime, StopAbandoned(r)
  PROVE  Control'
<1> USE DEF Control
<1>1. r = started /\ started # 0 /\ runtime[r].phase = "abandoned"
  BY OnlyCurrent DEF StopAbandoned, Living
<1>2. /\ starting' = starting /\ started' = started /\ generation' = generation /\ cb' = cb
      /\ startup' = startup /\ alive' = alive /\ handle' = handle /\ gui' = gui /\ loop' = loop
  BY DEF StopAbandoned
<1>3. /\ runtime'[started].phase = "stopped"
      /\ \A s \in Runtime : s # started => runtime'[s] = runtime[s]
      /\ \A s \in Runtime : runtime'[s].emitted = runtime[s].emitted
  BY <1>1, PhaseMeans DEF StopAbandoned
<1>4. \A s \in Runtime : s \in Nat /\ started \in Nat
  BY Numbers
<1>5. Current'
  <2>1. \A s \in Runtime : (s > started \/ s < started) => s # started
    BY <1>4
  <2> QED
    BY <1>1, <1>2, <1>3, <2>1 DEF Current
<1>6. cb.pc = "idle"
  BY <1>1 DEF Owned, StopAbandoned, InCallback
<1>7. \A i \in DOMAIN loop : loop[i].call # "started"
  BY <1>1 DEF StartCalls
<1>8. StartCalls' /\ Owned'
  BY <1>1, <1>2, <1>3, <1>6, <1>7 DEF StartCalls, Owned
<1>9. Held'
  <2>1. ASSUME NEW i \in DOMAIN startup, runtime[startup[i].runtime].phase = "failed"
        PROVE  runtime'[startup[i].runtime].phase = "failed"
    BY <1>1, <1>3, <2>1, HeldRuntime
  <2> QED
    BY <1>2, <2>1 DEF Held
<1> QED
  BY <1>5, <1>8, <1>9

\* The destructor.
LEMMA ControlDestroy ==
  ASSUME TypeOK, Control, Destroy
  PROVE  Control'
<1>1. /\ starting' = starting /\ started' = started /\ loop' = <<>>
      /\ cb' = cb /\ cb.pc = "idle" /\ alive' = FALSE /\ BeginStop
  BY DEF Destroy
<1>2. \A r \in Runtime :
        /\ runtime'[r].emitted = runtime[r].emitted
        /\ runtime'[r].phase = IF runtime[r].phase = "returned" THEN "abandoned"
                               ELSE runtime[r].phase
  <2>1. \A r \in Runtime : runtime[r] \in World
    BY TypeFacts
  <2> QED
    BY <2>1 DEF Destroy, World
<1>3. /\ startup' = <<>> /\ handle' = 0 /\ generation' = 0 /\ gui' \in {0, started}
      /\ gui' # 0 => ~starting /\ runtime[started].phase = "running"
  BY <1>1, ControlAfterStop
<1>4. started # 0 => started \in Runtime
  BY Numbers
<1>5. Current'
  BY <1>1, <1>2, <1>3, <1>4 DEF Control, Current, Gone
<1>6. StartCalls' /\ Owned' /\ Held'
  BY <1>1, <1>3 DEF StartCalls, Owned, Held
<1> QED
  BY <1>5, <1>6 DEF Control

\* A callback begins: the generation it loads is that of its runtime.
LEMMA ControlEmit ==
  ASSUME TypeOK, Control, NEW r \in Runtime, NEW event \in Emission(r), Emit(r, event)
  PROVE  Control'
<1> USE DEF Control
<1>1. r = started /\ started # 0 /\ runtime[r].phase \in Living /\ cb.pc = "idle"
  BY OnlyCurrent DEF Emit, Living
<1>2. /\ starting' = starting /\ started' = started /\ generation' = generation
      /\ startup' = startup /\ alive' = alive /\ handle' = handle /\ gui' = gui /\ loop' = loop
  BY DEF Emit
<1>3. /\ \A s \in Runtime : runtime'[s].phase = runtime[s].phase
      /\ \A s \in Runtime : s # r => runtime'[s] = runtime[s]
  <2>1. runtime \in [Runtime -> World]
    BY TypeFacts
  <2>2. runtime[r] \in World
    BY <2>1
  <2> QED
    BY <2>1, <2>2 DEF Emit, World
<1>4. \A s \in Runtime : s \in Nat /\ started \in Nat
  BY Numbers
<1>5. started \in Runtime
  BY <1>1
<1>6. Current'
  <2>1. \A s \in Runtime : s > started => s # r
    BY <1>1, <1>4
  <2> QED
    BY <1>1, <1>2, <1>3, <2>1 DEF Current
<1>7. cb'.pc # "idle" => cb'.generation = started /\ cb'.event.runtime = started
  <2>1. event.runtime = r
    BY EmissionType DEF Emit
  <2>2. cb' = CbIdle \/ (generation # 0 /\ cb' = [pc |-> "reserve", generation |-> generation,
                                                  event |-> event])
    BY DEF Emit
  <2>3. generation # 0 => generation = started
    BY DEF Current
  <2> QED
    BY <1>1, <2>1, <2>2, <2>3 DEF CbIdle
<1>8. Owned'
  BY <1>1, <1>2, <1>3, <1>5, <1>7 DEF Owned
<1>9. StartCalls'
  BY <1>1, <1>2, <1>3, <1>5 DEF StartCalls
<1>10. Held'
  BY <1>2, <1>3, HeldRuntime DEF Held
<1> QED
  BY <1>6, <1>8, <1>9, <1>10

\* What a callback does to reserve room, case by case.
LEMMA ReserveMeans ==
  ASSUME TypeOK, Reserve
  PROVE  /\ cb.pc = "reserve" /\ cb \in Busy
         /\ \/ /\ cb'.pc = "post" /\ cb'.event = cb.event /\ cb'.generation = cb.generation
               /\ failed' = failed
            \/ ~failed /\ cb'.pc = "postStop" /\ cb'.event = cb.event
               /\ cb'.generation = cb.generation /\ failed' = TRUE
            \/ failed /\ cb' = CbIdle /\ cb'.pc = "idle" /\ failed' = TRUE
         /\ UNCHANGED <<alive, starting, generation, started, handle, startup, loop, account,
                        gui, runtime, last>>
<1>1. cb \in Busy /\ cb.pc = "reserve"
  BY CbCases DEF Reserve
<1>2. \A p \in {"post", "postStop"} :
        /\ [cb EXCEPT !.pc = p].pc = p /\ [cb EXCEPT !.pc = p].event = cb.event
        /\ [cb EXCEPT !.pc = p].generation = cb.generation
  BY <1>1 DEF Busy
<1>3. CbIdle.pc = "idle"
  BY DEF CbIdle
<1> QED
  BY <1>1, <1>2, <1>3 DEF Reserve, Refused

\* Room is reserved, or refused.
LEMMA ControlReserve ==
  ASSUME TypeOK, Control, Reserve
  PROVE  Control'
<1>1. /\ cb.pc = "reserve"
      /\ \/ cb'.event = cb.event /\ cb'.generation = cb.generation
         \/ cb'.pc = "idle"
      /\ UNCHANGED <<alive, starting, generation, started, handle, startup, loop, account,
                     gui, runtime, last>>
  BY ReserveMeans
<1>2. Owned'
  BY <1>1 DEF Control, Owned
<1>3. Current' /\ StartCalls' /\ Held'
  BY <1>1 DEF Control, Current, StartCalls, Held
<1> QED
  BY <1>2, <1>3 DEF Control

\* What a callback posts.
LEMMA PostMeans ==
  ASSUME TypeOK, Post
  PROVE  /\ cb \in Busy /\ cb.pc \in {"post", "postStop"}
         /\ \E c \in Calls :
              /\ loop' = Append(loop, c) /\ c.generation = cb.generation
              /\ cb.pc = "post" => c.call = "event" /\ c.event = cb.event
              /\ cb.pc = "postStop" => c.call = "overflow"
         /\ cb' = CbIdle /\ cb'.pc = "idle"
         /\ UNCHANGED <<alive, starting, generation, started, handle, failed, queued, startup,
                        account, gui, runtime, last>>
<1>1. cb \in Busy /\ cb.pc \in {"post", "postStop"}
  BY CbCases DEF Post
<1>2. PICK c : c = Posted
  OBVIOUS
<1>3. /\ c \in Calls /\ c.generation = cb.generation
      /\ cb.pc = "post" => c.call = "event" /\ c.event = cb.event
      /\ cb.pc = "postStop" => c.call = "overflow"
  BY <1>1, <1>2 DEF Posted, Calls, QueuedCall, StopCall, Busy
<1>4. loop' = Append(loop, c) /\ cb' = CbIdle /\ cb'.pc = "idle"
  BY <1>2 DEF Post, CbIdle
<1> QED
  BY <1>1, <1>3, <1>4 DEF Post

\* A callback posts its call.
LEMMA ControlPost ==
  ASSUME TypeOK, Control, Post
  PROVE  Control'
<1>1. PICK c \in Calls :
        /\ loop' = Append(loop, c) /\ c.generation = cb.generation
        /\ cb.pc = "post" => c.call = "event" /\ c.event = cb.event
        /\ cb.pc = "postStop" => c.call = "overflow"
  BY PostMeans
<1>2. /\ cb.pc \in {"post", "postStop"} /\ cb'.pc = "idle"
      /\ UNCHANGED <<alive, starting, generation, started, handle, failed, queued, startup,
                     account, gui, runtime, last>>
  BY PostMeans
<1>3. /\ c.call # "started" /\ c.generation = started
      /\ c.call = "event" => c.event.runtime = started
  BY <1>1, <1>2 DEF Control, Owned
<1>4. \A i \in DOMAIN loop' : \/ i \in DOMAIN loop /\ loop'[i] = loop[i]
                              \/ i \notin DOMAIN loop /\ loop'[i] = c
  BY <1>1, Grown
<1>5. started <= started
  BY Numbers
<1>6. Owned'
  BY <1>2, <1>3, <1>4, <1>5 DEF Control, Owned
<1>7. StartCalls'
  <2>1. \A i \in DOMAIN loop' : loop'[i].call = "started" => i \in DOMAIN loop /\ loop'[i] = loop[i]
    BY <1>3, <1>4
  <2> QED
    BY <1>2, <2>1 DEF Control, StartCalls
<1>8. Current' /\ Held'
  BY <1>2 DEF Control, Current, Held
<1> QED
  BY <1>6, <1>7, <1>8 DEF Control

\* What taking a call does to the parts that speak of the loop.
LEMMA LoopAfterTake ==
  ASSUME TypeOK, Control, NEW name, Takes(name), UNCHANGED <<alive, started, cb>>,
         \/ name # "started" /\ UNCHANGED <<starting, runtime>>
         \/ /\ name = "started" /\ starting' = FALSE
            /\ runtime'[started].phase # "starting"
            /\ cb.pc # "idle" => runtime'[started].phase \in Living
  PROVE  StartCalls' /\ Owned'
<1> USE DEF Control
<1>1. /\ \A i \in DOMAIN loop' : i + 1 \in DOMAIN loop /\ loop'[i] = loop[i + 1] /\ i + 1 # 1
                                 /\ i \in Nat
      /\ 1 \in DOMAIN loop /\ loop[1].call = name /\ loop[1] \in Calls
  <2>1. DOMAIN loop' \in SUBSET Nat
    BY Shrunk
  <2> QED
    BY <2>1, Shrunk
<1>2. Owned'
  BY <1>1 DEF Owned
<1>3. CASE name # "started"
  <2>1. UNCHANGED <<starting, runtime>>
    BY <1>3
  <2>2. ASSUME NEW i \in DOMAIN loop', NEW j \in DOMAIN loop',
               loop'[i].call = "started", loop'[j].call = "started"
        PROVE  i = j
    <3>1. i + 1 = j + 1 /\ i \in Nat /\ j \in Nat
      BY <1>1, <2>2 DEF StartCalls
    <3> QED
      BY <3>1
  <2> QED
    BY <1>1, <1>2, <2>1, <2>2 DEF StartCalls
<1>4. CASE name = "started"
  <2>1. \A i \in DOMAIN loop' : loop'[i].call # "started"
    BY <1>1, <1>4 DEF StartCalls
  <2>2. runtime'[started].phase # "starting"
    BY <1>4
  <2> QED
    BY <1>2, <2>1, <2>2 DEF StartCalls
<1> QED
  BY <1>3, <1>4

\* An event is taken.
LEMMA ControlRunEvent ==
  ASSUME TypeOK, Control, RunEvent
  PROVE  Control'
<1> USE DEF Control
<1>1. Takes("event") /\ UNCHANGED <<alive, starting, started, failed, cb, runtime>>
  BY DEF RunEvent
<1>2. StartCalls' /\ Owned'
  BY <1>1, LoopAfterTake
<1>3. /\ 1 \in DOMAIN loop /\ loop[1] = Head(loop) /\ loop[1].call = "event"
      /\ loop[1] \in Calls
  BY <1>1, Shrunk
<1>4. PICK event \in Event : event = Head(loop).event /\ event.runtime = Head(loop).generation
  BY <1>3, CallCases DEF Owned
<1>5. CASE UNCHANGED <<generation, handle, startup, gui>>
  BY <1>1, <1>2, <1>5 DEF Current, Held
<1>6. CASE BeginStop
  <2>1. /\ Held' /\ handle' = 0 /\ generation' = 0 /\ gui' \in {0, started}
        /\ gui' # 0 => ~starting /\ runtime[started].phase = "running"
    BY <1>1, <1>6, ControlAfterStop
  <2> QED
    BY <1>1, <1>2, <2>1 DEF Current
<1>7. CASE /\ StillActive(Head(loop).generation) /\ starting
           /\ startup' = Append(startup, event) /\ UNCHANGED <<generation, handle, gui>>
  <2>1. generation = started /\ event.runtime = started
    BY <1>3, <1>4, <1>7, CallCases, Numbers DEF StillActive, Current, Runtime
  <2>2. \A i \in DOMAIN startup' : \/ i \in DOMAIN startup /\ startup'[i] = startup[i]
                                   \/ startup'[i] = event
    BY <1>7, TypeFacts
  <2>3. Held'
    BY <1>1, <1>7, <2>1, <2>2 DEF Held
  <2>4. Current'
    BY <1>1, <1>7 DEF Current
  <2> QED
    BY <1>2, <2>3, <2>4
<1> QED
  BY <1>4, <1>5, <1>6, <1>7 DEF RunEvent

\* The call to stop is taken.
LEMMA ControlRunOverflow ==
  ASSUME TypeOK, Control, RunOverflow
  PROVE  Control'
<1> USE DEF Control
<1>1. Takes("overflow") /\ UNCHANGED <<alive, starting, started, failed, cb, runtime>>
  BY DEF RunOverflow
<1>2. StartCalls' /\ Owned'
  BY <1>1, LoopAfterTake
<1>3. CASE UNCHANGED <<generation, handle, startup, gui>>
  BY <1>1, <1>2, <1>3 DEF Current, Held
<1>4. CASE BeginStop
  <2>1. /\ Held' /\ handle' = 0 /\ generation' = 0 /\ gui' \in {0, started}
        /\ gui' # 0 => ~starting /\ runtime[started].phase = "running"
    BY <1>1, <1>4, ControlAfterStop
  <2> QED
    BY <1>1, <1>2, <2>1 DEF Current
<1> QED
  BY <1>3, <1>4 DEF RunOverflow

\* The call of the start thread is of the runtime last started.
LEMMA StartTaken ==
  ASSUME TypeOK, Control, Takes("started")
  PROVE  /\ starting /\ started # 0 /\ started \in Runtime
         /\ Head(loop).generation = started /\ Head(loop).ok \in BOOLEAN
         /\ runtime[started].phase = IF Head(loop).ok THEN "returned" ELSE "failed"
         /\ handle = 0 /\ gui = 0
         /\ ~Head(loop).ok => cb.pc = "idle"
<1>1. /\ 1 \in DOMAIN loop /\ loop[1] = Head(loop) /\ loop[1].call = "started"
      /\ loop[1] \in Calls
  BY Shrunk
<1>2. /\ starting /\ Head(loop).generation = started
      /\ runtime[started].phase = IF Head(loop).ok THEN "returned" ELSE "failed"
  BY <1>1 DEF Control, StartCalls
<1>3. started # 0 /\ started \in Runtime /\ handle = 0 /\ gui = 0
  BY <1>2, Numbers DEF Control, Current
<1>4. Head(loop).ok \in BOOLEAN
  BY <1>1, CallCases
<1>5. ~Head(loop).ok => cb.pc = "idle"
  BY <1>2 DEF Control, Owned, Living
<1> QED
  BY <1>2, <1>3, <1>4, <1>5

\* The start was called off: its runtime is abandoned.
LEMMA ControlStartCancelled ==
  ASSUME TypeOK, Control, StartCancelled
  PROVE  Control'
<1> USE DEF Control
<1>1. /\ Takes("started") /\ starting' = FALSE
      /\ UNCHANGED <<alive, generation, started, handle, failed, queued, startup, account, cb,
                     gui, last>>
      /\ ~(generation = Head(loop).generation)
  BY DEF StartCancelled, StillActive
<1>2. /\ starting /\ started # 0 /\ started \in Runtime
      /\ Head(loop).generation = started /\ Head(loop).ok \in BOOLEAN
      /\ runtime[started].phase = IF Head(loop).ok THEN "returned" ELSE "failed"
      /\ handle = 0 /\ gui = 0
      /\ ~Head(loop).ok => cb.pc = "idle"
  BY <1>1, StartTaken
<1>3. generation = 0
  BY <1>1, <1>2 DEF Current
<1>4. /\ runtime'[started].phase = IF Head(loop).ok THEN "abandoned" ELSE "failed"
      /\ \A s \in Runtime : s # started => runtime'[s] = runtime[s]
      /\ \A s \in Runtime : runtime'[s].emitted = runtime[s].emitted
  <2>1. CASE Head(loop).ok
    <3>1. Phase(started, "abandoned")
      BY <1>2, <2>1 DEF StartCancelled, Abandoned
    <3> QED
      BY <1>2, <2>1, <3>1, PhaseMeans
  <2>2. CASE ~Head(loop).ok
    <3>1. runtime' = runtime
      BY <2>2 DEF StartCancelled
    <3> QED
      BY <1>2, <2>2, <3>1
  <2> QED
    BY <2>1, <2>2
<1>5. \A s \in Runtime : s \in Nat /\ started \in Nat
  BY Numbers
<1>6. Current'
  <2>1. \A s \in Runtime : (s > started \/ s < started) => s # started
    BY <1>5
  <2> QED
    BY <1>1, <1>2, <1>3, <1>4, <2>1 DEF Current
<1>7. StartCalls' /\ Owned'
  <2>1. runtime'[started].phase # "starting"
    BY <1>4
  <2>2. cb.pc # "idle" => runtime'[started].phase \in Living
    BY <1>2, <1>4 DEF Living
  <2> QED
    BY <1>1, <2>1, <2>2, LoopAfterTake
<1>8. Held'
  <2>1. ASSUME NEW i \in DOMAIN startup PROVE runtime'[startup[i].runtime].phase = "failed"
    <3>1. runtime[startup[i].runtime].phase = "failed"
      BY <1>2, <1>3 DEF Held
    <3> QED
      BY <1>2, <1>4, <3>1, HeldRuntime
  <2> QED
    BY <1>1, <2>1 DEF Held
<1> QED
  BY <1>6, <1>7, <1>8

\* The start succeeded: its runtime is installed.
LEMMA ControlStartSucceeded ==
  ASSUME TypeOK, Control, StartSucceeded
  PROVE  Control'
<1> USE DEF Control
<1>1. /\ Takes("started") /\ starting' = FALSE /\ startup' = <<>>
      /\ handle' = Head(loop).generation
      /\ UNCHANGED <<alive, generation, started, failed, queued, cb, gui>>
      /\ generation = Head(loop).generation
      /\ Phase(Head(loop).generation, "running")
  BY DEF StartSucceeded, StillActive
<1>2. /\ starting /\ started # 0 /\ started \in Runtime /\ gui = 0
      /\ Head(loop).generation = started
  BY <1>1, StartTaken
<1>3. /\ runtime'[started].phase = "running"
      /\ \A s \in Runtime : s # started => runtime'[s] = runtime[s]
      /\ \A s \in Runtime : runtime'[s].emitted = runtime[s].emitted
  BY <1>1, <1>2, PhaseMeans
<1>4. \A s \in Runtime : s \in Nat /\ started \in Nat
  BY Numbers
<1>5. Current'
  <2>1. \A s \in Runtime : (s > started \/ s < started) => s # started
    BY <1>4
  <2> QED
    BY <1>1, <1>2, <1>3, <2>1 DEF Current
<1>6. StartCalls' /\ Owned'
  BY <1>1, <1>3, LoopAfterTake DEF Living
<1>7. Held'
  BY <1>1 DEF Held
<1> QED
  BY <1>5, <1>6, <1>7

\* The start failed.
LEMMA ControlStartFailed ==
  ASSUME TypeOK, Control, StartFailed
  PROVE  Control'
<1> USE DEF Control
<1>1. /\ Takes("started") /\ starting' = FALSE /\ generation' = 0 /\ ~Head(loop).ok
      /\ UNCHANGED <<alive, started, handle, failed, queued, startup, account, cb, gui,
                     runtime, last>>
  BY DEF StartFailed
<1>2. /\ starting /\ started # 0 /\ started \in Runtime /\ gui = 0 /\ handle = 0
      /\ runtime[started].phase = "failed" /\ cb.pc = "idle"
  BY <1>1, StartTaken
<1>3. Current'
  BY <1>1, <1>2 DEF Current
<1>4. StartCalls' /\ Owned'
  BY <1>1, <1>2, LoopAfterTake
<1>5. Held'
  BY <1>1, <1>2 DEF Held
<1> QED
  BY <1>3, <1>4, <1>5

-----------------------------------------------------------------------------
(* Whose events are delivered.                                               *)

\* A start that failed stays failed.
LEMMA FailedStays ==
  ASSUME TypeOK, Control, Next
  PROVE  \A r \in Runtime : runtime[r].phase = "failed" => runtime'[r].phase = "failed"
<1> USE DEF Control
<1>1. CASE UNCHANGED runtime
  BY <1>1
<1>2. ASSUME NEW r \in Runtime, NEW p, Phase(r, p), runtime[r].phase # "failed"
      PROVE  \A s \in Runtime : runtime[s].phase = "failed" => runtime'[s].phase = "failed"
  BY <1>2, PhaseMeans
<1>3. CASE StartAsync
  <2>1. PICK n \in Runtime : n = started + 1
    <3>1. started < StartLimit
      BY <1>3 DEF StartAsync
    <3> QED
      BY <3>1, Numbers, Limits DEF Runtime
  <2>2. n > started /\ runtime[n].phase = "none"
    BY <2>1, Numbers DEF Current
  <2> QED
    BY <1>2, <1>3, <2>1, <2>2 DEF StartAsync
<1>4. CASE Joined
  <2>1. gui \in Runtime /\ runtime[gui].phase = "running"
    BY <1>4, Numbers DEF Current, Joined
  <2> QED
    BY <1>2, <1>4, <2>1 DEF Joined
<1>5. CASE Destroy
  <2>1. \A r \in Runtime : runtime[r].phase = "failed" => runtime'[r] = runtime[r]
    BY <1>5 DEF Destroy
  <2> QED
    BY <2>1
<1>6. CASE StartCancelled
  <2>1. Takes("started")
    BY <1>6 DEF StartCancelled
  <2>2. /\ started \in Runtime /\ Head(loop).generation = started /\ Head(loop).ok \in BOOLEAN
        /\ runtime[started].phase = IF Head(loop).ok THEN "returned" ELSE "failed"
    BY <2>1, StartTaken
  <2>3. UNCHANGED runtime \/ (Head(loop).ok /\ Phase(started, "abandoned"))
    BY <1>6, <2>2 DEF StartCancelled, Abandoned
  <2> QED
    BY <1>2, <2>2, <2>3
<1>7. CASE StartSucceeded
  <2>1. Takes("started") /\ Head(loop).ok
    BY <1>7 DEF StartSucceeded
  <2>2. /\ started \in Runtime /\ Head(loop).generation = started
        /\ runtime[started].phase = "returned"
    BY <2>1, StartTaken
  <2> QED
    BY <1>2, <1>7, <2>2 DEF StartSucceeded
<1>8. ASSUME NEW r \in Runtime, NEW ok \in BOOLEAN, KodosiStarts(r, ok)
      PROVE  \A s \in Runtime : runtime[s].phase = "failed" => runtime'[s].phase = "failed"
  <2>1. runtime[r].phase # "failed" /\ \E p \in Phases : Phase(r, p)
    BY <1>8 DEF KodosiStarts, Phases
  <2> QED
    BY <1>2, <2>1
<1>9. ASSUME NEW r \in Runtime, StopAbandoned(r)
      PROVE  \A s \in Runtime : runtime[s].phase = "failed" => runtime'[s].phase = "failed"
  BY <1>2, <1>9 DEF StopAbandoned
<1>10. ASSUME NEW r \in Runtime, NEW event \in Emission(r), Emit(r, event)
      PROVE  \A s \in Runtime : runtime[s].phase = "failed" => runtime'[s].phase = "failed"
  <2>1. runtime \in [Runtime -> World] /\ runtime[r].phase # "failed"
    BY <1>10, TypeFacts DEF Emit
  <2> QED
    BY <1>10, <2>1 DEF Emit
<1>11. CASE Stop \/ RunEvent \/ RunOverflow \/ StartFailed \/ Reserve \/ Post
  BY <1>1, <1>11 DEF Stop, RunEvent, RunOverflow, StartFailed, Reserve, Post
<1> QED
  BY <1>3, <1>4, <1>5, <1>6, <1>7, <1>8, <1>9, <1>10, <1>11 DEF Next, PostedCalls, RuntimeSide

\* Of other runtimes than the current there are only events delivered that were handed over.
LEMMA DeliverOwn ==
  ASSUME TypeOK, NEW q \in Seq(Event), Deliver(q), NEW F, last.foreign \subseteq F,
         \A i \in DOMAIN q : q[i].runtime = generation \/ q[i].runtime \in F
  PROVE  last'.foreign \subseteq F
<1>1. PICK n \in Nat : n = Len(q) /\ q \in [1 .. n -> Event] /\ DOMAIN q = 1 .. n
  OBVIOUS
<1>2. PICK h : Tells(h, q, n)
  BY <1>1, DeliverTable, TypeFacts
<1>3. last' = h[n].last
  BY <1>2 DEF Deliver, Tells
<1> DEFINE D == {s \in Told : s.last.foreign \subseteq F}
<1>4. h[0] \in D
  BY <1>2 DEF Tells, Told
<1>5. ASSUME NEW k \in 1 .. n, h[k - 1] \in D PROVE h[k] \in D
  <2>1. h[k] = Delivered(h[k - 1], q[k]) /\ h[k] \in Told /\ q[k] \in Event
        /\ (q[k].runtime = generation \/ q[k].runtime \in F)
    BY <1>1, <1>2 DEF Tells
  <2>2. h[k - 1] \in Told /\ h[k - 1].last.foreign \subseteq F
    BY <1>5
  <2>3. PICK s \in Told : s = h[k - 1]
    BY <2>2
  <2>4. PICK e \in Event : e = q[k]
    BY <2>1
  <2>5. Delivered(s, e).last.foreign \subseteq
          s.last.foreign \cup (IF e.runtime = generation THEN {} ELSE {e.runtime})
    BY DeliveredFields, TypeFacts
  <2>6. s.last.foreign \subseteq F /\ (e.runtime = generation \/ e.runtime \in F)
    BY <2>1, <2>2, <2>3, <2>4
  <2>7. Delivered(s, e).last.foreign \subseteq F
    BY ONLY <2>5, <2>6
  <2> QED
    BY <2>1, <2>3, <2>4, <2>7
<1>6. \A k \in 0 .. n : h[k] \in D
  <2> HIDE DEF D
  <2> QED
    BY <1>4, <1>5, Along
<1> QED
  BY <1>3, <1>6

\* A single event as a sequence.
LEMMA Single ==
  ASSUME NEW event \in Event
  PROVE  <<event>> \in Seq(Event) /\ Len(<<event>>) = 1 /\ <<event>>[1] = event
         /\ DOMAIN <<event>> = {1}
  OBVIOUS

\* A single event is delivered: whether one is missing before it.
LEMMA DeliverOne ==
  ASSUME TypeOK, NEW event \in Event, Deliver(<<event>>)
  PROVE  /\ last'.n = IF event.runtime = generation THEN event.n ELSE last.n
         /\ last'.gap <=> last.gap \/ (event.runtime = generation /\ event.n # last.n + 1)
<1>1. PICK q : q = <<event>>
  OBVIOUS
<1>2. q \in Seq(Event) /\ Len(q) = 1 /\ q[1] = event
  BY <1>1, Single
<1>3. PICK h : Tells(h, q, 1)
  BY <1>2, DeliverTable, TypeFacts
<1>4. last' = h[1].last
  BY <1>1, <1>3 DEF Deliver, Tells
<1>5. h[1] = Delivered(h[0], event) /\ h[0] = [account |-> account, last |-> last]
      /\ h[0] \in Told
  <2>1. 1 \in 1 .. 1 /\ 1 - 1 = 0 /\ 0 \in 0 .. 1
    OBVIOUS
  <2> QED
    BY <1>1, <1>3, <2>1 DEF Tells
<1>6. h[0].last = last
  BY <1>5
<1> QED
  BY <1>4, <1>5, <1>6, DeliveredFields, TypeFacts

\* The events delivered are of the runtime being run, or of one whose start failed.
LEMMA OwnUnlessFailedStep ==
  ASSUME TypeOK, Control, Next, OwnUnlessFailed
  PROVE  OwnUnlessFailed'
<1>1. PICK F : F = {r \in Runtime : runtime[r].phase = "failed"}
  OBVIOUS
<1>2. last.foreign \subseteq F
  <2>1. last.foreign \subseteq Runtime
    BY TypeFacts DEF History
  <2> QED
    BY <1>1, <2>1 DEF OwnUnlessFailed
<1>3. last'.foreign \subseteq F => OwnUnlessFailed'
  BY <1>1, FailedStays DEF OwnUnlessFailed
<1>4. CASE UNCHANGED last
  BY <1>2, <1>3, <1>4
<1>5. CASE StartAsync
  <2>1. last'.foreign = {}
    BY <1>5 DEF StartAsync, NothingYet
  <2> QED
    BY <1>3, <2>1
<1>6. CASE RunEvent
  <2>1. CASE UNCHANGED last
    BY <1>4, <2>1
  <2>2. CASE StillActive(Head(loop).generation) /\ Deliver(<<Head(loop).event>>)
    <3>1. Takes("event")
      BY <1>6 DEF RunEvent
    <3>2. /\ 1 \in DOMAIN loop /\ loop[1] = Head(loop) /\ loop[1].call = "event"
          /\ loop[1] \in Calls
      BY <3>1, Shrunk
    <3>3. Head(loop).event \in Event /\ Head(loop).event.runtime = generation
      BY <2>2, <3>2, CallCases DEF Control, Owned, StillActive
    <3>4. PICK q : q = <<Head(loop).event>>
      OBVIOUS
    <3>5. q \in Seq(Event) /\ \A i \in DOMAIN q : q[i].runtime = generation
      BY <3>3, <3>4, Single
    <3>6. last'.foreign \subseteq F
      BY <1>2, <2>2, <3>4, <3>5, DeliverOwn
    <3> QED
      BY <1>3, <3>6
  <2> QED
    BY <1>6, <2>1, <2>2 DEF RunEvent
<1>7. CASE StartSucceeded
  <2>1. \A i \in DOMAIN startup : startup[i].runtime = generation \/ startup[i].runtime \in F
    BY <1>1, HeldRuntime DEF Control, Held
  <2>2. startup \in Seq(Event) /\ Deliver(startup)
    BY <1>7, TypeFacts DEF StartSucceeded
  <2>3. last'.foreign \subseteq F
    BY <1>2, <2>1, <2>2, DeliverOwn
  <2> QED
    BY <1>3, <2>3
<1>8. UNCHANGED last \/ StartAsync \/ RunEvent \/ StartSucceeded
  BY DEF Next, PostedCalls, RuntimeSide, Stop, Destroy, Joined, RunOverflow, StartCancelled,
         StartFailed, KodosiStarts, StopAbandoned, Emit, Reserve, Post
<1> QED
  BY <1>4, <1>5, <1>6, <1>7, <1>8

-----------------------------------------------------------------------------
(* The lifecycle: the mode it is in, and what the bridge is doing then.      *)

\* Every runtime started so far is over.
Ended == \A r \in Runtime : r <= started => runtime[r].phase \in Gone
\* The bridge is neither running, nor starting, nor stopping.
Still == ~starting /\ handle = 0 /\ gui = 0 /\ generation = 0

\* Before the first attempt; with the timer of an attempt; with the start of the attempt
\* under way; after that start was called off; with a runtime installed; while it is
\* being stopped; after a failure; and when the application quits.
Waiting == ~scheduled /\ state = "Starting" /\ ~inFlight /\ timers = {} /\ Still /\ Ended
Due     == inFlight /\ state = "Starting" /\ timers = {token} /\ Still /\ Ended
Begun   == /\ inFlight /\ state = "Starting" /\ timers = {}
           /\ starting /\ completion = token /\ handle = 0 /\ gui = 0
Stuck   == inFlight /\ state = "Starting" /\ timers = {} /\ Still
Up      == /\ ~inFlight /\ state = "Ready" /\ timers = {}
           /\ ~starting /\ handle = started /\ started # 0 /\ generation = started /\ gui = 0
Down    == /\ ~inFlight /\ state = "Ready" /\ timers = {}
           /\ ~starting /\ handle = 0 /\ gui = started /\ started # 0 /\ generation = 0
Over    == ~inFlight /\ state = "Failed" /\ timers = {} /\ Still /\ Ended
Quitting == handle = 0 /\ generation = 0 /\ (state = "Failed" => ~starting)

\* The lifecycle is in one of these modes.  A second attempt, a stale completion or a
\* stop that overtakes a start would lead out of them.
Mode == IF stopping THEN Quitting
        ELSE alive /\ (Waiting \/ (scheduled /\ (Due \/ Begun \/ Stuck \/ Up \/ Down \/ Over)))

\* The types of the variables of the lifecycle.
LifecycleTypes ==
  /\ state \in {"Starting", "Ready", "Failed"}
  /\ token \in Nat /\ completion \in Nat
  /\ timers \subseteq Nat
  /\ inFlight \in BOOLEAN /\ stopping \in BOOLEAN /\ scheduled \in BOOLEAN

\* Every step keeps them.
LEMMA TypesAgain ==
  ASSUME LifecycleTypes, LifecycleNext
  PROVE  LifecycleTypes'
<1> USE DEF LifecycleTypes
<1>1. CASE ScheduleInitialStart
  BY <1>1 DEF ScheduleInitialStart, BeginAttempt
<1>2. CASE Retry
  BY <1>2 DEF Retry, BeginAttempt
<1>3. ASSUME NEW t \in timers, Execute(t) PROVE LifecycleTypes'
  BY <1>3 DEF Execute, Complete
<1>4. CASE QuitLifecycle
  <2>1. state' \in {"Starting", "Ready", "Failed"} /\ token' \in Nat /\ completion' \in Nat
    BY <1>4 DEF QuitLifecycle
  <2>2. timers' \subseteq Nat
    BY <1>4 DEF QuitLifecycle
  <2>3. inFlight' \in BOOLEAN /\ stopping' \in BOOLEAN /\ scheduled' \in BOOLEAN
    BY <1>4 DEF QuitLifecycle
  <2> QED
    BY <2>1, <2>2, <2>3
<1>5. CASE QuitBridge
  BY <1>5 DEF QuitBridge, lifecycleVars
<1>6. CASE StartEnds
  <2>1. state' \in {"Starting", "Ready", "Failed"} /\ token' \in Nat /\ completion' \in Nat
    BY <1>6 DEF StartEnds, Completed, Complete
  <2>2. timers' \subseteq Nat
    BY <1>6 DEF StartEnds, Completed, Complete
  <2>3. inFlight' \in BOOLEAN /\ stopping' \in BOOLEAN /\ scheduled' \in BOOLEAN
    BY <1>6 DEF StartEnds, Completed, Complete
  <2> QED
    BY <2>1, <2>2, <2>3
<1>7. CASE RuntimeStopped
  <2>1. state' \in {"Starting", "Ready", "Failed"} /\ token' \in Nat /\ completion' \in Nat
    BY <1>7 DEF RuntimeStopped
  <2>2. timers' \subseteq Nat
    BY <1>7 DEF RuntimeStopped
  <2>3. inFlight' \in BOOLEAN /\ stopping' \in BOOLEAN /\ scheduled' \in BOOLEAN
    BY <1>7 DEF RuntimeStopped
  <2> QED
    BY <2>1, <2>2, <2>3
<1>8. CASE Quiet
  BY <1>8 DEF Quiet, lifecycleVars
<1> QED
  BY <1>1, <1>2, <1>3, <1>4, <1>5, <1>6, <1>7, <1>8 DEF LifecycleNext

\* A step of the lifecycle is a step of the bridge, or leaves it alone.
LEMMA StepOfBridge == LifecycleNext => Next \/ UNCHANGED bridgeVars
  BY DEF LifecycleNext, ScheduleInitialStart, Retry, Execute, QuitLifecycle, QuitBridge,
         StartEnds, RuntimeStopped, Quiet, Next, PostedCalls

\* beginAttempt, with the bridge still and every runtime over.
LEMMA NewAttempt ==
  ASSUME LifecycleTypes, ~stopping, alive, Still, Ended, timers = {}, BeginAttempt,
         UNCHANGED <<bridgeVars, stopping>>, scheduled'
  PROVE  Mode'
<1>1. inFlight' /\ state' = "Starting" /\ timers' = {token'}
  BY DEF BeginAttempt
<1>2. Still' /\ Ended' /\ alive'
  BY DEF Still, Ended, bridgeVars
<1> QED
  BY <1>1, <1>2 DEF Mode, Due

\* scheduleInitialStart: only in the beginning.
LEMMA ModeSchedule ==
  ASSUME LifecycleTypes, Mode, ScheduleInitialStart
  PROVE  Mode'
<1>1. ~stopping /\ alive /\ Waiting
  BY DEF Mode, ScheduleInitialStart
<1> QED
  BY <1>1, NewAttempt DEF ScheduleInitialStart, Waiting

\* retry: only after a failure.
LEMMA ModeRetry ==
  ASSUME LifecycleTypes, Mode, Retry
  PROVE  Mode'
<1>1. ~stopping /\ alive /\ Over /\ scheduled
  BY DEF Mode, Retry, Waiting, Due, Begun, Stuck, Up, Down
<1> QED
  BY <1>1, NewAttempt DEF Retry, Over

\* The timer fires: startAsync is called only when every runtime is over.
LEMMA ModeExecute ==
  ASSUME TypeOK, LifecycleTypes, Mode, NEW t \in timers, Execute(t)
  PROVE  Mode' /\ (StartAsync => Ended)
<1>1. CASE stopping
  <2>1. UNCHANGED <<bridgeVars, state, token, inFlight, stopping, scheduled, completion>>
    BY <1>1 DEF Execute, Awaited
  <2>2. ~StartAsync
    <3>1. ASSUME StartAsync PROVE FALSE
      BY <2>1, <3>1, TypeFacts DEF StartAsync, bridgeVars
    <3> QED
      BY <3>1
  <2> QED
    BY <1>1, <2>1, <2>2 DEF Mode, Quitting, bridgeVars
<1>2. CASE ~stopping
  <2>1. alive /\ Due /\ scheduled
    BY <1>2 DEF Mode, Waiting, Begun, Stuck, Up, Down, Over
  <2>2. t = token /\ Awaited(t) /\ handle = 0 /\ ~starting
    BY <1>2, <2>1 DEF Due, Still, Awaited
  <2>3. /\ StartAsync /\ completion' = t /\ timers' = {}
        /\ UNCHANGED <<state, token, inFlight, stopping, scheduled>>
    BY <2>1, <2>2 DEF Execute, Due
  <2>4. starting' /\ handle' = 0 /\ gui' = 0 /\ alive'
    BY <2>1, <2>2, <2>3 DEF StartAsync, GuiFree
  <2>5. Begun'
    BY <2>1, <2>2, <2>3, <2>4 DEF Begun, Due
  <2> QED
    BY <1>2, <2>1, <2>3, <2>4, <2>5 DEF Mode, Due
<1> QED
  BY <1>1, <1>2 DEF LifecycleTypes

\* The application quits.
LEMMA ModeQuit ==
  ASSUME LifecycleTypes, Mode, QuitLifecycle
  PROVE  Mode'
<1>1. /\ ~stopping /\ stopping' /\ handle' = 0 /\ generation' = 0
      /\ UNCHANGED <<state, starting>>
  BY DEF QuitLifecycle, Stop, BeginStop
<1>2. state = "Failed" => ~starting
  BY <1>1 DEF Mode, Waiting, Due, Begun, Stuck, Up, Down, Over, Still
<1> QED
  BY <1>1, <1>2 DEF Mode, Quitting

\* The bridge goes.
LEMMA ModeDestroy ==
  ASSUME LifecycleTypes, Mode, QuitBridge
  PROVE  Mode'
  BY DEF Mode, Quitting, QuitBridge, Destroy, BeginStop, lifecycleVars

\* The start the call speaks of is the one in flight.
LEMMA StartInFlight ==
  ASSUME TypeOK, Control, Mode, Takes("started")
  PROVE  /\ ~stopping => Begun /\ scheduled /\ alive
         /\ stopping => Quitting /\ generation = 0
         /\ starting /\ started # 0 /\ started \in Runtime /\ Head(loop).generation = started
<1>1. starting /\ started # 0 /\ started \in Runtime /\ Head(loop).generation = started
  BY StartTaken
<1> QED
  BY <1>1 DEF Mode, Waiting, Due, Stuck, Up, Down, Over, Still, Quitting

\* The start comes to its end: the completion has the token of the attempt in flight.
LEMMA ModeStartEnds ==
  ASSUME TypeOK, LifecycleTypes, Control, Mode, StartEnds
  PROVE  Mode'
<1>1. Takes("started") /\ alive' = alive
  BY DEF StartEnds, StartSucceeded, StartFailed, StartCancelled
<1>2. /\ ~stopping => Begun /\ scheduled /\ alive
      /\ stopping => Quitting /\ generation = 0
      /\ starting /\ started # 0 /\ started \in Runtime /\ Head(loop).generation = started
  BY <1>1, StartInFlight
<1>3. CASE StartSucceeded /\ Completed(TRUE)
  <2>1. ~stopping /\ generation = started
    BY <1>2, <1>3 DEF StartSucceeded, StillActive
  <2>2. Awaited(completion)
    BY <1>2, <2>1 DEF Begun, Awaited
  <2>3. ~inFlight' /\ state' = "Ready" /\ UNCHANGED <<timers, stopping, scheduled>>
    BY <1>3, <2>2 DEF Completed, Complete
  <2>4. ~starting' /\ handle' = started /\ started' = started /\ UNCHANGED <<generation, gui>>
    BY <1>2, <1>3 DEF StartSucceeded
  <2>5. Up'
    BY <1>2, <2>1, <2>3, <2>4 DEF Up, Begun
  <2> QED
    BY <1>1, <1>2, <2>1, <2>3, <2>5 DEF Mode
<1>4. CASE StartFailed /\ Completed(FALSE)
  <2>1. ~stopping /\ generation = started
    BY <1>2, <1>4 DEF StartFailed, StillActive
  <2>2. Awaited(completion)
    BY <1>2, <2>1 DEF Begun, Awaited
  <2>3. ~inFlight' /\ state' = "Failed" /\ UNCHANGED <<timers, stopping, scheduled>>
    BY <1>4, <2>2 DEF Completed, Complete
  <2>4. /\ ~starting' /\ generation' = 0 /\ UNCHANGED <<handle, started, gui, runtime>>
        /\ ~Head(loop).ok
    BY <1>4 DEF StartFailed
  <2>5. runtime[started].phase = "failed"
    BY <1>1, <2>4, StartTaken
  <2>6. Ended'
    <3>1. \A r \in Runtime : r \in Nat /\ started \in Nat
      BY Numbers
    <3>2. \A r \in Runtime : r <= started => r < started \/ r = started
      BY <3>1
    <3> QED
      BY <2>4, <2>5, <3>2 DEF Ended, Control, Current, Gone
  <2>7. Over'
    BY <1>2, <2>1, <2>3, <2>4, <2>6 DEF Over, Begun, Still
  <2> QED
    BY <1>1, <1>2, <2>1, <2>3, <2>7 DEF Mode
<1>5. CASE StartCancelled /\ UNCHANGED <<state, token, inFlight, stopping, scheduled, timers>>
  <2>1. ~starting' /\ UNCHANGED <<handle, generation, gui>> /\ generation # started
    BY <1>2, <1>5 DEF StartCancelled, StillActive
  <2>2. generation = 0
    BY <2>1 DEF Control, Current
  <2>3. CASE stopping
    BY <1>2, <1>5, <2>1, <2>3 DEF Mode, Quitting
  <2>4. CASE ~stopping
    <3>1. Stuck'
      BY <1>2, <1>5, <2>1, <2>2, <2>4 DEF Begun, Stuck, Still
    <3> QED
      BY <1>1, <1>2, <1>5, <2>4, <3>1 DEF Mode
  <2> QED
    BY <2>3, <2>4
<1> QED
  BY <1>3, <1>4, <1>5 DEF StartEnds

\* The runtime has stopped: the state becomes Failed, and every runtime is over.
LEMMA ModeRuntimeStopped ==
  ASSUME TypeOK, LifecycleTypes, Control, Mode, RuntimeStopped
  PROVE  Mode'
<1>1. /\ gui # 0 /\ gui' = 0 /\ Phase(gui, "stopped")
      /\ UNCHANGED <<alive, starting, generation, started, handle>>
      /\ UNCHANGED <<stopping, scheduled, timers, completion>>
  BY DEF RuntimeStopped, Joined
<1>2. gui = started /\ started # 0 /\ started \in Runtime /\ handle = 0 /\ generation = 0
      /\ ~starting
  BY <1>1, Numbers DEF Control, Current
<1>3. CASE stopping
  BY <1>1, <1>2, <1>3 DEF Mode, Quitting
<1>4. CASE ~stopping
  <2>1. Down /\ scheduled /\ alive
    BY <1>1, <1>4 DEF Mode, Waiting, Due, Begun, Stuck, Up, Over, Still
  <2>2. ~inFlight' /\ state' = "Failed"
    BY <1>4, <2>1 DEF RuntimeStopped, Concerned, Down
  <2>3. Ended'
    <3>1. /\ runtime'[started].phase = "stopped"
          /\ \A s \in Runtime : s # started => runtime'[s] = runtime[s]
      BY <1>1, <1>2, PhaseMeans
    <3>2. \A r \in Runtime : r \in Nat /\ started \in Nat
      BY Numbers
    <3>3. \A r \in Runtime : r <= started => r < started \/ r = started
      BY <3>2
    <3> QED
      BY <1>1, <3>1, <3>3 DEF Ended, Control, Current, Gone
  <2>4. Over'
    BY <1>1, <1>2, <2>1, <2>2, <2>3 DEF Over, Still, Down
  <2> QED
    BY <1>1, <1>4, <2>1, <2>4 DEF Mode
<1> QED
  BY <1>3, <1>4 DEF LifecycleTypes

\* Nothing the lifecycle waits for changes.
LEMMA ModeStays ==
  ASSUME Mode, UNCHANGED <<alive, starting, handle, gui, generation, started, lifecycleVars>>,
         \/ UNCHANGED runtime
         \/ \A r \in Runtime : runtime'[r].phase = runtime[r].phase
         \/ ~Ended
  PROVE  Mode'
<1>1. Ended => Ended'
  BY DEF Ended
<1> QED
  BY <1>1 DEF Mode, Waiting, Due, Begun, Stuck, Up, Down, Over, Quitting, Still, lifecycleVars

\* The bridge stops on an overflow: a start under way is called off, or the runtime
\* installed is being stopped.
LEMMA ModeBeginStop ==
  ASSUME TypeOK, Mode, BeginStop, generation # 0, gui = 0,
         UNCHANGED <<alive, starting, started, runtime, lifecycleVars>>
  PROVE  Mode'
<1>1. ~stopping /\ alive /\ scheduled /\ (Begun \/ Up)
  BY DEF Mode, Waiting, Due, Stuck, Down, Over, Quitting, Still
<1>2. handle' = 0 /\ generation' = 0 /\ gui' = handle
  BY DEF BeginStop
<1>3. CASE Begun
  BY <1>1, <1>2, <1>3 DEF Mode, Begun, lifecycleVars
<1>4. CASE Up
  BY <1>1, <1>2, <1>4 DEF Mode, Up, Down, lifecycleVars
<1> QED
  BY <1>1, <1>3, <1>4

\* The steps the lifecycle does not hear of.
LEMMA ModeQuiet ==
  ASSUME TypeOK, LifecycleTypes, Control, Mode, Quiet
  PROVE  Mode'
<1>1. UNCHANGED lifecycleVars
  BY DEF Quiet
<1>2. CASE RunEvent
  <2>1. /\ Takes("event") /\ UNCHANGED <<alive, starting, started, runtime>>
    BY <1>2 DEF RunEvent
  <2>2. /\ gui = 0 /\ Head(loop) \in Calls
    BY <2>1, Taken DEF GuiFree
  <2>3. StillActive(Head(loop).generation) => generation # 0
    BY <2>2, CallCases DEF StillActive, Runtime
  <2>4. UNCHANGED <<handle, gui, generation>> \/ (BeginStop /\ generation # 0)
    BY <1>2, <2>3 DEF RunEvent
  <2> QED
    BY <1>1, <2>1, <2>2, <2>4, ModeStays, ModeBeginStop
<1>3. CASE RunOverflow
  <2>1. /\ Takes("overflow") /\ UNCHANGED <<alive, starting, started, runtime>>
    BY <1>3 DEF RunOverflow
  <2>2. /\ gui = 0 /\ Head(loop) \in Calls
    BY <2>1, Taken DEF GuiFree
  <2>3. StillActive(Head(loop).generation) => generation # 0
    BY <2>2, CallCases DEF StillActive, Runtime
  <2>4. UNCHANGED <<handle, gui, generation>> \/ (BeginStop /\ generation # 0)
    BY <1>3, <2>3 DEF RunOverflow
  <2> QED
    BY <1>1, <2>1, <2>2, <2>4, ModeStays, ModeBeginStop
<1>4. ASSUME NEW r \in Runtime, runtime[r].phase \in Living PROVE ~Ended
  <2>1. r = started
    BY <1>4, OnlyCurrent DEF Control
  <2>2. r <= started
    BY <2>1, Numbers
  <2> QED
    BY <1>4, <2>2 DEF Ended, Living, Gone
<1>5. ASSUME NEW r \in Runtime, NEW ok \in BOOLEAN, KodosiStarts(r, ok) PROVE Mode'
  <2>1. ~Ended
    BY <1>4, <1>5 DEF KodosiStarts, Living
  <2> QED
    BY <1>1, <1>5, <2>1, ModeStays DEF KodosiStarts
<1>6. ASSUME NEW r \in Runtime, StopAbandoned(r) PROVE Mode'
  <2>1. ~Ended
    BY <1>4, <1>6 DEF StopAbandoned, Living
  <2> QED
    BY <1>1, <1>6, <2>1, ModeStays DEF StopAbandoned
<1>7. ASSUME NEW r \in Runtime, NEW event \in Emission(r), Emit(r, event) PROVE Mode'
  <2>1. ~Ended
    BY <1>4, <1>7 DEF Emit, Living
  <2> QED
    BY <1>1, <1>7, <2>1, ModeStays DEF Emit
<1>8. CASE Reserve \/ Post
  BY <1>1, <1>8, ModeStays DEF Reserve, Post
<1> QED
  BY <1>2, <1>3, <1>5, <1>6, <1>7, <1>8 DEF Quiet, RuntimeSide

\* Every step leads from one of the modes to one of them.
LEMMA ModeStep ==
  ASSUME TypeOK, LifecycleTypes, Control, Mode, LifecycleNext
  PROVE  Mode'
  BY ModeSchedule, ModeRetry, ModeExecute, ModeQuit, ModeDestroy, ModeStartEnds,
     ModeRuntimeStopped, ModeQuiet DEF LifecycleNext

\* Every step keeps the control of the bridge.
LEMMA ControlStep ==
  ASSUME TypeOK, LifecycleTypes, Control, Mode, LifecycleNext
  PROVE  Control'
<1>1. ASSUME NEW t \in timers, Execute(t) PROVE Control'
  <2>1. StartAsync => Ended
    BY <1>1, ModeExecute
  <2>2. CASE StartAsync
    BY <2>1, <2>2, ControlStartAsync DEF Ended
  <2>3. CASE UNCHANGED bridgeVars
    BY <2>3 DEF Control, Current, StartCalls, Owned, Held, bridgeVars
  <2> QED
    BY <1>1, <2>2, <2>3 DEF Execute
<1>2. CASE ScheduleInitialStart \/ Retry
  BY <1>2 DEF ScheduleInitialStart, Retry, Control, Current, StartCalls, Owned, Held, bridgeVars
<1>3. CASE QuitLifecycle \/ QuitBridge \/ StartEnds \/ RuntimeStopped
  BY <1>3, ControlStop, ControlDestroy, ControlStartSucceeded, ControlStartFailed,
     ControlStartCancelled, ControlJoined
  DEF QuitLifecycle, QuitBridge, StartEnds, RuntimeStopped
<1>4. CASE Quiet
  BY <1>4, ControlRunEvent, ControlRunOverflow, ControlKodosiStarts, ControlStopAbandoned,
     ControlEmit, ControlReserve, ControlPost
  DEF Quiet, RuntimeSide
<1> QED
  BY <1>1, <1>2, <1>3, <1>4 DEF LifecycleNext

-----------------------------------------------------------------------------
(* The lifecycle implements the bridge, and its invariants.                  *)

\* The bridge as the lifecycle uses it is a bridge: what holds of the bridge whoever
\* calls it holds here.
THEOREM BridgeImplemented == LifecycleSpec => Spec
<1>1. LifecycleInit => Init
  BY DEF LifecycleInit
<1>2. [LifecycleNext]_allVars => [Next]_bridgeVars
  BY StepOfBridge DEF allVars
<1> QED
  BY <1>1, <1>2, PTL DEF LifecycleSpec, Spec

\* The inductive invariant of the lifecycle.
LifecycleInv == LifecycleTypes /\ Control /\ Mode /\ OwnUnlessFailed

\* It holds in the beginning.
LEMMA LifecycleStart ==
  ASSUME LifecycleInit
  PROVE  LifecycleInv
<1>1. LifecycleTypes
  BY DEF LifecycleInit, LifecycleTypes
<1>2. Control
  BY InitControl DEF LifecycleInit
<1>3. Mode
  <2>1. \A r \in Runtime : ~(r <= started)
    BY Limits DEF LifecycleInit, Init, Runtime
  <2> QED
    BY <2>1 DEF LifecycleInit, Init, Mode, Waiting, Still, Ended
<1>4. OwnUnlessFailed
  BY DEF LifecycleInit, Init, NothingYet, OwnUnlessFailed
<1> QED
  BY <1>1, <1>2, <1>3, <1>4 DEF LifecycleInv

\* Every step keeps it.
LEMMA LifecycleStep ==
  ASSUME TypeOK, LifecycleInv, [LifecycleNext]_allVars
  PROVE  LifecycleInv'
<1>1. LifecycleTypes /\ Control /\ Mode /\ OwnUnlessFailed
  BY DEF LifecycleInv
<1>2. CASE LifecycleNext
  <2>1. LifecycleTypes'
    BY <1>1, <1>2, TypesAgain
  <2>2. Control'
    BY <1>1, <1>2, ControlStep
  <2>3. Mode'
    BY <1>1, <1>2, ModeStep
  <2>4. OwnUnlessFailed'
    <3>1. Next \/ UNCHANGED bridgeVars
      BY <1>2, StepOfBridge
    <3>2. CASE UNCHANGED bridgeVars
      BY <1>1, <3>2 DEF bridgeVars, OwnUnlessFailed
    <3> QED
      BY <1>1, <3>1, <3>2, OwnUnlessFailedStep
  <2> QED
    BY <2>1, <2>2, <2>3, <2>4 DEF LifecycleInv
<1>3. CASE UNCHANGED allVars
  <2>1. LifecycleTypes'
    BY <1>1, <1>3 DEF allVars, lifecycleVars, LifecycleTypes
  <2>2. Control'
    BY <1>1, <1>3 DEF allVars, bridgeVars, Control, Current, StartCalls, Owned, Held
  <2>3. Mode'
    BY <1>1, <1>3, ModeStays DEF allVars, bridgeVars
  <2>4. OwnUnlessFailed'
    BY <1>1, <1>3 DEF allVars, bridgeVars, OwnUnlessFailed
  <2> QED
    BY <2>1, <2>2, <2>3, <2>4 DEF LifecycleInv
<1> QED
  BY <1>2, <1>3

\* The lifecycle keeps its invariant and that of the bridge.
THEOREM LifecycleInvariance == LifecycleSpec => [](BridgeInv /\ LifecycleInv)
<1>1. BridgeInv => TypeOK
  BY DEF BridgeInv, Sound
<1>2. LifecycleInit => LifecycleInv
  BY LifecycleStart
<1>3. TypeOK /\ LifecycleInv /\ [LifecycleNext]_allVars => LifecycleInv'
  BY LifecycleStep
<1>4. LifecycleSpec => []BridgeInv
  BY BridgeImplemented, Invariance, PTL
<1> QED
  BY <1>1, <1>2, <1>3, <1>4, PTL DEF LifecycleSpec

\* Every variable of the lifecycle and the bridge keeps its type.
THEOREM LifecycleTypeCorrect == LifecycleSpec => []LifecycleTypeOK
<1>1. BridgeInv /\ LifecycleInv => LifecycleTypeOK
  BY DEF BridgeInv, Sound, LifecycleInv, LifecycleTypes, LifecycleTypeOK
<1> QED
  BY <1>1, LifecycleInvariance, PTL

\* The state the user sees is so: no stop, overflow or completion of an earlier attempt,
\* in whatever order they arrive, leaves Ready without a runtime or one being stopped,
\* or Failed with one running or starting.
THEOREM StateIsTrueAlways == LifecycleSpec => []StateIsTrue
<1>1. LifecycleInv => StateIsTrue
  BY DEF LifecycleInv, Mode, Waiting, Due, Begun, Stuck, Up, Down, Over, Quitting, Still, StateIsTrue
<1> QED
  BY <1>1, LifecycleInvariance, PTL

\* Every event delivered in the name of another runtime than its own is of a runtime whose
\* own start failed: the events held for that start are left in m_startupEvents.
THEOREM OwnUnlessFailedAlways == LifecycleSpec => []OwnUnlessFailed
<1>1. LifecycleInv => OwnUnlessFailed
  BY DEF LifecycleInv
<1> QED
  BY <1>1, LifecycleInvariance, PTL

-----------------------------------------------------------------------------
(* No event is missing: where the events of the runtime are.                 *)

\* The events of the current runtime: those held, those posted, and how many it emitted.
HeldOwn == {i \in DOMAIN startup : startup[i].runtime = started}
CallOwn == {i \in DOMAIN loop : loop[i].call = "event" /\ loop[i].event.runtime = started}
Emitted == IF started = 0 THEN 0 ELSE runtime[started].emitted

\* They are on their way in the order in which they were emitted: held, posted, in the
\* callback, and all of them after the last one delivered.
Increasing ==
  /\ \A i, j \in HeldOwn : i < j => startup[i].n < startup[j].n
  /\ \A i \in HeldOwn, j \in CallOwn : startup[i].n < loop[j].event.n
  /\ \A i, j \in CallOwn : i < j => loop[i].event.n < loop[j].event.n
  /\ \A i \in HeldOwn : last.n < startup[i].n /\ startup[i].n <= Emitted
  /\ \A i \in CallOwn : last.n < loop[i].event.n /\ loop[i].event.n <= Emitted
  /\ cb.pc # "idle" => /\ \A i \in HeldOwn : startup[i].n < cb.event.n
                       /\ \A i \in CallOwn : loop[i].event.n < cb.event.n
                       /\ last.n < cb.event.n /\ cb.event.n <= Emitted
  /\ last.n <= Emitted

\* The call that stops the current runtime is in the loop.
StopComes(k) == k \in DOMAIN loop /\ loop[k].call = "overflow" /\ loop[k].generation = started

\* Event m found no room, or came after one that did not: the call to stop comes before
\* any event later than m.
Lost(m) ==
  /\ \A i \in HeldOwn : startup[i].n < m
  /\ \/ cb.pc = "postStop" /\ \A j \in CallOwn : loop[j].event.n < m
     \/ \E k \in DOMAIN loop : StopComes(k) /\ \A j \in CallOwn : j < k => loop[j].event.n < m

\* Event m is held, posted or about to be posted.
OnItsWay(m) ==
  \/ \E i \in HeldOwn : startup[i].n = m
  \/ \E i \in CallOwn : loop[i].event.n = m
  \/ cb.pc \in {"reserve", "post"} /\ cb.event.n = m

\* While the generation is active, each event after the last one delivered is on its way
\* or lost, and after a refusal the call to stop is on its way.
Covered ==
  generation # 0 =>
    /\ \A m \in Nat : last.n < m /\ m <= Emitted => OnItsWay(m) \/ Lost(m)
    /\ failed => cb.pc = "postStop" \/ \E k \in DOMAIN loop : StopComes(k)

\* Indices and event numbers are naturals.
LEMMA OwnNumbers ==
  ASSUME TypeOK
  PROVE  /\ \A i \in DOMAIN startup : i \in Nat /\ startup[i].n \in Nat
         /\ \A i \in DOMAIN loop : i \in Nat /\ i >= 1
                                   /\ (loop[i].call = "event" => loop[i].event.n \in Nat)
         /\ HeldOwn \subseteq DOMAIN startup /\ CallOwn \subseteq DOMAIN loop
         /\ \A i \in CallOwn : loop[i].event.n \in Nat
         /\ cb.pc # "idle" => cb.event.n \in Nat
         /\ last.n \in Nat /\ Emitted \in Nat
<1>1. \A i \in DOMAIN startup : i \in Nat /\ startup[i].n \in Nat
  BY HeldRuntime
<1>2. \A i \in DOMAIN loop : i \in Nat /\ i >= 1 /\ loop[i] \in Calls
  BY TypeFacts
<1>3. \A c \in Calls : c.call = "event" => c.event.n \in Nat
  <2>1. \A e \in Event : e.n \in Nat
    BY DEF Event
  <2> QED
    BY <2>1, CallCases
<1>4. cb.pc # "idle" => cb.event.n \in Nat
  <2>1. cb \in Busy => cb.event \in Event
    BY DEF Busy
  <2> QED
    BY <2>1, CbCases DEF Event
<1>5. last.n \in Nat
  <2>1. last \in History
    BY TypeFacts
  <2> QED
    BY <2>1, Limits DEF History
<1>6. Emitted \in Nat
  <2>1. started # 0 => started \in Runtime /\ runtime \in [Runtime -> World]
    BY Numbers, TypeFacts
  <2>2. started # 0 => runtime[started] \in World
    BY <2>1
  <2>3. started # 0 => runtime[started].emitted \in 0 .. EmitLimit
    BY <2>2 DEF World
  <2> QED
    BY <2>3, Limits DEF Emitted
<1>7. HeldOwn \subseteq DOMAIN startup /\ CallOwn \subseteq DOMAIN loop
  BY DEF HeldOwn, CallOwn
<1>8. \A i \in CallOwn : loop[i].event.n \in Nat
  BY <1>2, <1>3 DEF CallOwn
<1> QED
  BY <1>1, <1>2, <1>3, <1>4, <1>5, <1>6, <1>7, <1>8

\* Taking a call moves the events and the call to stop one place forward.
LEMMA CallsMove ==
  ASSUME TypeOK, started' = started, NEW name, Takes(name)
  PROVE  /\ \A i \in CallOwn' : i \in Nat /\ i + 1 \in CallOwn /\ loop'[i] = loop[i + 1]
         /\ \A i \in CallOwn : \/ i # 1 /\ i - 1 \in CallOwn' /\ loop'[i - 1] = loop[i]
                               \/ i = 1 /\ name = "event"
         /\ \A k \in DOMAIN loop : StopComes(k) =>
               \/ k > 1 /\ k - 1 \in DOMAIN loop' /\ StopComes(k - 1)'
               \/ k = 1 /\ name = "overflow" /\ Head(loop).generation = started
<1>1. /\ DOMAIN loop \in SUBSET Nat /\ DOMAIN loop' \in SUBSET Nat
      /\ 1 \in DOMAIN loop /\ loop[1] = Head(loop) /\ loop[1].call = name
      /\ \A i \in DOMAIN loop' : i + 1 \in DOMAIN loop /\ loop'[i] = loop[i + 1]
      /\ \A i \in DOMAIN loop : i # 1 => i - 1 \in DOMAIN loop' /\ loop'[i - 1] = loop[i]
  BY Shrunk
<1>2. \A k \in DOMAIN loop : k \in Nat /\ k >= 1
  BY OwnNumbers
<1>3. \A i \in CallOwn' : i \in Nat /\ i + 1 \in CallOwn /\ loop'[i] = loop[i + 1]
  BY <1>1 DEF CallOwn
<1>4. \A i \in CallOwn : \/ i # 1 /\ i - 1 \in CallOwn' /\ loop'[i - 1] = loop[i]
                         \/ i = 1 /\ name = "event"
  BY <1>1 DEF CallOwn
<1>5. ASSUME NEW k \in DOMAIN loop, StopComes(k)
      PROVE  \/ k > 1 /\ k - 1 \in DOMAIN loop' /\ StopComes(k - 1)'
             \/ k = 1 /\ name = "overflow" /\ Head(loop).generation = started
  <2>1. k = 1 \/ k > 1
    BY <1>2
  <2>2. CASE k = 1
    BY <1>1, <1>5, <2>2 DEF StopComes
  <2>3. CASE k > 1
    BY <1>1, <1>2, <1>5, <2>3 DEF StopComes
  <2> QED
    BY <2>1, <2>2, <2>3
<1> QED
  BY <1>3, <1>4, <1>5

\* Fewer events under way are still in order.
LEMMA FewerIncreasing ==
  ASSUME TypeOK, Increasing, UNCHANGED <<started, cb>>, Emitted' = Emitted,
         last'.n = last.n,
         \A i \in HeldOwn' : i \in HeldOwn /\ startup'[i] = startup[i],
         NEW d \in {0, 1},
         \A i \in CallOwn' : i \in Nat /\ i + d \in CallOwn /\ loop'[i] = loop[i + d]
  PROVE  Increasing'
<1>1. \A i, j \in CallOwn' : i < j => i + d < j + d
  OBVIOUS
<1>2. \A i, j \in CallOwn' : i < j => loop'[i].event.n < loop'[j].event.n
  BY <1>1 DEF Increasing
<1>3. \A i, j \in HeldOwn' : i < j => startup'[i].n < startup'[j].n
  BY DEF Increasing
<1>4. \A i \in HeldOwn', j \in CallOwn' : startup'[i].n < loop'[j].event.n
  BY DEF Increasing
<1>5. /\ \A i \in HeldOwn' : last'.n < startup'[i].n /\ startup'[i].n <= Emitted'
      /\ \A i \in CallOwn' : last'.n < loop'[i].event.n /\ loop'[i].event.n <= Emitted'
      /\ last'.n <= Emitted'
  BY DEF Increasing
<1>6. cb'.pc # "idle" => /\ \A i \in HeldOwn' : startup'[i].n < cb'.event.n
                         /\ \A i \in CallOwn' : loop'[i].event.n < cb'.event.n
                         /\ last'.n < cb'.event.n /\ cb'.event.n <= Emitted'
  BY DEF Increasing
<1> QED
  BY <1>2, <1>3, <1>4, <1>5, <1>6 DEF Increasing

\* The GUI thread takes a call: what was on its way is delivered, held or one place
\* further forward, and what was lost is lost.
LEMMA CoveredMoves ==
  ASSUME TypeOK, Covered, generation' = generation, UNCHANGED <<started, cb, failed>>,
         Emitted' = Emitted, last'.n \in Nat, last.n <= last'.n,
         NEW d \in {0, 1},
         \A i \in CallOwn' : i \in Nat /\ i + d \in CallOwn /\ loop'[i] = loop[i + d],
         \A i \in CallOwn : \/ i - d \in CallOwn' /\ loop'[i - d] = loop[i]
                            \/ loop[i].event.n <= last'.n
                            \/ \E j \in HeldOwn' : startup'[j].n = loop[i].event.n,
         \A i \in HeldOwn : \/ startup[i].n <= last'.n
                            \/ \E j \in HeldOwn' : startup'[j].n = startup[i].n,
         \A i \in HeldOwn' : \/ \E j \in HeldOwn : startup[j].n = startup'[i].n
                             \/ d = 1 /\ 1 \in CallOwn /\ loop[1].event.n = startup'[i].n,
         \A k \in DOMAIN loop : StopComes(k) => /\ k > d /\ k - d \in DOMAIN loop'
                                                /\ StopComes(k - d)'
  PROVE  Covered'
<1> SUFFICES ASSUME generation # 0 PROVE Covered'
  BY DEF Covered
<1>1. /\ \A m \in Nat : last.n < m /\ m <= Emitted => OnItsWay(m) \/ Lost(m)
      /\ failed => cb.pc = "postStop" \/ \E k \in DOMAIN loop : StopComes(k)
  BY DEF Covered
<1>2. failed' => cb'.pc = "postStop" \/ \E k \in DOMAIN loop' : StopComes(k)'
  BY <1>1
<1>3. ASSUME NEW m \in Nat, last'.n < m, m <= Emitted'
      PROVE  OnItsWay(m)' \/ Lost(m)'
  <2>1. OnItsWay(m) \/ Lost(m)
    BY <1>1, <1>3, OwnNumbers
  <2>2. CASE OnItsWay(m)
    <3>1. CASE \E i \in HeldOwn : startup[i].n = m
      <4>1. \E j \in HeldOwn' : startup'[j].n = m
        BY <1>3, <3>1
      <4> QED
        BY <4>1 DEF OnItsWay
    <3>2. CASE \E i \in CallOwn : loop[i].event.n = m
      <4>1. \/ \E j \in CallOwn' : loop'[j].event.n = m
            \/ \E j \in HeldOwn' : startup'[j].n = m
        BY <1>3, <3>2
      <4> QED
        BY <4>1 DEF OnItsWay
    <3>3. CASE cb.pc \in {"reserve", "post"} /\ cb.event.n = m
      BY <3>3 DEF OnItsWay
    <3> QED
      BY <2>2, <3>1, <3>2, <3>3 DEF OnItsWay
  <2>3. CASE Lost(m)
    <3>1. \A i \in HeldOwn : startup[i].n < m
      BY <2>3 DEF Lost
    <3>2. CASE cb.pc = "postStop" /\ \A j \in CallOwn : loop[j].event.n < m
      <4>1. \A i \in HeldOwn' : startup'[i].n < m
        BY <3>1, <3>2
      <4>2. \A j \in CallOwn' : loop'[j].event.n < m
        BY <3>2
      <4> QED
        BY <3>2, <4>1, <4>2 DEF Lost
    <3>3. ASSUME NEW k \in DOMAIN loop, StopComes(k),
                 \A j \in CallOwn : j < k => loop[j].event.n < m
          PROVE  Lost(m)'
      <4>1. k > d /\ k - d \in DOMAIN loop' /\ StopComes(k - d)' /\ k \in Nat
        BY <3>3, OwnNumbers
      <4>2. \A i \in HeldOwn' : startup'[i].n < m
        BY <3>1, <3>3, <4>1
      <4>3. \A j \in CallOwn' : j < k - d => j + d < k
        BY <4>1
      <4>4. \A j \in CallOwn' : j < k - d => loop'[j].event.n < m
        BY <3>3, <4>3
      <4> QED
        BY <4>1, <4>2, <4>4 DEF Lost
    <3> QED
      BY <2>3, <3>2, <3>3 DEF Lost
  <2> QED
    BY <2>1, <2>2, <2>3
<1> QED
  BY <1>2, <1>3 DEF Covered

-----------------------------------------------------------------------------
(* The callback thread, and a new runtime.                                   *)

\* A callback begins with the next event.
LEMMA OrderEmit ==
  ASSUME TypeOK, Control, Increasing, Covered, generation # 0 => alive,
         NEW r \in Runtime, NEW event \in Emission(r), Emit(r, event)
  PROVE  Increasing' /\ Covered'
<1>1. r = started /\ started # 0 /\ cb.pc = "idle"
  BY OnlyCurrent DEF Emit, Living, Control
<1>2. UNCHANGED <<alive, starting, generation, started, handle, failed, queued, startup,
                  loop, account, gui, last>>
  BY DEF Emit
<1>3. event.n = Emitted + 1 /\ Emitted \in Nat /\ Emitted' = Emitted + 1
  <2>1. event.n = runtime[r].emitted + 1
    BY EmissionType DEF Emit
  <2>2. runtime \in [Runtime -> World] /\ runtime[r] \in World
    BY TypeFacts
  <2>3. runtime'[r].emitted = runtime[r].emitted + 1
    BY <2>2 DEF Emit, World
  <2> QED
    BY <1>1, <1>2, <2>1, <2>3, OwnNumbers DEF Emitted
<1>4. HeldOwn' = HeldOwn /\ CallOwn' = CallOwn /\ \A k : StopComes(k)' <=> StopComes(k)
  BY <1>2 DEF HeldOwn, CallOwn, StopComes
<1>5. \/ cb' = CbIdle /\ cb'.pc = "idle" /\ generation = 0
      \/ cb'.pc = "reserve" /\ cb'.event = event
  BY DEF Emit, CbIdle
<1>6. Increasing'
  <2>1. /\ \A i \in HeldOwn : startup[i].n \in Nat
        /\ \A i \in CallOwn : loop[i].event.n \in Nat
        /\ last.n \in Nat
    BY OwnNumbers
  <2>2. /\ \A i \in HeldOwn : startup[i].n <= Emitted' /\ startup[i].n < event.n
        /\ \A i \in CallOwn : loop[i].event.n <= Emitted' /\ loop[i].event.n < event.n
        /\ last.n <= Emitted' /\ last.n < event.n /\ event.n <= Emitted'
    BY <1>3, <2>1 DEF Increasing
  <2>3. cb'.pc # "idle" => cb'.event = event
    BY <1>5
  <2> QED
    BY <1>2, <1>4, <2>2, <2>3 DEF Increasing
<1>7. Covered'
  <2> SUFFICES ASSUME generation # 0 PROVE Covered'
    BY <1>2 DEF Covered
  <2>1. cb'.pc = "reserve" /\ cb'.event = event
    BY <1>5
  <2>2. \A m \in Nat : Lost(m) => Lost(m)'
    BY <1>1, <1>2, <1>4 DEF Lost
  <2>3. \A m \in Nat : OnItsWay(m) => OnItsWay(m)'
    BY <1>1, <1>2, <1>4 DEF OnItsWay
  <2>4. PICK n \in Nat : n = Emitted + 1
    BY <1>3
  <2>5. OnItsWay(n)'
    BY <1>3, <2>1, <2>4 DEF OnItsWay
  <2>6. \A m \in Nat : m <= Emitted' => m <= Emitted \/ m = n
    BY <1>3, <2>4
  <2>7. failed' => \E k \in DOMAIN loop' : StopComes(k)'
    BY <1>1, <1>2, <1>4 DEF Covered
  <2> QED
    BY <1>2, <2>2, <2>3, <2>5, <2>6, <2>7 DEF Covered
<1> QED
  BY <1>6, <1>7

\* An event is refused only when every earlier one is ahead of the call to stop.
LEMMA OrderReserve ==
  ASSUME TypeOK, Control, Increasing, Covered, Reserve
  PROVE  Increasing' /\ Covered'
<1>1. /\ cb.pc = "reserve"
      /\ \/ cb'.pc = "post" /\ cb'.event = cb.event /\ failed' = failed
         \/ ~failed /\ cb'.pc = "postStop" /\ cb'.event = cb.event /\ failed' = TRUE
         \/ failed /\ cb'.pc = "idle" /\ failed' = TRUE
      /\ UNCHANGED <<generation, started, startup, loop, runtime, last>>
  BY ReserveMeans
<1>2. /\ HeldOwn' = HeldOwn /\ CallOwn' = CallOwn /\ \A k : StopComes(k)' <=> StopComes(k)
      /\ Emitted' = Emitted
  BY <1>1 DEF HeldOwn, CallOwn, StopComes, Emitted
<1>3. Increasing'
  BY <1>1, <1>2 DEF Increasing
<1>4. Covered'
  <2> SUFFICES ASSUME generation # 0 PROVE Covered'
    BY <1>1 DEF Covered
  <2>1. failed' => cb'.pc = "postStop" \/ \E k \in DOMAIN loop' : StopComes(k)'
    BY <1>1, <1>2 DEF Covered
  <2>2. ASSUME NEW m \in Nat, last'.n < m, m <= Emitted'
        PROVE  OnItsWay(m)' \/ Lost(m)'
    <3>1. OnItsWay(m) \/ Lost(m)
      BY <1>1, <1>2, <2>2 DEF Covered
    <3>2. Lost(m) => Lost(m)'
      BY <1>1, <1>2 DEF Lost
    <3>3. CASE OnItsWay(m) /\ cb.event.n # m
      BY <1>1, <1>2, <3>3 DEF OnItsWay
    <3>4. CASE cb.event.n = m
      <4>1. /\ \A i \in HeldOwn : startup[i].n < m
            /\ \A i \in CallOwn : loop[i].event.n < m
        BY <1>1, <3>4 DEF Increasing
      <4>2. CASE cb'.pc = "post"
        BY <1>1, <3>4, <4>2 DEF OnItsWay
      <4>3. CASE cb'.pc # "post"
        <5>1. cb'.pc = "postStop" \/ \E k \in DOMAIN loop' : StopComes(k)'
          BY <1>1, <2>1, <4>3
        <5> QED
          BY <1>1, <1>2, <4>1, <5>1 DEF Lost
      <4> QED
        BY <4>2, <4>3
    <3> QED
      BY <3>1, <3>2, <3>3, <3>4
  <2> QED
    BY <2>1, <2>2 DEF Covered
<1> QED
  BY <1>3, <1>4

\* A callback posts behind everything else: an event, or the call to stop.
LEMMA OrderPost ==
  ASSUME TypeOK, Control, Increasing, Covered, Post
  PROVE  Increasing' /\ Covered'
<1>1. PICK c \in Calls :
        /\ loop' = Append(loop, c) /\ c.generation = cb.generation
        /\ cb.pc = "post" => c.call = "event" /\ c.event = cb.event
        /\ cb.pc = "postStop" => c.call = "overflow"
  BY PostMeans
<1>2. /\ cb.pc \in {"post", "postStop"} /\ cb'.pc = "idle"
      /\ UNCHANGED <<generation, started, failed, startup, runtime, last>>
  BY PostMeans
<1>3. c.generation = started /\ cb.event.runtime = started
  BY <1>1, <1>2 DEF Control, Owned
<1>4. /\ DOMAIN loop \subseteq DOMAIN loop'
      /\ \A i \in DOMAIN loop' :
              \/ i \in DOMAIN loop /\ loop'[i] = loop[i]
              \/ i \notin DOMAIN loop /\ loop'[i] = c /\ \A j \in DOMAIN loop : j < i
      /\ \A i, j \in DOMAIN loop' : i \notin DOMAIN loop /\ j \notin DOMAIN loop => i = j
  BY <1>1, Grown
<1>5. PICK new \in DOMAIN loop' : new \notin DOMAIN loop /\ loop'[new] = c
  BY <1>1, <1>4, Grown
<1>6. /\ \A i \in DOMAIN loop : i \in DOMAIN loop' /\ loop'[i] = loop[i] /\ i < new /\ i \in Nat
      /\ \A i \in DOMAIN loop' : i \in DOMAIN loop \/ i = new
      /\ new \in Nat /\ ~(new < new)
  <2>1. loop' \in Seq(Calls)
    BY <1>1, TypeFacts
  <2>2. new \in Nat
    BY <2>1
  <2> QED
    BY <1>4, <1>5, <2>2, OwnNumbers
<1>7. HeldOwn' = HeldOwn /\ Emitted' = Emitted
  BY <1>2 DEF HeldOwn, Emitted
<1>8. CASE cb.pc = "post"
  <2>1. CallOwn' = CallOwn \cup {new} /\ loop'[new].event = cb.event
    BY <1>1, <1>2, <1>3, <1>5, <1>6, <1>8 DEF CallOwn
  <2>2. /\ \A i \in CallOwn : loop'[i] = loop[i] /\ i < new /\ ~(new < i)
    BY <1>6 DEF CallOwn
  <2>3. Increasing'
    <3>1. \A i, j \in CallOwn' : i < j => loop'[i].event.n < loop'[j].event.n
      BY <1>6, <1>8, <2>1, <2>2 DEF Increasing
    <3>2. /\ \A i \in HeldOwn, j \in CallOwn' : startup[i].n < loop'[j].event.n
          /\ \A i \in CallOwn' : last.n < loop'[i].event.n /\ loop'[i].event.n <= Emitted
      BY <1>8, <2>1, <2>2 DEF Increasing
    <3> QED
      BY <1>2, <1>7, <3>1, <3>2 DEF Increasing
  <2>4. Covered'
    <3> SUFFICES ASSUME generation # 0 PROVE Covered'
      BY <1>2 DEF Covered
    <3>1. \A k \in DOMAIN loop : StopComes(k) => StopComes(k)' /\ k \in DOMAIN loop'
      BY <1>2, <1>6 DEF StopComes
    <3>2. failed' => \E k \in DOMAIN loop' : StopComes(k)'
      BY <1>2, <1>8, <3>1 DEF Covered
    <3>3. ASSUME NEW m \in Nat, OnItsWay(m) PROVE OnItsWay(m)'
      BY <1>2, <1>7, <2>1, <2>2, <3>3 DEF OnItsWay
    <3>4. ASSUME NEW m \in Nat, Lost(m) PROVE Lost(m)'
      <4>1. PICK k \in DOMAIN loop : StopComes(k) /\ \A j \in CallOwn : j < k => loop[j].event.n < m
        BY <1>8, <3>4 DEF Lost
      <4>2. k < new /\ ~(new < k)
        BY <1>6
      <4>3. \A j \in CallOwn' : j < k => loop'[j].event.n < m
        BY <2>1, <2>2, <4>1, <4>2
      <4> QED
        BY <1>2, <1>7, <3>1, <3>4, <4>1, <4>3 DEF Lost
    <3> QED
      BY <1>2, <1>7, <3>2, <3>3, <3>4 DEF Covered
  <2> QED
    BY <2>3, <2>4
<1>9. CASE cb.pc = "postStop"
  <2>1. CallOwn' = CallOwn /\ \A i \in CallOwn : loop'[i] = loop[i]
    BY <1>1, <1>2, <1>5, <1>6, <1>9 DEF CallOwn
  <2>2. Increasing'
    BY <1>2, <1>7, <2>1 DEF Increasing
  <2>3. Covered'
    <3> SUFFICES ASSUME generation # 0 PROVE Covered'
      BY <1>2 DEF Covered
    <3>1. \A k \in DOMAIN loop : StopComes(k) => StopComes(k)' /\ k \in DOMAIN loop'
      BY <1>2, <1>6 DEF StopComes
    <3>2. StopComes(new)'
      BY <1>1, <1>2, <1>3, <1>5, <1>9 DEF StopComes
    <3>3. ASSUME NEW m \in Nat, OnItsWay(m) PROVE OnItsWay(m)'
      BY <1>2, <1>7, <1>9, <2>1, <3>3 DEF OnItsWay
    <3>4. ASSUME NEW m \in Nat, Lost(m) PROVE Lost(m)'
      BY <1>2, <1>5, <1>7, <2>1, <3>1, <3>2, <3>4 DEF Lost
    <3> QED
      BY <1>2, <1>5, <1>7, <3>2, <3>3, <3>4 DEF Covered
  <2> QED
    BY <2>2, <2>3
<1> QED
  BY <1>2, <1>8, <1>9

\* A new runtime has no events yet, and clears m_queueFailed: no callback of an earlier
\* runtime can set it again, since all of them are over.
LEMMA OrderStartAsync ==
  ASSUME TypeOK, Control, StartAsync,
         \A r \in Runtime : r <= started => runtime[r].phase \in Gone
  PROVE  Increasing' /\ Covered' /\ NoGap'
<1>1. PICK n \in Runtime : n = started + 1
  <2>1. started < StartLimit
    BY DEF StartAsync
  <2> QED
    BY <2>1, Numbers, Limits DEF Runtime
<1>2. /\ started' = n /\ n # 0 /\ n > started /\ n \in Nat /\ started \in Nat
      /\ UNCHANGED <<loop, cb, startup>> /\ last' = NothingYet /\ failed' = FALSE
      /\ Phase(n, "starting")
  BY <1>1, Numbers DEF StartAsync, Runtime
<1>3. runtime[n].phase = "none" /\ runtime[n].emitted = 0
  BY <1>1, <1>2 DEF Control, Current
<1>4. Emitted' = 0
  BY <1>1, <1>2, <1>3, PhaseMeans DEF Emitted
<1>5. cb.pc = "idle"
  <2>1. ASSUME cb.pc # "idle" PROVE FALSE
    <3>1. started # 0 /\ runtime[started].phase \in Living
      BY <2>1 DEF Control, Owned
    <3>2. started \in Runtime /\ started <= started
      BY <3>1, Numbers
    <3> QED
      BY <3>1, <3>2 DEF Living, Gone
  <2> QED
    BY <2>1
<1>6. HeldOwn' = {}
  <2>1. ASSUME NEW i \in DOMAIN startup, startup[i].runtime = n PROVE FALSE
    <3>1. runtime[startup[i].runtime].phase = "failed"
      BY DEF Control, Held, StartAsync
    <3> QED
      BY <1>3, <2>1, <3>1
  <2> QED
    BY <1>2, <2>1 DEF HeldOwn
<1>7. CallOwn' = {}
  <2>1. ASSUME NEW i \in DOMAIN loop, loop[i].call = "event", loop[i].event.runtime = n
        PROVE  FALSE
    <3>1. loop[i].generation = n /\ loop[i].generation <= started
      BY <2>1 DEF Control, Owned
    <3> QED
      BY <1>2, <3>1
  <2> QED
    BY <1>2, <2>1 DEF CallOwn
<1>8. last'.n = 0 /\ ~last'.gap
  BY <1>2 DEF NothingYet
<1>9. Increasing'
  BY <1>2, <1>4, <1>5, <1>6, <1>7, <1>8 DEF Increasing
<1>10. Covered'
  BY <1>2, <1>4, <1>8 DEF Covered
<1> QED
  BY <1>8, <1>9, <1>10 DEF NoGap

-----------------------------------------------------------------------------
(* The GUI thread: events dropped, delivered and held.                       *)

\* Only a callback adds to the events emitted.
LEMMA EmittedSame ==
  ASSUME TypeOK, started' = started,
         \A r \in Runtime : runtime'[r].emitted = runtime[r].emitted
  PROVE  Emitted' = Emitted
  BY Numbers DEF Emitted

\* A step that stops, or after which nothing is delivered any more.
LEMMA OrderStopped ==
  ASSUME TypeOK, Increasing, generation' = 0, UNCHANGED <<started, cb, last>>,
         Emitted' = Emitted,
         startup' = <<>> \/ startup' = startup,
         loop' = loop \/ loop' = <<>> \/ \E name \in {"event", "overflow", "started"} : Takes(name)
  PROVE  Increasing' /\ Covered' /\ (NoGap => NoGap')
<1>1. \A i \in HeldOwn' : i \in HeldOwn /\ startup'[i] = startup[i]
  BY DEF HeldOwn
<1>2. \E d \in {0, 1} : \A i \in CallOwn' : i \in Nat /\ i + d \in CallOwn /\ loop'[i] = loop[i + d]
  <2>1. CASE loop' = loop
    <3>1. CallOwn' = CallOwn
      BY <2>1 DEF CallOwn
    <3>2. \A i \in CallOwn' : i \in Nat /\ i + 0 = i
      BY <3>1, OwnNumbers
    <3> QED
      BY <2>1, <3>1, <3>2
  <2>2. CASE loop' = <<>>
    BY <2>2 DEF CallOwn
  <2>3. ASSUME NEW name \in {"event", "overflow", "started"}, Takes(name)
        PROVE  \A i \in CallOwn' : i \in Nat /\ i + 1 \in CallOwn /\ loop'[i] = loop[i + 1]
    BY <2>3, CallsMove
  <2> QED
    BY <2>1, <2>2, <2>3
<1>3. Increasing'
  BY <1>1, <1>2, FewerIncreasing
<1> QED
  BY <1>3 DEF Covered, NoGap

\* A step that changes nothing about the events on their way.
LEMMA OrderUntouched ==
  ASSUME TypeOK, Increasing, Covered, UNCHANGED <<generation, started, cb, failed, startup, last>>,
         Emitted' = Emitted,
         \/ loop' = loop
         \/ \E c \in Calls : c.call = "started" /\ loop' = Append(loop, c)
         \/ Takes("event") /\ Head(loop).event.runtime # started
         \/ Takes("overflow") /\ Head(loop).generation # started
  PROVE  Increasing' /\ Covered' /\ (NoGap => NoGap')
<1>1. HeldOwn' = HeldOwn /\ \A i \in HeldOwn' : i \in HeldOwn /\ startup'[i] = startup[i]
  BY DEF HeldOwn
<1>2. PICK d \in {0, 1} :
        /\ \A i \in CallOwn' : i \in Nat /\ i + d \in CallOwn /\ loop'[i] = loop[i + d]
        /\ \A i \in CallOwn : i - d \in CallOwn' /\ loop'[i - d] = loop[i]
        /\ \A k \in DOMAIN loop : StopComes(k) => /\ k > d /\ k - d \in DOMAIN loop'
                                                  /\ StopComes(k - d)'
  <2>1. ASSUME CallOwn' = CallOwn, \A i \in DOMAIN loop : i \in DOMAIN loop' /\ loop'[i] = loop[i]
        PROVE  /\ \A i \in CallOwn' : i \in Nat /\ i + 0 \in CallOwn /\ loop'[i] = loop[i + 0]
               /\ \A i \in CallOwn : i - 0 \in CallOwn' /\ loop'[i - 0] = loop[i]
               /\ \A k \in DOMAIN loop : StopComes(k) => /\ k > 0 /\ k - 0 \in DOMAIN loop'
                                                         /\ StopComes(k - 0)'
    <3>1. \A i \in DOMAIN loop : i \in Nat /\ i >= 1 /\ i + 0 = i /\ i - 0 = i
      BY OwnNumbers
    <3>2. \A i \in CallOwn : i \in DOMAIN loop
      BY DEF CallOwn
    <3>3. /\ \A i \in CallOwn' : i \in Nat /\ i + 0 \in CallOwn /\ loop'[i] = loop[i + 0]
          /\ \A i \in CallOwn : i - 0 \in CallOwn' /\ loop'[i - 0] = loop[i]
      BY <2>1, <3>1, <3>2
    <3>4. ASSUME NEW k \in DOMAIN loop, StopComes(k)
          PROVE  k > 0 /\ k - 0 \in DOMAIN loop' /\ StopComes(k - 0)'
      BY <2>1, <3>1, <3>4 DEF StopComes
    <3> QED
      BY <3>3, <3>4
  <2>2. CASE loop' = loop
    BY <2>1, <2>2 DEF CallOwn
  <2>3. ASSUME NEW c \in Calls, c.call = "started", loop' = Append(loop, c)
        PROVE  CallOwn' = CallOwn /\ \A i \in DOMAIN loop : i \in DOMAIN loop' /\ loop'[i] = loop[i]
    <3>1. /\ DOMAIN loop \subseteq DOMAIN loop'
          /\ \A i \in DOMAIN loop' : \/ i \in DOMAIN loop /\ loop'[i] = loop[i]
                                     \/ i \notin DOMAIN loop /\ loop'[i] = c
      BY <2>3, Grown
    <3> QED
      BY <2>3, <3>1 DEF CallOwn
  <2>4. CASE Takes("event") /\ Head(loop).event.runtime # started
    <3>1. 1 \notin CallOwn
      BY <2>4, Shrunk DEF CallOwn
    <3> QED
      BY <2>4, <3>1, CallsMove
  <2>5. CASE Takes("overflow") /\ Head(loop).generation # started
    BY <2>5, CallsMove
  <2> QED
    BY <2>1, <2>2, <2>3, <2>4, <2>5
<1>3. last.n \in Nat /\ last.n <= last.n
  BY OwnNumbers
<1>4. Increasing'
  BY <1>1, <1>2, FewerIncreasing
<1>5. Covered'
  BY <1>1, <1>2, <1>3, CoveredMoves
<1> QED
  BY <1>4, <1>5 DEF NoGap

\* An event of the current runtime at the head of the loop is the one after the last
\* delivered.
LEMMA NextInLine ==
  ASSUME TypeOK, Control, Increasing, Covered, Takes("event"),
         Head(loop).generation = generation, ~starting
  PROVE  /\ 1 \in CallOwn /\ loop[1] = Head(loop) /\ Head(loop).event.n = last.n + 1
         /\ HeldOwn = {}
<1>1. /\ 1 \in DOMAIN loop /\ loop[1] = Head(loop) /\ loop[1].call = "event"
      /\ loop[1] \in Calls /\ loop[1].generation # 0
  BY Shrunk, CallCases DEF Runtime
<1>2. generation # 0 /\ generation = started
  BY <1>1 DEF Control, Current
<1>3. 1 \in CallOwn
  BY <1>1, <1>2 DEF Control, Owned, CallOwn
<1>4. HeldOwn = {}
  <2>1. runtime[started].phase = "running"
    BY <1>2 DEF Control, Current
  <2> QED
    BY <2>1 DEF HeldOwn, Control, Held
<1>5. PICK e \in Nat : e = loop[1].event.n
  BY <1>3, OwnNumbers
<1>6. last.n < e /\ e <= Emitted /\ last.n \in Nat /\ Emitted \in Nat
  BY <1>3, <1>5, OwnNumbers DEF Increasing
<1>7. ASSUME e # last.n + 1 PROVE FALSE
  <2>1. PICK m \in Nat : m = last.n + 1
    BY <1>6
  <2>2. last.n < m /\ m <= Emitted /\ m < e
    BY <1>6, <1>7, <2>1
  <2>3. \A i \in CallOwn : i = 1 \/ 1 < i
    BY OwnNumbers
  <2>4. \A i \in CallOwn : loop[i].event.n = e \/ e < loop[i].event.n
    BY <1>3, <1>5, <2>3 DEF Increasing
  <2>5. \A i \in CallOwn : loop[i].event.n # m
    BY <2>2, <2>4, OwnNumbers
  <2>6. cb.pc # "idle" => cb.event.n # m
    BY <1>3, <1>5, <2>2, OwnNumbers DEF Increasing
  <2>7. ~OnItsWay(m)
    BY <1>4, <2>5, <2>6 DEF OnItsWay
  <2>8. ~Lost(m)
    <3>1. ASSUME \A j \in CallOwn : loop[j].event.n < m PROVE FALSE
      BY <1>3, <1>5, <2>2, <3>1
    <3>2. ASSUME NEW k \in DOMAIN loop, StopComes(k),
                 \A j \in CallOwn : j < k => loop[j].event.n < m
          PROVE  FALSE
      <4>1. k # 1
        BY <1>1, <3>2 DEF StopComes
      <4>2. 1 < k
        BY <4>1, OwnNumbers
      <4> QED
        BY <1>3, <1>5, <2>2, <3>2, <4>2
    <3> QED
      BY <3>1, <3>2 DEF Lost
  <2> QED
    BY <1>2, <2>2, <2>7, <2>8 DEF Covered
<1> QED
  BY <1>1, <1>3, <1>4, <1>5, <1>7

\* It is delivered.
LEMMA OrderDelivered ==
  ASSUME TypeOK, Control, Increasing, Covered, Takes("event"),
         Head(loop).generation = generation, ~starting, Deliver(<<Head(loop).event>>),
         UNCHANGED <<generation, started, cb, failed, startup>>, Emitted' = Emitted
  PROVE  Increasing' /\ Covered' /\ (NoGap => NoGap')
<1>1. /\ 1 \in CallOwn /\ loop[1] = Head(loop) /\ Head(loop).event.n = last.n + 1
      /\ HeldOwn = {}
  BY NextInLine
<1>2. /\ \A i \in CallOwn' : i \in Nat /\ i + 1 \in CallOwn /\ loop'[i] = loop[i + 1]
      /\ \A i \in CallOwn : i # 1 => i - 1 \in CallOwn' /\ loop'[i - 1] = loop[i]
      /\ \A k \in DOMAIN loop : StopComes(k) => /\ k > 1 /\ k - 1 \in DOMAIN loop'
                                                /\ StopComes(k - 1)'
  BY CallsMove
<1>3. PICK event \in Event : event = Head(loop).event
  BY Taken, CallCases
<1>4. event.runtime = generation
  BY <1>1, <1>3, Taken, CallCases DEF CallOwn, Control, Owned
<1>5. PICK e \in Nat : e = event.n /\ e = last.n + 1
  BY <1>1, <1>3, OwnNumbers
<1>6. last'.n = e /\ (~last.gap => ~last'.gap)
  BY <1>3, <1>4, <1>5, DeliverOne
<1>7. HeldOwn' = {}
  BY <1>1 DEF HeldOwn
<1>8. Increasing'
  <2>1. \A i \in CallOwn' : i \in Nat /\ i >= 1 /\ 1 < i + 1
    <3>1. \A i \in CallOwn' : i \in DOMAIN loop'
      BY DEF CallOwn
    <3>2. loop' \in Seq(Calls)
      BY Taken
    <3> QED
      BY <3>1, <3>2
  <2>2. \A i \in CallOwn' : e < loop'[i].event.n /\ loop'[i].event.n <= Emitted
    BY <1>1, <1>2, <1>3, <1>5, <2>1 DEF Increasing
  <2>3. \A i, j \in CallOwn' : i < j => i + 1 < j + 1
    BY <2>1
  <2>4. \A i, j \in CallOwn' : i < j => loop'[i].event.n < loop'[j].event.n
    BY <1>2, <2>3 DEF Increasing
  <2>5. e <= Emitted
    BY <1>1, <1>3, <1>5 DEF Increasing
  <2>6. cb'.pc # "idle" => /\ \A i \in CallOwn' : loop'[i].event.n < cb'.event.n
                           /\ e < cb'.event.n /\ cb'.event.n <= Emitted
    BY <1>1, <1>2, <1>3, <1>5 DEF Increasing
  <2> QED
    BY <1>6, <1>7, <2>2, <2>4, <2>5, <2>6 DEF Increasing
<1>9. Covered'
  <2>1. loop[1].event.n <= last'.n /\ last'.n \in Nat /\ last.n <= last'.n
    BY <1>1, <1>3, <1>5, <1>6, OwnNumbers
  <2>2. \A i \in CallOwn : \/ i - 1 \in CallOwn' /\ loop'[i - 1] = loop[i]
                           \/ loop[i].event.n <= last'.n
    BY <1>2, <2>1
  <2> QED
    BY <1>1, <1>2, <1>7, <2>1, <2>2, CoveredMoves
<1> QED
  BY <1>6, <1>8, <1>9 DEF NoGap

\* An event that comes while starting is held behind those held already.
LEMMA OrderHeld ==
  ASSUME TypeOK, Control, Increasing, Covered, Takes("event"),
         Head(loop).generation = generation, startup' = Append(startup, Head(loop).event),
         UNCHANGED <<generation, started, cb, failed, last>>, Emitted' = Emitted
  PROVE  Increasing' /\ Covered' /\ (NoGap => NoGap')
<1>1. /\ 1 \in DOMAIN loop /\ loop[1] = Head(loop) /\ loop[1].call = "event"
      /\ loop[1] \in Calls /\ loop[1].generation # 0
  BY Shrunk, CallCases DEF Runtime
<1>2. generation # 0 /\ generation = started
  BY <1>1 DEF Control, Current
<1>3. 1 \in CallOwn
  BY <1>1, <1>2 DEF Control, Owned, CallOwn
<1>4. /\ \A i \in CallOwn' : i \in Nat /\ i + 1 \in CallOwn /\ loop'[i] = loop[i + 1]
      /\ \A i \in CallOwn : i # 1 => i - 1 \in CallOwn' /\ loop'[i - 1] = loop[i]
      /\ \A k \in DOMAIN loop : StopComes(k) => /\ k > 1 /\ k - 1 \in DOMAIN loop'
                                                /\ StopComes(k - 1)'
  BY CallsMove
<1>5. PICK event \in Event : event = loop[1].event /\ event.runtime = started
  BY <1>1, <1>3, CallCases DEF CallOwn
<1>6. PICK new \in Nat :
        /\ DOMAIN startup' = DOMAIN startup \cup {new} /\ startup'[new] = event
        /\ \A i \in DOMAIN startup : startup'[i] = startup[i] /\ i < new /\ ~(new < i)
  <2>1. startup \in Seq(Event) /\ startup' = Append(startup, event)
    BY <1>1, <1>5, TypeFacts
  <2>2. PICK n \in Nat : n = Len(startup)
    BY <2>1
  <2>3. /\ DOMAIN startup = 1 .. n /\ DOMAIN startup' = 1 .. n + 1
        /\ startup'[n + 1] = event /\ \A i \in 1 .. n : startup'[i] = startup[i]
    BY <2>1, <2>2
  <2>4. /\ 1 .. n + 1 = 1 .. n \cup {n + 1} /\ n + 1 \in Nat
        /\ \A i \in 1 .. n : i < n + 1 /\ ~(n + 1 < i)
    OBVIOUS
  <2> QED
    BY <2>3, <2>4
<1>7. HeldOwn' = HeldOwn \cup {new}
  BY <1>5, <1>6 DEF HeldOwn
<1>8. \A i \in HeldOwn : startup'[i] = startup[i] /\ i < new /\ ~(new < i) /\ i \in Nat
  BY <1>6, OwnNumbers DEF HeldOwn
<1>9. /\ \A i \in HeldOwn : startup[i].n < event.n
      /\ last.n < event.n /\ event.n <= Emitted
      /\ cb.pc # "idle" => event.n < cb.event.n
  BY <1>3, <1>5 DEF Increasing
<1>10. \A i \in CallOwn' : event.n < loop'[i].event.n
  <2>1. \A i \in CallOwn' : i \in Nat /\ i >= 1 /\ 1 < i + 1
    <3>1. \A i \in CallOwn' : i \in DOMAIN loop'
      BY DEF CallOwn
    <3>2. loop' \in Seq(Calls)
      BY Taken
    <3> QED
      BY <3>1, <3>2
  <2> QED
    BY <1>3, <1>4, <1>5, <2>1 DEF Increasing
<1>11. Increasing'
  <2>1. \A i, j \in HeldOwn' : i < j => startup'[i].n < startup'[j].n
    <3>1. \A i \in HeldOwn, j \in HeldOwn : i < j => startup'[i].n < startup'[j].n
      BY <1>8 DEF Increasing
    <3>2. \A i \in HeldOwn : startup'[i].n < startup'[new].n
      BY <1>6, <1>8, <1>9
    <3>3. ~(new < new) /\ \A i \in HeldOwn : ~(new < i)
      BY <1>6, <1>8
    <3> QED
      BY <1>7, <3>1, <3>2, <3>3
  <2>2. \A i \in HeldOwn', j \in CallOwn' : startup'[i].n < loop'[j].event.n
    BY <1>4, <1>6, <1>7, <1>8, <1>10 DEF Increasing
  <2>3. \A i, j \in CallOwn' : i < j => i + 1 < j + 1
    BY <1>4
  <2>4. \A i, j \in CallOwn' : i < j => loop'[i].event.n < loop'[j].event.n
    BY <1>4, <2>3 DEF Increasing
  <2>5. \A i \in HeldOwn' : last'.n < startup'[i].n /\ startup'[i].n <= Emitted'
    BY <1>6, <1>7, <1>8, <1>9 DEF Increasing
  <2>6. \A i \in CallOwn' : last'.n < loop'[i].event.n /\ loop'[i].event.n <= Emitted'
    BY <1>4 DEF Increasing
  <2>7. cb'.pc # "idle" => /\ \A i \in HeldOwn' : startup'[i].n < cb'.event.n
                           /\ \A i \in CallOwn' : loop'[i].event.n < cb'.event.n
                           /\ last'.n < cb'.event.n /\ cb'.event.n <= Emitted'
    BY <1>4, <1>6, <1>7, <1>8, <1>9 DEF Increasing
  <2>8. last'.n <= Emitted'
    BY DEF Increasing
  <2> QED
    BY <2>1, <2>2, <2>4, <2>5, <2>6, <2>7, <2>8 DEF Increasing
<1>12. Covered'
  <2>1. last'.n \in Nat /\ last.n <= last'.n
    BY OwnNumbers
  <2>2. \A i \in CallOwn : \/ i - 1 \in CallOwn' /\ loop'[i - 1] = loop[i]
                           \/ \E j \in HeldOwn' : startup'[j].n = loop[i].event.n
    BY <1>4, <1>5, <1>6, <1>7
  <2>3. \A i \in HeldOwn : \E j \in HeldOwn' : startup'[j].n = startup[i].n
    BY <1>7, <1>8
  <2>4. \A i \in HeldOwn' : \/ \E j \in HeldOwn : startup[j].n = startup'[i].n
                            \/ 1 \in CallOwn /\ loop[1].event.n = startup'[i].n
    BY <1>3, <1>5, <1>6, <1>7, <1>8
  <2> QED
    BY <1>4, <2>1, <2>2, <2>3, <2>4, CoveredMoves
<1> QED
  BY <1>11, <1>12 DEF NoGap

-----------------------------------------------------------------------------
(* The GUI thread: the events held are delivered when the start succeeds.    *)

\* What lies between the last event delivered and one that is held is held.
LEMMA NoneMissing ==
  ASSUME TypeOK, Increasing, Covered, generation # 0, NEW i \in HeldOwn, NEW m \in Nat,
         last.n < m, m < startup[i].n
  PROVE  \E j \in HeldOwn : startup[j].n = m
<1>1. PICK e \in Nat : e = startup[i].n
  BY OwnNumbers
<1>2. m < e /\ e <= Emitted /\ Emitted \in Nat
  BY <1>1, OwnNumbers DEF Increasing
<1>3. m <= Emitted
  BY <1>2
<1>4. OnItsWay(m) \/ Lost(m)
  BY <1>3 DEF Covered
<1>5. ~Lost(m)
  BY <1>1, <1>2 DEF Lost
<1>6. \A j \in CallOwn : loop[j].event.n # m
  <2>1. \A j \in CallOwn : e < loop[j].event.n /\ loop[j].event.n \in Nat
    BY <1>1, OwnNumbers DEF Increasing
  <2> QED
    BY <1>2, <2>1
<1>7. cb.pc \in {"reserve", "post"} => cb.event.n # m
  <2>1. cb.pc # "idle" => e < cb.event.n /\ cb.event.n \in Nat
    BY <1>1, OwnNumbers DEF Increasing
  <2> QED
    BY <1>2, <2>1
<1> QED
  BY <1>4, <1>5, <1>6, <1>7 DEF OnItsWay

\* How far the events held have been delivered after the first k of them.
Reached(h, k) ==
  /\ last.gap \/ ~h[k].last.gap
  /\ last.n <= h[k].last.n
  /\ h[k].last.n = last.n \/ \E i \in HeldOwn : startup[i].n = h[k].last.n
  /\ \A i \in HeldOwn : i <= k => startup[i].n <= h[k].last.n
  /\ \A i \in HeldOwn : k < i => h[k].last.n < startup[i].n

\* The next event held is of an earlier runtime, or the one after the last delivered.
LEMMA ReachedNext ==
  ASSUME TypeOK, Increasing, Covered, generation # 0, generation = started,
         NEW n \in Nat, DOMAIN startup = 1 .. n, NEW h, Tells(h, startup, n),
         NEW k \in 1 .. n, Reached(h, k - 1)
  PROVE  Reached(h, k)
<1>1. /\ startup \in Seq(Event) /\ startup[k] \in Event /\ generation \in 0 .. StartLimit
      /\ k \in DOMAIN startup
  BY TypeFacts
<1>2. /\ h[k] = Delivered(h[k - 1], startup[k]) /\ h[k] \in Told /\ h[k - 1] \in Told
  BY DEF Tells
<1>3. /\ h[k].last.n = IF startup[k].runtime = generation THEN startup[k].n ELSE h[k - 1].last.n
      /\ h[k].last.gap <=> \/ h[k - 1].last.gap
                           \/ /\ startup[k].runtime = generation
                              /\ startup[k].n # h[k - 1].last.n + 1
  BY <1>1, <1>2, DeliveredFields
<1>4. PICK a \in Nat : a = h[k - 1].last.n
  BY <1>2, Limits DEF Told, History
<1>5. PICK e \in Nat : e = startup[k].n
  BY <1>1, OwnNumbers
<1>6. \A i \in HeldOwn : /\ i \in Nat /\ startup[i].n \in Nat
                         /\ i <= k => i <= k - 1 \/ i = k
                         /\ k < i => k - 1 < i
  BY OwnNumbers
<1>7. /\ last.gap \/ ~h[k - 1].last.gap
      /\ last.n <= a /\ last.n \in Nat
      /\ a = last.n \/ \E i \in HeldOwn : startup[i].n = a
      /\ \A i \in HeldOwn : i <= k - 1 => startup[i].n <= a
      /\ \A i \in HeldOwn : k - 1 < i => a < startup[i].n
  BY <1>4, OwnNumbers DEF Reached
<1>8. CASE startup[k].runtime # generation
  <2>1. k \notin HeldOwn
    BY <1>8 DEF HeldOwn
  <2>2. \A i \in HeldOwn : i <= k => startup[i].n <= a
    BY <1>6, <1>7, <2>1
  <2>3. \A i \in HeldOwn : k < i => a < startup[i].n
    BY <1>6, <1>7
  <2>4. h[k].last.n = a /\ (h[k].last.gap <=> h[k - 1].last.gap)
    BY <1>3, <1>4, <1>8
  <2> QED
    BY <1>7, <2>2, <2>3, <2>4 DEF Reached
<1>9. CASE startup[k].runtime = generation
  <2>1. k \in HeldOwn /\ k - 1 < k
    BY <1>1, <1>9 DEF HeldOwn
  <2>2. a < e /\ last.n < e
    BY <1>5, <1>7, <2>1
  <2>3. \A i \in HeldOwn : k < i => e < startup[i].n
    BY <1>5, <2>1 DEF Increasing
  <2>4. e = a + 1
    <3>1. ASSUME e # a + 1 PROVE FALSE
      <4>1. PICK m \in Nat : m = a + 1
        OBVIOUS
      <4>2. last.n < m /\ m < e /\ a < m
        BY <1>7, <2>2, <3>1, <4>1
      <4>3. PICK j \in HeldOwn : startup[j].n = m
        BY <1>5, <2>1, <4>2, NoneMissing
      <4>4. j <= k - 1 \/ j = k \/ k < j
        BY <1>6
      <4> QED
        BY <1>5, <1>6, <1>7, <2>3, <4>2, <4>3, <4>4
    <3> QED
      BY <3>1
  <2>5. \A i \in HeldOwn : i <= k => startup[i].n <= e
    BY <1>5, <1>6, <1>7, <2>2
  <2>6. h[k].last.n = e /\ (h[k].last.gap <=> h[k - 1].last.gap)
    BY <1>3, <1>4, <1>5, <1>9, <2>4
  <2>7. last.n <= e
    BY <1>7, <2>2
  <2>8. \E i \in HeldOwn : startup[i].n = h[k].last.n
    BY <1>5, <2>1, <2>6
  <2>9. last.gap \/ ~h[k].last.gap
    BY <1>7, <2>6
  <2> QED
    BY <2>3, <2>5, <2>6, <2>7, <2>8, <2>9 DEF Reached
<1> QED
  BY <1>8, <1>9

\* The start succeeds: the events held are delivered, none of them missing.
LEMMA OrderStartSucceeded ==
  ASSUME TypeOK, Control, Increasing, Covered, StartSucceeded
  PROVE  Increasing' /\ Covered' /\ (NoGap => NoGap')
<1>1. /\ Takes("started") /\ startup' = <<>> /\ Deliver(startup)
      /\ Head(loop).generation = generation /\ Phase(Head(loop).generation, "running")
      /\ UNCHANGED <<generation, started, failed, cb>>
  BY DEF StartSucceeded, StillActive
<1>2. generation = started /\ started # 0 /\ started \in Runtime
  BY <1>1, StartTaken
<1>3. Emitted' = Emitted
  BY <1>1, <1>2, PhaseMeans, EmittedSame
<1>4. PICK n \in Nat : n = Len(startup) /\ DOMAIN startup = 1 .. n /\ startup \in Seq(Event)
  BY TypeFacts
<1>5. PICK h : Tells(h, startup, n)
  BY <1>4, DeliverTable, TypeFacts
<1>6. last' = h[n].last
  BY <1>5 DEF Deliver, Tells, Told, StartSucceeded
<1>7. Reached(h, n)
  <2> DEFINE D == {k \in 0 .. n : Reached(h, k)}
             f == [k \in 0 .. n |-> k]
  <2>1. f[0] \in D
    <3>1. h[0].last = last
      BY <1>5 DEF Tells
    <3>2. \A i \in HeldOwn : ~(i <= 0)
      <4>1. \A i \in HeldOwn : i \in 1 .. n
        BY <1>4 DEF HeldOwn
      <4> QED
        BY <4>1
    <3>3. Reached(h, 0)
      BY <3>1, <3>2, OwnNumbers DEF Reached, Increasing
    <3> QED
      BY <3>3
  <2>2. ASSUME NEW k \in 1 .. n, f[k - 1] \in D PROVE f[k] \in D
    <3>1. k - 1 \in 0 .. n /\ k \in 0 .. n
      OBVIOUS
    <3>2. Reached(h, k - 1)
      BY <2>2, <3>1
    <3>3. Reached(h, k)
      BY <1>2, <1>4, <1>5, <3>2, ReachedNext
    <3> QED
      BY <3>1, <3>3
  <2>3. f[n] \in D
    <3>1. \A k \in 0 .. n : f[k] \in D
      <4> HIDE DEF D, f
      <4> QED
        BY <2>1, <2>2, Along
    <3>2. n \in 0 .. n
      OBVIOUS
    <3> HIDE DEF D, f
    <3> QED
      BY <3>1, <3>2
  <2> QED
    BY <2>3
<1>8. PICK a \in Nat : a = last'.n
  <2>1. h[n] \in Told
    BY <1>5 DEF Tells
  <2> QED
    BY <1>6, <2>1, Limits DEF Told, History
<1>9. /\ last.gap \/ ~last'.gap
      /\ last.n <= a
      /\ a = last.n \/ \E i \in HeldOwn : startup[i].n = a
      /\ \A i \in HeldOwn : startup[i].n <= a
  <2>1. \A i \in HeldOwn : i <= n
    BY <1>4 DEF HeldOwn
  <2> QED
    BY <1>6, <1>7, <1>8, <2>1 DEF Reached
<1>10. HeldOwn' = {}
  BY <1>1 DEF HeldOwn
<1>11. /\ \A i \in CallOwn' : i \in Nat /\ i + 1 \in CallOwn /\ loop'[i] = loop[i + 1]
       /\ \A i \in CallOwn : i - 1 \in CallOwn' /\ loop'[i - 1] = loop[i]
       /\ \A k \in DOMAIN loop : StopComes(k) => /\ k > 1 /\ k - 1 \in DOMAIN loop'
                                                 /\ StopComes(k - 1)'
  BY <1>1, CallsMove
<1>12. /\ \A i \in CallOwn : a < loop[i].event.n /\ loop[i].event.n <= Emitted
       /\ cb.pc # "idle" => /\ \A i \in CallOwn : loop[i].event.n < cb.event.n
                            /\ a < cb.event.n /\ cb.event.n <= Emitted
       /\ a <= Emitted
  BY <1>9 DEF Increasing
<1>13. Increasing'
  <2>1. \A i, j \in CallOwn' : i < j => i + 1 < j + 1
    BY <1>11
  <2>2. \A i, j \in CallOwn' : i < j => loop'[i].event.n < loop'[j].event.n
    BY <1>11, <2>1 DEF Increasing
  <2> QED
    BY <1>1, <1>3, <1>8, <1>10, <1>11, <1>12, <2>2 DEF Increasing
<1>14. Covered'
  BY <1>1, <1>3, <1>8, <1>9, <1>10, <1>11, CoveredMoves
<1> QED
  BY <1>9, <1>13, <1>14 DEF NoGap

-----------------------------------------------------------------------------
(* No gap, over all of the lifecycle.                                        *)

\* The inductive invariant behind NoGap.
InLine == Increasing /\ Covered /\ NoGap

\* It holds in the beginning.
LEMMA InLineStart ==
  ASSUME LifecycleInit
  PROVE  InLine
  BY DEF LifecycleInit, Init, CbIdle, NothingYet, HeldOwn, CallOwn, Emitted, InLine, Increasing,
         Covered, NoGap

\* Steps of the lifecycle alone keep it.
LEMMA InLineUnchanged ==
  ASSUME InLine, UNCHANGED bridgeVars
  PROVE  InLine'
  BY DEF bridgeVars, InLine, Increasing, Covered, NoGap, HeldOwn, CallOwn, Emitted, OnItsWay,
         Lost, StopComes

\* stop, and the destructor.
LEMMA InLineStop ==
  ASSUME TypeOK, InLine, Stop \/ Destroy
  PROVE  InLine'
<1>1. /\ generation' = 0 /\ UNCHANGED <<started, cb, last>> /\ startup' = <<>>
      /\ loop' = loop \/ loop' = <<>>
  BY DEF Stop, Destroy, BeginStop
<1>2. \A r \in Runtime : runtime'[r].emitted = runtime[r].emitted
  <2>1. \A r \in Runtime : runtime[r] \in World
    BY TypeFacts
  <2> QED
    BY <2>1 DEF Stop, Destroy, World
<1>3. Emitted' = Emitted
  BY <1>1, <1>2, EmittedSame
<1> QED
  BY <1>1, <1>3, OrderStopped DEF InLine

\* An event is taken: stale, held, one too many, or delivered.
LEMMA InLineRunEvent ==
  ASSUME TypeOK, Control, InLine, RunEvent
  PROVE  InLine'
<1>1. /\ Takes("event") /\ UNCHANGED <<started, failed, cb, runtime>>
  BY DEF RunEvent
<1>2. Emitted' = Emitted
  BY <1>1, EmittedSame
<1>3. /\ Head(loop) \in Calls /\ Head(loop).generation \in Runtime
      /\ Head(loop).event.runtime = Head(loop).generation
  BY <1>1, Shrunk, CallCases DEF Control, Owned
<1>4. CASE /\ ~StillActive(Head(loop).generation)
           /\ UNCHANGED <<generation, handle, startup, account, gui, last>>
  <2>1. CASE generation = 0
    BY <1>1, <1>2, <1>4, <2>1, OrderStopped DEF InLine
  <2>2. CASE generation # 0
    <3>1. generation = started
      BY <2>2 DEF Control, Current
    <3>2. Head(loop).event.runtime # started
      BY <1>3, <1>4, <3>1 DEF StillActive
    <3> QED
      BY <1>1, <1>2, <1>4, <3>2, OrderUntouched DEF InLine
  <2> QED
    BY <2>1, <2>2
<1>5. CASE BeginStop /\ UNCHANGED <<account, last>>
  <2>1. generation' = 0 /\ startup' = <<>>
    BY <1>5 DEF BeginStop
  <2> QED
    BY <1>1, <1>2, <1>5, <2>1, OrderStopped DEF InLine
<1>6. CASE /\ StillActive(Head(loop).generation)
           /\ startup' = Append(startup, Head(loop).event)
           /\ UNCHANGED <<generation, handle, gui, account, last>>
  BY <1>1, <1>2, <1>6, OrderHeld DEF InLine, StillActive
<1>7. CASE /\ StillActive(Head(loop).generation) /\ ~starting
           /\ Deliver(<<Head(loop).event>>)
           /\ UNCHANGED <<generation, handle, startup, gui>>
  BY <1>1, <1>2, <1>7, OrderDelivered DEF InLine, StillActive
<1> QED
  BY <1>4, <1>5, <1>6, <1>7 DEF RunEvent

\* The call to stop is taken.
LEMMA InLineRunOverflow ==
  ASSUME TypeOK, Control, InLine, RunOverflow
  PROVE  InLine'
<1>1. /\ Takes("overflow") /\ UNCHANGED <<started, failed, cb, runtime, last>>
  BY DEF RunOverflow
<1>2. Emitted' = Emitted
  BY <1>1, EmittedSame
<1>3. CASE BeginStop
  <2>1. generation' = 0 /\ startup' = <<>>
    BY <1>3 DEF BeginStop
  <2> QED
    BY <1>1, <1>2, <2>1, OrderStopped DEF InLine
<1>4. CASE /\ ~StillActive(Head(loop).generation)
           /\ UNCHANGED <<generation, handle, startup, gui>>
  <2>1. CASE generation = 0
    BY <1>1, <1>2, <1>4, <2>1, OrderStopped DEF InLine
  <2>2. CASE generation # 0
    <3>1. generation = started
      BY <2>2 DEF Control, Current
    <3>2. Head(loop).generation # started
      BY <1>4, <3>1 DEF StillActive
    <3> QED
      BY <1>1, <1>2, <1>4, <3>2, OrderUntouched DEF InLine
  <2> QED
    BY <2>1, <2>2
<1> QED
  BY <1>3, <1>4 DEF RunOverflow

\* Steps that change no more of the events than which start or stop is over.
LEMMA InLineOther ==
  ASSUME TypeOK, Control, InLine,
         \/ Joined \/ StartCancelled \/ StartFailed
         \/ \E r \in Runtime : StopAbandoned(r) \/ \E ok \in BOOLEAN : KodosiStarts(r, ok)
  PROVE  InLine'
<1>1. ASSUME NEW r \in Runtime, NEW p, Phase(r, p), started' = started
      PROVE  Emitted' = Emitted
  BY <1>1, PhaseMeans, EmittedSame
<1>2. CASE Joined
  <2>1. gui \in Runtime
    BY <1>2, Numbers DEF Joined, Control, Current
  <2>2. Emitted' = Emitted
    BY <1>1, <1>2, <2>1 DEF Joined
  <2> QED
    BY <1>2, <2>2, OrderUntouched DEF Joined, InLine
<1>3. CASE StartCancelled
  <2>1. /\ Takes("started")
        /\ UNCHANGED <<generation, started, failed, startup, cb, last>>
    BY <1>3 DEF StartCancelled
  <2>2. started \in Runtime /\ Head(loop).generation = started
    BY <2>1, StartTaken
  <2>3. generation = 0
    BY <1>3, <2>2 DEF StartCancelled, StillActive, Control, Current
  <2>4. UNCHANGED runtime \/ Phase(started, "abandoned")
    BY <1>3, <2>2 DEF StartCancelled, Abandoned
  <2>5. Emitted' = Emitted
    BY <1>1, <2>1, <2>2, <2>4, EmittedSame
  <2> QED
    BY <2>1, <2>3, <2>5, OrderStopped DEF InLine
<1>4. CASE StartFailed
  <2>1. /\ Takes("started") /\ generation' = 0
        /\ UNCHANGED <<started, startup, cb, runtime, last>>
    BY <1>4 DEF StartFailed
  <2>2. Emitted' = Emitted
    BY <2>1, EmittedSame
  <2> QED
    BY <2>1, <2>2, OrderStopped DEF InLine
<1>5. ASSUME NEW r \in Runtime, StopAbandoned(r) PROVE InLine'
  <2>1. Emitted' = Emitted
    BY <1>1, <1>5 DEF StopAbandoned
  <2> QED
    BY <1>5, <2>1, OrderUntouched DEF StopAbandoned, InLine
<1>6. ASSUME NEW r \in Runtime, NEW ok \in BOOLEAN, KodosiStarts(r, ok) PROVE InLine'
  <2>1. Emitted' = Emitted
    <3>1. started' = started /\ \E p \in Phases : Phase(r, p)
      BY <1>6 DEF KodosiStarts, Phases
    <3> QED
      BY <1>1, <3>1
  <2>2. loop' = loop \/ \E c \in Calls : c.call = "started" /\ loop' = Append(loop, c)
    <3>1. PICK c : c = [call |-> "started", generation |-> r, ok |-> ok]
      OBVIOUS
    <3>2. c \in Calls /\ c.call = "started"
      BY <3>1 DEF Calls, StartCall
    <3>3. loop' = loop \/ loop' = Append(loop, c)
      BY <1>6, <3>1 DEF KodosiStarts
    <3> QED
      BY <3>2, <3>3
  <2>3. UNCHANGED <<generation, started, cb, failed, startup, last>>
    BY <1>6 DEF KodosiStarts
  <2> QED
    BY <2>1, <2>2, <2>3, OrderUntouched DEF InLine
<1> QED
  BY <1>2, <1>3, <1>4, <1>5, <1>6

\* Every step of the lifecycle keeps it.
LEMMA InLineStep ==
  ASSUME TypeOK, LifecycleTypes, Control, Mode, InLine, LifecycleNext
  PROVE  InLine'
<1>1. generation # 0 => alive
  BY DEF Mode, Quitting
<1>2. ASSUME NEW t \in timers, Execute(t) PROVE InLine'
  <2>1. StartAsync => Ended
    BY <1>2, ModeExecute
  <2>2. CASE StartAsync
    BY <2>1, <2>2, OrderStartAsync DEF Ended, InLine
  <2>3. CASE UNCHANGED bridgeVars
    BY <2>3, InLineUnchanged
  <2> QED
    BY <1>2, <2>2, <2>3 DEF Execute
<1>3. CASE ScheduleInitialStart \/ Retry
  BY <1>3, InLineUnchanged DEF ScheduleInitialStart, Retry
<1>4. CASE QuitLifecycle \/ QuitBridge
  BY <1>4, InLineStop DEF QuitLifecycle, QuitBridge
<1>5. CASE StartEnds \/ RuntimeStopped
  <2>1. StartSucceeded \/ StartFailed \/ StartCancelled \/ Joined
    BY <1>5 DEF StartEnds, RuntimeStopped
  <2>2. CASE StartSucceeded
    BY <2>2, OrderStartSucceeded DEF InLine
  <2> QED
    BY <2>1, <2>2, InLineOther
<1>6. CASE Quiet
  <2>1. ASSUME NEW r \in Runtime, NEW event \in Emission(r), Emit(r, event) PROVE InLine'
    <3>1. last' = last
      BY <2>1 DEF Emit
    <3> QED
      BY <1>1, <2>1, <3>1, OrderEmit DEF InLine, NoGap
  <2>2. CASE Reserve
    <3>1. last' = last
      BY <2>2 DEF Reserve
    <3> QED
      BY <2>2, <3>1, OrderReserve DEF InLine, NoGap
  <2>3. CASE Post
    <3>1. last' = last
      BY <2>3 DEF Post
    <3> QED
      BY <2>3, <3>1, OrderPost DEF InLine, NoGap
  <2> QED
    BY <1>6, <2>1, <2>2, <2>3, InLineRunEvent, InLineRunOverflow, InLineOther
    DEF Quiet, RuntimeSide
<1> QED
  BY <1>2, <1>3, <1>4, <1>5, <1>6 DEF LifecycleNext

\* What is delivered of a runtime has no gap, over overflows, stops, failed and called-off
\* starts and retries: after an event that found no room nothing more of that runtime is
\* delivered, whatever the limits of the queue and the bounds are.
THEOREM NoGapAlways == LifecycleSpec => []NoGap
<1>1. LifecycleInit => InLine
  BY InLineStart
<1>2. ASSUME BridgeInv, LifecycleInv, InLine, [LifecycleNext]_allVars PROVE InLine'
  <2>1. TypeOK /\ LifecycleTypes /\ Control /\ Mode
    BY <1>2 DEF BridgeInv, Sound, LifecycleInv
  <2>2. UNCHANGED allVars => UNCHANGED bridgeVars
    BY DEF allVars
  <2> QED
    BY <1>2, <2>1, <2>2, InLineStep, InLineUnchanged
<1>3. InLine => NoGap
  BY DEF InLine
<1> QED
  BY <1>1, <1>2, <1>3, LifecycleInvariance, PTL DEF LifecycleSpec
==================================================================================
