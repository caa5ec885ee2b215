---------------------------- MODULE Stage_proofs ----------------------------
(***************************************************************************)
(* Proofs about Stage, for any sessions and views and any value of its     *)
(* limits.  The layout and its tiles, the staged sessions, requests and    *)
(* links are added to the surfaces of SurfaceController_proofs; then every *)
(* event of the GUI thread is shown to leave a whole stage, to keep the    *)
(* tiles of the sessions that stay, and to lose no link without a word.    *)
(***************************************************************************)
EXTENDS SurfaceController_proofs

-----------------------------------------------------------------------------
(* Dividers                                                                  *)

Divider == [id : {<<"row", r>> : r \in Nat} \cup {<<"column", r, c>> : r, c \in Nat},
            visible : BOOLEAN]

\* Synchronized, the dividers are as many as wanted.
LEMMA AsManyPlaced ==
  ASSUME NEW E, NEW old \in Seq(E), NEW wanted \in Seq(E), NEW u, u = Synchronized(old, wanted)
  PROVE  u.rows \in Seq(E) /\ Len(u.rows) = Len(wanted)
<1>1. PICK m \in Nat : Len(wanted) = m /\ DOMAIN wanted = 1 .. m /\ \A i \in 1 .. m : wanted[i] \in E
  BY LenProperties, ElementOfSeq
<1>2. PICK h : /\ Walk("place", wanted, [rows |-> old, made |-> <<>>],
                       [target \in 1 .. m |-> target], m, h)
               /\ Synchronized(old, wanted) = CutTo(m, h[m])
  BY <1>1, PlaceWalk
<1> DEFINE I(k) == DOMAIN h[k] = {"rows", "made"} /\ h[k].rows \in Seq(E) /\ k <= Len(h[k].rows)
           S == {k \in Nat : I(k)}
<1>3. I(0)
  <2>1. h[0] = [rows |-> old, made |-> <<>>]
    BY <1>2 DEF Walk
  <2> QED
    BY <2>1, LenProperties
<1>4. ASSUME NEW k \in 1 .. m, I(k - 1) PROVE I(k)
  <2>1. PICK x : x = h[k - 1]
    OBVIOUS
  <2>2. PICK y : y = h[k]
    OBVIOUS
  <2>3. h[k] = Handled("place", wanted, h[k - 1], k)
    BY <1>2 DEF Walk
  <2>4. y = Place(x, k, wanted[k])
    BY <2>1, <2>2, <2>3 DEF Handled
  <2>5. PICK rows \in Seq(E) : rows = x.rows
    BY <1>4, <2>1
  <2>6. PICK n \in Nat : Len(rows) = n
    BY LenProperties
  <2>7. DOMAIN x = {"rows", "made"} /\ k - 1 <= n /\ k \in 1 .. n + 1 /\ wanted[k] \in E
    BY <1>1, <1>4, <2>1, <2>5, <2>6
  <2>8. /\ DOMAIN y = {"rows", "made"}
        /\ \/ PutIn(E, x, rows, n, k, wanted[k], y)
           \/ MovedUp(E, x, rows, n, k, wanted[k], y)
    BY ONLY <2>4, <2>5, <2>6, <2>7, Placed
  <2>9. CASE PutIn(E, x, rows, n, k, wanted[k], y)
    BY <2>2, <2>7, <2>8, <2>9 DEF PutIn
  <2>10. CASE MovedUp(E, x, rows, n, k, wanted[k], y)
    <3>1. y.rows \in Seq(E) /\ Len(y.rows) = n /\ k <= n
      <4>1. \E j \in k .. n : TRUE
        BY <2>10 DEF MovedUp
      <4>2. PICK j \in k .. n : TRUE
        BY <4>1
      <4> QED
        BY <2>10, <4>2 DEF MovedUp
    <3> QED
      BY <2>2, <2>8, <3>1
  <2> QED
    BY <2>8, <2>9, <2>10
<1>5. m \in S
  <2>1. 0 \in S
    BY <1>3
  <2>2. \A k \in 1 .. m : k - 1 \in S => k \in S
    BY <1>4
  <2> HIDE DEF S
  <2> QED
    BY <2>1, <2>2, Arrives
<1>6. PICK rows \in Seq(E) : rows = h[m].rows
  BY <1>5
<1>7. PICK n \in Nat : Len(rows) = n /\ m <= n
  BY <1>5, <1>6, LenProperties
<1>8. PICK r : r = SubSeq(rows, 1, m)
  OBVIOUS
<1>9. r \in Seq(E) /\ Len(r) = m - 1 + 1
  <2>1. 1 \in Nat /\ 1 <= 1 /\ 1 <= m + 1
    OBVIOUS
  <2> QED
    BY ONLY <1>6, <1>7, <1>8, <2>1, m \in Nat, n \in Nat, Cuts
<1>10. u.rows = r
  BY <1>2, <1>6, <1>8 DEF CutTo
<1> QED
  BY <1>1, <1>9, <1>10

\* Sequences laid end to end, by the lengths reached after each.
IsFlattening(g, s, m) == g = [i \in 1 .. m |-> IF i = 1 THEN s[i] ELSE g[i - 1] \o s[i]]
ReachesLengths(E, m, s, len) ==
  /\ DOMAIN s = 1 .. m /\ Len(s) = m /\ s = [i \in 1 .. m |-> s[i]]
  /\ \A i \in 1 .. m : s[i] \in Seq(E)
  /\ len[0] = 0 /\ \A i \in 0 .. m : len[i] \in Nat
  /\ \A i \in 1 .. m : len[i] = len[i - 1] + Len(s[i])

\* Laid end to end the sequences are as long as all together.
LEMMA Flattens ==
  ASSUME NEW E, NEW m \in Nat, NEW s, NEW len, ReachesLengths(E, m, s, len), NEW f, f = FlattenSeq(s)
  PROVE  f \in Seq(E) /\ Len(f) = len[m]
<1> USE DEF ReachesLengths
<1>1. CASE m = 0
  <2>1. f = s /\ 1 .. m = {}
    BY <1>1 DEF FlattenSeq
  <2>2. s = <<>>
    BY <2>1
  <2>3. <<>> \in Seq(E) /\ Len(<<>>) = 0
    OBVIOUS
  <2> QED
    BY <1>1, <2>1, <2>2, <2>3
<1>2. CASE m # 0
  <2> DEFINE G == {k \in Nat : \E g : IsFlattening(g, s, k)}
  <2>1. 0 \in G
    <3>1. PICK g : g = [i \in 1 .. 0 |-> s[i]]
      OBVIOUS
    <3>2. 1 .. 0 = {}
      OBVIOUS
    <3>3. IsFlattening(g, s, 0)
      BY <3>1, <3>2 DEF IsFlattening
    <3> QED
      BY <3>3
  <2>2. ASSUME NEW k \in 1 .. m, k - 1 \in G PROVE k \in G
    <3>1. PICK g : IsFlattening(g, s, k - 1)
      BY <2>2
    <3>2. PICK d : d = [i \in 1 .. k |-> IF i = k THEN (IF i = 1 THEN s[i] ELSE g[i - 1] \o s[i]) ELSE g[i]]
      OBVIOUS
    <3>3. ASSUME NEW i \in 1 .. k PROVE d[i] = IF i = 1 THEN s[i] ELSE d[i - 1] \o s[i]
      <4>1. CASE i = k
        <5>1. i # 1 => i - 1 \in 1 .. k /\ i - 1 # k
          BY <4>1
        <5> QED
          BY <3>2, <4>1, <5>1
      <4>2. CASE i # k
        <5>1. i \in 1 .. k - 1 /\ (i # 1 => i - 1 \in 1 .. k /\ i - 1 # k)
          BY <4>2
        <5>2. g[i] = IF i = 1 THEN s[i] ELSE g[i - 1] \o s[i]
          BY <3>1, <5>1 DEF IsFlattening
        <5> QED
          BY <3>2, <4>2, <5>1, <5>2
      <4> QED
        BY <4>1, <4>2
    <3>4. IsFlattening(d, s, k)
      <4>1. d = [i \in 1 .. k |-> d[i]]
        BY <3>2
      <4>2. [i \in 1 .. k |-> d[i]] = [i \in 1 .. k |-> IF i = 1 THEN s[i] ELSE d[i - 1] \o s[i]]
        BY ONLY <3>3
      <4> QED
        BY ONLY <4>1, <4>2 DEF IsFlattening
    <3>5. \E x : IsFlattening(x, s, k)
      BY ONLY <3>4, Zenon
    <3>6. k \in Nat
      BY ONLY m \in Nat, k \in 1 .. m
    <3> QED
      BY <3>5, <3>6
  <2>3. m \in G
    <3>1. \A k \in 1 .. m : k - 1 \in G => k \in G
      BY <2>2
    <3> HIDE DEF G
    <3> QED
      BY <2>1, <3>1, Arrives
  <2>4. f = (CHOOSE g : IsFlattening(g, s, m))[m]
    BY <1>2 DEF FlattenSeq, IsFlattening
  <2>5. PICK g : IsFlattening(g, s, m) /\ f = g[m]
    BY <2>3, <2>4
  <2> DEFINE S == {k \in Nat : k # 0 => g[k] \in Seq(E) /\ Len(g[k]) = len[k]}
  <2>6. ASSUME NEW k \in 1 .. m, k - 1 \in S PROVE k \in S
    <3>1. g[k] = IF k = 1 THEN s[k] ELSE g[k - 1] \o s[k]
      <4>1. g = [i \in 1 .. m |-> IF i = 1 THEN s[i] ELSE g[i - 1] \o s[i]]
        BY <2>5 DEF IsFlattening
      <4> QED
        BY ONLY <4>1, k \in 1 .. m
    <3>2. s[k] \in Seq(E) /\ Len(s[k]) \in Nat /\ len[k] = len[k - 1] + Len(s[k])
      BY LenProperties
    <3>3. CASE k = 1
      <4>1. k - 1 = 0
        BY <3>3
      <4>2. Len(g[k]) = len[k]
        BY <3>1, <3>2, <3>3, <4>1
      <4> QED
        BY <3>1, <3>2, <3>3, <4>2
    <3>4. CASE k # 1
      <4>1. g[k - 1] \in Seq(E) /\ Len(g[k - 1]) = len[k - 1]
        BY <2>6, <3>4
      <4>2. g[k - 1] \o s[k] \in Seq(E) /\ Len(g[k - 1] \o s[k]) = Len(g[k - 1]) + Len(s[k])
        BY ONLY <3>2, <4>1, ConcatProperties
      <4>3. g[k] \in Seq(E) /\ Len(g[k]) = len[k]
        BY ONLY <3>1, <3>2, <3>4, <4>1, <4>2
      <4>4. k \in Nat
        BY ONLY m \in Nat, k \in 1 .. m
      <4> QED
        BY ONLY <4>3, <4>4
    <3> QED
      BY <3>3, <3>4
  <2>7. m \in S
    <3>1. 0 \in S
      OBVIOUS
    <3>2. \A k \in 1 .. m : k - 1 \in S => k \in S
      BY <2>6
    <3> HIDE DEF S
    <3> QED
      BY <3>1, <3>2, Arrives
  <2> QED
    BY <1>2, <2>5, <2>7
<1> QED
  BY <1>1, <1>2

\* A number of sessions cut into rows.
LEMMA Ceiling ==
  ASSUME NEW n \in Nat \ {0}, NEW c \in 1 .. n, NEW m, m = (n + c - 1) \div c
  PROVE  m \in Nat \ {0} /\ (m - 1) * c < n /\ n <= m * c
<1>1. PICK k \in Nat : k = n + c - 1
  OBVIOUS
<1>2. c \in Nat \ {0} /\ k >= c
  BY <1>1
<1>3. PICK b \in Nat \ {0} : b = c
  BY <1>2
<1>9. k \div b \in Int /\ k \div b >= 0
  OBVIOUS
<1>10. b * (k \div b) <= k
  OBVIOUS
<1>11. k < b * (k \div b) + b
  OBVIOUS
<1>4. PICK q \in Nat : q = m /\ q = k \div b
  BY <1>1, <1>3, <1>9
<1>5. PICK p \in Int : p = b * q
  BY <1>2
<1>6. p <= k /\ k < p + c
  BY <1>3, <1>4, <1>5, <1>10, <1>11
<1>7. (q - 1) * c = p - c /\ q * c = p
  BY <1>3, <1>5
<1>8. q # 0
  BY <1>2, <1>5, <1>6
<1> QED
  BY <1>1, <1>4, <1>6, <1>7, <1>8

\* A product grows with its factor.
LEMMA Times ==
  ASSUME NEW a \in Int, NEW b \in Int, a <= b, NEW c \in Nat PROVE a * c <= b * c
<1>1. PICK d \in Nat : b = a + d
  <2>1. b - a \in Nat /\ b = a + (b - a)
    OBVIOUS
  <2> QED
    BY <2>1
<1>2. b * c = a * c + d * c /\ d * c >= 0 /\ a * c \in Int /\ d * c \in Int
  BY <1>1
<1> QED
  BY <1>2

\* The dividers between n sessions in columns.
LEMMA DividersBetween ==
  ASSUME NEW staged \in Seq(Session), NEW n \in Nat \ {0}, Len(staged) = n, NEW c \in 1 .. n,
         NEW focus \in BOOLEAN, NEW d, d = BuildDividers(RowsFor(staged, c), focus)
  PROVE  d \in Seq(Divider) /\ Len(d) = n - 1
<1>1. PICK m \in Nat \ {0} : m = (n + c - 1) \div c /\ (m - 1) * c < n /\ n <= m * c
  BY Ceiling
<1>2. PICK rows : rows = RowsFor(staged, c)
  OBVIOUS
<1>3. rows = [r \in 1 .. m |-> SubSeq(staged, (r - 1) * c + 1, SmallerOf(r * c, n))]
  BY <1>1, <1>2 DEF RowsFor
<1>4. DOMAIN rows = 1 .. m /\ Len(rows) = m
  <2>1. \A r \in 1 .. m : rows[r] \in {rows[i] : i \in 1 .. m}
    OBVIOUS
  <2>2. rows \in [1 .. m -> {rows[i] : i \in 1 .. m}]
    BY <1>3
  <2>3. rows \in Seq({rows[i] : i \in 1 .. m})
    BY ONLY <2>2, m \in Nat \ {0}, SeqDef
  <2> QED
    BY <1>3, <2>3, LenProperties
<1> DEFINE len == [r \in 0 .. m |-> SmallerOf(r * c, n) - r]
           Within(r) == [k \in 1 .. Len(rows[r]) - 1 |-> [id |-> <<"column", r, k>>, visible |-> ~focus]]
           s == [r \in DOMAIN rows |-> Within(r)]
           between == [r \in 1 .. LargerOf(Len(rows), 1) - 1 |-> [id |-> <<"row", r>>, visible |-> ~focus]]
<1>5. d = between \o FlattenSeq(s)
  BY <1>2 DEF BuildDividers
<1>6. ASSUME NEW r \in 1 .. m
      PROVE  /\ Len(rows[r]) = SmallerOf(r * c, n) - (r - 1) * c /\ Len(rows[r]) \in Nat \ {0}
             /\ (r - 1) * c < n /\ r * c = (r - 1) * c + c /\ (r - 1) * c \in Nat
  <2>1. PICK a \in Int : a = (r - 1) * c
    OBVIOUS
  <2>2. r * c = a + c /\ c \in Nat
    BY <2>1
  <2>3. 0 <= a
    <3>1. 0 <= r - 1 /\ 0 \in Int /\ r - 1 \in Int /\ c \in Nat /\ 0 * c = 0
      OBVIOUS
    <3> QED
      BY <2>1, <3>1, Times
  <2>4. a < n
    <3>1. r - 1 <= m - 1 /\ r - 1 \in Int /\ m - 1 \in Int /\ c \in Nat
      OBVIOUS
    <3>2. a <= (m - 1) * c
      BY <2>1, <3>1, Times
    <3>3. PICK z \in Int : z = (m - 1) * c
      OBVIOUS
    <3> QED
      BY <1>1, <3>2, <3>3
  <2>5. PICK b \in Nat : b = SmallerOf(a + c, n)
    BY <2>3 DEF SmallerOf
  <2>6. a < b /\ b <= n
    BY <2>3, <2>4, <2>5 DEF SmallerOf
  <2>7. rows[r] = SubSeq(staged, a + 1, b)
    BY <1>3, <2>1, <2>2, <2>5
  <2>8. Len(rows[r]) = b - (a + 1) + 1
    <3>1. PICK i \in Nat : i = a + 1 /\ 1 <= i /\ b <= n /\ i <= b + 1
      BY <2>3, <2>6
    <3>2. rows[r] = SubSeq(staged, i, b)
      BY <2>7, <3>1
    <3>3. Len(rows[r]) = b - i + 1
      BY <3>1, <3>2, Cuts
    <3> QED
      BY <3>1, <3>3
  <2> QED
    BY <2>1, <2>2, <2>3, <2>4, <2>5, <2>6, <2>8
<1>7. ASSUME NEW r \in 1 .. m PROVE s[r] \in Seq(Divider) /\ Len(s[r]) = Len(rows[r]) - 1
  <2>0. PICK z \in Nat \ {0} : z = Len(rows[r])
    BY <1>6
  <2>1. PICK k \in Nat : k = Len(rows[r]) - 1
    <3>1. z - 1 \in Nat
      OBVIOUS
    <3> QED
      BY <2>0, <3>1
  <2>2. s[r] = [i \in 1 .. k |-> [id |-> <<"column", r, i>>, visible |-> ~focus]]
    BY <1>4, <2>1
  <2>3. PICK t : t = s[r] /\ t \in [1 .. k -> Divider]
    <3>1. ASSUME NEW i \in 1 .. k PROVE [id |-> <<"column", r, i>>, visible |-> ~focus] \in Divider
      <4>1. <<"column", r, i>> \in {<<"column", j, l>> : j, l \in Nat}
        OBVIOUS
      <4>2. (~focus) \in BOOLEAN
        BY ONLY focus \in BOOLEAN
      <4> QED
        BY ONLY <4>1, <4>2 DEF Divider
    <3>2. PICK g : g = [i \in 1 .. k |-> [id |-> <<"column", r, i>>, visible |-> ~focus]]
      OBVIOUS
    <3>3. g \in [1 .. k -> Divider]
      BY ONLY <3>1, <3>2
    <3>4. s[r] = g
      BY ONLY <2>2, <3>2
    <3> QED
      BY ONLY <3>3, <3>4
  <2>4. s[r] \in Seq(Divider)
    <3>1. t \in Seq(Divider)
      BY ONLY <2>3, k \in Nat, SeqDef
    <3> QED
      BY ONLY <2>3, <3>1
  <2> QED
    BY <2>1, <2>2, <2>4, LenProperties
<1>8. /\ DOMAIN s = 1 .. m /\ Len(s) = m /\ s = [r \in 1 .. m |-> s[r]]
  <2>1. DOMAIN s = 1 .. m /\ s = [r \in 1 .. m |-> s[r]]
    BY <1>4
  <2>2. s \in [1 .. m -> Seq(Divider)]
    BY <1>4, <1>7
  <2>3. s \in Seq(Seq(Divider))
    BY ONLY <2>2, m \in Nat \ {0}, SeqDef
  <2> QED
    BY <2>1, <2>3, LenProperties
<1>9. /\ len[0] = 0 /\ \A r \in 0 .. m : len[r] \in Nat
      /\ \A r \in 1 .. m : len[r] = len[r - 1] + Len(s[r])
  <2>1. len[0] = 0
    BY DEF SmallerOf
  <2>2. ASSUME NEW r \in 1 .. m PROVE len[r] = len[r - 1] + Len(s[r]) /\ len[r - 1] \in Int /\ len[r] \in Int
    <3>1. PICK a \in Nat : a = (r - 1) * c
      BY <1>6
    <3>2. r * c = a + c /\ a < n
      BY <1>6, <3>1
    <3>3. len[r] = SmallerOf(a + c, n) - r
      <4>1. r \in 0 .. m
        OBVIOUS
      <4>2. len[r] = SmallerOf(r * c, n) - r
        BY <4>1
      <4> QED
        BY ONLY <3>2, <4>2
    <3>4. r - 1 \in 0 .. m /\ len[r - 1] = SmallerOf(a, n) - (r - 1)
      BY <3>1
    <3>5. len[r - 1] = a - (r - 1)
      BY <3>2, <3>4 DEF SmallerOf
    <3>6. PICK b \in Nat : b = SmallerOf(a + c, n)
      BY DEF SmallerOf
    <3>7. Len(s[r]) = b - a - 1
      <4>1. Len(rows[r]) = b - a
        BY <1>6, <3>1, <3>2, <3>6
      <4> QED
        BY <1>7, <4>1
    <3>8. len[r] = b - r
      BY <3>3, <3>6
    <3> HIDE DEF len, s
    <3> QED
      BY ONLY <3>5, <3>7, <3>8, a \in Nat, b \in Nat, r \in Nat
  <2>3. ASSUME NEW r \in 0 .. m PROVE len[r] \in Nat
    <3> DEFINE T == {k \in Nat : k <= m => len[k] \in Nat}
    <3>1. 0 \in T
      BY <2>1
    <3>2. ASSUME NEW k \in 1 .. r, k - 1 \in T PROVE k \in T
      <4>1. k \in 1 .. m /\ len[k - 1] \in Nat
        BY <3>2
      <4>2. Len(s[k]) \in Nat
        BY <1>7, <4>1, LenProperties
      <4>3. PICK x \in Nat, y \in Nat : x = len[k - 1] /\ y = Len(s[k])
        BY <4>1, <4>2
      <4>4. len[k] = x + y
        BY <2>2, <4>1, <4>3
      <4>5. x + y \in Nat
        OBVIOUS
      <4> HIDE DEF len
      <4> QED
        BY ONLY <4>1, <4>4, <4>5, m \in Nat
    <3>3. \A k \in 1 .. r : k - 1 \in T => k \in T
      BY <3>2
    <3>4. r \in T
      <4> HIDE DEF T
      <4> QED
        BY <3>1, <3>3, Arrives
    <3> QED
      BY <3>4
  <2> QED
    BY <2>1, <2>2, <2>3
<1>10. PICK f : f = FlattenSeq(s)
  OBVIOUS
<1>11. f \in Seq(Divider) /\ Len(f) = len[m]
  <2>1. \A r \in 1 .. m : s[r] \in Seq(Divider)
    BY <1>7
  <2> HIDE DEF len, s
  <2>2. ReachesLengths(Divider, m, s, len)
    BY ONLY <1>8, <1>9, <2>1 DEF ReachesLengths
  <2>3. m \in Nat
    OBVIOUS
  <2> QED
    BY ONLY <1>10, <2>2, <2>3, Flattens
<1>12. Len(f) = n - m
  <2>1. PICK z \in Int : z = m * c
    OBVIOUS
  <2>2. len[m] = SmallerOf(z, n) - m
    BY <2>1
  <2> QED
    BY <1>1, <1>11, <2>1, <2>2 DEF SmallerOf
<1>13. between \in Seq(Divider) /\ Len(between) = m - 1
  <2>1. PICK k \in Nat : k = m - 1 /\ LargerOf(Len(rows), 1) - 1 = k
    BY <1>4 DEF LargerOf
  <2>2. between = [r \in 1 .. k |-> [id |-> <<"row", r>>, visible |-> ~focus]]
    BY <2>1
  <2>3. between \in [1 .. k -> Divider]
    <3>1. ASSUME NEW r \in 1 .. k PROVE [id |-> <<"row", r>>, visible |-> ~focus] \in Divider
      <4>1. (~focus) \in BOOLEAN
        OBVIOUS
      <4>2. <<"row", r>> \in {<<"row", j>> : j \in Nat}
        BY ONLY <3>1, k \in Nat
      <4> QED
        BY ONLY <4>1, <4>2 DEF Divider
    <3>2. PICK g : g = [r \in 1 .. k |-> [id |-> <<"row", r>>, visible |-> ~focus]]
      OBVIOUS
    <3>3. g \in [1 .. k -> Divider]
      BY ONLY <3>1, <3>2
    <3>4. between = g
      BY ONLY <2>2, <3>2
    <3> QED
      BY ONLY <3>3, <3>4
  <2>4. between \in Seq(Divider)
    <3>1. PICK t : t = between
      OBVIOUS
    <3>2. t \in [1 .. k -> Divider]
      BY ONLY <2>3, <3>1
    <3>3. t \in Seq(Divider)
      BY ONLY <3>2, k \in Nat, SeqDef
    <3> QED
      BY ONLY <3>1, <3>3
  <2> QED
    BY <2>1, <2>2, <2>4, LenProperties
<1>14. d \in Seq(Divider) /\ Len(d) = Len(between) + Len(f)
  <2>1. d = between \o f
    BY <1>5, <1>10
  <2> HIDE DEF between
  <2>2. between \o f \in Seq(Divider) /\ Len(between \o f) = Len(between) + Len(f)
    BY ONLY <1>11, <1>13, ConcatProperties
  <2> QED
    BY <2>1, <2>2
<1> HIDE DEF between, len, s
<1>15. PICK k \in Nat : k = m - 1 /\ Len(between) = k
  BY <1>13
<1> QED
  BY ONLY <1>12, <1>14, <1>15, m \in Nat \ {0}, n \in Nat \ {0}

\* No sessions, no dividers.
LEMMA NoDividers ==
  ASSUME NEW focus PROVE BuildDividers(<<>>, focus) = <<>>
<1>1. Len(<<>>) = 0 /\ DOMAIN <<>> = {} /\ 1 .. 0 = {}
  OBVIOUS
<1>2. LargerOf(Len(<<>>), 1) - 1 = 0
  BY <1>1 DEF LargerOf
<1> DEFINE Within(r) == [k \in 1 .. Len(<<>>[r]) - 1 |-> [id |-> <<"column", r, k>>, visible |-> ~focus]]
           s == [r \in DOMAIN <<>> |-> Within(r)]
           between == [r \in 1 .. LargerOf(Len(<<>>), 1) - 1 |-> [id |-> <<"row", r>>, visible |-> ~focus]]
<1>3. BuildDividers(<<>>, focus) = between \o FlattenSeq(s)
  BY DEF BuildDividers
<1>4. s = <<>>
  BY <1>1
<1>5. between = <<>>
  BY <1>1, <1>2
<1>6. FlattenSeq(<<>>) = <<>>
  BY <1>1 DEF FlattenSeq
<1>7. <<>> \o <<>> = <<>>
  OBVIOUS
<1> HIDE DEF s, between
<1> QED
  BY <1>3, <1>4, <1>5, <1>6, <1>7

\* The layout of distinct sessions, rebuilt.
IsLaidOut(t, tiles, staged) ==
  /\ DOMAIN t = {"staged", "columns", "tiles", "dividers", "moved"}
  /\ t.tiles = tiles.rows /\ t.dividers \in Seq(Divider)
  /\ staged # <<>> => Len(t.dividers) < Len(staged) * 2

\* TerminalTilingLayoutModel::rebuild: the tiles are those given, and the dividers
\* fewer than twice the sessions.
LEMMA LaysOut ==
  ASSUME NEW tiling, tiling.dividers \in Seq(Divider), NEW tiles, NEW staged \in Seq(Session),
         Len(staged) <= MaxStaged, NEW focus \in BOOLEAN, NEW viewport \in Viewport,
         NEW t, t = Rebuilt(tiling, tiles, staged, focus, viewport)
  PROVE  IsLaidOut(t, tiles, staged)
<1>1. PICK n \in Nat : Len(staged) = n /\ n <= MaxStaged
  BY LenProperties
<1>2. staged = <<>> <=> n = 0
  BY <1>1, EmptySeq
<1>3. PICK c : c = IF staged = <<>> THEN 0 ELSE AdaptiveColumnCount(n, viewport)
  OBVIOUS
<1>4. n # 0 => c \in 1 .. n
  <2> SUFFICES ASSUME n # 0 PROVE AdaptiveColumnCount(n, viewport) \in 1 .. n
    BY <1>2, <1>3
  <2>1. CASE n <= 1 \/ viewport.extent = "none"
    BY <2>1 DEF AdaptiveColumnCount, LargerOf
  <2>2. CASE ~(n <= 1 \/ viewport.extent = "none") /\ viewport.extent = "narrow"
    BY <2>2 DEF AdaptiveColumnCount
  <2>3. CASE ~(n <= 1 \/ viewport.extent = "none") /\ viewport.extent # "narrow"
    <3>1. viewport.preferred \in Preference
      BY <2>3 DEF Viewport
    <3>2. n \in 1 .. MaxStaged
      BY <1>1, LayoutAssumption
    <3>3. viewport.preferred[n] \in 1 .. ColumnsThatFit /\ viewport.preferred[n] <= n
      BY <3>1, <3>2 DEF Preference
    <3>4. AdaptiveColumnCount(n, viewport) = viewport.preferred[n]
      BY <2>3 DEF AdaptiveColumnCount
    <3> QED
      BY <3>3, <3>4
  <2> QED
    BY <2>1, <2>2, <2>3
<1>5. PICK rows : rows = IF c = 0 THEN <<>> ELSE RowsFor(staged, c)
  OBVIOUS
<1>6. PICK d : d = BuildDividers(rows, focus)
  OBVIOUS
<1>7. d \in Seq(Divider) /\ (n # 0 => Len(d) = n - 1)
  <2>1. CASE n = 0
    <3>1. d = <<>>
      BY <1>2, <1>3, <1>5, <1>6, <2>1, NoDividers
    <3> QED
      BY <2>1, <3>1
  <2>2. CASE n # 0
    <3>1. c \in 1 .. n /\ n \in Nat \ {0} /\ d = BuildDividers(RowsFor(staged, c), focus)
      BY <1>4, <1>5, <1>6, <2>2
    <3> QED
      BY <1>1, <3>1, DividersBetween
  <2> QED
    BY <2>1, <2>2
<1>8. PICK y : y = Synchronized(tiling.dividers, d)
  OBVIOUS
<1>9. y.rows \in Seq(Divider) /\ Len(y.rows) = Len(d)
  BY <1>7, <1>8, AsManyPlaced
<1>10. /\ DOMAIN t = {"staged", "columns", "tiles", "dividers", "moved"}
       /\ t.tiles = tiles.rows /\ t.dividers = y.rows
  BY <1>1, <1>3, <1>5, <1>6, <1>8 DEF Rebuilt
<1> QED
  BY <1>1, <1>2, <1>7, <1>9, <1>10 DEF IsLaidOut

-----------------------------------------------------------------------------
(* Tiles                                                                    *)

\* The fields that are not of the surfaces, the layout, or the tiles just made.
Steady(w, u) ==
  /\ DOMAIN u = Names
  /\ u.running = w.running /\ u.catalog = w.catalog /\ u.waiting = w.waiting
  /\ u.staged = w.staged /\ u.selected = w.selected /\ u.focus = w.focus
  /\ u.viewport = w.viewport
  /\ u.pending = w.pending /\ u.active = w.active /\ u.links = w.links
  /\ u.signedIn = w.signedIn /\ u.finalizing = w.finalizing /\ u.reported = w.reported
  /\ u.refused = w.refused /\ u.sends = w.sends /\ u.done = w.done

\* What two steps leave alone, both leave alone.
LEMMA SteadyOn ==
  ASSUME NEW w, NEW u, NEW x, Steady(w, u), Steady(u, x) PROVE Steady(w, x)
BY DEF Steady

\* A step of one view leaves the desktop and the layout alone.
LEMMA MovesSteady ==
  ASSUME NEW w, NEW u, NEW v, Moves(w, u, v)
  PROVE  Steady(w, u) /\ u.tiling = w.tiling /\ u.made = w.made
BY DEF Moves, Host, Steady, Formed

\* With the same catalog and runtime the host is as it was.
LEMMA HostAlso ==
  ASSUME NEW w, HostOK(w), NEW u, DOMAIN u = Names, u.running = w.running, u.catalog = w.catalog
  PROVE  HostOK(u)
BY DEF HostOK

\* From w to u the tiles of S are bound.
TilesMade(w, u, S) ==
  /\ Surface(u, {}, {}, {}) /\ Steady(w, u) /\ u.tiling = w.tiling
  /\ u.made = w.made \cup S /\ BoundSet(u) = BoundSet(w) \cup S

\* A delegate made binds the tile of its session.
LEMMA MakesOne ==
  ASSUME NEW w, HostOK(w), Surface(w, {}, {}, {}), NEW s \in Session, ~BindRefused(w, s),
         NEW u, u = MakeTile(w, s)
  PROVE  TilesMade(w, u, {s})
<1>1. DOMAIN w = Names
  BY DEF HostOK
<1>2. PICK x : x = [w EXCEPT !.made = @ \cup {s}]
  OBVIOUS
<1>3. /\ DOMAIN x = Names /\ x.made = w.made \cup {s} /\ x.tiling = w.tiling
      /\ Aside(w, x) /\ Steady(w, x)
  BY <1>1, <1>2 DEF Names, Aside, Beneath, Steady
<1>4. Surface(x, {}, {}, {}) /\ BoundSet(x) = BoundSet(w)
  BY <1>3, StaysAside
<1>5. HostOK(x)
  BY <1>3, HostAlso DEF Aside
<1>6. ~BindRefused(x, s)
  BY <1>3 DEF Aside, BindRefused, Status, Known
<1>7. u = Bind(x, s, s) /\ s \in View
  BY <1>2 DEF MakeTile, View
<1>8. /\ Does(x, u, s, {}, {}, {})
      /\ BoundSet(u) = IF BindRefused(x, s) THEN BoundSet(x) ELSE BoundSet(x) \cup {s}
  BY <1>4, <1>5, <1>7, Binds
<1>9. Surface(u, {}, {}, {}) /\ Moves(x, u, s)
  <2>1. {} \ {s} = {}
    OBVIOUS
  <2> QED
    BY ONLY <1>8, <2>1 DEF Does
<1>10. Steady(x, u) /\ u.tiling = x.tiling /\ u.made = x.made
  BY <1>9, MovesSteady
<1>11. Steady(w, u)
  BY <1>3, <1>10, SteadyOn
<1> QED
  BY <1>3, <1>4, <1>6, <1>8, <1>9, <1>10, <1>11 DEF TilesMade

\* The delegates made bind the tiles of their sessions, each in its turn.
LEMMA MakesAll ==
  ASSUME NEW w, Surface(w, {}, {}, {}), NEW q, NEW n, NEW S \in SUBSET Session, Numbered(q, n, S),
         S # {} => HostOK(w) /\ \A s \in S : ~BindRefused(w, s),
         NEW u, u = FoldLeft(MakeTile, w, q)
  PROVE  TilesMade(w, u, S)
<1>1. n \in Nat /\ DOMAIN q = 1 .. n /\ Range(q) = S
  BY DEF Numbered
<1>2. PICK h : Walk("make", {}, w, q, n, h) /\ u = h[n]
  BY <1>1, MakeWalk
<1> DEFINE I(k) == TilesMade(w, h[k], {q[j] : j \in 1 .. k})
           G == {k \in Nat : I(k)}
<1>3. I(0)
  <2>1. h[0] = w /\ {q[j] : j \in 1 .. 0} = {}
    BY <1>2 DEF Walk
  <2>2. DOMAIN w = Names
    BY DEF Surface, Formed
  <2> QED
    BY <2>1, <2>2 DEF TilesMade, Steady
<1>4. ASSUME NEW k \in 1 .. n, I(k - 1) PROVE I(k)
  <2>1. PICK x : x = h[k - 1]
    OBVIOUS
  <2>2. PICK y : y = h[k]
    OBVIOUS
  <2>3. PICK s : s = q[k]
    OBVIOUS
  <2>4. PICK T : T = {q[j] : j \in 1 .. k - 1}
    OBVIOUS
  <2>5. y = MakeTile(x, s)
    BY <1>2, <2>1, <2>2, <2>3 DEF Walk, Handled
  <2>6. TilesMade(w, x, T)
    BY <1>4, <2>1, <2>4
  <2>7. s \in S
    BY <1>1, <2>3 DEF Range
  <2>8. HostOK(x) /\ ~BindRefused(x, s)
    <3>1. HostOK(w) /\ ~BindRefused(w, s)
      BY <2>7
    <3>2. Steady(w, x)
      BY <2>6 DEF TilesMade
    <3>3. HostOK(x)
      BY <3>1, <3>2, HostAlso DEF Steady
    <3> QED
      BY <3>1, <3>2, <3>3 DEF Steady, BindRefused, Status, Known
  <2>9. TilesMade(x, y, {s})
    BY <2>5, <2>6, <2>7, <2>8, MakesOne DEF TilesMade
  <2>10. {q[j] : j \in 1 .. k} = T \cup {s}
    <3>1. \A j : j \in 1 .. k <=> j \in 1 .. k - 1 \/ j = k
      BY <1>1
    <3> QED
      BY <2>3, <2>4, <3>1
  <2>11. TilesMade(w, y, T \cup {s})
    <3>1. Steady(w, y)
      BY <2>6, <2>9, SteadyOn DEF TilesMade
    <3> QED
      BY <2>6, <2>9, <3>1 DEF TilesMade
  <2> QED
    BY <2>2, <2>10, <2>11
<1>5. n \in G
  <2>1. 0 \in G
    BY <1>3
  <2>2. ASSUME NEW k \in 1 .. n, k - 1 \in G PROVE k \in G
    <3>1. I(k)
      BY <1>4, <2>2
    <3>2. k \in Nat
      BY <1>1
    <3> QED
      BY <3>1, <3>2
  <2>3. \A k \in 1 .. n : k - 1 \in G => k \in G
    BY ONLY <2>2
  <2> HIDE DEF G
  <2> QED
    BY <1>1, <2>1, <2>3, Arrives
<1>6. {q[j] : j \in 1 .. n} = S
  BY <1>1 DEF Range
<1> QED
  BY <1>2, <1>5, <1>6

\* From w to u the tiles of S are gone.
TilesGone(w, u, S) ==
  /\ Surface(u, {}, {}, {}) /\ Steady(w, u) /\ u.tiling = w.tiling /\ u.made = w.made
  /\ BoundSet(u) = BoundSet(w) \ S

\* A delegate destroyed detaches the tile of its session.
LEMMA DestroysOne ==
  ASSUME NEW w, Surface(w, {}, {}, {}), NEW s \in Session, NEW u, u = DestroyTile(w, s)
  PROVE  TilesGone(w, u, {s})
<1>1. s \in View
  BY DEF View
<1>2. PICK d : d = Detach(w, s)
  OBVIOUS
<1>3. /\ Does(w, d, s, {}, {}, {}) /\ BoundSet(d) = BoundSet(w) \ {s} /\ d.views[s] = Detached
  BY <1>1, <1>2, DetachDoes
<1>4. Surface(d, {}, {}, {}) /\ Moves(w, d, s) /\ Formed(d) /\ DOMAIN d = Names
  <2>1. {} \ {s} = {}
    OBVIOUS
  <2>2. Surface(d, {}, {}, {}) /\ Moves(w, d, s)
    BY ONLY <1>3, <2>1 DEF Does
  <2> QED
    BY <2>2 DEF Surface, Formed
<1>5. DetachView(d, s) = d
  BY <1>3, DetachedIs DEF DetachView
<1>6. u = [d EXCEPT !.wired[s] = 0, !.error = @ \ {s}, !.unheard = @ \ {s}]
  BY <1>2, <1>5 DEF DestroyTile
<1>7. /\ DOMAIN u = Names /\ Host(d, u) /\ u.bindings = d.bindings /\ u.views = d.views
      /\ u.registry = d.registry /\ u.waiting = d.waiting /\ u.retryTimer = d.retryTimer
      /\ u.error = d.error \ {s} /\ u.unheard = d.unheard \ {s}
  BY <1>4, <1>6 DEF Names, Host
<1>8. BoundSet(u) = BoundSet(d) /\ \A y : BindingOf(u, y) = BindingOf(d, y)
  BY <1>7, SameBindings
<1>9. Formed(u)
  <2>1. Held(u)
    BY <1>4, <1>7, FormedHeld DEF Held, Unique
  <2>2. u.waiting \in BOOLEAN /\ u.retryTimer \in BOOLEAN
    BY <1>4, <1>7 DEF Formed, SurfaceTyped
  <2> QED
    BY <1>4, <1>7, <2>1, <2>2, FormedBeside
<1>10. Moves(d, u, s)
  BY <1>7, <1>8, <1>9 DEF Moves, Others
<1>11. s \notin BoundSet(u) /\ u.views[s] = Detached
  BY <1>3, <1>7, <1>8
<1>12. Does(d, u, s, {}, {}, {})
  BY <1>1, <1>4, <1>10, <1>11, UnboundDoes
<1>13. Surface(u, {}, {}, {})
  <2>1. {} \ {s} = {}
    OBVIOUS
  <2> QED
    BY ONLY <1>12, <2>1 DEF Does
<1>14. Steady(w, d) /\ d.tiling = w.tiling /\ d.made = w.made
  BY <1>4, MovesSteady
<1>15. Steady(d, u) /\ u.tiling = d.tiling /\ u.made = d.made
  BY <1>10, MovesSteady
<1>16. Steady(w, u)
  BY <1>14, <1>15, SteadyOn
<1> QED
  BY <1>3, <1>8, <1>13, <1>14, <1>15, <1>16 DEF TilesGone

\* The delegates destroyed detach the tiles of their sessions.
LEMMA DestroysAll ==
  ASSUME NEW w, Surface(w, {}, {}, {}), NEW q, NEW n, NEW S \in SUBSET Session, Numbered(q, n, S),
         NEW u, u = FoldLeft(DestroyTile, w, q)
  PROVE  TilesGone(w, u, S)
<1>1. n \in Nat /\ DOMAIN q = 1 .. n /\ Range(q) = S
  BY DEF Numbered
<1>2. PICK h : Walk("destroy", {}, w, q, n, h) /\ u = h[n]
  BY <1>1, DestroyWalk
<1> DEFINE I(k) == TilesGone(w, h[k], {q[j] : j \in 1 .. k})
           G == {k \in Nat : I(k)}
<1>3. I(0)
  <2>1. h[0] = w /\ {q[j] : j \in 1 .. 0} = {}
    BY <1>2 DEF Walk
  <2>2. DOMAIN w = Names
    BY DEF Surface, Formed
  <2> QED
    BY <2>1, <2>2 DEF TilesGone, Steady
<1>4. ASSUME NEW k \in 1 .. n, I(k - 1) PROVE I(k)
  <2>1. PICK x : x = h[k - 1]
    OBVIOUS
  <2>2. PICK y : y = h[k]
    OBVIOUS
  <2>3. PICK s : s = q[k]
    OBVIOUS
  <2>4. PICK T : T = {q[j] : j \in 1 .. k - 1}
    OBVIOUS
  <2>5. y = DestroyTile(x, s)
    BY <1>2, <2>1, <2>2, <2>3 DEF Walk, Handled
  <2>6. TilesGone(w, x, T)
    BY <1>4, <2>1, <2>4
  <2>7. s \in Session
    BY <1>1, <2>3 DEF Range
  <2>8. TilesGone(x, y, {s})
    BY <2>5, <2>6, <2>7, DestroysOne DEF TilesGone
  <2>9. {q[j] : j \in 1 .. k} = T \cup {s}
    <3>1. \A j : j \in 1 .. k <=> j \in 1 .. k - 1 \/ j = k
      BY <1>1
    <3> QED
      BY <2>3, <2>4, <3>1
  <2>10. TilesGone(w, y, T \cup {s})
    <3>1. Steady(w, y)
      BY <2>6, <2>8, SteadyOn DEF TilesGone
    <3> QED
      BY <2>6, <2>8, <3>1 DEF TilesGone
  <2> QED
    BY <2>2, <2>9, <2>10
<1>5. n \in G
  <2>1. 0 \in G
    BY <1>3
  <2>2. ASSUME NEW k \in 1 .. n, k - 1 \in G PROVE k \in G
    <3>1. I(k)
      BY <1>4, <2>2
    <3>2. k \in Nat
      BY <1>1
    <3> QED
      BY <3>1, <3>2
  <2>3. \A k \in 1 .. n : k - 1 \in G => k \in G
    BY ONLY <2>2
  <2> HIDE DEF G
  <2> QED
    BY <1>1, <2>1, <2>3, Arrives
<1>6. {q[j] : j \in 1 .. n} = S
  BY <1>1 DEF Range
<1> QED
  BY <1>2, <1>5, <1>6

-----------------------------------------------------------------------------
(* The layout                                                               *)

DeskTyped(w) ==
  /\ w.staged \in Seq(Session) /\ Distinct(w.staged) /\ Len(w.staged) <= MaxStaged
  /\ w.selected \in Session \cup {None}
  /\ w.focus \in BOOLEAN /\ w.viewport \in Viewport
  /\ DOMAIN w.tiling = {"staged", "columns", "tiles", "dividers", "moved"}
  /\ w.tiling.dividers \in Seq(Divider)
Laid(w) ==
  /\ w.tiling.tiles = BuildTiles(w.staged, w.selected, w.focus)
  /\ w.staged # <<>> => Len(w.tiling.dividers) < Len(w.staged) * 2

\* The tiles announced are those of the sessions of old.
Announced(w, old) ==
  /\ old \in Seq(Session) /\ Distinct(old)
  /\ \E x : \E f \in BOOLEAN : w.tiling.tiles = BuildTiles(old, x, f)

\* What is to be known of a state before its layout is rebuilt, and then.
Due(w, old) == DOMAIN w = Names /\ DeskTyped(w) /\ Announced(w, old)
Relays(w, u, old) ==
  \E x : \E made, gone : \E m, n :
    /\ Aside(w, x) /\ Steady(w, x) /\ x.made = w.made /\ DeskTyped(x) /\ Laid(x)
    /\ Numbered(made, m, Range(w.staged) \ Range(old))
    /\ Numbered(gone, n, Range(old) \ Range(w.staged))
    /\ u = FoldLeft(DestroyTile, FoldLeft(MakeTile, x, made), gone)

\* A sequence of distinct elements numbers them.
LEMMA NumberedIs ==
  ASSUME NEW E, NEW q \in Seq(E), Distinct(q) PROVE \E n : Numbered(q, n, Range(q))
<1>1. PICK n \in Nat : DOMAIN q = 1 .. n
  BY LenProperties
<1>2. Numbered(q, n, Range(q))
  BY <1>1 DEF Numbered, Distinct
<1> QED
  BY <1>2

\* rebuild makes a delegate for each session newly staged and destroys that of each
\* session that left.
LEMMA RelaysIs ==
  ASSUME NEW w, NEW old, Due(w, old), NEW u, u = Rebuild(w)
  PROVE  Relays(w, u, old)
<1>1. /\ DOMAIN w = Names /\ w.staged \in Seq(Session) /\ Distinct(w.staged)
      /\ Len(w.staged) <= MaxStaged /\ w.focus \in BOOLEAN /\ w.viewport \in Viewport
      /\ old \in Seq(Session) /\ Distinct(old) /\ w.tiling.dividers \in Seq(Divider)
  BY DEF Due, DeskTyped, Announced
<1>2. PICK e : \E f \in BOOLEAN : w.tiling.tiles = BuildTiles(old, e, f)
  BY DEF Due, Announced
<1>3. PICK f \in BOOLEAN : w.tiling.tiles = BuildTiles(old, e, f)
  BY <1>2
<1>4. PICK t : t = TilesFor(w.tiling, w.staged, w.selected, w.focus)
  OBVIOUS
<1>5. PICK tiling : tiling = w.tiling
  OBVIOUS
<1>6. /\ t.rows = BuildTiles(w.staged, w.selected, w.focus)
      /\ t.made \in Seq(Session) /\ Distinct(t.made)
      /\ Range(t.made) = Range(w.staged) \ Range(old)
      /\ t.gone \in Seq(Session) /\ Distinct(t.gone)
      /\ Range(t.gone) = Range(old) \ Range(w.staged)
  BY <1>1, <1>3, <1>4, TilesBroughtUp
<1>7. PICK l : l = Rebuilt(tiling, t, w.staged, w.focus, w.viewport)
  OBVIOUS
<1>8. IsLaidOut(l, t, w.staged)
  BY <1>1, <1>5, <1>7, LaysOut
<1>9. PICK x : x = [w EXCEPT !.tiling = l]
  OBVIOUS
<1>10. u = FoldLeft(DestroyTile, FoldLeft(MakeTile, x, t.made), t.gone)
  BY <1>1, <1>4, <1>5, <1>7, <1>9 DEF Rebuild, Lay
<1>11. /\ Aside(w, x) /\ Steady(w, x) /\ x.made = w.made /\ x.tiling = l
  BY <1>1, <1>9 DEF Aside, Beneath, Steady, Names
<1>12. DeskTyped(x) /\ Laid(x)
  <2>1. /\ DOMAIN x.tiling = {"staged", "columns", "tiles", "dividers", "moved"}
        /\ x.tiling.tiles = t.rows /\ x.tiling.dividers \in Seq(Divider)
        /\ w.staged # <<>> => Len(x.tiling.dividers) < Len(w.staged) * 2
    BY <1>8, <1>11 DEF IsLaidOut
  <2>2. x.staged = w.staged /\ x.selected = w.selected /\ x.focus = w.focus /\ x.viewport = w.viewport
    BY <1>11 DEF Steady
  <2> QED
    BY <1>6, <2>1, <2>2 DEF DeskTyped, Laid, Due
<1>13. PICK m : Numbered(t.made, m, Range(w.staged) \ Range(old))
  BY <1>6, NumberedIs
<1>14. PICK n : Numbered(t.gone, n, Range(old) \ Range(w.staged))
  BY <1>6, NumberedIs
<1> QED
  BY <1>10, <1>11, <1>12, <1>13, <1>14 DEF Relays

\* A session taken out of a sequence of distinct ones.
TakenOff(q, r, s) ==
  Distinct(r) /\ Range(r) = Range(q) \ {s} /\ Len(r) = Len(q) - 1

\* removeOne takes off one session and leaves the others.
LEMMA TakesOff ==
  ASSUME NEW E, NEW q \in Seq(E), Distinct(q), NEW s \in Range(q), NEW r, r = RemoveFirst(q, s)
  PROVE  r \in Seq(E) /\ TakenOff(q, r, s)
<1>1. PICK n \in Nat : Len(q) = n /\ DOMAIN q = 1 .. n
  BY LenProperties
<1>2. PICK T : T = {i \in 1 .. Len(q) : q[i] = s}
  OBVIOUS
<1>3. T \in SUBSET Nat /\ T # {}
  BY <1>1, <1>2 DEF Range
<1>4. PICK i : i = Min(T)
  OBVIOUS
<1>5. i \in 1 .. n /\ q[i] = s
  BY <1>1, <1>2, <1>3, <1>4, MinIs
<1>6. r = RemoveAt(q, i)
  <2>1. \E j \in 1 .. Len(q) : q[j] = s
    BY <1>1, <1>5
  <2> QED
    BY <1>2, <1>3, <1>4, <2>1 DEF RemoveFirst, SelectInSeq
<1>7. r \in Seq(E) /\ Len(r) = n - 1 /\ IsCut(r, q, n, i)
  BY <1>1, <1>5, <1>6, Removed
<1>8. DOMAIN r = 1 .. n - 1 /\ \A k \in 1 .. n - 1 : r[k] = IF k < i THEN q[k] ELSE q[k + 1]
  BY <1>7, LenProperties DEF IsCut
<1>9. Distinct(r)
  <2> SUFFICES ASSUME NEW j \in 1 .. n - 1, NEW k \in 1 .. n - 1, r[j] = r[k] PROVE j = k
    BY <1>8 DEF Distinct
  <2>1. PICK a \in 1 .. n : r[j] = q[a] /\ a = IF j < i THEN j ELSE j + 1
    BY <1>5, <1>8
  <2>2. PICK b \in 1 .. n : r[k] = q[b] /\ b = IF k < i THEN k ELSE k + 1
    BY <1>5, <1>8
  <2>3. a = b
    BY <1>1, <2>1, <2>2 DEF Distinct
  <2> QED
    BY <1>5, <2>1, <2>2, <2>3
<1>10. ASSUME NEW x PROVE x \in Range(r) <=> x \in Range(q) \ {s}
  <2>1. ASSUME NEW k \in 1 .. n - 1, x = r[k] PROVE x \in Range(q) \ {s}
    <3>1. PICK a \in 1 .. n : r[k] = q[a] /\ a # i
      BY <1>5, <1>8
    <3> QED
      BY <1>1, <1>5, <2>1, <3>1 DEF Distinct, Range
  <2>2. ASSUME NEW a \in 1 .. n, x = q[a], x # s PROVE x \in Range(r)
    <3>1. a # i
      BY <1>5, <2>2
    <3>2. PICK k \in 1 .. n - 1 : r[k] = q[a]
      <4>1. CASE a < i
        <5>1. a \in 1 .. n - 1 /\ r[a] = q[a]
          BY <1>5, <1>8, <4>1
        <5> QED
          BY <5>1
      <4>2. CASE a > i
        <5>1. a - 1 \in 1 .. n - 1 /\ ~(a - 1 < i) /\ a - 1 + 1 = a
          BY <1>5, <4>2
        <5>2. r[a - 1] = q[a]
          BY <1>8, <5>1
        <5> QED
          BY <5>1, <5>2
      <4> QED
        BY <1>5, <3>1, <4>1, <4>2
    <3> QED
      BY <1>8, <2>2, <3>2 DEF Range
  <2> QED
    BY <1>1, <1>8, <2>1, <2>2 DEF Range
<1> QED
  BY <1>1, <1>7, <1>9, <1>10 DEF TakenOff

\* Nothing to make or to destroy.
LEMMA NoneNumbered ==
  ASSUME NEW q, NEW n, Numbered(q, n, {}), NEW w
  PROVE  FoldLeft(MakeTile, w, q) = w /\ FoldLeft(DestroyTile, w, q) = w
<1>1. n \in Nat /\ DOMAIN q = 1 .. n /\ Range(q) = {}
  BY DEF Numbered
<1>2. n = 0
  <2>1. n # 0 => 1 \in 1 .. n
    BY <1>1
  <2> QED
    BY <1>1, <2>1 DEF Range
<1>3. PICK h : Walk("make", {}, w, q, n, h) /\ FoldLeft(MakeTile, w, q) = h[n]
  BY <1>1, MakeWalk
<1>4. PICK g : Walk("destroy", {}, w, q, n, g) /\ FoldLeft(DestroyTile, w, q) = g[n]
  BY <1>1, DestroyWalk
<1> QED
  BY <1>2, <1>3, <1>4 DEF Walk

\* What leaves the desktop and its tiles alone leaves the layout right.
LEMMA DeskSteady ==
  ASSUME NEW w, DeskTyped(w), Laid(w), NEW u, Steady(w, u), u.tiling = w.tiling
  PROVE  DeskTyped(u) /\ Laid(u)
BY DEF DeskTyped, Laid, Steady

\* The layout is rebuilt, with the tiles of the sessions of old announced.
Relaid(w, u, old) ==
  /\ Surface(u, {}, {}, {}) /\ Steady(w, u) /\ DeskTyped(u) /\ Laid(u)
  /\ u.made = w.made \cup (Range(w.staged) \ Range(old))
  /\ BoundSet(u) = (BoundSet(w) \cup (Range(w.staged) \ Range(old))) \ (Range(old) \ Range(w.staged))

\* After rebuild the tiles bound are those staged, where they were those announced.
LEMMA Rebuilds ==
  ASSUME NEW w, NEW old, Due(w, old), Surface(w, {}, {}, {}),
         Range(w.staged) \ Range(old) # {} =>
           HostOK(w) /\ \A s \in Range(w.staged) \ Range(old) : ~BindRefused(w, s),
         NEW u, u = Rebuild(w)
  PROVE  Relaid(w, u, old)
<1>1. Relays(w, u, old)
  BY RelaysIs
<1>2. PICK S : S = Range(w.staged) \ Range(old)
  OBVIOUS
<1>3. PICK T : T = Range(old) \ Range(w.staged)
  OBVIOUS
<1>4. S \in SUBSET Session /\ T \in SUBSET Session
  <2>1. w.staged \in Seq(Session) /\ old \in Seq(Session)
    BY DEF Due, DeskTyped, Announced
  <2> QED
    BY <1>2, <1>3, <2>1, RangeOfSeq
<1>5. PICK x, made, gone, m, n :
    /\ Aside(w, x) /\ Steady(w, x) /\ x.made = w.made /\ DeskTyped(x) /\ Laid(x)
    /\ Numbered(made, m, S) /\ Numbered(gone, n, T)
    /\ u = FoldLeft(DestroyTile, FoldLeft(MakeTile, x, made), gone)
  BY <1>1, <1>2, <1>3 DEF Relays
<1>6. Surface(x, {}, {}, {}) /\ BoundSet(x) = BoundSet(w)
  BY <1>5, StaysAside
<1>7. S # {} => HostOK(x) /\ \A s \in S : ~BindRefused(x, s)
  <2> SUFFICES ASSUME S # {} PROVE HostOK(x) /\ \A s \in S : ~BindRefused(x, s)
    OBVIOUS
  <2>1. HostOK(w) /\ \A s \in S : ~BindRefused(w, s)
    BY <1>2
  <2>2. HostOK(x)
    BY <1>5, <2>1, HostAlso DEF Steady
  <2> QED
    BY <1>5, <2>1, <2>2 DEF Steady, BindRefused, Status, Known
<1>8. PICK y : y = FoldLeft(MakeTile, x, made)
  OBVIOUS
<1>9. TilesMade(x, y, S)
  BY <1>4, <1>5, <1>6, <1>7, <1>8, MakesAll
<1>10. u = FoldLeft(DestroyTile, y, gone)
  BY <1>5, <1>8
<1>11. TilesGone(y, u, T)
  BY <1>4, <1>5, <1>9, <1>10, DestroysAll DEF TilesMade
<1>12. Steady(x, u) /\ Steady(w, u) /\ u.tiling = x.tiling
  BY <1>5, <1>9, <1>11, SteadyOn DEF TilesMade, TilesGone
<1>13. DeskTyped(u) /\ Laid(u)
  BY <1>5, <1>12, DeskSteady
<1>14. /\ Surface(u, {}, {}, {})
       /\ u.made = w.made \cup S /\ BoundSet(u) = (BoundSet(w) \cup S) \ T
  BY <1>5, <1>6, <1>9, <1>11 DEF TilesMade, TilesGone
<1> QED
  BY <1>2, <1>3, <1>12, <1>13, <1>14 DEF Relaid

\* What is of neither the surfaces nor the desktop.
Apart(w, u) ==
  /\ DOMAIN u = Names
  /\ u.pending = w.pending /\ u.active = w.active /\ u.links = w.links
  /\ u.signedIn = w.signedIn /\ u.finalizing = w.finalizing /\ u.reported = w.reported
  /\ u.refused = w.refused /\ u.sends = w.sends /\ u.done = w.done
\* The same sessions, drawn again.
Redrawn(w, u) ==
  /\ Aside(w, u) /\ Apart(w, u) /\ u.made = w.made /\ u.staged = w.staged
  /\ DeskTyped(u) /\ Laid(u)

\* rebuild with the same sessions makes no tile and destroys none.
LEMMA Redraws ==
  ASSUME NEW w, DOMAIN w = Names, DeskTyped(w), Laid(w), NEW x, Aside(w, x), Apart(w, x),
         x.made = w.made, x.staged = w.staged, x.selected \in Session \cup {None},
         x.focus \in BOOLEAN, x.viewport \in Viewport,
         DOMAIN x.tiling = {"staged", "columns", "tiles", "dividers", "moved"},
         x.tiling.tiles = w.tiling.tiles, x.tiling.dividers = w.tiling.dividers,
         NEW u, u = Rebuild(x)
  PROVE  Redrawn(w, u) /\ u.selected = x.selected /\ u.focus = x.focus
<1>1. PICK old : old = w.staged
  OBVIOUS
<1>2. Due(x, old)
  <2>1. \E f \in BOOLEAN : x.tiling.tiles = BuildTiles(old, w.selected, f)
    BY <1>1 DEF Laid, DeskTyped
  <2> QED
    BY <1>1, <2>1 DEF Due, Announced, DeskTyped, Apart
<1>3. Relays(x, u, old)
  BY <1>2, RelaysIs
<1>4. Range(x.staged) \ Range(old) = {} /\ Range(old) \ Range(x.staged) = {}
  BY <1>1
<1>5. PICK y, made, gone, m, n :
    /\ Aside(x, y) /\ Steady(x, y) /\ y.made = x.made /\ DeskTyped(y) /\ Laid(y)
    /\ Numbered(made, m, {}) /\ Numbered(gone, n, {})
    /\ u = FoldLeft(DestroyTile, FoldLeft(MakeTile, y, made), gone)
  BY <1>3, <1>4 DEF Relays
<1>6. u = y
  BY <1>5, NoneNumbered
<1>7. Aside(w, u)
  BY <1>5, <1>6 DEF Aside, Beneath
<1>8. Apart(w, u) /\ u.made = w.made /\ u.staged = w.staged /\ u.selected = x.selected
      /\ u.focus = x.focus
  BY <1>5, <1>6 DEF Apart, Steady
<1> QED
  BY <1>5, <1>6, <1>7, <1>8 DEF Redrawn

\* Nothing happens.
LEMMA StaysDrawn ==
  ASSUME NEW w, DOMAIN w = Names, DeskTyped(w), Laid(w) PROVE Redrawn(w, w)
BY DEF Redrawn, Aside, Beneath, Apart

\* Selecting a session draws the stage again.
LEMMA Selects ==
  ASSUME NEW w, DOMAIN w = Names, DeskTyped(w), Laid(w), NEW s \in Session \cup {None},
         NEW u, u = Select(w, s)
  PROVE  Redrawn(w, u) /\ u.selected = s /\ u.focus = w.focus
<1>1. CASE w.selected = s
  BY <1>1, StaysDrawn DEF Select
<1>2. CASE w.selected # s
  <2>1. PICK x : x = [w EXCEPT !.selected = s]
    OBVIOUS
  <2>2. u = Rebuild(x)
    BY <1>2, <2>1 DEF Select
  <2>3. /\ Aside(w, x) /\ Apart(w, x) /\ x.made = w.made /\ x.staged = w.staged
        /\ x.selected = s /\ x.focus = w.focus /\ x.viewport = w.viewport /\ x.tiling = w.tiling
    BY <2>1 DEF Names, Aside, Beneath, Apart
  <2>4. /\ x.selected \in Session \cup {None} /\ x.focus \in BOOLEAN /\ x.viewport \in Viewport
        /\ DOMAIN x.tiling = {"staged", "columns", "tiles", "dividers", "moved"}
    BY <2>3 DEF DeskTyped
  <2> QED
    BY <2>2, <2>3, <2>4, Redraws
<1> QED
  BY <1>1, <1>2

\* Leaving the focus mode draws the stage again.
LEMMA ExitsFocus ==
  ASSUME NEW w, DOMAIN w = Names, DeskTyped(w), Laid(w), NEW u, u = ExitFocusMode(w)
  PROVE  Redrawn(w, u) /\ u.selected = w.selected /\ u.focus = FALSE
<1>1. CASE ~w.focus
  <2>1. w.focus = FALSE
    BY <1>1 DEF DeskTyped
  <2> QED
    BY <1>1, <2>1, StaysDrawn DEF ExitFocusMode
<1>2. CASE w.focus
  <2>1. PICK x : x = [w EXCEPT !.focus = FALSE]
    OBVIOUS
  <2>2. u = Rebuild(x)
    BY <1>2, <2>1 DEF ExitFocusMode
  <2>3. /\ Aside(w, x) /\ Apart(w, x) /\ x.made = w.made /\ x.staged = w.staged
        /\ x.selected = w.selected /\ x.focus = FALSE /\ x.viewport = w.viewport /\ x.tiling = w.tiling
    BY <2>1 DEF Names, Aside, Beneath, Apart
  <2>4. /\ x.selected \in Session \cup {None} /\ x.focus \in BOOLEAN /\ x.viewport \in Viewport
        /\ DOMAIN x.tiling = {"staged", "columns", "tiles", "dividers", "moved"}
    BY <2>3 DEF DeskTyped
  <2> QED
    BY <2>2, <2>3, <2>4, Redraws
<1> QED
  BY <1>1, <1>2

\* Entering or leaving the focus mode draws the stage again.
LEMMA TogglesFocus ==
  ASSUME NEW w, DOMAIN w = Names, DeskTyped(w), Laid(w), NEW u, u = ToggleFocus(w)
  PROVE  Redrawn(w, u) /\ u.selected = w.selected /\ (u.focus => w.selected # None)
<1>1. CASE w.focus
  BY <1>1, ExitsFocus DEF ToggleFocus
<1>2. CASE ~w.focus /\ w.selected = None
  BY <1>2, StaysDrawn DEF ToggleFocus
<1>3. CASE ~w.focus /\ w.selected # None
  <2>1. PICK x : x = [w EXCEPT !.focus = TRUE]
    OBVIOUS
  <2>2. u = Rebuild(x)
    BY <1>3, <2>1 DEF ToggleFocus
  <2>3. /\ Aside(w, x) /\ Apart(w, x) /\ x.made = w.made /\ x.staged = w.staged
        /\ x.selected = w.selected /\ x.focus = TRUE /\ x.viewport = w.viewport /\ x.tiling = w.tiling
    BY <2>1 DEF Names, Aside, Beneath, Apart
  <2>4. /\ x.selected \in Session \cup {None} /\ x.focus \in BOOLEAN /\ x.viewport \in Viewport
        /\ DOMAIN x.tiling = {"staged", "columns", "tiles", "dividers", "moved"}
    BY <2>3 DEF DeskTyped
  <2> QED
    BY <1>3, <2>2, <2>3, <2>4, Redraws
<1> QED
  BY <1>1, <1>2, <1>3

\* Another viewport draws the stage again.
LEMMA Resizes ==
  ASSUME NEW w, DOMAIN w = Names, DeskTyped(w), Laid(w), NEW viewport \in Viewport,
         NEW x, x = [w EXCEPT !.viewport = viewport], NEW u, u = Rebuild(x)
  PROVE  Redrawn(w, u) /\ u.selected = w.selected /\ u.focus = w.focus
<1>1. /\ Aside(w, x) /\ Apart(w, x) /\ x.made = w.made /\ x.staged = w.staged
      /\ x.selected = w.selected /\ x.focus = w.focus /\ x.viewport = viewport /\ x.tiling = w.tiling
  BY DEF Names, Aside, Beneath, Apart
<1>2. /\ x.selected \in Session \cup {None} /\ x.focus \in BOOLEAN /\ x.viewport \in Viewport
      /\ DOMAIN x.tiling = {"staged", "columns", "tiles", "dividers", "moved"}
  BY <1>1 DEF DeskTyped
<1>3. u = Rebuild(x) /\ DOMAIN w = Names /\ DeskTyped(w) /\ Laid(w)
  OBVIOUS
<1>4. x.tiling.tiles = w.tiling.tiles /\ x.tiling.dividers = w.tiling.dividers
  BY <1>1
<1>5. Redrawn(w, u) /\ u.selected = x.selected /\ u.focus = x.focus
  BY ONLY <1>1, <1>2, <1>3, <1>4, Redraws
<1> QED
  BY ONLY <1>1, <1>5

\* A divider moved draws the stage again.
LEMMA MovesDividers ==
  ASSUME NEW w, DOMAIN w = Names, DeskTyped(w), Laid(w), NEW id,
         NEW x, x = [w EXCEPT !.tiling.moved = @ \cup {id}], NEW u, u = Rebuild(x)
  PROVE  Redrawn(w, u) /\ u.selected = w.selected /\ u.focus = w.focus
<1>1. DOMAIN w.tiling = {"staged", "columns", "tiles", "dividers", "moved"}
  BY DEF DeskTyped
<1>2. PICK t : t = [w.tiling EXCEPT !.moved = @ \cup {id}]
  OBVIOUS
<1>3. x = [w EXCEPT !.tiling = t]
  BY <1>2 DEF Names
<1>4. /\ DOMAIN t = {"staged", "columns", "tiles", "dividers", "moved"}
      /\ t.tiles = w.tiling.tiles /\ t.dividers = w.tiling.dividers
  BY <1>1, <1>2
<1>5. /\ Aside(w, x) /\ Apart(w, x) /\ x.made = w.made /\ x.staged = w.staged
      /\ x.selected = w.selected /\ x.focus = w.focus /\ x.viewport = w.viewport /\ x.tiling = t
  BY <1>3 DEF Names, Aside, Beneath, Apart
<1>6. /\ x.selected \in Session \cup {None} /\ x.focus \in BOOLEAN /\ x.viewport \in Viewport
  BY <1>5 DEF DeskTyped
<1>7. u = Rebuild(x) /\ DOMAIN w = Names /\ DeskTyped(w) /\ Laid(w)
  OBVIOUS
<1>8. /\ x.tiling.tiles = w.tiling.tiles /\ x.tiling.dividers = w.tiling.dividers
      /\ DOMAIN x.tiling = {"staged", "columns", "tiles", "dividers", "moved"}
  BY <1>4, <1>5
<1>9. Redrawn(w, u) /\ u.selected = x.selected /\ u.focus = x.focus
  BY ONLY <1>5, <1>6, <1>7, <1>8, Redraws
<1> QED
  BY ONLY <1>5, <1>9

-----------------------------------------------------------------------------
(* DesktopStateModel                                                        *)

Chosen(w) ==
  /\ w.selected = None <=> w.staged = <<>>
  /\ w.staged # <<>> => w.selected \in Range(w.staged)
  /\ w.focus => w.staged # <<>>
Desk(w) == DeskTyped(w) /\ Laid(w) /\ Chosen(w)
Tiled(w) == BoundSet(w) \cap Session = Range(w.staged)
Retained(w) == \A s \in Range(w.staged) : CanRetain(w, s)

\* A handler of the desktop leaves these alone.
Below(w, u) ==
  Apart(w, u) /\ u.running = w.running /\ u.catalog = w.catalog /\ u.waiting = w.waiting

\* What two steps leave alone, both leave alone.
LEMMA BelowOn ==
  ASSUME NEW w, NEW u, NEW x, Below(w, u), Below(u, x) PROVE Below(w, x)
BY DEF Below, Apart

\* What leaves the desktop alone leaves alone what is neither of it nor of the surfaces.
LEMMA SteadyBelow ==
  ASSUME NEW w, NEW u, Steady(w, u) PROVE Below(w, u)
BY DEF Below, Apart, Steady

\* The desktop leaves the catalog alone.
LEMMA BelowCatalog ==
  ASSUME NEW w, NEW u, Below(w, u)
  PROVE  SameCatalog(w, u) /\ (HostOK(w) => HostOK(u)) /\ \A s : BindRefused(u, s) <=> BindRefused(w, s)
<1>1. SameCatalog(w, u)
  BY CatalogKept DEF Below
<1>2. HostOK(w) => HostOK(u)
  BY HostAlso DEF Below, Apart
<1> QED
  BY <1>1, <1>2 DEF Below, SameCatalog, BindRefused

\* Drawn again, the surfaces are as they were.
LEMMA RedrawnIs ==
  ASSUME NEW w, NEW A, NEW B, NEW C, Surface(w, A, B, C), NEW u, Redrawn(w, u)
  PROVE  Surface(u, A, B, C) /\ BoundSet(u) = BoundSet(w) /\ Below(w, u)
BY StaysAside DEF Redrawn, Aside, Below

\* The sessions of a stage; the first of one that is not empty.
LEMMA RangeDistinct ==
  ASSUME NEW q \in Seq(Session)
  PROVE  /\ Range(q) \subseteq Session /\ (q = <<>> <=> Range(q) = {})
         /\ q # <<>> => Head(q) \in Range(q)
<1>1. PICK n \in Nat : Len(q) = n /\ DOMAIN q = 1 .. n
  BY LenProperties
<1>2. q = <<>> <=> n = 0
  BY <1>1, EmptySeq
<1>3. Range(q) \subseteq Session
  BY RangeOfSeq
<1>4. n # 0 => q[1] \in Range(q) /\ Head(q) = q[1]
  BY <1>1 DEF Range
<1>5. n = 0 => Range(q) = {}
  BY <1>1 DEF Range
<1> QED
  BY <1>2, <1>3, <1>4, <1>5

\* A session put at the end of a stage it was not on.
LEMMA Appended ==
  ASSUME NEW q \in Seq(Session), Distinct(q), NEW s \in Session \ Range(q), NEW r, r = Append(q, s)
  PROVE  /\ r \in Seq(Session) /\ Distinct(r) /\ Len(r) = Len(q) + 1 /\ Range(r) = Range(q) \cup {s}
         /\ r # <<>>
<1>1. PICK n \in Nat : Len(q) = n /\ DOMAIN q = 1 .. n
  BY LenProperties
<1>2. /\ r \in Seq(Session) /\ Len(r) = n + 1 /\ DOMAIN r = 1 .. n + 1
      /\ \A i \in 1 .. n : r[i] = q[i]
      /\ r[n + 1] = s
  BY <1>1, AppendProperties, LenProperties
<1>3. Distinct(r)
  <2> SUFFICES ASSUME NEW i \in 1 .. n + 1, NEW j \in 1 .. n + 1, r[i] = r[j] PROVE i = j
    BY <1>2 DEF Distinct
  <2>1. \A k \in 1 .. n : q[k] # s
    BY <1>1 DEF Range
  <2>2. CASE i \in 1 .. n /\ j \in 1 .. n
    BY <1>1, <1>2, <2>2 DEF Distinct
  <2>3. CASE i = n + 1 \/ j = n + 1
    BY <1>2, <2>1, <2>3
  <2> QED
    BY <2>2, <2>3
<1>4. ASSUME NEW x PROVE x \in Range(r) <=> x \in Range(q) \cup {s}
  <2>1. \A i \in 1 .. n + 1 : i \in 1 .. n \/ i = n + 1
    OBVIOUS
  <2>2. 1 .. n \subseteq 1 .. n + 1 /\ n + 1 \in 1 .. n + 1
    OBVIOUS
  <2> QED
    BY <1>1, <1>2, <2>1, <2>2 DEF Range
<1>5. r # <<>>
  BY <1>1, <1>2
<1> QED
  BY <1>1, <1>2, <1>3, <1>4, <1>5

\* More is staged.
Stages(w, u) ==
  /\ Surface(u, {}, {}, {}) /\ Desk(u) /\ Tiled(u) /\ Retained(u) /\ Below(w, u)
  /\ Range(w.staged) \subseteq Range(u.staged)
  /\ u.made \subseteq w.made \cup (Range(u.staged) \ Range(w.staged))
Set(w) == HostOK(w) /\ Surface(w, {}, {}, {}) /\ Desk(w) /\ Tiled(w) /\ Retained(w)

\* Nothing staged is nothing lost.
LEMMA StagesNothing ==
  ASSUME NEW w, Set(w) PROVE Stages(w, w)
BY DEF Set, Stages, Below, Apart, HostOK

\* A session that is staged is only selected.
LEMMA StagesAgain ==
  ASSUME NEW w, DOMAIN w = Names, Desk(w), NEW s \in Range(w.staged), NEW u, u = StageSession(w, s)
  PROVE  Redrawn(w, u) /\ Chosen(u)
<1>1. w.staged \in Seq(Session) /\ s \in Session /\ DeskTyped(w) /\ Laid(w)
  BY RangeDistinct DEF Desk, DeskTyped
<1>2. CASE StageRefused(w, s)
  <2>1. u = w
    BY <1>2 DEF StageSession
  <2> QED
    BY <1>1, <2>1, StaysDrawn DEF Desk
<1>3. CASE ~StageRefused(w, s)
  <2>1. u = Select(w, s)
    BY <1>3 DEF StageSession
  <2>2. Redrawn(w, u) /\ u.selected = s /\ u.focus = w.focus
    BY <1>1, <2>1, Selects
  <2>3. w.staged # <<>> /\ s # None
    BY <1>1, RangeDistinct, ControllerAssumption
  <2> QED
    BY <2>2, <2>3 DEF Chosen, Redrawn
<1> QED
  BY <1>2, <1>3

\* The same stage under the same catalog is retained.
LEMMA RetainedStays ==
  ASSUME NEW w, Retained(w), NEW u, Below(w, u), u.staged = w.staged PROVE Retained(u)
BY BelowCatalog DEF Retained, SameCatalog

\* stageSession: the session is staged unless it is refused, and its tile is bound.
LEMMA StagesOne ==
  ASSUME NEW w, Set(w), NEW s \in Session, NEW u, u = StageSession(w, s)
  PROVE  Stages(w, u) /\ (~StageRefused(w, s) => s \in Range(u.staged))
<1>1. /\ DOMAIN w = Names /\ w.staged \in Seq(Session) /\ Distinct(w.staged) /\ DeskTyped(w) /\ Laid(w)
      /\ Surface(w, {}, {}, {}) /\ HostOK(w)
  BY DEF Set, HostOK, Desk, DeskTyped
<1>2. CASE StageRefused(w, s)
  <2>1. u = w
    BY <1>2 DEF StageSession
  <2> QED
    BY <1>2, <2>1, StagesNothing
<1>3. CASE ~StageRefused(w, s) /\ s \in Range(w.staged)
  <2>1. Redrawn(w, u) /\ Chosen(u)
    BY <1>1, <1>3, StagesAgain DEF Set
  <2>2. Surface(u, {}, {}, {}) /\ BoundSet(u) = BoundSet(w) /\ Below(w, u)
    BY <1>1, <2>1, RedrawnIs
  <2>3. u.staged = w.staged /\ u.made = w.made /\ DeskTyped(u) /\ Laid(u)
    BY <2>1 DEF Redrawn
  <2>4. Retained(u)
    BY <2>2, <2>3, RetainedStays DEF Set
  <2> QED
    BY <1>3, <2>1, <2>2, <2>3, <2>4 DEF Stages, Set, Desk, Tiled
<1>4. CASE ~StageRefused(w, s) /\ s \notin Range(w.staged)
  <2>1. PICK old : old = w.staged
    OBVIOUS
  <2>2. PICK x : x = [w EXCEPT !.staged = Append(@, s)]
    OBVIOUS
  <2>3. PICK y : y = Rebuild(x)
    OBVIOUS
  <2>4. u = Select(y, s)
    BY <1>4, <2>2, <2>3 DEF StageSession
  <2>5. PICK staged : staged = Append(old, s)
    OBVIOUS
  <2>6. /\ staged \in Seq(Session) /\ Distinct(staged) /\ Len(staged) = Len(old) + 1
        /\ Range(staged) = Range(old) \cup {s} /\ staged # <<>>
    BY <1>1, <1>4, <2>1, <2>5, Appended
  <2>7. /\ DOMAIN x = Names /\ x.staged = staged /\ Aside(w, x) /\ Apart(w, x) /\ x.made = w.made
        /\ x.selected = w.selected /\ x.focus = w.focus /\ x.viewport = w.viewport
        /\ x.tiling = w.tiling
    BY <1>1, <2>1, <2>2, <2>5 DEF Names, Aside, Beneath, Apart
  <2>8. CanRetain(w, s) /\ Len(old) < MaxStaged
    <3>1. Len(old) \in Nat
      BY <1>1, <2>1, LenProperties
    <3> QED
      BY <1>4, <2>1, <3>1, LayoutAssumption DEF StageRefused
  <2>9. Len(staged) <= MaxStaged
    <3>1. Len(old) \in Nat
      BY <1>1, <2>1, LenProperties
    <3> QED
      BY <2>6, <2>8, <3>1, LayoutAssumption
  <2>10. DeskTyped(x)
    BY <1>1, <2>6, <2>7, <2>9 DEF DeskTyped
  <2>11. Due(x, old)
    <3>1. \E f \in BOOLEAN : x.tiling.tiles = BuildTiles(old, w.selected, f)
      BY <1>1, <2>1, <2>7 DEF Laid, DeskTyped
    <3> QED
      BY <1>1, <2>1, <2>7, <2>10, <3>1 DEF Due, Announced
  <2>12. Surface(x, {}, {}, {}) /\ BoundSet(x) = BoundSet(w)
    BY <1>1, <2>7, StaysAside
  <2>13. Below(w, x)
    BY <2>7 DEF Below, Aside
  <2>14. HostOK(x) /\ ~BindRefused(x, s)
    BY <1>1, <2>8, <2>13, BelowCatalog, KnownIs
  <2>15. Range(x.staged) \ Range(old) = {s} /\ Range(old) \ Range(x.staged) = {}
    BY <1>4, <2>1, <2>6, <2>7
  <2>16. Relaid(x, y, old)
    BY <2>3, <2>11, <2>12, <2>14, <2>15, Rebuilds
  <2>17. /\ Surface(y, {}, {}, {}) /\ Steady(x, y) /\ DeskTyped(y) /\ Laid(y)
         /\ y.made = w.made \cup {s} /\ BoundSet(y) = BoundSet(w) \cup {s}
    BY <2>7, <2>12, <2>15, <2>16 DEF Relaid
  <2>18. DOMAIN y = Names
    BY <2>17 DEF Steady
  <2>19. Redrawn(y, u) /\ u.selected = s /\ u.focus = y.focus
    BY <2>4, <2>17, <2>18, Selects
  <2>20. Surface(u, {}, {}, {}) /\ BoundSet(u) = BoundSet(y) /\ Below(y, u)
    BY <2>17, <2>19, RedrawnIs
  <2>21. u.staged = staged /\ u.made = w.made \cup {s} /\ DeskTyped(u) /\ Laid(u)
    BY <2>7, <2>17, <2>19 DEF Redrawn, Steady
  <2>22. Chosen(u)
    <3>1. s # None
      BY ControllerAssumption
    <3> QED
      BY <2>6, <2>19, <2>21, <3>1 DEF Chosen
  <2>23. Below(w, u)
    BY <2>13, <2>17, <2>20, BelowOn, SteadyBelow
  <2>24. Retained(u)
    BY <2>1, <2>6, <2>8, <2>21, <2>23, BelowCatalog DEF Retained, Set, SameCatalog
  <2>25. Tiled(u)
    BY <2>1, <2>6, <2>17, <2>20, <2>21 DEF Tiled, Set
  <2> QED
    BY <1>4, <2>1, <2>6, <2>20, <2>21, <2>22, <2>23, <2>24, <2>25 DEF Stages, Desk
<1> QED
  BY <1>2, <1>3, <1>4

\* A session leaves the stage.
Unstages(w, u, s) ==
  /\ Surface(u, {}, {}, {}) /\ Desk(u) /\ Below(w, u) /\ u.made = w.made
  /\ Range(u.staged) = Range(w.staged) \ {s} /\ BoundSet(u) = BoundSet(w) \ {s}

\* unstageSession: the session and its tile leave, and the selection moves on.
LEMMA UnstagesOne ==
  ASSUME NEW w, Surface(w, {}, {}, {}), Desk(w), NEW s \in Range(w.staged),
         NEW u, u = UnstageSession(w, s)
  PROVE  Unstages(w, u, s)
<1>1. /\ DOMAIN w = Names /\ w.staged \in Seq(Session) /\ Distinct(w.staged) /\ DeskTyped(w) /\ Laid(w)
      /\ Chosen(w)
  BY DEF Surface, Formed, Desk, DeskTyped
<1>2. PICK old : old = w.staged
  OBVIOUS
<1>3. PICK staged : staged = RemoveFirst(old, s)
  OBVIOUS
<1>4. /\ staged \in Seq(Session) /\ Distinct(staged) /\ Range(staged) = Range(old) \ {s}
      /\ Len(staged) = Len(old) - 1
  BY <1>1, <1>2, <1>3, TakesOff DEF TakenOff
<1>5. PICK x : x = [w EXCEPT !.staged = RemoveFirst(@, s)]
  OBVIOUS
<1>6. PICK y : y = Rebuild(x)
  OBVIOUS
<1>7. PICK z : z = SelectAnother(y, s)
  OBVIOUS
<1>8. u = LeaveEmpty(z)
  BY <1>5, <1>6, <1>7 DEF UnstageSession, Without
<1>9. /\ DOMAIN x = Names /\ x.staged = staged /\ Aside(w, x) /\ Apart(w, x) /\ x.made = w.made
      /\ x.selected = w.selected /\ x.focus = w.focus /\ x.viewport = w.viewport
      /\ x.tiling = w.tiling
  BY <1>1, <1>2, <1>3, <1>5 DEF Names, Aside, Beneath, Apart
<1>10. DeskTyped(x)
  <2>1. Len(staged) <= MaxStaged
    <3>1. Len(old) \in Nat /\ Len(old) <= MaxStaged
      BY <1>1, <1>2, LenProperties DEF DeskTyped
    <3> QED
      BY <1>4, <3>1, LayoutAssumption
  <2> QED
    BY <1>1, <1>4, <1>9, <2>1 DEF DeskTyped
<1>11. Due(x, old)
  <2>1. \E f \in BOOLEAN : x.tiling.tiles = BuildTiles(old, w.selected, f)
    BY <1>1, <1>2, <1>9 DEF Laid, DeskTyped
  <2> QED
    BY <1>1, <1>2, <1>9, <1>10, <2>1 DEF Due, Announced
<1>12. Surface(x, {}, {}, {}) /\ BoundSet(x) = BoundSet(w) /\ Below(w, x)
  BY <1>9, StaysAside DEF Below, Aside
<1>13. Range(x.staged) \ Range(old) = {} /\ Range(old) \ Range(x.staged) = {s}
  BY <1>2, <1>4, <1>9
<1>14. Relaid(x, y, old)
  BY <1>6, <1>11, <1>12, <1>13, Rebuilds
<1>15. /\ Surface(y, {}, {}, {}) /\ Steady(x, y) /\ DeskTyped(y) /\ Laid(y)
       /\ y.made = w.made /\ BoundSet(y) = BoundSet(w) \ {s}
  BY <1>9, <1>12, <1>13, <1>14 DEF Relaid
<1>16. DOMAIN y = Names /\ y.staged = staged /\ y.selected = w.selected /\ y.focus = w.focus
  BY <1>9, <1>15 DEF Steady
<1>17. /\ Redrawn(y, z) /\ z.focus = y.focus
       /\ z.selected = IF w.selected = s THEN (IF staged = <<>> THEN None ELSE Head(staged)) ELSE w.selected
  <2>1. CASE y.selected = s
    <3>1. PICK t : t = IF staged = <<>> THEN None ELSE Head(staged)
      OBVIOUS
    <3>2. z = Select(y, t)
      BY <1>7, <1>16, <2>1, <3>1 DEF SelectAnother
    <3>3. t \in Session \cup {None}
      BY <1>4, <3>1, RangeDistinct
    <3> QED
      BY <1>15, <1>16, <2>1, <3>1, <3>2, <3>3, Selects
  <2>2. CASE y.selected # s
    BY <1>7, <1>15, <1>16, <2>2, StaysDrawn DEF SelectAnother
  <2> QED
    BY <2>1, <2>2
<1>18. z.staged = staged /\ z.made = w.made /\ DeskTyped(z) /\ Laid(z)
  BY <1>15, <1>16, <1>17 DEF Redrawn
<1>19. Surface(z, {}, {}, {}) /\ BoundSet(z) = BoundSet(y) /\ Below(y, z)
  BY <1>15, <1>17, RedrawnIs
<1>20. DOMAIN z = Names
  BY <1>19 DEF Below, Apart
<1>21. /\ Redrawn(z, u) /\ u.selected = z.selected
       /\ u.focus = IF staged = <<>> THEN FALSE ELSE z.focus
  <2>1. CASE staged = <<>>
    <3>1. u = ExitFocusMode(z)
      BY <1>8, <1>18, <2>1 DEF LeaveEmpty
    <3> QED
      BY <1>18, <1>20, <2>1, <3>1, ExitsFocus
  <2>2. CASE staged # <<>>
    BY <1>8, <1>18, <1>20, <2>2, StaysDrawn DEF LeaveEmpty
  <2> QED
    BY <2>1, <2>2
<1>22. u.staged = staged /\ u.made = w.made /\ DeskTyped(u) /\ Laid(u)
  BY <1>18, <1>21 DEF Redrawn
<1>23. Surface(u, {}, {}, {}) /\ BoundSet(u) = BoundSet(z) /\ Below(z, u)
  BY <1>19, <1>21, RedrawnIs
<1>24. Chosen(u)
  <2>1. old # <<>> /\ w.selected \in Range(old) /\ None \notin Range(old)
    BY <1>1, <1>2, RangeDistinct, ControllerAssumption DEF Chosen
  <2>2. staged = <<>> <=> Range(staged) = {}
    BY <1>4, RangeDistinct
  <2>3. staged # <<>> => Head(staged) \in Range(staged)
    BY <1>4, RangeDistinct
  <2>4. staged = <<>> => w.selected = s
    BY <1>4, <2>1, <2>2
  <2>5. u.selected = None <=> staged = <<>>
    BY <1>4, <1>17, <1>21, <2>1, <2>3, <2>4
  <2>6. staged # <<>> => u.selected \in Range(staged)
    BY <1>4, <1>17, <1>21, <2>1, <2>3
  <2> QED
    BY <1>21, <1>22, <2>5, <2>6 DEF Chosen
<1>25. Below(w, u)
  BY <1>12, <1>15, <1>19, <1>23, BelowOn, SteadyBelow
<1> QED
  BY <1>2, <1>4, <1>15, <1>19, <1>22, <1>23, <1>24, <1>25 DEF Unstages, Desk

\* All leave.
LEMMA ClearsAll ==
  ASSUME NEW w, Surface(w, {}, {}, {}), DeskTyped(w), Laid(w), NEW u, u = ClearSessions(w)
  PROVE  /\ Surface(u, {}, {}, {}) /\ Desk(u) /\ Below(w, u) /\ u.made = w.made
         /\ u.staged = <<>> /\ BoundSet(u) = BoundSet(w) \ Range(w.staged)
<1>1. DOMAIN w = Names /\ w.staged \in Seq(Session) /\ Distinct(w.staged)
  BY DEF Surface, Formed, DeskTyped
<1>2. PICK old : old = w.staged
  OBVIOUS
<1>3. PICK x : x = [w EXCEPT !.staged = <<>>, !.selected = None, !.focus = FALSE]
  OBVIOUS
<1>4. u = Rebuild(x)
  BY <1>3 DEF ClearSessions
<1>5. /\ DOMAIN x = Names /\ x.staged = <<>> /\ Aside(w, x) /\ Apart(w, x) /\ x.made = w.made
      /\ x.selected = None /\ x.focus = FALSE /\ x.viewport = w.viewport
      /\ x.tiling = w.tiling
  BY <1>1, <1>3 DEF Names, Aside, Beneath, Apart
<1>6. <<>> \in Seq(Session) /\ Len(<<>>) = 0 /\ DOMAIN <<>> = {} /\ Range(<<>>) = {}
  BY DEF Range
<1>7. DeskTyped(x)
  <2>1. Distinct(<<>>)
    BY <1>6 DEF Distinct
  <2>2. 0 <= MaxStaged
    BY LayoutAssumption
  <2>3. FALSE \in BOOLEAN /\ None \in Session \cup {None}
    OBVIOUS
  <2>4. Len(x.staged) <= MaxStaged
    BY <1>5, <1>6, <2>2
  <2>5. x.staged \in Seq(Session) /\ Distinct(x.staged)
    BY <1>5, <1>6, <2>1
  <2>6. x.selected \in Session \cup {None} /\ x.focus \in BOOLEAN
    BY <1>5, <2>3
  <2> QED
    BY <1>5, <2>4, <2>5, <2>6 DEF DeskTyped
<1>8. Due(x, old)
  <2>1. \E f \in BOOLEAN : x.tiling.tiles = BuildTiles(old, w.selected, f)
    BY <1>1, <1>2, <1>5 DEF Laid, DeskTyped
  <2> QED
    BY <1>1, <1>2, <1>5, <1>7, <2>1 DEF Due, Announced
<1>9. Surface(x, {}, {}, {}) /\ BoundSet(x) = BoundSet(w) /\ Below(w, x)
  BY <1>5, StaysAside DEF Below, Aside
<1>10. Range(x.staged) \ Range(old) = {} /\ Range(old) \ Range(x.staged) = Range(w.staged)
  BY <1>2, <1>5, <1>6
<1>11. Relaid(x, u, old)
  BY <1>4, <1>8, <1>9, <1>10, Rebuilds
<1>12. /\ Surface(u, {}, {}, {}) /\ Steady(x, u) /\ DeskTyped(u) /\ Laid(u)
       /\ u.made = w.made /\ BoundSet(u) = BoundSet(w) \ Range(w.staged)
  BY <1>5, <1>9, <1>10, <1>11 DEF Relaid
<1>13. u.staged = <<>> /\ u.selected = None /\ u.focus = FALSE /\ Below(w, u)
  BY <1>5, <1>9, <1>12, BelowOn, SteadyBelow DEF Steady
<1> QED
  BY <1>12, <1>13 DEF Desk, Chosen

\* Only what the catalog lets the surfaces retain is bound.
Trimmed(w) == BoundSet(w) \cap Session = {s \in Range(w.staged) : CanRetain(w, s)}
\* The stage keeps what the catalog retains.
Trims(w, u) ==
  /\ Set(u) /\ Below(w, u) /\ u.made = w.made
  /\ Range(u.staged) = {s \in Range(w.staged) : CanRetain(w, s)}
TrimsOn(w, u, T) ==
  /\ Surface(u, {}, {}, {}) /\ Desk(u) /\ Below(w, u) /\ u.made = w.made
  /\ Range(u.staged) = Range(w.staged) \ {s \in T : ~CanRetain(w, s)}
  /\ BoundSet(u) \cap Session = BoundSet(w) \cap Session

\* DesktopStateModel::reconcile keeps of the stage what the catalog retains.
LEMMA DesktopReconciles ==
  ASSUME NEW w, HostOK(w), Surface(w, {}, {}, {}), Desk(w), Trimmed(w), Authoritative(w),
         NEW u, u = DesktopReconcile(w)
  PROVE  Trims(w, u)
<1>1. PICK q \in Seq(Session) : q = w.staged /\ Distinct(q)
  BY DEF Desk, DeskTyped
<1>2. PICK n \in Nat : DOMAIN q = 1 .. n
  BY LenProperties
<1>3. PICK h : Walk("keep", {}, w, q, n, h) /\ u = h[n]
  BY <1>1, <1>2, KeepWalk
<1> DEFINE I(k) == TrimsOn(w, h[k], {q[j] : j \in 1 .. k})
           G == {k \in Nat : I(k)}
<1>4. I(0)
  <2>1. h[0] = w /\ {q[j] : j \in 1 .. 0} = {}
    BY <1>3 DEF Walk
  <2> QED
    BY <2>1 DEF TrimsOn, Below, Apart, HostOK
<1>5. ASSUME NEW k \in 1 .. n, I(k - 1) PROVE I(k)
  <2>1. PICK x : x = h[k - 1]
    OBVIOUS
  <2>2. PICK y : y = h[k]
    OBVIOUS
  <2>3. PICK s : s = q[k]
    OBVIOUS
  <2>4. PICK T : T = {q[j] : j \in 1 .. k - 1}
    OBVIOUS
  <2>5. y = IF CanRetain(x, s) THEN x ELSE UnstageSession(x, s)
    BY <1>3, <2>1, <2>2, <2>3 DEF Walk, Handled
  <2>6. TrimsOn(w, x, T)
    BY <1>5, <2>1, <2>4
  <2>7. s \in Session /\ s \in Range(w.staged)
    BY <1>1, <1>2, <2>3, RangeDistinct DEF Range
  <2>8. CanRetain(x, s) <=> CanRetain(w, s)
    BY <2>6, BelowCatalog DEF TrimsOn, SameCatalog
  <2>9. {q[j] : j \in 1 .. k} = T \cup {s}
    <3>1. \A j : j \in 1 .. k <=> j \in 1 .. k - 1 \/ j = k
      BY <1>2
    <3> QED
      BY <2>3, <2>4, <3>1
  <2>10. TrimsOn(w, y, T \cup {s})
    <3>1. CASE CanRetain(x, s)
      BY <2>5, <2>6, <2>8, <3>1 DEF TrimsOn
    <3>2. CASE ~CanRetain(x, s) /\ s \notin Range(x.staged)
      <4>1. y = x
        BY <2>5, <3>2 DEF UnstageSession
      <4> QED
        BY <2>6, <2>8, <3>2, <4>1 DEF TrimsOn
    <3>3. CASE ~CanRetain(x, s) /\ s \in Range(x.staged)
      <4>1. Unstages(x, y, s)
        BY <2>5, <2>6, <3>3, UnstagesOne DEF TrimsOn
      <4>2. Below(w, y)
        BY <2>6, <4>1, BelowOn DEF TrimsOn, Unstages
      <4>3. s \notin BoundSet(w)
        BY <2>7, <2>8, <3>3 DEF Trimmed
      <4> QED
        BY <2>6, <2>7, <2>8, <3>3, <4>1, <4>2, <4>3 DEF TrimsOn, Unstages
    <3> QED
      BY <3>1, <3>2, <3>3
  <2> QED
    BY <2>2, <2>9, <2>10
<1>6. n \in G
  <2>1. 0 \in G
    BY <1>4
  <2>2. ASSUME NEW k \in 1 .. n, k - 1 \in G PROVE k \in G
    <3>1. I(k)
      BY <1>5, <2>2
    <3>2. k \in Nat
      OBVIOUS
    <3> QED
      BY <3>1, <3>2
  <2>3. \A k \in 1 .. n : k - 1 \in G => k \in G
    BY ONLY <2>2
  <2> HIDE DEF G
  <2> QED
    BY <2>1, <2>3, Arrives
<1>7. {q[j] : j \in 1 .. n} = Range(w.staged)
  BY <1>1, <1>2 DEF Range
<1>8. TrimsOn(w, u, Range(w.staged))
  BY <1>3, <1>6, <1>7
<1>9. Range(u.staged) = {s \in Range(w.staged) : CanRetain(w, s)}
  BY <1>8 DEF TrimsOn
<1>10. HostOK(u) /\ SameCatalog(w, u)
  BY <1>8, BelowCatalog DEF TrimsOn
<1>11. Tiled(u) /\ Retained(u)
  BY <1>8, <1>9, <1>10 DEF Tiled, Retained, TrimsOn, Trimmed, SameCatalog
<1> QED
  BY <1>8, <1>9, <1>10, <1>11 DEF Trims, Set, TrimsOn

-----------------------------------------------------------------------------
(* Requests and links                                                       *)

LinksOK(w) ==
  /\ w.pending \subseteq [op : {"openRemote", "create", "close"}, session : Session]
  /\ IsFiniteSet(w.pending) /\ Cardinality(w.pending) <= MaxPending
  /\ w.active \in Session \cup {None}
  /\ w.links \in Seq(Session) /\ Len(w.links) <= MaxLinks
Whole(w) == Set(w) /\ LinksOK(w)

\* Only requests, links, and what is said of the step change.
LinksOnly(w, u) ==
  /\ Aside(w, u) /\ u.staged = w.staged /\ u.selected = w.selected /\ u.focus = w.focus
  /\ u.viewport = w.viewport /\ u.tiling = w.tiling /\ u.made = w.made
  /\ u.signedIn = w.signedIn /\ u.finalizing = w.finalizing
  /\ u.sends = w.sends /\ u.refused = w.refused

\* Two steps of requests and links only are one.
LEMMA LinksOnlyOn ==
  ASSUME NEW w, NEW u, NEW x, LinksOnly(w, u), LinksOnly(u, x) PROVE LinksOnly(w, x)
BY DEF LinksOnly, Aside, Beneath

\* Requests and links do not disturb the stage.
LEMMA SetLinks ==
  ASSUME NEW w, Set(w), NEW u, LinksOnly(w, u) PROVE Set(u)
<1>1. Surface(u, {}, {}, {}) /\ BoundSet(u) = BoundSet(w)
  BY StaysAside DEF Set, LinksOnly
<1>2. HostOK(u)
  BY HostAlso DEF Set, LinksOnly, Aside, Beneath
<1>3. Desk(u) /\ Tiled(u)
  BY <1>1 DEF Set, LinksOnly, Desk, DeskTyped, Laid, Chosen, Tiled
<1>4. Retained(u)
  BY CatalogKept DEF Set, LinksOnly, Aside, Retained, SameCatalog
<1> QED
  BY <1>1, <1>2, <1>3, <1>4 DEF Set

\* A request is sent, or an error is set.
Asks(w, u) ==
  /\ LinksOnly(w, u) /\ u.active = w.active /\ u.links = w.links /\ LinksOK(u)
  /\ w.reported => u.reported

\* sendTracked: the request is tracked within its limit, or an error is set.
LEMMA Sending ==
  ASSUME NEW w, DOMAIN w = Names, LinksOK(w), NEW op \in {"openRemote", "create", "close"},
         NEW s \in Session, NEW u, u = SendTracked(w, op, s)
  PROVE  Asks(w, u) /\ (~Tracks(w) => u.reported)
<1>1. CASE Tracks(w)
  <2>1. u = [w EXCEPT !.pending = @ \cup {Request(op, s)}]
    BY <1>1 DEF SendTracked
  <2>2. /\ LinksOnly(w, u) /\ u.active = w.active /\ u.links = w.links
        /\ u.reported = w.reported /\ u.pending = w.pending \cup {Request(op, s)}
    BY <2>1 DEF Names, LinksOnly, Aside, Beneath
  <2>3. PICK p : p = Request(op, s)
    OBVIOUS
  <2>4. p \in [op : {"openRemote", "create", "close"}, session : Session]
    BY <2>3 DEF Request
  <2>5. PICK P : P = w.pending
    OBVIOUS
  <2>6. PICK m \in Nat : Cardinality(P) = m
    BY <2>5, FS_CardinalityType DEF LinksOK
  <2>7. m < MaxPending
    BY <1>1, <2>5, <2>6 DEF Tracks
  <2>8. IsFiniteSet(P \cup {p}) /\ (Cardinality(P \cup {p}) = m \/ Cardinality(P \cup {p}) = m + 1)
    BY <2>5, <2>6, FS_AddElement DEF LinksOK
  <2>9. Cardinality(P \cup {p}) <= MaxPending
    BY <2>6, <2>7, <2>8, LinksAssumption
  <2>10. LinksOK(u)
    BY <2>2, <2>3, <2>4, <2>5, <2>8, <2>9 DEF LinksOK
  <2> QED
    BY <1>1, <2>2, <2>10 DEF Asks
<1>2. CASE ~Tracks(w)
  <2>1. PICK x : x = [w EXCEPT !.reported = TRUE]
    OBVIOUS
  <2>2. u = [x EXCEPT !.faulty = ~w.sends \/ @]
    BY <1>2, <2>1 DEF SendTracked, Unsent, Reported
  <2>3. /\ LinksOnly(w, u) /\ u.active = w.active /\ u.links = w.links
        /\ u.reported = TRUE /\ u.pending = w.pending
    BY <2>1, <2>2 DEF Names, LinksOnly, Aside, Beneath
  <2> QED
    BY <2>3 DEF Asks, LinksOK
<1> QED
  BY <1>1, <1>2

\* More may be staged, and what was said of the step stays.
Onward(w, u) ==
  /\ DOMAIN u = Names
  /\ u.running = w.running /\ u.catalog = w.catalog /\ u.waiting = w.waiting
  /\ u.signedIn = w.signedIn /\ u.finalizing = w.finalizing
  /\ Range(w.staged) \subseteq Range(u.staged)
  /\ u.made \subseteq w.made \cup (Range(u.staged) \ Range(w.staged))
  /\ w.reported => u.reported

\* Two steps onward are one.
LEMMA OnwardOn ==
  ASSUME NEW w, NEW u, NEW x, Onward(w, u), Onward(u, x) PROVE Onward(w, x)
BY DEF Onward

\* Requests and links take nothing off the stage.
LEMMA LinksOnward ==
  ASSUME NEW w, NEW u, LinksOnly(w, u), w.reported => u.reported PROVE Onward(w, u)
BY DEF Onward, LinksOnly, Aside, Beneath

\* Staging takes nothing off the stage.
LEMMA StagesOnward ==
  ASSUME NEW w, NEW u, Stages(w, u) PROVE Onward(w, u)
BY DEF Onward, Stages, Below, Apart

\* Only what the last activate returned, or an error is set.
LEMMA ReturnsIs ==
  ASSUME NEW w, DOMAIN w = Names, NEW d, NEW u, u = Returns(w, d)
  PROVE  /\ LinksOnly(w, u) /\ u.active = w.active /\ u.links = w.links /\ u.pending = w.pending
         /\ u.reported = w.reported /\ u.done = d
BY DEF Names, LinksOnly, Aside, Beneath, Returns

\* It answers no, and that is all.
LEMMA RefusesIs ==
  ASSUME NEW w, DOMAIN w = Names, NEW u, u = Returns(w, FALSE)
  PROVE  /\ LinksOnly(w, u) /\ u.active = w.active /\ u.links = w.links /\ u.pending = w.pending
         /\ u.reported = w.reported /\ u.done = FALSE
<1>1. PICK d : d = FALSE
  OBVIOUS
<1>2. u = Returns(w, d)
  BY <1>1
<1>3. /\ LinksOnly(w, u) /\ u.active = w.active /\ u.links = w.links /\ u.pending = w.pending
      /\ u.reported = w.reported /\ u.done = d
  BY ONLY <1>2, DOMAIN w = Names, ReturnsIs
<1> QED
  BY <1>1, <1>3

\* An error is set, and that is all.
LEMMA ReportedIs ==
  ASSUME NEW w, DOMAIN w = Names, NEW u, u = Reported(w)
  PROVE  /\ LinksOnly(w, u) /\ u.active = w.active /\ u.links = w.links /\ u.pending = w.pending
         /\ u.reported = TRUE /\ u.done = w.done
BY DEF Names, LinksOnly, Aside, Beneath, Reported

\* A request that could not be sent sets an error, and that is all.
LEMMA UnsentIs ==
  ASSUME NEW w, DOMAIN w = Names, NEW u, u = Unsent(w)
  PROVE  /\ LinksOnly(w, u) /\ u.active = w.active /\ u.links = w.links /\ u.pending = w.pending
         /\ u.reported = TRUE
<1>1. PICK x : x = Reported(w)
  OBVIOUS
<1>2. /\ LinksOnly(w, x) /\ x.active = w.active /\ x.links = w.links /\ x.pending = w.pending
      /\ x.reported = TRUE
  BY <1>1, ReportedIs
<1>3. DOMAIN x = Names
  BY <1>2 DEF LinksOnly, Aside, Beneath
<1>4. u = [x EXCEPT !.faulty = ~w.sends \/ @]
  BY <1>1 DEF Unsent
<1>5. /\ LinksOnly(x, u) /\ u.active = x.active /\ u.links = x.links /\ u.pending = x.pending
      /\ u.reported = x.reported
  BY <1>3, <1>4 DEF Names, LinksOnly, Aside, Beneath
<1> QED
  BY <1>2, <1>5, LinksOnlyOn

\* The request that activating a session takes first.
Preludes(w, u, s) ==
  /\ LinksOnly(w, u) /\ u.active = w.active /\ u.links = w.links /\ LinksOK(u)
  /\ w.reported => u.reported
  /\ DOMAIN u = Names
Says(w, u, s) ==
  /\ LinksOnly(w, u) /\ u.active = w.active /\ u.links = w.links /\ LinksOK(u) /\ u.reported
ActivatesKnown(w, u, s) ==
  \/ Says(w, u, s) /\ u.done = FALSE
  \/ \E x, y : /\ Preludes(w, x, s) /\ y = StageSession(x, s) /\ u = Returns(y, TRUE)
               /\ CanRetain(w, s) /\ (s \in Range(w.staged) \/ Len(w.staged) < MaxStaged)

\* activate of a session the catalog knows, or without an account: it is refused with an
\* error, or staged.
LEMMA ActivatesIs ==
  ASSUME NEW w, HostOK(w), LinksOK(w), NEW s \in Session, Known(w, s) \/ ~w.signedIn,
         w.staged \in Seq(Session), NEW u, u = Activate(w, s)
  PROVE  ActivatesKnown(w, u, s)
<1>0. DOMAIN w = Names
  BY DEF HostOK
<1>1. PICK full : full = (s \notin Range(w.staged) /\ Len(w.staged) >= MaxStaged)
  OBVIOUS
<1>2. PICK asks : asks = (s \notin Local /\ ~Opening(w, s))
  OBVIOUS
<1>3. PICK asked : asked = IF asks THEN SendTracked(w, "openRemote", s) ELSE w
  OBVIOUS
<1>4. u = IF Status(w, s) \in {"gone", "blocked", "closing"} \/ full
          THEN Returns(Reported(w), FALSE)
          ELSE IF asks /\ ~Tracks(w) THEN Returns(Unsent(w), FALSE)
          ELSE Returns(StageSession(asked, s), TRUE)
  BY <1>1, <1>2, <1>3 DEF Activate
<1>5. CASE Status(w, s) \in {"gone", "blocked", "closing"} \/ full
  <2>1. PICK x : x = Reported(w)
    OBVIOUS
  <2>2. /\ LinksOnly(w, x) /\ x.active = w.active /\ x.links = w.links /\ x.pending = w.pending
        /\ x.reported = TRUE
    BY <1>0, <2>1, ReportedIs
  <2>3. DOMAIN x = Names /\ u = Returns(x, FALSE)
    <3>1. u = Returns(x, FALSE)
      BY <1>4, <1>5, <2>1
    <3> QED
      BY <2>2, <3>1 DEF LinksOnly, Aside, Beneath
  <2>4. /\ LinksOnly(x, u) /\ u.active = x.active /\ u.links = x.links /\ u.pending = x.pending
        /\ u.reported = x.reported /\ u.done = FALSE
    BY ONLY <2>3, RefusesIs
  <2>5. LinksOnly(w, u) /\ LinksOK(u)
    BY <2>2, <2>4, LinksOnlyOn DEF LinksOK
  <2> QED
    BY <2>2, <2>4, <2>5 DEF Says, ActivatesKnown
<1>6. CASE ~(Status(w, s) \in {"gone", "blocked", "closing"} \/ full) /\ asks /\ ~Tracks(w)
  <2>1. PICK x : x = Unsent(w)
    OBVIOUS
  <2>2. /\ LinksOnly(w, x) /\ x.active = w.active /\ x.links = w.links /\ x.pending = w.pending
        /\ x.reported = TRUE
    BY <1>0, <2>1, UnsentIs
  <2>3. DOMAIN x = Names /\ u = Returns(x, FALSE)
    <3>1. u = Returns(x, FALSE)
      BY <1>4, <1>6, <2>1
    <3> QED
      BY <2>2, <3>1 DEF LinksOnly, Aside, Beneath
  <2>4. /\ LinksOnly(x, u) /\ u.active = x.active /\ u.links = x.links /\ u.pending = x.pending
        /\ u.reported = x.reported /\ u.done = FALSE
    BY ONLY <2>3, RefusesIs
  <2>5. LinksOnly(w, u) /\ LinksOK(u)
    BY <2>2, <2>4, LinksOnlyOn DEF LinksOK
  <2> QED
    BY <2>2, <2>4, <2>5 DEF Says, ActivatesKnown
<1>7. CASE ~(Status(w, s) \in {"gone", "blocked", "closing"} \/ full) /\ ~(asks /\ ~Tracks(w))
  <2>1. PICK y : y = StageSession(asked, s)
    OBVIOUS
  <2>2. u = Returns(y, TRUE)
    BY <1>4, <1>7, <2>1
  <2>3. Preludes(w, asked, s)
    <3>1. CASE asks
      <4>1. asked = SendTracked(w, "openRemote", s)
        BY <1>3, <3>1
      <4>2. Asks(w, asked)
        BY <1>0, <4>1, Sending
      <4> QED
        BY <1>0, <4>2 DEF Preludes, Asks, LinksOnly, Aside, Beneath
    <3>2. CASE ~asks
      <4>1. asked = w
        BY <1>3, <3>2
      <4> QED
        BY <1>0, <4>1 DEF Preludes, LinksOnly, Aside, Beneath
    <3> QED
      BY <3>1, <3>2
  <2>4. s \in Range(w.staged) \/ Len(w.staged) < MaxStaged
    <3>1. PICK n \in Nat : Len(w.staged) = n
      BY LenProperties
    <3>2. ~(s \notin Range(w.staged) /\ Len(w.staged) >= MaxStaged)
      BY <1>1, <1>7, Zenon
    <3>3. PICK m \in Nat : m = MaxStaged
      BY LayoutAssumption
    <3> QED
      BY ONLY <3>1, <3>2, <3>3, n \in Nat, m \in Nat
  <2>5. Status(w, s) \in {"ready", "away", "closing", "blocked", "gone"}
    BY KnownIs
  <2>6. Status(w, s) \notin {"gone", "blocked", "closing"}
    BY <1>7
  <2>7. CanRetain(w, s)
    BY <2>5, <2>6 DEF CanRetain
  <2> QED
    BY <2>1, <2>2, <2>3, <2>4, <2>7 DEF ActivatesKnown
<1> QED
  BY <1>5, <1>6, <1>7

Opens(w, u) == Whole(u) /\ Onward(w, u)

\* That activate returned true says nothing of the links.
LEMMA ReturnsTrue ==
  ASSUME NEW w, DOMAIN w = Names, NEW u, u = Returns(w, TRUE)
  PROVE  /\ LinksOnly(w, u) /\ u.active = w.active /\ u.links = w.links /\ u.pending = w.pending
         /\ u.reported = w.reported
BY DEF Names, LinksOnly, Aside, Beneath, Returns

\* Two steps that open are one.
LEMMA OpensOn ==
  ASSUME NEW w, NEW u, NEW x, Opens(w, u), Opens(u, x) PROVE Opens(w, x)
BY OnwardOn DEF Opens

\* Requests and links leave the whole in order.
LEMMA OpensLinks ==
  ASSUME NEW w, Set(w), NEW u, LinksOnly(w, u), LinksOK(u), w.reported => u.reported
  PROVE  Opens(w, u)
BY SetLinks, LinksOnward DEF Opens, Whole

\* What activating a session has come to.
Activated(w, u, s) ==
  /\ Opens(w, u) /\ u.links = w.links
  /\ Known(w, s) => u.active = w.active /\ (s \in Range(u.staged) \/ u.reported)
  /\ ~Known(w, s) => u.active = w.active \/ u.active = s \/ (u.active = None /\ u.reported)

\* activate leaves the whole in order, whatever the session; one it knows is staged, or
\* an error is set; one it does not know may become the active link.
LEMMA Activates ==
  ASSUME NEW w, Whole(w), NEW s \in Session, NEW u, u = Activate(w, s)
  PROVE  Activated(w, u, s)
<1>1. /\ HostOK(w) /\ DOMAIN w = Names /\ LinksOK(w) /\ Set(w) /\ w.staged \in Seq(Session)
  BY DEF Whole, Set, HostOK, Desk, DeskTyped
<1>2. CASE Known(w, s) \/ ~w.signedIn
  <2>1. ActivatesKnown(w, u, s)
    BY <1>1, <1>2, ActivatesIs
  <2>2. CASE Says(w, u, s)
    BY <1>1, <2>2, OpensLinks DEF Says, Activated
  <2>3. CASE ~Says(w, u, s)
    <3>1. PICK x, y : /\ Preludes(w, x, s) /\ y = StageSession(x, s) /\ u = Returns(y, TRUE)
                      /\ CanRetain(w, s) /\ (s \in Range(w.staged) \/ Len(w.staged) < MaxStaged)
      BY <2>1, <2>3 DEF ActivatesKnown
    <3>2. /\ Set(x) /\ Onward(w, x) /\ x.staged = w.staged /\ LinksOK(x)
          /\ x.active = w.active /\ x.links = w.links
      BY <1>1, <3>1, SetLinks, LinksOnward DEF Preludes, LinksOnly
    <3>3. Stages(x, y) /\ (~StageRefused(x, s) => s \in Range(y.staged))
      BY <3>1, <3>2, StagesOne
    <3>4. CanRetain(x, s)
      BY <3>1, <3>2 DEF CanRetain, Status, Known, Onward
    <3>5. ~StageRefused(x, s)
      <4>1. PICK n \in Nat : n = Len(w.staged)
        BY <1>1, LenProperties
      <4>2. PICK m \in Nat : m = MaxStaged
        BY LayoutAssumption
      <4>3. ~(s \notin Range(w.staged) /\ Len(w.staged) >= MaxStaged)
        BY ONLY <3>1, <4>1, <4>2, n \in Nat, m \in Nat
      <4> QED
        BY <3>2, <3>4, <4>3 DEF StageRefused
    <3>6. s \in Range(y.staged) /\ Onward(x, y) /\ Set(y) /\ LinksOK(y)
          /\ y.active = x.active /\ y.links = x.links
      <4>1. Onward(x, y) /\ y.pending = x.pending /\ y.active = x.active /\ y.links = x.links
        BY <3>3, StagesOnward DEF Stages, Below, Apart
      <4>2. LinksOK(y)
        BY <3>2, <4>1 DEF LinksOK
      <4>3. HostOK(y)
        BY <3>2, <3>3, BelowCatalog DEF Stages, Set
      <4> QED
        BY <3>3, <3>5, <4>1, <4>2, <4>3 DEF Stages, Set
    <3>7. DOMAIN y = Names
      BY <3>6 DEF Onward
    <3>8. /\ LinksOnly(y, u) /\ u.active = y.active /\ u.links = y.links /\ u.pending = y.pending
          /\ u.reported = y.reported
      BY <3>1, <3>7, ReturnsTrue
    <3>9. LinksOK(u)
      BY <3>6, <3>8 DEF LinksOK
    <3>10. Opens(y, u)
      BY <3>6, <3>8, <3>9, OpensLinks
    <3>11. Opens(w, u)
      BY <3>2, <3>6, <3>10, OnwardOn DEF Opens
    <3>12. s \in Range(u.staged)
      BY <3>6, <3>8 DEF LinksOnly
    <3> QED
      BY <3>2, <3>6, <3>8, <3>11, <3>12 DEF Activated
  <2> QED
    BY <2>2, <2>3
<1>3. CASE ~Known(w, s) /\ w.signedIn
  <2>1. u = OpenUnknown(w, s)
    BY <1>3 DEF Activate
  <2>2. CASE Opening(w, s)
    <3>1. u = Returns(w, TRUE)
      BY <2>1, <2>2 DEF OpenUnknown
    <3>2. /\ LinksOnly(w, u) /\ u.active = w.active /\ u.links = w.links /\ u.pending = w.pending
          /\ u.reported = w.reported
      BY <1>1, <3>1, ReturnsTrue
    <3>3. LinksOK(u)
      BY <1>1, <3>2 DEF LinksOK
    <3> QED
      BY <1>1, <1>3, <3>2, <3>3, OpensLinks DEF Activated
  <2>3. CASE ~Opening(w, s)
    <3>1. PICK x : x = SendTracked(w, "openRemote", s)
      OBVIOUS
    <3>2. Asks(w, x) /\ (~Tracks(w) => x.reported)
      BY <1>1, <3>1, Sending
    <3>3. PICK y : y = [x EXCEPT !.active = IF Tracks(w) THEN s ELSE None]
      OBVIOUS
    <3>4. u = Returns(y, Tracks(w))
      BY <2>1, <2>3, <3>1, <3>3 DEF OpenUnknown
    <3>5. DOMAIN x = Names
      BY <3>2 DEF Asks, LinksOnly, Aside, Beneath
    <3>6. /\ LinksOnly(x, y) /\ y.active = (IF Tracks(w) THEN s ELSE None) /\ y.links = x.links
          /\ y.pending = x.pending /\ y.reported = x.reported /\ DOMAIN y = Names
      BY <3>3, <3>5 DEF Names, LinksOnly, Aside, Beneath
    <3>7. /\ LinksOnly(y, u) /\ u.active = y.active /\ u.links = y.links /\ u.pending = y.pending
          /\ u.reported = y.reported
      BY <3>4, <3>6, ReturnsIs
    <3>8. LinksOnly(w, u)
      BY <3>2, <3>6, <3>7, LinksOnlyOn DEF Asks
    <3>9. LinksOK(u)
      BY <3>2, <3>6, <3>7 DEF LinksOK, Asks
    <3>10. Opens(w, u)
      BY <1>1, <3>2, <3>6, <3>7, <3>8, <3>9, OpensLinks DEF Asks
    <3>11. u.links = w.links /\ (u.active = s \/ (u.active = None /\ u.reported))
      BY <3>2, <3>6, <3>7 DEF Asks
    <3> QED
      BY <1>3, <3>10, <3>11 DEF Activated
  <2> QED
    BY <2>2, <2>3
<1> QED
  BY <1>2, <1>3

\* A session that is staged is activated: the surfaces are left alone, in
\* whatever state they are.
ActivatedAgain(w, u) ==
  /\ Aside(w, u) /\ HostOK(u) /\ Desk(u) /\ LinksOK(u)
  /\ u.staged = w.staged /\ u.made = w.made /\ u.active = w.active /\ u.links = w.links

\* activate of a session that is staged: the surfaces are left alone.
LEMMA ActivatesAgain ==
  ASSUME NEW w, HostOK(w), Desk(w), LinksOK(w), NEW s \in Range(w.staged), CanRetain(w, s),
         NEW u, u = Activate(w, s)
  PROVE  ActivatedAgain(w, u)
<1>1. /\ DOMAIN w = Names /\ w.staged \in Seq(Session) /\ s \in Session
  BY RangeDistinct DEF HostOK, Desk, DeskTyped
<1>2. Known(w, s)
  BY KnownIs
<1>3. ActivatesKnown(w, u, s)
  BY <1>1, <1>2, ActivatesIs
<1>4. ASSUME NEW x, LinksOnly(w, x) PROVE HostOK(x) /\ Desk(x)
  <2>1. HostOK(x)
    BY <1>4, HostAlso DEF LinksOnly, Aside, Beneath
  <2> QED
    BY <1>4, <2>1 DEF LinksOnly, Desk, DeskTyped, Laid, Chosen
<1>5. CASE Says(w, u, s)
  <2>1. HostOK(u) /\ Desk(u)
    BY <1>4, <1>5 DEF Says
  <2> QED
    BY <1>5, <2>1 DEF Says, ActivatedAgain, LinksOnly
<1>6. CASE ~Says(w, u, s)
  <2>1. PICK x, y : Preludes(w, x, s) /\ y = StageSession(x, s) /\ u = Returns(y, TRUE)
    BY <1>3, <1>6 DEF ActivatesKnown
  <2>2. /\ HostOK(x) /\ Desk(x) /\ Aside(w, x) /\ x.staged = w.staged /\ x.made = w.made /\ LinksOK(x)
        /\ x.active = w.active /\ x.links = w.links /\ DOMAIN x = Names
    BY <1>4, <2>1 DEF Preludes, LinksOnly
  <2>3. Redrawn(x, y) /\ Chosen(y)
    BY <2>1, <2>2, StagesAgain
  <2>4. /\ Aside(x, y) /\ Desk(y) /\ y.staged = x.staged /\ y.made = x.made
        /\ y.pending = x.pending /\ y.active = x.active /\ y.links = x.links /\ DOMAIN y = Names
    BY <2>3 DEF Redrawn, Apart, Desk
  <2>5. LinksOnly(y, u) /\ u.active = y.active /\ u.links = y.links /\ u.pending = y.pending
    BY <2>1, <2>4, ReturnsTrue
  <2>6. Aside(w, u)
    BY <2>2, <2>4, <2>5 DEF LinksOnly, Aside, Beneath
  <2>7. LinksOK(u)
    BY <2>2, <2>4, <2>5 DEF LinksOK
  <2>8. HostOK(u)
    BY <2>6, HostAlso DEF Aside, Beneath
  <2>9. Desk(u)
    BY <2>4, <2>5 DEF LinksOnly, Desk, DeskTyped, Laid, Chosen
  <2> QED
    BY <2>2, <2>4, <2>5, <2>6, <2>7, <2>8, <2>9 DEF ActivatedAgain, LinksOnly
<1> QED
  BY <1>5, <1>6

-----------------------------------------------------------------------------
(* Links                                                                    *)

Unopened(w) == w.active # None => ~Known(w, w.active)

\* The links ahead of the first whose session the catalog does not know.
LEMMA QueueIs ==
  ASSUME NEW w, LinksOK(w), NEW q, q = Queue(w)
  PROVE  q \in Seq(Session) /\ Len(q) <= MaxLinks + 1 /\ Range(q) = Following(w)
<1>1. PICK n \in Nat : Len(w.links) = n /\ DOMAIN w.links = 1 .. n /\ n <= MaxLinks
  BY LenProperties DEF LinksOK
<1>2. PICK m \in Nat : m = MaxLinks
  BY LinksAssumption
<1>3. w.links \in Seq(Session) /\ w.active \in Session \cup {None}
  BY DEF LinksOK
<1>4. CASE w.active = None
  <2>1. q = w.links
    BY <1>4 DEF Queue
  <2>2. n <= m + 1
    BY <1>1, <1>2
  <2> QED
    BY <1>1, <1>2, <1>3, <1>4, <2>1, <2>2 DEF Following
<1>5. CASE w.active # None
  <2>1. PICK a \in Session : a = w.active
    BY <1>3, <1>5
  <2>2. q = <<a>> \o w.links
    BY <1>5, <2>1 DEF Queue
  <2>3. <<a>> \in Seq(Session) /\ Len(<<a>>) = 1 /\ <<a>>[1] = a
    OBVIOUS
  <2>4. /\ q \in Seq(Session) /\ Len(q) = 1 + n
        /\ \A i \in 1 .. 1 + n : q[i] = IF i <= 1 THEN <<a>>[i] ELSE w.links[i - 1]
    BY <1>1, <1>3, <2>2, <2>3, ConcatProperties
  <2>5. DOMAIN q = 1 .. n + 1 /\ q[1] = a /\ \A i \in 1 .. n : q[i + 1] = w.links[i]
    <3>1. DOMAIN q = 1 .. n + 1
      BY <2>4, LenProperties
    <3>2. q[1] = a
      BY <2>3, <2>4
    <3>3. ASSUME NEW i \in 1 .. n PROVE q[i + 1] = w.links[i]
      <4>1. i + 1 \in 1 .. 1 + n /\ ~(i + 1 <= 1) /\ i + 1 - 1 = i
        OBVIOUS
      <4> QED
        BY <2>4, <4>1
    <3> QED
      BY <3>1, <3>2, <3>3
  <2>6. ASSUME NEW x PROVE x \in Range(q) <=> x = a \/ x \in Range(w.links)
    <3>1. \A j \in 1 .. n + 1 : j = 1 \/ \E i \in 1 .. n : j = i + 1
      <4>1. \A j \in 1 .. n + 1 : j = 1 \/ (j - 1 \in 1 .. n /\ j = j - 1 + 1)
        OBVIOUS
      <4> QED
        BY <4>1
    <3>2. 1 \in 1 .. n + 1 /\ \A i \in 1 .. n : i + 1 \in 1 .. n + 1
      OBVIOUS
    <3>3. Range(q) = {q[j] : j \in 1 .. n + 1} /\ Range(w.links) = {w.links[i] : i \in 1 .. n}
      BY <1>1, <2>5 DEF Range
    <3>4. ASSUME x \in Range(q) PROVE x = a \/ x \in Range(w.links)
      <4>1. PICK j \in 1 .. n + 1 : x = q[j]
        BY <3>3, <3>4
      <4>2. CASE j = 1
        BY <2>5, <4>1, <4>2
      <4>3. CASE j # 1
        <5>1. PICK i \in 1 .. n : j = i + 1
          BY <3>1, <4>3
        <5> QED
          BY <2>5, <3>3, <4>1, <5>1
      <4> QED
        BY <4>2, <4>3
    <3>5. ASSUME x \in Range(w.links) PROVE x \in Range(q)
      <4>1. PICK i \in 1 .. n : x = w.links[i]
        BY <3>3, <3>5
      <4> QED
        BY <2>5, <3>2, <3>3, <4>1
    <3>6. a \in Range(q)
      BY <2>5, <3>2, <3>3
    <3> QED
      BY <3>4, <3>5, <3>6
  <2>7. Range(q) = Following(w)
    BY <1>3, <1>5, <2>1, <2>6 DEF Following
  <2>8. Len(q) <= MaxLinks + 1
    BY <1>1, <1>2, <2>4
  <2> QED
    BY <2>4, <2>7, <2>8
<1> QED
  BY <1>4, <1>5

UnknownAt(w, q) == SelectInSeq(q, LAMBDA s : ~Known(w, s))
FirstIs(w, q, n, i) ==
  \/ i = 0 /\ \A j \in 1 .. n : Known(w, q[j])
  \/ i \in 1 .. n /\ ~Known(w, q[i]) /\ \A j \in 1 .. i - 1 : Known(w, q[j])

\* SelectInSeq finds the first session the catalog does not know.
LEMMA FirstUnknown ==
  ASSUME NEW w, NEW q \in Seq(Session), NEW n \in Nat, Len(q) = n, NEW i, i = UnknownAt(w, q)
  PROVE  FirstIs(w, q, n, i)
<1>1. PICK T : T = {j \in 1 .. Len(q) : ~Known(w, q[j])}
  OBVIOUS
<1>2. i = IF T # {} THEN Min(T) ELSE 0
  BY <1>1 DEF UnknownAt, SelectInSeq
<1>3. CASE T = {}
  BY <1>1, <1>2, <1>3 DEF FirstIs
<1>4. CASE T # {}
  <2>1. T \in SUBSET Nat
    BY <1>1
  <2>2. i \in T /\ \A y \in T : i <= y
    <3>1. i = Min(T)
      BY <1>2, <1>4
    <3> QED
      BY ONLY <3>1, <1>4, <2>1, MinIs
  <2>3. i \in 1 .. n /\ ~Known(w, q[i])
    BY <1>1, <2>2
  <2>4. ASSUME NEW j \in 1 .. i - 1 PROVE Known(w, q[j])
    <3>1. j \in 1 .. n /\ ~(i <= j)
      BY <2>3
    <3> QED
      BY <1>1, <2>2, <3>1
  <2> QED
    BY <2>3, <2>4 DEF FirstIs
<1> QED
  BY <1>3, <1>4

\* Sessions the catalog knows are opened one after the other.
OpensEach(w, u, S) ==
  /\ Opens(w, u) /\ u.active = w.active /\ u.links = w.links
  /\ \A s \in S : s \in Range(u.staged) \/ u.reported

\* Opening sessions the catalog knows: each is staged, or an error is set.
LEMMA OpensKnown ==
  ASSUME NEW w, Whole(w), NEW q \in Seq(Session), \A s \in Range(q) : Known(w, s),
         NEW u, u = FoldLeft(Activate, w, q)
  PROVE  OpensEach(w, u, Range(q))
<1>1. PICK n \in Nat : DOMAIN q = 1 .. n
  BY LenProperties
<1>2. PICK h : Walk("activate", {}, w, q, n, h) /\ u = h[n]
  BY <1>1, ActivateWalk
<1> DEFINE I(k) == OpensEach(w, h[k], {q[j] : j \in 1 .. k})
           G == {k \in Nat : I(k)}
<1>3. I(0)
  <2>1. h[0] = w /\ {q[j] : j \in 1 .. 0} = {}
    BY <1>2 DEF Walk
  <2> QED
    BY <2>1 DEF OpensEach, Opens, Onward, Whole, Set, HostOK
<1>4. ASSUME NEW k \in 1 .. n, I(k - 1) PROVE I(k)
  <2>1. PICK x : x = h[k - 1]
    OBVIOUS
  <2>2. PICK y : y = h[k]
    OBVIOUS
  <2>3. PICK s : s = q[k]
    OBVIOUS
  <2>4. PICK T : T = {q[j] : j \in 1 .. k - 1}
    OBVIOUS
  <2>5. y = Activate(x, s)
    BY <1>2, <2>1, <2>2, <2>3 DEF Walk, Handled
  <2>6. OpensEach(w, x, T)
    BY <1>4, <2>1, <2>4
  <2>7. s \in Range(q) /\ s \in Session
    BY <1>1, <2>3, RangeDistinct DEF Range
  <2>8. Known(x, s)
    BY <2>6, <2>7 DEF OpensEach, Opens, Onward, Known
  <2>9. Activated(x, y, s)
    BY <2>5, <2>6, <2>7, Activates DEF OpensEach, Opens
  <2>10. {q[j] : j \in 1 .. k} = T \cup {s}
    <3>1. \A j : j \in 1 .. k <=> j \in 1 .. k - 1 \/ j = k
      BY <1>1
    <3> QED
      BY <2>3, <2>4, <3>1
  <2>11. Opens(w, y)
    BY <2>6, <2>9, OpensOn DEF OpensEach, Activated
  <2>12. Range(x.staged) \subseteq Range(y.staged) /\ (x.reported => y.reported)
    BY <2>9 DEF Activated, Opens, Onward
  <2>13. OpensEach(w, y, T \cup {s})
    BY <2>6, <2>8, <2>9, <2>11, <2>12 DEF OpensEach, Activated
  <2> QED
    BY <2>2, <2>10, <2>13
<1>5. n \in G
  <2>1. 0 \in G
    BY <1>3
  <2>2. ASSUME NEW k \in 1 .. n, k - 1 \in G PROVE k \in G
    <3>1. I(k)
      BY <1>4, <2>2
    <3>2. k \in Nat
      OBVIOUS
    <3> QED
      BY <3>1, <3>2
  <2>3. \A k \in 1 .. n : k - 1 \in G => k \in G
    BY ONLY <2>2
  <2> HIDE DEF G
  <2> QED
    BY <2>1, <2>3, Arrives
<1>6. {q[j] : j \in 1 .. n} = Range(q)
  BY <1>1 DEF Range
<1> QED
  BY <1>2, <1>5, <1>6

\* The active link, whose session is not known, is opened.
OpensActive(w, u) ==
  /\ Opens(w, u) /\ u.links = w.links
  /\ u.active = w.active \/ (u.active = None /\ u.reported)

\* Opening the active link: it stays the active link, or an error is set.
LEMMA OpensTheActive ==
  ASSUME NEW w, Whole(w), w.active \in Session, ~Known(w, w.active), NEW u, u = OpenActive(w)
  PROVE  OpensActive(w, u)
<1>1. DOMAIN w = Names /\ Set(w) /\ LinksOK(w)
  BY DEF Whole, Set, HostOK
<1>2. CASE w.finalizing
  <2>1. u = w
    BY <1>2 DEF OpenActive
  <2> QED
    BY <1>1, <2>1 DEF OpensActive, Opens, Onward
<1>3. CASE ~w.finalizing /\ ~w.signedIn
  <2>1. u = Reported(w)
    BY <1>3 DEF OpenActive
  <2>2. /\ LinksOnly(w, u) /\ u.active = w.active /\ u.links = w.links /\ u.pending = w.pending
        /\ u.reported = TRUE
    BY <1>1, <2>1, ReportedIs
  <2>3. LinksOK(u)
    BY <1>1, <2>2 DEF LinksOK
  <2> QED
    BY <1>1, <2>2, <2>3, OpensLinks DEF OpensActive
<1>4. CASE ~w.finalizing /\ w.signedIn
  <2>1. PICK s \in Session : s = w.active
    OBVIOUS
  <2>2. u = Activate(w, s)
    BY <1>4, <2>1 DEF OpenActive
  <2>3. Activated(w, u, s)
    BY <2>2, Activates
  <2> QED
    BY <2>1, <2>3 DEF Activated, OpensActive
<1> QED
  BY <1>2, <1>3, <1>4

\* Every link is opened, still followed, or an error says that it is not.
Heard(w, u) ==
  \A s \in Following(w) \ Following(u) : s \in Range(u.staged) \/ u.reported

\* activatePendingLink: no link is dropped that is neither staged nor said to have failed,
\* and an active link is one whose session the catalog does not know.
LEMMA ActivatesPending ==
  ASSUME NEW w, Whole(w), NEW u, u = ActivatePendingLink(w)
  PROVE  Opens(w, u) /\ Unopened(u) /\ Heard(w, u)
<1>1. DOMAIN w = Names /\ Set(w) /\ LinksOK(w)
  BY DEF Whole, Set, HostOK
<1>2. PICK q : q = Queue(w)
  OBVIOUS
<1>3. q \in Seq(Session) /\ Len(q) <= MaxLinks + 1 /\ Range(q) = Following(w)
  BY <1>1, <1>2, QueueIs
<1>4. PICK n \in Nat : Len(q) = n /\ DOMAIN q = 1 .. n
  BY <1>3, LenProperties
<1>5. PICK i : i = UnknownAt(w, q)
  OBVIOUS
<1>6. \/ i = 0 /\ \A j \in 1 .. n : Known(w, q[j])
      \/ i \in 1 .. n /\ ~Known(w, q[i]) /\ \A j \in 1 .. i - 1 : Known(w, q[j])
  BY <1>3, <1>4, <1>5, FirstUnknown DEF FirstIs
<1>7. PICK known : known = IF i = 0 THEN q ELSE SubSeq(q, 1, i - 1)
  OBVIOUS
<1>8. PICK base : base = [w EXCEPT !.active = None, !.links = <<>>]
  OBVIOUS
<1>9. PICK opened : opened = FoldLeft(Activate, base, known)
  OBVIOUS
<1>10. u = IF i = 0 THEN opened
           ELSE OpenActive([opened EXCEPT !.active = q[i], !.links = SubSeq(q, i + 1, Len(q))])
  BY <1>2, <1>5, <1>7, <1>8, <1>9 DEF ActivatePendingLink, UnknownAt
<1>11. /\ LinksOnly(w, base) /\ base.active = None /\ base.links = <<>> /\ base.pending = w.pending
       /\ base.reported = w.reported
  BY <1>1, <1>8 DEF Names, LinksOnly, Aside, Beneath
<1>12. LinksOK(base)
  <2>1. <<>> \in Seq(Session) /\ Len(<<>>) = 0 /\ 0 <= MaxLinks
    BY LinksAssumption
  <2> QED
    BY <1>1, <1>11, <2>1 DEF LinksOK
<1>13. Opens(w, base) /\ Whole(base)
  BY <1>1, <1>11, <1>12, OpensLinks DEF Opens
<1>14. \A s : Known(base, s) <=> Known(w, s)
  BY <1>11 DEF LinksOnly, Aside, Known
<1>15. known \in Seq(Session) /\ \A s \in Range(known) : Known(base, s)
  <2>1. CASE i = 0
    BY <1>3, <1>4, <1>6, <1>7, <1>14, <2>1 DEF Range
  <2>2. CASE i # 0
    <3>1. i \in 1 .. n /\ \A j \in 1 .. i - 1 : Known(w, q[j])
      BY <1>6, <2>2
    <3>2. PICK m \in Nat : m = i - 1 /\ m <= n
      BY <3>1
    <3>3. 1 \in Nat /\ 1 <= 1 /\ 1 <= m + 1
      OBVIOUS
    <3>4. /\ known \in Seq(Session) /\ Len(known) = m - 1 + 1
          /\ \A j \in 1 .. m - 1 + 1 : known[j] = q[1 + j - 1]
      <4>1. known = SubSeq(q, 1, m)
        BY <1>7, <2>2, <3>2
      <4> QED
        BY ONLY <1>3, <1>4, <3>2, <3>3, <4>1, m \in Nat, n \in Nat, Cuts
    <3>5. DOMAIN known = 1 .. m
      BY <3>4, LenProperties
    <3>6. ASSUME NEW j \in 1 .. m PROVE Known(base, known[j])
      <4>1. j \in 1 .. m - 1 + 1 /\ 1 + j - 1 = j /\ j \in 1 .. i - 1
        BY <3>2
      <4> QED
        BY <1>14, <3>1, <3>4, <4>1
    <3> QED
      BY <3>4, <3>5, <3>6 DEF Range
  <2> QED
    BY <2>1, <2>2
<1>16. OpensEach(base, opened, Range(known))
  BY <1>9, <1>13, <1>15, OpensKnown
<1>17. Opens(w, opened) /\ opened.active = None /\ opened.links = <<>>
  BY <1>11, <1>13, <1>16, OpensOn DEF OpensEach
<1>18. CASE i = 0
  <2>1. u = opened /\ known = q
    BY <1>7, <1>10, <1>18
  <2>2. Heard(w, u)
    BY <1>3, <1>16, <2>1 DEF Heard, OpensEach
  <2>3. Unopened(u)
    BY <1>17, <2>1 DEF Unopened
  <2> QED
    BY <1>17, <2>1, <2>2, <2>3
<1>19. CASE i # 0
  <2>1. i \in 1 .. n /\ ~Known(w, q[i]) /\ q[i] \in Session
    BY <1>3, <1>4, <1>6, <1>19, ElementOfSeq
  <2>2. PICK rest : rest = SubSeq(q, i + 1, n)
    OBVIOUS
  <2>3. PICK m \in Nat : m = n - i
    BY <2>1
  <2>4. /\ rest \in Seq(Session) /\ Len(rest) = m /\ \A j \in 1 .. m : rest[j] = q[i + j]
    <3>1. PICK k \in Nat : k = i + 1 /\ 1 <= k /\ n <= n /\ k <= n + 1
      BY <2>1
    <3>2. /\ rest \in Seq(Session) /\ Len(rest) = n - k + 1
          /\ \A j \in 1 .. n - k + 1 : rest[j] = q[k + j - 1]
      BY <1>3, <1>4, <2>2, <3>1, Cuts
    <3>3. n - k + 1 = m /\ \A j \in 1 .. m : k + j - 1 = i + j
      BY <2>1, <2>3, <3>1
    <3> QED
      BY <3>2, <3>3
  <2>5. PICK x : x = [opened EXCEPT !.active = q[i], !.links = rest]
    OBVIOUS
  <2>6. u = OpenActive(x)
    BY <1>4, <1>10, <1>19, <2>2, <2>5
  <2>7. DOMAIN opened = Names /\ Set(opened) /\ LinksOK(opened)
    BY <1>17 DEF Opens, Onward, Whole
  <2>8. /\ LinksOnly(opened, x) /\ x.active = q[i] /\ x.links = rest /\ x.pending = opened.pending
        /\ x.reported = opened.reported
    BY <2>5, <2>7 DEF Names, LinksOnly, Aside, Beneath
  <2>9. LinksOK(x)
    <3>1. PICK l \in Nat : l = MaxLinks
      BY LinksAssumption
    <3>2. m <= l
      BY <1>3, <1>4, <2>1, <2>3, <3>1
    <3> QED
      BY <2>1, <2>4, <2>7, <2>8, <3>1, <3>2 DEF LinksOK
  <2>10. Opens(opened, x)
    BY <2>7, <2>8, <2>9, OpensLinks
  <2>11. Opens(w, x)
    BY <1>17, <2>10, OpensOn
  <2>12. x.active \in Session /\ ~Known(x, x.active)
    BY <2>1, <2>8, <2>11 DEF Opens, Onward, Known
  <2>13. OpensActive(x, u)
    BY <2>6, <2>11, <2>12, OpensTheActive DEF Opens
  <2>14. Opens(w, u)
    BY <2>11, <2>13, OpensOn DEF OpensActive
  <2>15. Unopened(u)
    BY <2>12, <2>13 DEF OpensActive, Opens, Onward, Unopened, Known
  <2>16. Heard(w, u)
    <3> SUFFICES ASSUME NEW s \in Following(w), s \notin Following(u)
                 PROVE  s \in Range(u.staged) \/ u.reported
      BY DEF Heard
    <3>1. PICK j \in 1 .. n : s = q[j]
      BY <1>3, <1>4 DEF Range
    <3>2. CASE j < i
      <4>1. PICK l \in Nat : l = i - 1 /\ l <= n
        BY <2>1
      <4>2. 1 \in Nat /\ 1 <= 1 /\ 1 <= l + 1
        OBVIOUS
      <4>3. /\ Len(known) = l - 1 + 1
            /\ \A k \in 1 .. l - 1 + 1 : known[k] = q[1 + k - 1]
        <5>1. known = SubSeq(q, 1, l)
          BY <1>7, <1>19, <4>1
        <5> QED
          BY ONLY <1>3, <1>4, <4>1, <4>2, <5>1, l \in Nat, n \in Nat, Cuts
      <4>4. j \in 1 .. l - 1 + 1 /\ 1 + j - 1 = j /\ j \in 1 .. l /\ l - 1 + 1 = l
        BY <3>2, <4>1, <2>1
      <4>5. DOMAIN known = 1 .. l
        BY <1>15, <4>3, <4>4, LenProperties
      <4>6. s \in Range(known)
        BY <3>1, <4>3, <4>4, <4>5 DEF Range
      <4>7. s \in Range(opened.staged) \/ opened.reported
        BY <1>16, <4>6 DEF OpensEach
      <4>8. Onward(opened, x) /\ Onward(x, u)
        BY <2>10, <2>13 DEF Opens, OpensActive
      <4> QED
        BY <4>7, <4>8 DEF Onward
    <3>3. CASE j = i
      <4>1. s = x.active
        BY <2>8, <3>1, <3>3
      <4>2. u.active = s => s \in Following(u)
        BY <2>12, <4>1, ControllerAssumption DEF Following
      <4> QED
        BY <2>13, <4>1, <4>2 DEF OpensActive
    <3>4. CASE j > i
      <4>1. PICK k \in 1 .. m : j = i + k
        <5>1. j - i \in 1 .. m /\ j = i + (j - i)
          BY <2>1, <2>3, <3>4
        <5> QED
          BY <5>1
      <4>2. DOMAIN rest = 1 .. m
        BY <2>4, LenProperties
      <4>3. s \in Range(rest)
        BY <2>4, <3>1, <4>1, <4>2 DEF Range
      <4>4. u.links = rest
        BY <2>8, <2>13 DEF OpensActive
      <4> QED
        BY <4>3, <4>4 DEF Following
    <3> QED
      BY <2>1, <3>2, <3>3, <3>4
  <2> QED
    BY <2>14, <2>15, <2>16
<1> QED
  BY <1>18, <1>19

-----------------------------------------------------------------------------
(* Events of the workspace and of the user.                                 *)
StageOK(w) == Whole(w) /\ Unopened(w)

\* The stage as it is, but for what is said of the step and what the runtime
\* does to its commands, and for what the catalog's authority is.
Same(w, u) ==
  /\ Beneath(w, u) /\ u.running = w.running /\ u.waiting = w.waiting
  /\ DOMAIN u.catalog = {"state", "sessions"} /\ u.catalog.sessions = w.catalog.sessions
  /\ u.catalog.state \in {"Loading", "Loaded", "Failed"}
  /\ u.staged = w.staged /\ u.selected = w.selected /\ u.focus = w.focus
  /\ u.viewport = w.viewport /\ u.tiling = w.tiling
  /\ u.active = w.active /\ u.links = w.links /\ u.pending = w.pending

\* A step that leaves the stage alone leaves it whole.
LEMMA SameWhole ==
  ASSUME NEW w, Whole(w), NEW u, Same(w, u)
  PROVE  Whole(u) /\ (Unopened(w) => Unopened(u))
<1>1. Surface(u, {}, {}, {}) /\ BoundSet(u) = BoundSet(w)
  BY StaysListed DEF Whole, Set, Same
<1>2. HostOK(u)
  BY DEF Whole, Set, HostOK, Same, Beneath
<1>3. Desk(u) /\ Tiled(u)
  BY <1>1 DEF Whole, Set, Same, Desk, DeskTyped, Laid, Chosen, Tiled
<1>4. SameCatalog(w, u)
  BY CatalogListed DEF Same
<1>5. Retained(u)
  BY <1>4 DEF Whole, Set, Same, Retained, SameCatalog
<1>6. LinksOK(u)
  BY DEF Whole, LinksOK, Same
<1>7. Unopened(w) => Unopened(u)
  BY <1>4 DEF Unopened, Same, SameCatalog
<1> QED
  BY <1>1, <1>2, <1>3, <1>5, <1>6, <1>7 DEF Whole, Set

\* No tile that stays was made.
Keeps(w, u) == \A s \in Range(w.staged) \cap Range(u.staged) : s \notin u.made

\* No link is lost without a word.
Voices(w, u) ==
  \A s \in Following(w) \ Following(u) :
    \/ s \in Range(u.staged)
    \/ u.reported
    \/ u.catalog.state # "Loaded" /\ u.catalog.sessions = <<>>
    \/ s = w.active /\ u.active # None /\ u.links = w.links

Good(w, u) == StageOK(u) /\ Keeps(w, u) /\ Voices(w, u)

\* The same links are followed.
LEMMA FollowsOn ==
  ASSUME NEW w, NEW u, u.active = w.active, u.links = w.links
  PROVE  Following(u) = Following(w) /\ Voices(w, u)
BY DEF Following, Voices

\* A step that leaves the stage alone is good.
LEMMA SameGood ==
  ASSUME NEW w, StageOK(w), w.made = {}, NEW u, Same(w, u), u.made = w.made
  PROVE  Good(w, u)
BY SameWhole, FollowsOn DEF Good, StageOK, Keeps, Same

\* More may have been staged.
LEMMA OpensGood ==
  ASSUME NEW w, w.made = {}, NEW u, Opens(w, u), Unopened(u), Voices(w, u)
  PROVE  Good(w, u)
BY DEF Opens, Onward, Good, StageOK, Keeps

\* A handler of the surfaces ran.
LEMMA ServesWhole ==
  ASSUME NEW w, Whole(w), NEW u, Serves(w, u)
  PROVE  Whole(u) /\ (Unopened(w) => Unopened(u))
<1>1. DOMAIN u = Names
  BY DEF Serves, Surface, Formed
<1>2. HostOK(u)
  BY <1>1, HostKept DEF Whole, Set, Serves
<1>3. Desk(u) /\ Tiled(u)
  BY DEF Whole, Set, Serves, Host, Desk, DeskTyped, Laid, Chosen, Tiled
<1>4. SameCatalog(w, u)
  BY CatalogKept DEF Serves, Host
<1>5. Retained(u)
  BY <1>4 DEF Whole, Set, Serves, Host, Retained, SameCatalog
<1>6. LinksOK(u)
  BY DEF Whole, LinksOK, Serves, Host
<1>7. Unopened(w) => Unopened(u)
  BY <1>4 DEF Unopened, Serves, Host, SameCatalog
<1> QED
  BY <1>2, <1>3, <1>5, <1>6, <1>7 DEF Whole, Set, Serves

\* A step of the surfaces is good.
LEMMA ServesGood ==
  ASSUME NEW w, StageOK(w), w.made = {}, NEW u, Serves(w, u)
  PROVE  Good(w, u)
<1>1. u.made = {} /\ u.active = w.active /\ u.links = w.links
  BY DEF Serves, Host
<1> QED
  BY <1>1, ServesWhole, FollowsOn DEF Good, StageOK, Keeps

\* The stage was drawn again.
LEMMA RedrawnGood ==
  ASSUME NEW w, StageOK(w), w.made = {}, NEW u, Redrawn(w, u), Chosen(u)
  PROVE  Good(w, u)
<1>1. Surface(u, {}, {}, {}) /\ BoundSet(u) = BoundSet(w) /\ Below(w, u)
  BY RedrawnIs DEF StageOK, Whole, Set
<1>2. HostOK(u) /\ SameCatalog(w, u)
  BY <1>1, BelowCatalog DEF StageOK, Whole, Set
<1>3. u.staged = w.staged /\ u.made = {} /\ u.active = w.active /\ u.links = w.links
  BY DEF Redrawn, Apart
<1>4. Desk(u) /\ Tiled(u)
  BY <1>1, <1>3 DEF StageOK, Whole, Set, Redrawn, Desk, Tiled
<1>5. Retained(u)
  BY <1>1, <1>3, RetainedStays DEF StageOK, Whole, Set
<1>6. LinksOK(u)
  BY DEF StageOK, Whole, LinksOK, Redrawn, Apart
<1>7. Unopened(u)
  BY <1>2, <1>3 DEF StageOK, Unopened, SameCatalog
<1> QED
  BY <1>1, <1>2, <1>3, <1>4, <1>5, <1>6, <1>7, FollowsOn DEF Good, StageOK, Whole, Set, Keeps

-----------------------------------------------------------------------------
(* The user *)
LEMMA ActivateGood ==
  ASSUME NEW w, StageOK(w), w.made = {}, NEW s \in Session, NEW u, u = Activate(w, s)
  PROVE  Good(w, u)
<1>1. Activated(w, u, s)
  BY Activates DEF StageOK
<1>2. Opens(w, u) /\ u.links = w.links /\ u.catalog = w.catalog
  BY <1>1 DEF Activated, Opens, Onward
<1>3. \A t : Known(u, t) <=> Known(w, t)
  BY <1>2 DEF Known
<1>4. Unopened(u)
  BY <1>1, <1>3 DEF Activated, StageOK, Unopened
<1>5. Voices(w, u)
  <2> SUFFICES ASSUME NEW t \in Following(w), t \notin Following(u)
               PROVE  u.reported \/ (t = w.active /\ u.active # None)
    BY <1>2 DEF Voices
  <2>1. t = w.active /\ u.active # w.active
    BY <1>2 DEF Following
  <2> QED
    BY <1>1, <2>1, ControllerAssumption DEF Activated
<1> QED
  BY <1>2, <1>4, <1>5, OpensGood

\* Minimizing a tile is good.
LEMMA MinimizeGood ==
  ASSUME NEW w, StageOK(w), w.made = {}, NEW s \in Range(w.staged), NEW u, u = Minimize(w, s)
  PROVE  Good(w, u)
<1>1. PICK x : x = UnstageSession(w, s)
  OBVIOUS
<1>2. u = [x EXCEPT !.active = IF @ = s THEN None ELSE @,
                    !.pending = @ \ {Request("openRemote", s)}]
  BY <1>1 DEF Minimize
<1>3. Unstages(w, x, s)
  BY <1>1, UnstagesOne DEF StageOK, Whole, Set
<1>4. HostOK(w) /\ Tiled(w) /\ Retained(w) /\ LinksOK(w) /\ Unopened(w)
  BY DEF StageOK, Whole, Set
<1>5. DOMAIN x = Names /\ HostOK(x) /\ SameCatalog(w, x)
  BY <1>3, <1>4, BelowCatalog DEF Unstages, HostOK
<1>6. x.active = w.active /\ x.links = w.links /\ x.pending = w.pending
  BY <1>3 DEF Unstages, Below, Apart
<1>7. w.active # s
  <2>1. Known(w, s)
    BY <1>4, KnownIs DEF Retained
  <2>2. s # None
    BY ControllerAssumption, RangeDistinct DEF StageOK, Whole, Set, Desk, DeskTyped
  <2> QED
    BY <1>4, <2>1, <2>2 DEF Unopened
<1>8. /\ LinksOnly(x, u) /\ u.active = x.active /\ u.links = x.links
      /\ u.pending = x.pending \ {Request("openRemote", s)} /\ u.reported = x.reported
  BY <1>2, <1>5, <1>6, <1>7 DEF Names, LinksOnly, Aside, Beneath
<1>9. Set(x)
  <2>1. Tiled(x)
    BY <1>3, <1>4 DEF Unstages, Tiled
  <2>2. Retained(x)
    BY <1>3, <1>4, <1>5 DEF Unstages, Retained, SameCatalog
  <2> QED
    BY <1>3, <1>5, <2>1, <2>2 DEF Unstages, Set
<1>10. LinksOK(u)
  <2>1. u.pending \subseteq w.pending
    BY <1>6, <1>8
  <2>2. IsFiniteSet(u.pending) /\ Cardinality(u.pending) <= Cardinality(w.pending)
        /\ Cardinality(w.pending) \in Nat /\ Cardinality(u.pending) \in Nat
    BY <1>4, <2>1, FS_Subset, FS_CardinalityType DEF LinksOK
  <2> QED
    BY <1>4, <1>6, <1>8, <2>1, <2>2, LinksAssumption DEF LinksOK
<1>11. Set(u)
  BY <1>8, <1>9, SetLinks
<1>12. u.made = {} /\ u.active = w.active /\ u.links = w.links /\ u.catalog = x.catalog
  BY <1>3, <1>6, <1>8 DEF Unstages, LinksOnly, Aside
<1>13. Unopened(u)
  BY <1>4, <1>5, <1>12 DEF Unopened, SameCatalog, Known
<1> QED
  BY <1>10, <1>11, <1>12, <1>13, FollowsOn DEF Good, StageOK, Whole, Keeps

\* Selecting a tile is good.
LEMMA SelectGood ==
  ASSUME NEW w, StageOK(w), w.made = {}, NEW s \in Range(w.staged), NEW u, u = StageSession(w, s)
  PROVE  Good(w, u)
BY StagesAgain, RedrawnGood DEF StageOK, Whole, Set, HostOK

\* Entering or leaving the focus mode is good.
LEMMA FocusGood ==
  ASSUME NEW w, StageOK(w), w.made = {}, NEW u, u = ToggleFocus(w)
  PROVE  Good(w, u)
<1>1. DOMAIN w = Names /\ Desk(w)
  BY DEF StageOK, Whole, Set, HostOK
<1>2. Redrawn(w, u) /\ u.selected = w.selected /\ (u.focus => w.selected # None)
  BY <1>1, TogglesFocus DEF Desk
<1>3. Chosen(u)
  BY <1>1, <1>2 DEF Redrawn, Desk, Chosen
<1> QED
  BY <1>2, <1>3, RedrawnGood

\* Another viewport is good.
LEMMA ResizeGood ==
  ASSUME NEW w, StageOK(w), w.made = {}, NEW viewport \in Viewport,
         NEW x, x = [w EXCEPT !.viewport = viewport], NEW u, u = Rebuild(x)
  PROVE  Good(w, u)
<1>1. DOMAIN w = Names /\ Desk(w)
  BY DEF StageOK, Whole, Set, HostOK
<1>2. Redrawn(w, u) /\ u.selected = w.selected /\ u.focus = w.focus
  BY <1>1, Resizes DEF Desk
<1>3. Chosen(u)
  BY <1>1, <1>2 DEF Redrawn, Desk, Chosen
<1> QED
  BY <1>2, <1>3, RedrawnGood

\* Moving a divider is good.
LEMMA MoveGood ==
  ASSUME NEW w, StageOK(w), w.made = {}, NEW id,
         NEW x, x = [w EXCEPT !.tiling.moved = @ \cup {id}], NEW u, u = Rebuild(x)
  PROVE  Good(w, u)
<1>1. DOMAIN w = Names /\ Desk(w)
  BY DEF StageOK, Whole, Set, HostOK
<1>2. Redrawn(w, u) /\ u.selected = w.selected /\ u.focus = w.focus
  BY <1>1, MovesDividers DEF Desk
<1>3. Chosen(u)
  BY <1>1, <1>2 DEF Redrawn, Desk, Chosen
<1> QED
  BY <1>2, <1>3, RedrawnGood

\* Sending a request is good.
LEMMA SendGood ==
  ASSUME NEW w, StageOK(w), w.made = {}, NEW op \in {"openRemote", "create", "close"},
         NEW s \in Session, NEW u, u = SendTracked(w, op, s)
  PROVE  Good(w, u)
<1>1. Asks(w, u)
  BY Sending DEF StageOK, Whole, Set, HostOK
<1>2. Opens(w, u) /\ u.active = w.active /\ u.links = w.links /\ u.catalog = w.catalog
  BY <1>1, OpensLinks DEF Asks, LinksOnly, Aside, StageOK, Whole
<1>3. Unopened(u)
  BY <1>2 DEF StageOK, Unopened, Known
<1> QED
  BY <1>2, <1>3, FollowsOn, OpensGood

-----------------------------------------------------------------------------
(* Links and requests *)
LEMMA ReportedSame ==
  ASSUME NEW w, HostOK(w), NEW u, u = Reported(w)
  PROVE  Same(w, u) /\ u.made = w.made /\ u.reported = TRUE /\ u.signedIn = w.signedIn
BY DEF Reported, HostOK, Names, Same, Beneath

\* Setting an error is good.
LEMMA ReportedGood ==
  ASSUME NEW w, StageOK(w), w.made = {}, NEW u, u = Reported(w)
  PROVE  Good(w, u)
BY ReportedSame, SameGood DEF StageOK, Whole, Set

\* The catalog is asked for anew.
Refreshes(w, u) ==
  Same(w, u) /\ u.made = w.made /\ u.catalog.state # "Loaded" /\ u.signedIn = w.signedIn

\* refresh gives the catalog's authority up and leaves the stage alone.
LEMMA RefreshIs ==
  ASSUME NEW w, HostOK(w), NEW u, u = Refresh(w)
  PROVE  Refreshes(w, u)
<1>1. CASE Sends(w)
  <2>1. u = [w EXCEPT !.catalog.state = "Loading"]
    BY <1>1 DEF Refresh
  <2> QED
    BY <2>1 DEF HostOK, Names, Refreshes, Same, Beneath
<1>2. CASE ~Sends(w)
  <2>1. PICK x : x = [w EXCEPT !.catalog.state = "Failed"]
    OBVIOUS
  <2>2. u = Unsent(x)
    BY <1>2, <2>1 DEF Refresh
  <2>3. Refreshes(w, x) /\ HostOK(x)
    BY <2>1 DEF HostOK, Names, Refreshes, Same, Beneath
  <2>4. LinksOnly(x, u) /\ u.active = x.active /\ u.links = x.links /\ u.pending = x.pending
    BY <2>2, <2>3, UnsentIs DEF HostOK
  <2> QED
    BY <2>3, <2>4 DEF Refreshes, Same, LinksOnly, Aside, Beneath
<1> QED
  BY <1>1, <1>2

\* Asking for the catalog anew is good.
LEMMA RefreshGood ==
  ASSUME NEW w, StageOK(w), w.made = {}, NEW u, u = Refresh(w)
  PROVE  Good(w, u)
BY RefreshIs, SameGood DEF Refreshes, StageOK, Whole, Set

\* A snapshot that cannot be read is good: nothing is staged or lost.
LEMMA InvalidGood ==
  ASSUME NEW w, StageOK(w), w.made = {}, NEW u, u = ApplyInvalidSnapshot(w)
  PROVE  Good(w, u)
<1>1. PICK x : x = [w EXCEPT !.catalog.state = "Failed"]
  OBVIOUS
<1>2. u = Reported(x)
  BY <1>1 DEF ApplyInvalidSnapshot
<1>3. Same(w, x) /\ x.made = w.made /\ HostOK(x)
  BY <1>1 DEF StageOK, Whole, Set, HostOK, Names, Same, Beneath
<1>4. Same(x, u) /\ u.made = x.made
  BY <1>2, <1>3, ReportedSame
<1>5. Same(w, u) /\ u.made = w.made
  BY <1>3, <1>4 DEF Same, Beneath
<1> QED
  BY <1>5, SameGood

\* The sign-in goes on.
LEMMA AuthStepGood ==
  ASSUME NEW w, StageOK(w), w.made = {}, NEW u, u = [w EXCEPT !.finalizing = ~@]
  PROVE  Good(w, u)
<1>1. Same(w, u) /\ u.made = w.made
  BY DEF StageOK, Whole, Set, HostOK, Names, Same, Beneath
<1> QED
  BY <1>1, SameGood

\* From w the links are opened that follow, x with them.
LEMMA PendingGood ==
  ASSUME NEW w, w.made = {}, NEW x, Opens(w, x), Following(w) \subseteq Following(x),
         NEW u, u = ActivatePendingLink(x)
  PROVE  Good(w, u)
<1>1. Opens(x, u) /\ Unopened(u) /\ Heard(x, u)
  BY ActivatesPending DEF Opens
<1>2. Opens(w, u)
  BY <1>1, OpensOn
<1>3. Voices(w, u)
  BY <1>1 DEF Heard, Voices
<1> QED
  BY <1>1, <1>2, <1>3, OpensGood

\* A deep link routed is good: it is followed, opened or refused with an error.
LEMMA RouteGood ==
  ASSUME NEW w, StageOK(w), w.made = {}, NEW s \in Session, NEW u, u = Route(w, s)
  PROVE  Good(w, u)
<1>1. DOMAIN w = Names /\ LinksOK(w) /\ Set(w)
  BY DEF StageOK, Whole, Set, HostOK
<1>2. CASE w.active = s \/ s \in Range(w.links)
  <2>1. u = w
    BY <1>2 DEF Route
  <2> QED
    BY <2>1, FollowsOn DEF Good, Keeps
<1>3. CASE ~(w.active = s \/ s \in Range(w.links)) /\ Len(w.links) >= MaxLinks
  <2>1. u = Reported(w)
    BY <1>3 DEF Route
  <2> QED
    BY <2>1, ReportedGood
<1>4. CASE ~(w.active = s \/ s \in Range(w.links)) /\ ~(Len(w.links) >= MaxLinks)
  <2>1. PICK x : x = [w EXCEPT !.links = Append(@, s)]
    OBVIOUS
  <2>2. u = ActivatePendingLink(x)
    BY <1>4, <2>1 DEF Route
  <2>3. /\ LinksOnly(w, x) /\ x.links = Append(w.links, s) /\ x.active = w.active
        /\ x.pending = w.pending /\ x.reported = w.reported
    BY <1>1, <2>1 DEF Names, LinksOnly, Aside, Beneath
  <2>4. PICK n \in Nat : Len(w.links) = n /\ DOMAIN w.links = 1 .. n
    BY <1>1, LenProperties DEF LinksOK
  <2>5. /\ x.links \in Seq(Session) /\ Len(x.links) = n + 1 /\ DOMAIN x.links = 1 .. n + 1
        /\ \A i \in 1 .. n : x.links[i] = w.links[i]
    BY <1>1, <2>3, <2>4, AppendProperties DEF LinksOK
  <2>6. LinksOK(x)
    <3>1. n + 1 <= MaxLinks
      BY <1>4, <2>4, LinksAssumption
    <3> QED
      BY <1>1, <2>3, <2>5, <3>1 DEF LinksOK
  <2>7. Range(w.links) \subseteq Range(x.links)
    BY <2>4, <2>5 DEF Range
  <2>8. Opens(w, x) /\ Following(w) \subseteq Following(x)
    BY <1>1, <2>3, <2>6, <2>7, OpensLinks DEF Following
  <2> QED
    BY <2>2, <2>8, PendingGood
<1> QED
  BY <1>2, <1>3, <1>4

\* Requests are taken off, and the active link may be.
Relieved(w, T, a) == [w EXCEPT !.pending = @ \ T, !.active = a]
Relieves(w, u, T, a) ==
  /\ LinksOnly(w, u) /\ LinksOK(u) /\ Opens(w, u) /\ u.active = a /\ u.links = w.links
  /\ u.reported = w.reported /\ u.pending = w.pending \ T /\ u.catalog = w.catalog

\* Requests and the active link taken off leave the whole in order.
LEMMA TakenOffGood ==
  ASSUME NEW w, Whole(w), NEW T, NEW a \in Session \cup {None}, NEW u, u = Relieved(w, T, a)
  PROVE  Relieves(w, u, T, a)
<1>1. DOMAIN w = Names /\ LinksOK(w) /\ Set(w)
  BY DEF Whole, Set, HostOK
<1>2. /\ LinksOnly(w, u) /\ u.active = a /\ u.links = w.links
      /\ u.reported = w.reported /\ u.pending = w.pending \ T
  BY <1>1 DEF Relieved, Names, LinksOnly, Aside, Beneath
<1>3. LinksOK(u)
  <2>1. u.pending \subseteq w.pending
    BY <1>2
  <2>2. IsFiniteSet(u.pending) /\ Cardinality(u.pending) <= Cardinality(w.pending)
        /\ Cardinality(w.pending) \in Nat /\ Cardinality(u.pending) \in Nat
    BY <1>1, <2>1, FS_Subset, FS_CardinalityType DEF LinksOK
  <2> QED
    BY <1>1, <1>2, <2>1, <2>2, LinksAssumption DEF LinksOK
<1> QED
  BY <1>1, <1>2, <1>3, OpensLinks DEF Relieves, LinksOnly, Aside

\* The result of a request is good: the link it was for is opened or fails with an error.
LEMMA ResultGood ==
  ASSUME NEW w, StageOK(w), w.made = {}, NEW p \in w.pending, NEW u, u = ApplyResult(w, p)
  PROVE  Good(w, u)
<1>1. DOMAIN w = Names /\ LinksOK(w) /\ Whole(w)
  BY DEF StageOK, Whole, Set, HostOK
<1>2. p.session \in Session
  BY <1>1 DEF LinksOK
<1>3. PICK x : x = [w EXCEPT !.pending = @ \ {p}]
  OBVIOUS
<1>4. x = Relieved(w, {p}, w.active)
  BY <1>1, <1>3 DEF Names, Relieved
<1>5. /\ Opens(w, x) /\ x.active = w.active /\ x.links = w.links /\ LinksOnly(w, x)
  BY <1>1, <1>4, TakenOffGood DEF LinksOK, Relieves
<1>6. StageOK(x) /\ x.made = {} /\ x.staged = w.staged /\ x.catalog = w.catalog
  BY <1>5 DEF Opens, StageOK, Unopened, LinksOnly, Aside, Known
<1>7. CASE p.op # "create"
  <2>1. u = x
    BY <1>3, <1>7 DEF ApplyResult
  <2> QED
    BY <1>5, <1>6, <2>1, FollowsOn DEF Good, Keeps
<1>8. CASE p.op = "create" /\ Known(w, p.session)
  <2>1. u = Activate(x, p.session)
    BY <1>3, <1>8 DEF ApplyResult
  <2>2. Good(x, u)
    BY <1>2, <1>6, <2>1, ActivateGood
  <2> QED
    BY <1>5, <1>6, <2>2 DEF Good, Keeps, Voices, Following
<1>9. CASE p.op = "create" /\ ~Known(w, p.session)
  <2>1. u = [x EXCEPT !.active = p.session]
    BY <1>3, <1>9 DEF ApplyResult
  <2>2. u = Relieved(w, {p}, p.session)
    BY <1>1, <1>3, <2>1 DEF Names, Relieved
  <2>3. Opens(w, u) /\ u.active = p.session /\ u.links = w.links /\ LinksOnly(w, u)
    BY <1>1, <1>2, <2>2, TakenOffGood DEF Relieves
  <2>4. Unopened(u)
    BY <1>9, <2>3 DEF Unopened, LinksOnly, Aside, Known
  <2>5. Voices(w, u)
    BY <1>2, <2>3, ControllerAssumption DEF Voices, Following
  <2> QED
    BY <2>3, <2>4, <2>5, OpensGood
<1> QED
  BY <1>7, <1>8, <1>9

\* Where an error is set, no link goes without a word.
LEMMA SaidGood ==
  ASSUME NEW w, w.made = {}, NEW u, Opens(w, u), Unopened(u), u.reported
  PROVE  Good(w, u)
BY OpensGood DEF Voices

\* A request that failed is taken off with an error, and its link with it.
LEMMA WithdrawnIs ==
  ASSUME NEW w, Whole(w), NEW p, NEW u, u = Withdrawn(w, p)
  PROVE  Opens(w, u) /\ u.reported /\ (Unopened(w) => Unopened(u))
<1>1. DOMAIN w = Names /\ LinksOK(w)
  BY DEF Whole, Set, HostOK
<1>2. PICK x : x = [w EXCEPT !.pending = @ \ {p}]
  OBVIOUS
<1>3. x = Relieved(w, {p}, w.active)
  BY <1>1, <1>2 DEF Names, Relieved
<1>4. Opens(w, x) /\ x.active = w.active /\ x.catalog = w.catalog
  BY <1>1, <1>3, TakenOffGood DEF LinksOK, Relieves
<1>5. u = Reported(x)
  BY <1>2 DEF Withdrawn
<1>6. /\ LinksOnly(x, u) /\ u.active = x.active /\ u.links = x.links /\ u.pending = x.pending
      /\ u.reported = TRUE
  BY <1>4, <1>5, ReportedIs DEF Opens, Onward
<1>7. LinksOK(u) /\ Set(x)
  BY <1>4, <1>6 DEF Opens, Whole, LinksOK
<1>8. Opens(x, u)
  BY <1>6, <1>7, OpensLinks
<1> QED
  BY <1>4, <1>6, <1>8, OpensOn DEF Unopened, LinksOnly, Aside, Known

\* The error of a request is good.
LEMMA ErrorGood ==
  ASSUME NEW w, StageOK(w), w.made = {}, NEW p, NEW u, u = ApplyError(w, p)
  PROVE  Good(w, u)
<1>1. DOMAIN w = Names /\ LinksOK(w) /\ Whole(w)
  BY DEF StageOK, Whole, Set, HostOK
<1>2. CASE p.op = "openRemote" /\ w.active = p.session
  <2>1. PICK x : x = [w EXCEPT !.active = None]
    OBVIOUS
  <2>2. x = Relieved(w, {}, None)
    BY <1>1, <2>1 DEF Names, Relieved
  <2>3. Opens(w, x)
    BY <1>1, <2>2, TakenOffGood DEF Relieves
  <2>4. PICK y : y = ActivatePendingLink(x)
    OBVIOUS
  <2>5. Opens(x, y) /\ Unopened(y)
    BY <2>3, <2>4, ActivatesPending DEF Opens
  <2>6. u = Withdrawn(y, p)
    BY <1>2, <2>1, <2>4 DEF ApplyError
  <2>7. Opens(y, u) /\ u.reported /\ Unopened(u)
    BY <2>5, <2>6, WithdrawnIs DEF Opens
  <2>8. Opens(w, u)
    BY <2>3, <2>5, <2>7, OpensOn
  <2> QED
    BY <2>7, <2>8, SaidGood
<1>3. CASE ~(p.op = "openRemote" /\ w.active = p.session)
  <2>1. u = Withdrawn(w, p)
    BY <1>3 DEF ApplyError
  <2>2. Opens(w, u) /\ u.reported /\ Unopened(u)
    BY <1>1, <2>1, WithdrawnIs DEF StageOK
  <2> QED
    BY <2>2, SaidGood
<1> QED
  BY <1>2, <1>3

\* A request that expired is good.
LEMMA ExpireGood ==
  ASSUME NEW w, StageOK(w), w.made = {}, NEW p, NEW u, u = Expire(w, p)
  PROVE  Good(w, u)
<1>1. DOMAIN w = Names /\ LinksOK(w) /\ Whole(w)
  BY DEF StageOK, Whole, Set, HostOK
<1>2. PICK a : a = IF p.op = "openRemote" /\ w.active = p.session THEN None ELSE w.active
  OBVIOUS
<1>3. a \in Session \cup {None}
  BY <1>1, <1>2 DEF LinksOK
<1>4. PICK x : x = Relieved(w, {p}, a)
  OBVIOUS
<1>5. PICK y : y = ActivatePendingLink(x)
  OBVIOUS
<1>6. u = Reported(y)
  <2>1. x = [w EXCEPT !.active = IF p.op = "openRemote" /\ @ = p.session THEN None ELSE @,
                      !.pending = @ \ {p}]
    BY <1>1, <1>2, <1>4 DEF Names, Relieved
  <2> QED
    BY <1>5, <2>1 DEF Expire
<1>7. Opens(w, x)
  BY <1>1, <1>3, <1>4, TakenOffGood DEF Relieves
<1>8. Opens(x, y) /\ Unopened(y)
  BY <1>5, <1>7, ActivatesPending DEF Opens
<1>9. /\ LinksOnly(y, u) /\ u.active = y.active /\ u.links = y.links /\ u.pending = y.pending
      /\ u.reported = TRUE
  BY <1>6, <1>8, ReportedIs DEF Opens, Onward
<1>10. LinksOK(u) /\ Set(y)
  BY <1>8, <1>9 DEF Opens, Whole, LinksOK
<1>11. Opens(w, u)
  BY <1>7, <1>8, <1>9, <1>10, OpensLinks, OpensOn
<1>12. Unopened(u)
  BY <1>8, <1>9 DEF Unopened, LinksOnly, Aside, Known
<1> QED
  BY <1>9, <1>11, <1>12, SaidGood

-----------------------------------------------------------------------------
(* The account *)
LEMMA RangeOfNone == Range(<<>>) = {}
<1>1. DOMAIN <<>> = {}
  OBVIOUS
<1> QED
  BY <1>1 DEF Range

\* The account's data goes: nothing is staged, nothing is listed.
Forgets(w, u) ==
  /\ Whole(u) /\ u.staged = <<>> /\ u.catalog.sessions = <<>> /\ u.catalog.state = "Loading"
  /\ u.made = w.made

\* clearAccountData leaves nothing staged and nothing listed.
LEMMA ClearsAccount ==
  ASSUME NEW w, Surface(w, {}, {}, {}), DeskTyped(w), Laid(w), Tiled(w), LinksOK(w),
         DOMAIN w.catalog = {"state", "sessions"}, w.catalog.state \in {"Loading", "Loaded", "Failed"},
         w.running \in BOOLEAN, NEW u, u = ClearAccountData(w)
  PROVE  Forgets(w, u)
<1>1. DOMAIN w = Names
  BY DEF Surface, Formed
<1>2. PICK a : a = IF w.signedIn THEN None ELSE w.active
  OBVIOUS
<1>3. PICK l : l = IF w.signedIn THEN <<>> ELSE w.links
  OBVIOUS
<1>4. PICK f : f = [w EXCEPT !.pending = {}, !.active = a, !.links = l]
  OBVIOUS
<1>5. PICK c : c = ClearSessions(f)
  OBVIOUS
<1>6. PICK d : d = [c EXCEPT !.catalog.sessions = <<>>]
  OBVIOUS
<1>7. PICK e : e = Reconcile(d)
  OBVIOUS
<1>8. u = [e EXCEPT !.catalog.state = "Loading"]
  <2>1. f = [w EXCEPT !.pending = {},
                      !.active = IF w.signedIn THEN None ELSE @,
                      !.links = IF w.signedIn THEN <<>> ELSE @]
    BY <1>1, <1>2, <1>3, <1>4 DEF Names
  <2> QED
    BY <1>5, <1>6, <1>7, <2>1 DEF ClearAccountData, ResetAuthority
<1>9. /\ LinksOnly(w, f) /\ f.pending = {} /\ f.active = a /\ f.links = l
  BY <1>1, <1>4 DEF Names, LinksOnly, Aside, Beneath
<1>10. LinksOK(f)
  <2>1. <<>> \in Seq(Session) /\ Len(<<>>) = 0
    OBVIOUS
  <2>2. IsFiniteSet({}) /\ Cardinality({}) = 0
    BY FS_EmptySet
  <2>3. a \in Session \cup {None} /\ l \in Seq(Session) /\ Len(l) <= MaxLinks
    BY <1>2, <1>3, <2>1, LinksAssumption DEF LinksOK
  <2> QED
    BY <1>9, <2>2, <2>3, LinksAssumption DEF LinksOK
<1>11. Surface(f, {}, {}, {}) /\ BoundSet(f) = BoundSet(w) /\ DeskTyped(f) /\ Laid(f)
  BY <1>9, StaysAside DEF LinksOnly, DeskTyped, Laid
<1>12. /\ Surface(c, {}, {}, {}) /\ Desk(c) /\ Below(f, c) /\ c.made = f.made
       /\ c.staged = <<>> /\ BoundSet(c) = BoundSet(f) \ Range(f.staged)
  BY <1>5, <1>11, ClearsAll
<1>13. BoundSet(c) \cap Session = {}
  BY <1>9, <1>11, <1>12 DEF LinksOnly, Tiled
<1>14. /\ DOMAIN c = Names /\ c.running = w.running /\ c.catalog = w.catalog /\ c.waiting \in BOOLEAN
       /\ c.made = w.made
  BY <1>9, <1>12 DEF Surface, Formed, SurfaceTyped, Below, LinksOnly, Aside
<1>15. /\ Beneath(c, d) /\ d.running = c.running /\ d.waiting = c.waiting
       /\ DOMAIN d.catalog = {"state", "sessions"} /\ d.catalog.sessions = <<>>
       /\ d.catalog.state = w.catalog.state
       /\ d.staged = <<>> /\ d.selected = c.selected /\ d.focus = c.focus
       /\ d.viewport = c.viewport /\ d.tiling = c.tiling /\ d.made = c.made
       /\ d.pending = c.pending /\ d.active = c.active /\ d.links = c.links
  BY <1>6, <1>12, <1>14 DEF Names, Beneath
<1>16. Surface(d, {}, View, {}) /\ BoundSet(d) = BoundSet(c)
  BY <1>12, <1>14, <1>15, Recatalogs
<1>17. HostOK(d)
  BY <1>14, <1>15 DEF Beneath, HostOK, Listed
<1>18. Surface(e, {}, {}, {}) /\ Host(d, e) /\ BoundSet(e) \subseteq BoundSet(d)
  BY <1>7, <1>16, <1>17, Reconciles DEF Retains, Idles
<1>19. DOMAIN e = Names
  BY <1>18 DEF Surface, Formed
<1>20. HostOK(e)
  BY <1>17, <1>18, <1>19, HostKept
<1>21. Desk(e) /\ Tiled(e) /\ Retained(e)
  <2>1. e.staged = <<>> /\ Range(e.staged) = {}
    BY <1>15, <1>18, RangeOfNone DEF Host
  <2>2. Desk(e)
    BY <1>12, <1>15, <1>18, <2>1 DEF Host, Desk, DeskTyped, Laid, Chosen
  <2>3. BoundSet(e) \cap Session = {}
    BY <1>13, <1>16, <1>18
  <2> QED
    BY <2>1, <2>2, <2>3 DEF Tiled, Retained
<1>22. LinksOK(e)
  BY <1>10, <1>12, <1>15, <1>18 DEF Below, Apart, Host, LinksOK
<1>23. Whole(e)
  BY <1>18, <1>20, <1>21, <1>22 DEF Whole, Set
<1>24. Same(e, u) /\ u.catalog.state = "Loading" /\ u.made = e.made
  BY <1>8, <1>19, <1>20 DEF HostOK, Names, Same, Beneath
<1>25. e.made = w.made /\ e.staged = <<>> /\ e.catalog.sessions = <<>>
  BY <1>14, <1>15, <1>18 DEF Host
<1> QED
  BY <1>23, <1>24, <1>25, SameWhole DEF Forgets, Same

\* The account is renewed, or not, and then the links are tried again.
LEMMA AuthGood ==
  ASSUME NEW w, StageOK(w), w.made = {}, NEW signedIn \in BOOLEAN, NEW renewed \in BOOLEAN,
         NEW u, u = ApplyAuth(w, signedIn, renewed)
  PROVE  Good(w, u)
<1>1. DOMAIN w = Names /\ Whole(w) /\ HostOK(w)
  BY DEF StageOK, Whole, Set, HostOK
<1>2. PICK f : f = [w EXCEPT !.finalizing = FALSE]
  OBVIOUS
<1>3. PICK c : c = IF renewed \/ signedIn # w.signedIn THEN ClearAccountData(f) ELSE f
  OBVIOUS
<1>4. PICK x : x = [c EXCEPT !.signedIn = signedIn]
  OBVIOUS
<1>5. PICK y : y = Refresh(x)
  OBVIOUS
<1>6. u = ActivatePendingLink(y)
  BY <1>2, <1>3, <1>4, <1>5 DEF ApplyAuth
<1>7. Same(w, f) /\ f.made = w.made
  BY <1>1, <1>2 DEF HostOK, Names, Same, Beneath
<1>8. Whole(f)
  BY <1>1, <1>7, SameWhole
<1>9. Whole(c) /\ c.made = {} /\ (c = f \/ (c.staged = <<>> /\ c.catalog.sessions = <<>>))
  <2>1. CASE c = f
    BY <1>7, <1>8, <2>1
  <2>2. CASE c = ClearAccountData(f)
    <3>1. Forgets(f, c)
      BY <1>8, <2>2, ClearsAccount DEF Whole, Set, Desk, HostOK
    <3> QED
      BY <1>7, <3>1 DEF Forgets
  <2> QED
    BY <1>3, <2>1, <2>2
<1>10. Same(c, x) /\ x.made = {}
  BY <1>4, <1>9 DEF Whole, Set, HostOK, Names, Same, Beneath
<1>11. Whole(x)
  BY <1>9, <1>10, SameWhole
<1>12. Refreshes(x, y)
  BY <1>5, <1>11, RefreshIs DEF Whole, Set
<1>13. Whole(y) /\ y.made = {}
  BY <1>10, <1>11, <1>12, SameWhole DEF Refreshes
<1>14. Opens(y, u) /\ Unopened(u) /\ Heard(y, u)
  BY <1>6, <1>13, ActivatesPending
<1>15. y.staged = c.staged /\ y.catalog.sessions = c.catalog.sessions /\ y.catalog.state # "Loaded"
       /\ y.active = c.active /\ y.links = c.links
  BY <1>10, <1>12 DEF Refreshes, Same
<1>16. CASE c = f
  <2>1. Range(w.staged) = Range(y.staged) /\ Following(w) = Following(y)
    BY <1>7, <1>15, <1>16 DEF Same, Following
  <2>2. Keeps(w, u)
    BY <1>13, <1>14, <2>1 DEF Keeps, Opens, Onward
  <2>3. Voices(w, u)
    BY <1>14, <2>1 DEF Heard, Voices
  <2> QED
    BY <1>14, <2>2, <2>3 DEF Good, StageOK, Opens
<1>17. CASE c.staged = <<>> /\ c.catalog.sessions = <<>>
  <2>1. u.catalog.sessions = <<>> /\ u.catalog.state # "Loaded"
    BY <1>14, <1>15, <1>17 DEF Opens, Onward
  <2>2. \A s : ~CanRetain(u, s)
    BY <2>1 DEF CanRetain, Status, Known
  <2>3. Range(u.staged) = {}
    BY <1>14, <2>2 DEF Opens, Whole, Set, Retained
  <2> QED
    BY <1>14, <2>1, <2>3 DEF Good, StageOK, Opens, Keeps, Voices
<1> QED
  BY <1>9, <1>16, <1>17

-----------------------------------------------------------------------------
(* The runtime *)
\* Only whether it runs has changed.
Switched(w, x) ==
  /\ Beneath(w, x) /\ x.waiting = w.waiting /\ x.catalog = w.catalog
  /\ x.staged = w.staged /\ x.selected = w.selected /\ x.focus = w.focus
  /\ x.viewport = w.viewport /\ x.tiling = w.tiling /\ x.made = w.made
  /\ x.pending = w.pending /\ x.active = w.active /\ x.links = w.links
\* The surfaces are put off first.
PutOffAll(w, x, u) ==
  /\ Surface(u, {}, {}, {}) /\ DOMAIN u = Names /\ Host(x, u) /\ Tiled(u)
  /\ u.catalog = w.catalog /\ u.made = w.made /\ u.staged = w.staged
  /\ u.active = w.active /\ u.links = w.links
  /\ Desk(u) /\ LinksOK(u) /\ Retained(u)

\* A change of the runtime puts the surfaces off and leaves the stage as it was.
LEMMA PutOffIs ==
  ASSUME NEW w, StageOK(w), NEW x, Switched(w, x), NEW u, u = RuntimeChanged(x)
  PROVE  PutOffAll(w, x, u)
<1>1. DOMAIN w = Names /\ Whole(w)
  BY DEF StageOK, Whole, Set, HostOK
<1>2. Loose(x) /\ BoundSet(x) = BoundSet(w)
  <2>1. Loose(w) /\ w.waiting \in BOOLEAN
    BY <1>1, SurfaceLoose DEF Whole, Set, Surface, Formed, SurfaceTyped
  <2> QED
    BY <2>1, Loosens DEF Switched
<1>3. Idles(x, u)
  BY <1>2, RuntimeChanges
<1>4. Surface(u, {}, {}, {}) /\ Host(x, u) /\ BoundSet(u) = BoundSet(w) /\ DOMAIN u = Names
  BY <1>2, <1>3 DEF Idles, Surface, Formed
<1>5. Desk(u) /\ LinksOK(u) /\ Tiled(u)
  BY <1>1, <1>4 DEF Switched, Host, Whole, Set, Desk, DeskTyped, Laid, Chosen, LinksOK, Tiled
<1>6. /\ u.catalog = w.catalog /\ u.made = w.made /\ u.staged = w.staged
      /\ u.active = w.active /\ u.links = w.links
  BY <1>4 DEF Switched, Host
<1>7. Retained(u)
  BY <1>1, <1>6, CatalogKept DEF Whole, Set, Retained, SameCatalog
<1> QED
  BY <1>4, <1>5, <1>6, <1>7 DEF PutOffAll

\* The runtime stops: good, what was staged goes with the account's data.
LEMMA StopGood ==
  ASSUME NEW w, StageOK(w), w.made = {}, NEW u, u = RuntimeStops(w)
  PROVE  Good(w, u)
<1>1. PICK x : x = [w EXCEPT !.running = FALSE]
  OBVIOUS
<1>2. PICK y : y = RuntimeChanged(x)
  OBVIOUS
<1>3. PICK z : z = ClearAccountData(y)
  OBVIOUS
<1>4. u = [z EXCEPT !.signedIn = FALSE, !.finalizing = TRUE]
  BY <1>1, <1>2, <1>3 DEF RuntimeStops
<1>5. PutOffAll(w, x, y) /\ y.running = FALSE
  <2>1. Switched(w, x) /\ x.running = FALSE
    BY <1>1 DEF StageOK, Whole, Set, HostOK, Names, Switched, Beneath
  <2> QED
    BY <1>2, <2>1, PutOffIs DEF PutOffAll, Host
<1>6. Forgets(y, z)
  <2>1. /\ DOMAIN y.catalog = {"state", "sessions"}
        /\ y.catalog.state \in {"Loading", "Loaded", "Failed"} /\ y.running \in BOOLEAN
    BY <1>5 DEF StageOK, Whole, Set, HostOK, PutOffAll
  <2> QED
    BY <1>3, <1>5, <2>1, ClearsAccount DEF Desk, PutOffAll
<1>7. Same(z, u) /\ u.made = z.made
  BY <1>4, <1>6 DEF Forgets, Whole, Set, HostOK, Names, Same, Beneath
<1>8. Whole(u) /\ u.staged = <<>> /\ u.catalog.sessions = <<>> /\ u.made = {}
  BY <1>5, <1>6, <1>7, SameWhole DEF Forgets, Same, PutOffAll
<1>9. u.catalog.state # "Loaded"
  <2>1. DOMAIN z = Names /\ z.catalog.state = "Loading"
    BY <1>6 DEF Forgets, Whole, Set, HostOK
  <2>2. u.catalog = z.catalog
    BY <1>4, <2>1 DEF Names
  <2> QED
    BY <2>1, <2>2
<1>10. Unopened(u)
  BY <1>8 DEF Unopened, Known
<1> QED
  BY <1>8, <1>9, <1>10 DEF Good, StageOK, Keeps, Voices

\* The runtime starts: good.
LEMMA StartGood ==
  ASSUME NEW w, StageOK(w), w.made = {}, ~w.running, NEW u, u = RuntimeStarts(w)
  PROVE  Good(w, u)
<1>1. PICK x : x = [w EXCEPT !.running = TRUE]
  OBVIOUS
<1>2. PICK y : y = RuntimeChanged(x)
  OBVIOUS
<1>3. u = Refresh(y)
  BY <1>1, <1>2 DEF RuntimeStarts
<1>4. DOMAIN w = Names /\ HostOK(w)
  BY DEF StageOK, Whole, Set, HostOK
<1>5. PutOffAll(w, x, y) /\ y.running = TRUE
  <2>1. Switched(w, x) /\ x.running = TRUE
    BY <1>1, <1>4 DEF Names, Switched, Beneath
  <2> QED
    BY <1>2, <2>1, PutOffIs DEF PutOffAll, Host
<1>6. HostOK(y)
  BY <1>4, <1>5 DEF HostOK, PutOffAll
<1>7. Unopened(y)
  BY <1>5 DEF StageOK, Unopened, Known, PutOffAll
<1>8. StageOK(y) /\ y.made = {}
  BY <1>5, <1>6, <1>7 DEF StageOK, Whole, Set, PutOffAll
<1>9. Good(y, u)
  BY <1>3, <1>8, RefreshGood
<1> QED
  BY <1>5, <1>9 DEF PutOffAll, Good, Keeps, Voices, Following

-----------------------------------------------------------------------------
(* A snapshot of the catalog *)
LEMMA Listing ==
  ASSUME NEW S, IsFiniteSet(S), NEW q, q = SetToSeq(S)
  PROVE  q \in Seq(S)
<1>1. PICK n \in Nat : n = Cardinality(S)
  BY FS_CardinalityType
<1>2. \E f \in [1 .. n -> S] : IsInjective(f)
  BY <1>1, FS_CardinalityType DEF ExistsBijection, Bijection, Injection
<1>3. q \in [1 .. n -> S]
  BY <1>1, <1>2 DEF SetToSeq
<1> QED
  BY <1>3, SeqDef

\* What the snapshot answers is answered.
Answers(w, u) == Opens(w, u) /\ u.active = w.active /\ u.links = w.links

\* Requests that a snapshot answers are answered, and no link is lost.
LEMMA AnswersIs ==
  ASSUME NEW w, Whole(w), NEW u, u = Answer(w)
  PROVE  Answers(w, u)
<1>1. LinksOK(w) /\ DOMAIN w = Names
  BY DEF Whole, Set, HostOK
<1>2. PICK C : C = {p.session : p \in {p \in Answered(w) : p.op = "create"}}
  OBVIOUS
<1>3. PICK x : x = [w EXCEPT !.pending = @ \ Answered(w)]
  OBVIOUS
<1>4. u = FoldLeft(Activate, x, SetToSeq(C))
  BY <1>2, <1>3 DEF Answer
<1>5. \A s \in C : s \in Session /\ Known(w, s)
  BY <1>1, <1>2 DEF Answered, LinksOK
<1>6. IsFiniteSet(C)
  BY <1>5, FS_Subset, ControllerAssumption
<1>7. PICK q : q = SetToSeq(C)
  OBVIOUS
<1>8. q \in Seq(C)
  BY <1>6, <1>7, Listing
<1>9. q \in Seq(Session) /\ \A s \in Range(q) : Known(w, s)
  <2>1. PICK n \in Nat : DOMAIN q = 1 .. n /\ q \in [1 .. n -> C]
    BY <1>8, SeqDef
  <2>2. q \in [1 .. n -> Session]
    BY <1>5, <2>1
  <2> QED
    BY <1>5, <2>1, <2>2, SeqDef DEF Range
<1>10. x = Relieved(w, Answered(w), w.active)
  BY <1>1, <1>3 DEF Names, Relieved
<1>11. Relieves(w, x, Answered(w), w.active)
  BY <1>1, <1>10, TakenOffGood DEF LinksOK
<1>12. Opens(w, x) /\ x.active = w.active /\ x.links = w.links /\ Whole(x)
  BY <1>11 DEF Relieves, Opens
<1>13. \A s \in Range(q) : Known(x, s)
  BY <1>9, <1>11 DEF Relieves, Known
<1>14. OpensEach(x, u, Range(q))
  BY <1>4, <1>7, <1>9, <1>12, <1>13, OpensKnown
<1> QED
  BY <1>12, <1>14, OpensOn DEF OpensEach, Answers

\* Of the sessions that were staged none was made again, and those that left
\* the catalog lacks or blocks.
Intact(S, u) == u.made \cap S = {} /\ \A s \in S \ Range(u.staged) : ~CanRetain(u, s)

\* What was intact stays so when more is opened.
LEMMA IntactOn ==
  ASSUME NEW S, NEW w, NEW u, Intact(S, w), Opens(w, u)
  PROVE  Intact(S, u)
<1>1. SameCatalog(w, u)
  BY CatalogKept DEF Opens, Onward
<1>2. Retained(u) /\ Range(w.staged) \subseteq Range(u.staged)
      /\ u.made \subseteq w.made \cup (Range(u.staged) \ Range(w.staged))
  BY DEF Opens, Onward, Whole, Set
<1>3. ASSUME NEW s \in S, s \in u.made PROVE FALSE
  <2>1. s \in Range(u.staged) /\ s \notin Range(w.staged)
    BY <1>2, <1>3 DEF Intact
  <2>2. ~CanRetain(w, s) /\ CanRetain(u, s)
    BY <1>2, <2>1 DEF Intact, Retained
  <2> QED
    BY <1>1, <2>2 DEF SameCatalog
<1>4. ASSUME NEW s \in S \ Range(u.staged) PROVE ~CanRetain(u, s)
  BY <1>1, <1>2, <1>4 DEF Intact, SameCatalog
<1> QED
  BY <1>3, <1>4 DEF Intact

\* applySnapshot is good: the bindings are reconciled, the stage keeps what the catalog
\* retains, and the links are opened.
LEMMA SnapshotGood ==
  ASSUME NEW w, StageOK(w), w.made = {}, w.running, NEW sessions, Listed(sessions),
         NEW u, u = ApplySnapshot(w, sessions)
  PROVE  Good(w, u)
<1>1. DOMAIN w = Names /\ Whole(w) /\ HostOK(w)
  BY DEF StageOK, Whole, Set, HostOK
<1>2. PICK k : k = [state |-> "Loaded", sessions |-> sessions]
  OBVIOUS
<1>3. PICK c : c = [w EXCEPT !.catalog = k]
  OBVIOUS
<1>4. PICK x : x = Reconcile(c)
  OBVIOUS
<1>5. PICK y : y = DesktopReconcile(x)
  OBVIOUS
<1>6. PICK z : z = ActivatePendingLink(y)
  OBVIOUS
<1>7. PICK t : t = CatalogSnapshotApplied(z)
  OBVIOUS
<1>8. u = Answer(t)
  BY <1>2, <1>3, <1>4, <1>5, <1>6, <1>7 DEF ApplySnapshot, SnapshotApplied
<1>9. /\ Beneath(w, c) /\ c.running = w.running /\ c.waiting = w.waiting
      /\ c.catalog = k /\ DOMAIN k = {"state", "sessions"} /\ k.sessions = sessions
      /\ k.state = "Loaded"
      /\ c.staged = w.staged /\ c.selected = w.selected /\ c.focus = w.focus
      /\ c.viewport = w.viewport /\ c.tiling = w.tiling /\ c.made = w.made
      /\ c.pending = w.pending /\ c.active = w.active /\ c.links = w.links
  BY <1>1, <1>2, <1>3 DEF Names, Beneath
<1>10. HostOK(c) /\ Authoritative(c)
  BY <1>1, <1>9 DEF Beneath, HostOK, Authoritative
<1>11. Surface(c, {}, View, {}) /\ BoundSet(c) = BoundSet(w)
  <2>1. Surface(w, {}, {}, {}) /\ c.waiting \in BOOLEAN
    BY <1>1, <1>9 DEF Whole, Set, Surface, Formed, SurfaceTyped
  <2> QED
    BY <1>9, <2>1, Recatalogs
<1>12. Retains(c, x)
  BY <1>4, <1>10, <1>11, Reconciles
<1>13. /\ Surface(x, {}, {}, {}) /\ Host(c, x) /\ DOMAIN x = Names
       /\ BoundSet(x) \subseteq BoundSet(w)
       /\ \A v \in BoundSet(w) \cap Session : v \in BoundSet(x) <=> CanRetain(c, v)
  BY <1>11, <1>12 DEF Retains, Surface, Formed
<1>14. HostOK(x) /\ Authoritative(x) /\ SameCatalog(c, x)
  BY <1>10, <1>13, HostKept, CatalogKept DEF Host, Authoritative
<1>15. x.staged = w.staged /\ x.made = {} /\ x.active = w.active /\ x.links = w.links
  BY <1>9, <1>13 DEF Host
<1>16. Desk(x) /\ LinksOK(x)
  BY <1>1, <1>9, <1>13 DEF Host, Whole, Set, Desk, DeskTyped, Laid, Chosen, LinksOK
<1>17. Trimmed(x)
  <2>1. BoundSet(w) \cap Session = Range(w.staged)
    BY <1>1 DEF Whole, Set, Tiled
  <2>2. BoundSet(x) \cap Session = {s \in Range(w.staged) : CanRetain(c, s)}
    BY <1>13, <2>1
  <2> QED
    BY <1>14, <1>15, <2>2 DEF Trimmed, SameCatalog
<1>18. Trims(x, y)
  BY <1>5, <1>13, <1>14, <1>16, <1>17, DesktopReconciles
<1>19. /\ Set(y) /\ y.made = {} /\ Range(y.staged) = {s \in Range(w.staged) : CanRetain(x, s)}
       /\ y.active = w.active /\ y.links = w.links /\ y.pending = x.pending /\ y.catalog = x.catalog
  BY <1>15, <1>18 DEF Trims, Below, Apart
<1>20. Whole(y)
  BY <1>15, <1>16, <1>19 DEF Whole, LinksOK
<1>21. Opens(y, z) /\ Unopened(z) /\ Heard(y, z)
  BY <1>6, <1>20, ActivatesPending
<1>22. Serves(z, t)
  <2>1. HostOK(z) /\ Surface(z, {}, {}, {}) /\ \A v \in BoundSet(z) \cap Session : CanRetain(z, v)
    BY <1>21 DEF Opens, Whole, Set, Tiled, Retained
  <2> QED
    BY <1>7, <2>1, SnapshotServes
<1>23. Whole(t) /\ Unopened(t)
  BY <1>21, <1>22, ServesWhole DEF Opens
<1>24. /\ t.staged = z.staged /\ t.made = z.made /\ t.catalog = z.catalog
       /\ t.active = z.active /\ t.links = z.links /\ t.reported = z.reported
  BY <1>22 DEF Serves, Host
<1>25. Opens(t, u) /\ u.active = t.active /\ u.links = t.links
  BY <1>8, <1>23, AnswersIs DEF Answers
<1>26. Unopened(u)
  BY <1>23, <1>25 DEF Unopened, Opens, Onward, Known
<1>27. Intact(Range(w.staged), y)
  <2>1. SameCatalog(x, y)
    BY <1>19, CatalogKept
  <2> QED
    BY <1>19, <2>1 DEF Intact, SameCatalog
<1>28. Intact(Range(w.staged), z)
  BY <1>21, <1>27, IntactOn
<1>29. Intact(Range(w.staged), t)
  BY <1>24, <1>28, CatalogKept DEF Intact, SameCatalog
<1>30. Intact(Range(w.staged), u)
  BY <1>25, <1>29, IntactOn
<1>31. Keeps(w, u)
  BY <1>30 DEF Intact, Keeps
<1>32. Voices(w, u)
  <2>1. Following(w) = Following(y) /\ Following(z) = Following(u)
    BY <1>19, <1>24, <1>25 DEF Following
  <2>2. Range(z.staged) \subseteq Range(u.staged) /\ (z.reported => u.reported)
    BY <1>24, <1>25 DEF Opens, Onward
  <2> QED
    BY <1>21, <2>1, <2>2 DEF Heard, Voices
<1> QED
  BY <1>25, <1>26, <1>31, <1>32 DEF Good, StageOK, Opens

-----------------------------------------------------------------------------
(* Terminals *)
LEMMA ServesOn ==
  ASSUME NEW w, NEW u, NEW x, Serves(w, u), Serves(u, x) PROVE Serves(w, x)
<1>1. Host(w, x)
  BY HostOn DEF Serves
<1> QED
  BY <1>1 DEF Serves

\* The runtime says something of a connection.
LEMMA Tellings ==
  ASSUME NEW w, Surface(w, {}, {}, {}), NEW s \in Session, NEW phase \in {"open", "over"},
         NEW event \in {"ok", "failed", "closed"}, phase = "over" => event # "ok",
         w.registry[s].phase # "none", NEW u, u = Tells(w, s, phase, event)
  PROVE  Serves(w, u)
<1>1. /\ DOMAIN w = Names /\ w.views \in [View -> ViewState] /\ w.registry \in [Session -> Entry]
  BY DEF Surface, Formed, SurfaceTyped
<1>2. w.registry[s].sub # 0
  BY DEF Surface, Formed, RegistryOK, EntryOK, NoEntry
<1>3. PICK e : e = [w.registry[s] EXCEPT !.phase = phase]
  OBVIOUS
<1>4. e \in Entry /\ e.sub = w.registry[s].sub /\ e.phase = phase
  BY <1>1, <1>3 DEF Entry
<1>5. PICK f : f = [v \in View |-> IF w.views[v].session = s
                                   THEN Hearing(w.views[v], event) ELSE w.views[v]]
  OBVIOUS
<1>6. u = [w EXCEPT !.registry[s].phase = phase, !.views = f]
  BY <1>5 DEF Tells
<1>7. u.registry = [w.registry EXCEPT ![s] = e] /\ u.views = f
  BY <1>1, <1>3, <1>6 DEF Names
<1>8. ASSUME NEW v \in View PROVE
        /\ w.views[v].session # s => f[v] = w.views[v]
        /\ w.views[v].session = s =>
             /\ f[v].session = s /\ f[v].sub = w.views[v].sub
             /\ f[v].ready = w.views[v].ready
             /\ f[v].inbox = Append(w.views[v].inbox, event)
        /\ f[v] \in ViewState
  <2>1. CASE w.views[v].session # s
    BY <1>1, <1>5, <2>1
  <2>2. CASE w.views[v].session = s
    <3>1. PICK x : x = w.views[v]
      OBVIOUS
    <3>2. x \in ViewState
      BY <1>1, <3>1
    <3>3. f[v] = [x EXCEPT !.inbox = Append(@, event)]
      BY <1>5, <2>2, <3>1 DEF Hearing
    <3>4. Append(x.inbox, event) \in Seq({"ok", "failed", "closed"})
      BY <3>2, AppendProperties DEF ViewState
    <3> QED
      BY <2>2, <3>1, <3>2, <3>3, <3>4 DEF ViewState
  <2> QED
    BY <2>1, <2>2
<1>9. ASSUME NEW v \in View, w.views[v].session = s, phase = "over"
      PROVE  u.views[v].inbox # <<>> /\ u.views[v].inbox[Len(u.views[v].inbox)] # "ok"
  <2>1. w.views[v].inbox \in Seq({"ok", "failed", "closed"})
    BY <1>1 DEF ViewState
  <2>2. PICK n \in Nat : n = Len(w.views[v].inbox)
    BY <2>1, LenProperties
  <2>3. u.views[v].inbox = Append(w.views[v].inbox, event)
    BY <1>7, <1>8, <1>9
  <2>4. Len(u.views[v].inbox) = n + 1 /\ u.views[v].inbox[n + 1] = event
    BY <2>1, <2>2, <2>3, AppendProperties
  <2>5. u.views[v].inbox # <<>>
    BY <2>1, <2>2, <2>3, AppendProperties
  <2> QED
    BY <1>9, <2>4, <2>5
<1>10. u.registry \in [Session -> Entry] /\ u.views \in [View -> ViewState]
  <2>1. u.registry \in [Session -> Entry]
    BY <1>1, <1>4, <1>7
  <2>2. f \in [View -> ViewState]
    <3>1. f = [v \in View |-> f[v]]
      BY <1>5
    <3> QED
      BY <1>8, <3>1
  <2> QED
    BY <1>7, <2>1, <2>2
<1>11. u.registry[s] = e /\ \A t \in Session \ {s} : u.registry[t] = w.registry[t]
  BY <1>1, <1>7
<1>12. /\ DOMAIN u = Names /\ Host(w, u) /\ u.bindings = w.bindings /\ u.waiting = w.waiting
       /\ u.retryTimer = w.retryTimer /\ u.error = w.error /\ u.unheard = w.unheard
  BY <1>1, <1>6 DEF Names, Host
<1>13. Told(w, u, s)
  BY <1>2, <1>4, <1>7, <1>8, <1>9, <1>10, <1>11, <1>12 DEF Told
<1> QED
  BY <1>13, TellsAll

\* A checkpoint is admitted, and a view shows its first frame.
LEMMA FirstFrames ==
  ASSUME NEW w, Surface(w, {}, {}, {}), NEW v \in View, NEW s, s = w.views[v].session, s # None,
         w.registry[s].phase \in {"open", "admitted"},
         NEW x, x = [w EXCEPT !.registry[s].phase = "admitted"], NEW u, u = TerminalReady(x, v)
  PROVE  Serves(w, u)
<1>1. /\ DOMAIN w = Names /\ w.views \in [View -> ViewState] /\ w.registry \in [Session -> Entry]
  BY ONLY Surface(w, {}, {}, {}) DEF Surface, Formed, SurfaceTyped
<1>2. s \in Session
  <2>1. w.views[v].session \in Session \cup {None}
    BY ONLY <1>1, v \in View DEF ViewState
  <2> QED
    BY ONLY <2>1, s = w.views[v].session, s # None
<1>3. w.registry[s].sub # 0
  <2>1. RegistryOK(w)
    BY ONLY Surface(w, {}, {}, {}) DEF Surface, Formed
  <2>2. w.registry[s].phase \in {"open", "admitted"}
    BY ONLY w.registry[s].phase \in {"open", "admitted"}
  <2> QED
    BY ONLY <1>2, <2>1, <2>2 DEF RegistryOK, EntryOK, NoEntry
<1>4. PICK e : e = [w.registry[s] EXCEPT !.phase = "admitted"]
  OBVIOUS
<1>5. e \in Entry /\ e.sub = w.registry[s].sub /\ e.phase = "admitted"
  BY ONLY <1>1, <1>2, <1>4 DEF Entry
<1>6. x = [w EXCEPT !.registry[s].phase = "admitted"]
  OBVIOUS
<1>7. /\ DOMAIN x = Names /\ Host(w, x) /\ x.bindings = w.bindings /\ x.waiting = w.waiting
      /\ x.retryTimer = w.retryTimer /\ x.error = w.error /\ x.unheard = w.unheard
      /\ x.views = w.views
  BY ONLY <1>1, <1>6 DEF Names, Host
<1>8. /\ x.registry \in [Session -> Entry] /\ x.registry[s] = e
      /\ \A t \in Session \ {s} : x.registry[t] = w.registry[t]
  <2>1. x.registry = [w.registry EXCEPT ![s] = e]
    BY ONLY <1>1, <1>4, <1>6 DEF Names
  <2> QED
    BY ONLY <1>1, <1>2, <1>5, <2>1
<1>9. Told(w, x, s)
  BY ONLY <1>1, <1>3, <1>5, <1>7, <1>8, Surface(w, {}, {}, {}) DEF Told
<1>10. Serves(w, x)
  BY ONLY <1>2, <1>9, Surface(w, {}, {}, {}), TellsAll
<1>11. Serves(x, u)
  <2>1. Surface(x, {}, {}, {}) /\ x.views[v].session # None
    BY ONLY <1>7, <1>10, s = w.views[v].session, s # None DEF Serves
  <2> QED
    BY ONLY <2>1, v \in View, u = TerminalReady(x, v), Frames
<1> QED
  BY <1>10, <1>11, ServesOn

\* A view of the tests is bound or detached.
LEMMA ExtraServes ==
  ASSUME NEW w, NEW v \in Extra, NEW u, Does(w, u, v, {}, {}, {}), BoundSet(u) \ {v} = BoundSet(w) \ {v}
  PROVE  Serves(w, u)
<1>1. v \notin Session /\ {} \ {v} = {}
  BY ControllerAssumption
<1>2. Surface(u, {}, {}, {}) /\ Host(w, u)
  BY <1>1 DEF Does, Moves
<1> QED
  BY <1>1, <1>2 DEF Serves

\* Binding a view that is not a tile is good.
LEMMA BindGood ==
  ASSUME NEW w, StageOK(w), w.made = {}, NEW v \in Extra, NEW s \in Session, NEW u, u = Bind(w, v, s)
  PROVE  Good(w, u)
<1>1. HostOK(w) /\ Surface(w, {}, {}, {}) /\ v \in View /\ v \notin Session
  BY ControllerAssumption DEF StageOK, Whole, Set, View
<1>2. v \in BoundSet(w) => v \notin {} \cup {} \cup {}
  OBVIOUS
<1>3. Does(w, u, v, {}, {}, {})
  BY <1>1, <1>2, Binds
<1>4. BoundSet(u) \ {v} = BoundSet(w) \ {v}
  BY <1>3 DEF Does, Moves, Others
<1> QED
  BY <1>3, <1>4, ExtraServes, ServesGood

\* Detaching a view that is not a tile is good.
LEMMA DetachGood ==
  ASSUME NEW w, StageOK(w), w.made = {}, NEW v \in Extra, NEW u, u = Detach(w, v)
  PROVE  Good(w, u)
<1>1. Surface(w, {}, {}, {}) /\ v \in View
  BY DEF StageOK, Whole, Set, View
<1>2. Does(w, u, v, {}, {}, {})
  BY <1>1, DetachDoes
<1>3. BoundSet(u) \ {v} = BoundSet(w) \ {v}
  BY <1>2 DEF Does, Moves, Others
<1> QED
  BY <1>2, <1>3, ExtraServes, ServesGood

-----------------------------------------------------------------------------
(* Retry *)
\* Only the mark of a Retry that could not activate the session changes.
Unhears(w, u, s) ==
  /\ DOMAIN u = Names /\ Host(w, u) /\ u.views = w.views /\ u.registry = w.registry
  /\ u.bindings = w.bindings /\ u.waiting = w.waiting /\ u.retryTimer = w.retryTimer
  /\ u.error = w.error /\ w.unheard \ {s} \subseteq u.unheard

\* The mark of a Retry disturbs no binding.
LEMMA UnhearsMoves ==
  ASSUME NEW w, Formed(w), NEW s, NEW u, Unhears(w, u, s)
  PROVE  Moves(w, u, s) /\ BoundSet(u) = BoundSet(w) /\ BindingOf(u, s) = BindingOf(w, s)
<1>1. BoundSet(u) = BoundSet(w) /\ \A y : BindingOf(u, y) = BindingOf(w, y)
  BY SameBindings DEF Unhears
<1>2. Formed(u)
  <2>1. Held(u)
    BY DEF Formed, SurfaceTyped, Unhears, Held, Unique
  <2> QED
    BY <2>1, FormedBeside DEF Unhears, Formed, SurfaceTyped
<1> QED
  BY <1>1, <1>2 DEF Moves, Others, Unhears

\* A state in which the binding of s is well formed, and in line with the
\* catalog, whatever its tile shows.
Bare(w, s, b) ==
  /\ Surface(w, {s}, {s}, {s}) /\ s \in BoundSet(w) /\ b = BindingOf(w, s)
  /\ BindingOK(w, b) /\ Current(w, b) /\ Noted(w, b) /\ Timed(w, b)
  /\ \A y \in BoundSet(w) \ {s} : Alike(b, BindingOf(w, y))

\* A step that leaves the binding of s alone leaves it in line with the catalog.
LEMMA Bares ==
  ASSUME NEW w, NEW A, Surface(w, A, A, A), NEW s \in View, A \subseteq {s}, NEW u, Moves(w, u, s),
         s \in BoundSet(w), BoundSet(u) = BoundSet(w), NEW b, b = BindingOf(w, s), b = BindingOf(u, s),
         BindingOK(w, b), Current(w, b), Noted(w, b), Timed(w, b),
         u.views = w.views, u.retryTimer = w.retryTimer
  PROVE  Bare(u, s, b)
<1>1. SameCatalog(w, u) /\ u.running = w.running /\ u.waiting = w.waiting
  BY CatalogKept DEF Moves, Host
<1>2. BindingOK(u, b) /\ Current(u, b) /\ Noted(u, b) /\ Timed(u, b)
  BY <1>1 DEF BindingOK, Current, Noted, Timed, SameCatalog
<1>3. ASSUME NEW y \in BoundSet(w) \ {s} PROVE Alike(b, BindingOf(w, y))
  BY <1>3 DEF Surface, Shares
<1>4. Surface(u, A \cup {s}, A \cup {s}, A \cup {s})
  BY <1>2, <1>3, Unfits
<1>5. A \cup {s} = {s}
  OBVIOUS
<1>6. Surface(u, {s}, {s}, {s})
  BY <1>4, <1>5
<1>7. \A y \in BoundSet(u) \ {s} : Alike(b, BindingOf(u, y))
  BY <1>3 DEF Moves, Others
<1> QED
  BY <1>2, <1>6, <1>7 DEF Bare

\* So does the mark of a Retry.
LEMMA BaresOn ==
  ASSUME NEW w, NEW s \in View, NEW b, Bare(w, s, b), NEW u, Unhears(w, u, s)
  PROVE  Bare(u, s, b) /\ Moves(w, u, s) /\ BoundSet(u) = BoundSet(w)
<1>1. PICK A : A = {s}
  OBVIOUS
<1>2. /\ Surface(w, A, A, A) /\ A \subseteq {s} /\ Formed(w)
      /\ BindingOK(w, b) /\ Current(w, b) /\ Noted(w, b) /\ Timed(w, b)
      /\ s \in BoundSet(w) /\ b = BindingOf(w, s)
  BY <1>1 DEF Bare, Surface
<1>3. Moves(w, u, s) /\ BoundSet(u) = BoundSet(w) /\ b = BindingOf(u, s)
  BY <1>2, UnhearsMoves
<1>4. u.views = w.views /\ u.retryTimer = w.retryTimer
  BY DEF Unhears
<1> QED
  BY ONLY s \in View, <1>2, <1>3, <1>4, Bares

\* The stage around the surfaces is whole again when they fit.
LEMMA WholeAgain ==
  ASSUME NEW w, HostOK(w), Desk(w), LinksOK(w), Retained(w), NEW u, Surface(u, {}, {}, {}), Host(w, u),
         BoundSet(u) \cap Session = Range(w.staged)
  PROVE  Whole(u)
<1>1. DOMAIN u = Names
  BY DEF Surface, Formed
<1>2. HostOK(u)
  BY <1>1, HostKept
<1>3. Desk(u) /\ Tiled(u) /\ LinksOK(u)
  BY DEF Host, Desk, DeskTyped, Laid, Chosen, Tiled, LinksOK
<1>4. Retained(u)
  BY CatalogKept DEF Host, Retained, SameCatalog
<1> QED
  BY <1>2, <1>3, <1>4 DEF Whole, Set

\* Retry of a tile, after its activation: the binding fits again.
LEMMA RetryActivates ==
  ASSUME NEW y, HostOK(y), Desk(y), LinksOK(y), Retained(y), NEW s \in Session, NEW b, Bare(y, s, b),
         BoundSet(y) \cap Session = Range(y.staged), NEW u, u = RetryActivated(y, s)
  PROVE  Whole(u) /\ Host(y, u)
<1>1. s \in View /\ DOMAIN y = Names /\ Formed(y) /\ b = BindingOf(y, s) /\ s \in BoundSet(y)
  BY DEF View, Bare, Surface, Formed
<1>2. CASE y.done
  <2>1. PICK z : z = [y EXCEPT !.unheard = @ \ {s}]
    OBVIOUS
  <2>2. u = Retry(z, s, s)
    BY <1>2, <2>1 DEF RetryActivated
  <2>3. Unhears(y, z, s)
    BY <1>1, <2>1 DEF Names, Unhears, Host
  <2>4. Moves(y, z, s) /\ BoundSet(z) = BoundSet(y) /\ BindingOf(z, s) = b
    BY <1>1, <2>3, UnhearsMoves
  <2>5. Bare(z, s, b)
    BY <1>1, <2>3, BaresOn
  <2>6. HostOK(z)
    BY <2>3, HostKept DEF Unhears
  <2>7. Does(z, u, s, {s}, {s}, {s}) /\ s \in BoundSet(u)
    <3>1. /\ Surface(z, {s}, {s}, {s}) /\ s \in BoundSet(z) /\ b = BindingOf(z, s)
          /\ Current(z, b) /\ Noted(z, b) /\ Timed(z, b) /\ (s \in Session => s = s)
      BY <2>5 DEF Bare
    <3> QED
      BY ONLY s \in Session, <2>2, <2>6, <3>1, Retries
  <2>8. Surface(u, {}, {}, {}) /\ Host(y, u) /\ BoundSet(u) = BoundSet(y)
    <3>1. {s} \ {s} = {}
      OBVIOUS
    <3>2. Surface(u, {}, {}, {}) /\ Host(z, u) /\ BoundSet(u) \ {s} = BoundSet(z) \ {s}
      BY <2>7, <3>1 DEF Does, Moves, Others
    <3> QED
      BY <1>1, <2>3, <2>4, <2>7, <3>2, HostOn DEF Unhears
  <2> QED
    BY <2>8, WholeAgain
<1>3. CASE ~y.done
  <2>1. u = [y EXCEPT !.unheard = @ \cup {s}]
    BY <1>3 DEF RetryActivated
  <2>2. Unhears(y, u, s) /\ s \in u.unheard
    BY <1>1, <2>1 DEF Names, Unhears, Host
  <2>3. Moves(y, u, s) /\ BoundSet(u) = BoundSet(y) /\ BindingOf(u, s) = b
    BY <1>1, <2>2, UnhearsMoves
  <2>4. Bare(u, s, b)
    BY <1>1, <2>2, BaresOn
  <2>5. Live(u, b) /\ Carried(u, b)
    <3>1. b.view = s
      BY <1>1, BindingIs, FormedHeld
    <3> QED
      BY <2>2, <3>1 DEF Live, Carried
  <2>6. Settled(u, b)
    BY <2>4, <2>5 DEF Bare, Settled, Going
  <2>7. \A x \in BoundSet(y) \ {s} : Alike(b, BindingOf(y, x))
    BY DEF Bare
  <2>8. Does(y, u, s, {s}, {s}, {s})
    BY <1>1, <2>3, <2>4, <2>5, <2>6, <2>7, Concludes DEF Bare
  <2>9. Surface(u, {}, {}, {}) /\ Host(y, u)
    <3>1. {s} \ {s} = {}
      OBVIOUS
    <3> QED
      BY <2>8, <3>1 DEF Does, Moves
  <2> QED
    BY <2>3, <2>9, WholeAgain
<1> QED
  BY <1>2, <1>3

\* Retry of a tile is good: it attaches, waits for the timer, or says what is wrong.
LEMMA RetryGood ==
  ASSUME NEW w, StageOK(w), w.made = {}, NEW s \in Range(w.staged), NEW u, u = RetryTile(w, s)
  PROVE  Good(w, u)
<1>1. /\ DOMAIN w = Names /\ HostOK(w) /\ Surface(w, {}, {}, {}) /\ Formed(w) /\ Desk(w) /\ LinksOK(w)
      /\ Retained(w) /\ BoundSet(w) \cap Session = Range(w.staged)
  BY DEF StageOK, Whole, Set, HostOK, Surface, Tiled
<1>2. s \in Session /\ s \in View /\ s \in BoundSet(w) /\ CanRetain(w, s)
  BY <1>1 DEF View, Retained
<1>3. PICK x : x = Ready(w, s)
  OBVIOUS
<1>4. PICK y : y = Activate(x, s)
  OBVIOUS
<1>5. u = RetryActivated(y, s)
  BY <1>3, <1>4 DEF RetryTile
<1>6. PICK b : b = BindingOf(w, s)
  OBVIOUS
<1>7. /\ Moves(w, x, s) /\ BoundSet(x) = BoundSet(w) /\ BindingOf(x, s) = b
      /\ Rest(w, x) /\ x.views = w.views /\ x.registry = w.registry
  BY <1>1, <1>3, <1>6, Readies
<1>8. /\ BindingOK(w, b) /\ Current(w, b) /\ Noted(w, b) /\ Timed(w, b)
  <2>1. s \in BoundSet(w) \ ({} \cup {} \cup {})
    BY <1>2
  <2> QED
    BY <1>1, <1>6, <2>1, FitsIs
<1>9. Bare(x, s, b)
  <2>1. {} \subseteq {s} /\ x.retryTimer = w.retryTimer /\ b = BindingOf(x, s)
    BY <1>7 DEF Rest
  <2> QED
    BY ONLY <1>1, <1>2, <1>6, <1>7, <1>8, <2>1, Bares
<1>10. Host(w, x) /\ DOMAIN x = Names
  BY <1>7 DEF Rest
<1>11. /\ HostOK(x) /\ Desk(x) /\ LinksOK(x) /\ x.staged = w.staged /\ x.made = {}
       /\ x.active = w.active /\ x.links = w.links /\ x.catalog = w.catalog
  BY <1>1, <1>10, HostKept DEF Host, Desk, DeskTyped, Laid, Chosen, LinksOK
<1>12. CanRetain(x, s) /\ s \in Range(x.staged) /\ Retained(x)
  BY <1>1, <1>2, <1>11, CatalogKept DEF SameCatalog, Retained
<1>13. ActivatedAgain(x, y)
  BY <1>4, <1>11, <1>12, ActivatesAgain
<1>14. Aside(x, y) /\ HostOK(y) /\ Desk(y) /\ LinksOK(y)
       /\ y.staged = w.staged /\ y.made = {} /\ y.active = w.active /\ y.links = w.links
       /\ y.catalog = w.catalog
  BY <1>11, <1>13 DEF ActivatedAgain, Aside
<1>15. Surface(y, {s}, {s}, {s}) /\ BoundSet(y) = BoundSet(w)
  BY <1>7, <1>9, <1>14, StaysAside DEF Bare
<1>16. /\ SameCatalog(x, y) /\ y.bindings = x.bindings /\ y.views = x.views
       /\ y.retryTimer = x.retryTimer /\ y.running = x.running /\ y.waiting = x.waiting
  BY <1>14, CatalogKept DEF Aside, Beneath
<1>17. \A z : BindingOf(y, z) = BindingOf(x, z)
  BY <1>16, SameBindings
<1>18. Bare(y, s, b)
  <2>1. BindingOK(y, b) /\ Current(y, b) /\ Noted(y, b) /\ Timed(y, b)
    BY <1>9, <1>16 DEF Bare, BindingOK, Current, Noted, Timed, SameCatalog
  <2> QED
    BY <1>7, <1>9, <1>15, <1>17, <2>1 DEF Bare
<1>19. Retained(y)
  BY <1>12, <1>14, <1>16, <1>11 DEF Retained, SameCatalog
<1>20. Whole(u) /\ Host(y, u)
  BY <1>1, <1>2, <1>5, <1>14, <1>15, <1>18, <1>19, RetryActivates
<1>21. u.made = {} /\ u.active = w.active /\ u.links = w.links /\ u.catalog = w.catalog
  BY <1>14, <1>20 DEF Host
<1>22. Unopened(u)
  BY <1>21 DEF StageOK, Unopened, Known
<1> QED
  BY <1>20, <1>21, <1>22, FollowsOn DEF Good, StageOK, Keeps

-----------------------------------------------------------------------------
(* Events *)
IInv == StageOK(stage) /\ Listed(runtime)

\* What an event starts from is the stage.
Begun(run) == StageOK(run) /\ run.made = {} /\ Same(stage, run)

\* A step begins with nothing made and nothing said.
LEMMA Begins ==
  ASSUME StageOK(stage), NEW run \in Runs
  PROVE  Begun(run)
<1>1. DOMAIN stage = Names /\ HostOK(stage)
  BY DEF StageOK, Whole, Set, HostOK
<1>2. PICK f : f = Fresh
  OBVIOUS
<1>3. DOMAIN f = Names /\ Same(stage, f) /\ f.made = {}
  BY <1>1, <1>2 DEF Fresh, HostOK, Names, Same, Beneath
<1>4. \/ run = f
      \/ \E v : run = [f EXCEPT !.refused = {v}]
      \/ run = [f EXCEPT !.sends = FALSE, !.refused = View]
  BY <1>2 DEF Runs
<1>5. Same(f, run) /\ run.made = {}
  <2>1. CASE run = f
    BY <1>1, <1>3, <2>1 DEF HostOK, Same, Beneath
  <2>2. CASE \E v : run = [f EXCEPT !.refused = {v}]
    BY <1>1, <1>3, <2>2 DEF HostOK, Same, Beneath, Names
  <2>3. CASE run = [f EXCEPT !.sends = FALSE, !.refused = View]
    BY <1>1, <1>3, <2>3 DEF HostOK, Same, Beneath, Names
  <2> QED
    BY <1>4, <2>1, <2>2, <2>3
<1>6. Same(stage, run)
  BY <1>3, <1>5 DEF Same, Beneath
<1> QED
  BY <1>5, <1>6, SameWhole DEF Begun, StageOK

\* What an event comes to is good for the stage.
LEMMA Concluded ==
  ASSUME NEW run, Begun(run), NEW u, Good(run, u), Becomes(u)
  PROVE  Good(stage, stage')
<1>1. PICK x : x = stage'
  OBVIOUS
<1>2. x = [u EXCEPT !.refused = {}, !.sends = TRUE, !.done = FALSE, !.faulty = FALSE]
  BY <1>1 DEF Becomes
<1>3. Same(u, x) /\ x.made = u.made /\ x.reported = u.reported
  BY <1>2 DEF Good, StageOK, Whole, Set, HostOK, Names, Same, Beneath
<1>4. x.catalog.state = u.catalog.state
  BY <1>2 DEF Good, StageOK, Whole, Set, HostOK, Names
<1>5. StageOK(x)
  BY <1>3, SameWhole DEF Good, StageOK
<1>6. Keeps(stage, x)
  BY <1>3 DEF Good, Keeps, Begun, Same
<1>7. Voices(stage, x)
  BY <1>3, <1>4 DEF Good, Voices, Following, Begun, Same
<1> QED
  BY <1>1, <1>5, <1>6, <1>7 DEF Good

Steps == Good(stage, stage') /\ Listed(runtime')

\* A start of the runtime is a good step.
LEMMA StartSteps ==
  ASSUME IInv, Start PROVE Steps
<1>1. PICK run \in Runs : ~stage.running /\ Becomes(RuntimeStarts(run))
  BY DEF Start, Hears, Event
<1>2. Begun(run)
  BY Begins DEF IInv
<1>3. PICK u : u = RuntimeStarts(run)
  OBVIOUS
<1>4. ~run.running
  BY <1>1, <1>2 DEF Begun, Same
<1>5. Good(run, u)
  BY <1>2, <1>3, <1>4, StartGood DEF Begun
<1>6. runtime' = runtime
  BY DEF Start, Hears, Event
<1> QED
  BY <1>1, <1>2, <1>3, <1>5, <1>6, Concluded DEF Steps, IInv

\* Whatever the account becomes is a good step.
LEMMA AuthSteps ==
  ASSUME IInv, Auth PROVE Steps
<1>1. PICK signedIn \in BOOLEAN, renewed \in BOOLEAN, run \in Runs :
        Becomes(ApplyAuth(run, signedIn, renewed))
  BY DEF Auth, Hears, Event
<1>2. Begun(run)
  BY Begins DEF IInv
<1>3. PICK u : u = ApplyAuth(run, signedIn, renewed)
  OBVIOUS
<1>4. Good(run, u)
  BY <1>2, <1>3, AuthGood DEF Begun
<1>5. runtime' = runtime
  BY DEF Auth, Hears, Event
<1> QED
  BY <1>1, <1>2, <1>3, <1>4, <1>5, Concluded DEF Steps, IInv

\* A step of the sign-in is a good step.
LEMMA AuthStepSteps ==
  ASSUME IInv, AuthStep PROVE Steps
<1>1. PICK run \in Runs : Becomes([run EXCEPT !.finalizing = ~@])
  BY DEF AuthStep, Hears, Event
<1>2. Begun(run)
  BY Begins DEF IInv
<1>3. PICK u : u = [run EXCEPT !.finalizing = ~@]
  OBVIOUS
<1>4. Good(run, u)
  BY <1>2, <1>3, AuthStepGood DEF Begun
<1>5. runtime' = runtime
  BY DEF AuthStep, Hears, Event
<1> QED
  BY <1>1, <1>2, <1>3, <1>4, <1>5, Concluded DEF Steps, IInv

\* A snapshot that cannot be read is a good step.
LEMMA InvalidSnapshotSteps ==
  ASSUME IInv, InvalidSnapshot PROVE Steps
<1>1. PICK run \in Runs : Becomes(ApplyInvalidSnapshot(run))
  BY DEF InvalidSnapshot, Hears, Event
<1>2. Begun(run)
  BY Begins DEF IInv
<1>3. PICK u : u = ApplyInvalidSnapshot(run)
  OBVIOUS
<1>4. Good(run, u)
  BY <1>2, <1>3, InvalidGood DEF Begun
<1>5. runtime' = runtime
  BY DEF InvalidSnapshot, Hears, Event
<1> QED
  BY <1>1, <1>2, <1>3, <1>4, <1>5, Concluded DEF Steps, IInv

\* The result of a request is a good step.
LEMMA ResultSteps ==
  ASSUME IInv, Result PROVE Steps
<1>1. PICK p \in stage.pending, run \in Runs : Becomes(ApplyResult(run, p))
  BY DEF Result, Happens, Event
<1>2. Begun(run)
  BY Begins DEF IInv
<1>3. PICK u : u = ApplyResult(run, p)
  OBVIOUS
<1>4. p \in run.pending
  BY <1>1, <1>2 DEF Begun, Same
<1>5. Good(run, u)
  BY <1>2, <1>3, <1>4, ResultGood DEF Begun
<1>6. runtime' = runtime
  BY DEF Result, Happens, Event
<1> QED
  BY <1>1, <1>2, <1>3, <1>5, <1>6, Concluded DEF Steps, IInv

\* The error of a request is a good step.
LEMMA ErrorSteps ==
  ASSUME IInv, Error PROVE Steps
<1>1. PICK p \in stage.pending, run \in Runs : Becomes(ApplyError(run, p))
  BY DEF Error, Happens, Event
<1>2. Begun(run)
  BY Begins DEF IInv
<1>3. PICK u : u = ApplyError(run, p)
  OBVIOUS
<1>4. Good(run, u)
  BY <1>2, <1>3, ErrorGood DEF Begun
<1>5. runtime' = runtime
  BY DEF Error, Happens, Event
<1> QED
  BY <1>1, <1>2, <1>3, <1>4, <1>5, Concluded DEF Steps, IInv

\* The deadline of a request is a good step.
LEMMA DeadlineSteps ==
  ASSUME IInv, Deadline PROVE Steps
<1>1. PICK p \in stage.pending, run \in Runs : Becomes(Expire(run, p))
  BY DEF Deadline, Happens, Event
<1>2. Begun(run)
  BY Begins DEF IInv
<1>3. PICK u : u = Expire(run, p)
  OBVIOUS
<1>4. Good(run, u)
  BY <1>2, <1>3, ExpireGood DEF Begun
<1>5. runtime' = runtime
  BY DEF Deadline, Happens, Event
<1> QED
  BY <1>1, <1>2, <1>3, <1>4, <1>5, Concluded DEF Steps, IInv

\* The user activates a session: a good step.
LEMMA UserActivatesSteps ==
  ASSUME IInv, UserActivates PROVE Steps
<1>1. PICK s \in Sessions, run \in Runs : Becomes(Activate(run, s))
  BY DEF UserActivates, Input, Event
<1>2. Begun(run)
  BY Begins DEF IInv
<1>3. PICK u : u = Activate(run, s)
  OBVIOUS
<1>4. s \in Session
  BY <1>1, StageAssumption DEF Sessions
<1>5. Good(run, u)
  BY <1>2, <1>3, <1>4, ActivateGood DEF Begun
<1>6. runtime' = runtime
  BY DEF UserActivates, Input, Event
<1> QED
  BY <1>1, <1>2, <1>3, <1>5, <1>6, Concluded DEF Steps, IInv

\* The user minimizes a tile: a good step.
LEMMA UserMinimizesSteps ==
  ASSUME IInv, UserMinimizes PROVE Steps
<1>1. PICK s \in Range(stage.staged), run \in Runs : Becomes(Minimize(run, s))
  BY DEF UserMinimizes, Input, Event
<1>2. Begun(run)
  BY Begins DEF IInv
<1>3. PICK u : u = Minimize(run, s)
  OBVIOUS
<1>4. s \in Range(run.staged)
  BY <1>1, <1>2 DEF Begun, Same
<1>5. Good(run, u)
  BY <1>2, <1>3, <1>4, MinimizeGood DEF Begun
<1>6. runtime' = runtime
  BY DEF UserMinimizes, Input, Event
<1> QED
  BY <1>1, <1>2, <1>3, <1>5, <1>6, Concluded DEF Steps, IInv

\* The user selects a tile: a good step.
LEMMA UserSelectsSteps ==
  ASSUME IInv, UserSelects PROVE Steps
<1>1. PICK s \in Range(stage.staged), run \in Runs : Becomes(StageSession(run, s))
  BY DEF UserSelects, Input, Event
<1>2. Begun(run)
  BY Begins DEF IInv
<1>3. PICK u : u = StageSession(run, s)
  OBVIOUS
<1>4. s \in Range(run.staged)
  BY <1>1, <1>2 DEF Begun, Same
<1>5. Good(run, u)
  BY <1>2, <1>3, <1>4, SelectGood DEF Begun
<1>6. runtime' = runtime
  BY DEF UserSelects, Input, Event
<1> QED
  BY <1>1, <1>2, <1>3, <1>5, <1>6, Concluded DEF Steps, IInv

\* The user enters or leaves the focus mode: a good step.
LEMMA UserTogglesFocusSteps ==
  ASSUME IInv, UserTogglesFocus PROVE Steps
<1>1. PICK run \in Runs : Becomes(ToggleFocus(run))
  BY DEF UserTogglesFocus, Input, Event
<1>2. Begun(run)
  BY Begins DEF IInv
<1>3. PICK u : u = ToggleFocus(run)
  OBVIOUS
<1>4. Good(run, u)
  BY <1>2, <1>3, FocusGood DEF Begun
<1>5. runtime' = runtime
  BY DEF UserTogglesFocus, Input, Event
<1> QED
  BY <1>1, <1>2, <1>3, <1>4, <1>5, Concluded DEF Steps, IInv

\* The user asks for the catalog anew: a good step.
LEMMA UserRefreshesSteps ==
  ASSUME IInv, UserRefreshes PROVE Steps
<1>1. PICK run \in Runs : Becomes(Refresh(run))
  BY DEF UserRefreshes, Input, Event
<1>2. Begun(run)
  BY Begins DEF IInv
<1>3. PICK u : u = Refresh(run)
  OBVIOUS
<1>4. Good(run, u)
  BY <1>2, <1>3, RefreshGood DEF Begun
<1>5. runtime' = runtime
  BY DEF UserRefreshes, Input, Event
<1> QED
  BY <1>1, <1>2, <1>3, <1>4, <1>5, Concluded DEF Steps, IInv

\* The user follows a deep link: a good step.
LEMMA UserRoutesSteps ==
  ASSUME IInv, UserRoutes PROVE Steps
<1>1. PICK s \in Session \ Local, run \in Runs : Becomes(Route(run, s))
  BY DEF UserRoutes, Input, Event
<1>2. Begun(run)
  BY Begins DEF IInv
<1>3. PICK u : u = Route(run, s)
  OBVIOUS
<1>4. Good(run, u)
  BY <1>2, <1>3, RouteGood DEF Begun
<1>5. runtime' = runtime
  BY DEF UserRoutes, Input, Event
<1> QED
  BY <1>1, <1>2, <1>3, <1>4, <1>5, Concluded DEF Steps, IInv

\* The user creates a session: a good step.
LEMMA UserCreatesSteps ==
  ASSUME IInv, UserCreates PROVE Steps
<1>1. PICK s \in Local \ DOMAIN runtime, run \in Runs : Becomes(SendTracked(run, "create", s))
  BY DEF UserCreates, Input, Event
<1>2. Begun(run)
  BY Begins DEF IInv
<1>3. PICK u : u = SendTracked(run, "create", s)
  OBVIOUS
<1>4. s \in Session
  BY <1>1, ControllerAssumption
<1>5. Good(run, u)
  BY <1>2, <1>3, <1>4, SendGood DEF Begun
<1>6. runtime' = runtime
  BY DEF UserCreates, Input, Event
<1> QED
  BY <1>1, <1>2, <1>3, <1>5, <1>6, Concluded DEF Steps, IInv

\* The user closes a session: a good step.
LEMMA UserClosesSteps ==
  ASSUME IInv, UserCloses PROVE Steps
<1>1. PICK s \in DOMAIN stage.catalog.sessions, run \in Runs : Becomes(SendTracked(run, "close", s))
  BY DEF UserCloses, Input, Event
<1>2. Begun(run)
  BY Begins DEF IInv
<1>3. PICK u : u = SendTracked(run, "close", s)
  OBVIOUS
<1>4. s \in Session
  BY <1>1 DEF IInv, StageOK, Whole, Set, HostOK, Listed
<1>5. Good(run, u)
  BY <1>2, <1>3, <1>4, SendGood DEF Begun
<1>6. runtime' = runtime
  BY DEF UserCloses, Input, Event
<1> QED
  BY <1>1, <1>2, <1>3, <1>5, <1>6, Concluded DEF Steps, IInv

\* The user resizes the window: a good step.
LEMMA UserResizesSteps ==
  ASSUME IInv, UserResizes PROVE Steps
<1>1. PICK viewport \in Viewport, run \in Runs :
        Becomes(Rebuild([run EXCEPT !.viewport = viewport]))
  BY DEF UserResizes, Input, Event
<1>2. Begun(run)
  BY Begins DEF IInv
<1>3. PICK u : u = Rebuild([run EXCEPT !.viewport = viewport])
  OBVIOUS
<1>4. Good(run, u)
  BY <1>2, <1>3, ResizeGood DEF Begun
<1>5. runtime' = runtime
  BY DEF UserResizes, Input, Event
<1> QED
  BY <1>1, <1>2, <1>3, <1>4, <1>5, Concluded DEF Steps, IInv

\* The user moves a divider: a good step.
LEMMA UserMovesDividerSteps ==
  ASSUME IInv, UserMovesDivider PROVE Steps
<1>1. PICK id \in Movable(stage.tiling), run \in Runs :
        Becomes(Rebuild([run EXCEPT !.tiling.moved = @ \cup {id}]))
  BY DEF UserMovesDivider, Input, Event
<1>2. Begun(run)
  BY Begins DEF IInv
<1>3. PICK u : u = Rebuild([run EXCEPT !.tiling.moved = @ \cup {id}])
  OBVIOUS
<1>4. Good(run, u)
  BY <1>2, <1>3, MoveGood DEF Begun
<1>5. runtime' = runtime
  BY DEF UserMovesDivider, Input, Event
<1> QED
  BY <1>1, <1>2, <1>3, <1>4, <1>5, Concluded DEF Steps, IInv

\* The user presses Retry: a good step.
LEMMA UserRetriesSteps ==
  ASSUME IInv, UserRetries PROVE Steps
<1>1. PICK s \in Range(stage.staged), run \in Runs : Becomes(RetryTile(run, s))
  BY DEF UserRetries, Input, Event
<1>2. Begun(run)
  BY Begins DEF IInv
<1>3. PICK u : u = RetryTile(run, s)
  OBVIOUS
<1>4. s \in Range(run.staged)
  BY <1>1, <1>2 DEF Begun, Same
<1>5. Good(run, u)
  BY <1>2, <1>3, <1>4, RetryGood DEF Begun
<1>6. runtime' = runtime
  BY DEF UserRetries, Input, Event
<1> QED
  BY <1>1, <1>2, <1>3, <1>5, <1>6, Concluded DEF Steps, IInv

\* Binding a view that is not a tile is a good step.
LEMMA BindExtraSteps ==
  ASSUME IInv, BindExtra PROVE Steps
<1>1. PICK x \in Extra, s \in Shown, run \in Runs : Becomes(Bind(run, x, s))
  BY DEF BindExtra, Input, Event
<1>2. Begun(run)
  BY Begins DEF IInv
<1>3. PICK u : u = Bind(run, x, s)
  OBVIOUS
<1>4. s \in Session
  BY <1>1, StageAssumption
<1>5. Good(run, u)
  BY <1>2, <1>3, <1>4, BindGood DEF Begun
<1>6. runtime' = runtime
  BY DEF BindExtra, Input, Event
<1> QED
  BY <1>1, <1>2, <1>3, <1>5, <1>6, Concluded DEF Steps, IInv

\* Detaching a view that is not a tile is a good step.
LEMMA DetachExtraSteps ==
  ASSUME IInv, DetachExtra PROVE Steps
<1>1. PICK x \in Extra, run \in Runs : Becomes(Detach(run, x))
  BY DEF DetachExtra, Input, Event
<1>2. Begun(run)
  BY Begins DEF IInv
<1>3. PICK u : u = Detach(run, x)
  OBVIOUS
<1>4. Good(run, u)
  BY <1>2, <1>3, DetachGood DEF Begun
<1>5. runtime' = runtime
  BY DEF DetachExtra, Input, Event
<1> QED
  BY <1>1, <1>2, <1>3, <1>4, <1>5, Concluded DEF Steps, IInv

\* A connection that opens is a good step.
LEMMA ConnectionOpensSteps ==
  ASSUME IInv, ConnectionOpens PROVE Steps
<1>1. PICK s \in Session, run \in Runs :
        /\ stage.registry[s].phase = "asked"
        /\ Becomes(Tells(run, s, "open", "ok"))
  BY DEF ConnectionOpens, Happens, Event
<1>2. Begun(run)
  BY Begins DEF IInv
<1>3. PICK u : u = Tells(run, s, "open", "ok")
  OBVIOUS
<1>4. Surface(run, {}, {}, {}) /\ HostOK(run)
  BY <1>2 DEF Begun, StageOK, Whole, Set
<1>5. run.registry[s].phase # "none"
  BY <1>1, <1>2 DEF Begun, Same, Beneath
<1>6. Serves(run, u)
  BY <1>3, <1>4, <1>5, Tellings
<1>7. Good(run, u)
  BY <1>2, <1>6, ServesGood DEF Begun
<1>8. runtime' = runtime
  BY DEF ConnectionOpens, Happens, Event
<1> QED
  BY <1>1, <1>2, <1>3, <1>7, <1>8, Concluded DEF Steps, IInv

\* A connection that is refused is a good step.
LEMMA ConnectionRefusedSteps ==
  ASSUME IInv, ConnectionRefused PROVE Steps
<1>1. PICK s \in Session, run \in Runs :
        /\ stage.registry[s].phase = "asked"
        /\ Becomes(Tells(run, s, "over", "failed"))
  BY DEF ConnectionRefused, Happens, Event
<1>2. Begun(run)
  BY Begins DEF IInv
<1>3. PICK u : u = Tells(run, s, "over", "failed")
  OBVIOUS
<1>4. Surface(run, {}, {}, {}) /\ HostOK(run)
  BY <1>2 DEF Begun, StageOK, Whole, Set
<1>5. run.registry[s].phase # "none"
  BY <1>1, <1>2 DEF Begun, Same, Beneath
<1>6. Serves(run, u)
  BY <1>3, <1>4, <1>5, Tellings
<1>7. Good(run, u)
  BY <1>2, <1>6, ServesGood DEF Begun
<1>8. runtime' = runtime
  BY DEF ConnectionRefused, Happens, Event
<1> QED
  BY <1>1, <1>2, <1>3, <1>7, <1>8, Concluded DEF Steps, IInv

\* A terminal that ends is a good step.
LEMMA TerminalEndsSteps ==
  ASSUME IInv, TerminalEnds PROVE Steps
<1>1. PICK s \in Session, run \in Runs :
        /\ stage.registry[s].phase \in {"open", "admitted"}
        /\ Becomes(Tells(run, s, "over", "closed"))
  BY DEF TerminalEnds, Happens, Event
<1>2. Begun(run)
  BY Begins DEF IInv
<1>3. PICK u : u = Tells(run, s, "over", "closed")
  OBVIOUS
<1>4. Surface(run, {}, {}, {}) /\ HostOK(run)
  BY <1>2 DEF Begun, StageOK, Whole, Set
<1>5. run.registry[s].phase # "none"
  BY <1>1, <1>2 DEF Begun, Same, Beneath
<1>6. Serves(run, u)
  BY <1>3, <1>4, <1>5, Tellings
<1>7. Good(run, u)
  BY <1>2, <1>6, ServesGood DEF Begun
<1>8. runtime' = runtime
  BY DEF TerminalEnds, Happens, Event
<1> QED
  BY <1>1, <1>2, <1>3, <1>7, <1>8, Concluded DEF Steps, IInv

\* A view that takes an event off its queue is a good step.
LEMMA ViewHearsSteps ==
  ASSUME IInv, ViewHears PROVE Steps
<1>1. PICK v \in View, run \in Runs :
        /\ stage.views[v].inbox # <<>>
        /\ Becomes(CASE Head(run.views[v].inbox) = "ok" -> Connected(Taken(run, v), v)
                     [] Head(run.views[v].inbox) = "failed" -> ConnectionFailed(Taken(run, v), v)
                     [] OTHER -> ViewEnds(Taken(run, v), v))
  BY DEF ViewHears, Happens, Event
<1>2. Begun(run)
  BY Begins DEF IInv
<1>3. Surface(run, {}, {}, {}) /\ run.views[v].inbox # <<>>
  BY <1>1, <1>2 DEF Begun, StageOK, Whole, Set, Same, Beneath
<1>4. PICK x : x = Taken(run, v)
  OBVIOUS
<1>5. runtime' = runtime
  BY DEF ViewHears, Happens, Event
<1>6. CASE Head(run.views[v].inbox) = "ok"
  <2>1. PICK u : u = Connected(x, v)
    OBVIOUS
  <2>2. Becomes(u)
    BY <1>1, <1>4, <1>6, <2>1
  <2>3. Serves(run, u)
    BY <1>3, <1>4, <1>6, <2>1, Connects
  <2>4. Good(run, u)
    BY <1>2, <2>3, ServesGood DEF Begun
  <2> QED
    BY <1>2, <1>5, <2>2, <2>4, Concluded DEF Steps, IInv
<1>7. CASE Head(run.views[v].inbox) = "failed"
  <2>1. PICK u : u = ConnectionFailed(x, v)
    OBVIOUS
  <2>2. Becomes(u)
    BY <1>1, <1>4, <1>7, <2>1
  <2>3. Serves(run, u)
    BY <1>3, <1>4, <2>1, FailsToConnect
  <2>4. Good(run, u)
    BY <1>2, <2>3, ServesGood DEF Begun
  <2> QED
    BY <1>2, <1>5, <2>2, <2>4, Concluded DEF Steps, IInv
<1>8. CASE Head(run.views[v].inbox) \notin {"ok", "failed"}
  <2>1. PICK u : u = ViewEnds(x, v)
    OBVIOUS
  <2>2. Becomes(u)
    BY <1>1, <1>4, <1>8, <2>1
  <2>3. Serves(run, u)
    BY <1>3, <1>4, <2>1, Closes
  <2>4. Good(run, u)
    BY <1>2, <2>3, ServesGood DEF Begun
  <2> QED
    BY <1>2, <1>5, <2>2, <2>4, Concluded DEF Steps, IInv
<1> QED
  BY <1>6, <1>7, <1>8

\* A first frame is a good step.
LEMMA FrameShownSteps ==
  ASSUME IInv, FrameShown PROVE Steps
<1>1. PICK v \in View, run \in Runs :
        /\ stage.views[v].session # None
        /\ stage.registry[stage.views[v].session].phase \in {"open", "admitted"}
        /\ Becomes(TerminalReady([run EXCEPT !.registry[stage.views[v].session].phase = "admitted"], v))
  BY DEF FrameShown, Happens, Event
<1>2. Begun(run)
  BY Begins DEF IInv
<1>3. PICK s : s = stage.views[v].session
  OBVIOUS
<1>4. PICK x : x = [run EXCEPT !.registry[s].phase = "admitted"]
  OBVIOUS
<1>5. PICK u : u = TerminalReady(x, v)
  OBVIOUS
<1>6. /\ Surface(run, {}, {}, {}) /\ s = run.views[v].session /\ s # None
      /\ run.registry[s].phase \in {"open", "admitted"}
  <2>1. Surface(run, {}, {}, {}) /\ run.views = stage.views /\ run.registry = stage.registry
    BY ONLY <1>2 DEF Begun, StageOK, Whole, Set, Same, Beneath
  <2> QED
    BY ONLY <1>1, <1>3, <2>1
<1>7. Serves(run, u)
  BY ONLY v \in View, <1>4, <1>5, <1>6, FirstFrames
<1>8. Good(run, u)
  BY <1>2, <1>7, ServesGood DEF Begun
<1>9. runtime' = runtime
  BY DEF FrameShown, Happens, Event
<1>10. Becomes(u)
  BY ONLY <1>1, <1>3, <1>4, <1>5
<1> QED
  BY ONLY IInv, <1>2, <1>8, <1>9, <1>10, Concluded DEF Steps, IInv

\* A queue that overflows is a good step.
LEMMA ViewOverflowsSteps ==
  ASSUME IInv, ViewOverflows PROVE Steps
<1>1. PICK v \in View, run \in Runs : stage.views[v].session # None /\ Becomes(Overflow(run, v))
  BY DEF ViewOverflows, Happens, Event
<1>2. Begun(run)
  BY Begins DEF IInv
<1>3. PICK u : u = Overflow(run, v)
  OBVIOUS
<1>4. Surface(run, {}, {}, {}) /\ HostOK(run)
  BY <1>2 DEF Begun, StageOK, Whole, Set
<1>5. run.views[v].session # None
  BY <1>1, <1>2 DEF Begun, Same, Beneath
<1>6. Serves(run, u)
  BY <1>3, <1>4, <1>5, Overflows
<1>7. Good(run, u)
  BY <1>2, <1>6, ServesGood DEF Begun
<1>8. runtime' = runtime
  BY DEF ViewOverflows, Happens, Event
<1> QED
  BY <1>1, <1>2, <1>3, <1>7, <1>8, Concluded DEF Steps, IInv

\* The retry timer is a good step.
LEMMA RetryTimerSteps ==
  ASSUME IInv, RetryTimer PROVE Steps
<1>1. PICK run \in Runs : Becomes(RetryPendingAttachments(run))
  BY DEF RetryTimer, Happens, Event
<1>2. Begun(run)
  BY Begins DEF IInv
<1>3. PICK u : u = RetryPendingAttachments(run)
  OBVIOUS
<1>4. Surface(run, {}, {}, {}) /\ HostOK(run)
  BY <1>2 DEF Begun, StageOK, Whole, Set
<1>5. Serves(run, u)
  BY <1>3, <1>4, RetriesPending
<1>6. Good(run, u)
  BY <1>2, <1>5, ServesGood DEF Begun
<1>7. runtime' = runtime
  BY DEF RetryTimer, Happens, Event
<1> QED
  BY <1>1, <1>2, <1>3, <1>6, <1>7, Concluded DEF Steps, IInv

\* The timer of a checkpoint is a good step.
LEMMA CheckpointTimerSteps ==
  ASSUME IInv, CheckpointTimer PROVE Steps
<1>1. PICK v \in View, run \in Runs :
        /\ Bound(stage, v)
        /\ BindingOf(stage, v).timer
        /\ Becomes(CheckpointTimeout(run, v))
  BY DEF CheckpointTimer, Happens, Event
<1>2. Begun(run)
  BY Begins DEF IInv
<1>3. PICK u : u = CheckpointTimeout(run, v)
  OBVIOUS
<1>4. Surface(run, {}, {}, {}) /\ HostOK(run)
  BY <1>2 DEF Begun, StageOK, Whole, Set
<1>5. Bound(run, v) /\ BindingOf(run, v) = BindingOf(stage, v)
  BY <1>1, <1>2, SameBindings DEF Begun, Same, Beneath
<1>6. v \in BoundSet(run)
  BY <1>4, <1>5, NoPosition, FormedHeld DEF Surface
<1>7. Serves(run, u)
  BY <1>1, <1>3, <1>4, <1>5, <1>6, TimesOut
<1>8. Good(run, u)
  BY <1>2, <1>7, ServesGood DEF Begun
<1>9. runtime' = runtime
  BY DEF CheckpointTimer, Happens, Event
<1> QED
  BY <1>1, <1>2, <1>3, <1>8, <1>9, Concluded DEF Steps, IInv

-----------------------------------------------------------------------------
(* What the runtime has changes with what it says. *)
LEMMA ChangedListed ==
  ASSUME Listed(runtime), NEW s \in Session, NEW r \in Changed(s)
  PROVE  Listed(r)
<1>1. CASE r = runtime
  BY <1>1
<1>2. CASE \E state \in SessionStates(s) :
             r = [t \in DOMAIN runtime \cup {s} |-> IF t = s THEN state ELSE runtime[t]]
  <2>1. PICK state \in SessionStates(s) :
             r = [t \in DOMAIN runtime \cup {s} |-> IF t = s THEN state ELSE runtime[t]]
    BY <1>2
  <2>2. /\ state.inc \in 1 .. MaxInc
        /\ state.status \in {"ready", "away", "closing", "blocked"}
    <3>1. 1 \in 1 .. MaxInc
      BY StageAssumption
    <3> QED
      BY <2>1, <3>1 DEF SessionStates
  <2> QED
    BY <2>1, <2>2 DEF Listed
<1>3. CASE r = [t \in DOMAIN runtime \ {s} |-> runtime[t]]
  BY <1>3 DEF Listed
<1> QED
  BY <1>1, <1>2, <1>3 DEF Changed

\* A snapshot is a good step.
LEMMA SnapshotSteps ==
  ASSUME IInv, Snapshot PROVE Steps
<1>1. PICK sessions \in UNION {Changed(s) : s \in Sessions}, run \in Runs :
        stage.running /\ Becomes(ApplySnapshot(run, sessions)) /\ runtime' = sessions
  BY DEF Snapshot, Hears, Event
<1>2. Begun(run)
  BY Begins DEF IInv
<1>3. PICK u : u = ApplySnapshot(run, sessions)
  OBVIOUS
<1>4. run.running
  BY <1>1, <1>2 DEF Begun, Same
<1>5. Listed(sessions)
  <2>1. PICK s \in Sessions : sessions \in Changed(s)
    BY <1>1
  <2>2. s \in Session
    BY <2>1, StageAssumption DEF Sessions
  <2> QED
    BY <2>1, <2>2, ChangedListed DEF IInv
<1>6. Good(run, u)
  BY <1>2, <1>3, <1>4, <1>5, SnapshotGood DEF Begun
<1> QED
  BY <1>1, <1>2, <1>3, <1>5, <1>6, Concluded DEF Steps

\* A stop of the runtime is a good step, and it lists nothing until the next start.
LEMMA StopSteps ==
  ASSUME IInv, Stop PROVE Steps
<1>1. PICK run \in Runs : Becomes(RuntimeStops(run))
  BY DEF Stop, Hears, Event
<1>2. Begun(run)
  BY Begins DEF IInv
<1>3. PICK u : u = RuntimeStops(run)
  OBVIOUS
<1>4. Good(run, u)
  BY <1>2, <1>3, StopGood DEF Begun
<1>5. runtime' = <<>> /\ Listed(<<>>)
  BY DEF Stop, Listed
<1> QED
  BY <1>1, <1>2, <1>3, <1>4, <1>5, Concluded DEF Steps

-----------------------------------------------------------------------------
(* The specification *)
LEMMA StartsOK == Init => IInv
<1> SUFFICES ASSUME Init PROVE IInv
  OBVIOUS
<1>1. PICK w : w = stage
  OBVIOUS
<1>2. /\ DOMAIN w = Names
      /\ w.running = FALSE /\ w.catalog = [state |-> "Loading", sessions |-> <<>>]
      /\ w.bindings = <<>> /\ w.views = [v \in View |-> Detached]
      /\ w.registry = [s \in Session |-> NoEntry] /\ w.waiting = TRUE /\ w.retryTimer = FALSE
      /\ w.staged = <<>> /\ w.selected = None /\ w.focus = FALSE
      /\ w.viewport = [extent |-> "none", preferred |-> OneColumn] /\ w.tiling = NoTiling
      /\ w.pending = {} /\ w.active = None /\ w.links = <<>> /\ w.made = {}
  BY <1>1 DEF Init, Names
<1>3. DOMAIN <<>> = {} /\ Range(<<>>) = {} /\ Len(<<>>) = 0
  BY RangeOfNone
<1>4. HostOK(w)
  <2>1. PICK c : c = [state |-> "Loading", sessions |-> <<>>]
    OBVIOUS
  <2>2. DOMAIN c = {"state", "sessions"} /\ c.state = "Loading" /\ c.sessions = <<>>
    BY <2>1
  <2> QED
    BY <1>2, <1>3, <2>1, <2>2 DEF HostOK, Listed
<1>5. BoundSet(w) = {}
  BY <1>2, <1>3 DEF BoundSet
<1>6. Surface(w, {}, {}, {})
  <2>1. w.bindings \in Seq(Binding)
    BY <1>2
  <2>2. w.views \in [View -> ViewState] /\ w.registry \in [Session -> Entry]
    BY <1>2, DetachedIs
  <2>3. SurfaceTyped(w)
    BY <1>2, <2>1, <2>2 DEF SurfaceTyped
  <2>4. RegistryOK(w)
    <3>1. \A v \in View : w.views[v] = Detached
      BY <1>2
    <3>2. \A s \in Session : w.registry[s] = NoEntry /\ NoEntry.sub = 0
      BY <1>2 DEF NoEntry
    <3>3. Detached.session = None
      BY DEF Detached
    <3> QED
      BY <3>1, <3>2, <3>3 DEF RegistryOK, ViewOK, EntryOK
  <2> QED
    BY <1>2, <1>3, <1>5, <2>3, <2>4 DEF Surface, Formed, Unique, Shares
<1>7. Desk(w)
  <2>1. w.staged \in Seq(Session) /\ Distinct(w.staged) /\ Len(w.staged) <= MaxStaged
    BY <1>2, <1>3, LayoutAssumption DEF Distinct
  <2>2. w.viewport \in Viewport
    BY <1>2 DEF Viewport
  <2>3. PICK t : t = NoTiling
    OBVIOUS
  <2>4. DOMAIN t = {"staged", "columns", "tiles", "dividers", "moved"}
        /\ t.tiles = <<>> /\ t.dividers = <<>>
    BY <2>3 DEF NoTiling
  <2>5. BuildTiles(w.staged, w.selected, w.focus) = <<>>
    BY <1>2, <1>3 DEF BuildTiles
  <2>6. w.focus \in BOOLEAN
    BY <1>2
  <2>7. DeskTyped(w)
    <3>1. w.tiling = t
      BY <1>2, <2>3
    <3>2. DOMAIN w.tiling = {"staged", "columns", "tiles", "dividers", "moved"}
      BY <2>4, <3>1
    <3>3. w.tiling.dividers \in Seq(Divider)
      <4>1. w.tiling.dividers = <<>>
        BY <2>4, <3>1
      <4> QED
        BY ONLY <4>1, EmptySeq
    <3>4. w.selected \in Session \cup {None}
      BY <1>2
    <3> QED
      BY <2>1, <2>2, <2>6, <3>2, <3>3, <3>4 DEF DeskTyped
  <2>8. Laid(w)
    <3>1. w.tiling.tiles = <<>>
      BY <1>2, <2>3, <2>4
    <3> QED
      BY <1>2, <2>5, <3>1 DEF Laid
  <2>9. Chosen(w)
    <3>1. ~ w.focus
      BY <1>2
    <3> QED
      BY <1>2, <3>1 DEF Chosen
  <2> QED
    BY <2>7, <2>8, <2>9 DEF Desk
<1>8. LinksOK(w)
  <2>1. IsFiniteSet({}) /\ Cardinality({}) = 0
    BY FS_EmptySet
  <2> QED
    BY <1>2, <1>3, <2>1, LinksAssumption DEF LinksOK
<1>9. Tiled(w) /\ Retained(w) /\ Unopened(w)
  BY <1>2, <1>3, <1>5 DEF Tiled, Retained, Unopened
<1>10. Listed(runtime)
  BY <1>3 DEF Init, Listed
<1> QED
  BY <1>1, <1>4, <1>6, <1>7, <1>8, <1>9, <1>10 DEF IInv, StageOK, Whole, Set

\* Every action is a good step.
LEMMA NextSteps ==
  ASSUME IInv, Next PROVE Steps
BY StartSteps, StopSteps, AuthSteps, AuthStepSteps, SnapshotSteps, InvalidSnapshotSteps,
   ResultSteps, ErrorSteps, DeadlineSteps,
   UserActivatesSteps, UserMinimizesSteps, UserSelectsSteps, UserTogglesFocusSteps,
   UserRefreshesSteps, UserRoutesSteps, UserCreatesSteps, UserClosesSteps, UserResizesSteps,
   UserMovesDividerSteps, UserRetriesSteps, BindExtraSteps, DetachExtraSteps,
   ConnectionOpensSteps, ConnectionRefusedSteps, TerminalEndsSteps, ViewHearsSteps,
   FrameShownSteps, ViewOverflowsSteps, RetryTimerSteps, CheckpointTimerSteps DEF Next

\* The invariant is kept by every step.
LEMMA StepsOK == IInv /\ [Next]_vars => IInv'
<1> SUFFICES ASSUME IInv, [Next]_vars PROVE IInv'
  OBVIOUS
<1>1. CASE Next
  <2>1. Steps
    BY <1>1, NextSteps
  <2> QED
    BY <2>1 DEF Steps, Good, IInv
<1>2. CASE UNCHANGED vars
  <2>1. stage' = stage /\ runtime' = runtime
    BY <1>2 DEF vars
  <2> QED
    BY <2>1 DEF IInv
<1> QED
  BY <1>1, <1>2

\* The inductive invariant holds always: the stage is whole - host, surfaces, desktop,
\* tiles, what the catalog retains, requests and links - the active link is one whose
\* session the catalog does not know, and the runtime lists what a catalog may list.
THEOREM Invariance == Spec => []IInv
BY StartsOK, StepsOK, PTL DEF Spec

-----------------------------------------------------------------------------
(* What it says. *)
LEMMA InvTypeOK == IInv => TypeOK
<1> SUFFICES ASSUME IInv PROVE TypeOK
  OBVIOUS
<1>1. HostOK(stage) /\ SurfaceTyped(stage) /\ Surface(stage, {}, {}, {}) /\ DeskTyped(stage) /\ LinksOK(stage)
  BY DEF IInv, StageOK, Whole, Set, Desk, Surface, Formed
<1>2. ASSUME NEW b \in Bindings
      PROVE  /\ b.view \in View /\ b.session \in Session /\ b.inc \in 0 .. MaxInc
             /\ b.attempts \in 0 .. RetryLimit + 1
             /\ b.attached <=> b.sub # 0
  <2>1. PICK i \in DOMAIN stage.bindings : b = stage.bindings[i]
    BY DEF Bindings
  <2>2. b \in Binding
    BY <1>1, <2>1, ElementOfSeq DEF SurfaceTyped
  <2>3. b = BindingOf(stage, b.view) /\ b.view \in BoundSet(stage)
    BY <1>1, <2>1, PositionIs, FormedHeld DEF BoundSet, Surface
  <2>4. Sound(b)
    BY <1>1, <2>3 DEF Surface, Fits, BindingOK
  <2> QED
    BY <2>2, <2>4 DEF Binding, Sound
<1>3. \A v \in View : stage.views[v].session \in Session \cup {None}
  BY <1>1 DEF SurfaceTyped, ViewState
<1> QED
  BY <1>1, <1>2, <1>3 DEF TypeOK, HostOK, Listed, DeskTyped, LinksOK

\* A binding of the stage is one of its bound views, and fits.
LEMMA BindingsFit ==
  ASSUME IInv, NEW b \in Bindings
  PROVE  /\ b.view \in BoundSet(stage) /\ b = BindingOf(stage, b.view) /\ b \in Binding
         /\ BindingOK(stage, b) /\ Carried(stage, b) /\ Settled(stage, b) /\ Timed(stage, b)
<1>1. Surface(stage, {}, {}, {}) /\ SurfaceTyped(stage)
  BY DEF IInv, StageOK, Whole, Set, Surface, Formed
<1>2. PICK i \in DOMAIN stage.bindings : b = stage.bindings[i]
  BY DEF Bindings
<1>3. b \in Binding
  BY <1>1, <1>2, ElementOfSeq DEF SurfaceTyped
<1>4. b = BindingOf(stage, b.view) /\ b.view \in BoundSet(stage)
  BY <1>1, <1>2, PositionIs, FormedHeld DEF BoundSet, Surface
<1>5. Fits(stage, b.view, {}, {}, {})
  BY <1>1, <1>4 DEF Surface
<1> QED
  BY <1>3, <1>4, <1>5 DEF Fits

\* Bindings that fit are in line with the catalog.
LEMMA InvAttachedAsListed == IInv => AttachedAsListed
<1> SUFFICES ASSUME IInv, NEW b \in Bindings, b.attached
             PROVE  /\ stage.running /\ ~stage.waiting
                    /\ Known(stage, b.session) => /\ b.inc = Incarnation(stage, b.session)
                                                  /\ CanRetain(stage, b.session)
                                                  /\ Away(stage, b.session) => ~b.connected
                    /\ \/ stage.views[b.view] = Detached
                       \/ /\ stage.views[b.view].session = b.session
                          /\ stage.views[b.view].sub = b.sub
                    /\ \A c \in Bindings : c.attached /\ c.session = b.session => c.sub = b.sub
  BY DEF AttachedAsListed
<1>1. /\ b.view \in BoundSet(stage) /\ b = BindingOf(stage, b.view) /\ b \in Binding
      /\ BindingOK(stage, b) /\ Settled(stage, b)
  BY BindingsFit
<1>2. b.inc # 0 /\ stage.running /\ ~stage.waiting
  BY <1>1 DEF BindingOK
<1>3. /\ b.inc = Incarnation(stage, b.session) /\ CanRetain(stage, b.session)
      /\ Away(stage, b.session) => ~b.connected
  BY <1>1, <1>2 DEF Settled, Current, Noted
<1>4. Surface(stage, {}, {}, {}) /\ b.view \in View
  BY <1>1 DEF IInv, StageOK, Whole, Set, Binding
<1>5. \/ stage.views[b.view] = Detached
      \/ stage.views[b.view].session = b.session /\ stage.views[b.view].sub = b.sub
  <2>1. ViewOK(stage, b.view)
    BY <1>4 DEF Surface, Formed, RegistryOK
  <2> QED
    BY <1>1, <2>1 DEF BindingOK, ViewOK
<1>6. ASSUME NEW c \in Bindings, c.attached, c.session = b.session PROVE c.sub = b.sub
  <2>1. /\ c.view \in BoundSet(stage) /\ c = BindingOf(stage, c.view)
        /\ BindingOK(stage, c) /\ Settled(stage, c)
    BY BindingsFit
  <2>2. c.inc = b.inc
    BY <1>3, <1>6, <2>1 DEF BindingOK, Settled, Current
  <2>3. Alike(c, b)
    BY <1>1, <1>4, <2>1 DEF Surface, Shares
  <2> QED
    BY <1>6, <2>2, <2>3 DEF Alike
<1> QED
  BY <1>2, <1>3, <1>5, <1>6

\* Bindings that fit are attached and under way, retried, or say what is wrong.
LEMMA InvNoSilentTile == IInv => NoSilentTile
<1> SUFFICES ASSUME IInv, NEW s \in Range(stage.staged) PROVE Served(s)
  BY DEF NoSilentTile
<1>1. Surface(stage, {}, {}, {}) /\ Tiled(stage) /\ DeskTyped(stage)
  BY DEF IInv, StageOK, Whole, Set, Desk
<1>2. s \in BoundSet(stage) /\ s \in Session
  BY <1>1 DEF Tiled
<1>3. PICK b : b = BindingOf(stage, s)
  OBVIOUS
<1>4. b.view = s /\ Bound(stage, s)
  BY <1>1, <1>2, <1>3, BindingIs, NoPosition, FormedHeld DEF Surface
<1>5. BindingOK(stage, b) /\ Settled(stage, b) /\ Timed(stage, b)
  BY <1>1, <1>2, <1>3 DEF Surface, Fits
<1>6. b.session = s /\ stage.views[s].session \in {None, s}
  BY <1>2, <1>4, <1>5 DEF BindingOK
<1> QED
  BY <1>3, <1>4, <1>5, <1>6 DEF Served, Settled, Going, Live, Timed

\* The tiles bound are those staged.
LEMMA InvStageShown == IInv => StageShown
<1> SUFFICES ASSUME IInv PROVE StageShown
  OBVIOUS
<1>1. Desk(stage) /\ Tiled(stage) /\ Retained(stage) /\ DeskTyped(stage) /\ Laid(stage) /\ Chosen(stage)
  BY DEF IInv, StageOK, Whole, Set, Desk
<1>2. PICK tiles : tiles = stage.tiling.tiles
  OBVIOUS
<1>3. tiles = [i \in DOMAIN stage.staged |->
                 [id |-> <<"tile", stage.staged[i]>>,
                  visible |-> ~stage.focus \/ stage.staged[i] = stage.selected]]
  BY <1>1, <1>2 DEF Laid, BuildTiles
<1>4. [i \in DOMAIN tiles |-> tiles[i].id] = [i \in DOMAIN stage.staged |-> <<"tile", stage.staged[i]>>]
  BY <1>3
<1>5. ASSUME stage.focus
      PROVE  {t \in Range(tiles) : t.visible} = {[id |-> <<"tile", stage.selected>>, visible |-> TRUE]}
  <2>1. PICK k \in DOMAIN stage.staged : stage.staged[k] = stage.selected
    BY <1>1, <1>5 DEF Chosen, Range
  <2>2. PICK e : e = [id |-> <<"tile", stage.selected>>, visible |-> TRUE]
    OBVIOUS
  <2>3. tiles[k] = e /\ k \in DOMAIN tiles /\ e.visible
    BY <1>3, <1>5, <2>1, <2>2
  <2>4. ASSUME NEW i \in DOMAIN tiles, tiles[i].visible PROVE tiles[i] = e
    BY <1>3, <1>5, <2>2, <2>4
  <2> QED
    BY <2>2, <2>3, <2>4 DEF Range
<1>6. {b.view : b \in Bindings} = BoundSet(stage)
  BY DEF Bindings, BoundSet
<1> QED
  BY <1>1, <1>2, <1>4, <1>5, <1>6 DEF StageShown, Laid, Chosen, Tiled, Retained

\* The state is well typed and within its limits (a binding has used at most RetryLimit + 1
\* attempts), for every number of sessions and views and every value of MaxStaged,
\* MaxPending, MaxLinks and RetryLimit.
THEOREM TypeCorrect == Spec => []TypeOK
BY Invariance, InvTypeOK, PTL

\* The controller never counts a binding as attached that the catalog no longer has in
\* that incarnation or does not let it show, and bindings of one incarnation share their
\* subscription, through restarts, snapshots, overflows, retries and timers in any order.
THEOREM AttachedAsListedAlways == Spec => []AttachedAsListed
BY Invariance, InvAttachedAsListed, PTL

\* No tile is left with nothing to show and nothing under way that will change that, but
\* for a tile whose Retry could not activate its session, which shows its failure no more.
THEOREM NoSilentTileAlways == Spec => []NoSilentTile
BY Invariance, InvNoSilentTile, PTL

\* The layout, the selection, the focus mode and the bindings agree with what is staged,
\* and an authoritative catalog retains all of it.
THEOREM StageShownAlways == Spec => []StageShown
BY Invariance, InvStageShown, PTL

\* A session that stays on stage keeps its terminal view, whatever else a step does.
THEOREM TilesKeptAlways == Spec => TilesKept
<1>1. IInv /\ [Next]_vars =>
        [\A s \in Range(stage.staged) \cap Range(stage.staged') : s \notin stage'.made]_vars
  <2> SUFFICES ASSUME IInv, Next
               PROVE  \A s \in Range(stage.staged) \cap Range(stage.staged') : s \notin stage'.made
    OBVIOUS
  <2> QED
    BY NextSteps DEF Steps, Good, Keeps
<1> QED
  BY <1>1, Invariance, PTL DEF Spec, TilesKept

\* A link leaves by being staged, with an error, with the account's data, or because
\* another session became the active one.
THEOREM LinksHeardAlways == Spec => LinksHeard
<1>1. IInv /\ [Next]_vars =>
        [\A s \in Following(stage) \ Following(stage') :
          \/ s \in Range(stage.staged')
          \/ stage'.reported
          \/ stage'.catalog.state # "Loaded" /\ stage'.catalog.sessions = <<>>
          \/ s = stage.active /\ stage'.active # None /\ stage'.links = stage.links]_vars
  <2> SUFFICES ASSUME IInv, Next
               PROVE  Voices(stage, stage')
    BY DEF Voices
  <2> QED
    BY NextSteps DEF Steps, Good
<1> QED
  BY <1>1, Invariance, PTL DEF Spec, LinksHeard
=============================================================================
