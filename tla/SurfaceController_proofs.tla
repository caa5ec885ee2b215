------------------------ MODULE SurfaceController_proofs ------------------------
(***************************************************************************)
(* Lemmas about the surfaces of the stage, for any sessions and views and  *)
(* any limits, and what Stage_proofs is built from: folds, sequences, rows, *)
(* the parts of the inductive invariant, and the handlers of               *)
(* SurfaceController.                                                      *)
(*                                                                         *)
(* A handler of the desktop is an operator from a stage to a stage, so a   *)
(* lemma says of each what it needs of the stage w it is given and what it *)
(* promises of the stage u it leaves.  In the middle of a step what holds  *)
(* between steps need not: Surface(w, A, B, C) says of the surfaces that   *)
(* all is well but for the bindings of A, which are not carried by any     *)
(* answer to come, those of B, which are not in line with the catalog, and *)
(* those of C, whose retry has no timer yet.  Does(w, u, v, A, B, C) says  *)
(* of a handler of the view v that it leaves the other views alone and v   *)
(* in none of the three.  The handlers called along a sequence are walks,  *)
(* and for a walk it is enough that each of its calls does its own.        *)
(***************************************************************************)
EXTENDS Stage, WellFoundedInduction, FiniteSetTheorems, SequenceTheorems, TLAPS

-----------------------------------------------------------------------------
(* Folds.  FoldLeft is defined by recursion on sets of indices, so that its *)
(* definition has a solution is to be shown first; then what it returns is  *)
(* the last of a walk from state to state, one handler call at a time.      *)

\* A set of naturals that is not empty has a least element.
LEMMA Least ==
  ASSUME NEW T \in SUBSET Nat, T # {}
  PROVE  \E x \in T : \A y \in T : x <= y
<1>1. IsWellFoundedOn(OpToRel(<, Nat), Nat)
  BY NatLessThanWellFounded
<1>2. PICK x \in T : \A y \in T : ~(<<y, x>> \in OpToRel(<, Nat))
  BY <1>1, WFMin
<1>3. \A y \in T : ~(y < x)
  BY <1>2 DEF OpToRel
<1> QED
  BY <1>3

\* Induction over the naturals, for a set: the theorems of the library take an operator.
LEMMA Induct ==
  ASSUME NEW S \in SUBSET Nat, 0 \in S, \A n \in S : n + 1 \in S
  PROVE  S = Nat
<1> SUFFICES ASSUME Nat \ S # {} PROVE FALSE
  OBVIOUS
<1>1. PICK x \in Nat \ S : \A y \in Nat \ S : x <= y
  BY Least
<1>2. x - 1 \in Nat /\ x - 1 \in S
  BY <1>1
<1> QED
  BY <1>1, <1>2

\* The greatest index of a set that contains the last one.
LEMMA TopIsMax ==
  ASSUME NEW k \in Nat, NEW s \in SUBSET (1 .. k + 1), k + 1 \in s
  PROVE  Max(s) = k + 1
<1>1. \A y \in s : k + 1 >= y
  OBVIOUS
<1>2. /\ Max(s) \in s
      /\ \A y \in s : Max(s) >= y
  BY <1>1 DEF Max
<1>3. \A x \in s : x \in Nat /\ x <= k + 1
  OBVIOUS
<1>4. Max(s) \in Nat /\ Max(s) <= k + 1 /\ Max(s) >= k + 1
  BY <1>2, <1>3
<1> HIDE DEF Max
<1> QED
  BY <1>4

\* The initial segments of 1 .. n, on which the fold goes forward one index at a time.
LEMMA Initials ==
  ASSUME NEW n \in Nat
  PROVE  /\ 1 .. 0 = {} /\ {} \in SUBSET (1 .. n)
         /\ \A k \in 1 .. n : /\ 1 .. k \in SUBSET (1 .. n) /\ 1 .. k # {}
                             /\ Max(1 .. k) = k
                             /\ (1 .. k) \ {k} = 1 .. k - 1
<1>1. ASSUME NEW k \in 1 .. n
      PROVE  1 .. k \in SUBSET (1 .. n) /\ 1 .. k # {} /\ (1 .. k) \ {k} = 1 .. k - 1
  OBVIOUS
<1>2. ASSUME NEW k \in 1 .. n PROVE Max(1 .. k) = k
  <2>1. PICK j \in Nat : k = j + 1
    <3>1. k - 1 \in Nat /\ k = (k - 1) + 1
      OBVIOUS
    <3> QED
      BY <3>1
  <2> QED
    BY <2>1, TopIsMax
<1> QED
  BY <1>1, <1>2

\* What holds at 0 and is handed from k - 1 to k holds all along a table.
LEMMA Along ==
  ASSUME NEW n \in Nat, NEW D, NEW h, h[0] \in D,
         \A k \in 1 .. n : h[k - 1] \in D => h[k] \in D
  PROVE  \A k \in 0 .. n : h[k] \in D
<1> DEFINE S == {k \in Nat : k <= n => h[k] \in D}
<1>1. 0 \in S
  OBVIOUS
<1>2. ASSUME NEW k \in S PROVE k + 1 \in S
  <2> SUFFICES ASSUME k + 1 <= n PROVE h[k + 1] \in D
    OBVIOUS
  <2>1. h[k] \in D /\ k + 1 \in 1 .. n /\ (k + 1) - 1 = k
    OBVIOUS
  <2> QED
    BY <2>1
<1>3. S = Nat
  <2>1. S \in SUBSET Nat
    OBVIOUS
  <2> HIDE DEF S
  <2> QED
    BY <1>1, <1>2, <2>1, Induct
<1>4. ASSUME NEW k \in 0 .. n PROVE h[k] \in D
  <2>1. k \in S
    BY <1>3
  <2> QED
    BY <2>1
<1> QED
  BY <1>4

\* The handlers that are called along a sequence; c is what they are given besides.
Handled(kind, c, w, e) ==
  CASE kind = "detach" -> DetachView(w, e)
    [] kind = "reconcile" -> ReconcileBinding(w, e)
    [] kind = "again" -> IF BindingOf(w, e).retry
                         THEN TryAttach(Rebound(w, e, [BindingOf(w, e) EXCEPT !.retry = FALSE]), e)
                         ELSE w
    [] kind = "make" -> MakeTile(w, e)
    [] kind = "destroy" -> DestroyTile(w, e)
    [] kind = "keep" -> IF CanRetain(w, e) THEN w ELSE UnstageSession(w, e)
    [] kind = "activate" -> Activate(w, e)
    [] kind = "place" -> Place(w, e, c[e])

\* f solves the recursion of a fold of q from base.
IsTable(kind, c, base, q, n, f) ==
  f = [s \in SUBSET (1 .. n) |->
         IF s = {} THEN base ELSE Handled(kind, c, f[s \ {Max(s)}], q[Max(s)])]

\* It has a solution.
LEMMA Table ==
  ASSUME NEW kind, NEW c, NEW base, NEW q, NEW n \in Nat
  PROVE  \E f : IsTable(kind, c, base, q, n, f)
<1> DEFINE Good(k, f) == /\ DOMAIN f = SUBSET (1 .. k)
                         /\ f = [s \in SUBSET (1 .. k) |-> f[s]]
                         /\ \A s \in SUBSET (1 .. k) :
                              f[s] = IF s = {} THEN base
                                     ELSE Handled(kind, c, f[s \ {Max(s)}], q[Max(s)])
           S == {k \in Nat : \E f : Good(k, f)}
<1> HIDE DEF Good
<1>1. 0 \in S
  <2> DEFINE f0 == [s \in SUBSET (1 .. 0) |-> base]
  <2>1. Good(0, f0)
    BY DEF Good
  <2> HIDE DEF f0
  <2> QED
    BY <2>1
<1>2. ASSUME NEW k \in S PROVE k + 1 \in S
  <2>1. k \in Nat
    OBVIOUS
  <2>2. PICK f : Good(k, f)
    OBVIOUS
  <2> DEFINE g == [s \in SUBSET (1 .. k + 1) |->
                     IF k + 1 \in s THEN Handled(kind, c, f[s \ {k + 1}], q[k + 1]) ELSE f[s]]
  <2>3. ASSUME NEW s \in SUBSET (1 .. k + 1) PROVE s \ {k + 1} \in SUBSET (1 .. k)
    OBVIOUS
  <2>4. ASSUME NEW s \in SUBSET (1 .. k + 1)
        PROVE  g[s] = IF s = {} THEN base ELSE Handled(kind, c, g[s \ {Max(s)}], q[Max(s)])
    <3>1. CASE k + 1 \in s
      <4>1. Max(s) = k + 1
        BY <3>1, TopIsMax
      <4>2. s \ {k + 1} \in SUBSET (1 .. k) /\ s \ {k + 1} \in SUBSET (1 .. k + 1)
        BY <2>3
      <4>3. g[s \ {k + 1}] = f[s \ {k + 1}]
        BY <4>2
      <4>4. g[s] = Handled(kind, c, f[s \ {k + 1}], q[k + 1])
        BY <3>1
      <4> HIDE DEF g
      <4> QED
        BY <3>1, <4>1, <4>3, <4>4
    <3>2. CASE k + 1 \notin s
      <4>1. s \in SUBSET (1 .. k)
        BY <2>3, <3>2
      <4>2. \A t \in SUBSET s : g[t] = f[t]
        BY <3>2, <4>1
      <4>3. s \ {Max(s)} \in SUBSET s /\ s \in SUBSET s
        OBVIOUS
      <4>4. f[s] = IF s = {} THEN base ELSE Handled(kind, c, f[s \ {Max(s)}], q[Max(s)])
        BY <2>2, <4>1 DEF Good
      <4>5. g[s] = f[s] /\ g[s \ {Max(s)}] = f[s \ {Max(s)}]
        BY <4>2, <4>3
      <4> HIDE DEF g
      <4> QED
        BY <4>4, <4>5
    <3> QED
      BY <3>1, <3>2
  <2>5. DOMAIN g = SUBSET (1 .. k + 1) /\ g = [s \in SUBSET (1 .. k + 1) |-> g[s]]
    OBVIOUS
  <2> HIDE DEF g
  <2>6. Good(k + 1, g)
    BY <2>4, <2>5 DEF Good
  <2> QED
    BY <2>1, <2>6
<1>3. S = Nat
  <2>1. S \in SUBSET Nat
    OBVIOUS
  <2> HIDE DEF S
  <2> QED
    BY <1>1, <1>2, <2>1, Induct
<1>4. PICK f : Good(n, f)
  BY <1>3
<1>5. f = [s \in SUBSET (1 .. n) |->
             IF s = {} THEN base ELSE Handled(kind, c, f[s \ {Max(s)}], q[Max(s)])]
  BY <1>4 DEF Good
<1> HIDE DEF Good, S
<1> QED
  BY <1>5 DEF IsTable

\* h goes from base along q, one call at a time.
Walk(kind, c, base, q, n, h) ==
  h[0] = base /\ \A k \in 1 .. n : h[k] = Handled(kind, c, h[k - 1], q[k])

\* Such a solution, at the initial segments of the indices, is a walk.
LEMMA TableWalks ==
  ASSUME NEW kind, NEW c, NEW base, NEW q, NEW n \in Nat,
         NEW f, IsTable(kind, c, base, q, n, f)
  PROVE  \E h : Walk(kind, c, base, q, n, h) /\ f[1 .. n] = h[n]
<1> DEFINE h == [k \in 0 .. n |-> f[1 .. k]]
<1>1. h[0] = base
  <2>1. 0 \in 0 .. n /\ 1 .. 0 = {} /\ {} \in SUBSET (1 .. n)
    BY Initials
  <2>2. h[0] = f[1 .. 0]
    BY <2>1
  <2> HIDE DEF h
  <2> QED
    BY <2>1, <2>2 DEF IsTable
<1>2. ASSUME NEW k \in 1 .. n PROVE h[k] = Handled(kind, c, h[k - 1], q[k])
  <2>1. /\ 1 .. k \in SUBSET (1 .. n) /\ 1 .. k # {}
        /\ Max(1 .. k) = k /\ (1 .. k) \ {k} = 1 .. k - 1
    BY Initials
  <2>2. k \in 0 .. n /\ k - 1 \in 0 .. n
    OBVIOUS
  <2>3. f[1 .. k] = Handled(kind, c, f[1 .. k - 1], q[k])
    BY <2>1 DEF IsTable
  <2> QED
    BY <2>2, <2>3
<1>3. h[n] = f[1 .. n]
  <2>1. n \in 0 .. n
    OBVIOUS
  <2> QED
    BY <2>1
<1> HIDE DEF h
<1> QED
  BY <1>1, <1>2, <1>3 DEF Walk

\* Detaching all views is a walk.
LEMMA DetachWalk ==
  ASSUME NEW w, NEW q, NEW n \in Nat, DOMAIN q = 1 .. n
  PROVE  \E h : Walk("detach", {}, w, q, n, h) /\ FoldLeft(DetachView, w, q) = h[n]
<1> DEFINE Solves(f) == f = [s \in SUBSET (1 .. n) |->
                              IF s = {} THEN w ELSE DetachView(f[s \ {Max(s)}], q[Max(s)])]
           it == CHOOSE f : Solves(f)
<1>1. \E f : Solves(f)
  <2>1. PICK f : IsTable("detach", {}, w, q, n, f)
    BY Table
  <2>2. Solves(f)
    BY <2>1 DEF Handled, IsTable
  <2> QED
    BY <2>2
<1>2. Solves(it)
  BY <1>1
<1>3. FoldLeft(DetachView, w, q) = it[1 .. n]
  BY DEF FoldLeft, MapThenFoldSet
<1> HIDE DEF it
<1>4. IsTable("detach", {}, w, q, n, it)
  BY <1>2 DEF Handled, IsTable
<1> QED
  BY <1>3, <1>4, TableWalks

\* Reconciling the bindings is a walk.
LEMMA ReconcileWalk ==
  ASSUME NEW w, NEW q, NEW n \in Nat, DOMAIN q = 1 .. n
  PROVE  \E h : Walk("reconcile", {}, w, q, n, h) /\ FoldLeft(ReconcileBinding, w, q) = h[n]
<1> DEFINE Solves(f) == f = [s \in SUBSET (1 .. n) |->
                              IF s = {} THEN w ELSE ReconcileBinding(f[s \ {Max(s)}], q[Max(s)])]
           it == CHOOSE f : Solves(f)
<1>1. \E f : Solves(f)
  <2>1. PICK f : IsTable("reconcile", {}, w, q, n, f)
    BY Table
  <2>2. Solves(f)
    BY <2>1 DEF Handled, IsTable
  <2> QED
    BY <2>2
<1>2. Solves(it)
  BY <1>1
<1>3. FoldLeft(ReconcileBinding, w, q) = it[1 .. n]
  BY DEF FoldLeft, MapThenFoldSet
<1> HIDE DEF it
<1>4. IsTable("reconcile", {}, w, q, n, it)
  BY <1>2 DEF Handled, IsTable
<1> QED
  BY <1>3, <1>4, TableWalks

\* Making the tiles is a walk.
LEMMA MakeWalk ==
  ASSUME NEW w, NEW q, NEW n \in Nat, DOMAIN q = 1 .. n
  PROVE  \E h : Walk("make", {}, w, q, n, h) /\ FoldLeft(MakeTile, w, q) = h[n]
<1> DEFINE Solves(f) == f = [s \in SUBSET (1 .. n) |->
                              IF s = {} THEN w ELSE MakeTile(f[s \ {Max(s)}], q[Max(s)])]
           it == CHOOSE f : Solves(f)
<1>1. \E f : Solves(f)
  <2>1. PICK f : IsTable("make", {}, w, q, n, f)
    BY Table
  <2>2. Solves(f)
    BY <2>1 DEF Handled, IsTable
  <2> QED
    BY <2>2
<1>2. Solves(it)
  BY <1>1
<1>3. FoldLeft(MakeTile, w, q) = it[1 .. n]
  BY DEF FoldLeft, MapThenFoldSet
<1> HIDE DEF it
<1>4. IsTable("make", {}, w, q, n, it)
  BY <1>2 DEF Handled, IsTable
<1> QED
  BY <1>3, <1>4, TableWalks

\* Destroying the tiles is a walk.
LEMMA DestroyWalk ==
  ASSUME NEW w, NEW q, NEW n \in Nat, DOMAIN q = 1 .. n
  PROVE  \E h : Walk("destroy", {}, w, q, n, h) /\ FoldLeft(DestroyTile, w, q) = h[n]
<1> DEFINE Solves(f) == f = [s \in SUBSET (1 .. n) |->
                              IF s = {} THEN w ELSE DestroyTile(f[s \ {Max(s)}], q[Max(s)])]
           it == CHOOSE f : Solves(f)
<1>1. \E f : Solves(f)
  <2>1. PICK f : IsTable("destroy", {}, w, q, n, f)
    BY Table
  <2>2. Solves(f)
    BY <2>1 DEF Handled, IsTable
  <2> QED
    BY <2>2
<1>2. Solves(it)
  BY <1>1
<1>3. FoldLeft(DestroyTile, w, q) = it[1 .. n]
  BY DEF FoldLeft, MapThenFoldSet
<1> HIDE DEF it
<1>4. IsTable("destroy", {}, w, q, n, it)
  BY <1>2 DEF Handled, IsTable
<1> QED
  BY <1>3, <1>4, TableWalks

\* Activating sessions one after the other is a walk.
LEMMA ActivateWalk ==
  ASSUME NEW w, NEW q, NEW n \in Nat, DOMAIN q = 1 .. n
  PROVE  \E h : Walk("activate", {}, w, q, n, h) /\ FoldLeft(Activate, w, q) = h[n]
<1> DEFINE Solves(f) == f = [s \in SUBSET (1 .. n) |->
                              IF s = {} THEN w ELSE Activate(f[s \ {Max(s)}], q[Max(s)])]
           it == CHOOSE f : Solves(f)
<1>1. \E f : Solves(f)
  <2>1. PICK f : IsTable("activate", {}, w, q, n, f)
    BY Table
  <2>2. Solves(f)
    BY <2>1 DEF Handled, IsTable
  <2> QED
    BY <2>2
<1>2. Solves(it)
  BY <1>1
<1>3. FoldLeft(Activate, w, q) = it[1 .. n]
  BY DEF FoldLeft, MapThenFoldSet
<1> HIDE DEF it
<1>4. IsTable("activate", {}, w, q, n, it)
  BY <1>2 DEF Handled, IsTable
<1> QED
  BY <1>3, <1>4, TableWalks

\* What the retry timer does to the bindings is a walk.
LEMMA AgainWalk ==
  ASSUME NEW w, NEW n \in Nat, DOMAIN BoundViews(w) = 1 .. n
  PROVE  \E h : /\ Walk("again", {}, [w EXCEPT !.retryTimer = FALSE], BoundViews(w), n, h)
                /\ RetryPendingAttachments(w) = h[n]
<1> DEFINE base == [w EXCEPT !.retryTimer = FALSE]
           Again(x, v) == IF BindingOf(x, v).retry
                          THEN TryAttach(Rebound(x, v, [BindingOf(x, v) EXCEPT !.retry = FALSE]), v)
                          ELSE x
           Solves(f) == f = [s \in SUBSET (1 .. n) |->
                              IF s = {} THEN base
                              ELSE Again(f[s \ {Max(s)}], BoundViews(w)[Max(s)])]
           it == CHOOSE f : Solves(f)
<1>1. RetryPendingAttachments(w) = it[1 .. n]
  BY DEF RetryPendingAttachments, FoldLeft, MapThenFoldSet
<1>2. ASSUME NEW x, NEW v PROVE Handled("again", {}, x, v) = Again(x, v)
  BY DEF Handled
<1> HIDE DEF Again, base
<1>3. ASSUME NEW f PROVE Solves(f) <=> IsTable("again", {}, base, BoundViews(w), n, f)
  <2>1. [s \in SUBSET (1 .. n) |->
          IF s = {} THEN base ELSE Again(f[s \ {Max(s)}], BoundViews(w)[Max(s)])]
        = [s \in SUBSET (1 .. n) |->
            IF s = {} THEN base
            ELSE Handled("again", {}, f[s \ {Max(s)}], BoundViews(w)[Max(s)])]
    BY ONLY <1>2
  <2> QED
    BY ONLY <2>1 DEF IsTable
<1>4. \E f : Solves(f)
  BY <1>3, Table
<1>5. Solves(it)
  BY ONLY <1>4
<1>6. IsTable("again", {}, base, BoundViews(w), n, it)
  BY ONLY <1>3, <1>5
<1> HIDE DEF it
<1> QED
  BY <1>1, <1>6, TableWalks DEF base

\* What the desktop does with an authoritative catalog is a walk along the stage.
LEMMA KeepWalk ==
  ASSUME NEW w, NEW n \in Nat, DOMAIN w.staged = 1 .. n, Authoritative(w)
  PROVE  \E h : Walk("keep", {}, w, w.staged, n, h) /\ DesktopReconcile(w) = h[n]
<1> DEFINE Solves(f) == f = [s \in SUBSET (1 .. n) |->
                              IF s = {} THEN w
                              ELSE IF CanRetain(f[s \ {Max(s)}], w.staged[Max(s)])
                              THEN f[s \ {Max(s)}]
                              ELSE UnstageSession(f[s \ {Max(s)}], w.staged[Max(s)])]
           it == CHOOSE f : Solves(f)
<1>1. \E f : Solves(f)
  <2>1. PICK f : IsTable("keep", {}, w, w.staged, n, f)
    BY Table
  <2>2. Solves(f)
    BY <2>1 DEF Handled, IsTable
  <2> QED
    BY <2>2
<1>2. Solves(it)
  BY <1>1
<1>3. DesktopReconcile(w) = it[1 .. n]
  BY DEF DesktopReconcile, FoldLeft, MapThenFoldSet
<1> HIDE DEF it
<1>4. IsTable("keep", {}, w, w.staged, n, it)
  BY <1>2 DEF Handled, IsTable
<1> QED
  BY <1>3, <1>4, TableWalks

\* Synchronizing the rows is a walk along the targets, of which a prefix is kept.
LEMMA PlaceWalk ==
  ASSUME NEW rows, NEW wanted, NEW n \in Nat, DOMAIN wanted = 1 .. n, Len(wanted) = n
  PROVE  \E h : /\ Walk("place", wanted, [rows |-> rows, made |-> <<>>],
                         [target \in 1 .. n |-> target], n, h)
                /\ Synchronized(rows, wanted) = CutTo(n, h[n])
<1> DEFINE base == [rows |-> rows, made |-> <<>>]
           q == [target \in 1 .. n |-> target]
           Solves(f) == f = [s \in SUBSET (1 .. n) |->
                              IF s = {} THEN base
                              ELSE Place(f[s \ {Max(s)}], q[Max(s)], wanted[q[Max(s)]])]
           it == CHOOSE f : Solves(f)
<1>1. \E f : Solves(f)
  <2>1. PICK f : IsTable("place", wanted, base, q, n, f)
    BY Table
  <2>2. Solves(f)
    BY <2>1 DEF Handled, IsTable
  <2> QED
    BY <2>2
<1>2. Solves(it)
  BY <1>1
<1>3. Synchronized(rows, wanted) = CutTo(n, it[1 .. n])
  BY DEF Synchronized, FoldLeft, MapThenFoldSet
<1> HIDE DEF it
<1>4. IsTable("place", wanted, base, q, n, it)
  BY <1>2 DEF Handled, IsTable
<1> QED
  BY <1>3, <1>4, TableWalks

-----------------------------------------------------------------------------
(* Sequences: one element taken out, one put in, the first of a kind.       *)

\* The least of a set of naturals.
LEMMA MinIs ==
  ASSUME NEW T \in SUBSET Nat, T # {}
  PROVE  Min(T) \in T /\ \A y \in T : Min(T) <= y
<1>1. \E x \in T : \A y \in T : x <= y
  BY Least
<1>2. \E x \in T : \A y \in T : x =< y
  BY <1>1
<1> QED
  BY <1>2 DEF Min

\* A piece of a sequence: what it is of, how long, and its elements.
LEMMA Cuts ==
  ASSUME NEW E, NEW s \in Seq(E), NEW n \in Nat, Len(s) = n, NEW i \in Nat, NEW k \in Nat,
         1 <= i, k <= n, i <= k + 1, NEW r, r = SubSeq(s, i, k)
  PROVE  /\ r \in Seq(E) /\ Len(r) = k - i + 1
         /\ \A j \in 1 .. k - i + 1 : r[j] = s[i + j - 1]
<1>1. \A j \in i .. k : s[j] \in E
  <2>1. \A j \in 1 .. n : s[j] \in E
    BY ElementOfSeq
  <2> QED
    BY <2>1
<1>2. i \in Int /\ k \in Int
  OBVIOUS
<1>3. /\ SubSeq(s, i, k) \in Seq(E)
      /\ Len(SubSeq(s, i, k)) = IF i <= k THEN k - i + 1 ELSE 0
      /\ \A j \in 1 .. k - i + 1 : SubSeq(s, i, k)[j] = s[i + j - 1]
  BY ONLY <1>1, <1>2, SubSeqProperties
<1> QED
  BY <1>3

\* r is s, n long, without the element at i.
IsCut(r, s, n, i) == \A k \in 1 .. n - 1 : r[k] = IF k < i THEN s[k] ELSE s[k + 1]

\* RemoveAt takes out the element at i and moves up those that follow.
LEMMA Removed ==
  ASSUME NEW E, NEW s \in Seq(E), NEW n \in Nat, Len(s) = n, NEW i \in 1 .. n,
         NEW r, r = RemoveAt(s, i)
  PROVE  r \in Seq(E) /\ Len(r) = n - 1 /\ IsCut(r, s, n, i)
<1>1. PICK a : a = SubSeq(s, 1, i - 1)
  OBVIOUS
<1>2. PICK b : b = SubSeq(s, i + 1, n)
  OBVIOUS
<1>3. a \in Seq(E) /\ Len(a) = i - 1 /\ \A j \in 1 .. i - 1 : a[j] = s[j]
  <2>1. PICK k \in Nat : i = k + 1 /\ k <= n /\ 1 \in Nat
    <3>1. i - 1 \in Nat /\ i = (i - 1) + 1
      OBVIOUS
    <3> QED
      BY <3>1
  <2>2. a = SubSeq(s, 1, k)
    BY <1>1, <2>1
  <2>3. /\ a \in Seq(E) /\ Len(a) = k - 1 + 1
        /\ \A j \in 1 .. k - 1 + 1 : a[j] = s[1 + j - 1]
    BY <2>1, <2>2, Cuts
  <2> QED
    BY <2>1, <2>3
<1>4. b \in Seq(E) /\ Len(b) = n - i /\ \A j \in 1 .. n - i : b[j] = s[i + j]
  <2>1. PICK k \in Nat : k = i + 1 /\ 1 <= k /\ k <= n + 1
    OBVIOUS
  <2>2. b = SubSeq(s, k, n)
    BY <1>2, <2>1
  <2>3. /\ b \in Seq(E) /\ Len(b) = n - k + 1
        /\ \A j \in 1 .. n - k + 1 : b[j] = s[k + j - 1]
    BY <2>1, <2>2, Cuts
  <2> QED
    BY <2>1, <2>3
<1>5. r = a \o b
  BY <1>1, <1>2 DEF RemoveAt
<1>6. /\ r \in Seq(E) /\ Len(r) = Len(a) + Len(b)
      /\ \A k \in 1 .. Len(a) + Len(b) : r[k] = IF k <= Len(a) THEN a[k] ELSE b[k - Len(a)]
  <2>1. a \in Seq(E) /\ b \in Seq(E)
    BY <1>3, <1>4
  <2>2. /\ a \o b \in Seq(E) /\ Len(a \o b) = Len(a) + Len(b)
        /\ \A k \in 1 .. Len(a) + Len(b) :
             (a \o b)[k] = IF k <= Len(a) THEN a[k] ELSE b[k - Len(a)]
    BY ONLY <2>1, ConcatProperties
  <2> QED
    BY <1>5, <2>2
<1>7. Len(r) = n - 1
  BY <1>3, <1>4, <1>6
<1>8. ASSUME NEW k \in 1 .. n - 1 PROVE r[k] = IF k < i THEN s[k] ELSE s[k + 1]
  <2>1. CASE k < i
    BY <2>1, <1>3, <1>4, <1>6
  <2>2. CASE ~(k < i)
    <3>1. k - (i - 1) \in 1 .. n - i /\ i + (k - (i - 1)) = k + 1 /\ ~(k <= i - 1)
      BY <2>2
    <3>2. r[k] = b[k - (i - 1)]
      BY <1>3, <1>4, <1>6, <3>1
    <3> QED
      BY <1>4, <3>1, <3>2, <2>2
  <2> QED
    BY <2>1, <2>2
<1> QED
  BY <1>6, <1>7, <1>8 DEF IsCut

\* r is s, n long, with e put in at i.
IsInserted(r, s, n, i, e) ==
  \A k \in 1 .. n + 1 : r[k] = IF k < i THEN s[k] ELSE IF k = i THEN e ELSE s[k - 1]

\* InsertAt puts e in at i and moves on those that follow.
LEMMA Inserted ==
  ASSUME NEW E, NEW s \in Seq(E), NEW n \in Nat, Len(s) = n, NEW i \in 1 .. n + 1, NEW e \in E,
         NEW r, r = InsertAt(s, i, e)
  PROVE  r \in Seq(E) /\ Len(r) = n + 1 /\ IsInserted(r, s, n, i, e)
<1>1. PICK a : a = SubSeq(s, 1, i - 1)
  OBVIOUS
<1>2. PICK b : b = SubSeq(s, i, n)
  OBVIOUS
<1>3. a \in Seq(E) /\ Len(a) = i - 1 /\ \A j \in 1 .. i - 1 : a[j] = s[j]
  <2>1. PICK k \in Nat : i = k + 1 /\ k <= n /\ 1 \in Nat
    <3>1. i - 1 \in Nat /\ i = (i - 1) + 1
      OBVIOUS
    <3> QED
      BY <3>1
  <2>2. a = SubSeq(s, 1, k)
    BY <1>1, <2>1
  <2>3. /\ a \in Seq(E) /\ Len(a) = k - 1 + 1
        /\ \A j \in 1 .. k - 1 + 1 : a[j] = s[1 + j - 1]
    BY <2>1, <2>2, Cuts
  <2> QED
    BY <2>1, <2>3
<1>4. b \in Seq(E) /\ Len(b) = n - i + 1 /\ \A j \in 1 .. n - i + 1 : b[j] = s[i + j - 1]
  <2>1. i \in Nat /\ 1 <= i /\ i <= n + 1
    OBVIOUS
  <2> QED
    BY <2>1, <1>2, Cuts
<1>5. <<e>> \in Seq(E) /\ Len(<<e>>) = 1 /\ <<e>>[1] = e
  OBVIOUS
<1>6. PICK c : c = a \o <<e>>
  OBVIOUS
<1>7. /\ c \in Seq(E) /\ Len(c) = i
      /\ \A k \in 1 .. i : c[k] = IF k <= i - 1 THEN a[k] ELSE <<e>>[k - (i - 1)]
  <2>1. /\ c \in Seq(E) /\ Len(c) = Len(a) + Len(<<e>>)
        /\ \A k \in 1 .. Len(a) + Len(<<e>>) : c[k] = IF k <= Len(a) THEN a[k] ELSE <<e>>[k - Len(a)]
    BY <1>3, <1>5, <1>6, ConcatProperties
  <2>2. Len(a) + Len(<<e>>) = i
    BY <1>3, <1>5
  <2> QED
    BY <2>1, <2>2, <1>3
<1>8. r = c \o b
  BY <1>1, <1>2, <1>6 DEF InsertAt
<1>9. /\ r \in Seq(E) /\ Len(r) = Len(c) + Len(b)
      /\ \A k \in 1 .. Len(c) + Len(b) : r[k] = IF k <= Len(c) THEN c[k] ELSE b[k - Len(c)]
  BY <1>4, <1>7, <1>8, ConcatProperties
<1>10. Len(r) = n + 1
  BY <1>4, <1>7, <1>9
<1>11. ASSUME NEW k \in 1 .. n + 1
       PROVE  r[k] = IF k < i THEN s[k] ELSE IF k = i THEN e ELSE s[k - 1]
  <2>0. r[k] = IF k <= i THEN c[k] ELSE b[k - i]
    BY <1>4, <1>7, <1>9
  <2>1. CASE k < i
    <3>1. k \in 1 .. i /\ k <= i - 1 /\ k \in 1 .. i - 1
      BY <2>1
    <3> QED
      BY <2>0, <2>1, <1>3, <1>7, <3>1
  <2>2. CASE k = i
    <3>1. k \in 1 .. i /\ ~(k <= i - 1) /\ k - (i - 1) = 1
      BY <2>2
    <3> QED
      BY <2>0, <2>2, <1>5, <1>7, <3>1
  <2>3. CASE k > i
    <3>1. k - i \in 1 .. n - i + 1 /\ i + (k - i) - 1 = k - 1 /\ ~(k <= i)
      BY <2>3
    <3> QED
      BY <2>0, <2>3, <1>4, <3>1
  <2> QED
    BY <2>1, <2>2, <2>3
<1> QED
  BY <1>9, <1>10, <1>11 DEF IsInserted

-----------------------------------------------------------------------------
(* The rows of the tiling: what synchronizing them leaves.                  *)

\* The row looked for, from the target on.
LEMMA SourceFinds ==
  ASSUME NEW E, NEW rows \in Seq(E), NEW n \in Nat, Len(rows) = n, NEW target \in Nat \ {0}, NEW id,
         NEW j, j = Source(rows, target, id)
  PROVE  \/ j = 0 /\ \A i \in target .. n : rows[i].id # id
         \/ j \in target .. n /\ rows[j].id = id
<1> DEFINE I == {i \in target .. n : rows[i].id = id}
<1>1. j = IF I # {} THEN Min(I) ELSE 0
  BY DEF Source, SelectInSubSeq
<1>2. I \in SUBSET Nat
  OBVIOUS
<1>3. I # {} => Min(I) \in I
  BY <1>2, MinIs
<1> QED
  BY <1>1, <1>3

\* r is s, n long, with the element at j moved to i, where it becomes e.
IsMoved(r, s, n, i, e, j) ==
  \A k \in 1 .. n : r[k] = IF k < i \/ k > j THEN s[k] ELSE IF k = i THEN e ELSE s[k - 1]

PutIn(E, sync, rows, n, target, wanted, u) ==
  /\ \A i \in target .. n : rows[i].id # wanted.id
  /\ u.made = Append(sync.made, wanted.id)
  /\ u.rows \in Seq(E) /\ Len(u.rows) = n + 1
  /\ IsInserted(u.rows, rows, n, target, wanted)
MovedUp(E, sync, rows, n, target, wanted, u) ==
  /\ u.made = sync.made
  /\ u.rows \in Seq(E) /\ Len(u.rows) = n
  /\ \E j \in target .. n :
       rows[j].id = wanted.id /\ IsMoved(u.rows, rows, n, target, wanted, j)

\* What placing the wanted row at its target does to the rows.
LEMMA Placed ==
  ASSUME NEW E, NEW sync, DOMAIN sync = {"rows", "made"}, NEW rows \in Seq(E), sync.rows = rows,
         NEW n \in Nat, Len(rows) = n,
         NEW target \in 1 .. n + 1, NEW wanted \in E,
         NEW u, u = Place(sync, target, wanted)
  PROVE  /\ DOMAIN u = {"rows", "made"}
         /\ \/ PutIn(E, sync, rows, n, target, wanted, u)
            \/ MovedUp(E, sync, rows, n, target, wanted, u)
<1>1. PICK j : j = Source(rows, target, wanted.id)
  OBVIOUS
<1>2. \/ j = 0 /\ \A i \in target .. n : rows[i].id # wanted.id
      \/ j \in target .. n /\ rows[j].id = wanted.id
  <2>1. target \in Nat \ {0}
    OBVIOUS
  <2> QED
    BY <1>1, <2>1, SourceFinds
<1>3. CASE j = 0 /\ \A i \in target .. n : rows[i].id # wanted.id
  <2>1. u = [sync EXCEPT !.rows = InsertAt(@, target, wanted), !.made = Append(@, wanted.id)]
    BY <1>1, <1>3 DEF Place
  <2>2. PICK r : r = InsertAt(rows, target, wanted)
    OBVIOUS
  <2>3. r \in Seq(E) /\ Len(r) = n + 1 /\ IsInserted(r, rows, n, target, wanted)
    <3>1. rows \in Seq(E) /\ n \in Nat /\ Len(rows) = n /\ target \in 1 .. n + 1 /\ wanted \in E
      OBVIOUS
    <3> QED
      BY ONLY <2>2, <3>1, Inserted
  <2>4. u.rows = r /\ u.made = Append(sync.made, wanted.id) /\ DOMAIN u = {"rows", "made"}
    BY <2>1, <2>2
  <2> QED
    BY <1>3, <2>3, <2>4 DEF PutIn
<1>4. CASE j \in target .. n /\ rows[j].id = wanted.id
  <2>1. PICK cut : cut = RemoveAt(rows, j)
    OBVIOUS
  <2>2. j \in 1 .. n
    BY <1>4
  <2>3. /\ cut \in Seq(E) /\ Len(cut) = n - 1
        /\ \A k \in 1 .. n - 1 : cut[k] = IF k < j THEN rows[k] ELSE rows[k + 1]
    <3>1. rows \in Seq(E) /\ n \in Nat /\ Len(rows) = n
      OBVIOUS
    <3>2. cut \in Seq(E) /\ Len(cut) = n - 1 /\ IsCut(cut, rows, n, j)
      BY ONLY <2>1, <2>2, <3>1, Removed
    <3> QED
      BY <3>2 DEF IsCut
  <2>4. PICK r : r = InsertAt(cut, target, wanted)
    OBVIOUS
  <2>5. n - 1 \in Nat /\ target \in 1 .. (n - 1) + 1
    BY <1>4
  <2>6. /\ r \in Seq(E) /\ Len(r) = (n - 1) + 1
        /\ \A k \in 1 .. (n - 1) + 1 : r[k] = IF k < target THEN cut[k]
                                              ELSE IF k = target THEN wanted ELSE cut[k - 1]
    <3>1. cut \in Seq(E) /\ Len(cut) = n - 1 /\ wanted \in E
      BY <2>3
    <3>2. r \in Seq(E) /\ Len(r) = (n - 1) + 1 /\ IsInserted(r, cut, n - 1, target, wanted)
      BY ONLY <2>4, <2>5, <3>1, Inserted
    <3> QED
      BY <3>2 DEF IsInserted
  <2>7. (n - 1) + 1 = n
    OBVIOUS
  <2>8. ASSUME NEW k \in 1 .. n
        PROVE  r[k] = IF k < target \/ k > j THEN rows[k]
                      ELSE IF k = target THEN wanted ELSE rows[k - 1]
    <3>0. r[k] = IF k < target THEN cut[k] ELSE IF k = target THEN wanted ELSE cut[k - 1]
      BY <2>6, <2>7
    <3>1. CASE k < target
      <4>1. k \in 1 .. n - 1 /\ k < j
        BY <3>1, <1>4
      <4> QED
        BY <3>0, <3>1, <2>3, <4>1
    <3>2. CASE k = target
      BY <3>0, <3>2, <1>4
    <3>3. CASE k > target /\ k <= j
      <4>1. k - 1 \in 1 .. n - 1 /\ k - 1 < j
        BY <3>3, <1>4
      <4> QED
        BY <3>0, <3>3, <2>3, <4>1, <1>4
    <3>4. CASE k > target /\ k > j
      <4>1. k - 1 \in 1 .. n - 1 /\ ~(k - 1 < j) /\ (k - 1) + 1 = k
        BY <3>4, <1>4
      <4> QED
        BY <3>0, <3>4, <2>3, <4>1, <1>4
    <3> QED
      BY <3>1, <3>2, <3>3, <3>4, <1>4
  <2>9. u = [sync EXCEPT !.rows = r]
    BY <1>1, <1>4, <2>1, <2>4 DEF Place
  <2>10. u.rows = r /\ u.made = sync.made /\ DOMAIN u = {"rows", "made"}
    BY <2>9
  <2>11. IsMoved(r, rows, n, target, wanted, j)
    BY <2>8 DEF IsMoved
  <2> QED
    BY <1>4, <2>6, <2>7, <2>10, <2>11 DEF MovedUp
<1> QED
  BY <1>2, <1>3, <1>4

Distinct(q) == \A i, j \in DOMAIN q : q[i] = q[j] => i = j

RowIds(rows) == {rows[i].id : i \in DOMAIN rows}
IdsDistinct(rows) == \A i, j \in DOMAIN rows : rows[i].id = rows[j].id => i = j

\* The rows and the list of the made after k targets.
RowsAfter(E, old, wanted, k, rows) ==
  /\ rows \in Seq(E) /\ k <= Len(rows) /\ IdsDistinct(rows)
  /\ \A i \in 1 .. k : rows[i] = wanted[i]
  /\ RowIds(rows) = RowIds(old) \cup {wanted[i].id : i \in 1 .. k}
MadeAfter(I, old, wanted, k, made) ==
  /\ made \in Seq(I) /\ Distinct(made)
  /\ Range(made) = {wanted[i].id : i \in 1 .. k} \ RowIds(old)

\* A row put in where none has its id.
LEMMA InsertKeepsIds ==
  ASSUME NEW E, NEW rows \in Seq(E), NEW n \in Nat, Len(rows) = n, IdsDistinct(rows),
         NEW target \in 1 .. n + 1, NEW wanted \in E, wanted.id \notin RowIds(rows),
         NEW r \in Seq(E), Len(r) = n + 1,
         IsInserted(r, rows, n, target, wanted)
  PROVE  IdsDistinct(r) /\ RowIds(r) = RowIds(rows) \cup {wanted.id}
<1>1. DOMAIN rows = 1 .. n /\ DOMAIN r = 1 .. n + 1
  BY LenProperties
<1>2. \A k \in 1 .. n : rows[k].id # wanted.id
  BY <1>1 DEF RowIds
<1>3. \A k \in 1 .. n + 1 : /\ k < target => k \in 1 .. n /\ r[k] = rows[k]
                            /\ k = target => r[k] = wanted
                            /\ k > target => k - 1 \in 1 .. n /\ r[k] = rows[k - 1]
  BY DEF IsInserted
<1>4. \A i, j \in 1 .. n : rows[i].id = rows[j].id => i = j
  BY <1>1 DEF IdsDistinct
<1>5. ASSUME NEW i \in 1 .. n + 1, NEW j \in 1 .. n + 1, r[i].id = r[j].id PROVE i = j
  <2>1. CASE i < target
    <3>1. i \in 1 .. n /\ r[i] = rows[i]
      BY <1>3, <2>1
    <3>2. CASE j < target
      BY <3>1, <3>2, <1>3, <1>4, <1>5
    <3>3. CASE j = target
      BY <3>1, <3>3, <1>3, <1>2, <1>5
    <3>4. CASE j > target
      <4>1. j - 1 \in 1 .. n /\ r[j] = rows[j - 1]
        BY <1>3, <3>4
      <4>2. i = j - 1
        BY <3>1, <4>1, <1>4, <1>5
      <4> QED
        BY <4>2, <2>1, <3>4
    <3> QED
      BY <3>2, <3>3, <3>4
  <2>2. CASE i = target
    <3>1. r[i] = wanted
      BY <1>3, <2>2
    <3>2. CASE j < target
      BY <3>1, <3>2, <1>3, <1>2, <1>5
    <3>3. CASE j > target
      BY <3>1, <3>3, <1>3, <1>2, <1>5
    <3> QED
      BY <3>2, <3>3, <2>2
  <2>3. CASE i > target
    <3>1. i - 1 \in 1 .. n /\ r[i] = rows[i - 1]
      BY <1>3, <2>3
    <3>2. CASE j < target
      <4>1. i - 1 = j
        BY <3>1, <3>2, <1>3, <1>4, <1>5
      <4> QED
        BY <4>1, <2>3, <3>2
    <3>3. CASE j = target
      BY <3>1, <3>3, <1>3, <1>2, <1>5
    <3>4. CASE j > target
      <4>1. j - 1 \in 1 .. n /\ r[j] = rows[j - 1]
        BY <1>3, <3>4
      <4>2. i - 1 = j - 1
        BY <3>1, <4>1, <1>4, <1>5
      <4> QED
        BY <4>2
    <3> QED
      BY <3>2, <3>3, <3>4
  <2> QED
    BY <2>1, <2>2, <2>3
<1>6. RowIds(r) \subseteq RowIds(rows) \cup {wanted.id}
  <2>1. ASSUME NEW k \in 1 .. n + 1 PROVE r[k].id \in RowIds(rows) \cup {wanted.id}
    <3>1. CASE k < target
      BY <3>1, <1>1, <1>3 DEF RowIds
    <3>2. CASE k = target
      BY <3>2, <1>3
    <3>3. CASE k > target
      BY <3>3, <1>1, <1>3 DEF RowIds
    <3> QED
      BY <3>1, <3>2, <3>3
  <2> QED
    BY <2>1, <1>1 DEF RowIds
<1>7. RowIds(rows) \cup {wanted.id} \subseteq RowIds(r)
  <2>1. target \in 1 .. n + 1 /\ r[target] = wanted
    BY <1>3
  <2>2. ASSUME NEW k \in 1 .. n PROVE rows[k].id \in RowIds(r)
    <3>1. CASE k < target
      <4>1. k \in 1 .. n + 1 /\ r[k] = rows[k]
        BY <3>1, <1>3
      <4> QED
        BY <4>1, <1>1 DEF RowIds
    <3>2. CASE k >= target
      <4>1. k + 1 \in 1 .. n + 1 /\ k + 1 > target /\ (k + 1) - 1 = k
        BY <3>2
      <4>2. r[k + 1] = rows[k]
        BY <4>1, <1>3
      <4> QED
        BY <4>1, <4>2, <1>1 DEF RowIds
    <3> QED
      BY <3>1, <3>2
  <2> QED
    BY <2>1, <2>2, <1>1 DEF RowIds
<1> QED
  BY <1>1, <1>5, <1>6, <1>7 DEF IdsDistinct

\* A row moved from j to the target.
LEMMA MoveKeepsIds ==
  ASSUME NEW E, NEW rows \in Seq(E), NEW n \in Nat, Len(rows) = n, IdsDistinct(rows),
         NEW target \in 1 .. n, NEW j \in target .. n, NEW wanted \in E, rows[j].id = wanted.id,
         NEW r \in Seq(E), Len(r) = n,
         IsMoved(r, rows, n, target, wanted, j)
  PROVE  IdsDistinct(r) /\ RowIds(r) = RowIds(rows)
<1> DEFINE from == [k \in 1 .. n |-> IF k < target \/ k > j THEN k ELSE IF k = target THEN j ELSE k - 1]
<1>1. DOMAIN rows = 1 .. n /\ DOMAIN r = 1 .. n
  BY LenProperties
<1>2. \A k \in 1 .. n : from[k] \in 1 .. n
  OBVIOUS
<1>3. \A k \in 1 .. n : r[k].id = rows[from[k]].id
  BY DEF IsMoved
<1>4. \A k, l \in 1 .. n : from[k] = from[l] => k = l
  OBVIOUS
<1>5. \A l \in 1 .. n : \E k \in 1 .. n : from[k] = l
  <2>1. ASSUME NEW l \in 1 .. n PROVE \E k \in 1 .. n : from[k] = l
    <3>1. CASE l < target \/ l > j
      BY <3>1
    <3>2. CASE l = j
      <4>1. from[target] = j /\ target \in 1 .. n
        OBVIOUS
      <4> QED
        BY <4>1, <3>2
    <3>3. CASE l >= target /\ l < j
      <4>1. l + 1 \in 1 .. n /\ ~(l + 1 < target \/ l + 1 > j) /\ l + 1 # target /\ (l + 1) - 1 = l
        BY <3>3
      <4>2. from[l + 1] = l
        BY <4>1
      <4> QED
        BY <4>1, <4>2
    <3> QED
      BY <3>1, <3>2, <3>3
  <2> QED
    BY <2>1
<1> HIDE DEF from
<1>6. \A k, l \in 1 .. n : rows[k].id = rows[l].id => k = l
  BY <1>1 DEF IdsDistinct
<1>7. IdsDistinct(r)
  BY <1>1, <1>2, <1>3, <1>4, <1>6 DEF IdsDistinct
<1>8. RowIds(r) \subseteq RowIds(rows)
  <2>1. ASSUME NEW k \in 1 .. n PROVE r[k].id \in RowIds(rows)
    BY <1>1, <1>2, <1>3 DEF RowIds
  <2> QED
    BY ONLY <1>1, <2>1 DEF RowIds
<1>9. RowIds(rows) \subseteq RowIds(r)
  <2>1. ASSUME NEW l \in 1 .. n PROVE rows[l].id \in RowIds(r)
    <3>1. PICK k \in 1 .. n : from[k] = l
      BY <1>5
    <3>2. r[k].id = rows[l].id
      BY <1>3, <3>1
    <3> QED
      BY <3>2, <1>1 DEF RowIds
  <2> QED
    BY <2>1, <1>1 DEF RowIds
<1> QED
  BY <1>7, <1>8, <1>9

\* One target more.
LEMMA OnePlaced ==
  ASSUME NEW E, NEW I, \A e \in E : e.id \in I, NEW old \in Seq(E),
         NEW m \in Nat, NEW wanted, \A i \in 1 .. m : wanted[i] \in E,
         \A i, j \in 1 .. m : wanted[i].id = wanted[j].id => i = j,
         NEW k \in Nat, k + 1 <= m,
         NEW sync, DOMAIN sync = {"rows", "made"},
         RowsAfter(E, old, wanted, k, sync.rows), MadeAfter(I, old, wanted, k, sync.made),
         NEW u, u = Place(sync, k + 1, wanted[k + 1])
  PROVE  /\ DOMAIN u = {"rows", "made"}
         /\ RowsAfter(E, old, wanted, k + 1, u.rows) /\ MadeAfter(I, old, wanted, k + 1, u.made)
<1>1. PICK rows : rows = sync.rows
  OBVIOUS
<1>2. PICK n \in Nat : Len(rows) = n
  BY <1>1, LenProperties DEF RowsAfter
<1>3. PICK w : w = wanted[k + 1]
  OBVIOUS
<1>4. rows \in Seq(E) /\ k <= n /\ k + 1 \in 1 .. n + 1 /\ k + 1 \in 1 .. m /\ w \in E /\ w.id \in I
  BY <1>1, <1>2, <1>3 DEF RowsAfter
<1>5. u = Place(sync, k + 1, w)
  BY <1>3
<1>6. DOMAIN rows = 1 .. n
  BY <1>2, <1>4, LenProperties
<1>7. IdsDistinct(rows) /\ RowIds(rows) = RowIds(old) \cup {wanted[i].id : i \in 1 .. k}
      /\ \A i \in 1 .. k : rows[i] = wanted[i]
  BY <1>1 DEF RowsAfter
<1>8. \A i \in 1 .. k : i \in 1 .. m /\ wanted[i].id # w.id
  <2>1. ASSUME NEW i \in 1 .. k PROVE i \in 1 .. m /\ i # k + 1
    OBVIOUS
  <2> QED
    BY <2>1, <1>3, <1>4
<1>9. {wanted[i].id : i \in 1 .. k + 1} = {wanted[i].id : i \in 1 .. k} \cup {w.id}
  <2>1. 1 .. k + 1 = (1 .. k) \cup {k + 1}
    OBVIOUS
  <2> QED
    BY <2>1, <1>3
<1> DEFINE A == PutIn(E, sync, rows, n, k + 1, w, u)
           B == MovedUp(E, sync, rows, n, k + 1, w, u)
<1>10. DOMAIN u = {"rows", "made"} /\ (A \/ B)
  <2>1. /\ DOMAIN sync = {"rows", "made"} /\ rows \in Seq(E) /\ sync.rows = rows
        /\ n \in Nat /\ Len(rows) = n /\ k + 1 \in 1 .. n + 1 /\ w \in E
    BY <1>1, <1>2, <1>4
  <2> QED
    BY ONLY <1>5, <2>1, Placed DEF A, B
<1>11. sync.made \in Seq(I) /\ Distinct(sync.made)
       /\ Range(sync.made) = {wanted[i].id : i \in 1 .. k} \ RowIds(old)
  BY DEF MadeAfter
<1>12. CASE A
  <2> USE DEF PutIn
  <2>1. w.id \notin RowIds(rows)
    <3>1. ASSUME NEW i \in 1 .. n PROVE rows[i].id # w.id
      <4>1. CASE i <= k
        BY <4>1, <1>7, <1>8
      <4>2. CASE i > k
        BY <4>2, <1>12
      <4> QED
        BY <4>1, <4>2
    <3> QED
      BY <3>1, <1>6 DEF RowIds
  <2>2. IdsDistinct(u.rows) /\ RowIds(u.rows) = RowIds(rows) \cup {w.id}
    <3>1. /\ rows \in Seq(E) /\ n \in Nat /\ Len(rows) = n /\ IdsDistinct(rows) /\ w \in E
          /\ u.rows \in Seq(E) /\ Len(u.rows) = n + 1 /\ k + 1 \in 1 .. n + 1
          /\ IsInserted(u.rows, rows, n, k + 1, w)
      BY <1>2, <1>4, <1>7, <1>12
    <3> QED
      BY ONLY <2>1, <3>1, InsertKeepsIds
  <2>3. \A i \in 1 .. k + 1 : u.rows[i] = wanted[i]
    <3>1. ASSUME NEW i \in 1 .. k + 1 PROVE u.rows[i] = wanted[i]
      <4>1. i \in 1 .. n + 1
        BY <1>4
      <4>2. u.rows[i] = IF i < k + 1 THEN rows[i] ELSE IF i = k + 1 THEN w ELSE rows[i - 1]
        BY <1>12, <4>1 DEF IsInserted
      <4>3. CASE i = k + 1
        BY <4>2, <4>3, <1>3
      <4>4. CASE i # k + 1
        <5>1. i < k + 1 /\ i \in 1 .. k
          BY <4>4
        <5> QED
          BY <4>2, <5>1, <1>7
      <4> QED
        BY <4>3, <4>4
    <3> QED
      BY <3>1
  <2>4. RowsAfter(E, old, wanted, k + 1, u.rows)
    <3>1. RowIds(u.rows) = RowIds(old) \cup {wanted[i].id : i \in 1 .. k + 1}
      BY <1>7, <1>9, <2>2
    <3>2. u.rows \in Seq(E) /\ k + 1 <= Len(u.rows)
      BY <1>4, <1>12
    <3> QED
      BY <2>2, <2>3, <3>1, <3>2 DEF RowsAfter
  <2>5. w.id \notin RowIds(old) /\ w.id \notin Range(sync.made)
    BY <2>1, <1>7, <1>11
  <2>6. PICK c \in Nat : c = Len(sync.made) /\ DOMAIN sync.made = 1 .. c
    BY <1>11, LenProperties
  <2>7. /\ u.made \in Seq(I) /\ Len(u.made) = c + 1
        /\ \A i \in 1 .. c : u.made[i] = sync.made[i]
        /\ u.made[c + 1] = w.id
    <3>1. u.made = Append(sync.made, w.id)
      BY <1>12
    <3>2. /\ Append(sync.made, w.id) \in Seq(I) /\ Len(Append(sync.made, w.id)) = Len(sync.made) + 1
          /\ \A i \in 1 .. Len(sync.made) : Append(sync.made, w.id)[i] = sync.made[i]
          /\ Append(sync.made, w.id)[Len(sync.made) + 1] = w.id
      BY ONLY <1>4, <1>11, AppendProperties
    <3> QED
      BY <3>1, <3>2, <2>6
  <2>8. DOMAIN u.made = 1 .. c + 1 /\ 1 .. c + 1 = (1 .. c) \cup {c + 1}
    BY <2>7, LenProperties
  <2>9. Range(u.made) = Range(sync.made) \cup {w.id}
    <3>1. ASSUME NEW x \in Range(u.made) PROVE x \in Range(sync.made) \cup {w.id}
      <4>1. PICK i \in 1 .. c + 1 : x = u.made[i]
        BY <2>8 DEF Range
      <4> QED
        BY <4>1, <2>6, <2>7 DEF Range
    <3>2. ASSUME NEW x \in Range(sync.made) PROVE x \in Range(u.made)
      <4>1. PICK i \in 1 .. c : x = sync.made[i]
        BY <2>6 DEF Range
      <4> QED
        BY <4>1, <2>7, <2>8 DEF Range
    <3>3. w.id \in Range(u.made)
      <4>1. c + 1 \in 1 .. c + 1
        OBVIOUS
      <4> QED
        BY <4>1, <2>7, <2>8 DEF Range
    <3> QED
      BY <3>1, <3>2, <3>3
  <2>10. Distinct(u.made)
    <3>1. ASSUME NEW i \in 1 .. c, NEW j \in 1 .. c, u.made[i] = u.made[j] PROVE i = j
      <4>1. u.made[i] = sync.made[i] /\ u.made[j] = sync.made[j]
        BY ONLY <2>7, <3>1
      <4> QED
        BY ONLY <2>6, <1>11, <3>1, <4>1 DEF Distinct
    <3>2. \A i \in 1 .. c : u.made[i] # u.made[c + 1]
      BY <2>5, <2>6, <2>7 DEF Range
    <3> QED
      BY <2>8, <3>1, <3>2 DEF Distinct
  <2> QED
    BY <1>9, <1>10, <1>11, <2>4, <2>5, <2>7, <2>9, <2>10 DEF MadeAfter
<1>13. CASE B
  <2> USE DEF MovedUp
  <2>1. PICK j \in k + 1 .. n : rows[j].id = w.id /\ IsMoved(u.rows, rows, n, k + 1, w, j)
    BY <1>13
  <2>2. k + 1 \in 1 .. n /\ k + 1 <= n
    OBVIOUS
  <2>3. IdsDistinct(u.rows) /\ RowIds(u.rows) = RowIds(rows)
    <3>1. /\ rows \in Seq(E) /\ n \in Nat /\ Len(rows) = n /\ IdsDistinct(rows) /\ w \in E
          /\ u.rows \in Seq(E) /\ Len(u.rows) = n
      BY <1>2, <1>4, <1>7, <1>13
    <3> QED
      BY ONLY <2>1, <2>2, <3>1, MoveKeepsIds
  <2>4. \A i \in 1 .. k + 1 : u.rows[i] = wanted[i]
    BY <1>3, <1>7, <2>1, <2>2 DEF IsMoved
  <2>5. w.id \in RowIds(rows)
    <3>1. j \in 1 .. n
      BY <2>2
    <3> QED
      BY <2>1, <3>1, <1>6 DEF RowIds
  <2>6. w.id \in RowIds(old)
    BY <2>5, <1>7, <1>8
  <2>7. RowsAfter(E, old, wanted, k + 1, u.rows)
    BY <1>4, <1>7, <1>9, <1>13, <2>2, <2>3, <2>4, <2>5 DEF RowsAfter
  <2> QED
    <3>1. {wanted[i].id : i \in 1 .. k + 1} \ RowIds(old)
            = {wanted[i].id : i \in 1 .. k} \ RowIds(old)
      BY <1>9, <2>6
    <3>2. MadeAfter(I, old, wanted, k + 1, u.made)
      BY <1>11, <1>13, <3>1 DEF MadeAfter
    <3> QED
      BY <1>10, <2>7, <3>2
<1> QED
  BY <1>10, <1>12, <1>13

-----------------------------------------------------------------------------
\* All targets: the rows are those wanted, those left behind are the old ones
\* that are not wanted, and those made are the wanted ones that are not old.
IsBroughtUp(u, E, old, wanted) ==
  /\ u.rows = wanted
  /\ Distinct(u.made) /\ Range(u.made) = RowIds(wanted) \ RowIds(old)
  /\ u.made \in Seq({e.id : e \in E})
  /\ u.gone \in Seq(E) /\ IdsDistinct(u.gone)
  /\ RowIds(u.gone) = RowIds(old) \ RowIds(wanted)

\* updateRows of the layout leaves the rows wanted, whatever the order of the old ones.
LEMMA AllPlaced ==
  ASSUME NEW E, NEW old \in Seq(E), IdsDistinct(old), NEW wanted \in Seq(E), IdsDistinct(wanted),
         NEW u, u = Synchronized(old, wanted)
  PROVE  IsBroughtUp(u, E, old, wanted)
<1> DEFINE I == {e.id : e \in E}
<1>1. PICK m \in Nat : Len(wanted) = m /\ DOMAIN wanted = 1 .. m /\ \A i \in 1 .. m : wanted[i] \in E
  BY LenProperties, ElementOfSeq
<1>2. PICK h : /\ Walk("place", wanted, [rows |-> old, made |-> <<>>],
                       [target \in 1 .. m |-> target], m, h)
               /\ Synchronized(old, wanted) = CutTo(m, h[m])
  BY <1>1, PlaceWalk
<1> DEFINE After(k, s) == /\ DOMAIN s = {"rows", "made"}
                          /\ RowsAfter(E, old, wanted, k, s.rows)
                          /\ MadeAfter(I, old, wanted, k, s.made)
<1>3. After(0, h[0])
  <2>1. h[0] = [rows |-> old, made |-> <<>>]
    BY <1>2 DEF Walk
  <2>2. /\ 1 .. 0 = {} /\ RowIds(old) \cup {wanted[i].id : i \in 1 .. 0} = RowIds(old)
        /\ {wanted[i].id : i \in 1 .. 0} \ RowIds(old) = {}
    OBVIOUS
  <2>3. RowsAfter(E, old, wanted, 0, old)
    <3>1. 0 <= Len(old)
      BY LenProperties
    <3> QED
      BY <2>2, <3>1 DEF RowsAfter
  <2>4. MadeAfter(I, old, wanted, 0, <<>>)
    <3>1. <<>> \in Seq(I) /\ DOMAIN <<>> = {}
      OBVIOUS
    <3>2. Range(<<>>) = {}
      BY <3>1 DEF Range
    <3> QED
      BY <2>2, <3>1, <3>2 DEF MadeAfter, Distinct
  <2> QED
    BY <2>1, <2>3, <2>4
<1>4. ASSUME NEW k \in Nat, k + 1 <= m, After(k, h[k]) PROVE After(k + 1, h[k + 1])
  <2>1. k + 1 \in 1 .. m /\ (k + 1) - 1 = k
    BY <1>4
  <2>2. h[k + 1] = Handled("place", wanted, h[k], k + 1)
    BY <1>2, <2>1 DEF Walk
  <2>3. h[k + 1] = Place(h[k], k + 1, wanted[k + 1])
    BY <2>2 DEF Handled
  <2>4. \A e \in E : e.id \in I
    OBVIOUS
  <2>5. \A i, j \in 1 .. m : wanted[i].id = wanted[j].id => i = j
    BY <1>1 DEF IdsDistinct
  <2>6. /\ DOMAIN h[k] = {"rows", "made"} /\ RowsAfter(E, old, wanted, k, h[k].rows)
        /\ MadeAfter(I, old, wanted, k, h[k].made)
    BY <1>4
  <2> HIDE DEF I
  <2>7. /\ DOMAIN h[k + 1] = {"rows", "made"}
        /\ RowsAfter(E, old, wanted, k + 1, h[k + 1].rows)
        /\ MadeAfter(I, old, wanted, k + 1, h[k + 1].made)
    BY ONLY old \in Seq(E), m \in Nat, <1>1, k \in Nat, k + 1 <= m, <2>3, <2>4, <2>5, <2>6, OnePlaced
  <2> QED
    BY <2>7
<1>5. After(m, h[m])
  <2> DEFINE S == {k \in Nat : k <= m => After(k, h[k])}
  <2> HIDE DEF After
  <2>1. 0 \in S
    BY <1>3
  <2>2. ASSUME NEW k \in S PROVE k + 1 \in S
    <3> SUFFICES ASSUME k + 1 <= m PROVE After(k + 1, h[k + 1])
      OBVIOUS
    <3>1. k \in Nat /\ k <= m
      OBVIOUS
    <3> QED
      BY <3>1, <1>4
  <2>3. S = Nat
    <3>1. S \in SUBSET Nat
      OBVIOUS
    <3> HIDE DEF S
    <3> QED
      BY <2>1, <2>2, <3>1, Induct
  <2> QED
    BY <2>3
<1>6. PICK s : s = h[m]
  OBVIOUS
<1>7. PICK n \in Nat : Len(s.rows) = n /\ DOMAIN s.rows = 1 .. n
  BY <1>5, <1>6, LenProperties DEF RowsAfter
<1>8. /\ s.rows \in Seq(E) /\ m <= n /\ IdsDistinct(s.rows)
      /\ \A i \in 1 .. m : s.rows[i] = wanted[i]
      /\ RowIds(s.rows) = RowIds(old) \cup {wanted[i].id : i \in 1 .. m}
  BY <1>5, <1>6, <1>7 DEF RowsAfter
<1>9. RowIds(wanted) = {wanted[i].id : i \in 1 .. m}
  BY <1>1 DEF RowIds
<1>10. u = [rows |-> SubSeq(s.rows, 1, m), made |-> s.made, gone |-> SubSeq(s.rows, m + 1, n)]
  BY <1>2, <1>6, <1>7 DEF CutTo
<1>11. u.rows = wanted
  <2>1. PICK r : r = SubSeq(s.rows, 1, m)
    OBVIOUS
  <2>2. 1 \in Nat /\ 1 <= 1 /\ 1 <= m + 1
    OBVIOUS
  <2>3. r \in Seq(E) /\ Len(r) = m - 1 + 1 /\ \A j \in 1 .. m - 1 + 1 : r[j] = s.rows[1 + j - 1]
    BY ONLY <1>7, <1>8, <2>1, <2>2, m \in Nat, n \in Nat, Cuts
  <2>4. Len(r) = m /\ \A j \in 1 .. m : r[j] = wanted[j]
    <3>1. m - 1 + 1 = m /\ \A j \in 1 .. m : 1 + j - 1 = j
      OBVIOUS
    <3> QED
      BY <2>3, <3>1, <1>8
  <2>5. r = wanted
    BY <1>1, <2>3, <2>4, SeqEqual
  <2> QED
    BY <1>10, <2>1, <2>5
<1>12. PICK g : g = SubSeq(s.rows, m + 1, n)
  OBVIOUS
<1>13. g \in Seq(E) /\ Len(g) = n - m /\ \A j \in 1 .. n - m : g[j] = s.rows[m + j]
  <2>1. PICK k \in Nat : k = m + 1 /\ 1 <= k /\ k <= n + 1 /\ n <= n
    BY <1>8
  <2>2. g = SubSeq(s.rows, k, n)
    BY <1>12, <2>1
  <2>3. g \in Seq(E) /\ Len(g) = n - k + 1 /\ \A j \in 1 .. n - k + 1 : g[j] = s.rows[k + j - 1]
    BY ONLY <1>7, <1>8, <2>1, <2>2, k \in Nat, n \in Nat, Cuts
  <2> QED
    BY <2>1, <2>3
<1>14. DOMAIN g = 1 .. n - m
  BY <1>13, LenProperties
<1>15. \A j \in 1 .. n - m : m + j \in 1 .. n
  BY <1>8
<1>16. IdsDistinct(g)
  <2>1. ASSUME NEW i \in 1 .. n - m, NEW j \in 1 .. n - m, g[i].id = g[j].id PROVE i = j
    <3>2. m + i \in DOMAIN s.rows /\ m + j \in DOMAIN s.rows /\ s.rows[m + i].id = s.rows[m + j].id
      BY <2>1, <1>7, <1>13, <1>15
    <3>1. m + i = m + j
      BY <3>2, <1>8 DEF IdsDistinct
    <3> QED
      BY <3>1
  <2> QED
    BY <2>1, <1>14 DEF IdsDistinct
<1>17. RowIds(g) = RowIds(old) \ RowIds(wanted)
  <2>1. ASSUME NEW j \in 1 .. n - m PROVE g[j].id \in RowIds(old) /\ g[j].id \notin RowIds(wanted)
    <3>1. m + j \in 1 .. n /\ g[j] = s.rows[m + j] /\ \A i \in 1 .. m : i \in 1 .. n /\ i # m + j
      BY <1>8, <1>13, <1>15
    <3>2. \A i \in 1 .. m : wanted[i].id # g[j].id
      BY <3>1, <1>7, <1>8 DEF IdsDistinct
    <3>3. g[j].id \in RowIds(s.rows)
      BY <3>1, <1>7 DEF RowIds
    <3> QED
      BY <3>2, <3>3, <1>8, <1>9
  <2>2. ASSUME NEW id \in RowIds(old), id \notin RowIds(wanted) PROVE id \in RowIds(g)
    <3>1. id \in RowIds(s.rows)
      BY <1>8
    <3>2. PICK i \in 1 .. n : s.rows[i].id = id
      BY <3>1, <1>7 DEF RowIds
    <3>3. ~(i <= m)
      <4>1. i <= m => wanted[i].id = id /\ i \in 1 .. m
        BY <3>2, <1>8
      <4> QED
        BY <4>1, <1>9, <2>2
    <3>4. i - m \in 1 .. n - m /\ m + (i - m) = i
      BY <3>3
    <3>5. g[i - m].id = id
      BY <3>2, <3>4, <1>13
    <3> QED
      BY <3>4, <3>5, <1>14 DEF RowIds
  <2> QED
    BY <2>1, <2>2, <1>14 DEF RowIds
<1>18. /\ Distinct(s.made) /\ Range(s.made) = RowIds(wanted) \ RowIds(old) /\ s.made \in Seq(I)
  BY <1>5, <1>6, <1>9 DEF MadeAfter
<1> QED
  BY <1>10, <1>11, <1>12, <1>13, <1>16, <1>17, <1>18 DEF IsBroughtUp

TileId(s) == <<"tile", s>>

\* The tiles of distinct sessions, brought up to date.
LEMMA TilesBroughtUp ==
  ASSUME NEW tiling, NEW old \in Seq(Session), Distinct(old), NEW x, NEW f \in BOOLEAN,
         tiling.tiles = BuildTiles(old, x, f),
         NEW staged \in Seq(Session), Distinct(staged), NEW selected, NEW focus \in BOOLEAN,
         NEW u, u = TilesFor(tiling, staged, selected, focus)
  PROVE  /\ u.rows = BuildTiles(staged, selected, focus)
         /\ u.made \in Seq(Session) /\ Distinct(u.made)
         /\ Range(u.made) = Range(staged) \ Range(old)
         /\ u.gone \in Seq(Session) /\ Distinct(u.gone)
         /\ Range(u.gone) = Range(old) \ Range(staged)
<1> DEFINE E == [id : {TileId(s) : s \in Session}, visible : BOOLEAN]
<1>1. ASSUME NEW q \in Seq(Session), Distinct(q), NEW y, NEW g \in BOOLEAN,
             NEW b, b = BuildTiles(q, y, g)
      PROVE  /\ b \in Seq(E) /\ IdsDistinct(b) /\ DOMAIN b = DOMAIN q
             /\ \A i \in DOMAIN q : b[i].id = TileId(q[i])
             /\ RowIds(b) = {TileId(s) : s \in Range(q)}
  <2>1. PICK n \in Nat : DOMAIN q = 1 .. n /\ \A i \in 1 .. n : q[i] \in Session
    BY LenProperties, ElementOfSeq
  <2>2. b = [i \in 1 .. n |-> [id |-> TileId(q[i]), visible |-> ~g \/ q[i] = y]]
    BY <1>1, <2>1 DEF BuildTiles, TileId
  <2>3. \A i \in 1 .. n : b[i] \in E /\ b[i].id = TileId(q[i])
    BY <2>1, <2>2
  <2>4. b \in Seq(E)
    <3> HIDE DEF E
    <3>1. b \in [1 .. n -> E]
      BY <2>2, <2>3
    <3>2. n \in Nat
      OBVIOUS
    <3> QED
      BY ONLY <3>1, <3>2, SeqDef
  <2>5. DOMAIN b = 1 .. n
    BY <2>2
  <2>6. IdsDistinct(b)
    BY <2>1, <2>3, <2>5, <1>1 DEF IdsDistinct, Distinct, TileId
  <2>7. RowIds(b) = {TileId(s) : s \in Range(q)}
    BY <2>1, <2>3, <2>5 DEF RowIds, Range
  <2> QED
    BY <2>1, <2>3, <2>4, <2>5, <2>6, <2>7
<1>2. PICK a : a = BuildTiles(old, x, f)
  OBVIOUS
<1>3. PICK b : b = BuildTiles(staged, selected, focus)
  OBVIOUS
<1>4. a \in Seq(E) /\ IdsDistinct(a) /\ RowIds(a) = {TileId(s) : s \in Range(old)}
  BY <1>1, <1>2
<1>5. b \in Seq(E) /\ IdsDistinct(b) /\ RowIds(b) = {TileId(s) : s \in Range(staged)}
  BY <1>1, <1>3
<1>6. PICK y : y = Synchronized(a, b)
  OBVIOUS
<1> HIDE DEF E
<1>7. /\ y.rows = b
      /\ Distinct(y.made) /\ Range(y.made) = RowIds(b) \ RowIds(a)
      /\ y.made \in Seq({e.id : e \in E})
      /\ y.gone \in Seq(E) /\ IdsDistinct(y.gone)
      /\ RowIds(y.gone) = RowIds(a) \ RowIds(b)
  <2>1. IsBroughtUp(y, E, a, b)
    BY ONLY <1>4, <1>5, <1>6, AllPlaced
  <2> QED
    BY <2>1 DEF IsBroughtUp
<1>8. u = [rows |-> y.rows,
           made |-> [i \in DOMAIN y.made |-> SessionOf(y.made[i])],
           gone |-> [i \in DOMAIN y.gone |-> SessionOf(y.gone[i].id)]]
  BY <1>2, <1>3, <1>6 DEF TilesFor, SessionsOf
<1>9. \A s : SessionOf(TileId(s)) = s
  BY DEF SessionOf, TileId
<1>10. PICK n \in Nat : DOMAIN y.made = 1 .. n
  BY <1>7, LenProperties
<1>11. \A i \in 1 .. n : y.made[i] \in {TileId(s) : s \in Range(staged) \ Range(old)}
  <2>1. \A i \in 1 .. n : y.made[i] \in Range(y.made)
    BY <1>10 DEF Range
  <2>2. \A i \in 1 .. n : y.made[i] \in RowIds(b) /\ y.made[i] \notin RowIds(a)
    BY <2>1, <1>7
  <2> QED
    BY <2>2, <1>4, <1>5
<1>12. \A i \in 1 .. n : /\ SessionOf(y.made[i]) \in Range(staged) \ Range(old)
                        /\ y.made[i] = TileId(SessionOf(y.made[i]))
  BY <1>9, <1>11
<1>13. Range(staged) \subseteq Session /\ Range(old) \subseteq Session
  BY RangeOfSeq
<1>14. u.made = [i \in 1 .. n |-> SessionOf(y.made[i])]
  BY <1>8, <1>10
<1>15. u.made \in Seq(Session)
  <2>1. u.made \in [1 .. n -> Session]
    BY <1>12, <1>13, <1>14
  <2> QED
    BY <2>1, SeqDef
<1>16. Distinct(u.made)
  BY <1>7, <1>10, <1>12, <1>14 DEF Distinct
<1>17. Range(u.made) = Range(staged) \ Range(old)
  <2>1. ASSUME NEW s \in Range(staged), s \notin Range(old) PROVE s \in Range(u.made)
    <3>1. TileId(s) \in RowIds(b)
      BY <1>5
    <3>2. TileId(s) \notin RowIds(a)
      BY <1>4, <1>9, <2>1
    <3>3. PICK i \in 1 .. n : y.made[i] = TileId(s)
      BY <3>1, <3>2, <1>7, <1>10 DEF Range
    <3>4. u.made[i] = s
      BY <3>3, <1>9, <1>14
    <3> QED
      BY <3>4, <1>14 DEF Range
  <2>2. ASSUME NEW s \in Range(u.made) PROVE s \in Range(staged) \ Range(old)
    BY <1>12, <1>14 DEF Range
  <2> QED
    BY <2>1, <2>2
<1>18. PICK m \in Nat : DOMAIN y.gone = 1 .. m
  BY <1>7, LenProperties
<1>19. \A i \in 1 .. m : /\ SessionOf(y.gone[i].id) \in Range(old) \ Range(staged)
                        /\ y.gone[i].id = TileId(SessionOf(y.gone[i].id))
  <2>1. ASSUME NEW i \in 1 .. m
        PROVE  /\ SessionOf(y.gone[i].id) \in Range(old) \ Range(staged)
               /\ y.gone[i].id = TileId(SessionOf(y.gone[i].id))
    <3>1. y.gone[i].id \in RowIds(a) /\ y.gone[i].id \notin RowIds(b)
      BY <1>7, <1>18 DEF RowIds
    <3>2. PICK s \in Range(old) : y.gone[i].id = TileId(s)
      BY <3>1, <1>4
    <3> QED
      BY <3>1, <3>2, <1>5, <1>9
  <2> QED
    BY <2>1
<1>20. u.gone = [i \in 1 .. m |-> SessionOf(y.gone[i].id)]
  BY <1>8, <1>18
<1>21. u.gone \in Seq(Session)
  <2>1. u.gone \in [1 .. m -> Session]
    BY <1>13, <1>19, <1>20
  <2> QED
    BY <2>1, SeqDef
<1>22. Distinct(u.gone)
  BY <1>7, <1>18, <1>19, <1>20 DEF Distinct, IdsDistinct
<1>23. Range(u.gone) = Range(old) \ Range(staged)
  <2>1. ASSUME NEW s \in Range(old), s \notin Range(staged) PROVE s \in Range(u.gone)
    <3>1. TileId(s) \in RowIds(a)
      BY <1>4
    <3>2. TileId(s) \notin RowIds(b)
      BY <1>5, <1>9, <2>1
    <3>5. TileId(s) \in RowIds(y.gone)
      BY <3>1, <3>2, <1>7
    <3>3. PICK i \in 1 .. m : y.gone[i].id = TileId(s)
      BY <3>5, <1>18 DEF RowIds
    <3>4. u.gone[i] = s
      BY <3>3, <1>9, <1>20
    <3> QED
      BY <3>4, <1>20 DEF Range
  <2>2. ASSUME NEW s \in Range(u.gone) PROVE s \in Range(old) \ Range(staged)
    BY <1>19, <1>20 DEF Range
  <2> QED
    BY <2>1, <2>2
<1> QED
  BY <1>3, <1>7, <1>8, <1>15, <1>16, <1>17, <1>21, <1>22, <1>23

-----------------------------------------------------------------------------
(* The inductive invariant.                                                 *)

Names ==
  {"running", "catalog", "bindings", "views", "registry", "waiting", "retryTimer", "wired",
   "error", "staged", "selected", "focus", "viewport", "tiling", "pending", "active", "links",
   "signedIn", "finalizing", "made", "reported", "unheard", "refused", "sends", "done", "faulty"}

\* What a catalog lists, and what the stage is of its own.
Listed(sessions) ==
  /\ DOMAIN sessions \subseteq Session
  /\ \A s \in DOMAIN sessions :
       /\ sessions[s].inc \in 1 .. MaxInc
       /\ sessions[s].status \in {"ready", "away", "closing", "blocked"}

HostOK(w) ==
  /\ DOMAIN w = Names
  /\ w.running \in BOOLEAN
  /\ DOMAIN w.catalog = {"state", "sessions"}
  /\ w.catalog.state \in {"Loading", "Loaded", "Failed"}
  /\ Listed(w.catalog.sessions)
  /\ ~w.running => DOMAIN w.catalog.sessions = {}

\* The surfaces: bindings, views and registry.
Binding ==
  [view : View, session : Session, inc : 0 .. MaxInc, sub : Nat, attached : BOOLEAN,
   attempts : 0 .. RetryLimit + 1, retry : BOOLEAN, exhausted : BOOLEAN, connected : BOOLEAN,
   timer : BOOLEAN]
ViewState ==
  [session : Session \cup {None}, sub : Nat, ready : BOOLEAN,
   inbox : Seq({"ok", "failed", "closed"})]
Entry == [sub : Nat, phase : {"none", "asked", "open", "admitted", "over"}]

SurfaceTyped(w) ==
  /\ w.bindings \in Seq(Binding)
  /\ w.views \in [View -> ViewState]
  /\ w.registry \in [Session -> Entry]
  /\ w.waiting \in BOOLEAN /\ w.retryTimer \in BOOLEAN

BoundSet(w) == {w.bindings[i].view : i \in DOMAIN w.bindings}
Unique(w) ==
  \A i, j \in DOMAIN w.bindings : w.bindings[i].view = w.bindings[j].view => i = j

\* A view is registered under the subscription of its session, an entry is there
\* for the views registered, and a connection that is over has said so last.
ViewOK(w, v) ==
  LET view == w.views[v]
  IN /\ view.session = None => view = Detached
     /\ view.session # None =>
          /\ view.sub = w.registry[view.session].sub /\ view.sub # 0
          /\ w.registry[view.session].phase = "over" /\ view.inbox # <<>> =>
               view.inbox[Len(view.inbox)] # "ok"
EntryOK(w, s) ==
  /\ w.registry[s].sub # 0 => \E v \in View : w.views[v].session = s
  /\ w.registry[s].sub = 0 => w.registry[s] = NoEntry
RegistryOK(w) == (\A v \in View : ViewOK(w, v)) /\ (\A s \in Session : EntryOK(w, s))

\* What a binding is at any time.
Sound(b) ==
  /\ b.attached <=> b.sub # 0
  /\ b.timer => b.attached
  /\ b.exhausted => ~b.attached /\ ~b.retry
  /\ b.attempts >= RetryLimit <=> b.exhausted
BindingOK(w, b) ==
  LET view == w.views[b.view]
  IN /\ Sound(b)
     /\ b.view \in Session => b.session = b.view
     /\ view.session \in {None, b.session}
     /\ view.session # None => b.inc # 0 /\ ~b.exhausted
     /\ b.attached => /\ view.session = None \/ view.sub = b.sub
                      /\ w.running /\ ~w.waiting /\ b.inc # 0
     /\ b.retry => b.inc # 0

\* Its tile shows something, or is going to hear of its terminal.
Live(w, b) ==
  LET view == w.views[b.view]
  IN \/ view.ready \/ b.view \in w.error \cup w.unheard \/ b.timer
     \/ view.session # None /\ (w.registry[b.session].phase # "over" \/ view.inbox # <<>>)
Carried(w, b) ==
  /\ b.attached => Live(w, b)
  /\ b.exhausted => b.view \in w.error \cup w.unheard

\* What a binding is once it has been brought in line with the catalog.
Current(w, b) == b.inc # 0 => b.inc = Incarnation(w, b.session) /\ CanRetain(w, b.session)
Noted(w, b) == b.attached /\ Away(w, b.session) => ~b.connected
Going(w, b) == Live(w, b) \/ w.waiting \/ Away(w, b.session) \/ b.retry
Settled(w, b) == Current(w, b) /\ Noted(w, b) /\ Going(w, b)
Timed(w, b) == b.retry => w.retryTimer

\* Bindings of one incarnation share their subscription.
Alike(b, c) ==
  b.attached /\ c.attached /\ b.session = c.session /\ b.inc = c.inc => b.sub = c.sub
Shares(w) == \A x, y \in BoundSet(w) : Alike(BindingOf(w, x), BindingOf(w, y))

\* The surfaces but for some views: those of A are not carried, those of B not
\* settled, those of C not timed.
Fits(w, v, A, B, C) ==
  LET b == BindingOf(w, v)
  IN /\ BindingOK(w, b)
     /\ v \notin A => Carried(w, b)
     /\ v \notin B => Settled(w, b)
     /\ v \notin C => Timed(w, b)
Formed(w) == DOMAIN w = Names /\ SurfaceTyped(w) /\ Unique(w) /\ RegistryOK(w)
Surface(w, A, B, C) ==
  /\ Formed(w) /\ Shares(w)
  /\ \A v \in View \ BoundSet(w) : w.views[v] = Detached
  /\ \A v \in BoundSet(w) : Fits(w, v, A, B, C)

-----------------------------------------------------------------------------
(* Bindings: the sequence read as a function from the views bound.          *)

\* The bindings are well formed.
Held(w) == w.bindings \in Seq(Binding) /\ Unique(w)

\* A bound view has one position, another has none.
LEMMA PositionIs ==
  ASSUME NEW w, Held(w), NEW i \in DOMAIN w.bindings
  PROVE  /\ Position(w, w.bindings[i].view) = i
         /\ BindingOf(w, w.bindings[i].view) = w.bindings[i]
<1> DEFINE v == w.bindings[i].view
           I == {j \in 1 .. Len(w.bindings) : w.bindings[j].view = v}
<1>1. Position(w, v) = IF I # {} THEN Min(I) ELSE 0
  BY DEF Position, SelectInSeq
<1>2. DOMAIN w.bindings = 1 .. Len(w.bindings)
  BY LenProperties DEF Held
<1>3. I = {i}
  BY <1>2 DEF Held, Unique
<1>4. i \in Nat
  BY <1>2
<1>5. Min({i}) = i
  <2>1. {i} \in SUBSET Nat /\ {i} # {}
    BY <1>4
  <2> QED
    BY <2>1, MinIs
<1>6. Position(w, v) = i
  BY <1>1, <1>3, <1>5
<1> QED
  BY <1>6 DEF BindingOf

\* A view is bound exactly when a binding is of it.
LEMMA NoPosition ==
  ASSUME NEW w, Held(w), NEW v
  PROVE  Bound(w, v) <=> v \in BoundSet(w)
<1>1. CASE v \in BoundSet(w)
  <2>1. PICK i \in DOMAIN w.bindings : w.bindings[i].view = v
    BY <1>1 DEF BoundSet
  <2>2. i \in 1 .. Len(w.bindings)
    BY LenProperties DEF Held
  <2>3. Position(w, v) = i
    BY <2>1, PositionIs
  <2> QED
    BY <1>1, <2>2, <2>3 DEF Bound
<1>2. CASE v \notin BoundSet(w)
  <2> DEFINE I == {j \in 1 .. Len(w.bindings) : w.bindings[j].view = v}
  <2>1. Position(w, v) = IF I # {} THEN Min(I) ELSE 0
    BY DEF Position, SelectInSeq
  <2>2. DOMAIN w.bindings = 1 .. Len(w.bindings)
    BY LenProperties DEF Held
  <2>3. I = {}
    BY <1>2, <2>2 DEF BoundSet
  <2> QED
    BY <1>2, <2>1, <2>3 DEF Bound
<1> QED
  BY <1>1, <1>2

\* A bound view is the view of its binding.
LEMMA BindingIs ==
  ASSUME NEW w, Held(w), NEW v \in BoundSet(w)
  PROVE  /\ v \in View /\ BindingOf(w, v) \in Binding /\ BindingOf(w, v).view = v
         /\ Position(w, v) \in DOMAIN w.bindings
<1>1. PICK i \in DOMAIN w.bindings : w.bindings[i].view = v
  BY DEF BoundSet
<1>2. w.bindings[i] \in Binding
  <2>1. i \in 1 .. Len(w.bindings)
    BY LenProperties DEF Held
  <2> QED
    BY <2>1, ElementOfSeq DEF Held
<1>3. BindingOf(w, v) = w.bindings[i] /\ Position(w, v) = i
  BY <1>1, PositionIs
<1> QED
  BY <1>1, <1>2, <1>3 DEF Binding

\* The bindings of u are those of w, but for the one of v, which is b.
Replaces(w, u, v, b) ==
  /\ Held(u) /\ BoundSet(u) = BoundSet(w) /\ BindingOf(u, v) = b
  /\ \A y \in BoundSet(w) \ {v} : BindingOf(u, y) = BindingOf(w, y)

\* Writing back a binding of the same view replaces it and no other.
LEMMA Replaced ==
  ASSUME NEW w, Held(w), NEW v \in BoundSet(w), NEW b \in Binding, b.view = v,
         NEW u, u.bindings = [w.bindings EXCEPT ![Position(w, v)] = b]
  PROVE  Replaces(w, u, v, b)
<1>1. PICK p \in DOMAIN w.bindings : p = Position(w, v)
  BY BindingIs
<1>2. w.bindings[p].view = v
  BY <1>1, BindingIs DEF BindingOf
<1>3. PICK n \in Nat : DOMAIN w.bindings = 1 .. n /\ n = Len(w.bindings)
  BY LenProperties DEF Held
<1>4. \A i \in 1 .. n : w.bindings[i] \in Binding
  BY <1>3, ElementOfSeq DEF Held
<1>5. u.bindings = [i \in 1 .. n |-> IF i = p THEN b ELSE w.bindings[i]]
  BY <1>1, <1>3, ElementOfSeq
<1>6. u.bindings \in Seq(Binding)
  <2>1. u.bindings \in [1 .. n -> Binding]
    BY <1>4, <1>5
  <2> QED
    BY ONLY <2>1, n \in Nat, SeqDef
<1>7. DOMAIN u.bindings = 1 .. n /\ \A i \in 1 .. n : u.bindings[i].view = w.bindings[i].view
  BY <1>2, <1>5
<1>8. Unique(u) /\ BoundSet(u) = BoundSet(w)
  <2>1. Unique(w)
    BY DEF Held
  <2>2. Unique(u)
    BY ONLY <1>3, <1>7, <2>1 DEF Unique
  <2>3. BoundSet(u) = BoundSet(w)
    BY ONLY <1>3, <1>7 DEF BoundSet
  <2> QED
    BY <2>2, <2>3
<1>9. Held(u)
  BY <1>6, <1>8 DEF Held
<1>10. BindingOf(u, v) = b
  <2>1. u.bindings[p] = b
    BY <1>3, <1>5
  <2> QED
    BY <2>1, <1>3, <1>7, <1>9, PositionIs
<1>11. ASSUME NEW y \in BoundSet(w) \ {v} PROVE BindingOf(u, y) = BindingOf(w, y)
  <2>1. PICK i \in 1 .. n : w.bindings[i].view = y
    BY <1>3 DEF BoundSet
  <2>2. i # p /\ u.bindings[i] = w.bindings[i] /\ u.bindings[i].view = y
    BY <1>2, <1>5, <2>1
  <2> QED
    BY <2>1, <2>2, <1>3, <1>7, <1>9, PositionIs
<1> QED
  BY <1>8, <1>9, <1>10, <1>11 DEF Replaces

\* One more.
Adds(w, u, v, b) ==
  /\ Held(u) /\ BoundSet(u) = BoundSet(w) \cup {v} /\ BindingOf(u, v) = b
  /\ \A y \in BoundSet(w) : BindingOf(u, y) = BindingOf(w, y)

\* A binding put at the end is one more.
LEMMA Added ==
  ASSUME NEW w, Held(w), NEW v, v \notin BoundSet(w), NEW b \in Binding, b.view = v,
         NEW u, u.bindings = Append(w.bindings, b)
  PROVE  Adds(w, u, v, b)
<1>1. PICK n \in Nat : DOMAIN w.bindings = 1 .. n /\ n = Len(w.bindings)
  BY LenProperties DEF Held
<1>2. /\ Append(w.bindings, b) \in Seq(Binding) /\ Len(Append(w.bindings, b)) = Len(w.bindings) + 1
      /\ \A i \in 1 .. Len(w.bindings) : Append(w.bindings, b)[i] = w.bindings[i]
      /\ Append(w.bindings, b)[Len(w.bindings) + 1] = b
  <2>1. w.bindings \in Seq(Binding)
    BY DEF Held
  <2> QED
    BY ONLY b \in Binding, <2>1, AppendProperties
<1>3. /\ u.bindings \in Seq(Binding) /\ DOMAIN u.bindings = 1 .. n + 1
      /\ \A i \in 1 .. n : u.bindings[i] = w.bindings[i]
      /\ u.bindings[n + 1] = b
  BY <1>1, <1>2, LenProperties
<1>4. 1 .. n + 1 = (1 .. n) \cup {n + 1}
  OBVIOUS
<1>5. \A i \in 1 .. n : w.bindings[i].view # v
  BY <1>1 DEF BoundSet
<1>6. Unique(u)
  BY <1>1, <1>3, <1>4, <1>5 DEF Held, Unique
<1>7. BoundSet(u) = BoundSet(w) \cup {v}
  <2>1. ASSUME NEW i \in 1 .. n + 1 PROVE u.bindings[i].view \in BoundSet(w) \cup {v}
    BY <1>1, <1>3, <1>4 DEF BoundSet
  <2>2. ASSUME NEW y \in BoundSet(w) PROVE y \in BoundSet(u)
    <3>1. PICK i \in 1 .. n : w.bindings[i].view = y
      BY <1>1 DEF BoundSet
    <3>2. i \in 1 .. n + 1
      BY <1>4
    <3> QED
      BY <3>1, <3>2, <1>3 DEF BoundSet
  <2>3. v \in BoundSet(u)
    <3>1. n + 1 \in 1 .. n + 1
      OBVIOUS
    <3> QED
      BY <3>1, <1>3 DEF BoundSet
  <2> QED
    BY <2>1, <2>2, <2>3, <1>3 DEF BoundSet
<1>8. Held(u)
  BY <1>3, <1>6 DEF Held
<1>9. BindingOf(u, v) = b
  <2>1. n + 1 \in DOMAIN u.bindings
    BY <1>3
  <2> QED
    BY <2>1, <1>3, <1>8, PositionIs
<1>10. ASSUME NEW y \in BoundSet(w) PROVE BindingOf(u, y) = BindingOf(w, y)
  <2>1. PICK i \in 1 .. n : w.bindings[i].view = y
    BY <1>1 DEF BoundSet
  <2>2. i \in 1 .. n + 1 /\ u.bindings[i] = w.bindings[i]
    BY <1>3, <1>4
  <2> QED
    BY <2>1, <2>2, <1>1, <1>3, <1>8, PositionIs
<1> QED
  BY <1>7, <1>8, <1>9, <1>10 DEF Adds

\* One less.
Drops(w, u, v) ==
  /\ Held(u) /\ BoundSet(u) = BoundSet(w) \ {v}
  /\ \A y \in BoundSet(w) \ {v} : BindingOf(u, y) = BindingOf(w, y)

\* A binding erased is one less.
LEMMA Dropped ==
  ASSUME NEW w, Held(w), NEW v \in BoundSet(w),
         NEW u, u.bindings = RemoveAt(w.bindings, Position(w, v))
  PROVE  Drops(w, u, v)
<1>1. PICK n \in Nat : DOMAIN w.bindings = 1 .. n /\ n = Len(w.bindings)
  BY LenProperties DEF Held
<1>2. PICK p \in 1 .. n : p = Position(w, v)
  BY <1>1, BindingIs
<1>3. w.bindings[p].view = v
  BY <1>2, BindingIs DEF BindingOf
<1>4. /\ u.bindings \in Seq(Binding) /\ Len(u.bindings) = n - 1
      /\ \A k \in 1 .. n - 1 : u.bindings[k] = IF k < p THEN w.bindings[k] ELSE w.bindings[k + 1]
  <2>1. w.bindings \in Seq(Binding)
    BY DEF Held
  <2>2. u.bindings = RemoveAt(w.bindings, p)
    BY <1>2
  <2>3. Len(w.bindings) = n
    BY <1>1
  <2>4. u.bindings \in Seq(Binding) /\ Len(u.bindings) = n - 1 /\ IsCut(u.bindings, w.bindings, n, p)
    BY ONLY <2>1, <2>2, <2>3, n \in Nat, p \in 1 .. n, Removed
  <2> QED
    BY <2>4 DEF IsCut
<1> DEFINE from == [k \in 1 .. n - 1 |-> IF k < p THEN k ELSE k + 1]
<1>5. DOMAIN u.bindings = 1 .. n - 1
  BY <1>4, LenProperties
<1>6. \A k \in 1 .. n - 1 : from[k] \in 1 .. n /\ from[k] # p /\ u.bindings[k] = w.bindings[from[k]]
  BY <1>4
<1>7. \A k, l \in 1 .. n - 1 : from[k] = from[l] => k = l
  OBVIOUS
<1>8. \A l \in (1 .. n) \ {p} : \E k \in 1 .. n - 1 : from[k] = l
  <2>1. ASSUME NEW l \in 1 .. n, l # p PROVE \E k \in 1 .. n - 1 : from[k] = l
    <3>1. CASE l < p
      <4>1. l \in 1 .. n - 1 /\ from[l] = l
        BY <3>1
      <4> QED
        BY <4>1
    <3>2. CASE l > p
      <4>1. l - 1 \in 1 .. n - 1 /\ ~(l - 1 < p) /\ (l - 1) + 1 = l
        BY <3>2
      <4>2. from[l - 1] = l
        BY <4>1
      <4> QED
        BY <4>1, <4>2
    <3> QED
      BY <2>1, <3>1, <3>2
  <2> QED
    BY <2>1
<1> HIDE DEF from
<1>9. \A i, j \in 1 .. n : w.bindings[i].view = w.bindings[j].view => i = j
  BY <1>1 DEF Held, Unique
<1>10. Unique(u)
  <2>1. ASSUME NEW k \in 1 .. n - 1, NEW l \in 1 .. n - 1,
               u.bindings[k].view = u.bindings[l].view
        PROVE  k = l
    <3>1. from[k] = from[l]
      BY <2>1, <1>6, <1>9
    <3> QED
      BY <3>1, <1>7
  <2> QED
    BY <2>1, <1>5 DEF Unique
<1>11. Held(u)
  BY <1>4, <1>10 DEF Held
<1>12. BoundSet(u) \subseteq BoundSet(w) \ {v}
  <2>1. ASSUME NEW y \in BoundSet(u) PROVE y \in BoundSet(w) \ {v}
    <3>1. PICK k \in 1 .. n - 1 : u.bindings[k].view = y
      BY <1>5 DEF BoundSet
    <3>2. PICK l \in 1 .. n : l # p /\ u.bindings[k] = w.bindings[l]
      BY <1>6
    <3>3. w.bindings[l].view = y
      BY ONLY <3>1, <3>2
    <3>4. y # v
      BY ONLY <1>3, <1>9, <3>2, <3>3, p \in 1 .. n
    <3>5. y \in BoundSet(w)
      BY ONLY <1>1, <3>3, l \in 1 .. n DEF BoundSet
    <3> QED
      BY ONLY <3>4, <3>5
  <2> QED
    BY ONLY <2>1
<1>13. ASSUME NEW y \in BoundSet(w) \ {v} PROVE y \in BoundSet(u) /\ BindingOf(u, y) = BindingOf(w, y)
  <2>1. PICK i \in 1 .. n : w.bindings[i].view = y
    BY <1>1 DEF BoundSet
  <2>2. i # p
    BY <2>1, <1>3
  <2>3. PICK k \in 1 .. n - 1 : from[k] = i
    BY <1>8, <2>2
  <2>4. u.bindings[k] = w.bindings[i]
    BY <1>6, <2>3
  <2>5. BindingOf(u, y) = u.bindings[k]
    BY <2>1, <2>4, <1>5, <1>11, PositionIs
  <2>6. BindingOf(w, y) = w.bindings[i]
    BY <2>1, <1>1, PositionIs
  <2> QED
    BY <2>1, <2>4, <2>5, <2>6, <1>5 DEF BoundSet
<1> QED
  BY <1>11, <1>12, <1>13 DEF Drops

\* The views bound, in order, are distinct.
LEMMA ViewsBound ==
  ASSUME NEW w, Held(w)
  PROVE  \E n \in Nat : /\ DOMAIN BoundViews(w) = 1 .. n
                        /\ Range(BoundViews(w)) = BoundSet(w)
                        /\ \A i, j \in 1 .. n : BoundViews(w)[i] = BoundViews(w)[j] => i = j
<1>1. PICK n \in Nat : DOMAIN w.bindings = 1 .. n
  BY LenProperties DEF Held
<1>2. BoundViews(w) = [i \in 1 .. n |-> w.bindings[i].view]
  BY <1>1 DEF BoundViews
<1>3. Range(BoundViews(w)) = BoundSet(w)
  BY <1>1, <1>2 DEF Range, BoundSet
<1>4. \A i, j \in 1 .. n : BoundViews(w)[i] = BoundViews(w)[j] => i = j
  BY <1>1, <1>2 DEF Held, Unique
<1>5. DOMAIN BoundViews(w) = 1 .. n
  BY <1>2
<1> QED
  BY <1>3, <1>4, <1>5

-----------------------------------------------------------------------------
(* What a handler of the surfaces leaves alone.                             *)

\* The fields that are not of the surfaces.
Host(w, u) ==
  /\ u.running = w.running /\ u.catalog = w.catalog
  /\ u.staged = w.staged /\ u.selected = w.selected /\ u.focus = w.focus
  /\ u.viewport = w.viewport /\ u.tiling = w.tiling
  /\ u.pending = w.pending /\ u.active = w.active /\ u.links = w.links
  /\ u.signedIn = w.signedIn /\ u.finalizing = w.finalizing
  /\ u.made = w.made /\ u.reported = w.reported
  /\ u.refused = w.refused /\ u.sends = w.sends /\ u.done = w.done

\* The other views, what they are registered under, and their bindings.
Others(w, u, v) ==
  /\ BoundSet(u) \ {v} = BoundSet(w) \ {v}
  /\ \A y \in BoundSet(w) \ {v} : BindingOf(u, y) = BindingOf(w, y)
  /\ \A y \in View \ {v} :
       /\ u.views[y] = w.views[y]
       /\ w.views[y].session # None =>
            u.registry[w.views[y].session] = w.registry[w.views[y].session]
  /\ w.error \ {v} \subseteq u.error /\ w.unheard \ {v} \subseteq u.unheard

\* From w to u only v and its binding change.
Moves(w, u, v) ==
  /\ Formed(u) /\ Host(w, u) /\ Others(w, u, v)
  /\ u.waiting = w.waiting /\ (w.retryTimer => u.retryTimer)

\* No step at all is one of v only.
LEMMA MovesStay ==
  ASSUME NEW w, Formed(w), NEW v PROVE Moves(w, w, v)
BY DEF Moves, Host, Others

\* Two steps of v only are one.
LEMMA MovesOn ==
  ASSUME NEW w, NEW u, NEW x, NEW v, Moves(w, u, v), Moves(u, x, v)
  PROVE  Moves(w, x, v)
<1>1. Formed(x) /\ x.waiting = w.waiting /\ (w.retryTimer => x.retryTimer)
  BY DEF Moves
<1>2. Host(w, x)
  BY DEF Moves, Host
<1>3. Others(w, x, v)
  <2>1. Others(w, u, v) /\ Others(u, x, v)
    BY DEF Moves
  <2>2. BoundSet(x) \ {v} = BoundSet(w) \ {v}
    BY <2>1 DEF Others
  <2>3. ASSUME NEW y \in BoundSet(w) \ {v} PROVE BindingOf(x, y) = BindingOf(w, y)
    <3>1. y \in BoundSet(u) \ {v}
      BY <2>1 DEF Others
    <3> QED
      BY <2>1, <3>1 DEF Others
  <2>4. ASSUME NEW y \in View \ {v}
        PROVE  /\ x.views[y] = w.views[y]
               /\ w.views[y].session # None =>
                    x.registry[w.views[y].session] = w.registry[w.views[y].session]
    BY <2>1 DEF Others
  <2>5. w.error \ {v} \subseteq x.error /\ w.unheard \ {v} \subseteq x.unheard
    BY <2>1 DEF Others
  <2> QED
    BY <2>2, <2>3, <2>4, <2>5 DEF Others
<1> QED
  BY <1>1, <1>2, <1>3 DEF Moves

\* What another view's binding is, it stays.
LEMMA OtherFits ==
  ASSUME NEW w, NEW u, NEW v, NEW A, NEW B, NEW C, NEW A1, NEW B1, NEW C1,
         Moves(w, u, v), Formed(w), NEW y \in BoundSet(w) \ {v},
         Fits(w, y, A, B, C), A \subseteq A1 \cup {v}, B \subseteq B1 \cup {v}, C \subseteq C1 \cup {v}
  PROVE  Fits(u, y, A1, B1, C1)
<1>1. Held(w)
  BY DEF Formed, Held, SurfaceTyped
<1>2. PICK b : b = BindingOf(w, y) /\ b = BindingOf(u, y)
  BY DEF Moves, Others
<1>3. y \in View /\ b.view = y
  BY <1>1, <1>2, BindingIs
<1>4. /\ u.views[y] = w.views[y]
      /\ w.views[y].session # None =>
           u.registry[w.views[y].session] = w.registry[w.views[y].session]
      /\ w.error \ {v} \subseteq u.error /\ w.unheard \ {v} \subseteq u.unheard
  BY <1>3 DEF Moves, Others
<1>5. /\ u.running = w.running /\ u.catalog = w.catalog /\ u.waiting = w.waiting
      /\ w.retryTimer => u.retryTimer
  BY DEF Moves, Host
<1>6. /\ BindingOK(w, b) /\ (y \notin A => Carried(w, b)) /\ (y \notin B => Settled(w, b))
      /\ (y \notin C => Timed(w, b))
  BY <1>2 DEF Fits
<1>7. BindingOK(u, b)
  BY <1>3, <1>4, <1>5, <1>6 DEF BindingOK
<1>8. Live(w, b) => Live(u, b)
  <2>1. w.views[y].session \in {None, b.session}
    BY <1>3, <1>6 DEF BindingOK
  <2>2. y \in w.error \cup w.unheard => y \in u.error \cup u.unheard
    BY <1>4
  <2> QED
    BY <1>3, <1>4, <2>1, <2>2 DEF Live
<1>9. Carried(w, b) => Carried(u, b)
  BY <1>3, <1>4, <1>8 DEF Carried
<1>10. \A s : Status(u, s) = Status(w, s) /\ Incarnation(u, s) = Incarnation(w, s)
  BY <1>5 DEF Status, Incarnation, Known
<1>11. Settled(w, b) => Settled(u, b)
  BY <1>5, <1>8, <1>10 DEF Settled, Current, Noted, Going, Away, RemoteConnectable, CanControl, CanRetain
<1>12. Timed(w, b) => Timed(u, b)
  BY <1>5 DEF Timed
<1>13. y \notin A1 => y \notin A
  OBVIOUS
<1>14. y \notin B1 => y \notin B
  OBVIOUS
<1>15. y \notin C1 => y \notin C
  OBVIOUS
<1> QED
  BY <1>2, <1>6, <1>7, <1>9, <1>11, <1>12, <1>13, <1>14, <1>15 DEF Fits

\* When the view that moves fits, the surfaces do.
Fitting(w, u, v, A, B, C) ==
  /\ v \in BoundSet(u) => /\ Fits(u, v, A, B, C)
                          /\ \A y \in BoundSet(w) \ {v} : Alike(BindingOf(u, v), BindingOf(w, y))
  /\ v \notin BoundSet(u) => u.views[v] = Detached

\* The surfaces fit after a step of v when v does: the others are as they were.
LEMMA SurfaceMoves ==
  ASSUME NEW w, NEW u, NEW v \in View, NEW A, NEW B, NEW C, NEW A1, NEW B1, NEW C1,
         Surface(w, A, B, C), Moves(w, u, v), Fitting(w, u, v, A1, B1, C1),
         A \subseteq A1 \cup {v}, B \subseteq B1 \cup {v}, C \subseteq C1 \cup {v}
  PROVE  Surface(u, A1, B1, C1)
<1>1. Formed(u) /\ Formed(w)
  BY DEF Moves, Surface
<1>2. /\ BoundSet(u) \ {v} = BoundSet(w) \ {v}
      /\ \A y \in BoundSet(w) \ {v} : BindingOf(u, y) = BindingOf(w, y)
      /\ \A y \in View \ {v} : u.views[y] = w.views[y]
  BY DEF Moves, Others
<1>3. \A y \in View \ BoundSet(u) : u.views[y] = Detached
  BY <1>2 DEF Surface, Fitting
<1>4. ASSUME NEW y \in BoundSet(u) PROVE Fits(u, y, A1, B1, C1)
  <2>1. CASE y = v
    BY <2>1 DEF Fitting
  <2>2. CASE y # v
    <3>1. y \in BoundSet(w) \ {v}
      BY <1>2, <2>2
    <3>2. Fits(w, y, A, B, C)
      BY <3>1 DEF Surface
    <3> QED
      BY <1>1, <3>1, <3>2, OtherFits
  <2> QED
    BY <2>1, <2>2
<1>5. ASSUME NEW x \in BoundSet(u), NEW y \in BoundSet(u)
      PROVE  Alike(BindingOf(u, x), BindingOf(u, y))
  <2>1. CASE x # v /\ y # v
    <3>1. x \in BoundSet(w) /\ y \in BoundSet(w) /\ BindingOf(u, x) = BindingOf(w, x)
          /\ BindingOf(u, y) = BindingOf(w, y)
      BY <1>2, <2>1
    <3> QED
      BY <3>1 DEF Surface, Shares
  <2>2. CASE x = v /\ y # v
    <3>1. y \in BoundSet(w) \ {v} /\ BindingOf(u, y) = BindingOf(w, y)
      BY <1>2, <2>2
    <3> QED
      BY <2>2, <3>1 DEF Fitting
  <2>3. CASE x # v /\ y = v
    <3>1. x \in BoundSet(w) \ {v} /\ BindingOf(u, x) = BindingOf(w, x)
      BY <1>2, <2>3
    <3>2. Alike(BindingOf(u, v), BindingOf(u, x))
      BY <2>3, <3>1 DEF Fitting
    <3> QED
      BY <2>3, <3>2 DEF Alike
  <2>4. CASE x = v /\ y = v
    BY <2>4 DEF Alike
  <2> QED
    BY <2>1, <2>2, <2>3, <2>4
<1> QED
  BY <1>1, <1>3, <1>4, <1>5 DEF Surface, Shares

-----------------------------------------------------------------------------
(* Views and registry                                                       *)

\* Only the views, the registry, the errors and the mark of a refusal change.
Rest(w, u) ==
  /\ DOMAIN u = Names /\ Host(w, u) /\ u.bindings = w.bindings /\ u.waiting = w.waiting
  /\ u.retryTimer = w.retryTimer /\ u.unheard = w.unheard /\ u.wired = w.wired

\* The state of a view that is detached, and of a session without an entry.
LEMMA DetachedIs == Detached \in ViewState /\ NoEntry \in Entry /\ Detached.session = None
<1>1. <<>> \in Seq({"ok", "failed", "closed"})
  OBVIOUS
<1> QED
  BY <1>1 DEF Detached, ViewState, NoEntry, Entry

\* TerminalView::detach leaves the view detached and the rest as it was, and drops the
\* entry of the session when no other view is registered for it.
LEMMA Detaches ==
  ASSUME NEW w, Formed(w), NEW v \in View, NEW u, u = DetachView(w, v)
  PROVE  /\ Moves(w, u, v) /\ Rest(w, u) /\ u.views[v] = Detached /\ u.error = w.error
<1>1. PICK s : s = w.views[v].session
  OBVIOUS
<1>2. w.views \in [View -> ViewState] /\ w.registry \in [Session -> Entry] /\ DOMAIN w = Names
  BY DEF Formed, SurfaceTyped
<1>3. s \in Session \cup {None}
  BY <1>1, <1>2 DEF ViewState
<1>4. CASE s = None
  <2>1. u = w
    BY <1>1, <1>4 DEF DetachView
  <2>2. w.views[v] = Detached
    BY <1>1, <1>4 DEF Formed, RegistryOK, ViewOK
  <2> QED
    BY <1>2, <2>1, <2>2, MovesStay DEF Rest, Host
<1>5. CASE s # None
  <2> DEFINE e == IF Registered(w, s) = {v} THEN NoEntry ELSE w.registry[s]
  <2>1. s \in Session
    BY <1>3, <1>5
  <2>2. u = [w EXCEPT !.views = [w.views EXCEPT ![v] = Detached],
                      !.registry = [w.registry EXCEPT ![s] = e]]
    BY <1>1, <1>2, <1>5, <2>1 DEF DetachView
  <2>3. /\ u.views = [w.views EXCEPT ![v] = Detached] /\ u.registry = [w.registry EXCEPT ![s] = e]
        /\ u.bindings = w.bindings /\ u.waiting = w.waiting /\ u.retryTimer = w.retryTimer
        /\ u.error = w.error /\ u.unheard = w.unheard /\ u.wired = w.wired
        /\ DOMAIN u = Names /\ Host(w, u)
    BY <1>2, <2>2 DEF Names, Host
  <2>4. u.views \in [View -> ViewState] /\ u.registry \in [Session -> Entry]
    BY <1>2, <2>1, <2>3, DetachedIs
  <2>5. \A y \in View \ {v} : u.views[y] = w.views[y]
    BY <1>2, <2>3
  <2>6. u.views[v] = Detached
    BY <1>2, <2>3
  <2>7. \A t \in Session \ {s} : u.registry[t] = w.registry[t]
    BY <1>2, <2>3
  <2>8. u.registry[s] = e
    BY <1>2, <2>1, <2>3
  <2>9. v \in Registered(w, s)
    BY <1>1 DEF Registered
  <2>10. ASSUME NEW y \in View \ {v}, w.views[y].session # None
         PROVE  u.registry[w.views[y].session] = w.registry[w.views[y].session]
    <3>1. w.views[y].session \in Session
      BY <1>2, <2>10 DEF ViewState
    <3>2. CASE w.views[y].session = s
      <4>1. y \in Registered(w, s)
        BY <3>2 DEF Registered
      <4> QED
        BY <2>8, <3>2, <4>1
    <3>3. CASE w.views[y].session # s
      BY <2>7, <3>1, <3>3
    <3> QED
      BY <3>2, <3>3
  <2>11. ASSUME NEW y \in View PROVE ViewOK(u, y)
    <3>1. CASE y = v
      BY <2>6, <3>1, DetachedIs DEF ViewOK
    <3>2. CASE y # v
      <4>1. ViewOK(w, y)
        BY DEF Formed, RegistryOK
      <4> QED
        BY <2>5, <2>10, <3>2, <4>1 DEF ViewOK
    <3> QED
      BY <3>1, <3>2
  <2>12. ASSUME NEW t \in Session PROVE EntryOK(u, t)
    <3>0. EntryOK(w, t)
      BY DEF Formed, RegistryOK
    <3>1. CASE t # s
      <4>1. w.registry[t].sub # 0 => \E y \in View \ {v} : w.views[y].session = t
        BY <1>1, <3>0, <3>1 DEF EntryOK
      <4>2. u.registry[t].sub # 0 => \E y \in View : u.views[y].session = t
        BY <4>1, <2>5, <2>7, <3>1
      <4> QED
        BY <2>7, <3>0, <3>1, <4>2 DEF EntryOK
    <3>2. CASE t = s /\ Registered(w, s) = {v}
      BY <2>8, <3>2 DEF EntryOK, NoEntry
    <3>3. CASE t = s /\ Registered(w, s) # {v}
      <4>1. PICK y \in Registered(w, s) : y # v
        BY <2>9, <3>3
      <4>2. y \in View /\ w.views[y].session = s
        BY DEF Registered
      <4>3. u.views[y].session = s
        BY <2>5, <4>1, <4>2
      <4>4. u.registry[t] = w.registry[t]
        BY <2>8, <3>3
      <4> QED
        BY <3>0, <3>3, <4>2, <4>3, <4>4 DEF EntryOK
    <3> QED
      BY <3>1, <3>2, <3>3
  <2>13. Formed(u)
    BY <2>3, <2>4, <2>11, <2>12 DEF Formed, RegistryOK, SurfaceTyped, Unique
  <2>14. Others(w, u, v)
    BY <2>3, <2>5, <2>10 DEF Others, BoundSet, BindingOf, Position
  <2> QED
    BY <2>3, <2>6, <2>13, <2>14 DEF Moves, Rest
<1> QED
  BY <1>4, <1>5

\* What a view that asked to be registered has come to: nothing, or it joined the
\* entry of the session, or it is the first and has asked for a connection.
Asked(w, u, v, s, sub) ==
  \/ u.views[v] = Detached
  \/ /\ u.views[v] = [session |-> s, sub |-> sub, ready |-> FALSE, inbox |-> <<>>]
     /\ u.registry[s].phase = IF w.registry[s].sub = 0 THEN "asked" ELSE w.registry[s].phase
     /\ w.registry[s].sub \in {0, sub}

\* Registering a view: it stays detached, joins the entry, or is the first of it.
LEMMA Registers ==
  ASSUME NEW w, Formed(w), NEW v \in View, w.views[v] = Detached, NEW s \in Session,
         NEW sub \in Nat \ {0}, NEW u, u = RegisterView(w, v, s, sub)
  PROVE  Moves(w, u, v) /\ Rest(w, u) /\ Asked(w, u, v, s, sub)
<1>1. PICK entry : entry = w.registry[s]
  OBVIOUS
<1>2. w.views \in [View -> ViewState] /\ w.registry \in [Session -> Entry] /\ DOMAIN w = Names
  BY DEF Formed, SurfaceTyped
<1>3. CASE entry.sub \notin {0, sub}
  <2>1. u = w
    BY <1>1, <1>3 DEF RegisterView
  <2> QED
    BY <1>2, <2>1, MovesStay DEF Rest, Host, Asked
<1> DEFINE asks == (entry.sub = 0 \/ entry.phase = "admitted") /\ v \in w.refused
<1>4. CASE entry.sub \in {0, sub} /\ asks
  <2>1. u = [w EXCEPT !.error = w.error \cup {v}, !.faulty = TRUE]
    BY <1>1, <1>4 DEF RegisterView
  <2>2. /\ u.views = w.views /\ u.registry = w.registry
        /\ u.bindings = w.bindings /\ u.waiting = w.waiting /\ u.retryTimer = w.retryTimer
        /\ u.error = w.error \cup {v} /\ u.unheard = w.unheard /\ u.wired = w.wired
        /\ DOMAIN u = Names /\ Host(w, u)
    BY <1>2, <2>1 DEF Names, Host
  <2>3. Formed(u)
    BY <2>2 DEF Formed, RegistryOK, ViewOK, EntryOK, SurfaceTyped, Unique
  <2>4. Others(w, u, v)
    BY <2>2 DEF Others, BoundSet, BindingOf, Position
  <2> QED
    BY <2>2, <2>3, <2>4 DEF Moves, Rest, Asked
<1>5. CASE entry.sub \in {0, sub} /\ ~asks
  <2> DEFINE view == [session |-> s, sub |-> sub, ready |-> FALSE, inbox |-> <<>>]
             e == IF entry.sub = 0 THEN [sub |-> sub, phase |-> "asked"] ELSE entry
  <2>1. view = [Detached EXCEPT !.session = s, !.sub = sub]
    <3>1. PICK d : d = Detached /\ d = [session |-> None, sub |-> 0, ready |-> FALSE, inbox |-> <<>>]
      BY DEF Detached
    <3>2. PICK f : f = [d EXCEPT !.session = s, !.sub = sub]
      OBVIOUS
    <3>3. DOMAIN d = {"session", "sub", "ready", "inbox"}
      BY <3>1
    <3>4. f.session = s /\ f.sub = sub /\ f.ready = FALSE /\ f.inbox = <<>>
      BY <3>1, <3>2, <3>3
    <3>6. DOMAIN f = {"session", "sub", "ready", "inbox"}
      BY <3>2, <3>3
    <3>7. f = [x \in DOMAIN f |-> f[x]]
      BY <3>2
    <3>5. f = view
      BY <3>4, <3>6, <3>7
    <3> QED
      BY <3>1, <3>2, <3>5
  <2>2. u = [w EXCEPT !.views = [w.views EXCEPT ![v] = view],
                      !.registry = [w.registry EXCEPT ![s] = e]]
    BY <1>1, <1>2, <1>5, <2>1 DEF RegisterView
  <2>3. /\ u.views = [w.views EXCEPT ![v] = view] /\ u.registry = [w.registry EXCEPT ![s] = e]
        /\ u.bindings = w.bindings /\ u.waiting = w.waiting /\ u.retryTimer = w.retryTimer
        /\ u.error = w.error /\ u.unheard = w.unheard /\ u.wired = w.wired
        /\ DOMAIN u = Names /\ Host(w, u)
    BY <1>2, <2>2 DEF Names, Host
  <2>4. view \in ViewState /\ e \in Entry
    <3>1. <<>> \in Seq({"ok", "failed", "closed"})
      OBVIOUS
    <3> QED
      BY <1>1, <1>2, <3>1 DEF ViewState, Entry
  <2>5. u.views \in [View -> ViewState] /\ u.registry \in [Session -> Entry]
    BY <1>2, <2>3, <2>4
  <2>6. \A y \in View \ {v} : u.views[y] = w.views[y]
    BY <1>2, <2>3
  <2>7. u.views[v] = view
    BY <1>2, <2>3
  <2>8. \A t \in Session \ {s} : u.registry[t] = w.registry[t]
    BY <1>2, <2>3
  <2>9. u.registry[s] = e /\ e.sub = sub
    BY <1>2, <1>5, <2>3
  <2>10. s # None
    BY ControllerAssumption
  <2>11. ASSUME NEW y \in View \ {v}, w.views[y].session # None
         PROVE  u.registry[w.views[y].session] = w.registry[w.views[y].session]
    <3>1. w.views[y].session \in Session
      BY <1>2, <2>11 DEF ViewState
    <3>2. CASE w.views[y].session = s
      <4>1. entry.sub # 0
        BY <1>1, <2>11, <3>2 DEF Formed, RegistryOK, ViewOK
      <4> QED
        BY <1>1, <2>9, <3>2, <4>1
    <3>3. CASE w.views[y].session # s
      BY <2>8, <3>1, <3>3
    <3> QED
      BY <3>2, <3>3
  <2>12. ASSUME NEW y \in View PROVE ViewOK(u, y)
    <3>1. CASE y = v
      BY <2>7, <2>9, <2>10, <3>1 DEF ViewOK
    <3>2. CASE y # v
      <4>1. ViewOK(w, y)
        BY DEF Formed, RegistryOK
      <4> QED
        BY <2>6, <2>11, <3>2, <4>1 DEF ViewOK
    <3> QED
      BY <3>1, <3>2
  <2>13. ASSUME NEW t \in Session PROVE EntryOK(u, t)
    <3>0. EntryOK(w, t)
      BY DEF Formed, RegistryOK
    <3>1. CASE t # s
      <4>1. w.registry[t].sub # 0 => \E y \in View \ {v} : w.views[y].session = t
        <5>1. w.registry[t].sub # 0 => \E y \in View : w.views[y].session = t
          BY <3>0 DEF EntryOK
        <5>2. w.views[v].session # t
          BY ControllerAssumption, DetachedIs
        <5> QED
          BY <5>1, <5>2
      <4>2. u.registry[t].sub # 0 => \E y \in View : u.views[y].session = t
        BY <4>1, <2>6, <2>8, <3>1
      <4> QED
        BY <2>8, <3>0, <3>1, <4>2 DEF EntryOK
    <3>2. CASE t = s
      BY <2>7, <2>9, <3>2 DEF EntryOK
    <3> QED
      BY <3>1, <3>2
  <2>14. Formed(u)
    BY <2>3, <2>5, <2>12, <2>13 DEF Formed, RegistryOK, SurfaceTyped, Unique
  <2>15. Others(w, u, v)
    BY <2>3, <2>6, <2>11 DEF Others, BoundSet, BindingOf, Position
  <2>16. Asked(w, u, v, s, sub)
    BY <1>1, <1>5, <2>7, <2>9 DEF Asked
  <2> QED
    BY <2>3, <2>14, <2>15, <2>16 DEF Moves, Rest
<1> QED
  BY <1>3, <1>4, <1>5

-----------------------------------------------------------------------------
(* Bindings and errors                                                      *)

\* Only the bindings and the mark of a refusal change.
Beside(w, u) ==
  /\ DOMAIN u = Names /\ Host(w, u) /\ u.views = w.views /\ u.registry = w.registry
  /\ u.waiting = w.waiting /\ u.retryTimer = w.retryTimer
  /\ u.error = w.error /\ u.unheard = w.unheard /\ u.wired = w.wired

\* What is well formed stays so when the bindings are, and the views are untouched.
LEMMA FormedBeside ==
  ASSUME NEW w, Formed(w), NEW u, u.views = w.views, u.registry = w.registry,
         u.waiting \in BOOLEAN, u.retryTimer \in BOOLEAN, DOMAIN u = Names, Held(u)
  PROVE  Formed(u)
BY DEF Formed, Held, SurfaceTyped, RegistryOK, ViewOK, EntryOK

\* Well-formed surfaces have well-formed bindings.
LEMMA FormedHeld ==
  ASSUME NEW w, Formed(w) PROVE Held(w)
BY DEF Formed, Held, SurfaceTyped

\* Writing back the binding of v changes nothing else.
LEMMA Rebounds ==
  ASSUME NEW w, Formed(w), NEW v \in BoundSet(w), NEW b \in Binding, b.view = v,
         NEW u, u = Rebound(w, v, b)
  PROVE  /\ Moves(w, u, v) /\ Beside(w, u)
         /\ v \in BoundSet(u) /\ BindingOf(u, v) = b
<1>1. Held(w) /\ DOMAIN w = Names
  BY FormedHeld DEF Formed
<1>2. u.bindings = [w.bindings EXCEPT ![Position(w, v)] = b] /\ Beside(w, u)
  BY <1>1 DEF Rebound, Names, Beside, Host
<1>3. Replaces(w, u, v, b)
  BY <1>1, <1>2, Replaced
<1>4. Formed(u)
  BY <1>2, <1>3, FormedBeside DEF Beside, Replaces, Formed, SurfaceTyped
<1>5. Others(w, u, v)
  BY <1>2, <1>3 DEF Beside, Replaces, Others
<1> QED
  BY <1>2, <1>3, <1>4, <1>5 DEF Moves, Beside, Replaces

\* The tile of v is given an error, or loses it, or the retry timer is started.
Displayed(w, u, v) ==
  /\ DOMAIN u = Names /\ Host(w, u) /\ u.views = w.views /\ u.registry = w.registry
  /\ u.bindings = w.bindings
  /\ u.waiting = w.waiting /\ u.unheard = w.unheard
  /\ u.wired = w.wired /\ w.error \ {v} \subseteq u.error

\* An error shown or cleared, and the timer started, disturb no binding.
LEMMA Shows ==
  ASSUME NEW w, Formed(w), NEW v, NEW u, Displayed(w, u, v), u.retryTimer \in BOOLEAN,
         w.retryTimer => u.retryTimer
  PROVE  Moves(w, u, v) /\ BoundSet(u) = BoundSet(w) /\ BindingOf(u, v) = BindingOf(w, v)
<1>1. Held(u) /\ u.waiting \in BOOLEAN
  BY DEF Formed, SurfaceTyped, Held, Displayed, Unique
<1>2. Formed(u)
  BY <1>1, FormedBeside DEF Displayed
<1>3. Others(w, u, v)
  BY DEF Displayed, Others, BoundSet, BindingOf, Position
<1> QED
  BY <1>2, <1>3 DEF Moves, Displayed, BoundSet, BindingOf, Position

\* A tile rejected has an error, and that is all.
LEMMA Rejects ==
  ASSUME NEW w, Formed(w), NEW v, NEW u, u = Rejected(w, v)
  PROVE  /\ Moves(w, u, v) /\ BoundSet(u) = BoundSet(w) /\ BindingOf(u, v) = BindingOf(w, v)
         /\ Rest(w, u) /\ u.views = w.views /\ u.registry = w.registry
         /\ u.error = w.error \cup {v}
<1>1. DOMAIN w = Names
  BY DEF Formed
<1>2. Rest(w, u) /\ u.views = w.views /\ u.registry = w.registry /\ u.error = w.error \cup {v}
  BY <1>1 DEF Rejected, Names, Rest, Host
<1>3. Displayed(w, u, v)
  BY <1>2 DEF Rest, Displayed
<1>4. u.retryTimer \in BOOLEAN /\ (w.retryTimer => u.retryTimer)
  BY <1>2 DEF Rest, Formed, SurfaceTyped
<1> QED
  BY <1>2, <1>3, <1>4, Shows

\* A tile that is ready has no error any more, and that is all.
LEMMA Readies ==
  ASSUME NEW w, Formed(w), NEW v, NEW u, u = Ready(w, v)
  PROVE  /\ Moves(w, u, v) /\ BoundSet(u) = BoundSet(w) /\ BindingOf(u, v) = BindingOf(w, v)
         /\ Rest(w, u) /\ u.views = w.views /\ u.registry = w.registry
         /\ u.error = w.error \ {v}
<1>1. DOMAIN w = Names
  BY DEF Formed
<1>2. Rest(w, u) /\ u.views = w.views /\ u.registry = w.registry /\ u.error = w.error \ {v}
  BY <1>1 DEF Ready, Names, Rest, Host
<1>3. Displayed(w, u, v)
  BY <1>2 DEF Rest, Displayed
<1>4. u.retryTimer \in BOOLEAN /\ (w.retryTimer => u.retryTimer)
  BY <1>2 DEF Rest, Formed, SurfaceTyped
<1> QED
  BY <1>2, <1>3, <1>4, Shows

-----------------------------------------------------------------------------
(* Subscriptions                                                            *)

\* The values of a function on a finite set are finitely many.
LEMMA ImageFinite ==
  ASSUME NEW S, IsFiniteSet(S), NEW f, DOMAIN f = S
  PROVE  IsFiniteSet({f[x] : x \in S})
<1> DEFINE T == {f[x] : x \in S}
           g == [x \in S |-> f[x]]
<1>1. g \in Surjection(S, T)
  BY DEF Surjection
<1> QED
  BY <1>1, FS_Surjection

\* A new subscription is one no surface of the session uses.
LEMMA FreshIs ==
  ASSUME NEW w, Formed(w), NEW s, NEW n, n = FreshSubscription(w, s)
  PROVE  n \in Nat \ {0} /\ \A y \in View : w.views[y].session = s => w.views[y].sub # n
<1> DEFINE I == {i \in DOMAIN w.bindings : w.bindings[i].session = s}
           U == {w.bindings[i].sub : i \in I}
           R == Registered(w, s)
           W == {w.views[v].sub : v \in R}
           used == U \cup W
<1>1. IsFiniteSet(U)
  <2>1. IsFiniteSet(DOMAIN w.bindings)
    <3>1. PICK m \in Nat : DOMAIN w.bindings = 1 .. m
      BY LenProperties DEF Formed, SurfaceTyped
    <3> QED
      BY <3>1, FS_Interval
  <2>2. IsFiniteSet(I)
    BY <2>1, FS_Subset
  <2> DEFINE f == [i \in I |-> w.bindings[i].sub]
  <2>3. DOMAIN f = I /\ U = {f[i] : i \in I}
    OBVIOUS
  <2> HIDE DEF f, I
  <2> QED
    BY <2>2, <2>3, ImageFinite
<1>2. IsFiniteSet(W)
  <2>1. IsFiniteSet(View)
    BY ControllerAssumption, FS_Union DEF View
  <2>2. IsFiniteSet(R)
    BY <2>1, FS_Subset DEF Registered
  <2> DEFINE f == [i \in R |-> w.views[i].sub]
  <2>3. DOMAIN f = R /\ W = {f[i] : i \in R}
    OBVIOUS
  <2> HIDE DEF f, R
  <2> QED
    BY <2>2, <2>3, ImageFinite
<1>3. n = CHOOSE k \in 1 .. Cardinality(used) + 1 : k \notin used /\ \A m \in 1 .. k - 1 : m \in used
  BY DEF FreshSubscription
<1>4. \A y \in View : w.views[y].session = s => w.views[y].sub \in used
  BY DEF Registered
<1>5. IsFiniteSet(used)
  BY <1>1, <1>2, FS_Union
<1> HIDE DEF U, W
<1> HIDE DEF used
<1>6. PICK c \in Nat : c = Cardinality(used)
  BY <1>5, FS_CardinalityType
<1>7. PICK j \in 1 .. c + 1 : j \notin used
  <2>1. SUFFICES ASSUME \A j \in 1 .. c + 1 : j \in used PROVE FALSE
    OBVIOUS
  <2>2. 1 .. c + 1 \in SUBSET used
    BY <2>1
  <2>3. Cardinality(1 .. c + 1) <= c
    BY ONLY <1>5, <1>6, <2>2, FS_Subset
  <2>4. Cardinality(1 .. c + 1) = c + 1
    <3>1. 1 \in Int /\ c + 1 \in Int /\ ~(1 > c + 1) /\ (c + 1) - 1 + 1 = c + 1
      OBVIOUS
    <3> QED
      BY <3>1, FS_Interval
  <2> QED
    BY <2>3, <2>4
<1>8. \E k \in 1 .. c + 1 : k \notin used /\ \A m \in 1 .. k - 1 : m \in used
  <2> DEFINE T == {k \in 1 .. c + 1 : k \notin used}
  <2>1. T \in SUBSET Nat /\ T # {}
    BY <1>7
  <2>2. PICK k \in T : \A y \in T : k <= y
    BY <2>1, Least
  <2>3. ASSUME NEW m \in 1 .. k - 1 PROVE m \in used
    <3>1. m \in 1 .. c + 1 /\ ~(k <= m)
      OBVIOUS
    <3> QED
      BY <2>2, <3>1
  <2> QED
    BY <2>2, <2>3
<1>9. n \in 1 .. c + 1 /\ n \notin used
  BY <1>3, <1>6, <1>8
<1> QED
  BY <1>4, <1>9

\* The sharer found is another attached binding of the same incarnation, and when
\* none is found there is none.
Mate(w, y, b) ==
  LET c == BindingOf(w, y) IN c.attached /\ c.session = b.session /\ c.inc = b.inc
Alone(w, v, b) == \A y \in BoundSet(w) \ {v} : ~Mate(w, y, b)
Accompanied(w, v, b, sub) ==
  /\ sub \in Nat \ {0}
  /\ \E y \in BoundSet(w) \ {v} : Mate(w, y, b) /\ BindingOf(w, y).sub = sub

\* findSharedBinding: what it finds, and that it finds one where there is one.
LEMMA SharerIs ==
  ASSUME NEW w, Held(w), NEW v \in BoundSet(w), NEW b, b = BindingOf(w, v),
         \A y \in BoundSet(w) : Sound(BindingOf(w, y)),
         NEW i, i = Sharer(w, v)
  PROVE  (i = 0 /\ Alone(w, v, b)) \/ (i # 0 /\ Accompanied(w, v, b, w.bindings[i].sub))
<1> DEFINE Test(c) == c.view # v /\ c.attached /\ c.sub # 0 /\ c.session = b.session /\ c.inc = b.inc
           I == {j \in 1 .. Len(w.bindings) : Test(w.bindings[j])}
<1>1. i = IF I # {} THEN Min(I) ELSE 0
  BY DEF Sharer, SelectInSeq
<1>2. PICK n \in Nat : n = Len(w.bindings) /\ DOMAIN w.bindings = 1 .. n
  BY LenProperties DEF Held
<1>3. CASE I = {}
  <2>1. ASSUME NEW y \in BoundSet(w) \ {v}, NEW c, c = BindingOf(w, y),
               c.attached, c.session = b.session, c.inc = b.inc
        PROVE  FALSE
    <3>1. PICK j \in DOMAIN w.bindings : w.bindings[j].view = y
      BY DEF BoundSet
    <3>2. c = w.bindings[j]
      BY <2>1, <3>1, PositionIs
    <3>3. c.sub # 0
      BY <2>1 DEF Sound
    <3>4. j \in I
      BY <1>2, <2>1, <3>1, <3>2, <3>3
    <3> QED
      BY <1>3, <3>4
  <2>2. i = 0
    BY <1>1, <1>3
  <2> HIDE DEF I
  <2> QED
    BY <2>1, <2>2 DEF Alone, Mate
<1>4. CASE I # {}
  <2>1. I \in SUBSET Nat
    OBVIOUS
  <2>2. i \in I
    BY <1>1, <1>4, <2>1, MinIs
  <2>3. i \in 1 .. n /\ Test(w.bindings[i])
    BY <1>2, <2>2
  <2>4. PICK y : y = w.bindings[i].view
    OBVIOUS
  <2>5. y \in BoundSet(w) /\ y # v
    BY <1>2, <2>3, <2>4 DEF BoundSet
  <2>6. BindingOf(w, y) = w.bindings[i]
    BY <1>2, <2>3, <2>4, PositionIs
  <2>7. w.bindings[i] \in Binding
    BY <1>2, <2>3, ElementOfSeq DEF Held
  <2>8. w.bindings[i].sub \in Nat
    BY <2>7 DEF Binding
  <2> QED
    BY <2>3, <2>5, <2>6, <2>8 DEF Accompanied, Mate
<1> QED
  BY <1>3, <1>4

-----------------------------------------------------------------------------
(* Handlers of one view.                                                    *)

\* Both say the same of every session.
SameCatalog(w, u) ==
  \A s : /\ Known(u, s) <=> Known(w, s)
         /\ Status(u, s) = Status(w, s) /\ Incarnation(u, s) = Incarnation(w, s)
         /\ CanRetain(u, s) <=> CanRetain(w, s)
         /\ Away(u, s) <=> Away(w, s)
         /\ RemoteConnectable(u, s) <=> RemoteConnectable(w, s)

\* The catalog is what it lists: its state of loading matters to none of these.
LEMMA CatalogListed ==
  ASSUME NEW w, NEW u, u.catalog.sessions = w.catalog.sessions
  PROVE  SameCatalog(w, u)
<1>1. \A s : /\ Known(u, s) <=> Known(w, s)
             /\ Status(u, s) = Status(w, s) /\ Incarnation(u, s) = Incarnation(w, s)
  BY DEF Known, Status, Incarnation
<1> QED
  BY <1>1 DEF SameCatalog, CanRetain, Away, RemoteConnectable, CanControl

\* With the same catalog both say the same of every session.
LEMMA CatalogKept ==
  ASSUME NEW w, NEW u, u.catalog = w.catalog
  PROVE  SameCatalog(w, u)
BY CatalogListed

\* From w to u only v changes, and then it fits.
Does(w, u, v, A, B, C) == Moves(w, u, v) /\ Surface(u, A \ {v}, B \ {v}, C \ {v})

\* A handler that leaves the binding of v fitting has done its work.
LEMMA Concludes ==
  ASSUME NEW w, NEW u, NEW v \in View, NEW A, NEW B, NEW C, Surface(w, A, B, C), Moves(w, u, v),
         v \in BoundSet(u), NEW b, b = BindingOf(u, v),
         BindingOK(u, b), Carried(u, b), Settled(u, b), Timed(u, b),
         b.attached => \A y \in BoundSet(w) \ {v} : Alike(b, BindingOf(w, y))
  PROVE  Does(w, u, v, A, B, C)
<1>1. Fits(u, v, A \ {v}, B \ {v}, C \ {v})
  BY DEF Fits
<1>2. Fitting(w, u, v, A \ {v}, B \ {v}, C \ {v})
  BY <1>1 DEF Fitting, Alike
<1>3. A \subseteq (A \ {v}) \cup {v} /\ B \subseteq (B \ {v}) \cup {v} /\ C \subseteq (C \ {v}) \cup {v}
  OBVIOUS
<1>4. Surface(u, A \ {v}, B \ {v}, C \ {v})
  BY <1>2, <1>3, SurfaceMoves
<1> QED
  BY <1>4 DEF Does

\* scheduleRemoteRetry of a binding that is off leaves it fitting: it waits for the timer,
\* or its retries are exhausted and its tile says so.
LEMMA Scheduled ==
  ASSUME NEW w, NEW A, NEW B, NEW C, Surface(w, A, B, C), NEW v \in BoundSet(w),
         NEW b, b = BindingOf(w, v), w.views[v] = Detached, ~b.attached, b.inc # 0,
         Current(w, b), Timed(w, b), b.attempts <= RetryLimit,
         b.exhausted => v \in w.error \cup w.unheard,
         NEW u, u = ScheduleRemoteRetry(w, v)
  PROVE  Does(w, u, v, A, B, C) /\ v \in BoundSet(u)
         /\ u.views[v] = Detached /\ ~BindingOf(u, v).attached /\ BindingOf(u, v).inc = b.inc
         /\ BindingOf(u, v).attempts <= b.attempts + 1
         /\ u.wired = w.wired
<1>1. Formed(w) /\ Held(w) /\ DOMAIN w = Names
  BY FormedHeld DEF Surface, Formed
<1>2. v \in View /\ b \in Binding /\ b.view = v
  BY <1>1, BindingIs
<1>3. BindingOK(w, b) /\ Sound(b)
  BY DEF Surface, Fits, BindingOK
<1>4. RetryLimit \in Nat \ {0} /\ b.attempts \in Nat
  BY <1>2, ControllerAssumption DEF Binding
<1>8. b.attempts + 1 \in 0 .. RetryLimit + 1
  BY <1>4
<1>5. CASE ~RemoteConnectable(w, b.session)
  <2>1. u = Rejected(w, v)
    BY <1>5 DEF ScheduleRemoteRetry
  <2>2. /\ Moves(w, u, v) /\ BoundSet(u) = BoundSet(w) /\ BindingOf(u, v) = b
        /\ Rest(w, u) /\ u.views = w.views /\ u.registry = w.registry
        /\ u.error = w.error \cup {v}
    BY <1>1, <2>1, Rejects
  <2>3. SameCatalog(w, u)
    BY <2>2, CatalogKept DEF Rest, Host
  <2>4. BindingOK(u, b)
    BY <1>2, <1>3, <2>2 DEF BindingOK, Rest, Host
  <2>5. Carried(u, b) /\ Going(u, b)
    BY <1>2, <2>2 DEF Carried, Live, Going
  <2>6. Current(u, b) /\ Noted(u, b) /\ Timed(u, b)
    BY <2>2, <2>3 DEF Current, Noted, Timed, SameCatalog, Rest
  <2>7. Does(w, u, v, A, B, C)
    BY <1>2, <2>2, <2>4, <2>5, <2>6, Concludes DEF Settled
  <2> QED
    BY <1>4, <2>2, <2>7 DEF Rest
<1>6. CASE RemoteConnectable(w, b.session) /\ b.attempts + 1 >= RetryLimit
  <2>0. PICK c : c = [b EXCEPT !.attempts = b.attempts + 1, !.retry = FALSE, !.exhausted = TRUE]
    OBVIOUS
  <2>1. PICK x : x = Rebound(w, v, c)
    OBVIOUS
  <2>2. u = Rejected(x, v)
    <3>1. c = [[b EXCEPT !.attempts = @ + 1] EXCEPT !.retry = FALSE, !.exhausted = TRUE]
      BY <1>2, <2>0 DEF Binding
    <3> QED
      BY <1>2, <1>4, <1>6, <2>1, <3>1 DEF ScheduleRemoteRetry, Binding
  <2>3. c \in Binding /\ c.view = v
    BY <1>2, <1>8, <2>0 DEF Binding
  <2>4. Moves(w, x, v) /\ Beside(w, x) /\ v \in BoundSet(x) /\ BindingOf(x, v) = c
    BY <1>1, <2>1, <2>3, Rebounds
  <2>5. /\ Moves(x, u, v) /\ BoundSet(u) = BoundSet(x) /\ BindingOf(u, v) = c
        /\ Rest(x, u) /\ u.views = x.views /\ u.registry = x.registry
        /\ u.error = x.error \cup {v}
    BY <2>2, <2>4, Rejects DEF Moves
  <2>6. Moves(w, u, v)
    BY <2>4, <2>5, MovesOn
  <2>7. SameCatalog(w, u)
    BY <2>6, CatalogKept DEF Moves, Host
  <2>8. /\ c.view = b.view /\ c.session = b.session /\ c.inc = b.inc /\ c.sub = b.sub
        /\ c.attached = b.attached /\ c.timer = b.timer /\ c.retry = FALSE /\ c.exhausted = TRUE
        /\ c.attempts = b.attempts + 1
    BY <1>2, <2>0 DEF Binding
  <2>9. BindingOK(u, c)
    <3>1. Sound(c)
      BY <1>3, <1>4, <1>6, <2>8 DEF Sound
    <3> QED
      BY <1>2, <1>3, <2>4, <2>5, <2>8, <3>1, DetachedIs DEF BindingOK, Rest, Beside, Host
  <2>10. Carried(u, c) /\ Going(u, c)
    BY <1>2, <2>5, <2>8 DEF Carried, Live, Going
  <2>11. Current(u, c) /\ Noted(u, c) /\ Timed(u, c)
    BY <2>7, <2>8 DEF Current, Noted, Timed, SameCatalog
  <2>12. Does(w, u, v, A, B, C)
    BY <1>2, <2>4, <2>5, <2>6, <2>8, <2>9, <2>10, <2>11, Concludes DEF Settled
  <2> QED
    BY <2>4, <2>5, <2>8, <2>12, <1>4 DEF Rest, Beside
<1>7. CASE RemoteConnectable(w, b.session) /\ ~(b.attempts + 1 >= RetryLimit)
  <2>0. PICK c : c = [b EXCEPT !.attempts = b.attempts + 1, !.retry = TRUE]
    OBVIOUS
  <2>1. PICK x : x = Rebound(w, v, c)
    OBVIOUS
  <2>2. u = [x EXCEPT !.retryTimer = TRUE]
    <3>1. c = [[b EXCEPT !.attempts = @ + 1] EXCEPT !.retry = TRUE]
      BY <1>2, <2>0 DEF Binding
    <3> QED
      BY <1>2, <1>4, <1>7, <2>1, <3>1 DEF ScheduleRemoteRetry, Binding
  <2>3. c \in Binding /\ c.view = v
    BY <1>2, <1>8, <2>0 DEF Binding
  <2>4. Moves(w, x, v) /\ Beside(w, x) /\ v \in BoundSet(x) /\ BindingOf(x, v) = c
    BY <1>1, <2>1, <2>3, Rebounds
  <2>5. /\ Moves(x, u, v) /\ BoundSet(u) = BoundSet(x) /\ BindingOf(u, v) = c
        /\ Displayed(x, u, v) /\ u.retryTimer = TRUE
    <3>1. Displayed(x, u, v) /\ u.retryTimer = TRUE
      BY <2>2, <2>4 DEF Displayed, Beside, Names, Host
    <3> QED
      BY <2>4, <3>1, Shows DEF Moves
  <2>6. Moves(w, u, v)
    BY <2>4, <2>5, MovesOn
  <2>7. SameCatalog(w, u)
    BY <2>6, CatalogKept DEF Moves, Host
  <2>8. /\ c.view = b.view /\ c.session = b.session /\ c.inc = b.inc /\ c.sub = b.sub
        /\ c.attached = b.attached /\ c.timer = b.timer /\ c.retry = TRUE
        /\ c.exhausted = b.exhausted /\ c.attempts = b.attempts + 1
    BY <1>2, <2>0 DEF Binding
  <2>9. ~b.exhausted
    BY <1>3, <1>4, <1>7 DEF Sound
  <2>10. BindingOK(u, c)
    <3>1. Sound(c)
      BY <1>3, <1>4, <1>7, <2>8, <2>9 DEF Sound
    <3> QED
      BY <1>2, <1>3, <2>4, <2>5, <2>8, <3>1, DetachedIs DEF BindingOK, Displayed, Beside, Host
  <2>11. Carried(u, c) /\ Going(u, c)
    BY <2>8, <2>9 DEF Carried, Going
  <2>12. Current(u, c) /\ Noted(u, c) /\ Timed(u, c)
    BY <2>5, <2>7, <2>8 DEF Current, Noted, Timed, SameCatalog
  <2>13. Does(w, u, v, A, B, C)
    BY <1>2, <2>4, <2>5, <2>6, <2>8, <2>10, <2>11, <2>12, Concludes DEF Settled
  <2> QED
    BY <2>4, <2>5, <2>8, <2>13, <1>4 DEF Displayed, Beside
<1> QED
  BY <1>5, <1>6, <1>7

\* From w to u only v changes, and it need not fit yet.
LEMMA Unfits ==
  ASSUME NEW w, NEW u, NEW v \in View, NEW A, NEW B, NEW C, Surface(w, A, B, C), Moves(w, u, v),
         v \in BoundSet(u), NEW b, b = BindingOf(u, v), BindingOK(u, b),
         b.attached => \A y \in BoundSet(w) \ {v} : Alike(b, BindingOf(w, y))
  PROVE  Surface(u, A \cup {v}, B \cup {v}, C \cup {v})
<1>1. Fits(u, v, A \cup {v}, B \cup {v}, C \cup {v})
  BY DEF Fits
<1>2. Fitting(w, u, v, A \cup {v}, B \cup {v}, C \cup {v})
  BY <1>1 DEF Fitting, Alike
<1>3. /\ A \subseteq (A \cup {v}) \cup {v} /\ B \subseteq (B \cup {v}) \cup {v}
      /\ C \subseteq (C \cup {v}) \cup {v}
  OBVIOUS
<1> QED
  BY <1>2, <1>3, SurfaceMoves

\* What prepares v and the handler that then serves it are one handler.
LEMMA DoesAfter ==
  ASSUME NEW w, NEW x, NEW u, NEW v, NEW A, NEW B, NEW C, Moves(w, x, v),
         Does(x, u, v, A \cup {v}, B \cup {v}, C \cup {v})
  PROVE  Does(w, u, v, A, B, C)
<1>1. (A \cup {v}) \ {v} = A \ {v} /\ (B \cup {v}) \ {v} = B \ {v} /\ (C \cup {v}) \ {v} = C \ {v}
  OBVIOUS
<1>2. Moves(w, u, v)
  BY MovesOn DEF Does
<1> QED
  BY <1>1, <1>2 DEF Does

\* Nothing happens to v, which fits.
LEMMA DoesNothing ==
  ASSUME NEW w, NEW A, NEW B, NEW C, Surface(w, A, B, C), NEW v \in BoundSet(w),
         NEW b, b = BindingOf(w, v),
         Carried(w, b), Settled(w, b), Timed(w, b)
  PROVE  Does(w, w, v, A, B, C)
<1>1. Formed(w) /\ v \in View
  BY FormedHeld, BindingIs DEF Surface
<1>2. Moves(w, w, v)
  BY <1>1, MovesStay
<1>3. BindingOK(w, b)
  BY DEF Surface, Fits
<1>4. \A y \in BoundSet(w) \ {v} : Alike(b, BindingOf(w, y))
  BY DEF Surface, Shares
<1> QED
  BY <1>1, <1>2, <1>3, <1>4, Concludes

\* The bindings are the same.
LEMMA SameBindings ==
  ASSUME NEW w, NEW u, u.bindings = w.bindings
  PROVE  /\ BoundSet(u) = BoundSet(w) /\ \A y : BindingOf(u, y) = BindingOf(w, y)
         /\ \A y : Position(u, y) = Position(w, y) /\ (Bound(u, y) <=> Bound(w, y))
         /\ \A y : Sharer(u, y) = Sharer(w, y)
         /\ BoundViews(u) = BoundViews(w)
BY DEF BoundSet, BindingOf, Position, Bound, Sharer, BoundViews

\* tryAttach leaves the binding fitting: attached and under way, to be retried, or with
\* an error on its tile.
LEMMA Tried ==
  ASSUME NEW w, NEW A, NEW B, NEW C, Surface(w, A, B, C), NEW v \in BoundSet(w),
         NEW b, b = BindingOf(w, v), Current(w, b), Noted(w, b), Timed(w, b), Carried(w, b),
         Going(w, b) \/ (w.running /\ b.inc # 0),
         NEW u, u = TryAttach(w, v)
  PROVE  Does(w, u, v, A, B, C) /\ v \in BoundSet(u) /\ u.wired = w.wired
<1>1. Formed(w) /\ Held(w) /\ DOMAIN w = Names
  BY FormedHeld DEF Surface, Formed
<1>2. v \in View /\ b \in Binding /\ b.view = v
  BY <1>1, BindingIs
<1>3. BindingOK(w, b) /\ Sound(b)
  BY DEF Surface, Fits, BindingOK
<1>4. CASE ~Attachable(w, b)
  <2>1. u = w
    BY <1>4 DEF TryAttach
  <2>2. Going(w, b)
    BY <1>2, <1>4 DEF Attachable, Carried, Going, Live
  <2> QED
    BY <2>1, <2>2, DoesNothing DEF Settled
<1>5. CASE Attachable(w, b)
  <2>1. ~Away(w, b.session) /\ ~b.attached /\ ~b.retry /\ ~b.exhausted
        /\ w.running /\ ~w.waiting /\ b.inc # 0
    BY <1>5 DEF Attachable
  <2>2. PICK s : s = b.session
    OBVIOUS
  <2>3. s \in Session /\ s # None
    BY <1>2, <2>2, ControllerAssumption DEF Binding
  <2>4. PICK sharer : sharer = Sharer(w, v)
    OBVIOUS
  <2>5. PICK sub : sub = IF sharer # 0 THEN w.bindings[sharer].sub ELSE FreshSubscription(w, s)
    OBVIOUS
  <2>6. PICK d : d = DetachView(w, v)
    OBVIOUS
  <2>7. PICK r : r = RegisterView(d, v, s, sub)
    OBVIOUS
  <2>8. u = NoteAttached(r, v, sharer # 0)
    BY <1>5, <2>2, <2>4, <2>5, <2>6, <2>7 DEF TryAttach, AttachView
  <2> DEFINE Mates(y) == Mate(w, y, b)
  <2>9. (sharer = 0 /\ Alone(w, v, b)) \/ (sharer # 0 /\ Accompanied(w, v, b, w.bindings[sharer].sub))
    <3>1. \A y \in BoundSet(w) : Sound(BindingOf(w, y))
      BY DEF Surface, Fits, BindingOK
    <3> QED
      BY <1>1, <2>4, <3>1, SharerIs
  <2>10. sub \in Nat \ {0}
    <3>1. CASE sharer # 0
      BY <2>5, <2>9, <3>1 DEF Accompanied
    <3>2. CASE sharer = 0
      <4>1. sub = FreshSubscription(w, s)
        BY <2>5, <3>2
      <4> QED
        BY <1>1, <4>1, FreshIs
    <3> QED
      BY <3>1, <3>2
  <2>11. \A y \in BoundSet(w) \ {v} : Mates(y) => BindingOf(w, y).sub = sub
    <3>1. CASE sharer # 0
      <4>1. PICK z \in BoundSet(w) \ {v} : Mates(z) /\ BindingOf(w, z).sub = sub
        BY <2>5, <2>9, <3>1 DEF Accompanied
      <4>2. ASSUME NEW y \in BoundSet(w) \ {v}, Mates(y) PROVE BindingOf(w, y).sub = sub
        <5>1. Alike(BindingOf(w, y), BindingOf(w, z))
          BY DEF Surface, Shares
        <5> QED
          BY <4>1, <4>2, <5>1 DEF Alike, Mate
      <4> QED
        BY <4>2
    <3>2. CASE sharer = 0
      BY <2>9, <3>2 DEF Alone
    <3> QED
      BY <3>1, <3>2
  <2> HIDE DEF Mates
  <2>12. /\ Moves(w, d, v) /\ Rest(w, d) /\ d.views[v] = Detached /\ d.error = w.error
    BY <1>1, <1>2, <2>6, Detaches
  <2>13. /\ Moves(d, r, v) /\ Rest(d, r) /\ Asked(d, r, v, s, sub)
    BY <1>2, <2>3, <2>7, <2>10, <2>12, Registers DEF Moves
  <2>14. Moves(w, r, v)
    BY <2>12, <2>13, MovesOn
  <2>15. Formed(r) /\ r.bindings = w.bindings /\ r.wired = w.wired /\ r.retryTimer = w.retryTimer
    BY <2>12, <2>13, <2>14 DEF Moves, Rest
  <2>16. v \in BoundSet(r) /\ BindingOf(r, v) = b
    BY <2>15, SameBindings
  <2>17. SameCatalog(w, r) /\ r.running = w.running /\ r.waiting = w.waiting
    BY <2>14, CatalogKept DEF Moves, Host
  <2>18. CASE r.views[v] = Detached
    <3>1. PICK c : c = [b EXCEPT !.attached = FALSE, !.sub = 0]
      OBVIOUS
    <3>2. PICK x : x = Rebound(r, v, c)
      OBVIOUS
    <3>3. u = ScheduleRemoteRetry(x, v)
      <4>1. r.views[v].sub = 0
        BY <2>18 DEF Detached
      <4> QED
        BY <2>8, <2>16, <3>1, <3>2, <4>1 DEF NoteAttached
    <3>4. c \in Binding /\ c.view = v
      BY <1>2, <3>1 DEF Binding
    <3>5. Moves(r, x, v) /\ Beside(r, x) /\ v \in BoundSet(x) /\ BindingOf(x, v) = c
      BY <2>15, <2>16, <3>2, <3>4, Rebounds
    <3>6. Moves(w, x, v)
      BY <2>14, <3>5, MovesOn
    <3>7. /\ c.session = b.session /\ c.inc = b.inc /\ c.sub = 0 /\ c.attached = FALSE
          /\ c.timer = b.timer /\ c.retry = b.retry /\ c.exhausted = b.exhausted
          /\ c.attempts = b.attempts
      BY <1>2, <3>1 DEF Binding
    <3>8. x.views[v] = Detached
      BY <2>18, <3>5 DEF Beside
    <3>9. BindingOK(x, c)
      <4>1. Sound(c)
        BY <1>3, <2>1, <3>7 DEF Sound
      <4> QED
        BY <1>2, <1>3, <3>4, <3>7, <3>8, <4>1, <2>1, DetachedIs DEF BindingOK
    <3>10. Surface(x, A \cup {v}, B \cup {v}, C \cup {v})
      BY <1>2, <3>5, <3>6, <3>7, <3>9, Unfits
    <3>11. SameCatalog(w, x)
      BY <3>6, CatalogKept DEF Moves, Host
    <3>12. Current(x, c)
      BY <3>7, <3>11 DEF Current, SameCatalog
    <3>13. c.attempts <= RetryLimit
      <4>1. b.attempts \in Nat /\ RetryLimit \in Nat
        BY <1>2, ControllerAssumption DEF Binding
      <4> QED
        BY <1>3, <2>1, <3>7, <4>1 DEF Sound
    <3>14. Timed(x, c)
      BY <2>1, <3>7 DEF Timed
    <3>15. Does(x, u, v, A \cup {v}, B \cup {v}, C \cup {v}) /\ v \in BoundSet(u) /\ u.wired = x.wired
      BY <2>1, <3>3, <3>5, <3>7, <3>8, <3>10, <3>12, <3>13, <3>14, Scheduled
    <3>16. Does(w, u, v, A, B, C)
      BY <3>6, <3>15, DoesAfter
    <3> QED
      BY <2>15, <3>5, <3>15, <3>16 DEF Beside
  <2>19. CASE ~(r.views[v] = Detached)
    <3>1. /\ r.views[v] = [session |-> s, sub |-> sub, ready |-> FALSE, inbox |-> <<>>]
          /\ r.registry[s].phase = IF d.registry[s].sub = 0 THEN "asked" ELSE d.registry[s].phase
          /\ d.registry[s].sub \in {0, sub}
      BY <2>13, <2>19 DEF Asked
    <3>2. PICK view : view = r.views[v]
      OBVIOUS
    <3>3. view.session = s /\ view.sub = sub /\ view.inbox = <<>>
      BY <3>1, <3>2
    <3>4. PICK c : c = [b EXCEPT !.attached = TRUE, !.sub = sub, !.timer = (sharer # 0)]
      OBVIOUS
    <3>5. u = Rebound(r, v, c)
      BY <2>8, <2>10, <2>16, <3>2, <3>3, <3>4 DEF NoteAttached
    <3>6. c \in Binding /\ c.view = v
      BY <1>2, <2>10, <3>4 DEF Binding
    <3>7. Moves(r, u, v) /\ Beside(r, u) /\ v \in BoundSet(u) /\ BindingOf(u, v) = c
      BY <2>15, <2>16, <3>5, <3>6, Rebounds
    <3>8. Moves(w, u, v)
      BY <2>14, <3>7, MovesOn
    <3>9. /\ c.session = b.session /\ c.inc = b.inc /\ c.sub = sub /\ c.attached = TRUE
          /\ c.timer = (sharer # 0) /\ c.retry = b.retry /\ c.exhausted = b.exhausted
          /\ c.attempts = b.attempts
      BY <1>2, <3>4 DEF Binding
    <3>10. u.views[v] = view /\ u.registry = r.registry
      BY <3>2, <3>7 DEF Beside
    <3>11. BindingOK(u, c)
      <4>1. Sound(c)
        BY <1>3, <2>1, <2>10, <3>9 DEF Sound
      <4>2. u.running /\ ~u.waiting
        BY <2>1, <3>8 DEF Moves, Host
      <4> QED
        BY <1>2, <1>3, <2>1, <2>2, <3>3, <3>6, <3>9, <3>10, <4>1, <4>2 DEF BindingOK
    <3>12. sharer = 0 => d.registry[s].sub = 0
      <4> SUFFICES ASSUME sharer = 0, d.registry[s].sub # 0 PROVE FALSE
        OBVIOUS
      <4>1. Formed(d) /\ d.registry[s].sub = sub
        BY <2>12, <3>1 DEF Moves
      <4>2. PICK y \in View : d.views[y].session = s
        BY <2>3, <4>1 DEF Formed, RegistryOK, EntryOK
      <4>3. y # v
        BY <2>3, <2>12, <4>2, DetachedIs
      <4>4. d.views[y].sub = sub
        BY <2>3, <4>1, <4>2 DEF Formed, RegistryOK, ViewOK
      <4>5. w.views[y] = d.views[y]
        BY <2>12, <4>3 DEF Moves, Others
      <4>6. sub = FreshSubscription(w, s)
        BY <2>5
      <4> QED
        BY <1>1, <4>2, <4>4, <4>5, <4>6, FreshIs
    <3>13. Live(u, c)
      BY <2>2, <2>3, <3>1, <3>3, <3>6, <3>9, <3>10, <3>12 DEF Live
    <3>14. Carried(u, c) /\ Going(u, c)
      BY <2>1, <3>9, <3>13 DEF Carried, Going
    <3>15. SameCatalog(w, u)
      BY <3>8, CatalogKept DEF Moves, Host
    <3>16. Current(u, c) /\ Noted(u, c) /\ Timed(u, c)
      BY <2>1, <3>9, <3>15 DEF Current, Noted, Timed, SameCatalog
    <3>17. ASSUME NEW y \in BoundSet(w) \ {v} PROVE Alike(c, BindingOf(w, y))
      BY <2>11, <3>9 DEF Alike, Mates, Mate
    <3>18. Does(w, u, v, A, B, C)
      BY <1>2, <3>7, <3>8, <3>11, <3>14, <3>16, <3>17, Concludes DEF Settled
    <3> QED
      BY <2>15, <3>7, <3>18 DEF Beside
  <2> QED
    BY <2>18, <2>19
<1> QED
  BY <1>4, <1>5

\* A session the catalog has: the runtime runs, and it has an incarnation.
LEMMA KnownIs ==
  ASSUME NEW w, HostOK(w), NEW s
  PROVE  /\ Incarnation(w, s) \in 0 .. MaxInc
         /\ Known(w, s) => /\ w.running /\ Incarnation(w, s) # 0
                           /\ Status(w, s) \in {"ready", "away", "closing", "blocked"}
         /\ ~Known(w, s) => Incarnation(w, s) = 0 /\ Status(w, s) = "gone"
         /\ CanRetain(w, s) => Known(w, s) /\ ~BindRefused(w, s)
<1>1. MaxInc \in Nat
  BY StageAssumption
<1>2. Known(w, s) => w.catalog.sessions[s].inc \in 1 .. MaxInc
  BY DEF HostOK, Known, Listed
<1>3. Known(w, s) => w.catalog.sessions[s].status \in {"ready", "away", "closing", "blocked"}
  BY DEF HostOK, Known, Listed
<1>4. Known(w, s) => w.running
  BY DEF HostOK, Known
<1>5. CanRetain(w, s) => Known(w, s) /\ ~BindRefused(w, s)
  BY DEF CanRetain, Status, BindRefused
<1> QED
  BY <1>1, <1>2, <1>3, <1>4, <1>5 DEF Incarnation, Status

\* A binding with nothing to it but its session and incarnation.
Blank(c, b, s, inc) ==
  /\ c.view = b.view /\ c.session = s /\ c.inc = inc /\ c.sub = 0 /\ c.attached = FALSE
  /\ c.timer = FALSE /\ c.retry = FALSE /\ c.exhausted = FALSE /\ c.attempts = 0

\* A binding with nothing to it is sound.
LEMMA BlankSound ==
  ASSUME NEW b, NEW s, NEW inc, NEW c, Blank(c, b, s, inc) PROVE Sound(c)
BY ControllerAssumption DEF Blank, Sound

\* What is left of a binding that is put off, or no longer retried.
LEMMA OffUnretried ==
  ASSUME NEW b \in Binding
  PROVE  /\ Off(b) \in Binding /\ Unretried(b) \in Binding
         /\ Unretried(Off(b)) \in Binding /\ Off(Unretried(b)) \in Binding
         /\ Off(b).view = b.view /\ Off(b).session = b.session /\ Off(b).inc = b.inc
         /\ Off(b).sub = 0 /\ Off(b).attached = FALSE /\ Off(b).timer = FALSE
         /\ Off(b).retry = b.retry /\ Off(b).exhausted = b.exhausted
         /\ Off(b).attempts = b.attempts /\ Off(b).connected = b.connected
         /\ Unretried(b).view = b.view /\ Unretried(b).session = b.session
         /\ Unretried(b).inc = b.inc /\ Unretried(b).sub = b.sub
         /\ Unretried(b).attached = b.attached /\ Unretried(b).timer = b.timer
         /\ Unretried(b).retry = FALSE /\ Unretried(b).exhausted = FALSE
         /\ Unretried(b).attempts = 0 /\ Unretried(b).connected = b.connected
<1>1. 0 \in 0 .. RetryLimit + 1
  BY ControllerAssumption
<1>2. Off(b) \in Binding /\ Unretried(b) \in Binding
  BY <1>1 DEF Off, Unretried, Binding
<1>3. PICK c \in Binding : c = Off(b)
  BY <1>2
<1>4. PICK d \in Binding : d = Unretried(b)
  BY <1>2
<1>5. Unretried(c) \in Binding /\ Off(d) \in Binding
  BY <1>1 DEF Off, Unretried, Binding
<1> QED
  BY <1>2, <1>3, <1>4, <1>5 DEF Off, Unretried, Binding

\* A binding given a session it did not have before starts over, and fits then.
LEMMA StartsOver ==
  ASSUME NEW w, HostOK(w), NEW A, NEW B, NEW C, Surface(w, A, B, C), NEW v \in BoundSet(w),
         NEW s \in Session, v \in Session => s = v, ~BindRefused(w, s),
         NEW u, u = StartOver(w, v, s)
  PROVE  Does(w, u, v, A, B, C) /\ v \in BoundSet(u) /\ u.wired = w.wired
<1>1. Formed(w) /\ Held(w) /\ DOMAIN w = Names
  BY FormedHeld DEF Surface, Formed
<1>2. PICK b : b = BindingOf(w, v)
  OBVIOUS
<1>3. v \in View /\ b \in Binding /\ b.view = v
  BY <1>1, <1>2, BindingIs
<1>4. PICK d : d = DetachView(w, v)
  OBVIOUS
<1>5. PICK e : e = Unretried(Off(b))
  OBVIOUS
<1>6. PICK c : c = [e EXCEPT !.session = s, !.inc = Incarnation(w, s)]
  OBVIOUS
<1>7. PICK x : x = Rebound(d, v, c)
  OBVIOUS
<1>8. u = TryAttach(x, v)
  BY <1>2, <1>4, <1>5, <1>6, <1>7 DEF StartOver
<1>9. /\ Moves(w, d, v) /\ Rest(w, d) /\ d.views[v] = Detached /\ d.error = w.error
  BY <1>1, <1>3, <1>4, Detaches
<1>10. /\ e \in Binding
       /\ e.view = v /\ e.sub = 0 /\ e.attached = FALSE /\ e.timer = FALSE
       /\ e.retry = FALSE /\ e.exhausted = FALSE /\ e.attempts = 0
  <2>1. PICK o \in Binding : o = Off(b) /\ o.view = v /\ o.sub = 0 /\ o.attached = FALSE /\ o.timer = FALSE
    BY <1>3, OffUnretried
  <2>2. e = Unretried(o)
    BY <1>5, <2>1
  <2> QED
    BY <2>1, <2>2, OffUnretried
<1>11. Incarnation(w, s) \in 0 .. MaxInc
  BY KnownIs
<1>12. c \in Binding /\ c.view = v /\ Blank(c, b, s, Incarnation(w, s))
  BY <1>3, <1>6, <1>10, <1>11 DEF Binding, Blank
<1>13. Formed(d) /\ v \in BoundSet(d)
  BY <1>9, SameBindings DEF Moves, Rest
<1>14. Moves(d, x, v) /\ Beside(d, x) /\ v \in BoundSet(x) /\ BindingOf(x, v) = c
  BY <1>7, <1>12, <1>13, Rebounds
<1>15. Moves(w, x, v)
  BY <1>9, <1>14, MovesOn
<1>16. x.views[v] = Detached
  BY <1>9, <1>14 DEF Beside
<1>17. BindingOK(x, c)
  BY <1>12, <1>16, BlankSound, DetachedIs DEF BindingOK, Blank
<1>18. Surface(x, A \cup {v}, B \cup {v}, C \cup {v})
  BY <1>3, <1>12, <1>14, <1>15, <1>17, Unfits DEF Blank
<1>19. SameCatalog(w, x) /\ x.running = w.running /\ x.waiting = w.waiting
  BY <1>15, CatalogKept DEF Moves, Host
<1>20. /\ Known(w, s) => w.running /\ Incarnation(w, s) # 0
                         /\ Status(w, s) \in {"ready", "away", "closing", "blocked"}
       /\ ~Known(w, s) => Incarnation(w, s) = 0
  BY KnownIs
<1>21. Current(x, c)
  BY <1>12, <1>19, <1>20 DEF Current, SameCatalog, Blank, BindRefused, CanRetain
<1>22. Noted(x, c) /\ Timed(x, c) /\ Carried(x, c)
  BY <1>12 DEF Noted, Timed, Carried, Blank
<1>23. Going(x, c) \/ (x.running /\ c.inc # 0)
  BY <1>12, <1>19, <1>20 DEF Going, Blank, BindRefused
<1>24. Does(x, u, v, A \cup {v}, B \cup {v}, C \cup {v}) /\ v \in BoundSet(u) /\ u.wired = x.wired
  BY <1>8, <1>14, <1>18, <1>21, <1>22, <1>23, Tried
<1>25. Does(w, u, v, A, B, C)
  BY <1>15, <1>24, DoesAfter
<1> QED
  BY <1>9, <1>14, <1>24, <1>25 DEF Rest, Beside

\* The tile of a bound view is given an error: it fits if it is in line with the
\* catalog.
LEMMA RejectDoes ==
  ASSUME NEW w, NEW A, NEW B, NEW C, Surface(w, A, B, C), NEW v \in BoundSet(w),
         NEW b, b = BindingOf(w, v), Current(w, b), Noted(w, b), Timed(w, b),
         NEW u, u = Rejected(w, v)
  PROVE  Does(w, u, v, A, B, C) /\ v \in BoundSet(u) /\ u.wired = w.wired
<1>1. Formed(w) /\ Held(w)
  BY FormedHeld DEF Surface
<1>2. v \in View /\ b.view = v
  BY <1>1, BindingIs
<1>3. /\ Moves(w, u, v) /\ BoundSet(u) = BoundSet(w) /\ BindingOf(u, v) = b
      /\ Rest(w, u) /\ u.views = w.views /\ u.registry = w.registry
      /\ u.error = w.error \cup {v}
  BY <1>1, Rejects
<1>4. BindingOK(w, b)
  BY DEF Surface, Fits
<1>5. BindingOK(u, b)
  BY <1>3, <1>4 DEF BindingOK, Rest, Host
<1>6. SameCatalog(w, u)
  BY <1>3, CatalogKept DEF Rest, Host
<1>7. Current(u, b) /\ Noted(u, b) /\ Timed(u, b)
  BY <1>3, <1>6 DEF Current, Noted, Timed, SameCatalog, Rest
<1>8. Carried(u, b) /\ Going(u, b)
  BY <1>2, <1>3 DEF Carried, Live, Going
<1>9. \A y \in BoundSet(w) \ {v} : Alike(b, BindingOf(w, y))
  BY DEF Surface, Shares
<1>10. Does(w, u, v, A, B, C)
  BY <1>2, <1>3, <1>5, <1>7, <1>8, <1>9, Concludes DEF Settled
<1> QED
  BY <1>3, <1>10 DEF Rest

\* A view that is not bound in the end fits if it is detached.
LEMMA UnboundDoes ==
  ASSUME NEW w, NEW u, NEW v \in View, NEW A, NEW B, NEW C, Surface(w, A, B, C), Moves(w, u, v),
         v \notin BoundSet(u), u.views[v] = Detached
  PROVE  Does(w, u, v, A, B, C)
<1>1. Fitting(w, u, v, A \ {v}, B \ {v}, C \ {v})
  BY DEF Fitting
<1>2. A \subseteq (A \ {v}) \cup {v} /\ B \subseteq (B \ {v}) \cup {v} /\ C \subseteq (C \ {v}) \cup {v}
  OBVIOUS
<1> QED
  BY <1>1, <1>2, SurfaceMoves DEF Does

\* What a binding that fits is.
LEMMA FitsIs ==
  ASSUME NEW w, NEW A, NEW B, NEW C, Surface(w, A, B, C), NEW v \in BoundSet(w) \ (A \cup B \cup C),
         NEW b, b = BindingOf(w, v)
  PROVE  /\ Carried(w, b) /\ Current(w, b) /\ Noted(w, b) /\ Going(w, b) /\ Timed(w, b)
         /\ BindingOK(w, b)
BY DEF Surface, Fits, Settled

\* bindTerminalSurface: the view is bound unless it is refused, and fits either way.
LEMMA Binds ==
  ASSUME NEW w, HostOK(w), NEW A, NEW B, NEW C, Surface(w, A, B, C), NEW v \in View,
         v \in BoundSet(w) => v \notin A \cup B \cup C,
         NEW s \in Session, v \in Session => s = v,
         NEW u, u = Bind(w, v, s)
  PROVE  /\ Does(w, u, v, A, B, C)
         /\ BoundSet(u) = IF BindRefused(w, s) THEN BoundSet(w) ELSE BoundSet(w) \cup {v}
<1>1. Formed(w) /\ Held(w) /\ DOMAIN w = Names
  BY FormedHeld DEF Surface, Formed
<1>2. Bound(w, v) <=> v \in BoundSet(w)
  BY <1>1, NoPosition
<1>3. CASE BindRefused(w, s)
  <2>1. u = Rejected(w, v)
    BY <1>3 DEF Bind
  <2>2. Moves(w, u, v) /\ BoundSet(u) = BoundSet(w) /\ u.views = w.views
    BY <1>1, <2>1, Rejects
  <2>3. CASE v \in BoundSet(w)
    <3>1. PICK b : b = BindingOf(w, v)
      OBVIOUS
    <3>2. Current(w, b) /\ Noted(w, b) /\ Timed(w, b)
      BY <2>3, <3>1, FitsIs
    <3> QED
      BY <1>3, <2>1, <2>2, <2>3, <3>1, <3>2, RejectDoes
  <2>4. CASE v \notin BoundSet(w)
    <3>1. u.views[v] = Detached
      BY <2>2, <2>4 DEF Surface
    <3> QED
      BY <1>3, <2>2, <2>4, <3>1, UnboundDoes
  <2> QED
    BY <2>3, <2>4
<1>4. CASE ~BindRefused(w, s) /\ v \notin BoundSet(w)
  <2>1. PICK b : b = NewBinding(w, v, s)
    OBVIOUS
  <2>2. PICK y : y = [w EXCEPT !.bindings = Append(w.bindings, b)]
    OBVIOUS
  <2>3. PICK x : x = Wire(y, v)
    OBVIOUS
  <2>4. u = TryAttach(x, v)
    BY <1>2, <1>4, <2>1, <2>2, <2>3 DEF Bind
  <2>5. Incarnation(w, s) \in 0 .. MaxInc
    BY KnownIs
  <2>6. b \in Binding /\ b.view = v /\ Blank(b, b, s, Incarnation(w, s))
    <3>1. 0 \in 0 .. RetryLimit + 1 /\ 0 \in Nat
      BY ControllerAssumption
    <3> QED
      BY <2>1, <2>5, <3>1 DEF NewBinding, Binding, Blank
  <2>7. /\ x.bindings = Append(w.bindings, b) /\ DOMAIN x = Names /\ Host(w, x)
        /\ x.views = w.views /\ x.registry = w.registry /\ x.waiting = w.waiting
        /\ x.retryTimer = w.retryTimer /\ x.error = w.error /\ x.unheard = w.unheard
    <3>1. /\ y.bindings = Append(w.bindings, b) /\ DOMAIN y = Names /\ Host(w, y)
          /\ y.views = w.views /\ y.registry = w.registry /\ y.waiting = w.waiting
          /\ y.retryTimer = w.retryTimer /\ y.error = w.error /\ y.unheard = w.unheard
      BY <1>1, <2>2 DEF Names, Host
    <3>2. /\ x.bindings = y.bindings /\ DOMAIN x = Names /\ Host(y, x)
          /\ x.views = y.views /\ x.registry = y.registry /\ x.waiting = y.waiting
          /\ x.retryTimer = y.retryTimer /\ x.error = y.error /\ x.unheard = y.unheard
      BY <2>3, <3>1 DEF Names, Host, Wire
    <3> QED
      BY <3>1, <3>2 DEF Host
  <2>8. Adds(w, x, v, b)
    BY <1>1, <1>4, <2>6, <2>7, Added
  <2>9. Formed(x)
    BY <1>1, <2>7, <2>8, FormedBeside DEF Adds, Formed, SurfaceTyped
  <2>10. Others(w, x, v)
    BY <1>4, <2>7, <2>8 DEF Others, Adds
  <2>11. Moves(w, x, v) /\ v \in BoundSet(x) /\ BindingOf(x, v) = b
    BY <2>7, <2>8, <2>9, <2>10 DEF Moves, Adds
  <2>12. x.views[v] = Detached
    BY <1>4, <2>7 DEF Surface
  <2>13. BindingOK(x, b)
    BY <2>6, <2>12, BlankSound, DetachedIs DEF BindingOK, Blank
  <2>14. Surface(x, A \cup {v}, B \cup {v}, C \cup {v})
    BY <2>6, <2>11, <2>13, Unfits DEF Blank
  <2>15. SameCatalog(w, x) /\ x.running = w.running /\ x.waiting = w.waiting
    BY <2>7, CatalogKept DEF Host
  <2>16. /\ Known(w, s) => w.running /\ Incarnation(w, s) # 0
                          /\ Status(w, s) \in {"ready", "away", "closing", "blocked"}
         /\ ~Known(w, s) => Incarnation(w, s) = 0
    BY KnownIs
  <2>17. Current(x, b)
    BY <1>4, <2>6, <2>15, <2>16 DEF Current, SameCatalog, Blank, BindRefused, CanRetain
  <2>18. Noted(x, b) /\ Timed(x, b) /\ Carried(x, b)
    BY <2>6 DEF Noted, Timed, Carried, Blank
  <2>19. Going(x, b) \/ (x.running /\ b.inc # 0)
    BY <1>4, <2>6, <2>15, <2>16 DEF Going, Blank, BindRefused
  <2>20. Does(x, u, v, A \cup {v}, B \cup {v}, C \cup {v}) /\ v \in BoundSet(u)
    BY <2>4, <2>11, <2>14, <2>17, <2>18, <2>19, Tried
  <2>21. Does(w, u, v, A, B, C)
    BY <2>11, <2>20, DoesAfter
  <2> QED
    BY <1>4, <2>20, <2>21 DEF Does, Moves, Others
<1>5. CASE ~BindRefused(w, s) /\ v \in BoundSet(w)
  <2>1. PICK b : b = BindingOf(w, v)
    OBVIOUS
  <2>2. u = IF b.session = s THEN TryAttach(w, v) ELSE StartOver(w, v, s)
    BY <1>2, <1>5, <2>1 DEF Bind
  <2>3. /\ Carried(w, b) /\ Current(w, b) /\ Noted(w, b) /\ Going(w, b) /\ Timed(w, b)
    BY <1>5, <2>1, FitsIs
  <2>4. Does(w, u, v, A, B, C) /\ v \in BoundSet(u)
    <3>1. CASE b.session = s
      BY <1>5, <2>1, <2>2, <2>3, <3>1, Tried
    <3>2. CASE b.session # s
      BY <1>5, <2>2, <3>2, StartsOver
    <3> QED
      BY <3>1, <3>2
  <2> QED
    BY <1>5, <2>4 DEF Does, Moves, Others
<1> QED
  BY <1>3, <1>4, <1>5

\* retryTerminalSurface leaves the binding fitting.
LEMMA Retries ==
  ASSUME NEW w, HostOK(w), NEW A, NEW B, NEW C, Surface(w, A, B, C), NEW v \in BoundSet(w),
         NEW b, b = BindingOf(w, v), Current(w, b), Noted(w, b), Timed(w, b),
         NEW s \in Session, v \in Session => s = v,
         NEW u, u = Retry(w, v, s)
  PROVE  Does(w, u, v, A, B, C) /\ v \in BoundSet(u)
<1>1. Formed(w) /\ Held(w)
  BY FormedHeld DEF Surface
<1>2. Bound(w, v)
  BY <1>1, NoPosition
<1>3. CASE ~CanRetain(w, s)
  <2>1. u = Rejected(w, v)
    BY <1>3 DEF Retry
  <2> QED
    BY <2>1, RejectDoes
<1>4. CASE CanRetain(w, s)
  <2>1. u = StartOver(w, v, s)
    BY <1>2, <1>4 DEF Retry
  <2>2. ~BindRefused(w, s)
    BY <1>4, KnownIs
  <2> QED
    BY <2>1, <2>2, StartsOver
<1> QED
  BY <1>3, <1>4

\* detachTerminalSurface leaves no binding of the view, and the view detached.
LEMMA DetachDoes ==
  ASSUME NEW w, NEW A, NEW B, NEW C, Surface(w, A, B, C), NEW v \in View,
         NEW u, u = Detach(w, v)
  PROVE  /\ Does(w, u, v, A, B, C) /\ BoundSet(u) = BoundSet(w) \ {v}
         /\ u.views[v] = Detached /\ u.error = w.error /\ u.unheard = w.unheard
         /\ u.retryTimer = w.retryTimer
<1>1. Formed(w) /\ Held(w) /\ DOMAIN w = Names
  BY FormedHeld DEF Surface, Formed
<1>2. Bound(w, v) <=> v \in BoundSet(w)
  BY <1>1, NoPosition
<1>3. CASE v \notin BoundSet(w)
  <2>1. u = w
    BY <1>2, <1>3 DEF Detach
  <2>2. w.views[v] = Detached
    BY <1>3 DEF Surface
  <2> QED
    BY <1>1, <1>3, <2>1, <2>2, MovesStay, UnboundDoes
<1>4. CASE v \in BoundSet(w)
  <2>1. PICK d : d = DetachView(w, v)
    OBVIOUS
  <2>2. u = [d EXCEPT !.bindings = RemoveAt(d.bindings, Position(w, v))]
    BY <1>2, <1>4, <2>1 DEF Detach
  <2>3. /\ Moves(w, d, v) /\ Rest(w, d) /\ d.views[v] = Detached /\ d.error = w.error
    BY <1>1, <2>1, Detaches
  <2>4. Beside(d, u) /\ u.bindings = RemoveAt(w.bindings, Position(w, v))
    BY <2>2, <2>3 DEF Rest, Beside, Host, Names
  <2>5. Drops(w, u, v)
    BY <1>1, <1>4, <2>4, Dropped
  <2>6. Formed(d) /\ Held(u)
    BY <2>3, <2>5 DEF Moves, Drops
  <2>7. Formed(u)
    BY <2>4, <2>6, FormedBeside DEF Beside, Formed, SurfaceTyped
  <2>8. Others(w, u, v)
    <3>1. Others(w, d, v)
      BY <2>3 DEF Moves
    <3> QED
      BY <2>4, <2>5, <3>1 DEF Beside, Drops, Others
  <2>9. Moves(w, u, v)
    BY <2>3, <2>4, <2>7, <2>8 DEF Moves, Beside, Host
  <2>10. u.views[v] = Detached /\ v \notin BoundSet(u) /\ BoundSet(u) = BoundSet(w) \ {v}
    BY <2>3, <2>4, <2>5 DEF Beside, Drops
  <2>11. Does(w, u, v, A, B, C)
    BY <2>9, <2>10, UnboundDoes
  <2> QED
    BY <2>3, <2>4, <2>10, <2>11 DEF Rest, Beside
<1> QED
  BY <1>3, <1>4

\* The view is detached and its binding is c, which is off.
IsOff(w, u, v, c) ==
  /\ Moves(w, u, v) /\ v \in BoundSet(u) /\ BindingOf(u, v) = c /\ u.views[v] = Detached
  /\ BindingOK(u, c) /\ u.error = w.error /\ u.unheard = w.unheard
  /\ u.retryTimer = w.retryTimer /\ u.wired = w.wired

\* A binding that is put off is sound and its view is detached.
LEMMA Offs ==
  ASSUME NEW w, NEW A, NEW B, NEW C, Surface(w, A, B, C), NEW v \in BoundSet(w),
         NEW c \in Binding, c.view = v, c.session = BindingOf(w, v).session,
         c.attached = FALSE, Sound(c), c.retry => c.inc # 0,
         NEW u, u = Rebound(DetachView(w, v), v, c)
  PROVE  IsOff(w, u, v, c) /\ Surface(u, A \cup {v}, B \cup {v}, C \cup {v})
<1>1. Formed(w) /\ Held(w) /\ DOMAIN w = Names
  BY FormedHeld DEF Surface, Formed
<1>2. v \in View
  BY <1>1, BindingIs
<1>3. PICK d : d = DetachView(w, v)
  OBVIOUS
<1>4. /\ Moves(w, d, v) /\ Rest(w, d) /\ d.views[v] = Detached /\ d.error = w.error
  BY <1>1, <1>2, <1>3, Detaches
<1>5. Formed(d) /\ v \in BoundSet(d) /\ u = Rebound(d, v, c)
  BY <1>3, <1>4, SameBindings DEF Moves, Rest
<1>6. Moves(d, u, v) /\ Beside(d, u) /\ v \in BoundSet(u) /\ BindingOf(u, v) = c
  BY <1>5, Rebounds
<1>7. Moves(w, u, v)
  BY <1>4, <1>6, MovesOn
<1>8. u.views[v] = Detached
  BY <1>4, <1>6 DEF Beside
<1>9. v \in Session => c.session = v
  <2>1. BindingOK(w, BindingOf(w, v)) /\ BindingOf(w, v).view = v
    BY <1>1, BindingIs DEF Surface, Fits
  <2> QED
    BY <2>1 DEF BindingOK
<1>10. BindingOK(u, c)
  BY <1>8, <1>9, DetachedIs DEF BindingOK
<1>11. Surface(u, A \cup {v}, B \cup {v}, C \cup {v})
  BY <1>2, <1>6, <1>7, <1>10, Unfits
<1> QED
  BY <1>4, <1>6, <1>7, <1>8, <1>10, <1>11 DEF IsOff, Rest, Beside

\* A step on the way of v to be reconciled: v is bound and carried.
OnTheWay(w, u, v, b, A, B, C) ==
  /\ Moves(w, u, v) /\ v \in BoundSet(u) /\ b = BindingOf(u, v) /\ b \in Binding /\ b.view = v
  /\ b.session = BindingOf(w, v).session
  /\ Surface(u, A \cup {v}, B \cup {v}, C \cup {v}) /\ Carried(u, b) /\ Timed(u, b)
  /\ u.wired = w.wired

\* Still as before.
LEMMA StayFits ==
  ASSUME NEW w, NEW A, NEW B, NEW C, Surface(w, A, B, C), NEW v \in BoundSet(w)
  PROVE  Surface(w, A \cup {v}, B \cup {v}, C \cup {v})
<1>1. Formed(w) /\ v \in View
  BY FormedHeld, BindingIs DEF Surface
<1>2. Moves(w, w, v)
  BY <1>1, MovesStay
<1>3. BindingOK(w, BindingOf(w, v))
  BY DEF Surface, Fits
<1>4. \A y \in BoundSet(w) \ {v} : Alike(BindingOf(w, v), BindingOf(w, y))
  BY DEF Surface, Shares
<1> QED
  BY <1>1, <1>2, <1>3, <1>4, Unfits

\* Whether the peer is connected is noted from the catalog, and a peer that went away
\* takes the attachment with it.
LEMMA NotesConnection ==
  ASSUME NEW w, NEW A, NEW B, NEW C, Surface(w, A, B, C), NEW v \in BoundSet(w),
         v \notin A, v \notin C, NEW u, u = NoteConnection(w, v)
  PROVE  \E b : /\ OnTheWay(w, u, v, b, A, B, C)
                /\ b.connected = ~Away(w, b.session)
<1>1. Formed(w) /\ Held(w) /\ DOMAIN w = Names
  BY FormedHeld DEF Surface, Formed
<1>2. PICK b : b = BindingOf(w, v)
  OBVIOUS
<1>3. v \in View /\ b \in Binding /\ b.view = v
  BY <1>1, <1>2, BindingIs
<1>4. BindingOK(w, b) /\ Sound(b) /\ Carried(w, b) /\ Timed(w, b)
  BY <1>2 DEF Surface, Fits, BindingOK
<1>5. PICK on \in BOOLEAN : on = ~Away(w, b.session)
  OBVIOUS
<1>6. b.connected \in BOOLEAN
  BY <1>3 DEF Binding
<1>7. CASE on = b.connected
  <2>1. u = w
    BY <1>2, <1>5, <1>7 DEF NoteConnection
  <2>2. OnTheWay(w, w, v, b, A, B, C)
    BY <1>1, <1>2, <1>3, <1>4, MovesStay, StayFits DEF OnTheWay
  <2> QED
    BY <1>5, <1>7, <2>1, <2>2
<1> DEFINE N == [Unretried(b) EXCEPT !.connected = on]
<1>8. PICK c : c = N
  OBVIOUS
<1>9. /\ c \in Binding /\ c.view = v /\ c.session = b.session /\ c.inc = b.inc /\ c.sub = b.sub
      /\ c.attached = b.attached /\ c.timer = b.timer /\ c.retry = FALSE /\ c.exhausted = FALSE
      /\ c.attempts = 0 /\ c.connected = on
  <2>1. PICK o \in Binding : o = Unretried(b)
    BY <1>3, OffUnretried
  <2>2. /\ o.view = v /\ o.session = b.session /\ o.inc = b.inc /\ o.sub = b.sub
        /\ o.attached = b.attached /\ o.timer = b.timer /\ o.retry = FALSE /\ o.exhausted = FALSE
        /\ o.attempts = 0
    BY <1>3, <2>1, OffUnretried
  <2> QED
    BY <1>8, <2>1, <2>2 DEF Binding
<1>10. Sound(c)
  BY <1>4, <1>9, ControllerAssumption DEF Sound
<1>11. CASE on # b.connected /\ on
  <2>1. u = Rebound(w, v, c)
    BY <1>2, <1>5, <1>8, <1>11 DEF NoteConnection
  <2>2. Moves(w, u, v) /\ Beside(w, u) /\ v \in BoundSet(u) /\ BindingOf(u, v) = c
    BY <1>1, <1>9, <2>1, Rebounds
  <2>3. BindingOK(u, c)
    BY <1>3, <1>4, <1>9, <1>10, <2>2 DEF BindingOK, Beside, Host
  <2>4. ASSUME NEW y \in BoundSet(w) \ {v} PROVE Alike(c, BindingOf(w, y))
    <3>1. Alike(b, BindingOf(w, y))
      BY <1>2 DEF Surface, Shares
    <3> QED
      BY <1>9, <3>1 DEF Alike
  <2>5. Surface(u, A \cup {v}, B \cup {v}, C \cup {v})
    BY <1>3, <2>2, <2>3, <2>4, Unfits
  <2>6. Carried(u, c)
    BY <1>3, <1>4, <1>9, <2>2 DEF Carried, Live, Beside
  <2>7. Timed(u, c)
    BY <1>9 DEF Timed
  <2>8. OnTheWay(w, u, v, c, A, B, C)
    BY <1>2, <1>9, <2>2, <2>5, <2>6, <2>7 DEF OnTheWay, Beside
  <2> QED
    BY <1>5, <1>9, <2>8
<1>12. CASE on # b.connected /\ ~on
  <2>1. PICK o \in Binding : o = Off(c)
    BY <1>9, OffUnretried
  <2>2. u = Rebound(DetachView(w, v), v, o)
    BY <1>2, <1>5, <1>8, <1>12, <2>1 DEF NoteConnection
  <2>3. /\ o.view = v /\ o.session = b.session /\ o.inc = b.inc /\ o.sub = 0
        /\ o.attached = FALSE /\ o.timer = FALSE /\ o.retry = FALSE /\ o.exhausted = FALSE
        /\ o.attempts = 0 /\ o.connected = on
    BY <1>9, <2>1, OffUnretried
  <2>4. Sound(o)
    BY <2>3, ControllerAssumption DEF Sound
  <2>5. IsOff(w, u, v, o) /\ Surface(u, A \cup {v}, B \cup {v}, C \cup {v})
    BY <1>2, <2>2, <2>3, <2>4, Offs
  <2>6. Carried(u, o) /\ Timed(u, o)
    BY <2>3 DEF Carried, Timed
  <2>7. OnTheWay(w, u, v, o, A, B, C)
    BY <1>2, <2>3, <2>5, <2>6 DEF OnTheWay, IsOff
  <2> QED
    BY <1>5, <2>3, <2>7
<1> QED
  BY <1>5, <1>6, <1>7, <1>11, <1>12

\* A new incarnation is noted from the catalog, and takes the old attachment with it.
LEMMA NotesIncarnation ==
  ASSUME NEW w, HostOK(w), NEW A, NEW B, NEW C, Surface(w, A, B, C), NEW v \in BoundSet(w),
         NEW b, b = BindingOf(w, v), Carried(w, b), Timed(w, b),
         NEW u, u = NoteIncarnation(w, v)
  PROVE  \E c : /\ OnTheWay(w, u, v, c, A, B, C)
                /\ c.connected = b.connected /\ c.inc = Incarnation(w, b.session)
<1>1. Formed(w) /\ Held(w) /\ DOMAIN w = Names
  BY FormedHeld DEF Surface, Formed
<1>2. v \in View /\ b \in Binding /\ b.view = v
  BY <1>1, BindingIs
<1>3. PICK inc : inc = Incarnation(w, b.session) /\ inc \in 0 .. MaxInc
  BY KnownIs
<1>4. CASE b.inc = inc
  <2>1. u = w
    BY <1>3, <1>4 DEF NoteIncarnation
  <2>2. OnTheWay(w, w, v, b, A, B, C)
    BY <1>1, <1>2, MovesStay, StayFits DEF OnTheWay
  <2> QED
    BY <1>3, <1>4, <2>1, <2>2
<1>5. CASE b.inc # inc
  <2>1. PICK o \in Binding : o = Unretried(Off(b))
    BY <1>2, OffUnretried
  <2>2. /\ o.view = v /\ o.session = b.session /\ o.sub = 0
        /\ o.attached = FALSE /\ o.timer = FALSE /\ o.retry = FALSE /\ o.exhausted = FALSE
        /\ o.attempts = 0 /\ o.connected = b.connected
    <3>1. PICK x \in Binding : x = Off(b)
      BY <1>2, OffUnretried
    <3>2. /\ x.view = v /\ x.session = b.session /\ x.sub = 0
          /\ x.attached = FALSE /\ x.timer = FALSE /\ x.connected = b.connected
      BY <1>2, <3>1, OffUnretried
    <3>3. o = Unretried(x)
      BY <2>1, <3>1
    <3> QED
      BY <3>2, <3>3, OffUnretried
  <2>3. PICK c : c = [o EXCEPT !.inc = inc]
    OBVIOUS
  <2>4. u = Rebound(DetachView(w, v), v, c)
    BY <1>3, <1>5, <2>1, <2>3 DEF NoteIncarnation
  <2>5. /\ c \in Binding /\ c.view = v /\ c.session = b.session /\ c.sub = 0
        /\ c.attached = FALSE /\ c.timer = FALSE /\ c.retry = FALSE /\ c.exhausted = FALSE
        /\ c.attempts = 0 /\ c.connected = b.connected /\ c.inc = inc
    BY <1>3, <2>2, <2>3 DEF Binding
  <2>6. Sound(c)
    BY <2>5, ControllerAssumption DEF Sound
  <2>7. IsOff(w, u, v, c) /\ Surface(u, A \cup {v}, B \cup {v}, C \cup {v})
    BY <2>4, <2>5, <2>6, Offs
  <2>8. Carried(u, c) /\ Timed(u, c)
    BY <2>5 DEF Carried, Timed
  <2>9. OnTheWay(w, u, v, c, A, B, C)
    BY <2>5, <2>7, <2>8 DEF OnTheWay, IsOff
  <2> QED
    BY <1>3, <2>5, <2>9
<1> QED
  BY <1>4, <1>5

\* A host that is the same is as good.
LEMMA HostKept ==
  ASSUME NEW w, HostOK(w), NEW u, DOMAIN u = Names, Host(w, u) PROVE HostOK(u)
BY DEF HostOK, Host

\* A step of v only leaves the catalog alone.
LEMMA MovesHost ==
  ASSUME NEW w, HostOK(w), NEW u, NEW v, Moves(w, u, v) PROVE HostOK(u) /\ SameCatalog(w, u)
BY HostKept, CatalogKept DEF Moves, Formed, Host

\* reconcile, of one binding: it fits then, or it is gone.
LEMMA ReconcilesOne ==
  ASSUME NEW w, HostOK(w), NEW A, NEW B, NEW C, Surface(w, A, B, C), NEW v \in BoundSet(w),
         v \notin A, v \notin C, NEW s, s = BindingOf(w, v).session,
         NEW u, u = ReconcileBinding(w, v)
  PROVE  /\ Does(w, u, v, A, B, C) /\ HostOK(u)
         /\ BoundSet(u) = IF CanRetain(w, s) THEN BoundSet(w) ELSE BoundSet(w) \ {v}
<1>1. Formed(w) /\ Held(w) /\ DOMAIN w = Names
  BY FormedHeld DEF Surface, Formed
<1>2. v \in View
  BY <1>1, BindingIs
<1>3. CASE CanRetain(w, s)
  <2>1. PICK x : x = NoteConnection(w, v)
    OBVIOUS
  <2>2. PICK y : y = NoteIncarnation(x, v)
    OBVIOUS
  <2>3. u = Reattach(y, v)
    BY <1>3, <2>1, <2>2 DEF ReconcileBinding
  <2>4. PICK b : OnTheWay(w, x, v, b, A, B, C) /\ b.connected = ~Away(w, b.session)
    BY <2>1, NotesConnection
  <2>5. HostOK(x) /\ SameCatalog(w, x)
    BY <2>4, MovesHost DEF OnTheWay
  <2>6. PICK c : /\ OnTheWay(x, y, v, c, A \cup {v}, B \cup {v}, C \cup {v})
                 /\ c.connected = b.connected /\ c.inc = Incarnation(x, b.session)
    <3>1. /\ HostOK(x) /\ Surface(x, A \cup {v}, B \cup {v}, C \cup {v}) /\ v \in BoundSet(x)
          /\ b = BindingOf(x, v) /\ Carried(x, b) /\ Timed(x, b)
      BY <2>4, <2>5 DEF OnTheWay
    <3>2. \E c : /\ OnTheWay(x, y, v, c, A \cup {v}, B \cup {v}, C \cup {v})
                 /\ c.connected = b.connected /\ c.inc = Incarnation(x, b.session)
      BY ONLY <2>2, <3>1, NotesIncarnation
    <3> QED
      BY <3>2
  <2>7. Moves(w, y, v)
    BY <2>4, <2>6, MovesOn DEF OnTheWay
  <2>8. HostOK(y) /\ SameCatalog(w, y)
    BY <2>7, MovesHost
  <2>9. y.running
    BY <1>3, <2>8, KnownIs DEF SameCatalog
  <2>10. u = TryAttach(y, v)
    BY <2>3, <2>9 DEF Reattach
  <2>11. b.session = s /\ c.session = s
    BY <2>4, <2>6 DEF OnTheWay
  <2>12. Known(w, s) /\ Incarnation(w, s) # 0
    BY <1>3, KnownIs
  <2>13. Current(y, c) /\ c.inc # 0
    BY <1>3, <2>5, <2>6, <2>8, <2>11, <2>12 DEF Current, SameCatalog
  <2>14. Noted(y, c)
    BY <2>4, <2>6, <2>8, <2>11 DEF Noted, SameCatalog
  <2>15. Does(y, u, v, (A \cup {v}) \cup {v}, (B \cup {v}) \cup {v}, (C \cup {v}) \cup {v})
         /\ v \in BoundSet(u)
    BY <2>6, <2>9, <2>10, <2>13, <2>14, Tried DEF OnTheWay
  <2>16. Does(w, u, v, A, B, C)
    <3>1. /\ (A \cup {v}) \cup {v} = A \cup {v} /\ (B \cup {v}) \cup {v} = B \cup {v}
          /\ (C \cup {v}) \cup {v} = C \cup {v}
      OBVIOUS
    <3>2. Does(y, u, v, A \cup {v}, B \cup {v}, C \cup {v})
      BY <2>15, <3>1
    <3> QED
      BY <2>7, <3>2, DoesAfter
  <2> QED
    BY <1>3, <2>15, <2>16, MovesHost DEF Does, Moves, Others
<1>4. CASE ~CanRetain(w, s)
  <2>1. PICK x : x = Detach(w, v)
    OBVIOUS
  <2>2. u = Rejected(x, v)
    BY <1>4, <2>1 DEF ReconcileBinding
  <2>3. /\ Does(w, x, v, A, B, C) /\ BoundSet(x) = BoundSet(w) \ {v} /\ x.views[v] = Detached
    BY <1>2, <2>1, DetachDoes
  <2>4. Moves(w, x, v) /\ Formed(x)
    BY <2>3 DEF Does, Moves
  <2>5. Moves(x, u, v) /\ BoundSet(u) = BoundSet(x) /\ u.views = x.views
    BY <2>2, <2>4, Rejects
  <2>6. Moves(w, u, v)
    BY <2>4, <2>5, MovesOn
  <2>7. v \notin BoundSet(u) /\ u.views[v] = Detached
    BY <2>3, <2>5
  <2> QED
    BY <1>2, <1>4, <2>3, <2>5, <2>6, <2>7, UnboundDoes, MovesHost
<1> QED
  BY <1>3, <1>4

-----------------------------------------------------------------------------
(* Signals of the runtime and of the catalog                                *)

\* What goes along 1 .. n gets to n.
LEMMA Arrives ==
  ASSUME NEW n \in Nat, NEW S, 0 \in S, \A k \in 1 .. n : k - 1 \in S => k \in S
  PROVE  n \in S
<1> DEFINE T == {k \in Nat : k <= n => k \in S}
<1>1. 0 \in T
  OBVIOUS
<1>2. ASSUME NEW k \in T PROVE k + 1 \in T
  <2> SUFFICES ASSUME k + 1 <= n PROVE k + 1 \in S
    OBVIOUS
  <2>1. k \in S /\ k + 1 \in 1 .. n /\ (k + 1) - 1 = k
    OBVIOUS
  <2> QED
    BY <2>1
<1>3. T = Nat
  <2>1. T \in SUBSET Nat
    OBVIOUS
  <2> HIDE DEF T
  <2> QED
    BY <1>1, <1>2, <2>1, Induct
<1> QED
  BY <1>3

\* The elements of a sequence without repetition that are still to come.
Ahead(q, n, k) == {q[j] : j \in k + 1 .. n}
Shrinks(q, n, S) ==
  /\ Ahead(q, n, 0) = S /\ Ahead(q, n, n) = {}
  /\ \A k \in 1 .. n : /\ q[k] \in Ahead(q, n, k - 1)
                       /\ Ahead(q, n, k - 1) \ {q[k]} = Ahead(q, n, k)
                       /\ q[k] \notin Ahead(q, n, k)
\* The elements are numbered 1 .. n, each once.
Numbered(q, n, S) ==
  n \in Nat /\ DOMAIN q = 1 .. n /\ Range(q) = S /\ \A i, j \in 1 .. n : q[i] = q[j] => i = j

\* Along a numbering the elements ahead are all at first, one less at a time, then none.
LEMMA AheadIs ==
  ASSUME NEW n, NEW q, NEW S, Numbered(q, n, S)
  PROVE  Shrinks(q, n, S)
<1>0. n \in Nat /\ DOMAIN q = 1 .. n /\ Range(q) = S /\ \A i, j \in 1 .. n : q[i] = q[j] => i = j
  BY DEF Numbered
<1>1. Ahead(q, n, 0) = S
  BY <1>0 DEF Ahead, Range
<1>2. Ahead(q, n, n) = {}
  BY <1>0 DEF Ahead
<1>3. ASSUME NEW k \in 1 .. n
      PROVE  /\ q[k] \in Ahead(q, n, k - 1)
             /\ Ahead(q, n, k - 1) \ {q[k]} = Ahead(q, n, k)
             /\ q[k] \notin Ahead(q, n, k)
  <2>1. (k - 1) + 1 .. n = {k} \cup (k + 1 .. n) /\ k \notin k + 1 .. n /\ k + 1 .. n \subseteq 1 .. n
    BY <1>0
  <2>2. q[k] \notin Ahead(q, n, k)
    BY <1>0, <2>1 DEF Ahead
  <2>3. Ahead(q, n, k - 1) = {q[k]} \cup Ahead(q, n, k)
    BY <2>1 DEF Ahead
  <2> QED
    BY <2>2, <2>3
<1> QED
  BY <1>1, <1>2, <1>3 DEF Shrinks

\* What two steps leave alone, both leave alone.
LEMMA HostOn ==
  ASSUME NEW w, NEW u, NEW x, Host(w, u), Host(u, x) PROVE Host(w, x)
BY DEF Host

\* What two steps leave alone, both leave alone.
LEMMA RestOn ==
  ASSUME NEW w, NEW u, NEW x, Rest(w, u), Rest(u, x) PROVE Rest(w, x)
BY HostOn DEF Rest

\* Every view is detached.
LEMMA DetachesAll ==
  ASSUME NEW w, Formed(w), \A v \in View \ BoundSet(w) : w.views[v] = Detached,
         NEW u, u = DetachAll(w)
  PROVE  Formed(u) /\ Rest(w, u) /\ u.error = w.error /\ \A v \in View : u.views[v] = Detached
<1>1. Held(w)
  BY FormedHeld
<1>2. PICK q : q = BoundViews(w)
  OBVIOUS
<1>3. PICK n \in Nat : DOMAIN q = 1 .. n /\ Range(q) = BoundSet(w)
  BY <1>1, <1>2, ViewsBound
<1>4. PICK h : Walk("detach", {}, w, q, n, h) /\ u = h[n]
  BY <1>2, <1>3, DetachWalk DEF DetachAll
<1> DEFINE I(k) == /\ Formed(h[k]) /\ Rest(w, h[k]) /\ h[k].error = w.error
                   /\ \A v \in View : (w.views[v] = Detached \/ \E j \in 1 .. k : q[j] = v)
                                        => h[k].views[v] = Detached
           S == {k \in Nat : I(k)}
<1>5. I(0)
  <2>1. h[0] = w /\ 1 .. 0 = {}
    BY <1>4 DEF Walk
  <2> QED
    BY <2>1 DEF Rest, Host, Formed
<1>6. ASSUME NEW k \in 1 .. n, I(k - 1) PROVE I(k)
  <2>1. PICK x : x = h[k - 1]
    OBVIOUS
  <2>2. PICK y : y = h[k]
    OBVIOUS
  <2>3. y = DetachView(x, q[k])
    BY <1>4, <2>1, <2>2 DEF Walk, Handled
  <2>4. q[k] \in View
    <3>1. q[k] \in BoundSet(w)
      BY <1>3 DEF Range
    <3> QED
      BY <1>1, <3>1, BindingIs
  <2>5. Formed(x) /\ Rest(w, x) /\ x.error = w.error
        /\ \A v \in View : (w.views[v] = Detached \/ \E j \in 1 .. k - 1 : q[j] = v)
                              => x.views[v] = Detached
    BY <1>6, <2>1
  <2>6. Moves(x, y, q[k]) /\ Rest(x, y) /\ y.views[q[k]] = Detached /\ y.error = x.error
    BY <2>3, <2>4, <2>5, Detaches
  <2>7. ASSUME NEW v \in View, w.views[v] = Detached \/ \E j \in 1 .. k : q[j] = v
        PROVE  y.views[v] = Detached
    <3>1. CASE v = q[k]
      BY <2>6, <3>1
    <3>2. CASE v # q[k]
      <4>1. y.views[v] = x.views[v]
        BY <2>6, <3>2 DEF Moves, Others
      <4>2. \A j \in 1 .. k : j = k \/ j \in 1 .. k - 1
        OBVIOUS
      <4> QED
        BY <2>5, <2>7, <3>2, <4>1, <4>2
    <3> QED
      BY <3>1, <3>2
  <2>8. Formed(y) /\ Rest(w, y) /\ y.error = w.error
    BY <2>5, <2>6, RestOn DEF Moves
  <2> QED
    BY <2>2, <2>7, <2>8
<1>7. n \in S
  <2>1. 0 \in S
    BY <1>5
  <2>2. \A k \in 1 .. n : k - 1 \in S => k \in S
    BY <1>6
  <2> HIDE DEF S
  <2> QED
    BY <2>1, <2>2, Arrives
<1>8. ASSUME NEW v \in View PROVE u.views[v] = Detached
  <2>1. CASE v \in BoundSet(w)
    <3>1. \E j \in 1 .. n : q[j] = v
      BY <1>3, <2>1 DEF Range
    <3> QED
      BY <1>4, <1>7, <3>1
  <2>2. CASE v \notin BoundSet(w)
    BY <1>4, <1>7, <2>2
  <2> QED
    BY <2>1, <2>2
<1> QED
  BY <1>4, <1>7, <1>8

\* What is known of the surfaces when what runs and what the catalog says may
\* have changed.
Loose(w) ==
  /\ Formed(w) /\ \A v \in View \ BoundSet(w) : w.views[v] = Detached
  /\ \A v \in BoundSet(w) :
       LET b == BindingOf(w, v)
       IN /\ Sound(b) /\ (v \in Session => b.session = v)
          /\ b.exhausted => v \in w.error \cup w.unheard

\* Surfaces whose bindings are all carried are loosely in order.
LEMMA SurfaceLoose ==
  ASSUME NEW w, NEW B, NEW C, Surface(w, {}, B, C) PROVE Loose(w)
<1>1. Held(w)
  BY FormedHeld DEF Surface
<1>2. ASSUME NEW v \in BoundSet(w), NEW b, b = BindingOf(w, v)
      PROVE  /\ Sound(b) /\ (v \in Session => b.session = v)
             /\ b.exhausted => v \in w.error \cup w.unheard
  <2>1. b.view = v
    BY <1>1, <1>2, BindingIs
  <2> QED
    BY <1>2, <2>1 DEF Surface, Fits, BindingOK, Carried
<1> QED
  BY <1>2 DEF Loose, Surface

\* The binding is off, and waits for a fresh catalog.
Idle(w, b, c) ==
  /\ c \in Binding /\ c.view = b.view /\ c.session = b.session /\ c.inc = 0 /\ c.sub = 0
  /\ c.attached = FALSE /\ c.timer = FALSE /\ c.retry = FALSE
  /\ Sound(c) /\ (c.exhausted => b.exhausted)

PutOff(w, u, x) ==
  /\ DOMAIN u = Names /\ u.waiting = TRUE /\ u.retryTimer \in BOOLEAN
  /\ Formed(x) /\ \A v \in View : x.views[v] = Detached
  /\ u.views = x.views /\ u.registry = x.registry /\ u.error = w.error /\ u.unheard = w.unheard
  /\ DOMAIN u.bindings = DOMAIN w.bindings
  /\ u.bindings = [i \in DOMAIN w.bindings |-> u.bindings[i]]
  /\ \A i \in DOMAIN w.bindings : Idle(w, w.bindings[i], u.bindings[i])

\* When all bindings are put off, the surfaces fit, whatever the catalog says.
LEMMA AllIdle ==
  ASSUME NEW w, Loose(w), NEW u, NEW x, PutOff(w, u, x)
  PROVE  Surface(u, {}, {}, {}) /\ BoundSet(u) = BoundSet(w)
<1> USE DEF PutOff
<1>1. Formed(w) /\ Held(w)
  BY FormedHeld DEF Loose
<1>2. PICK n \in Nat : DOMAIN w.bindings = 1 .. n
  BY <1>1, LenProperties DEF Held
<1>3. u.bindings \in Seq(Binding)
  <2>1. u.bindings \in [1 .. n -> Binding]
    BY <1>2 DEF Idle
  <2> QED
    BY ONLY <2>1, n \in Nat, SeqDef
<1>4. \A i \in 1 .. n : u.bindings[i].view = w.bindings[i].view
  BY <1>2 DEF Idle
<1>5. Held(u) /\ BoundSet(u) = BoundSet(w)
  BY <1>1, <1>2, <1>3, <1>4 DEF Held, Unique, BoundSet
<1>6. Formed(u)
  BY <1>5, FormedBeside
<1>7. ASSUME NEW v \in BoundSet(u)
      PROVE  /\ Fits(u, v, {}, {}, {}) /\ BindingOf(u, v).attached = FALSE
  <2>1. PICK i \in 1 .. n : w.bindings[i].view = v
    BY <1>2, <1>5 DEF BoundSet
  <2>2. PICK b : b = w.bindings[i] /\ b = BindingOf(w, v)
    BY <1>1, <1>2, <2>1, PositionIs
  <2>3. PICK c : c = u.bindings[i] /\ c = BindingOf(u, v)
    BY <1>2, <1>4, <1>5, <2>1, PositionIs
  <2>4. Idle(w, b, c) /\ b.view = v
    BY <1>2, <2>1, <2>2, <2>3
  <2>5. /\ Sound(b) /\ (v \in Session => b.session = v)
        /\ b.exhausted => v \in w.error \cup w.unheard
    BY <1>5, <2>2 DEF Loose
  <2>6. v \in View /\ u.views[v] = Detached
    BY <1>5, BindingIs
  <2>7. BindingOK(u, c)
    BY <2>4, <2>5, <2>6, DetachedIs DEF BindingOK, Idle
  <2>8. Carried(u, c) /\ Settled(u, c) /\ Timed(u, c)
    BY <2>4, <2>5 DEF Carried, Settled, Current, Noted, Going, Timed, Idle
  <2> QED
    BY <2>3, <2>4, <2>7, <2>8 DEF Fits, Idle
<1>8. Shares(u)
  BY <1>7 DEF Shares, Alike
<1> QED
  BY <1>5, <1>6, <1>7, <1>8 DEF Surface

\* What a handler leaves when all bindings were put off: they fit.
Idles(w, u) ==
  /\ Surface(u, {}, {}, {}) /\ Host(w, u) /\ BoundSet(u) = BoundSet(w) /\ u.waiting

\* A change of the runtime puts all bindings off.
LEMMA RuntimeChanges ==
  ASSUME NEW w, Loose(w), NEW u, u = RuntimeChanged(w)
  PROVE  Idles(w, u)
<1>1. PICK x : x = DetachAll(w)
  OBVIOUS
<1>2. Formed(w) /\ Held(w)
  BY FormedHeld DEF Loose
<1>3. Formed(x) /\ Rest(w, x) /\ x.error = w.error /\ \A v \in View : x.views[v] = Detached
  BY <1>1, <1>2, DetachesAll DEF Loose
<1>4. /\ u.bindings = [i \in DOMAIN w.bindings |-> [Unretried(Off(w.bindings[i])) EXCEPT !.inc = 0]]
      /\ DOMAIN u = Names /\ u.waiting = TRUE /\ u.retryTimer = FALSE
      /\ u.views = x.views /\ u.registry = x.registry /\ u.error = w.error /\ u.unheard = w.unheard
      /\ Host(w, u)
  BY <1>1, <1>3 DEF RuntimeChanged, Rest, Names, Host
<1>5. ASSUME NEW i \in DOMAIN w.bindings PROVE Idle(w, w.bindings[i], u.bindings[i])
  <2>1. PICK b \in Binding : b = w.bindings[i]
    <3>1. i \in 1 .. Len(w.bindings)
      BY <1>2, LenProperties DEF Held
    <3> QED
      BY <1>2, <3>1, ElementOfSeq DEF Held
  <2>2. PICK o \in Binding : o = Off(b)
    BY OffUnretried
  <2>3. /\ o.view = b.view /\ o.session = b.session /\ o.sub = 0
        /\ o.attached = FALSE /\ o.timer = FALSE
    BY <2>2, OffUnretried
  <2>4. PICK e \in Binding : e = Unretried(o)
    BY OffUnretried
  <2>5. /\ e.view = b.view /\ e.session = b.session /\ e.sub = 0
        /\ e.attached = FALSE /\ e.timer = FALSE /\ e.retry = FALSE /\ e.exhausted = FALSE
        /\ e.attempts = 0
    BY <2>3, <2>4, OffUnretried
  <2>6. PICK c : c = [e EXCEPT !.inc = 0] /\ c = u.bindings[i]
    BY <1>4, <2>1, <2>2, <2>4
  <2>7. 0 \in 0 .. MaxInc
    BY StageAssumption
  <2>8. c \in Binding /\ c.inc = 0 /\ c.view = b.view /\ c.session = b.session /\ c.sub = 0
        /\ c.attached = FALSE /\ c.timer = FALSE /\ c.retry = FALSE /\ c.exhausted = FALSE
        /\ c.attempts = 0
    BY <2>5, <2>6, <2>7 DEF Binding
  <2>9. Sound(c)
    BY <2>8, ControllerAssumption DEF Sound
  <2> QED
    BY <2>1, <2>6, <2>8, <2>9 DEF Idle
<1>6. Surface(u, {}, {}, {}) /\ BoundSet(u) = BoundSet(w)
  <2>1. DOMAIN u.bindings = DOMAIN w.bindings /\ u.bindings = [i \in DOMAIN w.bindings |-> u.bindings[i]]
    BY <1>4
  <2>2. PutOff(w, u, x)
    BY <1>3, <1>4, <1>5, <2>1 DEF PutOff
  <2> QED
    BY ONLY Loose(w), <2>2, AllIdle
<1> QED
  BY <1>4, <1>6 DEF Idles

\* A catalog without authority puts all bindings off.
LEMMA Withdraws ==
  ASSUME NEW w, Loose(w), NEW u, u = Withdraw(w)
  PROVE  Idles(w, u)
<1>1. PICK x : x = DetachAll(w)
  OBVIOUS
<1>2. Formed(w) /\ Held(w)
  BY FormedHeld DEF Loose
<1>3. Formed(x) /\ Rest(w, x) /\ x.error = w.error /\ \A v \in View : x.views[v] = Detached
  BY <1>1, <1>2, DetachesAll DEF Loose
<1>4. /\ u.bindings = [i \in DOMAIN w.bindings |-> [Off(w.bindings[i]) EXCEPT !.inc = 0, !.retry = FALSE]]
      /\ DOMAIN u = Names /\ u.waiting = TRUE /\ u.retryTimer = w.retryTimer
      /\ u.views = x.views /\ u.registry = x.registry /\ u.error = w.error /\ u.unheard = w.unheard
      /\ Host(w, u)
  BY <1>1, <1>3 DEF Withdraw, Rest, Names, Host
<1>5. ASSUME NEW i \in DOMAIN w.bindings PROVE Idle(w, w.bindings[i], u.bindings[i])
  <2>1. PICK b \in Binding : b = w.bindings[i]
    <3>1. i \in 1 .. Len(w.bindings)
      BY <1>2, LenProperties DEF Held
    <3> QED
      BY <1>2, <3>1, ElementOfSeq DEF Held
  <2>2. Sound(b)
    <3>1. b = BindingOf(w, b.view) /\ b.view \in BoundSet(w)
      BY <1>2, <2>1, PositionIs DEF BoundSet
    <3> QED
      BY <3>1 DEF Loose
  <2>3. PICK o \in Binding : o = Off(b)
    BY OffUnretried
  <2>4. /\ o.view = b.view /\ o.session = b.session /\ o.sub = 0
        /\ o.attached = FALSE /\ o.timer = FALSE /\ o.exhausted = b.exhausted
        /\ o.attempts = b.attempts
    BY <2>3, OffUnretried
  <2>5. PICK c : c = [o EXCEPT !.inc = 0, !.retry = FALSE] /\ c = u.bindings[i]
    BY <1>4, <2>1, <2>3
  <2>6. 0 \in 0 .. MaxInc
    BY StageAssumption
  <2>7. c \in Binding /\ c.inc = 0 /\ c.view = b.view /\ c.session = b.session /\ c.sub = 0
        /\ c.attached = FALSE /\ c.timer = FALSE /\ c.retry = FALSE /\ c.exhausted = b.exhausted
        /\ c.attempts = b.attempts
    BY <2>4, <2>5, <2>6 DEF Binding
  <2>8. Sound(c)
    BY <2>2, <2>7 DEF Sound
  <2> QED
    BY <2>1, <2>5, <2>7, <2>8 DEF Idle
<1>6. Surface(u, {}, {}, {}) /\ BoundSet(u) = BoundSet(w)
  <2>1. DOMAIN u.bindings = DOMAIN w.bindings /\ u.bindings = [i \in DOMAIN w.bindings |-> u.bindings[i]]
    BY <1>4
  <2>2. u.retryTimer \in BOOLEAN
    BY <1>2, <1>4 DEF Formed, SurfaceTyped
  <2>3. PutOff(w, u, x)
    BY <1>3, <1>4, <1>5, <2>1, <2>2 DEF PutOff
  <2> QED
    BY ONLY Loose(w), <2>3, AllIdle
<1> QED
  BY <1>4, <1>6 DEF Idles

\* reconcile with an authoritative catalog: what it lets the surfaces retain stays.
Retains(w, u) ==
  /\ Surface(u, {}, {}, {}) /\ Host(w, u) /\ BoundSet(u) \subseteq BoundSet(w)
  /\ \A v \in BoundSet(w) \cap Session : v \in BoundSet(u) <=> CanRetain(w, v)

\* Reconciling one binding after the other, each fits then, or is gone with its session.
LEMMA ReconcilesEach ==
  ASSUME NEW w, HostOK(w), Surface(w, {}, View, {}),
         NEW u, u = FoldLeft(ReconcileBinding, w, BoundViews(w))
  PROVE  Retains(w, u)
<1>1. Held(w) /\ DOMAIN w = Names
  BY FormedHeld DEF Surface, Formed
<1>2. PICK q : q = BoundViews(w)
  OBVIOUS
<1>3. PICK n \in Nat : /\ DOMAIN q = 1 .. n /\ Range(q) = BoundSet(w)
                       /\ \A i, j \in 1 .. n : q[i] = q[j] => i = j
  BY <1>1, <1>2, ViewsBound
<1>4. PICK h : Walk("reconcile", {}, w, q, n, h) /\ u = h[n]
  BY <1>2, <1>3, ReconcileWalk
<1>5. Shrinks(q, n, BoundSet(w))
  <2>1. Numbered(q, n, BoundSet(w))
    BY <1>3 DEF Numbered
  <2> QED
    BY ONLY <2>1, AheadIs
<1> DEFINE I(k) == LET T == Ahead(q, n, k)
                   IN /\ Surface(h[k], {}, T, {}) /\ Host(w, h[k])
                      /\ BoundSet(h[k]) \subseteq BoundSet(w) /\ T \subseteq BoundSet(h[k])
                      /\ \A v \in BoundSet(w) \cap Session :
                           v \in BoundSet(h[k]) <=> CanRetain(w, v) \/ v \in T
           S == {k \in Nat : I(k)}
<1>6. I(0)
  <2>1. h[0] = w
    BY <1>4 DEF Walk
  <2>2. Surface(w, {}, BoundSet(w), {})
    <3>1. BoundSet(w) \subseteq View
      BY <1>1, BindingIs
    <3> QED
      BY <3>1 DEF Surface, Fits
  <2>3. Host(w, w)
    BY DEF Host
  <2> QED
    BY <1>5, <2>1, <2>2, <2>3 DEF Shrinks
<1>7. ASSUME NEW k \in 1 .. n, I(k - 1) PROVE I(k)
  <2>1. PICK x : x = h[k - 1]
    OBVIOUS
  <2>2. PICK y : y = h[k]
    OBVIOUS
  <2>3. PICK v : v = q[k]
    OBVIOUS
  <2>4. PICK T : T = Ahead(q, n, k - 1)
    OBVIOUS
  <2>5. y = ReconcileBinding(x, v)
    BY <1>4, <2>1, <2>2, <2>3 DEF Walk, Handled
  <2>6. /\ Surface(x, {}, T, {}) /\ Host(w, x)
        /\ BoundSet(x) \subseteq BoundSet(w) /\ T \subseteq BoundSet(x)
        /\ \A z \in BoundSet(w) \cap Session :
             z \in BoundSet(x) <=> CanRetain(w, z) \/ z \in T
    BY <1>7, <2>1, <2>4
  <2>7. v \in T /\ Ahead(q, n, k) = T \ {v}
    BY <1>5, <2>3, <2>4 DEF Shrinks
  <2>8. HostOK(x) /\ SameCatalog(w, x)
    BY <2>6, HostKept, CatalogKept DEF Surface, Formed, Host
  <2>9. PICK s : s = BindingOf(x, v).session
    OBVIOUS
  <2>10. /\ Does(x, y, v, {}, T, {})
         /\ BoundSet(y) = IF CanRetain(x, s) THEN BoundSet(x) ELSE BoundSet(x) \ {v}
    BY <2>5, <2>6, <2>7, <2>8, <2>9, ReconcilesOne
  <2>11. Surface(y, {}, T \ {v}, {}) /\ Host(x, y)
    BY <2>10 DEF Does, Moves
  <2>12. v \in Session => s = v
    <3>1. Held(x)
      BY <2>6, FormedHeld DEF Surface
    <3>2. BindingOK(x, BindingOf(x, v)) /\ BindingOf(x, v).view = v
      BY <2>6, <2>7, <3>1, BindingIs DEF Surface, Fits
    <3> QED
      BY <2>9, <3>2 DEF BindingOK
  <2>13. CanRetain(x, s) <=> CanRetain(w, s)
    BY <2>8 DEF SameCatalog
  <2>14. Host(w, y)
    BY <2>6, <2>11, HostOn
  <2>15. BoundSet(y) \subseteq BoundSet(w) /\ T \ {v} \subseteq BoundSet(y)
    BY <2>6, <2>10
  <2>16. ASSUME NEW z \in BoundSet(w) \cap Session
         PROVE  z \in BoundSet(y) <=> CanRetain(w, z) \/ z \in T \ {v}
    <3>1. CASE z = v
      BY <2>6, <2>7, <2>10, <2>12, <2>13, <3>1
    <3>2. CASE z # v
      BY <2>6, <2>10, <3>2
    <3> QED
      BY <3>1, <3>2
  <2> QED
    BY <2>2, <2>7, <2>11, <2>14, <2>15, <2>16
<1>8. n \in S
  <2>1. 0 \in S
    BY <1>6
  <2>2. \A k \in 1 .. n : k - 1 \in S => k \in S
    BY <1>7
  <2> HIDE DEF S
  <2> QED
    BY <2>1, <2>2, Arrives
<1> QED
  BY <1>4, <1>5, <1>8 DEF Retains, Shrinks

\* No longer waiting, which only what fits with the catalog may depend on.
LEMMA WaitsNoMore ==
  ASSUME NEW w, NEW A, NEW B, NEW C, Surface(w, A, B, C), NEW u, u = [w EXCEPT !.waiting = FALSE]
  PROVE  /\ Surface(u, A, View, C) /\ Host(w, u) /\ BoundSet(u) = BoundSet(w)
         /\ BoundViews(u) = BoundViews(w)
<1>1. Formed(w) /\ Held(w) /\ DOMAIN w = Names
  BY FormedHeld DEF Surface, Formed
<1>2. /\ u.bindings = w.bindings /\ u.views = w.views /\ u.registry = w.registry
      /\ u.waiting = FALSE /\ u.retryTimer = w.retryTimer
      /\ u.error = w.error /\ u.unheard = w.unheard /\ DOMAIN u = Names /\ Host(w, u)
  BY <1>1 DEF Names, Host
<1>3. /\ BoundSet(u) = BoundSet(w) /\ \A y : BindingOf(u, y) = BindingOf(w, y)
      /\ BoundViews(u) = BoundViews(w)
  BY <1>2, SameBindings
<1>4. Formed(u)
  <2>1. u.waiting \in BOOLEAN /\ u.retryTimer \in BOOLEAN
    BY <1>1, <1>2 DEF Formed, SurfaceTyped
  <2>2. Held(u)
    BY <1>1, <1>2 DEF Held, Unique
  <2> QED
    BY <1>1, <1>2, <2>1, <2>2, FormedBeside
<1>5. ASSUME NEW v \in BoundSet(w) PROVE Fits(u, v, A, View, C)
  <2>1. PICK b : b = BindingOf(w, v) /\ b = BindingOf(u, v)
    BY <1>3
  <2>2. v \in View
    BY <1>1, BindingIs
  <2>3. /\ BindingOK(w, b) /\ (v \notin A => Carried(w, b)) /\ (v \notin C => Timed(w, b))
    BY <2>1 DEF Surface, Fits
  <2>4. BindingOK(u, b)
    BY <1>2, <2>3 DEF BindingOK, Host
  <2>5. Carried(w, b) => Carried(u, b)
    BY <1>2 DEF Carried, Live
  <2>6. Timed(w, b) => Timed(u, b)
    BY <1>2 DEF Timed
  <2> QED
    BY <2>1, <2>2, <2>3, <2>4, <2>5, <2>6 DEF Fits
<1> QED
  BY <1>2, <1>3, <1>4, <1>5 DEF Surface, Shares

\* reconcile, with a catalog of authority or without.
LEMMA Reconciles ==
  ASSUME NEW w, HostOK(w), Surface(w, {}, View, {}), NEW u, u = Reconcile(w)
  PROVE  IF Authoritative(w) THEN Retains(w, u) ELSE Idles(w, u)
<1>1. CASE ~Authoritative(w)
  BY <1>1, SurfaceLoose, Withdraws DEF Reconcile
<1>2. CASE Authoritative(w)
  <2>1. PICK x : x = [w EXCEPT !.waiting = FALSE]
    OBVIOUS
  <2>2. /\ Surface(x, {}, View, {}) /\ Host(w, x) /\ BoundSet(x) = BoundSet(w)
        /\ BoundViews(x) = BoundViews(w)
    BY <2>1, WaitsNoMore
  <2>3. HostOK(x) /\ SameCatalog(w, x)
    BY <2>2, HostKept, CatalogKept DEF Surface, Formed, Host
  <2>4. u = FoldLeft(ReconcileBinding, x, BoundViews(x))
    BY <1>2, <2>1, <2>2 DEF Reconcile
  <2>5. Retains(x, u)
    BY <2>2, <2>3, <2>4, ReconcilesEach
  <2> QED
    BY <1>2, <2>2, <2>3, <2>5, HostOn DEF Retains, SameCatalog
<1> QED
  BY <1>1, <1>2

-----------------------------------------------------------------------------
(* Timers, and the signals of the views                                     *)

\* What the surfaces depend on is the same but, maybe, for the catalog.
Beneath(w, u) ==
  /\ DOMAIN u = Names /\ u.bindings = w.bindings /\ u.views = w.views /\ u.registry = w.registry
  /\ u.retryTimer = w.retryTimer /\ u.error = w.error /\ u.unheard = w.unheard
\* And the catalog is.
Aside(w, u) ==
  Beneath(w, u) /\ u.running = w.running /\ u.waiting = w.waiting /\ u.catalog = w.catalog

\* What the surfaces are does not depend on the catalog.
LEMMA BeneathFormed ==
  ASSUME NEW w, Formed(w), NEW u, Beneath(w, u), u.waiting \in BOOLEAN
  PROVE  /\ Formed(u) /\ BoundSet(u) = BoundSet(w) /\ BoundViews(u) = BoundViews(w)
         /\ \A y : BindingOf(u, y) = BindingOf(w, y)
<1>1. /\ BoundSet(u) = BoundSet(w) /\ \A y : BindingOf(u, y) = BindingOf(w, y)
      /\ BoundViews(u) = BoundViews(w)
  BY SameBindings DEF Beneath
<1>2. u.retryTimer \in BOOLEAN /\ Held(u)
  BY FormedHeld DEF Beneath, Formed, SurfaceTyped, Held, Unique
<1>3. Formed(u)
  BY <1>2, FormedBeside DEF Beneath
<1> QED
  BY <1>1, <1>3

\* Loosely in order they stay, whatever the catalog and the runtime become.
LEMMA Loosens ==
  ASSUME NEW w, Loose(w), NEW u, Beneath(w, u), u.waiting \in BOOLEAN
  PROVE  Loose(u) /\ BoundSet(u) = BoundSet(w)
<1>1. /\ Formed(u) /\ BoundSet(u) = BoundSet(w) /\ \A y : BindingOf(u, y) = BindingOf(w, y)
  BY BeneathFormed DEF Loose
<1> QED
  BY <1>1 DEF Loose, Beneath

\* With another catalog the surfaces fit but for being in line with it.
LEMMA Recatalogs ==
  ASSUME NEW w, NEW A, NEW B, NEW C, Surface(w, A, B, C), NEW u, Beneath(w, u), u.running = w.running,
         u.waiting \in BOOLEAN, u.waiting => w.waiting
  PROVE  Surface(u, A, View, C) /\ BoundSet(u) = BoundSet(w)
<1>1. /\ Formed(w) /\ Held(w) /\ Formed(u) /\ BoundSet(u) = BoundSet(w)
      /\ \A y : BindingOf(u, y) = BindingOf(w, y)
  BY BeneathFormed, FormedHeld DEF Surface
<1>2. ASSUME NEW v \in BoundSet(w) PROVE Fits(u, v, A, View, C)
  <2>1. PICK b : b = BindingOf(w, v) /\ b = BindingOf(u, v)
    BY <1>1
  <2>2. v \in View
    BY <1>1, BindingIs
  <2>3. /\ BindingOK(w, b) /\ (v \notin A => Carried(w, b)) /\ (v \notin C => Timed(w, b))
    BY <2>1 DEF Surface, Fits
  <2>4. BindingOK(u, b)
    BY <2>3 DEF BindingOK, Beneath
  <2>5. Carried(w, b) => Carried(u, b)
    BY DEF Carried, Live, Beneath
  <2>6. Timed(w, b) => Timed(u, b)
    BY DEF Timed, Beneath
  <2> QED
    BY <2>1, <2>2, <2>3, <2>4, <2>5, <2>6 DEF Fits
<1> QED
  BY <1>1, <1>2 DEF Surface, Shares, Beneath

\* With a catalog that lists the same the surfaces fit as before.
LEMMA StaysListed ==
  ASSUME NEW w, NEW A, NEW B, NEW C, Surface(w, A, B, C), NEW u, Beneath(w, u), u.running = w.running,
         u.waiting = w.waiting, u.catalog.sessions = w.catalog.sessions
  PROVE  Surface(u, A, B, C) /\ BoundSet(u) = BoundSet(w)
<1>1. w.waiting \in BOOLEAN
  BY DEF Surface, Formed, SurfaceTyped
<1>2. /\ Formed(w) /\ Formed(u) /\ BoundSet(u) = BoundSet(w)
      /\ \A y : BindingOf(u, y) = BindingOf(w, y)
  BY <1>1, BeneathFormed DEF Surface
<1>3. Surface(u, A, View, C)
  BY <1>1, Recatalogs
<1>4. SameCatalog(w, u)
  BY CatalogListed
<1>5. ASSUME NEW v \in BoundSet(w) PROVE Fits(u, v, A, B, C)
  <2>1. PICK b : b = BindingOf(w, v) /\ b = BindingOf(u, v)
    BY <1>2
  <2>2. /\ BindingOK(u, b) /\ (v \notin A => Carried(u, b)) /\ (v \notin C => Timed(u, b))
    BY <1>2, <1>3, <2>1 DEF Surface, Fits
  <2>3. v \notin B => Settled(w, b)
    BY <2>1 DEF Surface, Fits
  <2>4. Settled(w, b) => Settled(u, b)
    <3>1. Current(w, b) => Current(u, b)
      BY <1>4 DEF Current, SameCatalog
    <3>2. Noted(w, b) => Noted(u, b)
      BY <1>4 DEF Noted, SameCatalog
    <3>3. Going(w, b) => Going(u, b)
      BY <1>4 DEF Going, Live, SameCatalog, Aside, Beneath
    <3> QED
      BY <3>1, <3>2, <3>3 DEF Settled
  <2> QED
    BY <2>1, <2>2, <2>3, <2>4 DEF Fits
<1> QED
  BY <1>2, <1>3, <1>5 DEF Surface

\* What does not touch the surfaces leaves them fitting.
LEMMA StaysAside ==
  ASSUME NEW w, NEW A, NEW B, NEW C, Surface(w, A, B, C), NEW u, Aside(w, u)
  PROVE  Surface(u, A, B, C) /\ BoundSet(u) = BoundSet(w)
BY StaysListed DEF Aside

\* What the surfaces show fits again, and the tiles are still bound.
Serves(w, u) ==
  /\ Surface(u, {}, {}, {}) /\ Host(w, u) /\ BoundSet(u) \cap Session = BoundSet(w) \cap Session

\* A handler of one view serves all, when the view is bound as before.
LEMMA DoesServe ==
  ASSUME NEW w, NEW u, NEW v, NEW A, NEW B, NEW C, Does(w, u, v, A, B, C),
         A \subseteq {v}, B \subseteq {v}, C \subseteq {v}, v \in BoundSet(u) <=> v \in BoundSet(w)
  PROVE  Serves(w, u)
<1>1. A \ {v} = {} /\ B \ {v} = {} /\ C \ {v} = {}
  OBVIOUS
<1>2. Surface(u, {}, {}, {}) /\ Host(w, u) /\ BoundSet(u) \ {v} = BoundSet(w) \ {v}
  BY <1>1 DEF Does, Moves, Others
<1> QED
  BY <1>2 DEF Serves

\* The retry timer.
LEMMA RetriesOne ==
  ASSUME NEW w, HostOK(w), NEW C, Surface(w, {}, {}, C), NEW v \in BoundSet(w), NEW u,
         u = Handled("again", {}, w, v)
  PROVE  Does(w, u, v, {}, {}, C) /\ v \in BoundSet(u)
<1>1. Formed(w) /\ Held(w) /\ DOMAIN w = Names
  BY FormedHeld DEF Surface, Formed
<1>2. PICK b : b = BindingOf(w, v)
  OBVIOUS
<1>3. v \in View /\ b \in Binding /\ b.view = v
  BY <1>1, <1>2, BindingIs
<1>4. BindingOK(w, b) /\ Sound(b) /\ Carried(w, b) /\ Settled(w, b)
  BY <1>2 DEF Surface, Fits, BindingOK
<1>5. CASE ~b.retry
  <2>1. u = w /\ Timed(w, b)
    BY <1>2, <1>5 DEF Handled, Timed
  <2> QED
    BY <1>2, <1>4, <2>1, DoesNothing
<1>6. CASE b.retry
  <2>1. b.inc # 0 /\ CanRetain(w, b.session)
    BY <1>4, <1>6 DEF BindingOK, Settled, Current
  <2>2. w.running
    BY <2>1, KnownIs
  <2>3. PICK c : c = [b EXCEPT !.retry = FALSE]
    OBVIOUS
  <2>4. PICK x : x = Rebound(w, v, c)
    OBVIOUS
  <2>5. u = TryAttach(x, v)
    BY <1>2, <1>6, <2>3, <2>4 DEF Handled
  <2>6. /\ c \in Binding /\ c.view = v /\ c.session = b.session /\ c.inc = b.inc /\ c.sub = b.sub
        /\ c.attached = b.attached /\ c.timer = b.timer /\ c.retry = FALSE
        /\ c.exhausted = b.exhausted /\ c.attempts = b.attempts /\ c.connected = b.connected
    BY <1>3, <2>3 DEF Binding
  <2>7. Moves(w, x, v) /\ Beside(w, x) /\ v \in BoundSet(x) /\ BindingOf(x, v) = c
    BY <1>1, <2>4, <2>6, Rebounds
  <2>8. SameCatalog(w, x)
    BY <2>7, CatalogKept DEF Beside, Host
  <2>9. BindingOK(x, c)
    BY <1>3, <1>4, <2>6, <2>7 DEF BindingOK, Sound, Beside, Host
  <2>10. c.attached => \A y \in BoundSet(w) \ {v} : Alike(c, BindingOf(w, y))
    <3>1. \A y \in BoundSet(w) : Alike(b, BindingOf(w, y))
      BY <1>2 DEF Surface, Shares
    <3>2. ASSUME NEW z, Alike(b, z) PROVE Alike(c, z)
      BY <2>6, <3>2 DEF Alike
    <3> QED
      BY <3>1, <3>2
  <2>11. Surface(x, {v}, {v}, C \cup {v})
    <3>1. Surface(x, {} \cup {v}, {} \cup {v}, C \cup {v})
      BY <1>3, <2>7, <2>9, <2>10, Unfits
    <3> QED
      BY <3>1
  <2>12. Current(x, c) /\ Noted(x, c) /\ Timed(x, c) /\ Carried(x, c)
    <3>1. Current(x, c) /\ Noted(x, c)
      BY <1>4, <2>6, <2>8 DEF Current, Noted, Settled, SameCatalog
    <3>2. Carried(x, c)
      BY <1>3, <1>4, <2>6, <2>7 DEF Carried, Live, Beside
    <3> QED
      BY <2>6, <3>1, <3>2 DEF Timed
  <2>13. x.running /\ c.inc # 0
    BY <2>1, <2>2, <2>6, <2>7 DEF Beside, Host
  <2>14. Does(x, u, v, {v}, {v}, C \cup {v}) /\ v \in BoundSet(u)
    BY <2>5, <2>7, <2>11, <2>12, <2>13, Tried
  <2>15. Does(x, u, v, {} \cup {v}, {} \cup {v}, C \cup {v})
    BY <2>14
  <2> QED
    BY <2>7, <2>14, <2>15, DoesAfter
<1> QED
  BY <1>5, <1>6, <1>3 DEF Binding

\* The retry timer leaves every binding fitting.
LEMMA RetriesPending ==
  ASSUME NEW w, HostOK(w), Surface(w, {}, {}, {}), NEW u, u = RetryPendingAttachments(w)
  PROVE  Serves(w, u)
<1>1. Formed(w) /\ Held(w) /\ DOMAIN w = Names
  BY FormedHeld DEF Surface, Formed
<1>2. PICK q : q = BoundViews(w)
  OBVIOUS
<1>3. PICK n \in Nat : /\ DOMAIN q = 1 .. n /\ Range(q) = BoundSet(w)
                       /\ \A i, j \in 1 .. n : q[i] = q[j] => i = j
  BY <1>1, <1>2, ViewsBound
<1>4. PICK base : base = [w EXCEPT !.retryTimer = FALSE]
  OBVIOUS
<1>5. PICK h : Walk("again", {}, base, q, n, h) /\ u = h[n]
  BY <1>2, <1>3, <1>4, AgainWalk
<1>6. Shrinks(q, n, BoundSet(w))
  <2>1. Numbered(q, n, BoundSet(w))
    BY <1>3 DEF Numbered
  <2> QED
    BY ONLY <2>1, AheadIs
<1>7. /\ base.bindings = w.bindings /\ base.views = w.views /\ base.registry = w.registry
      /\ base.waiting = w.waiting /\ base.retryTimer = FALSE
      /\ base.error = w.error /\ base.unheard = w.unheard /\ DOMAIN base = Names /\ Host(w, base)
  BY <1>1, <1>4 DEF Names, Host
<1>8. /\ BoundSet(base) = BoundSet(w) /\ \A y : BindingOf(base, y) = BindingOf(w, y)
  BY <1>7, SameBindings
<1>9. Surface(base, {}, {}, BoundSet(w))
  <2>1. Formed(base)
    <3>1. base.waiting \in BOOLEAN /\ base.retryTimer \in BOOLEAN
      BY <1>1, <1>7 DEF Formed, SurfaceTyped
    <3>2. Held(base)
      BY <1>1, <1>7 DEF Held, Unique
    <3> QED
      BY <1>1, <1>7, <3>1, <3>2, FormedBeside
  <2>2. SameCatalog(w, base)
    BY <1>7, CatalogKept DEF Host
  <2>3. ASSUME NEW v \in BoundSet(w) PROVE Fits(base, v, {}, {}, BoundSet(w))
    <3>1. PICK b : b = BindingOf(w, v) /\ b = BindingOf(base, v)
      BY <1>8
    <3>2. BindingOK(w, b) /\ Carried(w, b) /\ Settled(w, b)
      BY <3>1 DEF Surface, Fits
    <3>3. BindingOK(base, b)
      BY <1>7, <3>2 DEF BindingOK, Host
    <3>4. Carried(base, b)
      BY <1>7, <3>2 DEF Carried, Live
    <3>5. Settled(base, b)
      BY <1>7, <2>2, <3>2 DEF Settled, Current, Noted, Going, Live, SameCatalog
    <3> QED
      BY <3>1, <3>3, <3>4, <3>5 DEF Fits
  <2> QED
    BY <1>7, <1>8, <2>1, <2>3 DEF Surface, Shares
<1> DEFINE I(k) == Surface(h[k], {}, {}, Ahead(q, n, k)) /\ Host(w, h[k]) /\ BoundSet(h[k]) = BoundSet(w)
           S == {k \in Nat : I(k)}
<1>10. I(0)
  BY <1>5, <1>6, <1>7, <1>8, <1>9 DEF Walk, Shrinks
<1>11. ASSUME NEW k \in 1 .. n, I(k - 1) PROVE I(k)
  <2>1. PICK x : x = h[k - 1]
    OBVIOUS
  <2>2. PICK y : y = h[k]
    OBVIOUS
  <2>3. PICK v : v = q[k]
    OBVIOUS
  <2>4. PICK T : T = Ahead(q, n, k - 1)
    OBVIOUS
  <2>5. y = Handled("again", {}, x, v)
    BY <1>5, <2>1, <2>2, <2>3 DEF Walk
  <2>6. Surface(x, {}, {}, T) /\ Host(w, x) /\ BoundSet(x) = BoundSet(w)
    BY <1>11, <2>1, <2>4
  <2>7. v \in T /\ Ahead(q, n, k) = T \ {v} /\ v \in BoundSet(x)
    <3>1. v \in BoundSet(w)
      BY <1>3, <2>3 DEF Range
    <3> QED
      BY <1>6, <2>3, <2>4, <2>6, <3>1 DEF Shrinks
  <2>8. HostOK(x)
    BY <2>6, HostKept DEF Surface, Formed
  <2>9. Does(x, y, v, {}, {}, T) /\ v \in BoundSet(y)
    BY <2>5, <2>6, <2>7, <2>8, RetriesOne
  <2>10. Surface(y, {}, {}, T \ {v}) /\ Host(x, y) /\ BoundSet(y) = BoundSet(x)
    BY <2>7, <2>9 DEF Does, Moves, Others
  <2> QED
    BY <2>2, <2>6, <2>7, <2>10, HostOn
<1>12. n \in S
  <2>1. 0 \in S
    BY <1>10
  <2>2. \A k \in 1 .. n : k - 1 \in S => k \in S
    BY <1>11
  <2> HIDE DEF S
  <2> QED
    BY <2>1, <2>2, Arrives
<1> QED
  BY <1>5, <1>6, <1>12 DEF Serves, Shrinks

\* The timer of a checkpoint.
LEMMA TimesOut ==
  ASSUME NEW w, Surface(w, {}, {}, {}), NEW v \in BoundSet(w), BindingOf(w, v).timer,
         NEW u, u = CheckpointTimeout(w, v)
  PROVE  Serves(w, u)
<1>1. Formed(w) /\ Held(w) /\ DOMAIN w = Names
  BY FormedHeld DEF Surface, Formed
<1>2. PICK b : b = BindingOf(w, v)
  OBVIOUS
<1>3. v \in View /\ b \in Binding /\ b.view = v
  BY <1>1, <1>2, BindingIs
<1>4. Sound(b) /\ Settled(w, b) /\ b.exhausted = FALSE
  BY <1>2, <1>3 DEF Surface, Fits, BindingOK, Sound, Binding
<1>5. PICK o \in Binding : o = Off(b)
  BY <1>3, OffUnretried
<1>6. /\ o.view = b.view /\ o.session = b.session /\ o.sub = 0 /\ o.inc = b.inc
      /\ o.attached = FALSE /\ o.timer = FALSE /\ o.exhausted = b.exhausted
      /\ o.attempts = b.attempts
  BY <1>3, <1>5, OffUnretried
<1>7. PICK c : c = [o EXCEPT !.retry = FALSE, !.exhausted = FALSE]
  OBVIOUS
<1>8. /\ c \in Binding /\ c.view = v /\ c.session = b.session /\ c.sub = 0 /\ c.inc = b.inc
      /\ c.attached = FALSE /\ c.timer = FALSE /\ c.exhausted = FALSE /\ c.retry = FALSE
      /\ c.attempts = b.attempts
  BY <1>3, <1>5, <1>6, <1>7 DEF Binding
<1>9. PICK x : x = Rebound(DetachView(w, v), v, c)
  OBVIOUS
<1>10. u = Rejected(x, v)
  BY <1>2, <1>5, <1>7, <1>9 DEF CheckpointTimeout
<1>11. Sound(c)
  BY <1>4, <1>8 DEF Sound
<1>12. IsOff(w, x, v, c) /\ Surface(x, {v}, {v}, {v})
  <2>1. IsOff(w, x, v, c) /\ Surface(x, {} \cup {v}, {} \cup {v}, {} \cup {v})
    BY <1>2, <1>8, <1>9, <1>11, Offs
  <2> QED
    BY <2>1
<1>13. SameCatalog(w, x)
  BY <1>12, CatalogKept DEF IsOff, Moves, Host
<1>14. Current(x, c) /\ Noted(x, c) /\ Timed(x, c)
  BY <1>4, <1>8, <1>13 DEF Current, Noted, Timed, Settled, SameCatalog
<1>15. Does(x, u, v, {v}, {v}, {v}) /\ v \in BoundSet(u)
  BY <1>10, <1>12, <1>14, RejectDoes DEF IsOff
<1>16. Does(w, u, v, {}, {}, {})
  <2>1. Does(x, u, v, {} \cup {v}, {} \cup {v}, {} \cup {v})
    BY <1>15
  <2> QED
    BY <1>12, <2>1, DoesAfter DEF IsOff
<1> QED
  BY <1>15, <1>16, DoesServe

\* The queue of a view overflows.
LEMMA Overflows ==
  ASSUME NEW w, Surface(w, {}, {}, {}), NEW v \in View, w.views[v].session # None,
         NEW u, u = Overflow(w, v)
  PROVE  Serves(w, u)
<1>1. Formed(w) /\ Held(w) /\ DOMAIN w = Names
  BY FormedHeld DEF Surface, Formed
<1>2. v \in BoundSet(w)
  BY DetachedIs DEF Surface
<1>3. PICK b : b = BindingOf(w, v)
  OBVIOUS
<1>4. b \in Binding /\ b.view = v /\ BindingOK(w, b) /\ Settled(w, b) /\ Timed(w, b)
  BY <1>1, <1>2, <1>3, BindingIs DEF Surface, Fits
<1>5. PICK x : x = DetachView(w, v)
  OBVIOUS
<1>6. Moves(w, x, v) /\ Rest(w, x) /\ x.views[v] = Detached /\ x.error = w.error
  BY <1>1, <1>5, Detaches
<1>7. BoundSet(x) = BoundSet(w) /\ BindingOf(x, v) = b
  BY <1>3, <1>6, SameBindings DEF Rest
<1>8. BindingOK(x, b)
  BY <1>4, <1>6, DetachedIs DEF BindingOK, Rest, Host
<1>9. b.attached => \A y \in BoundSet(w) \ {v} : Alike(b, BindingOf(w, y))
  BY <1>2, <1>3 DEF Surface, Shares
<1>10. Surface(x, {v}, {v}, {v})
  <2>1. Surface(x, {} \cup {v}, {} \cup {v}, {} \cup {v})
    BY <1>2, <1>6, <1>7, <1>8, <1>9, Unfits
  <2> QED
    BY <2>1
<1>11. SameCatalog(w, x)
  BY <1>6, CatalogKept DEF Moves, Host
<1>12. Current(x, b) /\ Noted(x, b) /\ Timed(x, b)
  BY <1>4, <1>6, <1>11 DEF Current, Noted, Timed, Settled, SameCatalog, Rest
<1>13. u = Rejected(x, v)
  BY <1>5 DEF Overflow
<1>14. Does(x, u, v, {v}, {v}, {v}) /\ v \in BoundSet(u)
  BY <1>2, <1>7, <1>10, <1>12, <1>13, RejectDoes
<1>15. Does(w, u, v, {}, {}, {})
  <2>1. Does(x, u, v, {} \cup {v}, {} \cup {v}, {} \cup {v})
    BY <1>14
  <2> QED
    BY <1>6, <2>1, DoesAfter
<1> QED
  BY <1>2, <1>14, <1>15, DoesServe

\* All views of a session, or the entry it has, hear of its connection.
Told(w, u, s) ==
  /\ DOMAIN u = Names /\ Host(w, u) /\ u.bindings = w.bindings /\ u.waiting = w.waiting
  /\ u.retryTimer = w.retryTimer /\ u.error = w.error /\ u.unheard = w.unheard
  /\ u.registry \in [Session -> Entry] /\ u.views \in [View -> ViewState]
  /\ w.registry[s].sub # 0 /\ u.registry[s].sub = w.registry[s].sub
  /\ \A t \in Session \ {s} : u.registry[t] = w.registry[t]
  /\ \A v \in View :
       /\ w.views[v].session # s => u.views[v] = w.views[v]
       /\ w.views[v].session = s =>
            /\ u.views[v].session = s /\ u.views[v].sub = w.views[v].sub
            /\ u.views[v].ready = w.views[v].ready
            /\ u.registry[s].phase = "over" =>
                 u.views[v].inbox # <<>> /\ u.views[v].inbox[Len(u.views[v].inbox)] # "ok"

\* When all views of a session hear of its connection, all bindings still fit.
LEMMA TellsAll ==
  ASSUME NEW w, Surface(w, {}, {}, {}), NEW s \in Session, NEW u, Told(w, u, s)
  PROVE  Serves(w, u)
<1>1. Formed(w) /\ Held(w) /\ s # None
  BY FormedHeld, ControllerAssumption DEF Surface, Formed
<1>2. /\ BoundSet(u) = BoundSet(w) /\ \A y : BindingOf(u, y) = BindingOf(w, y)
  BY SameBindings DEF Told
<1>3. /\ \A v \in View : u.views[v].session = w.views[v].session /\ u.views[v].sub = w.views[v].sub
      /\ \A v \in View : w.views[v].session = None => u.views[v] = w.views[v]
      /\ \A t \in Session : u.registry[t].sub = w.registry[t].sub
  BY <1>1 DEF Told
<1>4. ASSUME NEW v \in View PROVE ViewOK(u, v)
  <2>1. ViewOK(w, v)
    BY <1>1 DEF Formed, RegistryOK
  <2>2. CASE w.views[v].session = s
    BY <1>1, <2>1, <2>2 DEF ViewOK, Told
  <2>3. CASE w.views[v].session # s
    <3>1. w.views[v] \in ViewState
      BY <1>1 DEF Formed, SurfaceTyped
    <3>2. u.views[v] = w.views[v] /\ w.views[v].session \in Session \cup {None}
      BY <2>3, <3>1 DEF Told, ViewState
    <3>3. w.views[v].session # None => u.registry[w.views[v].session] = w.registry[w.views[v].session]
      BY <2>3, <3>2 DEF Told
    <3> QED
      BY <2>1, <3>2, <3>3 DEF ViewOK
  <2> QED
    BY <2>2, <2>3
<1>5. ASSUME NEW t \in Session PROVE EntryOK(u, t)
  <2>1. EntryOK(w, t)
    BY <1>1 DEF Formed, RegistryOK
  <2>2. u.registry[t].sub = 0 => u.registry[t] = w.registry[t]
    BY <1>3 DEF Told
  <2> QED
    BY <1>3, <2>1, <2>2 DEF EntryOK
<1>6. Formed(u)
  <2>1. SurfaceTyped(u) /\ Unique(u)
    BY <1>1 DEF Told, Formed, SurfaceTyped, Unique
  <2> QED
    BY <1>4, <1>5, <2>1 DEF Formed, RegistryOK, Told
<1>7. SameCatalog(w, u)
  BY CatalogKept DEF Told, Host
<1>8. ASSUME NEW v \in BoundSet(w) PROVE Fits(u, v, {}, {}, {})
  <2>1. PICK b : b = BindingOf(w, v) /\ b = BindingOf(u, v)
    BY <1>2
  <2>2. v \in View /\ b \in Binding /\ b.view = v
    BY <1>1, <2>1, BindingIs
  <2>3. BindingOK(w, b) /\ Carried(w, b) /\ Settled(w, b) /\ Timed(w, b)
    BY <2>1 DEF Surface, Fits
  <2>4. BindingOK(u, b)
    BY <1>3, <2>2, <2>3 DEF BindingOK, Told, Host
  <2>5. Live(w, b) => Live(u, b)
    <3>1. CASE w.views[v].session = s
      <4>1. b.session = s
        BY <1>1, <2>2, <2>3, <3>1 DEF BindingOK
      <4>2. u.registry[s].phase # "over" \/ u.views[v].inbox # <<>>
        BY <2>2, <3>1 DEF Told
      <4>3. u.views[v].session # None
        BY <1>1, <1>3, <2>2, <3>1
      <4> QED
        BY <2>2, <4>1, <4>2, <4>3 DEF Live
    <3>2. CASE w.views[v].session # s
      <4>1. u.views[v] = w.views[v]
        BY <2>2, <3>2 DEF Told
      <4>2. w.views[v].session # None => u.registry[b.session] = w.registry[b.session]
        BY <2>2, <2>3, <3>2 DEF BindingOK, Told, Binding
      <4> QED
        BY <2>2, <4>1, <4>2 DEF Live, Told
    <3> QED
      BY <3>1, <3>2
  <2>6. Carried(u, b)
    BY <2>3, <2>5 DEF Carried, Told
  <2>7. Settled(u, b) /\ Timed(u, b)
    BY <1>7, <2>3, <2>5 DEF Settled, Current, Noted, Going, Timed, SameCatalog, Told
  <2> QED
    BY <2>1, <2>4, <2>6, <2>7 DEF Fits
<1>9. Surface(u, {}, {}, {})
  BY <1>2, <1>3, <1>6, <1>8, BindingIs, DetachedIs DEF Surface, Shares
<1> QED
  BY <1>2, <1>9 DEF Serves, Told

\* A view shows its first frame.
LEMMA Frames ==
  ASSUME NEW w, Surface(w, {}, {}, {}), NEW v \in View, w.views[v].session # None,
         NEW u, u = TerminalReady(w, v)
  PROVE  Serves(w, u)
<1>1. Formed(w) /\ Held(w) /\ DOMAIN w = Names
  BY FormedHeld DEF Surface, Formed
<1>2. v \in BoundSet(w)
  BY DetachedIs DEF Surface
<1>3. PICK b : b = BindingOf(w, v)
  OBVIOUS
<1>4. /\ b \in Binding /\ b.view = v /\ BindingOK(w, b) /\ Settled(w, b) /\ Timed(w, b)
      /\ Carried(w, b)
  BY <1>1, <1>2, <1>3, BindingIs DEF Surface, Fits
<1>5. PICK x : x = [w EXCEPT !.views[v].ready = TRUE]
  OBVIOUS
<1>6. w.views \in [View -> ViewState] /\ w.views[v] \in ViewState
  BY <1>1 DEF Formed, SurfaceTyped
<1>7. /\ x.views \in [View -> ViewState]
      /\ x.views[v].session = w.views[v].session /\ x.views[v].sub = w.views[v].sub
      /\ x.views[v].inbox = w.views[v].inbox /\ x.views[v].ready = TRUE
      /\ \A y \in View \ {v} : x.views[y] = w.views[y]
  BY <1>1, <1>5, <1>6 DEF ViewState, Names
<1>8. /\ DOMAIN x = Names /\ Host(w, x) /\ x.bindings = w.bindings /\ x.waiting = w.waiting
      /\ x.retryTimer = w.retryTimer /\ x.error = w.error /\ x.unheard = w.unheard
      /\ x.registry = w.registry
  BY <1>1, <1>5 DEF Names, Host
<1>9. /\ BoundSet(x) = BoundSet(w) /\ \A y : BindingOf(x, y) = BindingOf(w, y)
  BY <1>8, SameBindings
<1>10. Formed(x)
  <2>1. SurfaceTyped(x) /\ Unique(x)
    BY <1>1, <1>7, <1>8 DEF Formed, SurfaceTyped, Unique
  <2>2. ASSUME NEW y \in View PROVE ViewOK(x, y)
    <3>1. ViewOK(w, y)
      BY <1>1 DEF Formed, RegistryOK
    <3>2. CASE y = v
      BY <1>7, <1>8, <3>1, <3>2 DEF ViewOK
    <3>3. CASE y # v
      BY <1>7, <1>8, <3>1, <3>3 DEF ViewOK
    <3> QED
      BY <3>2, <3>3
  <2>3. ASSUME NEW t \in Session PROVE EntryOK(x, t)
    <3>1. EntryOK(w, t)
      BY <1>1 DEF Formed, RegistryOK
    <3>2. \A y \in View : x.views[y].session = w.views[y].session
      BY <1>7
    <3> QED
      BY <1>8, <3>1, <3>2 DEF EntryOK
  <2> QED
    BY <1>8, <2>1, <2>2, <2>3 DEF Formed, RegistryOK
<1>11. Moves(w, x, v)
  BY <1>7, <1>8, <1>9, <1>10 DEF Moves, Others
<1>12. BindingOK(x, b) /\ Live(x, b)
  BY <1>4, <1>7, <1>8 DEF BindingOK, Live, Host
<1>13. SameCatalog(w, x)
  BY <1>8, CatalogKept DEF Host
<1>14. \A y \in BoundSet(w) : Alike(b, BindingOf(w, y))
  BY <1>2, <1>3 DEF Surface, Shares
<1>15. Bound(w, v)
  BY <1>1, <1>2, NoPosition
<1>16. CASE ~b.attached \/ ~b.timer
  <2>1. u = x
    BY <1>3, <1>5, <1>16 DEF TerminalReady
  <2>2. Carried(x, b) /\ Settled(x, b) /\ Timed(x, b)
    BY <1>4, <1>8, <1>12, <1>13 DEF Carried, Settled, Current, Noted, Going, Timed, SameCatalog
  <2>3. Does(w, x, v, {}, {}, {})
    BY <1>2, <1>3, <1>9, <1>11, <1>12, <1>14, <2>2, Concludes
  <2> QED
    BY <1>9, <2>1, <2>3, DoesServe
<1>17. CASE b.attached /\ b.timer
  <2>1. PICK c : c = [b EXCEPT !.timer = FALSE]
    OBVIOUS
  <2>2. PICK y : y = Rebound(x, v, c)
    OBVIOUS
  <2>3. u = Ready(y, v)
    BY <1>3, <1>5, <1>15, <1>17, <2>1, <2>2 DEF TerminalReady
  <2>4. /\ c \in Binding /\ c.view = v /\ c.session = b.session /\ c.inc = b.inc /\ c.sub = b.sub
        /\ c.attached = b.attached /\ c.timer = FALSE /\ c.retry = b.retry
        /\ c.exhausted = b.exhausted /\ c.attempts = b.attempts /\ c.connected = b.connected
    BY <1>4, <2>1 DEF Binding
  <2>5. Moves(x, y, v) /\ Beside(x, y) /\ v \in BoundSet(y) /\ BindingOf(y, v) = c
    BY <1>2, <1>9, <1>10, <2>2, <2>4, Rebounds
  <2>6. /\ Moves(y, u, v) /\ BoundSet(u) = BoundSet(y) /\ BindingOf(u, v) = BindingOf(y, v)
        /\ Rest(y, u) /\ u.views = y.views /\ u.registry = y.registry
    BY <2>3, <2>5, Readies DEF Moves
  <2>7. Moves(w, u, v)
    BY <1>11, <2>5, <2>6, MovesOn
  <2>8. SameCatalog(w, u)
    BY <2>7, CatalogKept DEF Moves, Host
  <2>9. /\ u.views = x.views /\ u.registry = w.registry /\ u.waiting = w.waiting
        /\ u.retryTimer = w.retryTimer /\ u.running = w.running
    BY <1>8, <2>5, <2>6 DEF Beside, Rest, Host
  <2>10. BindingOK(u, c) /\ Live(u, c)
    BY <1>4, <1>7, <2>4, <2>9 DEF BindingOK, Sound, Live
  <2>11. Carried(u, c) /\ Settled(u, c) /\ Timed(u, c)
    <3>1. Carried(u, c)
      BY <1>4, <1>17, <2>4, <2>10 DEF Carried, BindingOK, Sound
    <3>2. Settled(u, c)
      BY <1>4, <2>4, <2>8, <2>9, <2>10 DEF Settled, Current, Noted, Going, SameCatalog
    <3>3. Timed(u, c)
      BY <1>4, <2>4, <2>9 DEF Timed
    <3> QED
      BY <3>1, <3>2, <3>3
  <2>12. \A z \in BoundSet(w) \ {v} : Alike(c, BindingOf(w, z))
    <3>1. ASSUME NEW z, Alike(b, z) PROVE Alike(c, z)
      BY <2>4, <3>1 DEF Alike
    <3> QED
      BY <1>14, <3>1
  <2>13. Does(w, u, v, {}, {}, {}) /\ v \in BoundSet(u)
    BY <2>5, <2>6, <2>7, <2>10, <2>11, <2>12, Concludes
  <2> QED
    BY <1>2, <2>13, DoesServe
<1> QED
  BY <1>4, <1>16, <1>17 DEF Binding

\* The view takes the event at the head of its queue.
Took(w, x, v, b) ==
  /\ v \in BoundSet(w) /\ BoundSet(x) = BoundSet(w) /\ BindingOf(x, v) = b
  /\ Moves(w, x, v) /\ Surface(x, {v}, {v}, {v}) /\ BindingOK(x, b)
  /\ Current(x, b) /\ Noted(x, b) /\ Timed(x, b)
  /\ x.views[v].session # None /\ ~b.exhausted /\ b.inc # 0 /\ b \in Binding /\ b.view = v
  /\ Head(w.views[v].inbox) = "ok" =>
       (x.registry[b.session].phase # "over" \/ x.views[v].inbox # <<>>)

\* The event is off the queue of the view, and the binding is as it was.
LEMMA Takes ==
  ASSUME NEW w, Surface(w, {}, {}, {}), NEW v \in View, w.views[v].inbox # <<>>,
         NEW b, b = BindingOf(w, v), NEW x, x = Taken(w, v)
  PROVE  Took(w, x, v, b)
<1>1. Formed(w) /\ Held(w) /\ DOMAIN w = Names
  BY FormedHeld DEF Surface, Formed
<1>2. w.views \in [View -> ViewState] /\ w.views[v] \in ViewState
  BY <1>1 DEF Formed, SurfaceTyped
<1>3. PICK q \in Seq({"ok", "failed", "closed"}) : q = w.views[v].inbox
  BY <1>2 DEF ViewState
<1>4. q # <<>> /\ Len(q) \in Nat /\ Len(q) > 0
  BY <1>3, EmptySeq, LenProperties
<1>5. /\ Tail(q) \in Seq({"ok", "failed", "closed"})
      /\ Tail(q) # <<>> => Len(Tail(q)) \in Nat /\ Len(Tail(q)) > 0 /\ Tail(q)[Len(Tail(q))] = q[Len(q)]
      /\ Tail(q) = <<>> => Head(q) = q[Len(q)]
  <2>1. /\ Tail(q) \in Seq({"ok", "failed", "closed"}) /\ Len(Tail(q)) = Len(q) - 1
        /\ \A i \in 1 .. Len(Tail(q)) : Tail(q)[i] = q[i + 1]
    BY <1>4, HeadTailProperties
  <2>2. Tail(q) = <<>> => Len(q) = 1
    <3>1. Len(<<>>) = 0
      OBVIOUS
    <3>2. ASSUME Tail(q) = <<>> PROVE Len(Tail(q)) = 0
      BY ONLY <3>1, <3>2
    <3> QED
      BY <1>4, <2>1, <3>2
  <2>3. Tail(q) # <<>> => Len(Tail(q)) > 0
    BY <1>4, <2>1, EmptySeq
  <2>4. Head(q) = q[1]
    BY <1>3, <1>4
  <2>5. ASSUME Tail(q) # <<>> PROVE Tail(q)[Len(Tail(q))] = q[Len(q)]
    <3>1. Len(Tail(q)) \in 1 .. Len(Tail(q)) /\ Len(Tail(q)) + 1 = Len(q)
      BY <1>4, <2>1, <2>3, <2>5
    <3> QED
      BY <2>1, <3>1
  <2> QED
    BY <1>4, <2>1, <2>2, <2>3, <2>4, <2>5
<1>6. /\ x.views \in [View -> ViewState]
      /\ x.views[v].session = w.views[v].session /\ x.views[v].sub = w.views[v].sub
      /\ x.views[v].ready = w.views[v].ready /\ x.views[v].inbox = Tail(q)
      /\ \A y \in View \ {v} : x.views[y] = w.views[y]
  BY <1>1, <1>2, <1>3, <1>5 DEF Taken, ViewState, Names
<1>7. /\ DOMAIN x = Names /\ Host(w, x) /\ x.bindings = w.bindings /\ x.waiting = w.waiting
      /\ x.retryTimer = w.retryTimer /\ x.error = w.error /\ x.unheard = w.unheard
      /\ x.registry = w.registry
  BY <1>1 DEF Taken, Names, Host
<1>8. ViewOK(w, v)
  BY <1>1 DEF Formed, RegistryOK
<1>9. w.views[v].session # None
  BY <1>3, <1>4, <1>8 DEF ViewOK, Detached
<1>10. v \in BoundSet(w)
  BY <1>9, DetachedIs DEF Surface
<1>11. /\ b \in Binding /\ b.view = v /\ BindingOK(w, b) /\ Settled(w, b) /\ Timed(w, b)
  BY <1>1, <1>10, BindingIs DEF Surface, Fits
<1>12. /\ BoundSet(x) = BoundSet(w) /\ \A y : BindingOf(x, y) = BindingOf(w, y)
  BY <1>7, SameBindings
<1>13. Formed(x)
  <2>1. SurfaceTyped(x) /\ Unique(x)
    BY <1>1, <1>6, <1>7 DEF Formed, SurfaceTyped, Unique
  <2>2. ASSUME NEW y \in View PROVE ViewOK(x, y)
    <3>1. ViewOK(w, y)
      BY <1>1 DEF Formed, RegistryOK
    <3>2. CASE y = v
      <4>1. w.registry[w.views[v].session].phase = "over" => q[Len(q)] # "ok"
        BY <1>3, <1>4, <1>8, <1>9 DEF ViewOK
      <4> QED
        BY <1>5, <1>6, <1>7, <1>9, <3>1, <3>2, <4>1 DEF ViewOK
    <3>3. CASE y # v
      BY <1>6, <1>7, <3>1, <3>3 DEF ViewOK
    <3> QED
      BY <3>2, <3>3
  <2>3. ASSUME NEW t \in Session PROVE EntryOK(x, t)
    <3>1. EntryOK(w, t)
      BY <1>1 DEF Formed, RegistryOK
    <3>2. \A y \in View : x.views[y].session = w.views[y].session
      BY <1>6
    <3> QED
      BY <1>7, <3>1, <3>2 DEF EntryOK
  <2> QED
    BY <1>7, <2>1, <2>2, <2>3 DEF Formed, RegistryOK
<1>14. Moves(w, x, v)
  BY <1>6, <1>7, <1>12, <1>13 DEF Moves, Others
<1>15. BindingOK(x, b)
  BY <1>6, <1>7, <1>11 DEF BindingOK, Host
<1>16. Surface(x, {v}, {v}, {v})
  <2>1. b.attached => \A y \in BoundSet(w) \ {v} : Alike(b, BindingOf(w, y))
    BY <1>10 DEF Surface, Shares
  <2>2. Surface(x, {} \cup {v}, {} \cup {v}, {} \cup {v})
    BY <1>10, <1>12, <1>14, <1>15, <2>1, Unfits
  <2> QED
    BY <2>2
<1>17. SameCatalog(w, x)
  BY <1>7, CatalogKept DEF Host
<1>18. Current(x, b) /\ Noted(x, b) /\ Timed(x, b)
  BY <1>7, <1>11, <1>17 DEF Current, Noted, Timed, Settled, SameCatalog
<1>19. /\ ~b.exhausted /\ b.inc # 0 /\ w.views[v].session = b.session
  BY <1>9, <1>11 DEF BindingOK
<1>20. Head(q) = "ok" => x.registry[b.session].phase # "over" \/ x.views[v].inbox # <<>>
  BY <1>3, <1>4, <1>5, <1>6, <1>7, <1>8, <1>9, <1>19 DEF ViewOK
<1> QED
  BY <1>3, <1>6, <1>7, <1>9, <1>10, <1>11, <1>12, <1>14, <1>15, <1>16, <1>18, <1>19, <1>20 DEF Took

\* connectionReady: the binding fits.
LEMMA Connects ==
  ASSUME NEW w, Surface(w, {}, {}, {}), NEW v \in View, w.views[v].inbox # <<>>,
         Head(w.views[v].inbox) = "ok", NEW x, x = Taken(w, v), NEW u, u = Connected(x, v)
  PROVE  Serves(w, u)
<1>1. PICK b : b = BindingOf(w, v)
  OBVIOUS
<1>2. /\ v \in BoundSet(w) /\ BoundSet(x) = BoundSet(w) /\ BindingOf(x, v) = b
      /\ Moves(w, x, v) /\ Surface(x, {v}, {v}, {v}) /\ BindingOK(x, b)
      /\ Current(x, b) /\ Noted(x, b) /\ Timed(x, b)
      /\ x.views[v].session # None /\ ~b.exhausted /\ b.inc # 0 /\ b \in Binding /\ b.view = v
      /\ x.registry[b.session].phase # "over" \/ x.views[v].inbox # <<>>
  <2>1. Took(w, x, v, b)
    BY <1>1, Takes
  <2> QED
    BY <2>1 DEF Took
<1>3. Formed(x) /\ Bound(x, v)
  <2>1. Formed(x)
    BY <1>2 DEF Moves
  <2> QED
    BY <1>2, <2>1, FormedHeld, NoPosition
<1>4. PICK c \in Binding : c = Unretried(b)
  BY <1>2, OffUnretried
<1>5. /\ c.view = b.view /\ c.session = b.session /\ c.sub = b.sub /\ c.inc = b.inc
      /\ c.attached = b.attached /\ c.timer = b.timer /\ c.retry = FALSE /\ c.exhausted = FALSE
      /\ c.attempts = 0 /\ c.connected = b.connected
  BY <1>2, <1>4 DEF Unretried, Binding
<1>6. PICK y : y = Rebound(x, v, c)
  OBVIOUS
<1>7. Moves(x, y, v) /\ Beside(x, y) /\ v \in BoundSet(y) /\ BindingOf(y, v) = c
  BY <1>2, <1>3, <1>5, <1>6, Rebounds
<1>8. u = IF b.timer THEN y ELSE Ready(y, v)
  BY <1>2, <1>3, <1>4, <1>6 DEF Connected
<1>9. /\ Moves(y, u, v) /\ v \in BoundSet(u) /\ BindingOf(u, v) = c
      /\ u.views = y.views /\ u.registry = y.registry /\ u.waiting = y.waiting
  <2>1. CASE b.timer
    BY <1>7, <1>8, <2>1, MovesStay DEF Moves
  <2>2. CASE ~b.timer
    <3>1. u = Ready(y, v) /\ Formed(y)
      BY <1>7, <1>8, <2>2 DEF Moves
    <3> QED
      BY <1>7, <3>1, Readies DEF Moves
  <2> QED
    BY <2>1, <2>2
<1>10. Moves(x, u, v)
  BY <1>7, <1>9, MovesOn
<1>11. u.views = x.views /\ u.registry = x.registry /\ u.waiting = x.waiting
  BY <1>7, <1>9 DEF Beside
<1>12. SameCatalog(x, u)
  BY <1>10, CatalogKept DEF Moves, Host
<1>13. Live(u, c)
  BY <1>2, <1>5, <1>11 DEF Live
<1>14. BindingOK(u, c)
  <2>1. Sound(c)
    BY <1>2, <1>5, ControllerAssumption DEF Sound, BindingOK
  <2> QED
    BY <1>2, <1>5, <1>10, <1>11, <2>1 DEF BindingOK, Moves, Host
<1>15. Carried(u, c) /\ Settled(u, c) /\ Timed(u, c)
  BY <1>2, <1>5, <1>12, <1>13 DEF Carried, Settled, Current, Noted, Going, Timed, SameCatalog
<1>16. c.attached => \A z \in BoundSet(x) \ {v} : Alike(c, BindingOf(x, z))
  <2>1. \A z \in BoundSet(x) : Alike(b, BindingOf(x, z))
    BY <1>2 DEF Surface, Shares
  <2>2. ASSUME NEW z, Alike(b, z) PROVE Alike(c, z)
    BY <1>5, <2>2 DEF Alike
  <2> QED
    BY <2>1, <2>2
<1>17. Does(x, u, v, {v}, {v}, {v})
  BY <1>2, <1>9, <1>10, <1>14, <1>15, <1>16, Concludes
<1>18. Does(w, u, v, {}, {}, {})
  <2>1. Does(x, u, v, {} \cup {v}, {} \cup {v}, {} \cup {v})
    BY <1>17
  <2> QED
    BY <1>2, <2>1, DoesAfter
<1> QED
  BY <1>2, <1>9, <1>18, DoesServe

\* The connection failed, as one of the view's handlers is told.
Fail(w, v) == ScheduleRemoteRetry(Rebound(DetachView(w, v), v, Off(BindingOf(w, v))), v)

\* A binding whose connection failed is put off and retried, or exhausted: it fits.
LEMMA Fails ==
  ASSUME NEW w, NEW A, NEW B, NEW C, Surface(w, A, B, C), NEW v \in BoundSet(w),
         NEW b, b = BindingOf(w, v), Current(w, b), Timed(w, b), b.attempts <= RetryLimit, b.inc # 0,
         b.exhausted => v \in w.error \cup w.unheard, NEW u, u = Fail(w, v)
  PROVE  /\ Does(w, u, v, A, B, C) /\ v \in BoundSet(u) /\ u.wired = w.wired
         /\ BindingOf(u, v).inc # 0 /\ BindingOf(u, v).attempts <= b.attempts + 1
<1>1. Formed(w) /\ Held(w) /\ DOMAIN w = Names
  BY FormedHeld DEF Surface, Formed
<1>2. v \in View /\ b \in Binding /\ b.view = v /\ Sound(b)
  BY <1>1, BindingIs DEF Surface, Fits, BindingOK
<1>3. PICK c \in Binding : c = Off(b)
  BY <1>2, OffUnretried
<1>4. /\ c.view = b.view /\ c.session = b.session /\ c.sub = 0 /\ c.inc = b.inc
      /\ c.attached = FALSE /\ c.timer = FALSE /\ c.exhausted = b.exhausted
      /\ c.attempts = b.attempts /\ c.retry = b.retry
  BY <1>2, <1>3, OffUnretried
<1>5. PICK x : x = Rebound(DetachView(w, v), v, c)
  OBVIOUS
<1>6. Sound(c)
  BY <1>2, <1>4 DEF Sound
<1>7. IsOff(w, x, v, c) /\ Surface(x, A \cup {v}, B \cup {v}, C \cup {v})
  BY <1>2, <1>4, <1>5, <1>6, Offs
<1>8. SameCatalog(w, x)
  BY <1>7, CatalogKept DEF IsOff, Moves, Host
<1>9. Current(x, c) /\ Timed(x, c)
  BY <1>4, <1>7, <1>8 DEF Current, Timed, SameCatalog, IsOff
<1>10. u = ScheduleRemoteRetry(x, v)
  BY <1>3, <1>5 DEF Fail
<1>11. c.exhausted => v \in x.error \cup x.unheard
  BY <1>4, <1>7 DEF IsOff
<1>12. /\ v \in BoundSet(x) /\ c = BindingOf(x, v) /\ x.views[v] = Detached /\ ~c.attached
       /\ c.inc # 0 /\ c.attempts <= RetryLimit
  BY <1>4, <1>7 DEF IsOff
<1>13. /\ Does(x, u, v, A \cup {v}, B \cup {v}, C \cup {v}) /\ v \in BoundSet(u)
       /\ BindingOf(u, v).inc = c.inc /\ BindingOf(u, v).attempts <= c.attempts + 1
       /\ u.wired = x.wired
  BY <1>7, <1>9, <1>10, <1>11, <1>12, Scheduled
<1>14. Does(w, u, v, A, B, C)
  BY <1>7, <1>13, DoesAfter DEF IsOff
<1> QED
  BY <1>4, <1>7, <1>12, <1>13, <1>14 DEF IsOff

\* connectionFailed: the binding fits.
LEMMA FailsToConnect ==
  ASSUME NEW w, Surface(w, {}, {}, {}), NEW v \in View, w.views[v].inbox # <<>>,
         NEW x, x = Taken(w, v), NEW u, u = ConnectionFailed(x, v)
  PROVE  Serves(w, u)
<1>1. PICK b : b = BindingOf(w, v)
  OBVIOUS
<1>2. /\ v \in BoundSet(w) /\ BoundSet(x) = BoundSet(w) /\ BindingOf(x, v) = b
      /\ Moves(w, x, v) /\ Surface(x, {v}, {v}, {v}) /\ BindingOK(x, b)
      /\ Current(x, b) /\ Timed(x, b) /\ ~b.exhausted /\ b.inc # 0 /\ b \in Binding /\ b.view = v
  <2>1. Took(w, x, v, b)
    BY <1>1, Takes
  <2> QED
    BY <2>1 DEF Took
<1>3. Bound(x, v)
  <2>1. Formed(x)
    BY <1>2 DEF Moves
  <2> QED
    BY <1>2, <2>1, FormedHeld, NoPosition
<1>4. b.attempts \in Nat /\ RetryLimit \in Nat /\ b.attempts + 1 <= RetryLimit
  <2>1. b.attempts \in Nat /\ RetryLimit \in Nat
    BY <1>2, ControllerAssumption DEF Binding
  <2>2. ~(b.attempts >= RetryLimit)
    BY <1>2 DEF BindingOK, Sound
  <2> QED
    BY <2>1, <2>2
<1>5. PICK y : y = Fail(x, v)
  OBVIOUS
<1>6. /\ Does(x, y, v, {v}, {v}, {v}) /\ v \in BoundSet(y) /\ y.wired = x.wired
      /\ BindingOf(y, v).inc # 0 /\ BindingOf(y, v).attempts <= b.attempts + 1
  BY <1>2, <1>4, <1>5, Fails
<1>7. Does(w, y, v, {}, {}, {})
  <2>1. Does(x, y, v, {} \cup {v}, {} \cup {v}, {} \cup {v})
    BY <1>6
  <2> QED
    BY <1>2, <2>1, DoesAfter
<1>8. u = IF x.wired[v] = 2 THEN Fail(y, v) ELSE y
  BY <1>3, <1>5 DEF ConnectionFailed, Fail
<1>9. CASE x.wired[v] # 2
  BY <1>2, <1>6, <1>7, <1>8, <1>9, DoesServe
<1>10. CASE x.wired[v] = 2
  <2>1. Surface(y, {}, {}, {}) /\ Moves(w, y, v)
    <3>1. {} \ {v} = {}
      OBVIOUS
    <3> QED
      BY <1>7, <3>1 DEF Does
  <2>2. PICK c : c = BindingOf(y, v)
    OBVIOUS
  <2>3. c \in Binding
    BY <1>6, <2>1, <2>2, FormedHeld, BindingIs DEF Surface
  <2>4. Current(y, c) /\ Timed(y, c) /\ (c.exhausted => c.view \in y.error \cup y.unheard) /\ c.view = v
    <3>1. Fits(y, v, {}, {}, {}) /\ c.view = v
      BY <1>6, <2>1, <2>2, FormedHeld, BindingIs DEF Surface
    <3> QED
      BY <2>2, <3>1 DEF Fits, Settled, Carried
  <2>5. c.attempts <= RetryLimit /\ c.inc # 0
    <3>1. c.attempts \in Nat
      BY <2>3 DEF Binding
    <3> QED
      BY <1>4, <1>6, <2>2, <3>1
  <2>6. u = Fail(y, v)
    BY <1>8, <1>10
  <2>7. Does(y, u, v, {}, {}, {}) /\ v \in BoundSet(u)
    BY <1>6, <2>1, <2>2, <2>4, <2>5, <2>6, Fails
  <2>8. Does(w, u, v, {}, {}, {})
    BY <2>1, <2>7, MovesOn DEF Does
  <2> QED
    BY <1>2, <2>7, <2>8, DoesServe
<1> QED
  BY <1>9, <1>10

\* terminalClosed: the binding fits.
LEMMA Closes ==
  ASSUME NEW w, Surface(w, {}, {}, {}), NEW v \in View, w.views[v].inbox # <<>>,
         NEW x, x = Taken(w, v), NEW u, u = ViewEnds(x, v)
  PROVE  Serves(w, u)
<1>1. PICK b : b = BindingOf(w, v)
  OBVIOUS
<1>2. /\ v \in BoundSet(w) /\ BoundSet(x) = BoundSet(w) /\ BindingOf(x, v) = b
      /\ Moves(w, x, v) /\ Surface(x, {v}, {v}, {v}) /\ BindingOK(x, b)
      /\ Current(x, b) /\ Timed(x, b) /\ ~b.exhausted /\ b.inc # 0 /\ b \in Binding /\ b.view = v
  <2>1. Took(w, x, v, b)
    BY <1>1, Takes
  <2> QED
    BY <2>1 DEF Took
<1>3. Formed(x) /\ Bound(x, v)
  <2>1. Formed(x)
    BY <1>2 DEF Moves
  <2> QED
    BY <1>2, <2>1, FormedHeld, NoPosition
<1>4. PICK c \in Binding : c = Off(b)
  BY <1>2, OffUnretried
<1>5. /\ c.view = b.view /\ c.session = b.session /\ c.sub = 0 /\ c.inc = b.inc
      /\ c.attached = FALSE /\ c.timer = FALSE /\ c.exhausted = b.exhausted
      /\ c.attempts = b.attempts /\ c.retry = b.retry
  BY <1>2, <1>4, OffUnretried
<1>6. PICK y : y = Rebound(DetachView(x, v), v, c)
  OBVIOUS
<1>7. u = Rejected(y, v)
  <2>1. PICK d : d = DetachView(x, v)
    OBVIOUS
  <2>2. Rest(x, d)
    BY <1>2, <1>3, <2>1, FormedHeld, Detaches
  <2>3. Bound(d, v) /\ BindingOf(d, v) = b
    BY <1>2, <1>3, <2>2, SameBindings DEF Rest
  <2> QED
    BY <1>4, <1>6, <2>1, <2>3 DEF ViewEnds, TerminalClosed
<1>8. Sound(c)
  BY <1>2, <1>5 DEF BindingOK, Sound
<1>9. IsOff(x, y, v, c) /\ Surface(y, {v}, {v}, {v})
  <2>1. IsOff(x, y, v, c) /\ Surface(y, {v} \cup {v}, {v} \cup {v}, {v} \cup {v})
    BY <1>2, <1>5, <1>6, <1>8, Offs
  <2> QED
    BY <2>1
<1>10. SameCatalog(x, y)
  BY <1>9, CatalogKept DEF IsOff, Moves, Host
<1>11. Current(y, c) /\ Noted(y, c) /\ Timed(y, c)
  BY <1>2, <1>5, <1>9, <1>10 DEF Current, Noted, Timed, SameCatalog, IsOff
<1>12. Does(y, u, v, {v}, {v}, {v}) /\ v \in BoundSet(u)
  BY <1>7, <1>9, <1>11, RejectDoes DEF IsOff
<1>13. Does(w, u, v, {}, {}, {})
  <2>1. Moves(w, y, v)
    BY <1>2, <1>9, MovesOn DEF IsOff
  <2>2. Does(y, u, v, {} \cup {v}, {} \cup {v}, {} \cup {v})
    BY <1>12
  <2> QED
    BY <2>1, <2>2, DoesAfter
<1> QED
  BY <1>2, <1>12, <1>13, DoesServe

\* The catalog has spoken.
LEMMA SnapshotServes ==
  ASSUME NEW w, HostOK(w), Surface(w, {}, {}, {}), \A v \in BoundSet(w) \cap Session : CanRetain(w, v),
         NEW u, u = CatalogSnapshotApplied(w)
  PROVE  Serves(w, u)
<1>1. CASE ~w.running
  BY <1>1 DEF CatalogSnapshotApplied, Serves, Host
<1>2. CASE w.running
  <2>1. PICK x : x = [w EXCEPT !.waiting = FALSE]
    OBVIOUS
  <2>2. /\ Surface(x, {}, View, {}) /\ Host(w, x) /\ BoundSet(x) = BoundSet(w)
    BY <2>1, WaitsNoMore
  <2>3. HostOK(x) /\ SameCatalog(w, x)
    BY <2>2, HostKept, CatalogKept DEF Surface, Formed, Host
  <2>4. u = Reconcile(x)
    BY <1>2, <2>1 DEF CatalogSnapshotApplied
  <2>5. IF Authoritative(x) THEN Retains(x, u) ELSE Idles(x, u)
    BY <2>2, <2>3, <2>4, Reconciles
  <2>6. CASE Authoritative(x)
    <3>1. Retains(x, u)
      BY <2>5, <2>6
    <3>2. BoundSet(u) \cap Session = BoundSet(x) \cap Session
      BY <2>2, <2>3, <3>1 DEF Retains, SameCatalog
    <3> QED
      BY <2>2, <3>1, <3>2, HostOn DEF Retains, Serves
  <2>7. CASE ~Authoritative(x)
    BY <2>2, <2>5, <2>7, HostOn DEF Idles, Serves
  <2> QED
    BY <2>6, <2>7
<1> QED
  BY <1>1, <1>2 DEF HostOK
=============================================================================
