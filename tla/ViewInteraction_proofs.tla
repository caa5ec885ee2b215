----------------------- MODULE ViewInteraction_proofs -----------------------
(***************************************************************************)
(* Proofs about ViewInteraction, for every value of its constants.         *)
(*                                                                         *)
(* A handler is an operator from a view to the views it may leave, so a    *)
(* lemma says of each handler what it needs of the view it is given and    *)
(* what it promises of those it leaves.  Kept(v) is what every handler     *)
(* needs and keeps wherever it is called from: the types, the timers and   *)
(* the line of commands and outcomes.  Wanted, Queued and Sized are what   *)
(* focus, input and size promise at the end of a step; inside one a        *)
(* handler may be called where they do not hold yet.                       *)
(***************************************************************************)
EXTENDS ViewInteraction, FiniteSetTheorems, SequenceTheorems,
        WellFoundedInduction, TLAPS

-----------------------------------------------------------------------------
(* Types of a view, and what a handler leaves alone.                        *)

Names ==
  {"activeFocus", "shown", "enabled", "size", "epoch", "attached", "ready", "control",
   "authority", "desired", "claimed", "pendingFocus", "focusRetry", "focusRefused",
   "resizeQueued", "lastSize", "pendingResize", "resizeRetry", "claimPending",
   "resizeRefused", "passedOver", "queue", "inputRetry", "inputGeneration", "typed",
   "taken", "stray", "timers", "sent", "refusals"}

\* What a timer is to the bag: it is in it, once or more often.
TimerBag == UNION {[S -> Nat \ {0}] : S \in SUBSET Timer}

ItemTyped(v) ==
  /\ v.activeFocus \in BOOLEAN /\ v.shown \in BOOLEAN /\ v.enabled \in BOOLEAN
  /\ v.size \in Size /\ v.epoch \in 0 .. EpochLimit
  /\ v.attached \in BOOLEAN /\ v.ready \in BOOLEAN
  /\ v.control \in BOOLEAN /\ v.authority \in BOOLEAN
FocusTyped(v) ==
  /\ v.desired \in BOOLEAN /\ v.claimed \in BOOLEAN /\ v.pendingFocus \in Nat
  /\ v.focusRetry \in {"none", "focus", "blur"} /\ v.focusRefused \in BOOLEAN
ResizeTyped(v) ==
  /\ v.resizeQueued \in BOOLEAN /\ v.resizeRetry \in BOOLEAN
  /\ v.lastSize \in 0 .. SizeLimit /\ v.pendingResize \in Resizing
  /\ v.claimPending \in BOOLEAN /\ v.resizeRefused \in BOOLEAN /\ v.passedOver \in BOOLEAN
InputTyped(v) ==
  /\ v.queue \in Seq(Input) /\ Len(v.queue) <= QueueLimit
  /\ v.inputRetry \in BOOLEAN /\ v.inputGeneration \in Nat
  /\ v.typed \in Nat /\ v.taken \in Nat /\ v.stray \in BOOLEAN
OutsideTyped(v) ==
  v.timers \in TimerBag /\ v.sent \in Seq(Command) /\ v.refusals \in 0 .. RefusalLimit

IsRecord(v) == DOMAIN v = Names
IsView(v) ==
  /\ IsRecord(v)
  /\ ItemTyped(v) /\ FocusTyped(v) /\ ResizeTyped(v) /\ InputTyped(v) /\ OutsideTyped(v)

SameItem(v, w) ==
  /\ w.activeFocus = v.activeFocus /\ w.shown = v.shown /\ w.enabled = v.enabled
  /\ w.size = v.size /\ w.epoch = v.epoch /\ w.attached = v.attached /\ w.ready = v.ready
  /\ w.control = v.control /\ w.authority = v.authority
SameFocus(v, w) ==
  /\ w.desired = v.desired /\ w.claimed = v.claimed /\ w.pendingFocus = v.pendingFocus
  /\ w.focusRetry = v.focusRetry /\ w.focusRefused = v.focusRefused
SameResize(v, w) ==
  /\ w.resizeQueued = v.resizeQueued /\ w.resizeRetry = v.resizeRetry
  /\ w.lastSize = v.lastSize /\ w.pendingResize = v.pendingResize
  /\ w.claimPending = v.claimPending /\ w.resizeRefused = v.resizeRefused
  /\ w.passedOver = v.passedOver
SameInput(v, w) ==
  /\ w.queue = v.queue /\ w.inputRetry = v.inputRetry /\ w.inputGeneration = v.inputGeneration
  /\ w.typed = v.typed /\ w.taken = v.taken /\ w.stray = v.stray
SameOutside(v, w) == w.timers = v.timers /\ w.sent = v.sent /\ w.refusals = v.refusals

\* Whatever is left alone keeps its types.
LEMMA SameTyped ==
  ASSUME NEW v, IsView(v), NEW w
  PROVE  /\ SameItem(v, w) => ItemTyped(w)
         /\ SameFocus(v, w) => FocusTyped(w)
         /\ SameResize(v, w) => ResizeTyped(w)
         /\ SameInput(v, w) => InputTyped(w)
         /\ SameOutside(v, w) => OutsideTyped(w)
BY DEF IsView, ItemTyped, FocusTyped, ResizeTyped, InputTyped, OutsideTyped,
       SameItem, SameFocus, SameResize, SameInput, SameOutside

\* The timers of w are those of v, and more of the kinds D of now.
Grows(v, w, D) ==
  /\ DOMAIN v.timers \subseteq DOMAIN w.timers
  /\ \A timer \in DOMAIN w.timers : timer \notin DOMAIN v.timers =>
       timer.does \in D /\ timer.epoch = v.epoch /\ timer.generation <= v.inputGeneration
  /\ \A timer \in DOMAIN v.timers : timer.does \notin D => w.timers[timer] = v.timers[timer]

Kinds == {"focusRetry", "resize", "resizeRetry", "inputRetry"}

\* A timer more in the bag.
LEMMA BagAdds ==
  ASSUME NEW B \in TimerBag, NEW timer \in Timer, NEW C, C = B (+) SetToBag({timer})
  PROVE  /\ C \in TimerBag
         /\ DOMAIN C = DOMAIN B \cup {timer}
         /\ \A t \in DOMAIN B : t # timer => C[t] = B[t]
         /\ timer \notin DOMAIN B => C[timer] = 1
<1>1. PICK S \in SUBSET Timer : B \in [S -> Nat \ {0}]
  BY DEF TimerBag
<1> DEFINE Count(e) == IF e = timer THEN IF e \in S THEN B[e] + 1 ELSE 1 ELSE B[e]
<1>2. DOMAIN C = S \cup {timer} /\ \A e \in S \cup {timer} : C[e] = Count(e)
  BY <1>1 DEF (+), SetToBag
<1>3. C = [e \in S \cup {timer} |-> C[e]]
  BY <1>1 DEF (+), SetToBag
<1>4. \A e \in S \cup {timer} : Count(e) \in Nat \ {0}
  BY <1>1
<1>5. C \in [S \cup {timer} -> Nat \ {0}]
  BY <1>2, <1>3, <1>4
<1>6. C \in TimerBag
  BY <1>5 DEF TimerBag
<1> QED
  BY <1>1, <1>2, <1>6

\* One that fires is taken from it: what was there once is gone.
LEMMA BagRemoves ==
  ASSUME NEW B \in TimerBag, NEW timer \in DOMAIN B, NEW C, C = B (-) SetToBag({timer})
  PROVE  /\ C \in TimerBag
         /\ DOMAIN C = IF B[timer] = 1 THEN DOMAIN B \ {timer} ELSE DOMAIN B
         /\ \A t \in DOMAIN B : t # timer => C[t] = B[t]
<1> DEFINE Left == [e \in DOMAIN B |-> IF e = timer THEN B[e] - 1 ELSE B[e]]
           R == {e \in DOMAIN B : Left[e] > 0}
<1>1. PICK S \in SUBSET Timer : B \in [S -> Nat \ {0}]
  BY DEF TimerBag
<1>2. C = [e \in R |-> Left[e]]
  BY DEF (-), SetToBag
<1>3. R = IF B[timer] = 1 THEN DOMAIN B \ {timer} ELSE DOMAIN B
  BY <1>1
<1>4. \A e \in R : Left[e] \in Nat \ {0}
  BY <1>1
<1>5. \A e \in DOMAIN B : e # timer => Left[e] = B[e]
  OBVIOUS
<1>6. R \in SUBSET Timer
  BY <1>1
<1> HIDE DEF Left, R
<1>7. C \in TimerBag
  BY <1>2, <1>4, <1>6 DEF TimerBag
<1>8. DOMAIN C = R /\ \A e \in R : C[e] = Left[e]
  BY <1>2
<1> QED
  BY <1>3, <1>5, <1>7, <1>8

\* QTimer::singleShot: a timer of now, and nothing else.
LEMMA TimerStarts ==
  ASSUME NEW v, IsView(v), NEW does \in Kinds, NEW w, w = Started(v, does)
  PROVE  /\ IsView(w) /\ SameItem(v, w) /\ SameFocus(v, w) /\ SameResize(v, w) /\ SameInput(v, w)
         /\ w.sent = v.sent /\ w.refusals = v.refusals
         /\ Grows(v, w, {does})
         /\ \E timer \in DOMAIN w.timers :
              /\ timer.does = does /\ timer.epoch = v.epoch
              /\ does = "inputRetry" => timer.generation = v.inputGeneration
              /\ timer \notin DOMAIN v.timers => w.timers[timer] = 1
              /\ DOMAIN w.timers = DOMAIN v.timers \cup {timer}
<1> DEFINE timer == [does |-> does, epoch |-> v.epoch,
                             generation |-> IF does = "inputRetry" THEN v.inputGeneration ELSE 0]
<1>1. v.timers \in TimerBag /\ v.sent \in Seq(Command) /\ v.refusals \in 0 .. RefusalLimit
  BY DEF IsView, OutsideTyped
<1>2. v.epoch \in 0 .. EpochLimit /\ v.inputGeneration \in Nat
  BY DEF IsView, ItemTyped, InputTyped
<1>3. /\ IsRecord(w) /\ SameItem(v, w) /\ SameFocus(v, w) /\ SameResize(v, w) /\ SameInput(v, w)
      /\ w.sent = v.sent /\ w.refusals = v.refusals
      /\ w.timers = v.timers (+) SetToBag({timer})
  BY DEF IsView, IsRecord, Names, Started, SameItem, SameFocus, SameResize, SameInput
<1>4. /\ timer \in Timer /\ timer.does = does /\ timer.epoch = v.epoch
      /\ timer.generation <= v.inputGeneration
      /\ does = "inputRetry" => timer.generation = v.inputGeneration
  BY <1>2 DEF Timer, Kinds
<1> HIDE DEF timer
<1>5. /\ w.timers \in TimerBag
      /\ DOMAIN w.timers = DOMAIN v.timers \cup {timer}
      /\ \A t \in DOMAIN v.timers : t # timer => w.timers[t] = v.timers[t]
      /\ timer \notin DOMAIN v.timers => w.timers[timer] = 1
  <2>1. v.timers \in TimerBag /\ timer \in Timer /\ w.timers = v.timers (+) SetToBag({timer})
    BY <1>1, <1>3, <1>4
  <2> QED
    BY <2>1, BagAdds, Z3
<1>6. IsView(w)
  <2>1. OutsideTyped(w)
    BY <1>1, <1>3, <1>5 DEF OutsideTyped
  <2> QED
    BY <1>3, <2>1, SameTyped DEF IsView
<1>7. Grows(v, w, {does})
  BY <1>4, <1>5 DEF Grows
<1>8. \E t \in DOMAIN w.timers :
        /\ t.does = does /\ t.epoch = v.epoch
        /\ does = "inputRetry" => t.generation = v.inputGeneration
        /\ t \notin DOMAIN v.timers => w.timers[t] = 1
        /\ DOMAIN w.timers = DOMAIN v.timers \cup {t}
  BY <1>4, <1>5
<1> QED
  BY <1>3, <1>6, <1>7, <1>8

\* A refused command is counted, within the bound.
LEMMA RefusalCounts ==
  ASSUME NEW v, IsView(v), Refusals(v) # {}, NEW w, w = Refused(v)
  PROVE  /\ IsView(w) /\ SameItem(v, w) /\ SameFocus(v, w) /\ SameResize(v, w) /\ SameInput(v, w)
         /\ w.sent = v.sent /\ w.timers = v.timers
<1>1. v.refusals < RefusalLimit /\ v.refusals \in 0 .. RefusalLimit /\ RefusalLimit \in Nat
  BY ConstantsAssumption DEF Refusals, IsView, OutsideTyped, ConstantsAssumption
<1>2. /\ IsRecord(w) /\ SameItem(v, w) /\ SameFocus(v, w) /\ SameResize(v, w) /\ SameInput(v, w)
      /\ w.sent = v.sent /\ w.timers = v.timers /\ w.refusals = v.refusals + 1
  BY DEF IsView, IsRecord, Names, Refused, SameItem, SameFocus, SameResize, SameInput
<1>3. OutsideTyped(w)
  BY <1>1, <1>2 DEF IsView, OutsideTyped
<1>4. IsView(w)
  BY <1>2, <1>3, SameTyped DEF IsView
<1> QED
  BY <1>2, <1>4

\* A command more on its way.
LEMMA CommandSends ==
  ASSUME NEW v, IsView(v), NEW type, NEW what, [type |-> type, what |-> what] \in Command,
         NEW w, w = Sent(v, type, what)
  PROVE  /\ IsView(w) /\ SameItem(v, w) /\ SameFocus(v, w) /\ SameResize(v, w) /\ SameInput(v, w)
         /\ w.sent = Append(v.sent, [type |-> type, what |-> what])
         /\ w.timers = v.timers /\ w.refusals = v.refusals
<1>1. /\ IsRecord(w) /\ SameItem(v, w) /\ SameFocus(v, w) /\ SameResize(v, w) /\ SameInput(v, w)
      /\ w.sent = Append(v.sent, [type |-> type, what |-> what])
      /\ w.timers = v.timers /\ w.refusals = v.refusals
  BY DEF IsView, IsRecord, Names, Sent, SameItem, SameFocus, SameResize, SameInput
<1>2. OutsideTyped(w)
  BY <1>1 DEF IsView, OutsideTyped
<1>3. IsView(w)
  BY <1>1, <1>2, SameTyped DEF IsView
<1> QED
  BY <1>1, <1>3

-----------------------------------------------------------------------------
(* Request ids.                                                             *)

Sends(v, id)  == \E k \in DOMAIN v.sent : v.sent[k].what.id = id
Tells(ev, id) == \E i \in DOMAIN ev : ev[i].id = id

\* Nothing refers to the id.
Fresh(v, id) ==
  /\ id \in Nat \ {0}
  /\ id # v.pendingFocus /\ id # v.pendingResize.id
  /\ ~Sends(v, id) /\ ~Tells(events, id)

\* A set of naturals that is not empty has a least element.
LEMMA Least ==
  ASSUME NEW T \in SUBSET Nat, T # {}
  PROVE  Min(T) \in T /\ \A y \in T : Min(T) <= y
<1>1. IsWellFoundedOn(OpToRel(<, Nat), Nat)
  BY NatLessThanWellFounded
<1>2. PICK x \in T : \A y \in T : ~(<<y, x>> \in OpToRel(<, Nat))
  BY <1>1, WFMin
<1>3. \A y \in T : ~(y < x)
  BY <1>2 DEF OpToRel
<1>4. \A y \in T : x <= y
  BY <1>3
<1> QED
  BY <1>4 DEF Min

\* A list of so many elements has at most so many of them.
LEMMA FewElements ==
  ASSUME NEW n \in Nat, NEW f, DOMAIN f = 1 .. n
  PROVE  LET T == {f[k] : k \in 1 .. n} IN
         IsFiniteSet(T) /\ Cardinality(T) \in Nat /\ Cardinality(T) <= n
<1> DEFINE T == {f[k] : k \in 1 .. n}
           g == [k \in 1 .. n |-> f[k]]
<1>1. g \in Surjection(1 .. n, T)
  BY DEF Surjection
<1>2. IsFiniteSet(1 .. n) /\ Cardinality(1 .. n) = n
  BY FS_Interval
<1>3. IsFiniteSet(T) /\ Cardinality(T) <= Cardinality(1 .. n)
  BY <1>1, <1>2, FS_Surjection
<1> QED
  BY <1>2, <1>3, FS_CardinalityType

\* There is always an id that nothing refers to.
LEMMA FreshIds ==
  ASSUME NEW v, IsView(v), events \in Seq(Posted)
  PROVE  Fresh(v, FreshId(v))
<1>1. PICK n \in Nat, m \in Nat : n = Len(v.sent) /\ m = Len(events)
  BY DEF IsView, OutsideTyped
<1>2. /\ DOMAIN v.sent = 1 .. n /\ DOMAIN events = 1 .. m
      /\ v.sent \in Seq(Command)
  BY <1>1 DEF IsView, OutsideTyped
<1> DEFINE sentId == [k \in 1 .. n |-> v.sent[k].what.id]
           toldId == [k \in 1 .. m |-> events[k].id]
           S == {sentId[k] : k \in 1 .. n}
           E == {toldId[k] : k \in 1 .. m}
           P == {v.pendingFocus, v.pendingResize.id}
           N == 1 .. n + m + 3
           T == {i \in N : /\ i \notin P
                           /\ \A k \in DOMAIN v.sent : v.sent[k].what.id # i
                           /\ \A k \in DOMAIN events : events[k].id # i}
<1>3. IsFiniteSet(S) /\ Cardinality(S) \in Nat /\ Cardinality(S) <= n
  <2> HIDE DEF sentId
  <2>1. DOMAIN sentId = 1 .. n
    BY DEF sentId
  <2> QED
    BY <2>1, FewElements
<1>4. IsFiniteSet(E) /\ Cardinality(E) \in Nat /\ Cardinality(E) <= m
  <2> HIDE DEF toldId
  <2>1. DOMAIN toldId = 1 .. m
    BY DEF toldId
  <2> QED
    BY <2>1, FewElements
<1>5. IsFiniteSet(P) /\ Cardinality(P) \in Nat /\ Cardinality(P) <= 2
  <2> DEFINE f == <<v.pendingFocus, v.pendingResize.id>>
  <2>1. DOMAIN f = 1 .. 2 /\ f[1] = v.pendingFocus /\ f[2] = v.pendingResize.id
    OBVIOUS
  <2> HIDE DEF f, P
  <2>2. P = {f[k] : k \in 1 .. 2}
    BY <2>1 DEF P
  <2>3. 2 \in Nat
    OBVIOUS
  <2> QED
    BY <2>1, <2>2, <2>3, FewElements
<1>6. T # {}
  <2> SUFFICES ASSUME T = {} PROVE FALSE
    OBVIOUS
  <2>1. N \subseteq (S \cup E) \cup P
    <3> SUFFICES ASSUME NEW i \in N, i \notin P PROVE i \in S \cup E
      OBVIOUS
    <3>1. i \notin T
      OBVIOUS
    <3>2. CASE \E k \in 1 .. n : v.sent[k].what.id = i
      BY <3>2
    <3>3. CASE \E k \in 1 .. m : events[k].id = i
      BY <3>3
    <3> QED
      BY <1>2, <3>1, <3>2, <3>3
  <2> HIDE DEF S, E, P
  <2>2. /\ IsFiniteSet(S \cup E)
        /\ Cardinality(S \cup E) = Cardinality(S) + Cardinality(E) - Cardinality(S \cap E)
        /\ Cardinality(S \cap E) \in Nat
    BY <1>3, <1>4, FS_Union, FS_Intersection, FS_CardinalityType
  <2>3. /\ IsFiniteSet((S \cup E) \cup P)
        /\ Cardinality((S \cup E) \cup P)
             = Cardinality(S \cup E) + Cardinality(P) - Cardinality((S \cup E) \cap P)
        /\ Cardinality((S \cup E) \cap P) \in Nat
    BY <1>5, <2>2, FS_Union, FS_Intersection, FS_CardinalityType
  <2>4. IsFiniteSet(N) /\ Cardinality(N) = n + m + 3
    BY FS_Interval
  <2>5. Cardinality(N) <= Cardinality((S \cup E) \cup P)
    BY <2>1, <2>3, FS_Subset
  <2> HIDE DEF N
  <2> QED
    BY <1>3, <1>4, <1>5, <2>2, <2>3, <2>4, <2>5
<1>7. T \in SUBSET Nat
  OBVIOUS
<1>8. FreshId(v) = Min(T)
  BY <1>1 DEF FreshId
<1>9. Min(T) \in T
  BY <1>6, <1>7, Least
<1>10. FreshId(v) \in T
  BY <1>8, <1>9
<1> QED
  BY <1>2, <1>10 DEF Fresh, Sends, Tells

-----------------------------------------------------------------------------
(* Timers.                                                                  *)

\* A timer that is still heard, and whether one is coming.
Heard(v, timer, does) == timer.does = does /\ timer.epoch = v.epoch
Comes(v, does) == \E timer \in DOMAIN v.timers : Heard(v, timer, does)
Current(v, timer) == Heard(v, timer, "inputRetry") /\ timer.generation = v.inputGeneration

\* A flag that is set has its timer; none is of the future; and the timer of the
\* inputs, which is told by its generation, is started once.
Timed(v) ==
  /\ \A timer \in DOMAIN v.timers :
       timer.epoch <= v.epoch /\ timer.generation <= v.inputGeneration
  /\ v.focusRetry # "none" => Comes(v, "focusRetry")
  /\ v.resizeQueued => Comes(v, "resize")
  /\ v.resizeRetry => Comes(v, "resizeRetry")
  /\ v.inputRetry => \E timer \in DOMAIN v.timers : Current(v, timer)
  /\ \A timer \in DOMAIN v.timers :
       Current(v, timer) => v.inputRetry /\ v.timers[timer] = 1

\* What a handler needs of the view it starts from, or leaves.
LEMMA TimerTypes ==
  ASSUME NEW v, IsView(v)
  PROVE  /\ DOMAIN v.timers \subseteq Timer
         /\ \A t \in DOMAIN v.timers : v.timers[t] \in Nat \ {0}
         /\ v.epoch \in Nat /\ v.inputGeneration \in Nat
         /\ \A t \in Timer : t.epoch \in Nat /\ t.generation \in Nat /\ t.does \in Kinds
<1>1. PICK S \in SUBSET Timer : v.timers \in [S -> Nat \ {0}]
  BY DEF IsView, OutsideTyped, TimerBag
<1>2. v.epoch \in Nat /\ v.inputGeneration \in Nat
  BY ConstantsAssumption DEF IsView, ItemTyped, InputTyped, ConstantsAssumption
<1>3. \A t \in Timer : t.epoch \in Nat /\ t.generation \in Nat /\ t.does \in Kinds
  BY ConstantsAssumption DEF Timer, Kinds, ConstantsAssumption
<1> QED
  BY <1>1, <1>2, <1>3

\* Timers and flags may come, if no flag comes alone; the inputs are left alone.
LEMMA TimedGrows ==
  ASSUME NEW v, IsView(v), Timed(v), NEW w, NEW D, "inputRetry" \notin D,
         Grows(v, w, D), w.epoch = v.epoch, w.inputGeneration = v.inputGeneration,
         w.inputRetry = v.inputRetry,
         w.focusRetry # "none" => v.focusRetry # "none" \/ Comes(w, "focusRetry"),
         w.resizeQueued => v.resizeQueued \/ Comes(w, "resize"),
         w.resizeRetry => v.resizeRetry \/ Comes(w, "resizeRetry")
  PROVE  Timed(w)
<1>1. \A does : Comes(v, does) => Comes(w, does)
  BY DEF Comes, Heard, Grows
<1>2. \A t \in DOMAIN w.timers : t.epoch <= w.epoch /\ t.generation <= w.inputGeneration
  BY TimerTypes DEF Timed, Grows
<1>3. w.inputRetry => \E t \in DOMAIN w.timers : Current(w, t)
  BY DEF Timed, Grows, Current, Heard
<1>4. \A t \in DOMAIN w.timers : Current(w, t) => w.inputRetry /\ w.timers[t] = 1
  BY DEF Timed, Grows, Current, Heard
<1> QED
  BY <1>1, <1>2, <1>3, <1>4 DEF Timed

\* The timer of the inputs is started where none was coming.
LEMMA TimedInput ==
  ASSUME NEW v, IsView(v), Timed(v), ~v.inputRetry
  PROVE  /\ IsView(InputRetried(v)) /\ Timed(InputRetried(v))
         /\ SameItem(v, InputRetried(v)) /\ SameFocus(v, InputRetried(v))
         /\ SameResize(v, InputRetried(v))
         /\ InputRetried(v).sent = v.sent /\ InputRetried(v).refusals = v.refusals
         /\ InputRetried(v).inputRetry /\ InputRetried(v).queue = v.queue
         /\ InputRetried(v).inputGeneration = v.inputGeneration
         /\ InputRetried(v).typed = v.typed /\ InputRetried(v).taken = v.taken
         /\ InputRetried(v).stray = v.stray
<1> DEFINE u == [v EXCEPT !.inputRetry = TRUE]
           w == Started(u, "inputRetry")
<1>1. /\ IsRecord(u) /\ SameItem(v, u) /\ SameFocus(v, u) /\ SameResize(v, u)
      /\ SameOutside(v, u) /\ u.inputRetry = TRUE /\ u.queue = v.queue
      /\ u.inputGeneration = v.inputGeneration /\ u.typed = v.typed /\ u.taken = v.taken
      /\ u.stray = v.stray
  BY DEF IsView, IsRecord, Names, SameItem, SameFocus, SameResize, SameOutside
<1> HIDE DEF u
<1>2. IsView(u)
  <2>1. InputTyped(u)
    BY <1>1 DEF IsView, InputTyped
  <2> QED
    BY <1>1, <2>1, SameTyped DEF IsView
<1>a. w = Started(u, "inputRetry") /\ "inputRetry" \in Kinds
  BY DEF Kinds
<1> HIDE DEF w
<1>3. /\ IsView(w) /\ SameItem(u, w) /\ SameFocus(u, w) /\ SameResize(u, w) /\ SameInput(u, w)
      /\ w.sent = u.sent /\ w.refusals = u.refusals /\ Grows(u, w, {"inputRetry"})
      /\ \E t \in DOMAIN w.timers :
           /\ t.does = "inputRetry" /\ t.epoch = u.epoch
           /\ t.generation = u.inputGeneration
           /\ t \notin DOMAIN u.timers => w.timers[t] = 1
           /\ DOMAIN w.timers = DOMAIN u.timers \cup {t}
  BY <1>2, <1>a, TimerStarts
<1>4. /\ SameItem(v, w) /\ SameFocus(v, w) /\ SameResize(v, w) /\ w.sent = v.sent
      /\ w.refusals = v.refusals /\ w.inputRetry /\ w.queue = v.queue
      /\ w.inputGeneration = v.inputGeneration /\ w.typed = v.typed /\ w.taken = v.taken
      /\ w.stray = v.stray
  BY <1>1, <1>3 DEF SameItem, SameFocus, SameResize, SameInput, SameOutside
<1>5. Timed(w)
  <2>1. PICK t \in DOMAIN w.timers :
           /\ t.does = "inputRetry" /\ t.epoch = v.epoch /\ t.generation = v.inputGeneration
           /\ t \notin DOMAIN v.timers => w.timers[t] = 1
           /\ DOMAIN w.timers = DOMAIN v.timers \cup {t}
    BY <1>1, <1>3 DEF SameItem, SameOutside
  <2>2. \A x \in DOMAIN v.timers : ~Current(v, x)
    BY DEF Timed
  <2>3. Current(w, t) /\ t \notin DOMAIN v.timers
    BY <1>4, <2>1, <2>2 DEF Current, Heard, SameItem
  <2>4. \A x \in DOMAIN w.timers : x.epoch <= w.epoch /\ x.generation <= w.inputGeneration
    BY <1>4, <2>1, TimerTypes DEF Timed, SameItem
  <2>5. \A does : Comes(v, does) => Comes(w, does)
    BY <1>4, <2>1 DEF Comes, Heard, SameItem
  <2>6. \A x \in DOMAIN w.timers : Current(w, x) => w.timers[x] = 1
    BY <1>4, <2>1, <2>2, <2>3 DEF Current, Heard, SameItem
  <2> QED
    BY <1>4, <2>3, <2>4, <2>5, <2>6 DEF Timed, SameFocus, SameResize
<1> QED
  BY <1>3, <1>4, <1>5 DEF InputRetried, u, w

-----------------------------------------------------------------------------
(* The line: commands on their way to the runtime, outcomes on their way back. *)

\* Blurs are the commands without an id, news of a connection the outcomes without.
Numbered(v, ev) ==
  /\ \A k \in DOMAIN v.sent : v.sent[k].what.id = 0 <=> v.sent[k].type = "blur"
  /\ \A i \in DOMAIN ev : ev[i].id = 0 <=> ev[i].type = "connected"

IsFocus(command) == command.type \in {"focus", "blur"}
NoFocusSent(v)   == \A k \in DOMAIN v.sent : ~IsFocus(v.sent[k])
NoResizeSent(v)  == \A k \in DOMAIN v.sent : v.sent[k].type # "resize"

\* The last command about the focus, or the size.
LastFocus(v, k) == IsFocus(v.sent[k]) /\ \A j \in DOMAIN v.sent : j > k => ~IsFocus(v.sent[j])
LastResize(v, k) ==
  v.sent[k].type = "resize" /\ \A j \in DOMAIN v.sent : j > k => v.sent[j].type # "resize"

\* The last resize on its way is to this size.
SentSize(v, size) == \E k \in DOMAIN v.sent : LastResize(v, k) /\ v.sent[k].what.size = size

\* Each focus on its way finds the view without it.
Alternating(v, rt) ==
  /\ \A j, k \in DOMAIN v.sent :
       j < k /\ v.sent[j].type = "focus" /\ v.sent[k].type = "focus" =>
         \E i \in DOMAIN v.sent : j < i /\ i < k /\ v.sent[i].type = "blur"
  /\ rt.focused => \A k \in DOMAIN v.sent : v.sent[k].type = "focus" =>
       \E i \in DOMAIN v.sent : i < k /\ v.sent[i].type = "blur"

\* The focus the view waits for is the last thing it said of it, or its outcome is
\* on its way back.
FocusSent(v, ev) ==
  /\ ~Tells(ev, v.pendingFocus)
  /\ \E k \in DOMAIN v.sent :
       /\ LastFocus(v, k) /\ v.sent[k].type = "focus" /\ v.sent[k].what.id = v.pendingFocus
       /\ \A j \in DOMAIN v.sent : v.sent[j].what.id = v.pendingFocus => j = k
FocusTold(v, ev, rt) ==
  /\ ~Sends(v, v.pendingFocus)
  /\ NoFocusSent(v)
  /\ \E i \in DOMAIN ev :
       /\ ev[i].type = "focus" /\ ev[i].id = v.pendingFocus /\ ev[i].applied = rt.focused
       /\ \A j \in DOMAIN ev : ev[j].id = v.pendingFocus => j = i

\* What the view believes of its focus is what the runtime will have.
FocusKnown(v, ev, rt) ==
  /\ v.claimed => v.pendingFocus = 0 /\ rt.focused /\ NoFocusSent(v)
  /\ v.pendingFocus # 0 => FocusSent(v, ev) \/ FocusTold(v, ev, rt)
  /\ ~v.claimed /\ v.pendingFocus = 0 =>
       \/ ~rt.focused /\ NoFocusSent(v)
       \/ \E k \in DOMAIN v.sent : LastFocus(v, k) /\ v.sent[k].type = "blur"

\* A resize the view waits for is the last it sent, or its outcome is on its way back.
ResizeSent(v, ev) ==
  /\ ~Tells(ev, v.pendingResize.id)
  /\ \E k \in DOMAIN v.sent :
       /\ LastResize(v, k) /\ v.sent[k].what = v.pendingResize
       /\ \A j \in DOMAIN v.sent : v.sent[j].what.id = v.pendingResize.id => j = k
ResizeTold(v, ev, rt, applied) ==
  /\ ~Sends(v, v.pendingResize.id)
  /\ NoResizeSent(v)
  /\ \E i \in DOMAIN ev :
       /\ ev[i].type = "resize" /\ ev[i].id = v.pendingResize.id /\ ev[i].applied = applied
       /\ applied => rt.size = v.pendingResize.size /\ (v.pendingResize.claim => rt.claimed)
       /\ \A j \in DOMAIN ev : ev[j].id = v.pendingResize.id => j = i
ResizeKnown(v, ev, rt) ==
  v.pendingResize # NoResize =>
    /\ v.pendingResize.id # 0
    /\ \/ ResizeSent(v, ev)
       \/ \E applied \in BOOLEAN : ResizeTold(v, ev, rt, applied)

Lined(v, ev, rt) ==
  Numbered(v, ev) /\ Alternating(v, rt) /\ FocusKnown(v, ev, rt) /\ ResizeKnown(v, ev, rt)

\* What is sent is the last on its way.
LEMMA Appends ==
  ASSUME NEW S, NEW s \in Seq(S), NEW c \in S
  PROVE  \E n \in Nat : /\ DOMAIN s = 1 .. n /\ DOMAIN Append(s, c) = 1 .. n + 1
                        /\ \A k \in 1 .. n : Append(s, c)[k] = s[k]
                        /\ Append(s, c)[n + 1] = c
<1>1. PICK n \in Nat : n = Len(s)
  OBVIOUS
<1>2. /\ DOMAIN s = 1 .. n /\ DOMAIN Append(s, c) = 1 .. n + 1
      /\ \A k \in 1 .. n : Append(s, c)[k] = s[k]
      /\ Append(s, c)[n + 1] = c
  BY <1>1
<1> QED
  BY <1>2

\* The line hangs on nothing but what is sent and what is waited for.
LEMMA LineSame ==
  ASSUME NEW v, NEW w, NEW ev, NEW rt, Lined(v, ev, rt),
         w.sent = v.sent, w.claimed = v.claimed, w.pendingFocus = v.pendingFocus,
         w.pendingResize \in {v.pendingResize, NoResize}
  PROVE  Lined(w, ev, rt)
<1>1. Numbered(w, ev) /\ Alternating(w, rt)
  BY DEF Lined, Numbered, Alternating
<1>2. FocusKnown(w, ev, rt)
  BY DEF Lined, FocusKnown, FocusSent, FocusTold, LastFocus, NoFocusSent, Sends
<1>3. ResizeKnown(w, ev, rt)
  BY DEF Lined, ResizeKnown, ResizeSent, ResizeTold, LastResize, NoResizeSent, Sends
<1> QED
  BY <1>1, <1>2, <1>3 DEF Lined

\* A command that is no resize, with an id of its own or none, stays out of the way
\* of the resizes; one that is no focus and no blur, of those.
LEMMA ResizesUndisturbed ==
  ASSUME NEW v, IsView(v), NEW w, NEW c \in Command, NEW ev, NEW rt,
         w.sent = Append(v.sent, c), c.type # "resize",
         w.pendingResize = v.pendingResize
  PROVE  /\ c.what.id # v.pendingResize.id =>
              /\ ResizeSent(v, ev) => ResizeSent(w, ev)
              /\ \A applied : ResizeTold(v, ev, rt, applied) => ResizeTold(w, ev, rt, applied)
         /\ NoResizeSent(v) => NoResizeSent(w)
         /\ \A size : SentSize(v, size) => SentSize(w, size)
<1>0. v.sent \in Seq(Command)
  BY DEF IsView, OutsideTyped
<1>1. PICK n \in Nat : /\ DOMAIN v.sent = 1 .. n /\ DOMAIN w.sent = 1 .. n + 1
                       /\ \A k \in 1 .. n : w.sent[k] = v.sent[k]
                       /\ w.sent[n + 1] = c
  BY <1>0, Appends
<1>2. \A k \in DOMAIN v.sent : LastResize(v, k) => LastResize(w, k)
  BY <1>1 DEF LastResize
<1>3. c.what.id # v.pendingResize.id /\ ResizeSent(v, ev) => ResizeSent(w, ev)
  <2> SUFFICES ASSUME c.what.id # v.pendingResize.id, ResizeSent(v, ev) PROVE ResizeSent(w, ev)
    OBVIOUS
  <2>1. PICK k \in DOMAIN v.sent :
           /\ LastResize(v, k) /\ v.sent[k].what = v.pendingResize
           /\ \A j \in DOMAIN v.sent : v.sent[j].what.id = v.pendingResize.id => j = k
    BY DEF ResizeSent
  <2>2. \A j \in DOMAIN w.sent : w.sent[j].what.id = v.pendingResize.id => j = k
    BY <1>1, <2>1
  <2>3. k \in DOMAIN w.sent /\ LastResize(w, k) /\ w.sent[k].what = v.pendingResize
    BY <1>1, <1>2, <2>1
  <2> QED
    BY <2>2, <2>3 DEF ResizeSent
<1>4. NoResizeSent(v) => NoResizeSent(w)
  BY <1>1 DEF NoResizeSent
<1>5. c.what.id # v.pendingResize.id /\ ~Sends(v, v.pendingResize.id) => ~Sends(w, v.pendingResize.id)
  BY <1>1 DEF Sends
<1>6. c.what.id # v.pendingResize.id =>
        \A applied : ResizeTold(v, ev, rt, applied) => ResizeTold(w, ev, rt, applied)
  BY <1>4, <1>5 DEF ResizeTold
<1>7. \A size : SentSize(v, size) => SentSize(w, size)
  BY <1>1, <1>2 DEF SentSize
<1> QED
  BY <1>3, <1>4, <1>6, <1>7

LEMMA FocusUndisturbed ==
  ASSUME NEW v, IsView(v), NEW w, NEW c \in Command, NEW ev, NEW rt,
         w.sent = Append(v.sent, c), c.type = "resize",
         w.claimed = v.claimed, w.pendingFocus = v.pendingFocus, c.what.id # v.pendingFocus
  PROVE  /\ Alternating(v, rt) => Alternating(w, rt)
         /\ FocusKnown(v, ev, rt) => FocusKnown(w, ev, rt)
<1>0. v.sent \in Seq(Command)
  BY DEF IsView, OutsideTyped
<1>1. PICK n \in Nat : /\ DOMAIN v.sent = 1 .. n /\ DOMAIN w.sent = 1 .. n + 1
                       /\ \A k \in 1 .. n : w.sent[k] = v.sent[k]
                       /\ w.sent[n + 1] = c
  BY <1>0, Appends
<1>2. \A k \in DOMAIN v.sent : LastFocus(v, k) => LastFocus(w, k)
  BY <1>1 DEF LastFocus, IsFocus
<1>3. NoFocusSent(v) => NoFocusSent(w)
  BY <1>1 DEF NoFocusSent, IsFocus
<1>4. ~Sends(v, v.pendingFocus) => ~Sends(w, v.pendingFocus)
  BY <1>1 DEF Sends
<1>5. FocusTold(v, ev, rt) => FocusTold(w, ev, rt)
  BY <1>3, <1>4 DEF FocusTold
<1>6. FocusSent(v, ev) => FocusSent(w, ev)
  <2> SUFFICES ASSUME FocusSent(v, ev) PROVE FocusSent(w, ev)
    OBVIOUS
  <2>1. PICK k \in DOMAIN v.sent :
          /\ LastFocus(v, k) /\ v.sent[k].type = "focus" /\ v.sent[k].what.id = v.pendingFocus
          /\ \A j \in DOMAIN v.sent : v.sent[j].what.id = v.pendingFocus => j = k
    BY DEF FocusSent
  <2>2. \A j \in DOMAIN w.sent : w.sent[j].what.id = v.pendingFocus => j = k
    BY <1>1, <2>1
  <2>3. /\ k \in DOMAIN w.sent /\ LastFocus(w, k) /\ w.sent[k].type = "focus"
        /\ w.sent[k].what.id = v.pendingFocus
    BY <1>1, <1>2, <2>1
  <2> QED
    BY <2>2, <2>3 DEF FocusSent
<1>7. (\E k \in DOMAIN v.sent : LastFocus(v, k) /\ v.sent[k].type = "blur")
        => \E k \in DOMAIN w.sent : LastFocus(w, k) /\ w.sent[k].type = "blur"
  BY <1>1, <1>2
<1>8. FocusKnown(v, ev, rt) => FocusKnown(w, ev, rt)
  BY <1>3, <1>5, <1>6, <1>7 DEF FocusKnown
<1>9. Alternating(v, rt) => Alternating(w, rt)
  <2> SUFFICES ASSUME Alternating(v, rt) PROVE Alternating(w, rt)
    OBVIOUS
  <2>1. \A k \in DOMAIN w.sent : w.sent[k].type \in {"focus", "blur"} =>
          k \in DOMAIN v.sent /\ v.sent[k] = w.sent[k]
    BY <1>1
  <2>2. \A k \in DOMAIN v.sent : k \in DOMAIN w.sent /\ w.sent[k] = v.sent[k]
    BY <1>1
  <2> QED
    BY <2>1, <2>2 DEF Alternating
<1> QED
  BY <1>8, <1>9

-----------------------------------------------------------------------------
(* Commands that are sent keep the line.                                    *)

FocusCommand(id)    == [type |-> "focus", what |-> [NoResize EXCEPT !.id = id]]
BlurCommand         == [type |-> "blur", what |-> NoResize]
ResizeCommand(what) == [type |-> "resize", what |-> what]

LEMMA CommandTypes ==
  /\ \A id \in Nat : FocusCommand(id) \in Command /\ FocusCommand(id).what.id = id
  /\ BlurCommand \in Command /\ BlurCommand.what.id = 0
  /\ \A what \in Resizing : ResizeCommand(what) \in Command
<1>1. NoResize \in Resizing /\ NoResize.id = 0
  BY ConstantsAssumption DEF ConstantsAssumption, Resizing, NoResize
<1>2. ASSUME NEW id \in Nat PROVE FocusCommand(id) \in Command /\ FocusCommand(id).what.id = id
  <2>1. [NoResize EXCEPT !.id = id] \in Resizing /\ [NoResize EXCEPT !.id = id].id = id
    BY <1>1 DEF Resizing
  <2> QED
    BY <2>1 DEF FocusCommand, Command
<1>3. BlurCommand \in Command /\ BlurCommand.what.id = 0
  BY <1>1 DEF BlurCommand, Command
<1>4. \A what \in Resizing : ResizeCommand(what) \in Command
  BY DEF ResizeCommand, Command
<1> QED
  BY <1>2, <1>3, <1>4

\* A focus is sent by a view without it.
LEMMA LineFocus ==
  ASSUME NEW v, IsView(v), NEW w, NEW rt, Lined(v, events, rt), NEW id, Fresh(v, id),
         ~v.claimed, v.pendingFocus = 0,
         w.sent = Append(v.sent, FocusCommand(id)), w.claimed = v.claimed,
         w.pendingFocus = id, w.pendingResize = v.pendingResize
  PROVE  Lined(w, events, rt)
<1> DEFINE c == FocusCommand(id)
<1>1. id \in Nat \ {0} /\ id # v.pendingResize.id /\ ~Sends(v, id) /\ ~Tells(events, id)
  BY DEF Fresh
<1>2. c \in Command /\ c.type = "focus" /\ c.what.id = id
  BY <1>1, CommandTypes DEF FocusCommand
<1> HIDE DEF c
<1>3. v.sent \in Seq(Command) /\ w.sent = Append(v.sent, c)
  BY DEF IsView, OutsideTyped, c
<1>4. PICK n \in Nat : /\ DOMAIN v.sent = 1 .. n /\ DOMAIN w.sent = 1 .. n + 1
                       /\ \A k \in 1 .. n : w.sent[k] = v.sent[k]
                       /\ w.sent[n + 1] = c
  <2>1. \E n \in Nat : /\ DOMAIN v.sent = 1 .. n /\ DOMAIN Append(v.sent, c) = 1 .. n + 1
                       /\ \A k \in 1 .. n : Append(v.sent, c)[k] = v.sent[k]
                       /\ Append(v.sent, c)[n + 1] = c
    BY <1>2, <1>3, Appends
  <2> QED
    BY <1>3, <2>1
<1>5. Numbered(w, events)
  BY <1>1, <1>2, <1>4 DEF Lined, Numbered
<1>6. \/ ~rt.focused /\ NoFocusSent(v)
      \/ \E k \in DOMAIN v.sent : LastFocus(v, k) /\ v.sent[k].type = "blur"
  BY DEF Lined, FocusKnown
<1>7. Alternating(w, rt)
  <2>1. CASE ~rt.focused /\ NoFocusSent(v)
    BY <1>2, <1>4, <2>1 DEF Lined, Alternating, NoFocusSent, IsFocus
  <2>2. CASE \E k \in DOMAIN v.sent : LastFocus(v, k) /\ v.sent[k].type = "blur"
    <3>1. PICK k \in DOMAIN v.sent : LastFocus(v, k) /\ v.sent[k].type = "blur"
      BY <2>2
    <3>2. \A j \in DOMAIN v.sent : v.sent[j].type = "focus" => j < k
      BY <1>4, <3>1 DEF LastFocus, IsFocus
    <3>3. \A j \in DOMAIN v.sent : j \in DOMAIN w.sent /\ w.sent[j] = v.sent[j] /\ j < n + 1
      BY <1>4
    <3>4. \A j \in DOMAIN w.sent : j \in DOMAIN v.sent \/ j = n + 1
      BY <1>4
    <3>5. ASSUME NEW i \in DOMAIN w.sent, NEW j \in DOMAIN w.sent, i < j,
                 w.sent[i].type = "focus", w.sent[j].type = "focus"
          PROVE  \E l \in DOMAIN w.sent : i < l /\ l < j /\ w.sent[l].type = "blur"
      <4>1. CASE j = n + 1
        <5>1. i \in DOMAIN v.sent /\ v.sent[i] = w.sent[i]
          BY <3>3, <3>4, <3>5, <4>1
        <5>2. i < k /\ k < j /\ k \in DOMAIN w.sent /\ w.sent[k].type = "blur"
          BY <3>1, <3>2, <3>3, <3>5, <4>1, <5>1
        <5> QED
          BY <5>2
      <4>2. CASE j \in DOMAIN v.sent
        <5>1. i \in DOMAIN v.sent /\ v.sent[i] = w.sent[i] /\ v.sent[j] = w.sent[j]
          BY <1>4, <3>3, <3>5, <4>2
        <5>2. \E l \in DOMAIN v.sent : i < l /\ l < j /\ v.sent[l].type = "blur"
          BY <3>5, <4>2, <5>1 DEF Lined, Alternating
        <5> QED
          BY <3>3, <5>2
      <4> QED
        BY <3>4, <4>1, <4>2
    <3>6. ASSUME rt.focused, NEW j \in DOMAIN w.sent, w.sent[j].type = "focus"
          PROVE  \E l \in DOMAIN w.sent : l < j /\ w.sent[l].type = "blur"
      <4>1. CASE j = n + 1
        BY <3>1, <3>3, <4>1
      <4>2. CASE j \in DOMAIN v.sent
        <5>1. \E l \in DOMAIN v.sent : l < j /\ v.sent[l].type = "blur"
          BY <3>3, <3>6, <4>2 DEF Lined, Alternating
        <5> QED
          BY <3>3, <5>1
      <4> QED
        BY <3>4, <4>1, <4>2
    <3> QED
      BY <3>5, <3>6 DEF Alternating
  <2> QED
    BY <1>6, <2>1, <2>2
<1>8. FocusKnown(w, events, rt)
  <2>1. LastFocus(w, n + 1) /\ w.sent[n + 1].type = "focus" /\ w.sent[n + 1].what.id = id
    BY <1>2, <1>4 DEF LastFocus, IsFocus
  <2>2. \A j \in DOMAIN w.sent : w.sent[j].what.id = id => j = n + 1
    BY <1>1, <1>4 DEF Sends
  <2>3. n + 1 \in DOMAIN w.sent
    BY <1>4
  <2>4. FocusSent(w, events)
    BY <1>1, <2>1, <2>2, <2>3 DEF FocusSent
  <2> QED
    BY <1>1, <2>4 DEF FocusKnown
<1>9. ResizeKnown(w, events, rt)
  BY <1>1, <1>2, <1>3, ResizesUndisturbed DEF Lined, ResizeKnown
<1> QED
  BY <1>5, <1>7, <1>8, <1>9 DEF Lined

\* A blur may be sent at any time: after it the view is without the focus.
LEMMA LineBlur ==
  ASSUME NEW v, IsView(v), NEW w, NEW ev, NEW rt, Lined(v, ev, rt),
         w.sent = Append(v.sent, BlurCommand), w.claimed = FALSE,
         w.pendingFocus = 0, w.pendingResize = v.pendingResize
  PROVE  Lined(w, ev, rt)
<1>1. PICK c : c = BlurCommand
  OBVIOUS
<1>2. c \in Command /\ c.type = "blur" /\ c.what.id = 0
  BY <1>1, CommandTypes DEF BlurCommand
<1>3. v.sent \in Seq(Command) /\ w.sent = Append(v.sent, c)
  BY <1>1 DEF IsView, OutsideTyped
<1>4. PICK n \in Nat : /\ DOMAIN v.sent = 1 .. n /\ DOMAIN w.sent = 1 .. n + 1
                       /\ \A k \in 1 .. n : w.sent[k] = v.sent[k]
                       /\ w.sent[n + 1] = c
  <2>1. \E n \in Nat : /\ DOMAIN v.sent = 1 .. n /\ DOMAIN Append(v.sent, c) = 1 .. n + 1
                       /\ \A k \in 1 .. n : Append(v.sent, c)[k] = v.sent[k]
                       /\ Append(v.sent, c)[n + 1] = c
    BY <1>2, <1>3, Appends
  <2> QED
    BY <1>3, <2>1
<1>5. Numbered(w, ev)
  BY <1>2, <1>4 DEF Lined, Numbered
<1>7. Alternating(w, rt)
  <2>1. \A k \in DOMAIN w.sent : w.sent[k].type = "focus" =>
          k \in DOMAIN v.sent /\ v.sent[k] = w.sent[k]
    BY <1>2, <1>4
  <2>2. \A k \in DOMAIN v.sent : k \in DOMAIN w.sent /\ w.sent[k] = v.sent[k]
    BY <1>4
  <2> QED
    BY <2>1, <2>2 DEF Lined, Alternating
<1>8. FocusKnown(w, ev, rt)
  <2>1. n + 1 \in DOMAIN w.sent /\ LastFocus(w, n + 1) /\ w.sent[n + 1].type = "blur"
    BY <1>2, <1>4 DEF LastFocus, IsFocus
  <2> QED
    BY <2>1 DEF FocusKnown
<1>9. ResizeKnown(w, ev, rt)
  BY <1>2, <1>3, ResizesUndisturbed DEF Lined, ResizeKnown
<1> QED
  BY <1>5, <1>7, <1>8, <1>9 DEF Lined

\* A resize is waited for from when it is sent.
LEMMA LineResize ==
  ASSUME NEW v, IsView(v), NEW w, NEW rt, Lined(v, events, rt), NEW what \in Resizing,
         Fresh(v, what.id), w.sent = Append(v.sent, ResizeCommand(what)),
         w.claimed = v.claimed, w.pendingFocus = v.pendingFocus, w.pendingResize = what
  PROVE  Lined(w, events, rt) /\ ResizeSent(w, events)
<1> DEFINE c == ResizeCommand(what)
           id == what.id
<1>1. id \in Nat \ {0} /\ id # v.pendingFocus /\ ~Sends(v, id) /\ ~Tells(events, id)
  BY DEF Fresh
<1>2. c \in Command /\ c.type = "resize" /\ c.what = what
  BY CommandTypes DEF ResizeCommand
<1> HIDE DEF c
<1>3. v.sent \in Seq(Command) /\ w.sent = Append(v.sent, c)
  BY DEF IsView, OutsideTyped, c
<1>4. PICK n \in Nat : /\ DOMAIN v.sent = 1 .. n /\ DOMAIN w.sent = 1 .. n + 1
                       /\ \A k \in 1 .. n : w.sent[k] = v.sent[k]
                       /\ w.sent[n + 1] = c
  <2>1. \E n \in Nat : /\ DOMAIN v.sent = 1 .. n /\ DOMAIN Append(v.sent, c) = 1 .. n + 1
                       /\ \A k \in 1 .. n : Append(v.sent, c)[k] = v.sent[k]
                       /\ Append(v.sent, c)[n + 1] = c
    BY <1>2, <1>3, Appends
  <2> QED
    BY <1>3, <2>1
<1>5. Numbered(w, events)
  BY <1>1, <1>2, <1>4 DEF Lined, Numbered
<1>6. Alternating(w, rt) /\ FocusKnown(w, events, rt)
  BY <1>1, <1>2, <1>3, FocusUndisturbed DEF Lined
<1>7. ResizeSent(w, events)
  <2>1. n + 1 \in DOMAIN w.sent /\ LastResize(w, n + 1) /\ w.sent[n + 1].what = what
    BY <1>2, <1>4 DEF LastResize
  <2>2. \A j \in DOMAIN w.sent : w.sent[j].what.id = id => j = n + 1
    BY <1>1, <1>4 DEF Sends
  <2> QED
    BY <1>1, <2>1, <2>2 DEF ResizeSent
<1>8. ResizeKnown(w, events, rt)
  BY <1>1, <1>7 DEF ResizeKnown
<1> QED
  BY <1>5, <1>6, <1>7, <1>8 DEF Lined

-----------------------------------------------------------------------------
(* Focus.                                                                   *)

\* A view that is not attached waits for nothing.
Apart(v) ==
  ~v.attached => /\ ~v.claimed /\ v.pendingFocus = 0 /\ v.focusRetry = "none"
                 /\ v.sent = <<>> /\ v.pendingResize = NoResize
                 /\ ~v.resizeQueued /\ ~v.resizeRetry

\* What every handler keeps, wherever it is called from.
Kept(v) == IsView(v) /\ Timed(v) /\ Lined(v, events, runtime) /\ Apart(v)

\* The focus is claimed where it is wanted and may be had, unless a retry is coming or
\* the runtime said no.
Wanted(v) ==
  /\ ~InteractionAvailable(v) => ~v.desired
  /\ v.focusRetry = "focus" => v.desired /\ v.control /\ v.attached /\ InteractionAvailable(v)
  /\ v.attached /\ v.focusRetry = "none" /\ ~v.focusRefused =>
       (v.claimed \/ v.pendingFocus # 0 <=> v.desired /\ v.control /\ InteractionAvailable(v))

\* Where sending the focus, or the blur, leaves it so.
FocusDue(v) ==
  /\ v.desired /\ InteractionAvailable(v)
  /\ v.focusRetry = "focus" => v.control /\ v.attached
  /\ v.attached /\ v.focusRetry = "none" /\ ~v.focusRefused =>
       (v.claimed \/ v.pendingFocus # 0 => v.control)
BlurDue(v) == ~InteractionAvailable(v) => ~v.desired

\* Commands about the focus leave those about the size alone.
ResizesKept(v, w) ==
  /\ NoResizeSent(v) => NoResizeSent(w)
  /\ \A size : SentSize(v, size) => SentSize(w, size)
  /\ v.pendingResize # NoResize =>
       \A applied : ResizeTold(v, events, runtime, applied)
                      => ResizeTold(w, events, runtime, applied)

LEMMA ResizesKeptSame ==
  ASSUME NEW v, NEW w, w.sent = v.sent, w.pendingResize = v.pendingResize
  PROVE  ResizesKept(v, w)
BY DEF ResizesKept, NoResizeSent, SentSize, LastResize, ResizeTold, Sends

LEMMA ResizesKeptTwice ==
  ASSUME NEW u, NEW v, NEW w, ResizesKept(u, v), ResizesKept(v, w),
         v.pendingResize = u.pendingResize
  PROVE  ResizesKept(u, w)
BY DEF ResizesKept

\* The focus is asked for and nothing else.
Asking(v, id) ==
  Sent([v EXCEPT !.pendingFocus = id, !.focusRetry = "none", !.focusRefused = FALSE],
       "focus", [NoResize EXCEPT !.id = id])

LEMMA FocusAsked ==
  ASSUME NEW v, Kept(v), events \in Seq(Posted), v.attached, ~v.claimed, v.pendingFocus = 0,
         NEW id, id = FreshId(v), NEW w, w = Asking(v, id)
  PROVE  /\ Kept(w) /\ SameItem(v, w) /\ SameResize(v, w) /\ SameInput(v, w)
         /\ ResizesKept(v, w) /\ w.desired = v.desired
         /\ w.pendingFocus # 0 /\ w.focusRetry = "none"
<1> DEFINE u == [v EXCEPT !.pendingFocus = id, !.focusRetry = "none", !.focusRefused = FALSE]
<1>1. Fresh(v, id)
  BY FreshIds DEF Kept
<1>2. id \in Nat \ {0} /\ id # v.pendingResize.id
  BY <1>1 DEF Fresh
<1>3. /\ IsRecord(u) /\ SameItem(v, u) /\ SameResize(v, u) /\ SameInput(v, u)
      /\ SameOutside(v, u) /\ u.desired = v.desired /\ u.claimed = v.claimed
      /\ u.pendingFocus = id /\ u.focusRetry = "none" /\ u.focusRefused = FALSE
  BY DEF Kept, IsView, IsRecord, Names, SameItem, SameResize, SameInput, SameOutside
<1> HIDE DEF u
<1>4. IsView(u)
  <2>1. FocusTyped(u)
    BY <1>2, <1>3 DEF Kept, IsView, FocusTyped
  <2> QED
    BY <1>3, <2>1, SameTyped DEF IsView, Kept
<1>5. PICK c \in Command : c = FocusCommand(id) /\ c.what.id = id /\ c.type = "focus"
  BY <1>2, CommandTypes DEF FocusCommand
<1>6. /\ IsView(w) /\ SameItem(u, w) /\ SameFocus(u, w) /\ SameResize(u, w) /\ SameInput(u, w)
      /\ w.sent = Append(u.sent, c) /\ w.timers = u.timers
  <2>1. w = Sent(u, "focus", [NoResize EXCEPT !.id = id])
    BY DEF u, Asking
  <2>2. [type |-> "focus", what |-> [NoResize EXCEPT !.id = id]] = c
    BY <1>5 DEF FocusCommand
  <2> QED
    BY <1>4, <1>5, <2>1, <2>2, CommandSends
<1>7. /\ SameItem(v, w) /\ SameResize(v, w) /\ SameInput(v, w)
      /\ w.sent = Append(v.sent, c) /\ w.timers = v.timers
      /\ w.desired = v.desired /\ w.claimed = v.claimed /\ w.pendingFocus = id
      /\ w.focusRetry = "none" /\ w.focusRefused = FALSE
  <2>1. SameItem(v, w) /\ SameResize(v, w) /\ SameInput(v, w)
    BY <1>3, <1>6 DEF SameItem, SameResize, SameInput
  <2>2. /\ w.sent = Append(v.sent, c) /\ w.timers = v.timers
        /\ w.desired = v.desired /\ w.claimed = v.claimed /\ w.pendingFocus = id
        /\ w.focusRetry = "none" /\ w.focusRefused = FALSE
    BY <1>3, <1>6 DEF SameFocus, SameOutside
  <2> QED
    BY <2>1, <2>2
<1>8. Lined(w, events, runtime)
  BY <1>1, <1>5, <1>7, LineFocus DEF Kept, SameResize
<1>9. Timed(w)
  <2>1. Grows(v, w, {})
    BY <1>7 DEF Grows
  <2> QED
    BY <1>7, <2>1, TimedGrows DEF Kept, SameItem, SameInput, SameResize
<1>10. Apart(w)
  BY <1>7 DEF Apart, SameItem
<1>11. ResizesKept(v, w)
  <2>1. /\ c \in Command /\ c.what.id # v.pendingResize.id /\ c.type # "resize" /\ IsView(v)
        /\ w.pendingResize = v.pendingResize
    BY <1>2, <1>5, <1>7 DEF Kept, SameResize
  <2> QED
    BY ONLY <1>7, <2>1, ResizesUndisturbed DEF ResizesKept
<1> QED
  BY <1>2, <1>6, <1>7, <1>8, <1>9, <1>10, <1>11 DEF Kept

\* A refused command about the focus leaves a retry, or a refusal.
LEMMA FocusFails ==
  ASSUME NEW v, Kept(v), v.attached, NEW operation \in {"focus", "blur"},
         NEW refusal \in Refusals(v), NEW w, w = FocusFailed(v, operation, refusal)
  PROVE  /\ Kept(w) /\ SameItem(v, w) /\ SameResize(v, w) /\ SameInput(v, w)
         /\ ResizesKept(v, w)
         /\ w.desired = v.desired /\ w.claimed = v.claimed /\ w.pendingFocus = v.pendingFocus
         /\ w.focusRetry = operation \/ (w.focusRetry = "none" /\ w.focusRefused)
<1> DEFINE r == Refused(v)
<1>1. /\ IsView(r) /\ IsRecord(r) /\ SameItem(v, r) /\ SameFocus(v, r) /\ SameResize(v, r) /\ SameInput(v, r)
      /\ r.sent = v.sent /\ r.timers = v.timers
  BY RefusalCounts DEF Kept, IsView
<1> HIDE DEF r
<1>2. /\ IsView(w) /\ SameItem(r, w) /\ SameResize(r, w) /\ SameInput(r, w)
      /\ w.desired = r.desired /\ w.claimed = r.claimed /\ w.pendingFocus = r.pendingFocus
      /\ w.sent = r.sent /\ Grows(r, w, {"focusRetry"})
      /\ \/ w.focusRetry = operation /\ (r.focusRetry = operation \/ Comes(w, "focusRetry"))
         \/ w.focusRetry = "none" /\ w.focusRefused
  <2>1. CASE refusal = "busy" /\ r.focusRetry = operation
    <3>1. w = r
      BY <2>1 DEF FocusFailed, FocusRetried, r
    <3> QED
      BY <1>1, <2>1, <3>1 DEF SameItem, SameResize, SameInput, Grows
  <2>2. CASE refusal = "busy" /\ r.focusRetry # operation
    <3> DEFINE u == [r EXCEPT !.focusRetry = operation]
    <3>1. w = Started(u, "focusRetry") /\ "focusRetry" \in Kinds
      BY <2>2 DEF Kinds, FocusFailed, FocusRetried, r
    <3>2. /\ IsRecord(u) /\ SameItem(r, u) /\ SameResize(r, u) /\ SameInput(r, u)
          /\ SameOutside(r, u) /\ u.desired = r.desired /\ u.claimed = r.claimed
          /\ u.pendingFocus = r.pendingFocus /\ u.focusRetry = operation
          /\ u.focusRefused = r.focusRefused
      BY <1>1 DEF IsRecord, Names, SameItem, SameResize, SameInput, SameOutside
    <3> HIDE DEF u
    <3>3. FocusTyped(u)
      BY <1>1, <3>2 DEF IsView, FocusTyped
    <3>4. IsView(u)
      BY <1>1, <3>2, <3>3, SameTyped DEF IsView
    <3>5. /\ IsView(w) /\ SameItem(u, w) /\ SameFocus(u, w) /\ SameResize(u, w)
          /\ SameInput(u, w) /\ w.sent = u.sent /\ Grows(u, w, {"focusRetry"})
          /\ \E t \in DOMAIN w.timers : t.does = "focusRetry" /\ t.epoch = u.epoch
      BY <3>1, <3>4, TimerStarts
    <3>6. Grows(r, w, {"focusRetry"})
      BY <3>2, <3>5 DEF Grows, SameOutside, SameItem, SameInput
    <3>7. Comes(w, "focusRetry")
      BY <3>5 DEF Comes, Heard, SameItem
    <3> QED
      BY <3>2, <3>5, <3>6, <3>7 DEF SameItem, SameFocus, SameResize, SameInput, SameOutside
  <2>3. CASE refusal # "busy"
    <3> DEFINE u == [r EXCEPT !.focusRetry = "none", !.focusRefused = TRUE]
    <3>1. w = u
      BY <2>3 DEF FocusFailed, r
    <3>a. /\ IsRecord(u) /\ SameItem(r, u) /\ SameResize(r, u) /\ SameInput(r, u)
          /\ SameOutside(r, u) /\ u.desired = r.desired /\ u.claimed = r.claimed
          /\ u.pendingFocus = r.pendingFocus /\ u.focusRetry = "none" /\ u.focusRefused = TRUE
      BY <1>1 DEF IsRecord, Names, SameItem, SameResize, SameInput, SameOutside
    <3> HIDE DEF u
    <3>2. /\ IsRecord(w) /\ SameItem(r, w) /\ SameResize(r, w) /\ SameInput(r, w)
          /\ SameOutside(r, w) /\ w.desired = r.desired /\ w.claimed = r.claimed
          /\ w.pendingFocus = r.pendingFocus /\ w.focusRetry = "none" /\ w.focusRefused = TRUE
      BY <3>1, <3>a
    <3>3. FocusTyped(w)
      BY <1>1, <3>2 DEF IsView, FocusTyped
    <3>4. IsView(w)
      BY <1>1, <3>2, <3>3, SameTyped DEF IsView
    <3> QED
      BY <3>2, <3>4 DEF Grows, SameOutside
  <2> QED
    BY <2>1, <2>2, <2>3
<1>3. /\ SameItem(v, w) /\ SameResize(v, w) /\ SameInput(v, w) /\ w.sent = v.sent
      /\ w.desired = v.desired /\ w.claimed = v.claimed /\ w.pendingFocus = v.pendingFocus
  BY <1>1, <1>2 DEF SameItem, SameFocus, SameResize, SameInput
<1>4. Grows(v, w, {"focusRetry"})
  BY <1>1, <1>2 DEF Grows, SameItem, SameInput
<1>5. Timed(w)
  BY <1>1, <1>2, <1>3, <1>4, TimedGrows DEF Kept, SameItem, SameInput, SameResize, SameFocus
<1>6. Lined(w, events, runtime)
  BY <1>3, LineSame DEF Kept, SameResize
<1>7. Apart(w)
  BY <1>3 DEF Apart, SameItem
<1>8. ResizesKept(v, w)
  BY <1>3, ResizesKeptSame DEF SameResize
<1> QED
  BY <1>2, <1>3, <1>5, <1>6, <1>7, <1>8 DEF Kept

\* What dispatchFocus may do to a view.
FocusOnly(v, w) == SameItem(v, w) /\ SameResize(v, w) /\ SameInput(v, w) /\ ResizesKept(v, w)

LEMMA FocusOnlySame ==
  ASSUME NEW v
  PROVE  FocusOnly(v, v)
BY ResizesKeptSame DEF FocusOnly, SameItem, SameResize, SameInput

LEMMA FocusOnlyTwice ==
  ASSUME NEW u, NEW v, NEW w, FocusOnly(u, v), FocusOnly(v, w)
  PROVE  FocusOnly(u, w)
<1>1. SameItem(u, w)
  BY DEF FocusOnly, SameItem
<1>2. SameResize(u, w)
  BY DEF FocusOnly, SameResize
<1>3. SameInput(u, w)
  BY DEF FocusOnly, SameInput
<1>4. v.pendingResize = u.pendingResize
  BY DEF FocusOnly, SameResize
<1> QED
  BY <1>1, <1>2, <1>3, <1>4, ResizesKeptTwice DEF FocusOnly

\* Asking for the focus where it is due leaves it claimed, or being claimed, or
\* refused.
LEMMA FocusDispatched ==
  ASSUME NEW v, Kept(v), events \in Seq(Posted), NEW w, w \in DispatchFocus(v)
  PROVE  /\ Kept(w) /\ FocusOnly(v, w) /\ w.desired = v.desired
         /\ FocusDue(v) => Wanted(w)
<1>1. CASE \/ ~v.control \/ ~InteractionAvailable(v) \/ ~v.attached
           \/ v.claimed \/ v.pendingFocus # 0
  <2>1. w = v
    BY <1>1 DEF DispatchFocus
  <2>2. FocusDue(v) => Wanted(v)
    BY <1>1 DEF FocusDue, Wanted
  <2> QED
    BY <2>1, <2>2, FocusOnlySame
<1>2. CASE /\ v.control /\ InteractionAvailable(v) /\ v.attached
           /\ ~v.claimed /\ v.pendingFocus = 0
  <2>1. PICK id : id = FreshId(v)
    OBVIOUS
  <2>2. \/ w = Asking(v, id)
        \/ \E refusal \in Refusals(v) : w = FocusFailed(v, "focus", refusal)
    BY <1>2, <2>1 DEF DispatchFocus, Asking
  <2>3. CASE w = Asking(v, id)
    <3>1. /\ Kept(w) /\ SameItem(v, w) /\ SameResize(v, w) /\ SameInput(v, w)
          /\ ResizesKept(v, w) /\ w.desired = v.desired
          /\ w.pendingFocus # 0 /\ w.focusRetry = "none"
      BY <1>2, <2>1, <2>3, FocusAsked
    <3>2. FocusDue(v) => Wanted(w)
      BY <1>2, <3>1 DEF FocusDue, Wanted, SameItem, InteractionAvailable
    <3> QED
      BY <3>1, <3>2 DEF FocusOnly
  <2>4. CASE \E refusal \in Refusals(v) : w = FocusFailed(v, "focus", refusal)
    <3>1. /\ Kept(w) /\ SameItem(v, w) /\ SameResize(v, w) /\ SameInput(v, w)
          /\ ResizesKept(v, w)
          /\ w.desired = v.desired /\ w.claimed = v.claimed /\ w.pendingFocus = v.pendingFocus
          /\ w.focusRetry = "focus" \/ (w.focusRetry = "none" /\ w.focusRefused)
      BY <1>2, <2>4, FocusFails
    <3>2. FocusDue(v) => Wanted(w)
      BY <1>2, <3>1 DEF FocusDue, Wanted, SameItem, InteractionAvailable
    <3> QED
      BY <3>1, <3>2 DEF FocusOnly
  <2> QED
    BY <2>2, <2>3, <2>4
<1> QED
  BY <1>1, <1>2

\* The blur is sent and nothing else.
Releasing(v) ==
  Sent([v EXCEPT !.claimed = FALSE, !.pendingFocus = 0,
                 !.focusRetry = "none", !.focusRefused = FALSE],
       "blur", NoResize)

LEMMA BlurSaid ==
  ASSUME NEW v, Kept(v), v.attached, NEW w, w = Releasing(v)
  PROVE  /\ Kept(w) /\ FocusOnly(v, w) /\ w.desired = v.desired
         /\ ~w.claimed /\ w.pendingFocus = 0 /\ w.focusRetry = "none"
<1> DEFINE u == [v EXCEPT !.claimed = FALSE, !.pendingFocus = 0,
                          !.focusRetry = "none", !.focusRefused = FALSE]
<1>1. /\ IsRecord(u) /\ SameItem(v, u) /\ SameResize(v, u) /\ SameInput(v, u)
      /\ SameOutside(v, u) /\ u.desired = v.desired /\ u.claimed = FALSE
      /\ u.pendingFocus = 0 /\ u.focusRetry = "none" /\ u.focusRefused = FALSE
      /\ u.claimed \in BOOLEAN /\ u.focusRefused \in BOOLEAN
  <2>1. IsRecord(v)
    BY DEF Kept, IsView
  <2> QED
    BY <2>1 DEF IsRecord, Names, SameItem, SameResize, SameInput, SameOutside
<1>2. w = Sent(u, "blur", NoResize)
  BY DEF Releasing
<1> HIDE DEF u
<1>3. IsView(u)
  <2>1. v.desired \in BOOLEAN
    BY DEF Kept, IsView, FocusTyped
  <2>2. FocusTyped(u)
    BY <1>1, <2>1 DEF FocusTyped
  <2> QED
    BY <1>1, <2>2, SameTyped DEF IsView, Kept
<1>4. PICK c \in Command : c = BlurCommand /\ c.what.id = 0 /\ c.type = "blur"
  BY CommandTypes DEF BlurCommand
<1>5. /\ IsView(w) /\ SameItem(u, w) /\ SameFocus(u, w) /\ SameResize(u, w) /\ SameInput(u, w)
      /\ w.sent = Append(u.sent, c) /\ w.timers = u.timers
  <2>1. [type |-> "blur", what |-> NoResize] = c
    BY <1>4 DEF BlurCommand
  <2> QED
    BY <1>2, <1>3, <1>4, <2>1, CommandSends
<1>6. SameItem(v, w) /\ SameResize(v, w) /\ SameInput(v, w)
  <2>1. SameItem(v, w)
    BY <1>1, <1>5 DEF SameItem
  <2>2. SameResize(v, w)
    BY <1>1, <1>5 DEF SameResize
  <2>3. SameInput(v, w)
    BY <1>1, <1>5 DEF SameInput
  <2> QED
    BY <2>1, <2>2, <2>3
<1>7. /\ w.sent = Append(v.sent, c) /\ w.timers = v.timers
      /\ w.desired = v.desired /\ w.claimed = FALSE /\ w.pendingFocus = 0
      /\ w.focusRetry = "none" /\ w.focusRefused = FALSE
  BY <1>1, <1>5 DEF SameFocus, SameOutside
<1>8. Lined(w, events, runtime)
  <2>1. /\ IsView(v) /\ Lined(v, events, runtime) /\ w.pendingResize = v.pendingResize
        /\ w.sent = Append(v.sent, BlurCommand) /\ w.claimed = FALSE /\ w.pendingFocus = 0
    BY <1>4, <1>6, <1>7 DEF Kept, SameResize
  <2> QED
    BY ONLY <2>1, LineBlur
<1>9. Timed(w)
  <2>1. Grows(v, w, {})
    BY <1>7 DEF Grows
  <2> QED
    BY <1>6, <1>7, <2>1, TimedGrows DEF Kept, SameItem, SameInput, SameResize
<1>10. Apart(w)
  BY <1>6 DEF Apart, SameItem
<1>11. ResizesKept(v, w)
  <2>1. /\ c \in Command /\ c.type # "resize" /\ IsView(v)
        /\ w.pendingResize = v.pendingResize /\ w.sent = Append(v.sent, c)
    BY <1>4, <1>6, <1>7 DEF Kept, SameResize
  <2>2. v.pendingResize # NoResize => c.what.id # v.pendingResize.id
    BY <1>4 DEF Kept, Lined, ResizeKnown
  <2> QED
    BY ONLY <2>1, <2>2, ResizesUndisturbed DEF ResizesKept
<1> QED
  BY <1>5, <1>6, <1>7, <1>8, <1>9, <1>10, <1>11 DEF Kept, FocusOnly

\* So does giving it up.
LEMMA BlurDispatched ==
  ASSUME NEW v, Kept(v), events \in Seq(Posted), NEW w, w \in DispatchBlur(v)
  PROVE  /\ Kept(w) /\ FocusOnly(v, w) /\ w.desired = v.desired
         /\ BlurDue(v) => Wanted(w)
<1>1. CASE ~v.attached
  <2>1. w = v
    BY <1>1 DEF DispatchBlur
  <2>2. BlurDue(v) => Wanted(v)
    BY <1>1 DEF BlurDue, Wanted, Kept, Apart
  <2> QED
    BY <2>1, <2>2, FocusOnlySame
<1>2. CASE v.attached
  <2>1. PICK u : u = Releasing(v)
    OBVIOUS
  <2>2. \/ v.desired /\ v.control /\ w \in DispatchFocus(u)
        \/ ~(v.desired /\ v.control) /\ w = u
        \/ \E refusal \in Refusals(v) : w = FocusFailed(v, "blur", refusal)
    BY <1>2, <2>1 DEF DispatchBlur, Releasing
  <2>3. /\ Kept(u) /\ FocusOnly(v, u) /\ u.desired = v.desired
        /\ ~u.claimed /\ u.pendingFocus = 0 /\ u.focusRetry = "none"
    BY <1>2, <2>1, BlurSaid
  <2>4. CASE v.desired /\ v.control /\ w \in DispatchFocus(u)
    <3>1. Kept(w) /\ FocusOnly(u, w) /\ w.desired = u.desired /\ (FocusDue(u) => Wanted(w))
      BY <2>3, <2>4, FocusDispatched
    <3>2. BlurDue(v) => FocusDue(u)
      BY <2>3, <2>4 DEF BlurDue, FocusDue, FocusOnly, SameItem, InteractionAvailable
    <3> QED
      BY <2>3, <3>1, <3>2, FocusOnlyTwice
  <2>5. CASE ~(v.desired /\ v.control) /\ w = u
    <3>1. BlurDue(v) => Wanted(u)
      BY <2>3, <2>5 DEF BlurDue, Wanted, FocusOnly, SameItem, InteractionAvailable
    <3> QED
      BY <2>3, <2>5, <3>1
  <2>6. CASE \E refusal \in Refusals(v) : w = FocusFailed(v, "blur", refusal)
    <3>1. /\ Kept(w) /\ SameItem(v, w) /\ SameResize(v, w) /\ SameInput(v, w)
          /\ ResizesKept(v, w)
          /\ w.desired = v.desired /\ w.claimed = v.claimed /\ w.pendingFocus = v.pendingFocus
          /\ w.focusRetry = "blur" \/ (w.focusRetry = "none" /\ w.focusRefused)
      BY <1>2, <2>6, FocusFails
    <3>2. BlurDue(v) => Wanted(w)
      BY <3>1 DEF BlurDue, Wanted, SameItem, InteractionAvailable
    <3> QED
      BY <3>1, <3>2 DEF FocusOnly
  <2> QED
    BY <2>2, <2>4, <2>5, <2>6
<1> QED
  BY <1>1, <1>2

-----------------------------------------------------------------------------
(* Fields that are set, and inputs that are cleared.                        *)

\* The queue continues what was taken, is of this attachment and generation, and waits
\* only where it may be sent.
Queued(v) ==
  /\ ~v.stray
  /\ v.typed = v.taken + Len(v.queue)
  /\ \A i \in DOMAIN v.queue :
       v.queue[i] = [n |-> v.taken + i, epoch |-> v.epoch, generation |-> v.inputGeneration]
  /\ v.queue # <<>> => v.inputRetry /\ v.control /\ v.attached /\ InteractionAvailable(v)

\* What timers and line hang on.
SameLine(v, w) ==
  /\ w.timers = v.timers /\ w.sent = v.sent /\ w.epoch = v.epoch /\ w.attached = v.attached
  /\ w.focusRetry = v.focusRetry /\ w.resizeQueued = v.resizeQueued
  /\ w.resizeRetry = v.resizeRetry
  /\ w.inputRetry = v.inputRetry /\ w.inputGeneration = v.inputGeneration
  /\ w.claimed = v.claimed /\ w.pendingFocus = v.pendingFocus
  /\ w.pendingResize = v.pendingResize

LEMMA SameLineKeeps ==
  ASSUME NEW v, Kept(v), NEW w, IsView(w), SameLine(v, w)
  PROVE  Kept(w) /\ ResizesKept(v, w)
<1>1. Grows(v, w, {})
  BY DEF Grows, SameLine
<1>2. Timed(w)
  BY <1>1, TimedGrows DEF Kept, SameLine
<1>3. Lined(w, events, runtime)
  BY LineSame DEF Kept, SameLine
<1>4. Apart(w)
  BY DEF Kept, Apart, SameLine
<1>5. ResizesKept(v, w)
  BY ResizesKeptSame DEF SameLine
<1> QED
  BY <1>2, <1>3, <1>4, <1>5 DEF Kept

LEMMA WantedSame ==
  ASSUME NEW v, NEW w, SameItem(v, w), SameFocus(v, w)
  PROVE  Wanted(v) => Wanted(w)
BY DEF Wanted, SameItem, SameFocus, InteractionAvailable

LEMMA QueuedSame ==
  ASSUME NEW v, NEW w, SameItem(v, w), SameInput(v, w)
  PROVE  Queued(v) => Queued(w)
BY DEF Queued, SameItem, SameInput, InteractionAvailable

\* clearPendingInput: the timer that was coming is not heard again.
LEMMA Clears ==
  ASSUME NEW v, Kept(v), NEW w, w = ClearPendingInput(v)
  PROVE  /\ Kept(w) /\ SameItem(v, w) /\ SameFocus(v, w) /\ SameResize(v, w)
         /\ SameOutside(v, w) /\ ResizesKept(v, w)
         /\ ~w.inputRetry /\ w.stray = v.stray
         /\ ~v.stray => Queued(w)
<1>1. IsView(v) /\ IsRecord(v) /\ InputTyped(v)
  BY DEF Kept, IsView
<1>2. /\ IsRecord(w) /\ SameItem(v, w) /\ SameFocus(v, w) /\ SameResize(v, w)
      /\ SameOutside(v, w)
  BY <1>1 DEF ClearPendingInput, IsRecord, Names, SameItem, SameFocus, SameResize, SameOutside
<1>3. /\ w.inputGeneration = v.inputGeneration + 1 /\ w.queue = <<>>
      /\ w.inputRetry = FALSE /\ w.inputRetry \in BOOLEAN
      /\ w.taken = v.typed /\ w.typed = v.typed /\ w.stray = v.stray
  BY <1>1 DEF ClearPendingInput, IsRecord, Names
<1>4. IsView(w)
  <2>1. InputTyped(w)
    BY <1>1, <1>3, ConstantsAssumption DEF InputTyped, ConstantsAssumption
  <2> QED
    BY <1>1, <1>2, <2>1, SameTyped DEF IsView
<1>5. Timed(w)
  <2>1. \A t \in DOMAIN w.timers : t.generation <= v.inputGeneration /\ t.epoch <= v.epoch
    BY <1>2 DEF Kept, Timed, SameOutside
  <2>2. \A t \in DOMAIN w.timers : t.generation \in Nat
    BY <1>4, TimerTypes
  <2>3. v.inputGeneration \in Nat
    BY <1>1, TimerTypes
  <2>4. \A t \in DOMAIN w.timers : /\ t.generation <= w.inputGeneration
                                   /\ t.generation # w.inputGeneration
    BY <1>3, <2>1, <2>2, <2>3
  <2>5. \A does : Comes(v, does) => Comes(w, does)
    BY <1>2 DEF Comes, Heard, SameItem, SameOutside
  <2> QED
    BY <1>2, <1>3, <2>1, <2>4, <2>5 DEF Kept, Timed, Current, SameItem, SameFocus, SameResize
<1>6. Lined(w, events, runtime)
  BY <1>2, LineSame DEF Kept, SameFocus, SameResize, SameOutside
<1>7. Apart(w)
  BY <1>2 DEF Kept, Apart, SameItem, SameFocus, SameResize, SameOutside
<1>8. ResizesKept(v, w)
  BY <1>2, ResizesKeptSame DEF SameResize, SameOutside
<1>9. ~v.stray => Queued(w)
  BY <1>1, <1>3 DEF Queued, InputTyped
<1> QED
  BY <1>2, <1>3, <1>4, <1>5, <1>6, <1>7, <1>8, <1>9 DEF Kept

\* The focus becomes wanted, or unwanted.
Desiring(v, desired) == [v EXCEPT !.desired = desired]

LEMMA Desires ==
  ASSUME NEW v, Kept(v), NEW desired \in BOOLEAN, NEW w, w = Desiring(v, desired)
  PROVE  /\ Kept(w) /\ FocusOnly(v, w) /\ SameLine(v, w)
         /\ (w.desired <=> desired) /\ w.focusRefused = v.focusRefused
<1>1. IsView(v) /\ IsRecord(v) /\ FocusTyped(v)
  BY DEF Kept, IsView
<1>2. /\ IsRecord(w) /\ SameItem(v, w) /\ SameResize(v, w) /\ SameInput(v, w)
      /\ SameOutside(v, w) /\ w.desired = desired /\ w.claimed = v.claimed
      /\ w.pendingFocus = v.pendingFocus /\ w.focusRetry = v.focusRetry
      /\ w.focusRefused = v.focusRefused
  BY <1>1 DEF Desiring, IsRecord, Names, SameItem, SameResize, SameInput, SameOutside
<1>3. IsView(w)
  <2>1. FocusTyped(w)
    BY <1>1, <1>2 DEF FocusTyped
  <2> QED
    BY <1>1, <1>2, <2>1, SameTyped DEF IsView
<1>4. SameLine(v, w)
  BY <1>2 DEF SameLine, SameItem, SameResize, SameInput, SameOutside
<1> QED
  BY <1>2, <1>3, <1>4, SameLineKeeps DEF FocusOnly

\* The focus may be sent where it may be had, from a view that has said nothing else.
SendDue(v) ==
  /\ InteractionAvailable(v)
  /\ v.focusRetry = "focus" => v.control /\ v.attached
  /\ v.attached /\ v.focusRetry = "none" /\ ~v.focusRefused =>
       (v.claimed \/ v.pendingFocus # 0 => v.control)

LEMMA FocusSends ==
  ASSUME NEW v, Kept(v), events \in Seq(Posted), NEW w, w \in SendFocus(v)
  PROVE  /\ Kept(w) /\ FocusOnly(v, w) /\ w.desired
         /\ SendDue(v) => Wanted(w)
<1>1. PICK u : u = Desiring(v, TRUE)
  OBVIOUS
<1>2. w \in DispatchFocus(u)
  BY <1>1 DEF SendFocus, Desiring
<1>3. /\ Kept(u) /\ FocusOnly(v, u) /\ SameLine(v, u)
      /\ u.desired /\ u.focusRefused = v.focusRefused
  BY <1>1, Desires
<1>4. Kept(w) /\ FocusOnly(u, w) /\ w.desired = u.desired /\ (FocusDue(u) => Wanted(w))
  BY <1>2, <1>3, FocusDispatched
<1>5. SendDue(v) => FocusDue(u)
  BY <1>3 DEF SendDue, FocusDue, FocusOnly, SameItem, SameLine, InteractionAvailable
<1> QED
  BY <1>3, <1>4, <1>5, FocusOnlyTwice

LEMMA BlurSends ==
  ASSUME NEW v, Kept(v), events \in Seq(Posted), NEW w, w \in SendBlur(v)
  PROVE  Kept(w) /\ FocusOnly(v, w) /\ ~w.desired /\ Wanted(w)
<1>1. PICK u : u = Desiring(v, FALSE)
  OBVIOUS
<1>2. w \in DispatchBlur(u)
  BY <1>1 DEF SendBlur, Desiring
<1>3. Kept(u) /\ FocusOnly(v, u) /\ ~u.desired
  BY <1>1, Desires
<1>4. Kept(w) /\ FocusOnly(u, w) /\ w.desired = u.desired /\ (BlurDue(u) => Wanted(w))
  BY <1>2, <1>3, BlurDispatched
<1> QED
  BY <1>3, <1>4, FocusOnlyTwice DEF BlurDue

\* synchronizeInteraction leaves the focus where it may be, and clears the inputs
\* of a view that may not interact.
SyncDue(v) ==
  /\ InteractionAvailable(v) => Wanted(v) /\ Queued(v)
  /\ v.focusRetry = "focus" => v.desired
  /\ ~v.stray

LEMMA Synchronizes ==
  ASSUME NEW v, Kept(v), events \in Seq(Posted), SyncDue(v),
         NEW w, w \in SynchronizeInteraction(v)
  PROVE  /\ Kept(w) /\ SameItem(v, w) /\ SameResize(v, w) /\ ResizesKept(v, w)
         /\ Wanted(w) /\ Queued(w)
<1>1. CASE InteractionAvailable(v)
  <2>1. \/ w = v
        \/ v.focusRetry = "blur" /\ w = Desiring(v, TRUE)
        \/ w \in SendFocus(v)
    BY <1>1 DEF SynchronizeInteraction, Desiring
  <2>2. CASE w = v
    BY <1>1, <2>2, FocusOnlySame DEF SyncDue, FocusOnly
  <2>3. CASE v.focusRetry = "blur" /\ w = Desiring(v, TRUE)
    <3>1. Kept(w) /\ FocusOnly(v, w) /\ SameLine(v, w)
      BY <2>3, Desires
    <3>2. Wanted(w)
      BY <1>1, <2>3, <3>1 DEF Wanted, FocusOnly, SameItem, SameLine, InteractionAvailable
    <3> QED
      BY <1>1, <3>1, <3>2, QueuedSame DEF FocusOnly, SyncDue
  <2>4. CASE w \in SendFocus(v)
    <3>1. SendDue(v)
      BY <1>1 DEF SyncDue, SendDue, Wanted
    <3>2. Kept(w) /\ FocusOnly(v, w) /\ Wanted(w)
      BY <2>4, <3>1, FocusSends
    <3> QED
      BY <1>1, <3>2, QueuedSame DEF FocusOnly, SyncDue
  <2> QED
    BY <2>1, <2>2, <2>3, <2>4
<1>2. CASE ~InteractionAvailable(v)
  <2>1. PICK c : c = ClearPendingInput(v)
    OBVIOUS
  <2>2. \/ w \in SendBlur(c)
        \/ ~(v.claimed \/ v.pendingFocus # 0 \/ v.desired) /\ w = c
    BY <1>2, <2>1 DEF SynchronizeInteraction
  <2>3. /\ Kept(c) /\ SameItem(v, c) /\ SameFocus(v, c) /\ SameResize(v, c)
        /\ ResizesKept(v, c) /\ Queued(c)
    BY <2>1, Clears DEF SyncDue
  <2>4. CASE w \in SendBlur(c)
    <3>1. Kept(w) /\ FocusOnly(c, w) /\ Wanted(w)
      BY <2>3, <2>4, BlurSends
    <3>2. SameItem(v, w) /\ SameResize(v, w)
      BY <2>3, <3>1 DEF FocusOnly, SameItem, SameResize
    <3>3. Queued(w)
      BY <2>3, <3>1, QueuedSame DEF FocusOnly
    <3>4. ResizesKept(v, w)
      BY <2>3, <3>1, ResizesKeptTwice DEF FocusOnly, SameResize
    <3> QED
      BY <3>1, <3>2, <3>3, <3>4
  <2>5. CASE ~(v.claimed \/ v.pendingFocus # 0 \/ v.desired) /\ w = c
    <3>1. Wanted(w)
      BY <2>3, <2>5 DEF Wanted, SyncDue, SameItem, SameFocus, InteractionAvailable
    <3> QED
      BY <2>3, <2>5, <3>1
  <2> QED
    BY <2>2, <2>4, <2>5
<1> QED
  BY <1>1, <1>2

-----------------------------------------------------------------------------
(* Size.                                                                    *)

\* The size the runtime will have.
Asked(v, rt, size) == (rt.size = size /\ NoResizeSent(v)) \/ SentSize(v, size)

\* A rejected resize is not waited for, and a claim is made or to be made.
Claims(v, rt) ==
  /\ v.resizeRefused => v.pendingResize = NoResize
  /\ v.attached /\ v.control /\ v.authority => v.claimPending \/ rt.claimed

\* Nobody is going to look at the size, and there is no reason why it should differ.
Looked(v) ==
  /\ v.attached /\ v.ready /\ v.control /\ v.shown
  /\ ~v.passedOver /\ ~v.resizeRefused /\ ~v.resizeQueued /\ ~v.resizeRetry

\* The runtime will have the size, or reject it and say so.
Agrees(v, ev, rt) ==
  /\ v.claimPending => v.pendingResize # NoResize
  /\ \/ v.pendingResize # NoResize /\ ResizeTold(v, ev, rt, FALSE)
     \/ Asked(v, rt, v.size) /\ (v.pendingResize = NoResize => NoResizeSent(v))

Sized(v, ev, rt) == Claims(v, rt) /\ (Looked(v) => Agrees(v, ev, rt))

SameSizing(v, w) ==
  /\ w.attached = v.attached /\ w.ready = v.ready /\ w.control = v.control
  /\ w.authority = v.authority /\ w.shown = v.shown /\ w.size = v.size

LEMMA SizedSame ==
  ASSUME NEW v, NEW w, SameSizing(v, w), SameResize(v, w), ResizesKept(v, w)
  PROVE  /\ Claims(v, runtime) => Claims(w, runtime)
         /\ Sized(v, events, runtime) => Sized(w, events, runtime)
<1>1. Claims(v, runtime) => Claims(w, runtime)
  BY DEF SameSizing, SameResize, Claims
<1>2. Looked(w) => Looked(v)
  BY DEF SameSizing, SameResize, Looked
<1>3. Asked(v, runtime, v.size) => Asked(w, runtime, w.size)
  BY DEF SameSizing, ResizesKept, Asked
<1>4. Agrees(v, events, runtime) => Agrees(w, events, runtime)
  BY <1>3 DEF Agrees, SameResize, ResizesKept
<1> QED
  BY <1>1, <1>2, <1>4 DEF Sized

\* scheduleResize: the size will be looked at.
LEMMA ResizeScheduled ==
  ASSUME NEW v, Kept(v), NEW w, w = ScheduleResize(v)
  PROVE  /\ Kept(w) /\ SameItem(v, w) /\ SameFocus(v, w) /\ SameInput(v, w)
         /\ ResizesKept(v, w) /\ w.pendingResize = v.pendingResize
         /\ w.resizeRefused = v.resizeRefused /\ w.claimPending = v.claimPending
         /\ Claims(v, runtime) => Sized(w, events, runtime)
<1>1. CASE v.resizeQueued \/ ~v.attached \/ ~v.ready
  <2>1. w = v
    BY <1>1 DEF ScheduleResize
  <2>2. ~Looked(v)
    BY <1>1 DEF Looked
  <2> QED
    BY <2>1, <2>2, FocusOnlySame DEF FocusOnly, SameFocus, Sized
<1>2. CASE ~v.resizeQueued /\ v.attached /\ v.ready
  <2> DEFINE u == [v EXCEPT !.resizeQueued = TRUE]
  <2>1. w = Started(u, "resize") /\ "resize" \in Kinds
    BY <1>2 DEF ScheduleResize, Kinds
  <2>2. IsView(v) /\ IsRecord(v) /\ ResizeTyped(v)
    BY DEF Kept, IsView
  <2>3. /\ IsRecord(u) /\ SameItem(v, u) /\ SameFocus(v, u) /\ SameInput(v, u)
        /\ SameOutside(v, u) /\ u.resizeQueued /\ u.resizeQueued \in BOOLEAN
        /\ u.resizeRetry = v.resizeRetry /\ u.lastSize = v.lastSize
        /\ u.pendingResize = v.pendingResize /\ u.claimPending = v.claimPending
        /\ u.resizeRefused = v.resizeRefused /\ u.passedOver = v.passedOver
    BY <2>2 DEF IsRecord, Names, SameItem, SameFocus, SameInput, SameOutside
  <2> HIDE DEF u
  <2>4. IsView(u)
    <3>1. ResizeTyped(u)
      BY <2>2, <2>3 DEF ResizeTyped
    <3> QED
      BY <2>2, <2>3, <3>1, SameTyped DEF IsView
  <2>5. /\ IsView(w) /\ SameItem(u, w) /\ SameFocus(u, w) /\ SameResize(u, w)
        /\ SameInput(u, w) /\ w.sent = u.sent /\ Grows(u, w, {"resize"})
        /\ \E t \in DOMAIN w.timers : t.does = "resize" /\ t.epoch = u.epoch
    BY <2>1, <2>4, TimerStarts
  <2>6. SameItem(v, w) /\ SameFocus(v, w) /\ SameInput(v, w)
    <3>1. SameItem(v, w)
      BY <2>3, <2>5 DEF SameItem
    <3>2. SameFocus(v, w)
      BY <2>3, <2>5 DEF SameFocus
    <3>3. SameInput(v, w)
      BY <2>3, <2>5 DEF SameInput
    <3> QED
      BY <3>1, <3>2, <3>3
  <2>7. /\ w.resizeQueued /\ w.resizeRetry = v.resizeRetry
        /\ w.pendingResize = v.pendingResize /\ w.claimPending = v.claimPending
        /\ w.resizeRefused = v.resizeRefused /\ w.sent = v.sent
    BY <2>3, <2>5 DEF SameResize, SameOutside
  <2>8. Grows(v, w, {"resize"})
    BY <2>3, <2>5 DEF Grows, SameOutside, SameItem, SameInput
  <2>9. Comes(w, "resize")
    BY <2>5 DEF Comes, Heard, SameItem
  <2>10. Timed(w)
    BY <2>2, <2>6, <2>7, <2>8, <2>9, TimedGrows DEF Kept, SameItem, SameInput, SameFocus
  <2>11. Lined(w, events, runtime)
    BY <2>6, <2>7, LineSame DEF Kept, SameFocus
  <2>12. Apart(w)
    BY <1>2, <2>6 DEF Apart, SameItem
  <2>13. ResizesKept(v, w)
    BY <2>7, ResizesKeptSame
  <2>14. Claims(v, runtime) => Sized(w, events, runtime)
    BY <2>6, <2>7 DEF Claims, Sized, Looked, SameItem
  <2> QED
    BY <2>5, <2>6, <2>7, <2>10, <2>11, <2>12, <2>13, <2>14 DEF Kept
<1> QED
  BY <1>1, <1>2

\* Fields about the size that no timer and no command hangs on.
LEMMA SizeFields ==
  ASSUME NEW v, Kept(v), NEW w, IsRecord(w), SameItem(v, w), SameFocus(v, w),
         SameInput(v, w), SameOutside(v, w), ResizeTyped(w),
         w.resizeQueued => v.resizeQueued, w.resizeRetry => v.resizeRetry,
         w.pendingResize \in {v.pendingResize, NoResize}
  PROVE  Kept(w) /\ (w.pendingResize = v.pendingResize => ResizesKept(v, w))
<1>1. IsView(w)
  BY SameTyped DEF Kept, IsView
<1>2. Grows(v, w, {})
  BY DEF Grows, SameOutside
<1>3. Timed(w)
  BY <1>2, TimedGrows DEF Kept, SameItem, SameFocus, SameInput
<1>4. Lined(w, events, runtime)
  BY LineSame DEF Kept, SameFocus, SameOutside
<1>5. Apart(w)
  BY DEF Kept, Apart, SameItem, SameFocus, SameOutside
<1>6. w.pendingResize = v.pendingResize => ResizesKept(v, w)
  BY ResizesKeptSame DEF SameOutside
<1> QED
  BY <1>1, <1>3, <1>4, <1>5, <1>6 DEF Kept

\* A set of positions has a last one.
LEMMA Greatest ==
  ASSUME NEW n \in Nat, NEW S \in SUBSET (1 .. n), S # {}
  PROVE  Max(S) \in S /\ \A k \in S : k <= Max(S)
<1> DEFINE T == {m \in Nat : \A k \in S : k <= m}
<1>1. T \in SUBSET Nat /\ n \in T
  OBVIOUS
<1>2. PICK m \in T : \A k \in T : ~(k < m)
  <2>1. IsWellFoundedOn(OpToRel(<, Nat), Nat)
    BY NatLessThanWellFounded
  <2>2. PICK x \in T : \A y \in T : ~(<<y, x>> \in OpToRel(<, Nat))
    BY <1>1, <2>1, WFMin
  <2> QED
    BY <2>2 DEF OpToRel
<1>3. m \in S
  <2> SUFFICES ASSUME m \notin S PROVE FALSE
    OBVIOUS
  <2>1. \A k \in S : k <= m - 1
    OBVIOUS
  <2>2. m - 1 \in Nat
    <3>1. PICK k \in S : TRUE
      OBVIOUS
    <3>2. k \in Nat /\ 1 <= k /\ k <= m /\ m \in Nat
      OBVIOUS
    <3> QED
      BY <3>2
  <2>3. m - 1 \in T
    BY <2>1, <2>2
  <2> QED
    BY <1>2, <2>3
<1>4. \A k \in S : k <= m /\ m >= k
  OBVIOUS
<1> HIDE DEF T
<1> QED
  BY <1>3, <1>4 DEF Max

\* AskedSize is what the runtime will have.
LEMMA AskedIs ==
  ASSUME NEW v, IsView(v)
  PROVE  /\ Resizes(v) = {} <=> NoResizeSent(v)
         /\ Asked(v, runtime, AskedSize(v))
<1>1. PICK n \in Nat : DOMAIN v.sent = 1 .. n
  BY DEF IsView, OutsideTyped
<1>2. Resizes(v) = {} <=> NoResizeSent(v)
  BY DEF Resizes, NoResizeSent
<1>3. CASE Resizes(v) = {}
  BY <1>2, <1>3 DEF Asked, AskedSize
<1>4. CASE Resizes(v) # {}
  <2>1. PICK k : k = Max(Resizes(v))
    OBVIOUS
  <2>2. k \in Resizes(v) /\ \A j \in Resizes(v) : j <= k
    <3>1. Resizes(v) \in SUBSET (1 .. n)
      BY <1>1 DEF Resizes
    <3> QED
      BY <1>4, <2>1, <3>1, Greatest
  <2>3. k \in DOMAIN v.sent /\ LastResize(v, k)
    BY <1>1, <2>2 DEF LastResize, Resizes
  <2>4. AskedSize(v) = v.sent[k].what.size
    BY <1>4, <2>1 DEF AskedSize
  <2> QED
    BY <1>2, <2>3, <2>4 DEF Asked, SentSize
<1> QED
  BY <1>2, <1>3, <1>4

\* A resize that fails is tried again, or was refused.
LEMMA ResizeFails ==
  ASSUME NEW v, Kept(v), v.attached, Claims(v, runtime), NEW refusal \in Refusals(v),
         NEW w, w = ResizeFailed(v, refusal)
  PROVE  /\ Kept(w) /\ SameItem(v, w) /\ SameFocus(v, w) /\ SameInput(v, w)
         /\ Sized(w, events, runtime)
<1> DEFINE r == Refused(v)
           i == [r EXCEPT !.pendingResize = NoResize]
<1>1. /\ IsView(r) /\ IsRecord(r) /\ SameItem(v, r) /\ SameFocus(v, r) /\ SameResize(v, r)
      /\ SameInput(v, r) /\ r.sent = v.sent /\ r.timers = v.timers
  BY RefusalCounts DEF Kept, IsView
<1>2. SameLine(v, r)
  BY <1>1 DEF SameLine, SameItem, SameFocus, SameResize, SameInput
<1>3. Kept(r)
  BY <1>1, <1>2, SameLineKeeps
<1> HIDE DEF r
<1>4. /\ IsRecord(i) /\ SameItem(r, i) /\ SameFocus(r, i) /\ SameInput(r, i)
      /\ SameOutside(r, i) /\ i.resizeQueued = r.resizeQueued
      /\ i.resizeRetry = r.resizeRetry /\ i.lastSize = r.lastSize
      /\ i.pendingResize = NoResize /\ i.claimPending = r.claimPending
      /\ i.resizeRefused = r.resizeRefused /\ i.passedOver = r.passedOver
  BY <1>1 DEF IsRecord, Names, SameItem, SameFocus, SameInput, SameOutside
<1>5. NoResize \in Resizing
  BY ConstantsAssumption DEF ConstantsAssumption, NoResize, Resizing
<1> HIDE DEF i
<1>6. ResizeTyped(i)
  BY <1>1, <1>4, <1>5 DEF IsView, ResizeTyped
<1>7. Kept(i)
  BY <1>3, <1>4, <1>6, SizeFields
<1>8. /\ SameItem(v, i) /\ SameFocus(v, i) /\ SameInput(v, i)
  <2>1. SameItem(v, i)
    BY <1>1, <1>4 DEF SameItem
  <2>2. SameFocus(v, i)
    BY <1>1, <1>4 DEF SameFocus
  <2>3. SameInput(v, i)
    BY <1>1, <1>4 DEF SameInput
  <2> QED
    BY <2>1, <2>2, <2>3
<1>9. Claims(i, runtime)
  BY <1>1, <1>4, <1>8 DEF Claims, SameItem, SameResize
<1>10. \/ refusal = "busy" /\ i.resizeRetry /\ w = i
       \/ refusal = "busy" /\ ~i.resizeRetry
            /\ w = Started([i EXCEPT !.resizeRetry = TRUE], "resizeRetry")
       \/ w = [i EXCEPT !.resizeRefused = TRUE]
  BY DEF ResizeFailed, ScheduleResizeRetry, i, r
<1>11. CASE i.resizeRetry /\ w = i
  BY <1>7, <1>8, <1>9, <1>11 DEF Sized, Looked
<1>12. CASE w = Started([i EXCEPT !.resizeRetry = TRUE], "resizeRetry")
  <2> DEFINE u == [i EXCEPT !.resizeRetry = TRUE]
  <2>1. w = Started(u, "resizeRetry") /\ "resizeRetry" \in Kinds
    BY <1>12 DEF Kinds
  <2>2. /\ IsRecord(u) /\ SameItem(i, u) /\ SameFocus(i, u) /\ SameInput(i, u)
        /\ SameOutside(i, u) /\ u.resizeRetry /\ u.resizeRetry \in BOOLEAN
        /\ u.resizeQueued = i.resizeQueued /\ u.lastSize = i.lastSize
        /\ u.pendingResize = i.pendingResize /\ u.claimPending = i.claimPending
        /\ u.resizeRefused = i.resizeRefused /\ u.passedOver = i.passedOver
    BY <1>4 DEF IsRecord, Names, SameItem, SameFocus, SameInput, SameOutside
  <2> HIDE DEF u
  <2>3. IsView(u)
    <3>1. ResizeTyped(u)
      BY <1>6, <2>2 DEF ResizeTyped
    <3> QED
      BY <1>7, <2>2, <3>1, SameTyped DEF IsView, Kept
  <2>4. /\ IsView(w) /\ SameItem(u, w) /\ SameFocus(u, w) /\ SameResize(u, w)
        /\ SameInput(u, w) /\ w.sent = u.sent /\ Grows(u, w, {"resizeRetry"})
        /\ \E t \in DOMAIN w.timers : t.does = "resizeRetry" /\ t.epoch = u.epoch
    BY <2>1, <2>3, TimerStarts
  <2>5. SameItem(i, w) /\ SameFocus(i, w) /\ SameInput(i, w)
    <3>1. SameItem(i, w)
      BY <2>2, <2>4 DEF SameItem
    <3>2. SameFocus(i, w)
      BY <2>2, <2>4 DEF SameFocus
    <3>3. SameInput(i, w)
      BY <2>2, <2>4 DEF SameInput
    <3> QED
      BY <3>1, <3>2, <3>3
  <2>6. /\ w.resizeRetry /\ w.resizeQueued = i.resizeQueued
        /\ w.pendingResize = i.pendingResize /\ w.claimPending = i.claimPending
        /\ w.resizeRefused = i.resizeRefused /\ w.sent = i.sent
    BY <2>2, <2>4 DEF SameResize, SameOutside
  <2>7. Grows(i, w, {"resizeRetry"})
    BY <2>2, <2>4 DEF Grows, SameOutside, SameItem, SameInput
  <2>8. Comes(w, "resizeRetry")
    BY <2>4 DEF Comes, Heard, SameItem
  <2>9. Timed(w)
    BY <1>7, <2>5, <2>6, <2>7, <2>8, TimedGrows DEF Kept, SameItem, SameInput, SameFocus
  <2>10. Lined(w, events, runtime)
    BY <1>7, <2>5, <2>6, LineSame DEF Kept, SameFocus
  <2>11. Apart(w)
    BY <1>8, <2>5 DEF Apart, SameItem
  <2>12. Sized(w, events, runtime)
    BY <1>9, <2>5, <2>6 DEF Claims, Sized, Looked, SameItem
  <2>13. SameItem(v, w) /\ SameFocus(v, w) /\ SameInput(v, w)
    <3>1. SameItem(v, w)
      BY <1>8, <2>5 DEF SameItem
    <3>2. SameFocus(v, w)
      BY <1>8, <2>5 DEF SameFocus
    <3>3. SameInput(v, w)
      BY <1>8, <2>5 DEF SameInput
    <3> QED
      BY <3>1, <3>2, <3>3
  <2> QED
    BY <2>4, <2>9, <2>10, <2>11, <2>12, <2>13 DEF Kept
<1>13. CASE w = [i EXCEPT !.resizeRefused = TRUE]
  <2>1. /\ IsRecord(w) /\ SameItem(i, w) /\ SameFocus(i, w) /\ SameInput(i, w)
        /\ SameOutside(i, w) /\ w.resizeRefused /\ w.resizeRefused \in BOOLEAN
        /\ w.resizeQueued = i.resizeQueued /\ w.resizeRetry = i.resizeRetry
        /\ w.lastSize = i.lastSize /\ w.passedOver = i.passedOver
        /\ w.pendingResize = i.pendingResize /\ w.claimPending = i.claimPending
    BY <1>4, <1>13 DEF IsRecord, Names, SameItem, SameFocus, SameInput, SameOutside
  <2>2. ResizeTyped(w)
    BY <1>6, <2>1 DEF ResizeTyped
  <2>3. Kept(w)
    BY <1>7, <2>1, <2>2, SizeFields
  <2>4. Sized(w, events, runtime)
    BY <1>4, <1>9, <2>1 DEF Claims, Sized, Looked, SameItem
  <2>5. SameItem(v, w) /\ SameFocus(v, w) /\ SameInput(v, w)
    <3>1. SameItem(v, w)
      BY <1>8, <2>1 DEF SameItem
    <3>2. SameFocus(v, w)
      BY <1>8, <2>1 DEF SameFocus
    <3>3. SameInput(v, w)
      BY <1>8, <2>1 DEF SameInput
    <3> QED
      BY <3>1, <3>2, <3>3
  <2> QED
    BY <2>3, <2>4, <2>5
<1> QED
  BY <1>10, <1>11, <1>12, <1>13

LEMMA SameTwice ==
  ASSUME NEW u, NEW v, NEW w
  PROVE  /\ SameItem(u, v) /\ SameItem(v, w) => SameItem(u, w)
         /\ SameFocus(u, v) /\ SameFocus(v, w) => SameFocus(u, w)
         /\ SameResize(u, v) /\ SameResize(v, w) => SameResize(u, w)
         /\ SameInput(u, v) /\ SameInput(v, w) => SameInput(u, w)
<1>1. SameItem(u, v) /\ SameItem(v, w) => SameItem(u, w)
  BY DEF SameItem
<1>2. SameFocus(u, v) /\ SameFocus(v, w) => SameFocus(u, w)
  BY DEF SameFocus
<1>3. SameResize(u, v) /\ SameResize(v, w) => SameResize(u, w)
  BY DEF SameResize
<1>4. SameInput(u, v) /\ SameInput(v, w) => SameInput(u, w)
  BY DEF SameInput
<1> QED
  BY <1>1, <1>2, <1>3, <1>4

\* The note that the size was passed over, or not.
Noting(v, passed) == [v EXCEPT !.passedOver = passed]

LEMMA Notes ==
  ASSUME NEW v, Kept(v), NEW passed \in BOOLEAN, NEW w, w = Noting(v, passed)
  PROVE  /\ Kept(w) /\ SameItem(v, w) /\ SameFocus(v, w) /\ SameInput(v, w) /\ SameOutside(v, w)
         /\ ResizesKept(v, w) /\ (w.passedOver <=> passed)
         /\ w.resizeQueued = v.resizeQueued /\ w.resizeRetry = v.resizeRetry
         /\ w.pendingResize = v.pendingResize /\ w.claimPending = v.claimPending
         /\ w.resizeRefused = v.resizeRefused
         /\ Claims(v, runtime) => Claims(w, runtime)
<1>1. IsRecord(v) /\ ResizeTyped(v)
  BY DEF Kept, IsView
<1>2. /\ IsRecord(w) /\ SameItem(v, w) /\ SameFocus(v, w) /\ SameInput(v, w)
      /\ SameOutside(v, w) /\ w.resizeQueued = v.resizeQueued
      /\ w.resizeRetry = v.resizeRetry /\ w.lastSize = v.lastSize
      /\ w.pendingResize = v.pendingResize /\ w.claimPending = v.claimPending
      /\ w.resizeRefused = v.resizeRefused /\ w.passedOver = passed
  BY <1>1 DEF Noting, IsRecord, Names, SameItem, SameFocus, SameInput, SameOutside
<1>3. ResizeTyped(w)
  BY <1>1, <1>2 DEF ResizeTyped
<1>4. Kept(w) /\ ResizesKept(v, w)
  BY <1>2, <1>3, SizeFields
<1>5. Claims(v, runtime) => Claims(w, runtime)
  BY <1>2 DEF Claims, SameItem
<1> QED
  BY <1>2, <1>4, <1>5

\* The size is sent and nothing else.
SizeSaid(v, what) ==
  Sent([v EXCEPT !.pendingResize = what, !.resizeRefused = FALSE], "resize", what)

LEMMA ResizeSaid ==
  ASSUME NEW v, Kept(v), v.attached, events \in Seq(Posted), Claims(v, runtime),
         NEW what \in Resizing, what.id = FreshId(v), what.size = v.size,
         NEW w, w = SizeSaid(v, what)
  PROVE  /\ Kept(w) /\ SameItem(v, w) /\ SameFocus(v, w) /\ SameInput(v, w)
         /\ Sized(w, events, runtime)
<1> DEFINE u == [v EXCEPT !.pendingResize = what, !.resizeRefused = FALSE]
<1>1. IsRecord(v) /\ ResizeTyped(v) /\ IsView(v)
  BY DEF Kept, IsView
<1>2. Fresh(v, what.id)
  BY <1>1, FreshIds
<1>3. /\ IsRecord(u) /\ SameItem(v, u) /\ SameFocus(v, u) /\ SameInput(v, u)
      /\ SameOutside(v, u) /\ u.resizeQueued = v.resizeQueued
      /\ u.resizeRetry = v.resizeRetry /\ u.lastSize = v.lastSize
      /\ u.pendingResize = what /\ u.claimPending = v.claimPending
      /\ u.resizeRefused = FALSE /\ u.resizeRefused \in BOOLEAN
      /\ u.passedOver = v.passedOver
  BY <1>1 DEF IsRecord, Names, SameItem, SameFocus, SameInput, SameOutside
<1>4. w = Sent(u, "resize", what)
  BY DEF SizeSaid
<1> HIDE DEF u
<1>5. IsView(u)
  <2>1. ResizeTyped(u)
    BY <1>1, <1>3 DEF ResizeTyped
  <2> QED
    BY <1>1, <1>3, <2>1, SameTyped DEF IsView
<1>6. /\ IsView(w) /\ SameItem(u, w) /\ SameFocus(u, w) /\ SameResize(u, w) /\ SameInput(u, w)
      /\ w.sent = Append(u.sent, ResizeCommand(what)) /\ w.timers = u.timers
  <2>1. /\ [type |-> "resize", what |-> what] = ResizeCommand(what)
        /\ ResizeCommand(what) \in Command
    BY CommandTypes DEF ResizeCommand
  <2> QED
    BY <1>4, <1>5, <2>1, CommandSends
<1>7. SameItem(v, w) /\ SameFocus(v, w) /\ SameInput(v, w)
  BY <1>3, <1>6, SameTwice
<1>8. /\ w.sent = Append(v.sent, ResizeCommand(what)) /\ w.timers = v.timers
      /\ w.pendingResize = what /\ w.resizeQueued = v.resizeQueued
      /\ w.resizeRetry = v.resizeRetry /\ w.claimPending = v.claimPending
      /\ ~w.resizeRefused
  BY <1>3, <1>6 DEF SameResize, SameOutside
<1>9. Lined(w, events, runtime) /\ ResizeSent(w, events)
  <2>1. /\ Lined(v, events, runtime) /\ w.claimed = v.claimed
        /\ w.pendingFocus = v.pendingFocus
    BY <1>7 DEF Kept, SameFocus
  <2> QED
    BY <1>1, <1>2, <1>8, <2>1, LineResize
<1>10. Timed(w)
  <2>1. Grows(v, w, {})
    BY <1>8 DEF Grows
  <2> QED
    BY <1>7, <1>8, <2>1, TimedGrows DEF Kept, SameItem, SameInput, SameFocus
<1>11. Apart(w)
  BY <1>7 DEF Apart, SameItem
<1>12. Sized(w, events, runtime)
  <2>1. Claims(w, runtime)
    BY <1>7, <1>8 DEF Claims, SameItem
  <2>2. SentSize(w, w.size)
    BY <1>7, <1>8, <1>9 DEF ResizeSent, SentSize, SameItem
  <2>3. w.pendingResize # NoResize
    BY <1>2, <1>8 DEF Fresh, NoResize
  <2> QED
    BY <2>1, <2>2, <2>3 DEF Sized, Agrees, Asked
<1> QED
  BY <1>6, <1>7, <1>9, <1>10, <1>11, <1>12 DEF Kept

\* dispatchResize leaves the runtime with the size, or a reason why not.
LEMMA ResizeDispatched ==
  ASSUME NEW v, Kept(v), events \in Seq(Posted), Claims(v, runtime),
         NEW w, w \in DispatchResize(v)
  PROVE  /\ Kept(w) /\ SameItem(v, w) /\ SameFocus(v, w) /\ SameInput(v, w)
         /\ Sized(w, events, runtime)
<1>0. IsView(v) /\ v.enabled \in BOOLEAN /\ v.passedOver \in BOOLEAN
  BY DEF Kept, IsView, ItemTyped, ResizeTyped
<1>1. CASE ~v.attached \/ ~v.control \/ ~InteractionAvailable(v)
  <2>1. w = Noting(v, v.passedOver \/ ~v.enabled)
    BY <1>1 DEF DispatchResize, Noting
  <2>2. /\ Kept(w) /\ SameItem(v, w) /\ SameFocus(v, w) /\ SameInput(v, w)
        /\ (w.passedOver <=> v.passedOver \/ ~v.enabled) /\ Claims(w, runtime)
    BY <2>1, Notes
  <2>3. ~Looked(w)
    BY <1>1, <2>2 DEF Looked, SameItem, InteractionAvailable
  <2> QED
    BY <2>2, <2>3 DEF Sized
<1>2. CASE v.attached /\ v.control /\ InteractionAvailable(v) /\ SizeKnown(v)
  <2>1. w = Noting(v, Passing(v)) /\ Passing(v) \in BOOLEAN
    BY <1>2 DEF DispatchResize, Noting, Passing
  <2>2. /\ Kept(w) /\ SameItem(v, w) /\ SameFocus(v, w) /\ SameInput(v, w)
        /\ ResizesKept(v, w) /\ SameOutside(v, w)
        /\ (w.passedOver <=> Passing(v)) /\ Claims(w, runtime)
        /\ w.pendingResize = v.pendingResize /\ w.claimPending = v.claimPending
    BY <2>1, Notes
  <2>3. Looked(w) => Agrees(w, events, runtime)
    <3> SUFFICES ASSUME Looked(w) PROVE Agrees(w, events, runtime)
      OBVIOUS
    <3>1. v.size = AskedSize(v) /\ (v.pendingResize = NoResize => Resizes(v) = {})
      BY <2>2 DEF Looked, Passing
    <3>2. Asked(v, runtime, v.size) /\ (v.pendingResize = NoResize => NoResizeSent(v))
      BY <1>0, <3>1, AskedIs
    <3>3. Asked(w, runtime, w.size) /\ (w.pendingResize = NoResize => NoResizeSent(w))
      BY <2>2, <3>2 DEF Asked, ResizesKept, SameItem
    <3>4. w.claimPending => w.pendingResize # NoResize
      BY <1>2, <2>2 DEF SizeKnown
    <3> QED
      BY <3>3, <3>4 DEF Agrees
  <2> QED
    BY <2>2, <2>3 DEF Sized
<1>3. CASE v.attached /\ v.control /\ InteractionAvailable(v) /\ ~SizeKnown(v)
  <2>1. PICK s : s = Noting(v, FALSE)
    OBVIOUS
  <2>2. PICK what : what = [id |-> FreshId(v), size |-> v.size, claim |-> v.claimPending]
    OBVIOUS
  <2>3. \/ w = SizeSaid(s, what)
        \/ \E refusal \in Refusals(v) : w = ResizeFailed(s, refusal)
    BY <1>3, <2>1, <2>2 DEF DispatchResize, Noting, SizeSaid
  <2>4. /\ Kept(s) /\ SameItem(v, s) /\ SameFocus(v, s) /\ SameInput(v, s)
        /\ SameOutside(v, s) /\ Claims(s, runtime)
        /\ s.pendingResize = v.pendingResize
    BY <2>1, Notes
  <2>5. Refusals(s) = Refusals(v)
    BY <2>4 DEF Refusals, SameOutside
  <2>6. FreshId(s) = FreshId(v)
    BY <2>4 DEF FreshId, SameOutside, SameFocus
  <2>7. s.attached /\ s.size = v.size
    BY <1>3, <2>4 DEF SameItem
  <2>8. what \in Resizing /\ what.id = FreshId(s) /\ what.size = s.size
    <3>1. FreshId(v) \in Nat
      BY <1>0, FreshIds DEF Fresh
    <3>2. v.size \in 0 .. SizeLimit /\ v.claimPending \in BOOLEAN
      BY <1>0, ConstantsAssumption
      DEF IsView, ItemTyped, ResizeTyped, Size, ConstantsAssumption
    <3> QED
      BY <2>2, <2>6, <2>7, <3>1, <3>2 DEF Resizing
  <2>9. /\ Kept(w) /\ SameItem(s, w) /\ SameFocus(s, w) /\ SameInput(s, w)
        /\ Sized(w, events, runtime)
    <3>1. CASE w = SizeSaid(s, what)
      BY <2>4, <2>7, <2>8, <3>1, ResizeSaid
    <3>2. CASE \E refusal \in Refusals(v) : w = ResizeFailed(s, refusal)
      BY <2>4, <2>5, <2>7, <3>2, ResizeFails
    <3> QED
      BY <2>3, <3>1, <3>2
  <2> QED
    BY <2>4, <2>9, SameTwice
<1> QED
  BY <1>1, <1>2, <1>3

-----------------------------------------------------------------------------
(* Input.                                                                   *)

\* The queue, whether or not a timer is coming for it.
Queueing(v) ==
  /\ ~v.stray
  /\ v.typed = v.taken + Len(v.queue)
  /\ \A i \in DOMAIN v.queue :
       v.queue[i] = [n |-> v.taken + i, epoch |-> v.epoch, generation |-> v.inputGeneration]
  /\ v.queue # <<>> => v.control /\ v.attached /\ InteractionAvailable(v)

\* What is left of a list when its first so many are taken.
LEMMA Leaves ==
  ASSUME NEW S, NEW q \in Seq(S), NEW m \in Nat, m = Len(q), NEW k \in 0 .. m,
         NEW r, r = SubSeq(q, k + 1, m)
  PROVE  /\ r \in Seq(S) /\ Len(r) = m - k /\ DOMAIN r = 1 .. m - k
         /\ \A i \in DOMAIN r : k + i \in DOMAIN q /\ r[i] = q[k + i]
<1>1. k \in Nat /\ k <= m /\ k + 1 \in Int /\ m \in Int /\ DOMAIN q = 1 .. m
  OBVIOUS
<1>2. \A i \in k + 1 .. m : q[i] \in S
  BY <1>1
<1>3. /\ r \in Seq(S)
      /\ Len(r) = IF k + 1 <= m THEN m - (k + 1) + 1 ELSE 0
      /\ \A i \in 1 .. m - (k + 1) + 1 : r[i] = q[(k + 1) + i - 1]
  BY <1>1, <1>2, SubSeqProperties
<1>4. m - (k + 1) + 1 = m - k /\ (~(k + 1 <= m) => m - k = 0)
  BY <1>1
<1>5. Len(r) = m - k /\ DOMAIN r = 1 .. m - k
  BY <1>3, <1>4
<1>6. \A i \in 1 .. m - k : (k + 1) + i - 1 = k + i /\ k + i \in 1 .. m
  BY <1>1
<1> QED
  BY <1>1, <1>3, <1>4, <1>5, <1>6

\* Inputs are taken in turn.
LEMMA Takes ==
  ASSUME NEW v, Kept(v), Queueing(v), NEW k \in 0 .. Len(v.queue), NEW w, w = Taken(v, k)
  PROVE  /\ Kept(w) /\ SameItem(v, w) /\ SameFocus(v, w) /\ SameResize(v, w)
         /\ SameOutside(v, w) /\ ResizesKept(v, w) /\ w.inputRetry = v.inputRetry
         /\ Queueing(w)
<1>1. IsView(v) /\ IsRecord(v) /\ InputTyped(v)
  BY DEF Kept, IsView
<1>2. PICK m \in Nat : m = Len(v.queue)
  BY <1>1 DEF InputTyped
<1>3. /\ v.queue \in Seq(Input) /\ m <= QueueLimit /\ k \in 0 .. m
      /\ k \in Nat /\ k <= m
      /\ v.taken \in Nat /\ v.typed \in Nat /\ v.stray \in BOOLEAN
      /\ DOMAIN v.queue = 1 .. m
  BY <1>1, <1>2 DEF InputTyped
<1>4. /\ IsRecord(w) /\ SameItem(v, w) /\ SameFocus(v, w) /\ SameResize(v, w)
      /\ SameOutside(v, w)
  BY <1>1 DEF Taken, IsRecord, Names, SameItem, SameFocus, SameResize, SameOutside
<1>5. /\ w.inputRetry = v.inputRetry /\ w.inputGeneration = v.inputGeneration
      /\ w.typed = v.typed /\ w.taken = v.taken + k
      /\ w.queue = SubSeq(v.queue, k + 1, m)
  BY <1>1, <1>2 DEF Taken, IsRecord, Names
<1>6. ~w.stray /\ w.stray \in BOOLEAN
  <2>1. \A i \in 1 .. k : v.queue[i] = [n |-> v.taken + i, epoch |-> v.epoch,
                                        generation |-> v.inputGeneration]
    <3>1. \A i \in 1 .. k : i \in DOMAIN v.queue
      BY <1>3
    <3> QED
      BY <3>1 DEF Queueing
  <2>2. w.stray = (v.stray \/ \E i \in 1 .. k :
                     v.queue[i] # [n |-> v.taken + i, epoch |-> v.epoch,
                                   generation |-> v.inputGeneration])
    BY <1>1 DEF Taken, IsRecord, Names
  <2>3. (v.stray \/ \E i \in 1 .. k :
           v.queue[i] # [n |-> v.taken + i, epoch |-> v.epoch,
                         generation |-> v.inputGeneration]) = FALSE
    BY <2>1 DEF Queueing
  <2> QED
    BY <2>2, <2>3
<1>7. /\ w.queue \in Seq(Input) /\ Len(w.queue) = m - k /\ DOMAIN w.queue = 1 .. m - k
      /\ \A i \in DOMAIN w.queue : k + i \in DOMAIN v.queue /\ w.queue[i] = v.queue[k + i]
  <2>1. \A r : r = SubSeq(v.queue, k + 1, m) =>
          /\ r \in Seq(Input) /\ Len(r) = m - k /\ DOMAIN r = 1 .. m - k
          /\ \A i \in DOMAIN r : k + i \in DOMAIN v.queue /\ r[i] = v.queue[k + i]
    BY ONLY m \in Nat, <1>2, <1>3, Leaves
  <2> QED
    BY ONLY <1>5, <2>1
<1>8. IsView(w)
  <2>1. Len(w.queue) <= QueueLimit
    BY <1>3, <1>7, ConstantsAssumption DEF ConstantsAssumption
  <2>2. InputTyped(w)
    <3>1. v.taken + k \in Nat
      BY <1>3
    <3>2. w.inputRetry \in BOOLEAN /\ w.inputGeneration \in Nat /\ w.typed \in Nat
      BY <1>1, <1>5 DEF InputTyped
    <3> QED
      BY <1>5, <1>6, <1>7, <2>1, <3>1, <3>2 DEF InputTyped
  <2> QED
    BY <1>1, <1>4, <2>2, SameTyped DEF IsView
<1>9. SameLine(v, w)
  BY <1>4, <1>5 DEF SameLine, SameItem, SameFocus, SameResize, SameOutside
<1>10. Kept(w) /\ ResizesKept(v, w)
  BY <1>8, <1>9, SameLineKeeps
<1>11. Queueing(w)
  <2>1. w.typed = w.taken + Len(w.queue)
    BY <1>2, <1>3, <1>5, <1>7 DEF Queueing
  <2>2. \A i \in DOMAIN w.queue : w.queue[i] = [n |-> w.taken + i, epoch |-> w.epoch,
                                               generation |-> w.inputGeneration]
    <3> SUFFICES ASSUME NEW i \in DOMAIN w.queue
                 PROVE  w.queue[i] = [n |-> w.taken + i, epoch |-> w.epoch,
                                      generation |-> w.inputGeneration]
      OBVIOUS
    <3>1. w.queue[i] = [n |-> v.taken + (k + i), epoch |-> v.epoch,
                        generation |-> v.inputGeneration]
      BY <1>7 DEF Queueing
    <3>2. v.taken + (k + i) = w.taken + i
      BY <1>3, <1>5, <1>7
    <3> QED
      BY <1>4, <1>5, <3>1, <3>2 DEF SameItem
  <2>3. w.queue # <<>> => v.queue # <<>>
    <3>1. CASE m = 0
      <4>1. \A x, y \in Nat : x = 0 /\ y <= x => x - y = 0
        BY ONLY TRUE
      <4>2. m - k = 0
        BY ONLY m \in Nat, <1>3, <3>1, <4>1
      <4> QED
        BY <1>7, <4>2
    <3>2. CASE m # 0
      BY <1>2, <3>2
    <3> QED
      BY <3>1, <3>2
  <2> QED
    BY <1>4, <1>6, <2>1, <2>2, <2>3 DEF Queueing, SameItem, InteractionAvailable
<1> QED
  BY <1>4, <1>5, <1>10, <1>11

\* What is left waits for its timer.
LEMMA InputRetries ==
  ASSUME NEW v, Kept(v), ~v.inputRetry, Queueing(v), NEW w, w = InputRetried(v)
  PROVE  /\ Kept(w) /\ SameItem(v, w) /\ SameFocus(v, w) /\ SameResize(v, w)
         /\ ResizesKept(v, w) /\ Queued(w)
<1>1. /\ IsView(w) /\ Timed(w)
      /\ SameItem(v, w) /\ SameFocus(v, w) /\ SameResize(v, w)
      /\ w.sent = v.sent /\ w.inputRetry /\ w.queue = v.queue
      /\ w.inputGeneration = v.inputGeneration
      /\ w.typed = v.typed /\ w.taken = v.taken /\ w.stray = v.stray
  BY TimedInput DEF Kept
<1>2. Lined(w, events, runtime)
  BY <1>1, LineSame DEF Kept, SameFocus, SameResize
<1>3. Apart(w)
  BY <1>1 DEF Kept, Apart, SameItem, SameFocus, SameResize
<1>4. ResizesKept(v, w)
  BY <1>1, ResizesKeptSame DEF SameResize
<1>5. Queued(w)
  BY <1>1 DEF Queueing, Queued, SameItem, InteractionAvailable
<1> QED
  BY <1>1, <1>2, <1>3, <1>4, <1>5 DEF Kept

\* Inputs that cannot be taken wait, or are given up.
LEMMA InputFails ==
  ASSUME NEW v, Kept(v), ~v.inputRetry, Queueing(v), NEW refusal \in Refusals(v),
         NEW w, w = InputFailed(v, refusal)
  PROVE  /\ Kept(w) /\ SameItem(v, w) /\ SameFocus(v, w) /\ SameResize(v, w)
         /\ ResizesKept(v, w) /\ Queued(w)
<1> DEFINE r == Refused(v)
<1>1. /\ IsView(r) /\ IsRecord(r) /\ SameItem(v, r) /\ SameFocus(v, r) /\ SameResize(v, r)
      /\ SameInput(v, r) /\ r.sent = v.sent /\ r.timers = v.timers
  BY RefusalCounts DEF Kept, IsView
<1> HIDE DEF r
<1>2. SameLine(v, r)
  BY <1>1 DEF SameLine, SameItem, SameFocus, SameResize, SameInput
<1>3. Kept(r) /\ ResizesKept(v, r)
  BY <1>1, <1>2, SameLineKeeps
<1>4. ~r.inputRetry /\ Queueing(r)
  BY <1>1 DEF Queueing, SameItem, SameInput, InteractionAvailable
<1>5. w = InputRetried(r) \/ w = [r EXCEPT !.queue = <<>>, !.taken = v.typed]
  BY DEF InputFailed, r
<1>6. CASE w = InputRetried(r)
  <2>1. /\ Kept(w) /\ SameItem(r, w) /\ SameFocus(r, w) /\ SameResize(r, w)
        /\ ResizesKept(r, w) /\ Queued(w)
    BY <1>3, <1>4, <1>6, InputRetries
  <2>2. r.pendingResize = v.pendingResize
    BY <1>1 DEF SameResize
  <2> QED
    BY <1>1, <1>3, <2>1, <2>2, SameTwice, ResizesKeptTwice
<1>7. CASE w = [r EXCEPT !.queue = <<>>, !.taken = v.typed]
  <2>1. /\ IsRecord(w) /\ SameItem(r, w) /\ SameFocus(r, w) /\ SameResize(r, w)
        /\ SameOutside(r, w)
    BY <1>1, <1>7 DEF IsRecord, Names, SameItem, SameFocus, SameResize, SameOutside
  <2>2. /\ w.queue = <<>> /\ w.taken = v.typed /\ w.typed = r.typed
        /\ w.inputRetry = r.inputRetry /\ w.inputGeneration = r.inputGeneration
        /\ w.stray = r.stray
    BY <1>1, <1>7 DEF IsRecord, Names
  <2>3. w.typed = w.taken /\ w.typed \in Nat
    BY <1>1, <2>2 DEF SameInput, Kept, IsView, InputTyped
  <2>4. IsView(w)
    <3>1. InputTyped(r)
      BY <1>1 DEF IsView
    <3>2. InputTyped(w)
      BY <2>2, <2>3, <3>1, ConstantsAssumption DEF InputTyped, ConstantsAssumption
    <3> QED
      BY <1>1, <2>1, <3>2, SameTyped DEF IsView
  <2>5. SameLine(r, w)
    BY <2>1, <2>2 DEF SameLine, SameItem, SameFocus, SameResize, SameOutside
  <2>6. Kept(w) /\ ResizesKept(r, w)
    BY <1>3, <2>4, <2>5, SameLineKeeps
  <2>7. Queued(w)
    BY <1>4, <2>2, <2>3 DEF Queueing, Queued
  <2>8. r.pendingResize = v.pendingResize
    BY <1>1 DEF SameResize
  <2> QED
    BY <1>1, <1>3, <2>1, <2>6, <2>7, <2>8, SameTwice, ResizesKeptTwice
<1> QED
  BY <1>5, <1>6, <1>7

\* What drainInputQueue may leave: all that goes in one go was taken, or a refusal came
\* between.
TakenBefore(v, most) ==
  {InputFailed(Taken(v, k), refusal) : k \in 0 .. most - 1, refusal \in Refusals(v)}
Drained(v) ==
  IF ~InteractionAvailable(v) \/ ~v.control \/ ~v.attached \/ v.inputRetry THEN {v}
  ELSE LET most == Min({Len(v.queue), BatchLimit})
           all  == Taken(v, most)
       IN {IF all.queue = <<>> THEN all ELSE InputRetried(all)} \cup TakenBefore(v, most)

LEMMA DrainedIs ==
  ASSUME NEW v
  PROVE  DrainInputQueue(v) = Drained(v)
BY SMT DEF DrainInputQueue, Drained, TakenBefore

LEMMA TakenBeforeIs ==
  ASSUME NEW v, NEW most, NEW w, w \in TakenBefore(v, most)
  PROVE  \E k \in 0 .. most - 1, refusal \in Refusals(v) : w = InputFailed(Taken(v, k), refusal)
BY DEF TakenBefore

\* drainInputQueue leaves nothing without a timer.
LEMMA Drains ==
  ASSUME NEW v, Kept(v), Queueing(v), NEW w, w \in DrainInputQueue(v)
  PROVE  /\ Kept(w) /\ SameItem(v, w) /\ SameFocus(v, w) /\ SameResize(v, w)
         /\ ResizesKept(v, w) /\ Queued(w)
<1>1. CASE ~InteractionAvailable(v) \/ ~v.control \/ ~v.attached \/ v.inputRetry
  <2>1. w = v
    BY <1>1 DEF DrainInputQueue
  <2>2. Queued(v)
    BY <1>1 DEF Queueing, Queued
  <2> QED
    BY <2>1, <2>2, FocusOnlySame DEF FocusOnly, SameFocus
<1>2. CASE InteractionAvailable(v) /\ v.control /\ v.attached /\ ~v.inputRetry
  <2> DEFINE most == Min({Len(v.queue), BatchLimit})
             all  == Taken(v, most)
  <2>2. Len(v.queue) \in Nat /\ BatchLimit \in Nat
    BY ConstantsAssumption DEF Kept, IsView, InputTyped, ConstantsAssumption
  <2>3. most \in Nat /\ most <= Len(v.queue)
    BY <2>2, Least
  <2>4. \/ all.queue = <<>> /\ w = all
        \/ w = InputRetried(all)
        \/ \E k \in 0 .. most - 1, refusal \in Refusals(v) : w = InputFailed(Taken(v, k), refusal)
    <3>1. w \in Drained(v)
      BY DrainedIs
    <3>2. w \in {IF all.queue = <<>> THEN all ELSE InputRetried(all)} \cup TakenBefore(v, most)
      BY <1>2, <3>1 DEF Drained
    <3> HIDE DEF all, most
    <3> QED
      BY <3>2, TakenBeforeIs
  <2> HIDE DEF most
  <2>5. ASSUME NEW k \in 0 .. Len(v.queue), NEW u, u = Taken(v, k),
               \/ u.queue = <<>> /\ w = u
               \/ w = InputRetried(u)
               \/ \E refusal \in Refusals(v) : w = InputFailed(u, refusal)
        PROVE  /\ Kept(w) /\ SameItem(v, w) /\ SameFocus(v, w) /\ SameResize(v, w)
               /\ ResizesKept(v, w) /\ Queued(w)
    <3>1. /\ Kept(u) /\ SameItem(v, u) /\ SameFocus(v, u) /\ SameResize(v, u)
          /\ SameOutside(v, u) /\ ResizesKept(v, u) /\ ~u.inputRetry /\ Queueing(u)
      BY <1>2, <2>5, Takes
    <3>2. Refusals(u) = Refusals(v) /\ u.pendingResize = v.pendingResize
      BY <3>1 DEF Refusals, SameOutside, SameResize
    <3>3. CASE u.queue = <<>> /\ w = u
      <4>1. Queued(u)
        BY <3>1, <3>3 DEF Queueing, Queued
      <4> QED
        BY <3>1, <3>3, <4>1
    <3>4. ASSUME \/ w = InputRetried(u)
                 \/ \E refusal \in Refusals(v) : w = InputFailed(u, refusal)
          PROVE  /\ Kept(w) /\ SameItem(u, w) /\ SameFocus(u, w) /\ SameResize(u, w)
                 /\ ResizesKept(u, w) /\ Queued(w)
      <4>1. CASE w = InputRetried(u)
        BY <3>1, <4>1, InputRetries
      <4>2. CASE \E refusal \in Refusals(v) : w = InputFailed(u, refusal)
        BY <3>1, <3>2, <4>2, InputFails
      <4> QED
        BY <3>4, <4>1, <4>2
    <3> QED
      BY <2>5, <3>1, <3>2, <3>3, <3>4, SameTwice, ResizesKeptTwice
  <2>6. CASE \E k \in 0 .. most - 1, refusal \in Refusals(v) : w = InputFailed(Taken(v, k), refusal)
    <3>1. PICK k \in 0 .. most - 1 : \E refusal \in Refusals(v) : w = InputFailed(Taken(v, k), refusal)
      BY <2>6
    <3>2. k \in 0 .. Len(v.queue)
      BY <2>2, <2>3
    <3> QED
      BY <2>5, <3>1, <3>2
  <2>7. most \in 0 .. Len(v.queue)
    BY <2>2, <2>3
  <2> QED
    BY <2>4, <2>5, <2>6, <2>7
<1> QED
  BY <1>1, <1>2

\* enqueueInput puts an input at the end of the queue.
LEMMA Enqueues ==
  ASSUME NEW v, Kept(v), Queued(v), NEW w, w \in EnqueueInput(v)
  PROVE  /\ Kept(w) /\ SameItem(v, w) /\ SameFocus(v, w) /\ SameResize(v, w)
         /\ ResizesKept(v, w) /\ Queued(w)
<1>1. CASE \/ ~InteractionAvailable(v) \/ ~v.control \/ ~v.attached \/ ~v.ready
           \/ Len(v.queue) >= QueueLimit
  <2>1. w = v
    BY <1>1 DEF EnqueueInput
  <2> QED
    BY <2>1, FocusOnlySame DEF FocusOnly, SameFocus
<1>2. CASE /\ InteractionAvailable(v) /\ v.control /\ v.attached /\ v.ready
           /\ ~(Len(v.queue) >= QueueLimit)
  <2> DEFINE input == [n |-> v.typed + 1, epoch |-> v.epoch, generation |-> v.inputGeneration]
             u == [v EXCEPT !.typed = @ + 1, !.queue = Append(@, input)]
  <2>1. w \in DrainInputQueue(u)
    BY <1>2 DEF EnqueueInput
  <2>2. IsView(v) /\ IsRecord(v) /\ InputTyped(v) /\ v.epoch \in 0 .. EpochLimit
    BY DEF Kept, IsView, ItemTyped
  <2>3. PICK m \in Nat : m = Len(v.queue)
    BY <2>2 DEF InputTyped
  <2>4. /\ IsRecord(u) /\ SameItem(v, u) /\ SameFocus(v, u) /\ SameResize(v, u)
        /\ SameOutside(v, u)
    BY <2>2 DEF IsRecord, Names, SameItem, SameFocus, SameResize, SameOutside
  <2>5. /\ u.inputRetry = v.inputRetry /\ u.inputGeneration = v.inputGeneration
        /\ u.typed = v.typed + 1 /\ u.taken = v.taken /\ u.stray = v.stray
        /\ u.queue = Append(v.queue, input)
    BY <2>2 DEF IsRecord, Names
  <2>6. input \in Input
    BY <2>2 DEF Input, InputTyped
  <2> HIDE DEF u
  <2>7. /\ v.queue \in Seq(Input) /\ DOMAIN v.queue = 1 .. m
        /\ v.taken \in Nat /\ v.typed \in Nat /\ v.typed = v.taken + m
    BY <2>2, <2>3 DEF InputTyped, Queued
  <2>8. /\ u.queue \in Seq(Input) /\ Len(u.queue) = m + 1 /\ DOMAIN u.queue = 1 .. m + 1
        /\ u.queue[m + 1] = input /\ \A i \in 1 .. m : u.queue[i] = v.queue[i]
    <3> HIDE DEF input
    <3> QED
      BY <2>3, <2>5, <2>6, <2>7
  <2>9. IsView(u)
    <3>1. m + 1 <= QueueLimit
      BY <1>2, <2>3, ConstantsAssumption DEF ConstantsAssumption
    <3>2. InputTyped(u)
      BY <2>2, <2>5, <2>7, <2>8, <3>1 DEF InputTyped
    <3> QED
      BY <2>2, <2>4, <3>2, SameTyped DEF IsView
  <2>10. SameLine(v, u)
    BY <2>4, <2>5 DEF SameLine, SameItem, SameFocus, SameResize, SameOutside
  <2>11. Kept(u) /\ ResizesKept(v, u)
    BY <2>9, <2>10, SameLineKeeps
  <2>12. Queueing(u)
    <3>1. u.typed = u.taken + Len(u.queue)
      <4> HIDE DEF input
      <4>1. /\ u.typed = v.typed + 1 /\ u.taken = v.taken /\ Len(u.queue) = m + 1
            /\ v.typed = v.taken + m /\ v.taken \in Nat /\ m \in Nat
        BY <2>5, <2>7, <2>8
      <4> QED
        BY ONLY <4>1
    <3>2. \A i \in DOMAIN u.queue : u.queue[i] = [n |-> u.taken + i, epoch |-> u.epoch,
                                                 generation |-> u.inputGeneration]
      <4> SUFFICES ASSUME NEW i \in DOMAIN u.queue
                   PROVE  u.queue[i] = [n |-> u.taken + i, epoch |-> u.epoch,
                                        generation |-> u.inputGeneration]
        OBVIOUS
      <4>1. u.epoch = v.epoch
        BY <2>4 DEF SameItem
      <4>2. CASE i = m + 1
        <5>1. v.typed + 1 = u.taken + i
          BY <2>5, <2>7, <4>2
        <5> QED
          BY <2>5, <2>8, <4>1, <4>2, <5>1
      <4>3. CASE i \in 1 .. m
        BY <2>5, <2>7, <2>8, <4>1, <4>3 DEF Queued
      <4> QED
        BY <2>8, <4>2, <4>3
    <3> QED
      BY <1>2, <2>4, <2>5, <3>1, <3>2 DEF Queueing, Queued, SameItem, InteractionAvailable
  <2>13. /\ Kept(w) /\ SameItem(u, w) /\ SameFocus(u, w) /\ SameResize(u, w)
         /\ ResizesKept(u, w) /\ Queued(w)
    BY <2>1, <2>11, <2>12, Drains
  <2>14. u.pendingResize = v.pendingResize
    BY <2>4 DEF SameResize
  <2> QED
    BY <2>4, <2>11, <2>13, <2>14, SameTwice, ResizesKeptTwice
<1> QED
  BY <1>1, <1>2

-----------------------------------------------------------------------------
(* What the user, the application and Qt do.                                *)

\* The view as every step leaves it, with these outcomes posted and this runtime.
Whole(v, ev, rt) ==
  /\ IsView(v) /\ Timed(v) /\ Lined(v, ev, rt) /\ Apart(v)
  /\ Wanted(v) /\ Queued(v) /\ Sized(v, ev, rt)

\* Fields of the item that no timer and no command hangs on.
LEMMA ItemFields ==
  ASSUME NEW v, Kept(v), NEW w, IsRecord(w), SameFocus(v, w), SameResize(v, w),
         SameInput(v, w), SameOutside(v, w), ItemTyped(w),
         w.epoch = v.epoch, w.attached = v.attached
  PROVE  Kept(w) /\ ResizesKept(v, w) /\ (Claims(v, runtime) /\ w.control = v.control
           /\ w.authority = v.authority => Claims(w, runtime))
<1>1. IsView(w)
  BY SameTyped DEF Kept, IsView
<1>2. SameLine(v, w)
  BY DEF SameLine, SameFocus, SameResize, SameInput, SameOutside
<1>3. Claims(v, runtime) /\ w.control = v.control /\ w.authority = v.authority
        => Claims(w, runtime)
  BY DEF Claims, SameResize
<1> QED
  BY <1>1, <1>2, <1>3, SameLineKeeps

\* Where only the focus was spoken of, inputs and size are as before.
LEMMA FocusFollows ==
  ASSUME NEW v, NEW w, FocusOnly(v, w), Queued(v), Sized(v, events, runtime)
  PROVE  Queued(w) /\ Sized(w, events, runtime)
<1>1. SameSizing(v, w)
  BY DEF FocusOnly, SameItem, SameSizing
<1> QED
  BY <1>1, QueuedSame, SizedSame DEF FocusOnly

LEMMA FocusComes ==
  ASSUME NEW v, Whole(v, events, runtime), events \in Seq(Posted),
         InteractionAvailable(v), NEW w, w \in SendFocus(v)
  PROVE  Whole(w, events, runtime)
<1>1. Kept(v) /\ SendDue(v)
  BY DEF Whole, Kept, SendDue, Wanted
<1>2. Kept(w) /\ FocusOnly(v, w) /\ Wanted(w)
  BY <1>1, FocusSends
<1> QED
  BY <1>2, FocusFollows DEF Whole, Kept

\* The item has the focus, or has lost it.
LEMMA FocusMoves ==
  ASSUME NEW v, Whole(v, events, runtime), events \in Seq(Posted), NEW focus \in BOOLEAN,
         NEW u, u = [v EXCEPT !.activeFocus = focus]
  PROVE  /\ Whole(u, events, runtime)
         /\ u.shown = v.shown /\ u.enabled = v.enabled
<1>1. Kept(v) /\ IsView(v) /\ IsRecord(v) /\ ItemTyped(v)
  BY DEF Whole, Kept, IsView
<1>2. /\ IsRecord(u) /\ SameFocus(v, u) /\ SameResize(v, u)
  BY <1>1 DEF IsRecord, Names, SameFocus, SameResize
<1>3. SameInput(v, u) /\ SameOutside(v, u)
  BY <1>1 DEF IsRecord, Names, SameInput, SameOutside
<1>4. /\ u.activeFocus = focus /\ u.shown = v.shown /\ u.enabled = v.enabled
      /\ u.size = v.size /\ u.epoch = v.epoch /\ u.attached = v.attached
      /\ u.ready = v.ready /\ u.control = v.control /\ u.authority = v.authority
  BY <1>1 DEF IsRecord, Names
<1>5. ItemTyped(u)
  BY <1>1, <1>4 DEF ItemTyped
<1>6. Kept(u) /\ ResizesKept(v, u)
  BY <1>1, <1>2, <1>3, <1>4, <1>5, ItemFields
<1>7. SameSizing(v, u)
  BY <1>4 DEF SameSizing
<1>8. Sized(u, events, runtime)
  BY <1>2, <1>6, <1>7, SizedSame DEF Whole
<1>9. Wanted(u)
  BY <1>2, <1>4 DEF Whole, Wanted, SameFocus, InteractionAvailable
<1>10. Queued(u)
  BY <1>3, <1>4 DEF Whole, Queued, SameInput, InteractionAvailable
<1> QED
  BY <1>4, <1>6, <1>8, <1>9, <1>10 DEF Whole, Kept

LEMMA ItemFocused ==
  ASSUME NEW v, Whole(v, events, runtime), events \in Seq(Posted),
         InteractionAvailable(v), NEW w, w \in FocusIn(v)
  PROVE  Whole(w, events, runtime)
<1>1. PICK u : u = [v EXCEPT !.activeFocus = TRUE]
  OBVIOUS
<1>2. Whole(u, events, runtime) /\ InteractionAvailable(u)
  BY <1>1, FocusMoves DEF InteractionAvailable
<1>3. w \in SendFocus(u)
  BY <1>1 DEF FocusIn
<1> QED
  BY <1>2, <1>3, FocusComes

LEMMA ItemUnfocused ==
  ASSUME NEW v, Whole(v, events, runtime), events \in Seq(Posted),
         NEW w, w \in FocusOut(v)
  PROVE  Whole(w, events, runtime)
<1>1. PICK u : u = [v EXCEPT !.activeFocus = FALSE]
  OBVIOUS
<1>2. Whole(u, events, runtime)
  BY <1>1, FocusMoves
<1>3. w \in SendBlur(u)
  BY <1>1 DEF FocusOut
<1>4. Kept(w) /\ FocusOnly(u, w) /\ Wanted(w)
  BY <1>2, <1>3, BlurSends DEF Whole, Kept
<1> QED
  BY <1>2, <1>4, FocusFollows DEF Whole, Kept

\* The item may interact where it might not, or may not where it might.
LEMMA SyncIsDue ==
  ASSUME NEW v, Wanted(v), Queued(v), IsView(v), NEW u, SameFocus(v, u), SameInput(v, u),
         u.epoch = v.epoch, u.attached = v.attached, u.control = v.control,
         InteractionAvailable(u) => ~InteractionAvailable(v)
  PROVE  SyncDue(u)
<1>1. InteractionAvailable(u) => Wanted(u)
  BY DEF Wanted, SameFocus, IsView, FocusTyped
<1>2. InteractionAvailable(u) => Queued(u)
  BY DEF Queued, SameInput
<1> QED
  BY <1>1, <1>2 DEF SyncDue, Wanted, Queued, SameFocus, SameInput

\* The item is shown or hidden.
LEMMA ItemShown ==
  ASSUME NEW v, Whole(v, events, runtime), events \in Seq(Posted), NEW w, w \in SetShown(v)
  PROVE  Whole(w, events, runtime)
<1>1. PICK u : u = [v EXCEPT !.shown = ~@]
  OBVIOUS
<1>2. PICK x \in SynchronizeInteraction(u) : w = ScheduleResize(x)
  BY <1>1 DEF SetShown
<1>3. Kept(v) /\ IsView(v) /\ IsRecord(v) /\ ItemTyped(v)
  BY DEF Whole, Kept, IsView
<1>4. /\ IsRecord(u) /\ SameFocus(v, u) /\ SameResize(v, u)
  BY <1>1, <1>3 DEF IsRecord, Names, SameFocus, SameResize
<1>5. SameInput(v, u) /\ SameOutside(v, u)
  BY <1>1, <1>3 DEF IsRecord, Names, SameInput, SameOutside
<1>6. /\ u.activeFocus = v.activeFocus /\ u.shown = ~v.shown /\ u.enabled = v.enabled
      /\ u.size = v.size /\ u.epoch = v.epoch /\ u.attached = v.attached
      /\ u.ready = v.ready /\ u.control = v.control /\ u.authority = v.authority
  BY <1>1, <1>3 DEF IsRecord, Names
<1>7. ItemTyped(u)
  BY <1>3, <1>6 DEF ItemTyped
<1>8. Kept(u) /\ ResizesKept(v, u) /\ Claims(u, runtime)
  BY <1>3, <1>4, <1>5, <1>6, <1>7, ItemFields DEF Whole, Sized
<1>9. InteractionAvailable(u) => ~InteractionAvailable(v)
  BY <1>3, <1>6 DEF InteractionAvailable
<1>10. SyncDue(u)
  BY <1>3, <1>4, <1>5, <1>6, <1>9, SyncIsDue DEF Whole
<1>11. /\ Kept(x) /\ SameItem(u, x) /\ SameResize(u, x) /\ ResizesKept(u, x)
       /\ Wanted(x) /\ Queued(x)
  BY <1>2, <1>8, <1>10, Synchronizes
<1>12. SameSizing(u, x)
  BY <1>11 DEF SameItem, SameSizing
<1>13. Claims(x, runtime)
  BY <1>8, <1>11, <1>12, SizedSame
<1>14. Kept(w) /\ SameItem(x, w) /\ SameFocus(x, w) /\ SameInput(x, w) /\ Sized(w, events, runtime)
  BY <1>2, <1>11, <1>13, ResizeScheduled
<1> QED
  BY <1>11, <1>14, WantedSame, QueuedSame DEF Whole, Kept

\* The tile enables or disables the item.
LEMMA ItemEnabled ==
  ASSUME NEW v, Whole(v, events, runtime), events \in Seq(Posted), NEW w, w \in SetEnabled(v)
  PROVE  Whole(w, events, runtime)
<1>1. PICK u : u = [v EXCEPT !.enabled = ~@]
  OBVIOUS
<1>2. Kept(v) /\ IsView(v) /\ IsRecord(v) /\ ItemTyped(v)
  BY DEF Whole, Kept, IsView
<1>3. /\ IsRecord(u) /\ SameFocus(v, u) /\ SameResize(v, u)
  BY <1>1, <1>2 DEF IsRecord, Names, SameFocus, SameResize
<1>4. SameInput(v, u) /\ SameOutside(v, u)
  BY <1>1, <1>2 DEF IsRecord, Names, SameInput, SameOutside
<1>5. /\ u.activeFocus = v.activeFocus /\ u.shown = v.shown /\ u.enabled = ~v.enabled
      /\ u.size = v.size /\ u.epoch = v.epoch /\ u.attached = v.attached
      /\ u.ready = v.ready /\ u.control = v.control /\ u.authority = v.authority
  BY <1>1, <1>2 DEF IsRecord, Names
<1>6. ItemTyped(u)
  BY <1>2, <1>5 DEF ItemTyped
<1>7. Kept(u) /\ ResizesKept(v, u)
  BY <1>2, <1>3, <1>4, <1>5, <1>6, ItemFields
<1>8. InteractionAvailable(u) => ~InteractionAvailable(v)
  BY <1>2, <1>5 DEF InteractionAvailable
<1>9. SyncDue(u)
  BY <1>2, <1>3, <1>4, <1>5, <1>8, SyncIsDue DEF Whole
<1>10. Sized(u, events, runtime)
  <2>1. SameSizing(v, u)
    BY <1>5 DEF SameSizing
  <2> QED
    BY <1>3, <1>7, <2>1, SizedSame DEF Whole
<1>11. ASSUME NEW x, Kept(x), SyncDue(x), Sized(x, events, runtime),
              w \in SynchronizeInteraction(x)
       PROVE  Whole(w, events, runtime)
  <2>1. /\ Kept(w) /\ SameItem(x, w) /\ SameResize(x, w) /\ ResizesKept(x, w)
        /\ Wanted(w) /\ Queued(w)
    BY <1>11, Synchronizes
  <2>2. SameSizing(x, w)
    BY <2>1 DEF SameItem, SameSizing
  <2>3. Sized(w, events, runtime)
    BY <1>11, <2>1, <2>2, SizedSame
  <2> QED
    BY <2>1, <2>3 DEF Whole, Kept
<1>12. CASE v.enabled /\ v.activeFocus
  <2>1. PICK x \in FocusOut(u) : w \in SynchronizeInteraction(x)
    BY <1>1, <1>12 DEF SetEnabled
  <2>2. PICK y : y = [u EXCEPT !.activeFocus = FALSE]
    OBVIOUS
  <2>3. x \in SendBlur(y)
    BY <2>2 DEF FocusOut
  <2>4. IsRecord(y) /\ SameFocus(u, y) /\ SameResize(u, y)
    BY <1>3, <2>2 DEF IsRecord, Names, SameFocus, SameResize
  <2>5. SameInput(u, y) /\ SameOutside(u, y)
    BY <1>3, <2>2 DEF IsRecord, Names, SameInput, SameOutside
  <2>6. /\ y.activeFocus = FALSE /\ y.shown = u.shown /\ y.enabled = u.enabled
        /\ y.size = u.size /\ y.epoch = u.epoch /\ y.attached = u.attached
        /\ y.ready = u.ready /\ y.control = u.control /\ y.authority = u.authority
    BY <1>3, <2>2 DEF IsRecord, Names
  <2>7. ItemTyped(y)
    BY <1>6, <2>6 DEF ItemTyped
  <2>8. Kept(y) /\ ResizesKept(u, y)
    BY <1>7, <2>4, <2>5, <2>6, <2>7, ItemFields
  <2>9. Kept(x) /\ FocusOnly(y, x) /\ ~x.desired /\ Wanted(x)
    BY <2>3, <2>8, BlurSends
  <2>10. Sized(y, events, runtime)
    <3>1. SameSizing(u, y)
      BY <2>6 DEF SameSizing
    <3> QED
      BY <1>10, <2>4, <2>8, <3>1, SizedSame
  <2>11. Sized(x, events, runtime)
    <3>1. SameSizing(y, x)
      BY <2>9 DEF FocusOnly, SameItem, SameSizing
    <3> QED
      BY <2>9, <2>10, <3>1, SizedSame DEF FocusOnly
  <2>12. SyncDue(x)
    <3>1. ~InteractionAvailable(x)
      BY <1>5, <1>12, <2>6, <2>9 DEF FocusOnly, SameItem, InteractionAvailable
    <3>2. ~x.stray
      BY <1>4, <2>5, <2>9 DEF FocusOnly, SameInput, Whole, Queued
    <3> QED
      BY <2>9, <3>1, <3>2 DEF SyncDue, Wanted
  <2> QED
    BY <1>11, <2>1, <2>9, <2>11, <2>12
<1>13. CASE ~(v.enabled /\ v.activeFocus)
  <2>1. w \in SynchronizeInteraction(u)
    BY <1>1, <1>13 DEF SetEnabled
  <2> QED
    BY <1>7, <1>9, <1>10, <1>11, <2>1
<1> QED
  BY <1>12, <1>13

\* A size that changed, a frame that came or an authority that was given is looked at.
LEMMA Reschedules ==
  ASSUME NEW v, Kept(v), Wanted(v), Queued(v), Claims(v, runtime),
         NEW w, w = ScheduleResize(v)
  PROVE  Whole(w, events, runtime)
BY ResizeScheduled, WantedSame, QueuedSame DEF Whole, Kept

LEMMA ItemResized ==
  ASSUME NEW v, Whole(v, events, runtime), NEW size \in Size, NEW w, w \in Resized(v, size)
  PROVE  Whole(w, events, runtime)
<1>1. PICK u : u = [v EXCEPT !.size = size]
  OBVIOUS
<1>2. w = ScheduleResize(u)
  BY <1>1 DEF Resized
<1>3. Kept(v) /\ IsView(v) /\ IsRecord(v) /\ ItemTyped(v)
  BY DEF Whole, Kept, IsView
<1>4. /\ IsRecord(u) /\ SameFocus(v, u) /\ SameResize(v, u)
  BY <1>1, <1>3 DEF IsRecord, Names, SameFocus, SameResize
<1>5. SameInput(v, u) /\ SameOutside(v, u)
  BY <1>1, <1>3 DEF IsRecord, Names, SameInput, SameOutside
<1>6. /\ u.activeFocus = v.activeFocus /\ u.shown = v.shown /\ u.enabled = v.enabled
      /\ u.size = size /\ u.epoch = v.epoch /\ u.attached = v.attached
      /\ u.ready = v.ready /\ u.control = v.control /\ u.authority = v.authority
  BY <1>1, <1>3 DEF IsRecord, Names
<1>7. ItemTyped(u)
  BY <1>3, <1>6 DEF ItemTyped
<1>8. Kept(u) /\ Claims(u, runtime)
  BY <1>3, <1>4, <1>5, <1>6, <1>7, ItemFields DEF Whole, Sized
<1>9. Wanted(u)
  BY <1>4, <1>6 DEF Whole, Wanted, SameFocus, InteractionAvailable
<1>10. Queued(u)
  BY <1>5, <1>6 DEF Whole, Queued, SameInput, InteractionAvailable
<1> QED
  BY <1>2, <1>8, <1>9, <1>10, Reschedules

\* drainFrame finds a frame.
LEMMA FrameComes ==
  ASSUME NEW v, Whole(v, events, runtime), NEW w, w = ScheduleResize([v EXCEPT !.ready = TRUE])
  PROVE  Whole(w, events, runtime)
<1>1. PICK u : u = [v EXCEPT !.ready = TRUE]
  OBVIOUS
<1>2. w = ScheduleResize(u)
  BY <1>1
<1>3. Kept(v) /\ IsView(v) /\ IsRecord(v) /\ ItemTyped(v)
  BY DEF Whole, Kept, IsView
<1>4. /\ IsRecord(u) /\ SameFocus(v, u) /\ SameResize(v, u)
  BY <1>1, <1>3 DEF IsRecord, Names, SameFocus, SameResize
<1>5. SameInput(v, u) /\ SameOutside(v, u)
  BY <1>1, <1>3 DEF IsRecord, Names, SameInput, SameOutside
<1>6. /\ u.activeFocus = v.activeFocus /\ u.shown = v.shown /\ u.enabled = v.enabled
      /\ u.size = v.size /\ u.epoch = v.epoch /\ u.attached = v.attached
      /\ u.ready = TRUE /\ u.control = v.control /\ u.authority = v.authority
  BY <1>1, <1>3 DEF IsRecord, Names
<1>7. ItemTyped(u)
  BY <1>3, <1>6 DEF ItemTyped
<1>8. Kept(u) /\ Claims(u, runtime)
  BY <1>3, <1>4, <1>5, <1>6, <1>7, ItemFields DEF Whole, Sized
<1>9. Wanted(u)
  BY <1>4, <1>6 DEF Whole, Wanted, SameFocus, InteractionAvailable
<1>10. Queued(u)
  BY <1>5, <1>6 DEF Whole, Queued, SameInput, InteractionAvailable
<1> QED
  BY <1>2, <1>8, <1>9, <1>10, Reschedules

\* Input is typed.
LEMMA InputTypes ==
  ASSUME NEW v, Whole(v, events, runtime), NEW w, w \in EnqueueInput(v)
  PROVE  Whole(w, events, runtime)
<1>1. /\ Kept(w) /\ SameItem(v, w) /\ SameFocus(v, w) /\ SameResize(v, w)
      /\ ResizesKept(v, w) /\ Queued(w)
  BY Enqueues DEF Whole, Kept
<1>2. SameSizing(v, w)
  BY <1>1 DEF SameItem, SameSizing
<1>3. Sized(w, events, runtime)
  BY <1>1, <1>2, SizedSame DEF Whole
<1> QED
  BY <1>1, <1>3, WantedSame DEF Whole, Kept

\* Interaction is granted: a focus that is wanted is sent, or goes after a blur that
\* waits for its retry.
LEMMA InteractionGranted ==
  ASSUME NEW v, Whole(v, events, runtime), events \in Seq(Posted), ~v.control,
         NEW w, w \in Granted(v)
  PROVE  Whole(w, events, runtime)
<1>1. PICK u : u = [v EXCEPT !.control = TRUE]
  OBVIOUS
<1>2. Kept(v) /\ IsView(v) /\ IsRecord(v) /\ ItemTyped(v) /\ FocusTyped(v) /\ Wanted(v)
  BY DEF Whole, Kept, IsView
<1>3. /\ IsRecord(u) /\ SameFocus(v, u) /\ SameResize(v, u)
  BY <1>1, <1>2 DEF IsRecord, Names, SameFocus, SameResize
<1>4. SameInput(v, u) /\ SameOutside(v, u)
  BY <1>1, <1>2 DEF IsRecord, Names, SameInput, SameOutside
<1>5. /\ u.activeFocus = v.activeFocus /\ u.shown = v.shown /\ u.enabled = v.enabled
      /\ u.size = v.size /\ u.epoch = v.epoch /\ u.attached = v.attached
      /\ u.ready = v.ready /\ u.control = TRUE /\ u.authority = v.authority
  BY <1>1, <1>2 DEF IsRecord, Names
<1>6. ItemTyped(u)
  BY <1>2, <1>5 DEF ItemTyped
<1>7. Kept(u)
  BY <1>2, <1>3, <1>4, <1>5, <1>6, ItemFields
<1>8. PICK x : /\ x \in IF v.desired /\ v.focusRetry # "blur" THEN SendFocus(u) ELSE {u}
               /\ w = ScheduleResize([x EXCEPT !.claimPending = x.authority])
  BY <1>1 DEF Granted
<1>9. Kept(x) /\ SameItem(u, x) /\ SameResize(u, x) /\ SameInput(u, x) /\ Wanted(x)
  <2>1. CASE v.desired /\ v.focusRetry # "blur"
    <3>1. SendDue(u)
      BY <1>2, <1>3, <1>5, <2>1 DEF SendDue, Wanted, SameFocus, InteractionAvailable
    <3> QED
      BY <1>7, <1>8, <2>1, <3>1, FocusSends DEF FocusOnly
  <2>2. CASE ~(v.desired /\ v.focusRetry # "blur")
    <3>1. x = u
      BY <1>8, <2>2
    <3>2. SameItem(u, u) /\ SameResize(u, u) /\ SameInput(u, u)
      BY DEF SameItem, SameResize, SameInput
    <3>3. Wanted(u)
      BY <1>2, <1>3, <1>5, <2>2 DEF Wanted, SameFocus, FocusTyped, InteractionAvailable
    <3> QED
      BY <1>7, <3>1, <3>2, <3>3
  <2> QED
    BY <2>1, <2>2
<1>10. Queued(x)
  BY <1>4, <1>5, <1>9 DEF Whole, Queued, SameInput, SameItem
<1>11. PICK y : y = [x EXCEPT !.claimPending = x.authority]
  OBVIOUS
<1>12. IsView(x) /\ IsRecord(x) /\ ItemTyped(x) /\ ResizeTyped(x)
  BY <1>9 DEF Kept, IsView
<1>13. IsRecord(y) /\ SameItem(x, y) /\ SameFocus(x, y)
  BY <1>11, <1>12 DEF IsRecord, Names, SameItem, SameFocus
<1>14. SameInput(x, y) /\ SameOutside(x, y)
  BY <1>11, <1>12 DEF IsRecord, Names, SameInput, SameOutside
<1>15. /\ y.resizeQueued = x.resizeQueued /\ y.resizeRetry = x.resizeRetry
       /\ y.lastSize = x.lastSize /\ y.pendingResize = x.pendingResize
       /\ y.claimPending = x.authority /\ y.resizeRefused = x.resizeRefused
       /\ y.passedOver = x.passedOver
  BY <1>11, <1>12 DEF IsRecord, Names
<1>16. ResizeTyped(y)
  BY <1>12, <1>15 DEF ResizeTyped, ItemTyped
<1>17. Kept(y)
  BY <1>9, <1>13, <1>14, <1>15, <1>16, SizeFields
<1>18. Claims(y, runtime)
  BY <1>3, <1>9, <1>13, <1>15 DEF Whole, Sized, Claims, SameResize, SameItem
<1>19. Wanted(y) /\ Queued(y)
  BY <1>9, <1>10, <1>13, <1>14, WantedSame, QueuedSame
<1> QED
  BY <1>8, <1>11, <1>17, <1>18, <1>19, Reschedules

\* Interaction is revoked: the focus goes and stays wanted, no input waits, and no
\* size is asked for.
LEMMA InteractionRevoked ==
  ASSUME NEW v, Whole(v, events, runtime), events \in Seq(Posted),
         NEW w, w \in Revoked(v)
  PROVE  Whole(w, events, runtime)
<1>1. PICK u : u = [v EXCEPT !.control = FALSE]
  OBVIOUS
<1>2. /\ Kept(v) /\ IsView(v) /\ IsRecord(v) /\ ItemTyped(v) /\ FocusTyped(v)
      /\ Wanted(v) /\ ~v.stray
  BY DEF Whole, Kept, IsView, Queued
<1>3. /\ IsRecord(u) /\ SameFocus(v, u) /\ SameResize(v, u)
  BY <1>1, <1>2 DEF IsRecord, Names, SameFocus, SameResize
<1>4. SameInput(v, u) /\ SameOutside(v, u)
  BY <1>1, <1>2 DEF IsRecord, Names, SameInput, SameOutside
<1>5. /\ u.activeFocus = v.activeFocus /\ u.shown = v.shown /\ u.enabled = v.enabled
      /\ u.size = v.size /\ u.epoch = v.epoch /\ u.attached = v.attached
      /\ u.ready = v.ready /\ u.control = FALSE /\ u.authority = v.authority
  BY <1>1, <1>2 DEF IsRecord, Names
<1>6. ItemTyped(u)
  BY <1>2, <1>5 DEF ItemTyped
<1>7. Kept(u)
  BY <1>2, <1>3, <1>4, <1>5, <1>6, ItemFields
<1>8. PICK c : c = ClearPendingInput(u)
  OBVIOUS
<1>9. Kept(c) /\ SameItem(u, c) /\ SameFocus(u, c) /\ Queued(c)
  BY <1>2, <1>4, <1>7, <1>8, Clears DEF SameInput
<1>10. PICK x : /\ \/ /\ v.claimed \/ v.pendingFocus # 0 \/ v.desired
                      /\ \E b \in SendBlur(c) : x = Desiring(b, v.desired)
                   \/ ~(v.claimed \/ v.pendingFocus # 0 \/ v.desired) /\ x = c
                /\ w = [x EXCEPT !.resizeRetry = FALSE, !.pendingResize = NoResize,
                                 !.claimPending = FALSE, !.lastSize = 0]
  BY <1>1, <1>8 DEF Revoked, Desiring
<1>11. Kept(x) /\ SameItem(c, x) /\ SameInput(c, x) /\ Wanted(x)
  <2>1. ~c.control /\ (~InteractionAvailable(c) => ~v.desired)
    BY <1>2, <1>5, <1>9 DEF Wanted, SameItem, InteractionAvailable
  <2>2. CASE \E b \in SendBlur(c) : x = Desiring(b, v.desired)
    <3>1. PICK b \in SendBlur(c) : x = Desiring(b, v.desired)
      BY <2>2
    <3>2. Kept(b) /\ FocusOnly(c, b) /\ ~b.desired /\ Wanted(b)
      BY <1>9, BlurSends
    <3>3. /\ Kept(x) /\ FocusOnly(b, x) /\ SameLine(b, x)
          /\ (x.desired <=> v.desired) /\ x.focusRefused = b.focusRefused
      BY <1>2, <3>1, <3>2, Desires DEF FocusTyped
    <3>4. FocusOnly(c, x)
      BY <3>2, <3>3, FocusOnlyTwice
    <3>5. Wanted(x)
      BY <2>1, <3>2, <3>3, <3>4 DEF Wanted, SameLine, FocusOnly, SameItem, InteractionAvailable
    <3> QED
      BY <3>3, <3>4, <3>5 DEF FocusOnly
  <2>3. CASE ~(v.claimed \/ v.pendingFocus # 0 \/ v.desired) /\ x = c
    <3>1. SameItem(c, c) /\ SameInput(c, c)
      BY DEF SameItem, SameInput
    <3>2. Wanted(c)
      BY <1>2, <1>3, <1>9, <2>1, <2>3 DEF Wanted, SameFocus
    <3> QED
      BY <1>9, <2>3, <3>1, <3>2
  <2> QED
    BY <1>10, <2>2, <2>3
<1>12. IsView(x) /\ IsRecord(x) /\ ResizeTyped(x)
  BY <1>11 DEF Kept, IsView
<1>13. IsRecord(w) /\ SameItem(x, w) /\ SameFocus(x, w)
  BY <1>10, <1>12 DEF IsRecord, Names, SameItem, SameFocus
<1>14. SameInput(x, w) /\ SameOutside(x, w)
  BY <1>10, <1>12 DEF IsRecord, Names, SameInput, SameOutside
<1>15. /\ w.resizeQueued = x.resizeQueued /\ w.resizeRetry = FALSE
       /\ w.lastSize = 0 /\ w.pendingResize = NoResize
       /\ w.claimPending = FALSE /\ w.resizeRefused = x.resizeRefused
       /\ w.passedOver = x.passedOver
  BY <1>10, <1>12 DEF IsRecord, Names
<1>16. ResizeTyped(w)
  <2>1. NoResize \in Resizing /\ 0 \in 0 .. SizeLimit
    BY ConstantsAssumption DEF ConstantsAssumption, NoResize, Resizing
  <2> QED
    BY <1>12, <1>15, <2>1 DEF ResizeTyped
<1>17. Kept(w)
  BY <1>11, <1>13, <1>14, <1>15, <1>16, SizeFields
<1>18. ~w.control
  BY <1>5, <1>9, <1>11, <1>13 DEF SameItem
<1>19. Sized(w, events, runtime)
  BY <1>15, <1>18 DEF Sized, Claims, Looked
<1>20. Wanted(w) /\ Queued(w)
  BY <1>9, <1>11, <1>13, <1>14, WantedSame, QueuedSame
<1> QED
  BY <1>17, <1>19, <1>20 DEF Whole, Kept

\* The view gets or loses the authority over the size.
LEMMA AuthorityChanges ==
  ASSUME NEW v, Whole(v, events, runtime), NEW w, w \in SetFocusedSizeAuthority(v)
  PROVE  Whole(w, events, runtime)
<1>1. PICK a : a = [v EXCEPT !.authority = ~@, !.claimPending = ~v.authority /\ v.control]
  OBVIOUS
<1>2. w = IF a.claimPending THEN ScheduleResize(a) ELSE a
  BY <1>1 DEF SetFocusedSizeAuthority
<1>3. /\ Kept(v) /\ IsView(v) /\ IsRecord(v) /\ ItemTyped(v) /\ ResizeTyped(v)
  BY DEF Whole, Kept, IsView
<1>4. IsRecord(a) /\ SameFocus(v, a)
  BY <1>1, <1>3 DEF IsRecord, Names, SameFocus
<1>5. SameInput(v, a) /\ SameOutside(v, a)
  BY <1>1, <1>3 DEF IsRecord, Names, SameInput, SameOutside
<1>6. /\ a.activeFocus = v.activeFocus /\ a.shown = v.shown /\ a.enabled = v.enabled
      /\ a.size = v.size /\ a.epoch = v.epoch /\ a.attached = v.attached
      /\ a.ready = v.ready /\ a.control = v.control /\ a.authority = ~v.authority
  BY <1>1, <1>3 DEF IsRecord, Names
<1>7. /\ a.resizeQueued = v.resizeQueued /\ a.resizeRetry = v.resizeRetry
      /\ a.lastSize = v.lastSize /\ a.pendingResize = v.pendingResize
      /\ a.claimPending = (~v.authority /\ v.control) /\ a.resizeRefused = v.resizeRefused
      /\ a.passedOver = v.passedOver
  BY <1>1, <1>3 DEF IsRecord, Names
<1>8. IsView(a)
  <2>1. ItemTyped(a)
    BY <1>3, <1>6 DEF ItemTyped
  <2>2. ResizeTyped(a)
    BY <1>3, <1>7 DEF ResizeTyped, ItemTyped
  <2> QED
    BY <1>3, <1>4, <1>5, <2>1, <2>2, SameTyped DEF IsView
<1>9. SameLine(v, a)
  BY <1>4, <1>5, <1>6, <1>7 DEF SameLine, SameFocus, SameInput, SameOutside
<1>10. Kept(a) /\ ResizesKept(v, a)
  BY <1>3, <1>8, <1>9, SameLineKeeps
<1>11. Wanted(a)
  BY <1>4, <1>6 DEF Whole, Wanted, SameFocus, InteractionAvailable
<1>12. Queued(a)
  BY <1>5, <1>6 DEF Whole, Queued, SameInput, InteractionAvailable
<1>13. Claims(a, runtime)
  BY <1>6, <1>7 DEF Whole, Sized, Claims
<1>14. CASE a.claimPending
  BY <1>2, <1>10, <1>11, <1>12, <1>13, <1>14, Reschedules
<1>15. CASE ~a.claimPending
  <2>1. Looked(a) => Looked(v)
    BY <1>6, <1>7 DEF Looked
  <2>2. Agrees(v, events, runtime) => Agrees(a, events, runtime)
    BY <1>6, <1>7, <1>10, <1>15 DEF Agrees, Asked, ResizesKept
  <2>3. Sized(a, events, runtime)
    BY <1>13, <2>1, <2>2 DEF Whole, Sized
  <2> QED
    BY <1>2, <1>10, <1>11, <1>12, <1>15, <2>3 DEF Whole, Kept
<1> QED
  BY <1>14, <1>15

\* A view that was detached, and perhaps attached again, starts over: it waits for
\* nothing, and no timer of before is heard.
Blank(w, v) ==
  /\ IsRecord(w) /\ ItemTyped(w) /\ w.epoch > v.epoch /\ ~w.ready
  /\ ~w.desired /\ w.desired \in BOOLEAN /\ w.claimed = FALSE /\ w.pendingFocus = 0
  /\ w.focusRetry = "none" /\ w.focusRefused = FALSE
  /\ w.resizeQueued = FALSE /\ w.resizeRetry = FALSE /\ w.lastSize = 0
  /\ w.pendingResize = NoResize /\ w.claimPending \in BOOLEAN /\ w.resizeRefused = FALSE
  /\ w.passedOver = FALSE
  /\ w.attached /\ w.control /\ w.authority => w.claimPending
  /\ w.queue = <<>> /\ w.inputRetry = FALSE /\ w.inputGeneration = v.inputGeneration + 1
  /\ w.typed = v.typed /\ w.taken = v.typed /\ w.stray = v.stray
  /\ w.timers = v.timers /\ w.sent = <<>> /\ w.refusals = v.refusals

LEMMA StartsOver ==
  ASSUME NEW v, IsView(v), Timed(v), ~v.stray, NEW w, Blank(w, v),
         NEW ev, \A i \in DOMAIN ev : ev[i].id = 0 /\ ev[i].type = "connected"
  PROVE  Whole(w, ev, Unknown)
<1>1. /\ ItemTyped(v) /\ InputTyped(v) /\ OutsideTyped(v)
  BY DEF IsView
<1>2. IsView(w)
  <2>1. FocusTyped(w)
    <3>1. w.claimed \in BOOLEAN /\ w.focusRefused \in BOOLEAN
      BY DEF Blank
    <3>2. w.desired \in BOOLEAN /\ w.pendingFocus = 0 /\ w.focusRetry = "none"
      BY DEF Blank
    <3> QED
      BY <3>1, <3>2 DEF FocusTyped
  <2>2. ResizeTyped(w)
    <3>1. NoResize \in Resizing /\ 0 \in 0 .. SizeLimit
      BY ConstantsAssumption DEF ConstantsAssumption, NoResize, Resizing
    <3> QED
      BY <3>1 DEF Blank, ResizeTyped
  <2>3. InputTyped(w)
    <3>1. Len(w.queue) = 0 /\ w.queue \in Seq(Input) /\ QueueLimit \in Nat
      BY ConstantsAssumption DEF Blank, ConstantsAssumption
    <3>2. w.inputGeneration \in Nat /\ w.typed \in Nat /\ w.taken \in Nat /\ w.stray \in BOOLEAN
      BY <1>1 DEF Blank, InputTyped
    <3>3. w.inputRetry \in BOOLEAN
      BY DEF Blank
    <3> QED
      BY <3>1, <3>2, <3>3 DEF InputTyped
  <2>4. OutsideTyped(w)
    BY <1>1 DEF Blank, OutsideTyped
  <2> QED
    BY <2>1, <2>2, <2>3, <2>4 DEF Blank, IsView
<1>3. Timed(w)
  <2>1. /\ w.timers = v.timers /\ w.epoch > v.epoch /\ v.epoch \in Nat /\ w.epoch \in Nat
        /\ w.inputGeneration = v.inputGeneration + 1 /\ v.inputGeneration \in Nat
    BY <1>2, TimerTypes DEF Blank
  <2>2. \A t \in DOMAIN w.timers : /\ t.epoch \in Nat /\ t.generation \in Nat
                                   /\ t.epoch <= v.epoch /\ t.generation <= v.inputGeneration
    BY <1>2, <2>1, TimerTypes DEF Timed
  <2>3. \A t \in DOMAIN w.timers : /\ t.epoch <= w.epoch /\ t.epoch # w.epoch
                                   /\ t.generation <= w.inputGeneration
    BY <2>1, <2>2
  <2>4. w.focusRetry = "none" /\ ~w.resizeQueued /\ ~w.resizeRetry /\ ~w.inputRetry
    BY DEF Blank
  <2> QED
    BY <2>3, <2>4 DEF Timed, Current, Heard
<1>4. Lined(w, ev, Unknown)
  <2>1. /\ DOMAIN w.sent = {} /\ w.claimed = FALSE /\ w.pendingFocus = 0
        /\ w.pendingResize = NoResize /\ ~Unknown.focused
    BY DEF Blank, Unknown
  <2>2. Numbered(w, ev) /\ Alternating(w, Unknown)
    BY <2>1 DEF Numbered, Alternating
  <2>3. FocusKnown(w, ev, Unknown)
    BY <2>1 DEF FocusKnown, NoFocusSent
  <2>4. ResizeKnown(w, ev, Unknown)
    BY <2>1 DEF ResizeKnown
  <2> QED
    BY <2>2, <2>3, <2>4 DEF Lined
<1>5. Apart(w)
  BY DEF Blank, Apart
<1>6. Wanted(w)
  BY DEF Blank, Wanted
<1>7. Queued(w)
  BY <1>1 DEF Blank, Queued, InputTyped
<1>8. Sized(w, ev, Unknown)
  BY DEF Blank, Sized, Claims, Looked
<1> QED
  BY <1>2, <1>3, <1>4, <1>5, <1>6, <1>7, <1>8 DEF Whole

\* detach, and attach, which detaches first, leave such a view.
LEMMA Detaches ==
  ASSUME NEW v, IsView(v), v.epoch < EpochLimit, NEW w, w = Detached(v)
  PROVE  Blank(w, v) /\ ~w.attached /\ w.epoch = v.epoch + 1
<1>1. /\ IsRecord(v) /\ ItemTyped(v) /\ v.epoch \in Nat /\ EpochLimit \in Nat
      /\ v.epoch < EpochLimit
  BY ConstantsAssumption DEF IsView, ItemTyped, ConstantsAssumption
<1>2. IsRecord(w)
  BY <1>1 DEF Detached, ClearPendingInput, IsRecord, Names
<1>3. /\ w.activeFocus = v.activeFocus /\ w.shown = v.shown /\ w.enabled = v.enabled
      /\ w.size = v.size /\ w.epoch = v.epoch + 1 /\ w.attached = FALSE /\ w.ready = FALSE
      /\ w.control = v.control /\ w.authority = v.authority
  BY <1>1 DEF Detached, ClearPendingInput, IsRecord, Names
<1>4. /\ w.desired = FALSE /\ w.claimed = FALSE /\ w.pendingFocus = 0
      /\ w.focusRetry = "none" /\ w.focusRefused = FALSE
  BY <1>1 DEF Detached, ClearPendingInput, IsRecord, Names
<1>5. /\ w.resizeQueued = FALSE /\ w.resizeRetry = FALSE /\ w.lastSize = 0
      /\ w.pendingResize = NoResize /\ w.claimPending = FALSE /\ w.resizeRefused = FALSE
      /\ w.passedOver = FALSE
  BY <1>1 DEF Detached, ClearPendingInput, IsRecord, Names
<1>6. /\ w.queue = <<>> /\ w.inputRetry = FALSE /\ w.inputGeneration = v.inputGeneration + 1
      /\ w.typed = v.typed /\ w.taken = v.typed /\ w.stray = v.stray
  BY <1>1 DEF Detached, ClearPendingInput, IsRecord, Names
<1>7. w.timers = v.timers /\ w.sent = <<>> /\ w.refusals = v.refusals
  BY <1>1 DEF Detached, ClearPendingInput, IsRecord, Names
<1>8. ItemTyped(w) /\ w.epoch > v.epoch
  <2>1. v.epoch + 1 \in 0 .. EpochLimit /\ v.epoch + 1 > v.epoch
    BY ONLY <1>1
  <2>2. w.attached \in BOOLEAN /\ w.ready \in BOOLEAN
    BY ONLY <1>3
  <2> QED
    BY ONLY <1>1, <1>3, <2>1, <2>2 DEF ItemTyped
<1> QED
  BY <1>2, <1>3, <1>4, <1>5, <1>6, <1>7, <1>8 DEF Blank

LEMMA Attaches ==
  ASSUME NEW v, IsView(v), v.epoch + 2 <= EpochLimit, NEW w, w = Attached(Detached(v))
  PROVE  Blank(w, v)
<1>1. v.epoch \in Nat /\ EpochLimit \in Nat
  BY ConstantsAssumption DEF IsView, ItemTyped, ConstantsAssumption
<1>2. PICK d : d = Detached(v)
  OBVIOUS
<1>3. Blank(d, v) /\ d.epoch = v.epoch + 1
  BY <1>1, <1>2, Detaches
<1>4. /\ IsRecord(d) /\ ItemTyped(d) /\ w = Attached(d)
  BY <1>2, <1>3 DEF Blank
<1>5. IsRecord(w)
  BY <1>4 DEF Attached, IsRecord, Names
<1>6. /\ w.activeFocus = d.activeFocus /\ w.shown = d.shown /\ w.enabled = d.enabled
      /\ w.size = d.size /\ w.epoch = d.epoch + 1 /\ w.attached = TRUE /\ w.ready = d.ready
      /\ w.control = d.control /\ w.authority = d.authority
  BY ONLY <1>4 DEF Attached, IsRecord, Names
<1>7. SameFocus(d, w) /\ SameInput(d, w) /\ SameOutside(d, w)
  <2>1. SameFocus(d, w)
    BY ONLY <1>4 DEF Attached, IsRecord, Names, SameFocus
  <2>2. SameInput(d, w)
    BY ONLY <1>4 DEF Attached, IsRecord, Names, SameInput
  <2>3. SameOutside(d, w)
    BY ONLY <1>4 DEF Attached, IsRecord, Names, SameOutside
  <2> QED
    BY <2>1, <2>2, <2>3
<1>8. /\ w.resizeQueued = d.resizeQueued /\ w.resizeRetry = d.resizeRetry
      /\ w.lastSize = d.lastSize /\ w.pendingResize = d.pendingResize
      /\ w.claimPending = (d.authority /\ d.control) /\ w.resizeRefused = d.resizeRefused
      /\ w.passedOver = d.passedOver
  BY ONLY <1>4 DEF Attached, IsRecord, Names
<1>9. w.claimPending \in BOOLEAN
  BY <1>4, <1>8 DEF ItemTyped
<1>10. ItemTyped(w) /\ w.epoch > v.epoch
  <2>1. v.epoch + 2 <= EpochLimit /\ w.epoch = v.epoch + 2
    BY <1>1, <1>3, <1>6
  <2>2. w.epoch \in 0 .. EpochLimit /\ w.epoch > v.epoch
    BY ONLY <1>1, <2>1
  <2>3. w.attached \in BOOLEAN
    BY ONLY <1>6
  <2> QED
    BY ONLY <1>4, <1>6, <2>2, <2>3 DEF ItemTyped
<1> QED
  BY <1>3, <1>5, <1>6, <1>7, <1>8, <1>9, <1>10
     DEF Blank, SameFocus, SameInput, SameOutside

-----------------------------------------------------------------------------
(* Timers that fire.                                                        *)

\* A timer is taken, and with it the flag that it was coming for.
LEMMA TimerTaken ==
  ASSUME NEW v, Kept(v), NEW timer \in DOMAIN v.timers,
         NEW w, IsView(w), SameItem(v, w), w.sent = v.sent,
         w.timers = v.timers (-) SetToBag({timer}),
         w.claimed = v.claimed, w.pendingFocus = v.pendingFocus,
         w.pendingResize = v.pendingResize, w.inputGeneration = v.inputGeneration,
         \/ w.focusRetry = v.focusRetry /\ ~Heard(v, timer, "focusRetry")
         \/ w.focusRetry = "none",
         w.resizeQueued => v.resizeQueued /\ ~Heard(v, timer, "resize"),
         w.resizeRetry => v.resizeRetry /\ ~Heard(v, timer, "resizeRetry"),
         \/ ~Current(v, timer) /\ (w.inputRetry <=> v.inputRetry)
         \/ Current(v, timer) /\ ~w.inputRetry
  PROVE  Kept(w) /\ ResizesKept(v, w)
<1>1. /\ IsView(v) /\ Timed(v) /\ v.timers \in TimerBag
  BY DEF Kept, IsView, OutsideTyped
<1>2. /\ DOMAIN w.timers = IF v.timers[timer] = 1 THEN DOMAIN v.timers \ {timer}
                                                  ELSE DOMAIN v.timers
      /\ \A t \in DOMAIN v.timers : t # timer => w.timers[t] = v.timers[t]
  BY <1>1, BagRemoves, Z3
<1>3. w.epoch = v.epoch
  BY DEF SameItem
<1>4. \A does : Comes(v, does) /\ ~Heard(v, timer, does) => Comes(w, does)
  BY <1>2, <1>3 DEF Comes, Heard
<1>5. \A t \in DOMAIN v.timers : Current(v, t) /\ Current(v, timer) => t = timer
  BY <1>1, TimerTypes DEF Current, Heard, Timer
<1>6. \A t : Current(w, t) <=> Current(v, t)
  BY <1>3 DEF Current, Heard
<1>7. Timed(w)
  <2>1. \A t \in DOMAIN w.timers : t.epoch <= w.epoch /\ t.generation <= w.inputGeneration
    BY <1>1, <1>2, <1>3 DEF Timed
  <2>2. /\ w.focusRetry # "none" => Comes(w, "focusRetry")
        /\ w.resizeQueued => Comes(w, "resize")
        /\ w.resizeRetry => Comes(w, "resizeRetry")
    BY <1>1, <1>4 DEF Timed
  <2>3. w.inputRetry => \E t \in DOMAIN w.timers : Current(w, t)
    BY <1>1, <1>2, <1>6 DEF Timed
  <2>4. \A t \in DOMAIN w.timers : Current(w, t) => w.inputRetry /\ w.timers[t] = 1
    <3> SUFFICES ASSUME NEW t \in DOMAIN w.timers, Current(w, t)
                 PROVE  w.inputRetry /\ w.timers[t] = 1
      OBVIOUS
    <3>1. t \in DOMAIN v.timers /\ Current(v, t) /\ v.inputRetry /\ v.timers[t] = 1
      BY <1>1, <1>2, <1>6 DEF Timed
    <3>2. t # timer
      BY <1>2, <3>1
    <3> QED
      BY <1>2, <1>5, <3>1, <3>2
  <2> QED
    BY <2>1, <2>2, <2>3, <2>4 DEF Timed
<1>8. Lined(w, events, runtime)
  BY LineSame DEF Kept
<1>9. Apart(w)
  BY DEF Kept, Apart, SameItem
<1>10. ResizesKept(v, w)
  BY ResizesKeptSame
<1> QED
  BY <1>7, <1>8, <1>9, <1>10 DEF Kept

\* The bag of timers without one keeps its type.
LEMMA TimersTyped ==
  ASSUME NEW v, IsView(v), NEW timer \in DOMAIN v.timers, NEW w,
         w.timers = v.timers (-) SetToBag({timer}), w.sent = v.sent, w.refusals = v.refusals
  PROVE  OutsideTyped(w)
<1>1. v.timers \in TimerBag
  BY DEF IsView, OutsideTyped
<1>2. /\ w.timers \in TimerBag
      /\ DOMAIN w.timers = IF v.timers[timer] = 1 THEN DOMAIN v.timers \ {timer}
                                                  ELSE DOMAIN v.timers
  BY <1>1, BagRemoves, Z3
<1> QED
  BY <1>2 DEF IsView, OutsideTyped

\* One that is not heard any more does nothing.
LEMMA TimerStale ==
  ASSUME NEW v, Whole(v, events, runtime), NEW timer \in DOMAIN v.timers,
         ~Current(v, timer), timer.epoch = v.epoch => timer.does = "inputRetry",
         NEW w, w = [v EXCEPT !.timers = @ (-) SetToBag({timer})]
  PROVE  Whole(w, events, runtime)
<1>1. Kept(v) /\ IsView(v) /\ IsRecord(v)
  BY DEF Whole, Kept, IsView
<1>2. IsRecord(w) /\ SameItem(v, w) /\ SameFocus(v, w)
  BY <1>1 DEF IsRecord, Names, SameItem, SameFocus
<1>3. /\ SameResize(v, w) /\ SameInput(v, w) /\ w.sent = v.sent /\ w.refusals = v.refusals
      /\ w.timers = v.timers (-) SetToBag({timer})
  BY <1>1 DEF IsRecord, Names, SameResize, SameInput
<1>4. IsView(w)
  BY <1>1, <1>2, <1>3, SameTyped, TimersTyped DEF IsView
<1>5. /\ ~Heard(v, timer, "focusRetry") /\ ~Heard(v, timer, "resize")
      /\ ~Heard(v, timer, "resizeRetry")
  BY DEF Heard
<1>6. Kept(w) /\ ResizesKept(v, w)
  BY <1>1, <1>2, <1>3, <1>4, <1>5, TimerTaken DEF SameFocus, SameResize, SameInput
<1>7. SameSizing(v, w)
  BY <1>2 DEF SameItem, SameSizing
<1> QED
  BY <1>2, <1>3, <1>6, <1>7, WantedSame, QueuedSame, SizedSame DEF Whole, Kept

\* The retry of a focus or a blur: it is sent unless there is nothing to be sent any
\* more.
LEMMA FocusTimerFires ==
  ASSUME NEW v, Whole(v, events, runtime), events \in Seq(Posted),
         NEW timer \in DOMAIN v.timers, Heard(v, timer, "focusRetry"),
         NEW u, u = [[v EXCEPT !.timers = @ (-) SetToBag({timer})] EXCEPT !.focusRetry = "none"],
         NEW w, \/ v.focusRetry = "none" /\ w = u
                \/ v.focusRetry = "focus" /\ w \in DispatchFocus(u)
                \/ v.focusRetry = "blur" /\ w \in DispatchBlur(u)
  PROVE  Whole(w, events, runtime)
<1>1. Kept(v) /\ IsView(v) /\ IsRecord(v) /\ FocusTyped(v) /\ Wanted(v)
  BY DEF Whole, Kept, IsView
<1>2. /\ IsRecord(u) /\ SameItem(v, u) /\ u.desired = v.desired /\ u.claimed = v.claimed
      /\ u.pendingFocus = v.pendingFocus /\ u.focusRetry = "none"
      /\ u.focusRefused = v.focusRefused
  BY <1>1 DEF IsRecord, Names, SameItem
<1>3. /\ SameResize(v, u) /\ SameInput(v, u) /\ u.sent = v.sent /\ u.refusals = v.refusals
      /\ u.timers = v.timers (-) SetToBag({timer})
  BY <1>1 DEF IsRecord, Names, SameResize, SameInput
<1>4. IsView(u)
  <2>1. FocusTyped(u)
    BY <1>1, <1>2 DEF FocusTyped
  <2>2. OutsideTyped(u)
    BY <1>1, <1>3, TimersTyped
  <2> QED
    BY <1>1, <1>2, <1>3, <2>1, <2>2, SameTyped DEF IsView
<1>5. /\ ~Current(v, timer) /\ ~Heard(v, timer, "resize") /\ ~Heard(v, timer, "resizeRetry")
  BY DEF Current, Heard
<1>6. Kept(u) /\ ResizesKept(v, u)
  BY ONLY <1>1, <1>2, <1>3, <1>4, <1>5, timer \in DOMAIN v.timers, TimerTaken
     DEF SameResize, SameInput
<1>7. Queued(u) /\ Sized(u, events, runtime)
  <2>1. SameSizing(v, u)
    BY <1>2 DEF SameItem, SameSizing
  <2> QED
    BY <1>2, <1>3, <1>6, <2>1, QueuedSame, SizedSame DEF Whole
<1>8. CASE v.focusRetry = "none" /\ w = u
  <2>1. SameFocus(v, u)
    BY <1>2, <1>8 DEF SameFocus
  <2> QED
    BY <1>1, <1>2, <1>6, <1>7, <1>8, <2>1, WantedSame DEF Whole, Kept
<1>9. CASE v.focusRetry = "focus" /\ w \in DispatchFocus(u)
  <2>1. FocusDue(u)
    BY <1>1, <1>2, <1>9 DEF FocusDue, Wanted, SameItem, InteractionAvailable
  <2>2. Kept(w) /\ FocusOnly(u, w) /\ Wanted(w)
    BY <1>6, <1>9, <2>1, FocusDispatched
  <2> QED
    BY <1>7, <2>2, FocusFollows DEF Whole, Kept
<1>10. CASE v.focusRetry = "blur" /\ w \in DispatchBlur(u)
  <2>1. BlurDue(u)
    BY <1>1, <1>2 DEF BlurDue, Wanted, SameItem, InteractionAvailable
  <2>2. Kept(w) /\ FocusOnly(u, w) /\ Wanted(w)
    BY <1>6, <1>10, <2>1, BlurDispatched
  <2> QED
    BY <1>7, <2>2, FocusFollows DEF Whole, Kept
<1> QED
  BY <1>8, <1>9, <1>10

\* The look at the size, first or again.
LEMMA ResizeTimerFires ==
  ASSUME NEW v, Whole(v, events, runtime), events \in Seq(Posted),
         NEW timer \in DOMAIN v.timers,
         NEW u, \/ /\ Heard(v, timer, "resize")
                   /\ u = [[v EXCEPT !.timers = @ (-) SetToBag({timer})]
                             EXCEPT !.resizeQueued = FALSE]
                \/ /\ Heard(v, timer, "resizeRetry")
                   /\ u = [[v EXCEPT !.timers = @ (-) SetToBag({timer})]
                             EXCEPT !.resizeRetry = FALSE],
         NEW w, w \in DispatchResize(u)
  PROVE  Whole(w, events, runtime)
<1>1. /\ Kept(v) /\ IsView(v) /\ IsRecord(v) /\ ResizeTyped(v) /\ Wanted(v) /\ Queued(v)
      /\ Claims(v, runtime)
  BY DEF Whole, Kept, IsView, Sized
<1>2. IsRecord(u) /\ SameItem(v, u) /\ SameFocus(v, u)
  <2>1. IsRecord(u)
    BY <1>1 DEF IsRecord, Names
  <2>2. SameItem(v, u)
    <3>1. CASE u = [[v EXCEPT !.timers = @ (-) SetToBag({timer})]
                      EXCEPT !.resizeQueued = FALSE]
      BY ONLY <1>1, <3>1 DEF IsRecord, Names, SameItem
    <3>2. CASE u = [[v EXCEPT !.timers = @ (-) SetToBag({timer})]
                      EXCEPT !.resizeRetry = FALSE]
      BY ONLY <1>1, <3>2 DEF IsRecord, Names, SameItem
    <3> QED
      BY <3>1, <3>2
  <2>3. SameFocus(v, u)
    <3>1. CASE u = [[v EXCEPT !.timers = @ (-) SetToBag({timer})]
                      EXCEPT !.resizeQueued = FALSE]
      BY ONLY <1>1, <3>1 DEF IsRecord, Names, SameFocus
    <3>2. CASE u = [[v EXCEPT !.timers = @ (-) SetToBag({timer})]
                      EXCEPT !.resizeRetry = FALSE]
      BY ONLY <1>1, <3>2 DEF IsRecord, Names, SameFocus
    <3> QED
      BY <3>1, <3>2
  <2> QED
    BY <2>1, <2>2, <2>3
<1>3. /\ SameInput(v, u) /\ u.sent = v.sent /\ u.refusals = v.refusals
      /\ u.timers = v.timers (-) SetToBag({timer})
  BY <1>1 DEF IsRecord, Names, SameInput
<1>4. /\ u.lastSize = v.lastSize /\ u.pendingResize = v.pendingResize
      /\ u.claimPending = v.claimPending /\ u.resizeRefused = v.resizeRefused
      /\ u.passedOver = v.passedOver
  BY <1>1 DEF IsRecord, Names
<1>5. \/ /\ Heard(v, timer, "resize")
         /\ u.resizeQueued = FALSE /\ u.resizeRetry = v.resizeRetry
      \/ /\ Heard(v, timer, "resizeRetry")
         /\ u.resizeRetry = FALSE /\ u.resizeQueued = v.resizeQueued
  BY <1>1 DEF IsRecord, Names
<1>6. IsView(u)
  <2>1. u.resizeQueued \in BOOLEAN /\ u.resizeRetry \in BOOLEAN
    BY ONLY <1>1, <1>5 DEF ResizeTyped
  <2>2. ResizeTyped(u)
    BY ONLY <1>1, <1>4, <2>1 DEF ResizeTyped
  <2>3. OutsideTyped(u)
    BY ONLY <1>1, <1>3, timer \in DOMAIN v.timers, TimersTyped
  <2> QED
    BY ONLY <1>1, <1>2, <1>3, <2>2, <2>3, SameTyped DEF IsView
<1>7. /\ ~Current(v, timer) /\ ~Heard(v, timer, "focusRetry")
      /\ u.resizeQueued => v.resizeQueued /\ ~Heard(v, timer, "resize")
      /\ u.resizeRetry => v.resizeRetry /\ ~Heard(v, timer, "resizeRetry")
  BY ONLY <1>5 DEF Current, Heard
<1>8. Kept(u)
  BY ONLY <1>1, <1>2, <1>3, <1>4, <1>6, <1>7, timer \in DOMAIN v.timers, TimerTaken
     DEF SameFocus, SameInput
<1>9. Claims(u, runtime)
  BY ONLY <1>1, <1>2, <1>4 DEF Claims, SameItem
<1>10. /\ Kept(w) /\ SameItem(u, w) /\ SameFocus(u, w) /\ SameInput(u, w)
       /\ Sized(w, events, runtime)
  BY <1>8, <1>9, ResizeDispatched
<1>11. Wanted(w) /\ Queued(w)
  BY ONLY <1>1, <1>2, <1>3, <1>10, WantedSame, QueuedSame
<1> QED
  BY ONLY <1>10, <1>11 DEF Whole, Kept

\* The retry of the input.
LEMMA InputTimerFires ==
  ASSUME NEW v, Whole(v, events, runtime), NEW timer \in DOMAIN v.timers, Current(v, timer),
         NEW u, u = [[v EXCEPT !.timers = @ (-) SetToBag({timer})] EXCEPT !.inputRetry = FALSE],
         NEW w, w \in DrainInputQueue(u)
  PROVE  Whole(w, events, runtime)
<1>1. /\ Kept(v) /\ IsView(v) /\ IsRecord(v) /\ InputTyped(v) /\ Wanted(v) /\ Queued(v)
      /\ Sized(v, events, runtime)
  BY DEF Whole, Kept, IsView
<1>2. /\ IsRecord(u) /\ SameItem(v, u) /\ SameFocus(v, u)
  BY <1>1 DEF IsRecord, Names, SameItem, SameFocus
<1>3. /\ SameResize(v, u) /\ u.sent = v.sent /\ u.refusals = v.refusals
      /\ u.timers = v.timers (-) SetToBag({timer})
  BY <1>1 DEF IsRecord, Names, SameResize
<1>4. /\ u.queue = v.queue /\ u.inputRetry = FALSE /\ u.inputGeneration = v.inputGeneration
      /\ u.typed = v.typed /\ u.taken = v.taken /\ u.stray = v.stray
  BY <1>1 DEF IsRecord, Names
<1>5. IsView(u)
  <2>1. u.inputRetry \in BOOLEAN
    BY ONLY <1>4
  <2>2. InputTyped(u)
    BY ONLY <1>1, <1>4, <2>1 DEF InputTyped
  <2>3. OutsideTyped(u)
    BY ONLY <1>1, <1>3, timer \in DOMAIN v.timers, TimersTyped
  <2> QED
    BY ONLY <1>1, <1>2, <1>3, <2>2, <2>3, SameTyped DEF IsView
<1>6. /\ Current(v, timer) /\ ~Heard(v, timer, "focusRetry") /\ ~Heard(v, timer, "resize")
      /\ ~Heard(v, timer, "resizeRetry")
  BY DEF Current, Heard
<1>7. Kept(u) /\ ResizesKept(v, u)
  BY ONLY <1>1, <1>2, <1>3, <1>4, <1>5, <1>6, timer \in DOMAIN v.timers, TimerTaken
     DEF SameFocus, SameResize
<1>8. Queueing(u)
  BY ONLY <1>1, <1>2, <1>4 DEF Queued, Queueing, SameItem, InteractionAvailable
<1>9. /\ Kept(w) /\ SameItem(u, w) /\ SameFocus(u, w) /\ SameResize(u, w)
      /\ ResizesKept(u, w) /\ Queued(w)
  BY <1>7, <1>8, Drains
<1>10. Sized(w, events, runtime)
  <2>1. SameSizing(v, u) /\ SameSizing(u, w)
    BY ONLY <1>2, <1>9 DEF SameItem, SameSizing
  <2> QED
    BY ONLY <1>1, <1>3, <1>7, <1>9, <2>1, SizedSame
<1>11. Wanted(w)
  BY ONLY <1>1, <1>2, <1>9, WantedSame
<1> QED
  BY ONLY <1>9, <1>10, <1>11 DEF Whole, Kept

-----------------------------------------------------------------------------
(* Outcomes that arrive.                                                    *)

\* What is left of a list without its first.
LEMMA Tails ==
  ASSUME NEW S, NEW s \in Seq(S), s # <<>>
  PROVE  \E n \in Nat : /\ DOMAIN s = 1 .. n + 1 /\ DOMAIN Tail(s) = 1 .. n
                        /\ \A k \in 1 .. n : Tail(s)[k] = s[k + 1]
                        /\ Tail(s) \in Seq(S) /\ Head(s) = s[1] /\ Head(s) \in S
<1>1. PICK m \in Nat : m = Len(s)
  OBVIOUS
<1>2. m # 0
  BY <1>1
<1>3. m - 1 \in Nat /\ (m - 1) + 1 = m
  BY <1>2
<1>4. /\ DOMAIN s = 1 .. m /\ Len(Tail(s)) = m - 1 /\ Tail(s) \in Seq(S)
      /\ DOMAIN Tail(s) = 1 .. m - 1
      /\ \A k \in 1 .. m - 1 : Tail(s)[k] = s[k + 1]
      /\ Head(s) = s[1] /\ Head(s) \in S
  BY <1>1
<1> QED
  BY <1>3, <1>4

\* An outcome that the view does not wait for is dropped.
LEMMA Drops ==
  ASSUME NEW v, NEW ev \in Seq(Posted), NEW rt, ev # <<>>, Lined(v, ev, rt),
         NEW event, event = Head(ev),
         event.type = "focus" => event.id # v.pendingFocus,
         event.type = "resize" => event.id # v.pendingResize.id \/ v.pendingResize = NoResize,
         NEW rest, rest = Tail(ev)
  PROVE  /\ Lined(v, rest, rt)
         /\ v.pendingResize # NoResize =>
              \A applied : ResizeTold(v, ev, rt, applied) => ResizeTold(v, rest, rt, applied)
<1>1. PICK n \in Nat : /\ DOMAIN ev = 1 .. n + 1 /\ DOMAIN rest = 1 .. n
                       /\ \A k \in 1 .. n : rest[k] = ev[k + 1]
                       /\ event = ev[1]
  <2>1. \E n \in Nat : /\ DOMAIN ev = 1 .. n + 1 /\ DOMAIN Tail(ev) = 1 .. n
                       /\ \A k \in 1 .. n : Tail(ev)[k] = ev[k + 1]
                       /\ Tail(ev) \in Seq(Posted) /\ Head(ev) = ev[1] /\ Head(ev) \in Posted
    BY ONLY ev \in Seq(Posted), ev # <<>>, Tails
  <2> QED
    BY <2>1
<1>2. \A k \in DOMAIN rest : k + 1 \in DOMAIN ev /\ rest[k] = ev[k + 1]
  BY <1>1
<1>3. \A i \in DOMAIN ev : i = 1 \/ (i - 1 \in DOMAIN rest /\ ev[i] = rest[i - 1])
  <2> SUFFICES ASSUME NEW i \in DOMAIN ev, i # 1
               PROVE  i - 1 \in DOMAIN rest /\ ev[i] = rest[i - 1]
    OBVIOUS
  <2>1. i - 1 \in 1 .. n /\ (i - 1) + 1 = i
    BY <1>1
  <2> QED
    BY <1>1, <2>1
<1>a. 1 \in DOMAIN ev /\ \A i, j \in DOMAIN rest : i + 1 = j + 1 => i = j
  BY <1>1
<1>4. Numbered(v, rest)
  BY <1>2 DEF Lined, Numbered
<1>5. \A id : Tells(rest, id) => Tells(ev, id)
  BY <1>2 DEF Tells
<1>6. \A i \in DOMAIN ev : i # 1 => i - 1 \in DOMAIN rest /\ ev[i] = rest[i - 1]
  BY <1>3
<1>7. FocusKnown(v, rest, rt)
  <2>1. FocusSent(v, ev) => FocusSent(v, rest)
    BY <1>5 DEF FocusSent
  <2>2. ASSUME FocusTold(v, ev, rt)
        PROVE  FocusTold(v, rest, rt)
    <3>1. PICK i \in DOMAIN ev :
            /\ ev[i].type = "focus" /\ ev[i].id = v.pendingFocus /\ ev[i].applied = rt.focused
            /\ \A j \in DOMAIN ev : ev[j].id = v.pendingFocus => j = i
      BY <2>2 DEF FocusTold
    <3>2. i # 1
      BY <1>1, <3>1
    <3>3. PICK h \in DOMAIN rest : h + 1 = i /\ ev[i] = rest[h]
      <4>1. i - 1 \in DOMAIN rest /\ ev[i] = rest[i - 1] /\ (i - 1) + 1 = i
        BY <1>1, <1>6, <3>2
      <4> QED
        BY <4>1
    <3>4. \A j \in DOMAIN rest : rest[j].id = v.pendingFocus => j = h
      BY <1>2, <1>a, <3>1, <3>3
    <3> QED
      BY <2>2, <3>1, <3>3, <3>4 DEF FocusTold
  <2> QED
    BY <2>1, <2>2 DEF Lined, FocusKnown
<1>8. ASSUME v.pendingResize # NoResize, NEW applied, ResizeTold(v, ev, rt, applied)
      PROVE  ResizeTold(v, rest, rt, applied)
  <2>1. PICK i \in DOMAIN ev :
          /\ ev[i].type = "resize" /\ ev[i].id = v.pendingResize.id /\ ev[i].applied = applied
          /\ applied => rt.size = v.pendingResize.size /\ (v.pendingResize.claim => rt.claimed)
          /\ \A j \in DOMAIN ev : ev[j].id = v.pendingResize.id => j = i
    BY <1>8 DEF ResizeTold
  <2>2. i # 1
    BY <1>1, <1>8, <2>1
  <2>3. PICK h \in DOMAIN rest : h + 1 = i /\ ev[i] = rest[h]
    <3>1. i - 1 \in DOMAIN rest /\ ev[i] = rest[i - 1] /\ (i - 1) + 1 = i
      BY <1>1, <1>6, <2>2
    <3> QED
      BY <3>1
  <2>4. \A j \in DOMAIN rest : rest[j].id = v.pendingResize.id => j = h
    BY <1>2, <1>a, <2>1, <2>3
  <2> QED
    BY <1>8, <2>1, <2>3, <2>4 DEF ResizeTold
<1>9. ResizeKnown(v, rest, rt)
  <2>1. ResizeSent(v, ev) => ResizeSent(v, rest)
    BY <1>5 DEF ResizeSent
  <2> QED
    BY <1>8, <2>1 DEF Lined, ResizeKnown
<1> QED
  BY <1>4, <1>7, <1>8, <1>9 DEF Lined

\* So the view is left as it was.
LEMMA WholeDrops ==
  ASSUME NEW v, NEW ev \in Seq(Posted), NEW rt, ev # <<>>, Whole(v, ev, rt),
         NEW event, event = Head(ev),
         event.type = "focus" => event.id # v.pendingFocus,
         event.type = "resize" => event.id # v.pendingResize.id \/ v.pendingResize = NoResize,
         NEW rest, rest = Tail(ev)
  PROVE  Whole(v, rest, rt)
<1>1. /\ Lined(v, rest, rt)
      /\ v.pendingResize # NoResize => (ResizeTold(v, ev, rt, FALSE) => ResizeTold(v, rest, rt, FALSE))
  BY Drops DEF Whole
<1>2. Sized(v, rest, rt)
  BY <1>1 DEF Whole, Sized, Agrees
<1> QED
  BY <1>1, <1>2 DEF Whole

\* What handleFocusOutcome makes of the outcome that is waited for.
Answered(v, event) ==
  [v EXCEPT !.pendingFocus = 0, !.claimed = event.applied,
            !.focusRefused = @ \/ ~event.applied]

\* The outcome of the focus that is waited for says what the runtime has.
LEMMA FocusHeard ==
  ASSUME NEW v, Whole(v, events, runtime), events \in Seq(Posted), events # <<>>,
         NEW event, event = Head(events), event.type = "focus", event.id = v.pendingFocus,
         NEW w, w = Answered(v, event)
  PROVE  Whole(w, events, runtime) /\ w.pendingFocus = 0 /\ w.pendingResize = v.pendingResize
<1>1. /\ Kept(v) /\ IsView(v) /\ IsRecord(v) /\ FocusTyped(v) /\ Wanted(v)
      /\ Lined(v, events, runtime)
  BY DEF Whole, Kept, IsView
<1>2. 1 \in DOMAIN events /\ event = events[1] /\ event \in Posted
  BY Tails
<1>3. event.applied \in BOOLEAN /\ event.id # 0
  BY <1>1, <1>2 DEF Posted, Lined, Numbered
<1>4. IsRecord(w) /\ SameItem(v, w)
  BY <1>1 DEF Answered, IsRecord, Names, SameItem
<1>5. SameResize(v, w) /\ SameInput(v, w)
  BY <1>1 DEF Answered, IsRecord, Names, SameResize, SameInput
<1>6. SameOutside(v, w)
  BY <1>1 DEF Answered, IsRecord, Names, SameOutside
<1>7. /\ w.desired = v.desired /\ w.claimed = event.applied /\ w.pendingFocus = 0
      /\ w.focusRetry = v.focusRetry /\ w.focusRefused = (v.focusRefused \/ ~event.applied)
  BY <1>1 DEF Answered, IsRecord, Names
<1>8. IsView(w)
  <2>1. FocusTyped(w)
    BY ONLY <1>1, <1>3, <1>7 DEF FocusTyped
  <2> QED
    BY ONLY <1>1, <1>4, <1>5, <1>6, <2>1, SameTyped DEF IsView
<1>9. Timed(w)
  <2>1. Grows(v, w, {})
    BY ONLY <1>6 DEF Grows, SameOutside
  <2> QED
    BY ONLY <1>1, <1>4, <1>5, <1>7, <2>1, TimedGrows DEF Kept, SameItem, SameResize, SameInput
<1>10. NoFocusSent(v) /\ event.applied = runtime.focused
  <2>1. Tells(events, v.pendingFocus) /\ v.pendingFocus # 0
    BY <1>2, <1>3 DEF Tells
  <2>2. FocusTold(v, events, runtime)
    BY <1>1, <2>1 DEF Lined, FocusKnown, FocusSent
  <2>3. NoFocusSent(v) /\ \E i \in DOMAIN events :
          /\ events[i].applied = runtime.focused
          /\ \A j \in DOMAIN events : events[j].id = v.pendingFocus => j = i
    BY ONLY <2>2 DEF FocusTold
  <2>4. events[1].id = v.pendingFocus
    BY <1>2
  <2> QED
    BY ONLY <1>2, <2>3, <2>4
<1>11. Lined(w, events, runtime)
  <2>1. w.sent = v.sent /\ w.pendingResize = v.pendingResize
    BY ONLY <1>5, <1>6 DEF SameResize, SameOutside
  <2>2. Numbered(w, events) /\ Alternating(w, runtime)
    BY ONLY <1>1, <2>1 DEF Lined, Numbered, Alternating
  <2>3. FocusKnown(w, events, runtime)
    BY ONLY <1>7, <1>10, <2>1 DEF FocusKnown, NoFocusSent
  <2>4. ResizeKnown(w, events, runtime)
    BY ONLY <1>1, <2>1 DEF Lined, ResizeKnown, ResizeSent, ResizeTold, LastResize, Sends,
                           NoResizeSent
  <2> QED
    BY ONLY <2>2, <2>3, <2>4 DEF Lined
<1>12. v.pendingFocus # 0
  BY <1>3
<1>13. Apart(w)
  BY ONLY <1>1, <1>4, <1>12 DEF Kept, Apart, SameItem
<1>14. Wanted(w)
  BY ONLY <1>1, <1>3, <1>4, <1>7, <1>12 DEF Wanted, SameItem, InteractionAvailable
<1>15. Queued(w) /\ Sized(w, events, runtime)
  <2>1. SameSizing(v, w)
    BY ONLY <1>4 DEF SameItem, SameSizing
  <2>2. ResizesKept(v, w)
    BY ONLY <1>5, <1>6, ResizesKeptSame DEF SameResize, SameOutside
  <2> QED
    BY <1>4, <1>5, <2>1, <2>2, QueuedSame, SizedSame DEF Whole
<1>16. w.pendingResize = v.pendingResize
  BY ONLY <1>5 DEF SameResize
<1> QED
  BY ONLY <1>7, <1>8, <1>9, <1>11, <1>13, <1>14, <1>15, <1>16 DEF Whole

\* What handleResizeOutcome makes of the outcome that is waited for.
Resolved(v, event) ==
  [v EXCEPT
     !.lastSize = IF event.applied THEN v.pendingResize.size ELSE @,
     !.claimPending = @ /\ ~(event.applied /\ v.pendingResize.claim),
     !.resizeRefused = ~event.applied,
     !.pendingResize = NoResize]

\* The outcome of the resize that is waited for says what size the runtime has, or
\* that it was rejected; a claim that was not made with it is made with another.
LEMMA ResizeHeard ==
  ASSUME NEW v, Whole(v, events, runtime), events \in Seq(Posted), events # <<>>,
         NEW event, event = Head(events), event.type = "resize",
         v.pendingResize # NoResize, event.id = v.pendingResize.id,
         NEW w, w = IF ~v.pendingResize.claim /\ Resolved(v, event).claimPending
                    THEN ScheduleResize(Resolved(v, event)) ELSE Resolved(v, event)
  PROVE  Whole(w, events, runtime) /\ w.pendingResize = NoResize
<1>1. /\ Kept(v) /\ IsView(v) /\ IsRecord(v) /\ ResizeTyped(v) /\ Wanted(v) /\ Queued(v)
      /\ Lined(v, events, runtime) /\ Sized(v, events, runtime)
  BY DEF Whole, Kept, IsView
<1>2. 1 \in DOMAIN events /\ event = events[1] /\ event \in Posted
  BY Tails
<1>3. event.applied \in BOOLEAN
  BY <1>2 DEF Posted
<1>4. PICK d : d = Resolved(v, event)
  OBVIOUS
<1>5. w = IF ~v.pendingResize.claim /\ d.claimPending THEN ScheduleResize(d) ELSE d
  BY <1>4
<1>6. IsRecord(d) /\ SameItem(v, d)
  BY ONLY <1>1, <1>4 DEF Resolved, IsRecord, Names, SameItem
<1>7. SameFocus(v, d) /\ SameInput(v, d)
  BY ONLY <1>1, <1>4 DEF Resolved, IsRecord, Names, SameFocus, SameInput
<1>8. SameOutside(v, d)
  BY ONLY <1>1, <1>4 DEF Resolved, IsRecord, Names, SameOutside
<1>9. /\ d.resizeQueued = v.resizeQueued /\ d.resizeRetry = v.resizeRetry
      /\ d.lastSize = (IF event.applied THEN v.pendingResize.size ELSE v.lastSize)
      /\ d.pendingResize = NoResize
      /\ d.claimPending = (v.claimPending /\ ~(event.applied /\ v.pendingResize.claim))
      /\ d.resizeRefused = ~event.applied
      /\ d.passedOver = v.passedOver
  BY ONLY <1>1, <1>4 DEF Resolved, IsRecord, Names
<1>10. ResizeTyped(d)
  <2>1. NoResize \in Resizing
    BY ConstantsAssumption DEF ConstantsAssumption, NoResize, Resizing
  <2>2. d.lastSize \in 0 .. SizeLimit
    BY ONLY <1>1, <1>9 DEF ResizeTyped, Resizing
  <2>3. d.claimPending \in BOOLEAN /\ d.resizeRefused \in BOOLEAN
    BY ONLY <1>9
  <2> QED
    BY ONLY <1>1, <1>9, <2>1, <2>2, <2>3 DEF ResizeTyped
<1>11. Kept(d)
  BY ONLY <1>1, <1>6, <1>7, <1>8, <1>9, <1>10, SizeFields
<1>12. /\ NoResizeSent(v)
       /\ event.applied => /\ runtime.size = v.pendingResize.size
                           /\ v.pendingResize.claim => runtime.claimed
       /\ event.applied => ~ResizeTold(v, events, runtime, FALSE)
  <2>1. events[1].id = v.pendingResize.id
    BY <1>2
  <2>2. ~ResizeSent(v, events)
    BY ONLY <1>2, <2>1 DEF ResizeSent, Tells
  <2>3. PICK applied \in BOOLEAN : ResizeTold(v, events, runtime, applied)
    BY <1>1, <2>2 DEF Lined, ResizeKnown
  <2>4. \A a : ResizeTold(v, events, runtime, a) => events[1].applied = a
    BY ONLY <1>2, <2>1 DEF ResizeTold
  <2>5. event.applied = applied
    BY ONLY <1>2, <2>3, <2>4
  <2>6. NoResizeSent(v) /\ (applied => /\ runtime.size = v.pendingResize.size
                                       /\ v.pendingResize.claim => runtime.claimed)
    BY ONLY <2>3 DEF ResizeTold
  <2>7. event.applied => ~ResizeTold(v, events, runtime, FALSE)
    BY ONLY <1>2, <1>3, <2>4
  <2> QED
    BY ONLY <2>5, <2>6, <2>7
<1>13. Claims(d, runtime)
  BY ONLY <1>1, <1>3, <1>6, <1>9, <1>12 DEF Sized, Claims, SameItem
<1>14. Wanted(d) /\ Queued(d)
  BY ONLY <1>1, <1>6, <1>7, WantedSame, QueuedSame
<1>15. CASE ~v.pendingResize.claim /\ d.claimPending
  <2>1. w = ScheduleResize(d)
    BY <1>5, <1>15
  <2>2. Whole(w, events, runtime)
    BY ONLY <1>11, <1>13, <1>14, <2>1, Reschedules
  <2>3. w.pendingResize = NoResize
    BY ONLY <1>9, <1>11, <2>1, ResizeScheduled
  <2> QED
    BY <2>2, <2>3
<1>16. CASE ~(~v.pendingResize.claim /\ d.claimPending)
  <2>1. w = d
    BY <1>5, <1>16
  <2>2. ASSUME Looked(d)
        PROVE  Agrees(d, events, runtime)
    <3>1. event.applied
      BY ONLY <1>3, <1>9, <2>2 DEF Looked
    <3>2. ~d.claimPending
      BY ONLY <1>9, <1>16, <3>1
    <3>3. ~v.resizeRefused
      BY <1>1 DEF Sized, Claims
    <3>4. Looked(v)
      BY ONLY <1>6, <1>9, <2>2, <3>3 DEF Looked, SameItem
    <3>5. Asked(v, runtime, v.size)
      BY ONLY <1>1, <1>12, <3>1, <3>4 DEF Sized, Agrees
    <3>6. runtime.size = v.size
      BY ONLY <1>12, <3>5 DEF Asked, SentSize, LastResize, NoResizeSent
    <3>7. NoResizeSent(d)
      BY ONLY <1>8, <1>12 DEF NoResizeSent, SameOutside
    <3>8. d.size = v.size
      BY ONLY <1>6 DEF SameItem
    <3> QED
      BY ONLY <1>9, <3>2, <3>6, <3>7, <3>8 DEF Agrees, Asked
  <2>3. Sized(d, events, runtime)
    BY ONLY <1>13, <2>2 DEF Sized
  <2> QED
    BY ONLY <1>9, <1>11, <1>14, <2>1, <2>3 DEF Whole, Kept
<1> QED
  BY <1>15, <1>16

\* drainGuiEvents takes an event.
LEMMA EventHandled ==
  ASSUME NEW v, Whole(v, events, runtime), events \in Seq(Posted), events # <<>>,
         NEW event, event = Head(events), NEW rest, rest = Tail(events),
         NEW w, \/ /\ event.type = "connected"
                   /\ w \in IF v.activeFocus /\ InteractionAvailable(v)
                            THEN SendFocus(v) ELSE {v}
                \/ event.type = "focus" /\ w = HandleFocusOutcome(v, event)
                \/ event.type = "resize" /\ w = HandleResizeOutcome(v, event)
  PROVE  Whole(w, rest, runtime)
<1>1. /\ event \in Posted /\ event = events[1] /\ 1 \in DOMAIN events
      /\ Lined(v, events, runtime)
  BY Tails DEF Whole
<1>2. event.id = 0 <=> event.type = "connected"
  BY <1>1 DEF Lined, Numbered
<1>3. CASE event.type = "connected"
  <2>1. Whole(w, events, runtime)
    BY <1>3, FocusComes
  <2> QED
    BY <1>3, <2>1, WholeDrops
<1>4. CASE event.type = "focus" /\ w = HandleFocusOutcome(v, event)
  <2>1. CASE event.id # v.pendingFocus
    <3>1. w = v
      BY <1>4, <2>1 DEF HandleFocusOutcome
    <3> QED
      BY <1>4, <2>1, <3>1, WholeDrops
  <2>2. CASE event.id = v.pendingFocus
    <3>1. w = Answered(v, event)
      BY <1>4, <2>2 DEF HandleFocusOutcome, Answered
    <3>2. Whole(w, events, runtime) /\ w.pendingFocus = 0
      BY <1>4, <2>2, <3>1, FocusHeard
    <3>3. event.id # w.pendingFocus
      BY <1>2, <1>4, <3>2
    <3> QED
      BY <1>4, <3>2, <3>3, WholeDrops
  <2> QED
    BY <2>1, <2>2
<1>5. CASE event.type = "resize" /\ w = HandleResizeOutcome(v, event)
  <2>1. CASE v.pendingResize = NoResize \/ event.id # v.pendingResize.id
    <3>1. w = v
      BY <1>5, <2>1 DEF HandleResizeOutcome
    <3> QED
      BY <1>5, <2>1, <3>1, WholeDrops
  <2>2. CASE ~(v.pendingResize = NoResize \/ event.id # v.pendingResize.id)
    <3>1. w = IF ~v.pendingResize.claim /\ Resolved(v, event).claimPending
              THEN ScheduleResize(Resolved(v, event)) ELSE Resolved(v, event)
      BY <1>5, <2>2 DEF HandleResizeOutcome, Resolved
    <3>2. Whole(w, events, runtime) /\ w.pendingResize = NoResize
      BY <1>5, <2>2, <3>1, ResizeHeard
    <3> QED
      BY <1>5, <3>2, WholeDrops
  <2> QED
    BY <2>1, <2>2
<1> QED
  BY <1>3, <1>4, <1>5

-----------------------------------------------------------------------------
(* Commands that are carried out.                                           *)

\* What is left of the commands, in their order.
Shifted(s, r) ==
  /\ 1 \in DOMAIN s /\ DOMAIN s \subseteq Nat \ {0} /\ DOMAIN r \subseteq Nat \ {0}
  /\ \A k \in DOMAIN r : k + 1 \in DOMAIN s /\ r[k] = s[k + 1]
  /\ \A k \in DOMAIN s : k # 1 => \E h \in DOMAIN r : h + 1 = k /\ r[h] = s[k]

LEMMA Shifts ==
  ASSUME NEW S, NEW s \in Seq(S), s # <<>>, NEW r, r = Tail(s)
  PROVE  Shifted(s, r) /\ r \in Seq(S) /\ Head(s) = s[1] /\ s[1] \in S
<1>1. PICK n \in Nat : /\ DOMAIN s = 1 .. n + 1 /\ DOMAIN Tail(s) = 1 .. n
                       /\ \A k \in 1 .. n : Tail(s)[k] = s[k + 1]
                       /\ Tail(s) \in Seq(S) /\ Head(s) = s[1] /\ Head(s) \in S
  BY Tails
<1>2. /\ 1 \in DOMAIN s /\ DOMAIN s \subseteq Nat \ {0} /\ DOMAIN r \subseteq Nat \ {0}
  BY <1>1
<1>3. \A k \in DOMAIN r : k + 1 \in DOMAIN s /\ r[k] = s[k + 1]
  BY <1>1
<1>4. ASSUME NEW k \in DOMAIN s, k # 1
      PROVE  \E h \in DOMAIN r : h + 1 = k /\ r[h] = s[k]
  <2>1. k - 1 \in DOMAIN r /\ (k - 1) + 1 = k
    BY <1>1, <1>4
  <2> QED
    BY <1>3, <2>1
<1> QED
  BY <1>1, <1>2, <1>3, <1>4 DEF Shifted

\* What no command on its way does, none that is left does; what only the first did
\* is over.
LEMMA ShiftedNone ==
  ASSUME NEW v, NEW w, Shifted(v.sent, w.sent)
  PROVE  /\ \A id : Sends(w, id) => Sends(v, id)
         /\ NoFocusSent(v) \/ LastFocus(v, 1) => NoFocusSent(w)
         /\ NoResizeSent(v) \/ LastResize(v, 1) => NoResizeSent(w)
<1>1. \A k \in DOMAIN w.sent : k + 1 \in DOMAIN v.sent /\ w.sent[k] = v.sent[k + 1]
  BY DEF Shifted
<1>2. \A k \in DOMAIN w.sent : k \in Nat /\ k # 0
  BY DEF Shifted
<1>3. \A k \in DOMAIN w.sent : k + 1 > 1
  BY <1>2
<1>4. \A id : Sends(w, id) => Sends(v, id)
  BY <1>1 DEF Sends
<1>5. NoFocusSent(v) \/ LastFocus(v, 1) => NoFocusSent(w)
  BY <1>1, <1>3 DEF NoFocusSent, LastFocus
<1>6. NoResizeSent(v) \/ LastResize(v, 1) => NoResizeSent(w)
  BY <1>1, <1>3 DEF NoResizeSent, LastResize
<1> QED
  BY <1>4, <1>5, <1>6

\* A last command that is left is still the last.
LEMMA ShiftedLast ==
  ASSUME NEW v, NEW w, Shifted(v.sent, w.sent), NEW k \in DOMAIN v.sent, k # 1,
         NEW h \in DOMAIN w.sent, h + 1 = k
  PROVE  /\ w.sent[h] = v.sent[k]
         /\ LastFocus(v, k) => LastFocus(w, h)
         /\ LastResize(v, k) => LastResize(w, h)
<1>1. /\ \A j \in DOMAIN w.sent : j + 1 \in DOMAIN v.sent /\ w.sent[j] = v.sent[j + 1]
      /\ DOMAIN w.sent \subseteq Nat
  BY DEF Shifted
<1>2. \A j \in DOMAIN w.sent : j > h => j + 1 > k
  BY <1>1
<1> QED
  BY <1>1, <1>2 DEF LastFocus, LastResize

\* The focus still alternates: the first did not leave the runtime with it unless it
\* was a focus.
LEMMA ShiftedAlternating ==
  ASSUME NEW v, NEW w, Shifted(v.sent, w.sent), NEW rt, NEW after, Alternating(v, rt),
         after.focused => \/ rt.focused /\ v.sent[1].type # "blur"
                          \/ v.sent[1].type = "focus"
  PROVE  Alternating(w, after)
<1>1. /\ \A j \in DOMAIN w.sent : j + 1 \in DOMAIN v.sent /\ w.sent[j] = v.sent[j + 1]
      /\ 1 \in DOMAIN v.sent /\ DOMAIN w.sent \subseteq Nat
      /\ DOMAIN v.sent \subseteq Nat \ {0}
      /\ \A j \in DOMAIN v.sent : j # 1 => \E h \in DOMAIN w.sent : h + 1 = j /\ w.sent[h] = v.sent[j]
  BY DEF Shifted
<1>2. ASSUME NEW j \in DOMAIN w.sent, NEW k \in DOMAIN w.sent, j < k,
             w.sent[j].type = "focus", w.sent[k].type = "focus"
      PROVE  \E i \in DOMAIN w.sent : j < i /\ i < k /\ w.sent[i].type = "blur"
  <2>1. /\ j + 1 \in DOMAIN v.sent /\ k + 1 \in DOMAIN v.sent /\ j + 1 < k + 1
        /\ v.sent[j + 1].type = "focus" /\ v.sent[k + 1].type = "focus"
    BY <1>1, <1>2
  <2>2. PICK i \in DOMAIN v.sent : j + 1 < i /\ i < k + 1 /\ v.sent[i].type = "blur"
    BY <2>1 DEF Alternating
  <2>3. i # 1
    BY <1>1, <2>2
  <2>4. PICK h \in DOMAIN w.sent : h + 1 = i /\ w.sent[h] = v.sent[i]
    BY <1>1, <2>3
  <2>5. j < h /\ h < k
    BY <1>1, <2>2, <2>4
  <2> QED
    BY <2>2, <2>4, <2>5
<1>3. ASSUME after.focused, NEW k \in DOMAIN w.sent, w.sent[k].type = "focus"
      PROVE  \E i \in DOMAIN w.sent : i < k /\ w.sent[i].type = "blur"
  <2>1. k + 1 \in DOMAIN v.sent /\ v.sent[k + 1].type = "focus" /\ 1 < k + 1
    <3>1. k \in Nat /\ k # 0
      BY DEF Shifted
    <3> QED
      BY <1>1, <1>3, <3>1
  <2>2. PICK i \in DOMAIN v.sent : i < k + 1 /\ v.sent[i].type = "blur" /\ i # 1
    <3>1. CASE rt.focused /\ v.sent[1].type # "blur"
      BY <2>1, <3>1 DEF Alternating
    <3>2. CASE v.sent[1].type = "focus"
      <4>1. PICK i \in DOMAIN v.sent : 1 < i /\ i < k + 1 /\ v.sent[i].type = "blur"
        BY <1>1, <2>1, <3>2 DEF Alternating
      <4> QED
        BY <4>1
    <3> QED
      BY <1>3, <3>1, <3>2
  <2>3. PICK h \in DOMAIN w.sent : h + 1 = i /\ w.sent[h] = v.sent[i]
    BY <1>1, <2>2
  <2>4. h < k
    BY <1>1, <2>2, <2>3
  <2> QED
    BY <2>2, <2>3, <2>4
<1> QED
  BY <1>2, <1>3 DEF Alternating

\* What the view waits for on its way is still on its way, unless it was the first.
LEMMA ShiftedSent ==
  ASSUME NEW v, NEW w, Shifted(v.sent, w.sent), NEW ev, NEW after,
         w.pendingFocus = v.pendingFocus, w.pendingResize = v.pendingResize
  PROVE  /\ /\ FocusSent(v, ev) /\ v.sent[1].what.id # v.pendingFocus
            /\ ~Tells(after, v.pendingFocus)
            => FocusSent(w, after)
         /\ /\ ResizeSent(v, ev) /\ v.sent[1].what.id # v.pendingResize.id
            /\ ~Tells(after, v.pendingResize.id)
            => ResizeSent(w, after)
<1>1. /\ \A j \in DOMAIN w.sent : j + 1 \in DOMAIN v.sent /\ w.sent[j] = v.sent[j + 1]
      /\ DOMAIN w.sent \subseteq Nat
      /\ \A j \in DOMAIN v.sent : j # 1 => \E h \in DOMAIN w.sent : h + 1 = j /\ w.sent[h] = v.sent[j]
  BY DEF Shifted
<1>2. ASSUME FocusSent(v, ev), v.sent[1].what.id # v.pendingFocus,
             ~Tells(after, v.pendingFocus)
      PROVE  FocusSent(w, after)
  <2>1. PICK k \in DOMAIN v.sent :
          /\ LastFocus(v, k) /\ v.sent[k].type = "focus" /\ v.sent[k].what.id = v.pendingFocus
          /\ \A j \in DOMAIN v.sent : v.sent[j].what.id = v.pendingFocus => j = k
    BY <1>2 DEF FocusSent
  <2>2. PICK h \in DOMAIN w.sent : h + 1 = k /\ w.sent[h] = v.sent[k]
    BY <1>1, <1>2, <2>1
  <2>3. LastFocus(w, h)
    BY <1>2, <2>1, <2>2, ShiftedLast
  <2>4. \A j \in DOMAIN w.sent : w.sent[j].what.id = v.pendingFocus => j = h
    <3> SUFFICES ASSUME NEW j \in DOMAIN w.sent, w.sent[j].what.id = v.pendingFocus
                 PROVE  j = h
      OBVIOUS
    <3>1. j + 1 = k
      BY <1>1, <2>1
    <3>2. j \in Nat /\ h \in Nat
      BY <1>1
    <3> QED
      BY <2>2, <3>1, <3>2
  <2> QED
    BY <1>2, <2>1, <2>2, <2>3, <2>4 DEF FocusSent
<1>3. ASSUME ResizeSent(v, ev), v.sent[1].what.id # v.pendingResize.id,
             ~Tells(after, v.pendingResize.id)
      PROVE  ResizeSent(w, after)
  <2>1. PICK k \in DOMAIN v.sent :
          /\ LastResize(v, k) /\ v.sent[k].what = v.pendingResize
          /\ \A j \in DOMAIN v.sent : v.sent[j].what.id = v.pendingResize.id => j = k
    BY <1>3 DEF ResizeSent
  <2>2. PICK h \in DOMAIN w.sent : h + 1 = k /\ w.sent[h] = v.sent[k]
    BY <1>1, <1>3, <2>1
  <2>3. LastResize(w, h)
    BY <1>3, <2>1, <2>2, ShiftedLast
  <2>4. \A j \in DOMAIN w.sent : w.sent[j].what.id = v.pendingResize.id => j = h
    <3> SUFFICES ASSUME NEW j \in DOMAIN w.sent, w.sent[j].what.id = v.pendingResize.id
                 PROVE  j = h
      OBVIOUS
    <3>1. j + 1 = k
      BY <1>1, <2>1
    <3>2. j \in Nat /\ h \in Nat
      BY <1>1
    <3> QED
      BY <2>2, <3>1, <3>2
  <2> QED
    BY <1>3, <2>1, <2>2, <2>3, <2>4 DEF ResizeSent
<1> QED
  BY <1>2, <1>3

\* So are the last blur and the size of the last resize.
LEMMA ShiftedEnds ==
  ASSUME NEW v, NEW w, Shifted(v.sent, w.sent)
  PROVE  /\ (\E k \in DOMAIN v.sent : LastFocus(v, k) /\ v.sent[k].type = "blur")
              /\ v.sent[1].type # "blur"
            => \E k \in DOMAIN w.sent : LastFocus(w, k) /\ w.sent[k].type = "blur"
         /\ (\E k \in DOMAIN v.sent : LastFocus(v, k) /\ v.sent[k].type = "blur")
            => NoFocusSent(w) \/ \E k \in DOMAIN w.sent : LastFocus(w, k) /\ w.sent[k].type = "blur"
         /\ \A size : SentSize(v, size) /\ ~LastResize(v, 1) => SentSize(w, size)
<1>1. \A j \in DOMAIN v.sent : j # 1 => \E h \in DOMAIN w.sent : h + 1 = j /\ w.sent[h] = v.sent[j]
  BY DEF Shifted
<1>2. ASSUME NEW k \in DOMAIN v.sent, LastFocus(v, k), v.sent[k].type = "blur", k # 1
      PROVE  \E h \in DOMAIN w.sent : LastFocus(w, h) /\ w.sent[h].type = "blur"
  <2>1. PICK h \in DOMAIN w.sent : h + 1 = k /\ w.sent[h] = v.sent[k]
    BY <1>1, <1>2
  <2>2. LastFocus(w, h)
    BY <1>2, <2>1, ShiftedLast
  <2> QED
    BY <1>2, <2>1, <2>2
<1>3. ASSUME NEW k \in DOMAIN v.sent, LastFocus(v, k), k = 1
      PROVE  NoFocusSent(w)
  BY <1>3, ShiftedNone
<1>4. ASSUME NEW size, SentSize(v, size), ~LastResize(v, 1)
      PROVE  SentSize(w, size)
  <2>1. PICK k \in DOMAIN v.sent : LastResize(v, k) /\ v.sent[k].what.size = size
    BY <1>4 DEF SentSize
  <2>2. PICK h \in DOMAIN w.sent : h + 1 = k /\ w.sent[h] = v.sent[k]
    BY <1>1, <1>4, <2>1
  <2>3. LastResize(w, h)
    BY <1>4, <2>1, <2>2, ShiftedLast
  <2> QED
    BY <2>1, <2>2, <2>3 DEF SentSize
<1> QED
  BY <1>2, <1>3, <1>4

\* Outcomes are posted behind those that wait.
Posts(ev, after, type, id) ==
  /\ \A i \in DOMAIN ev : i \in DOMAIN after /\ after[i] = ev[i]
  /\ \A i \in DOMAIN after : i \in DOMAIN ev \/ (after[i].type = type /\ after[i].id = id)

LEMMA PostsOthers ==
  ASSUME NEW ev, NEW after, NEW type, NEW id, Posts(ev, after, type, id), NEW v, NEW w,
         Shifted(v.sent, w.sent), w.pendingFocus = v.pendingFocus,
         w.pendingResize = v.pendingResize, NEW rt, NEW later
  PROVE  /\ \A other : ~Tells(ev, other) /\ other # id => ~Tells(after, other)
         /\ FocusTold(v, ev, rt) /\ id # v.pendingFocus /\ later.focused = rt.focused
              => FocusTold(w, after, later)
         /\ \A applied :
              /\ ResizeTold(v, ev, rt, applied) /\ id # v.pendingResize.id
              /\ later.size = rt.size /\ (rt.claimed => later.claimed)
              => ResizeTold(w, after, later, applied)
<1>1. \A other : ~Tells(ev, other) /\ other # id => ~Tells(after, other)
  BY DEF Posts, Tells
<1>2. ASSUME FocusTold(v, ev, rt), id # v.pendingFocus, later.focused = rt.focused
      PROVE  FocusTold(w, after, later)
  <2>1. ~Sends(w, v.pendingFocus) /\ NoFocusSent(w)
    BY <1>2, ShiftedNone DEF FocusTold
  <2>2. PICK i \in DOMAIN ev :
          /\ ev[i].type = "focus" /\ ev[i].id = v.pendingFocus /\ ev[i].applied = rt.focused
          /\ \A j \in DOMAIN ev : ev[j].id = v.pendingFocus => j = i
    BY <1>2 DEF FocusTold
  <2>3. i \in DOMAIN after /\ after[i] = ev[i]
    BY DEF Posts
  <2>4. \A j \in DOMAIN after : after[j].id = v.pendingFocus => j = i
    BY <1>2, <2>2 DEF Posts
  <2> QED
    BY <1>2, <2>1, <2>2, <2>3, <2>4 DEF FocusTold
<1>3. ASSUME NEW applied, ResizeTold(v, ev, rt, applied), id # v.pendingResize.id,
             later.size = rt.size, rt.claimed => later.claimed
      PROVE  ResizeTold(w, after, later, applied)
  <2>1. ~Sends(w, v.pendingResize.id) /\ NoResizeSent(w)
    BY <1>3, ShiftedNone DEF ResizeTold
  <2>2. PICK i \in DOMAIN ev :
          /\ ev[i].type = "resize" /\ ev[i].id = v.pendingResize.id /\ ev[i].applied = applied
          /\ applied => rt.size = v.pendingResize.size /\ (v.pendingResize.claim => rt.claimed)
          /\ \A j \in DOMAIN ev : ev[j].id = v.pendingResize.id => j = i
    BY <1>3 DEF ResizeTold
  <2>3. i \in DOMAIN after /\ after[i] = ev[i]
    BY DEF Posts
  <2>4. \A j \in DOMAIN after : after[j].id = v.pendingResize.id => j = i
    BY <1>3, <2>2 DEF Posts
  <2> QED
    BY <1>3, <2>1, <2>2, <2>3, <2>4 DEF ResizeTold
<1> QED
  BY <1>1, <1>2, <1>3

\* One is posted.
PostedOnce(ev, after, o) ==
  ~Tells(ev, o.id) => \E i \in DOMAIN after :
    after[i] = o /\ \A j \in DOMAIN after : after[j].id = o.id => j = i

LEMMA PostsOne ==
  ASSUME NEW ev \in Seq(Posted), NEW o \in Posted, NEW after, after = Append(ev, o)
  PROVE  /\ Posts(ev, after, o.type, o.id) /\ after \in Seq(Posted)
         /\ PostedOnce(ev, after, o)
<1>1. PICK n \in Nat : /\ DOMAIN ev = 1 .. n /\ DOMAIN Append(ev, o) = 1 .. n + 1
                       /\ \A k \in 1 .. n : Append(ev, o)[k] = ev[k]
                       /\ Append(ev, o)[n + 1] = o
  BY Appends
<1>2. /\ \A i \in DOMAIN ev : i \in DOMAIN after /\ after[i] = ev[i]
      /\ \A i \in DOMAIN after : i \in DOMAIN ev \/ i = n + 1
      /\ n + 1 \in DOMAIN after /\ after[n + 1] = o
  BY <1>1
<1>3. Posts(ev, after, o.type, o.id)
  BY <1>2 DEF Posts
<1>4. ASSUME ~Tells(ev, o.id)
      PROVE  \A j \in DOMAIN after : after[j].id = o.id => j = n + 1
  BY <1>2, <1>4 DEF Tells
<1>5. PostedOnce(ev, after, o)
  BY <1>2, <1>4 DEF PostedOnce
<1> QED
  BY <1>3, <1>5

\* What is left of the view when its first command is carried out, or rejected.
Carried(v, applied) ==
  [v EXCEPT !.sent = Tail(@), !.refusals = IF applied THEN @ ELSE @ + 1]

Runtime == [focused : BOOLEAN, size : 0 .. SizeLimit, claimed : BOOLEAN]

LEMMA CarriedLeaves ==
  ASSUME NEW v, Whole(v, events, runtime), v.sent # <<>>, NEW applied \in BOOLEAN,
         applied \/ v.refusals < RefusalLimit, NEW w, w = Carried(v, applied)
  PROVE  /\ IsView(w) /\ SameItem(v, w) /\ SameFocus(v, w) /\ SameResize(v, w)
         /\ SameInput(v, w) /\ Timed(w) /\ Apart(w) /\ Wanted(w) /\ Queued(w)
         /\ Shifted(v.sent, w.sent) /\ Head(v.sent) = v.sent[1] /\ v.sent[1] \in Command
<1>1. /\ IsView(v) /\ IsRecord(v) /\ OutsideTyped(v) /\ Timed(v) /\ Apart(v)
      /\ Wanted(v) /\ Queued(v)
  BY DEF Whole, IsView
<1>2. IsRecord(w) /\ SameItem(v, w)
  BY ONLY <1>1, w = Carried(v, applied) DEF Carried, IsRecord, Names, SameItem
<1>3. SameFocus(v, w) /\ SameResize(v, w)
  BY ONLY <1>1, w = Carried(v, applied) DEF Carried, IsRecord, Names, SameFocus, SameResize
<1>4. SameInput(v, w) /\ w.timers = v.timers
  BY ONLY <1>1, w = Carried(v, applied) DEF Carried, IsRecord, Names, SameInput
<1>5. /\ w.sent = Tail(v.sent)
      /\ w.refusals = IF applied THEN v.refusals ELSE v.refusals + 1
  BY ONLY <1>1, w = Carried(v, applied) DEF Carried, IsRecord, Names
<1>6. /\ Shifted(v.sent, w.sent) /\ w.sent \in Seq(Command)
      /\ Head(v.sent) = v.sent[1] /\ v.sent[1] \in Command
  BY <1>1, <1>5, Shifts DEF OutsideTyped
<1>7. IsView(w)
  <2>1. w.refusals \in 0 .. RefusalLimit
    BY <1>1, <1>5, ConstantsAssumption DEF OutsideTyped, ConstantsAssumption
  <2>2. OutsideTyped(w)
    BY <1>1, <1>4, <1>6, <2>1 DEF OutsideTyped
  <2> QED
    BY ONLY <1>1, <1>2, <1>3, <1>4, <2>2, SameTyped DEF IsView
<1>8. Timed(w)
  <2>1. Grows(v, w, {})
    BY ONLY <1>4 DEF Grows
  <2> QED
    BY ONLY <1>1, <1>2, <1>3, <1>4, <2>1, TimedGrows
       DEF SameItem, SameFocus, SameResize, SameInput
<1>9. Apart(w)
  <2>1. v.attached
    BY <1>1 DEF Apart
  <2> QED
    BY <1>2, <2>1 DEF Apart, SameItem
<1>10. Wanted(w) /\ Queued(w)
  BY ONLY <1>1, <1>2, <1>3, <1>4, WantedSame, QueuedSame
<1> QED
  BY ONLY <1>2, <1>3, <1>4, <1>6, <1>7, <1>8, <1>9, <1>10

\* What the handling of the first command has to keep.
LEMMA CarriedNumbers ==
  ASSUME NEW v, NEW w, NEW ev, NEW after, NEW type, NEW id, Numbered(v, ev),
         Shifted(v.sent, w.sent), Posts(ev, after, type, id), type # "connected",
         id # 0 \/ after = ev
  PROVE  Numbered(w, after)
BY DEF Numbered, Shifted, Posts

\* The blur is carried out: the runtime is without the focus.
LEMMA BlurCarried ==
  ASSUME NEW v, NEW w, NEW ev, NEW rt, Lined(v, ev, rt), Sized(v, ev, rt),
         SameItem(v, w), SameFocus(v, w), SameResize(v, w), Shifted(v.sent, w.sent),
         v.sent[1].type = "blur",
         NEW later, later.focused = FALSE, later.size = rt.size, later.claimed = rt.claimed
  PROVE  Lined(w, ev, later) /\ Sized(w, ev, later)
<1>1. /\ Numbered(v, ev) /\ Alternating(v, rt) /\ FocusKnown(v, ev, rt)
      /\ ResizeKnown(v, ev, rt)
  BY DEF Lined
<1>2. /\ w.claimed = v.claimed /\ w.pendingFocus = v.pendingFocus
      /\ w.pendingResize = v.pendingResize
  BY DEF SameFocus, SameResize
<1>3. v.sent[1].what.id = 0 /\ ~NoFocusSent(v) /\ ~LastResize(v, 1) /\ 1 \in DOMAIN v.sent
  BY <1>1 DEF Numbered, Shifted, NoFocusSent, IsFocus, LastResize
<1>4. Posts(ev, ev, "blur", 0)
  BY DEF Posts
<1>5. Numbered(w, ev)
  BY <1>1, <1>4, CarriedNumbers
<1>6. Alternating(w, later)
  BY <1>1, ShiftedAlternating
<1>7. FocusKnown(w, ev, later)
  <2>1. ~v.claimed
    BY <1>1, <1>3 DEF FocusKnown
  <2>2. v.pendingFocus # 0 => FocusSent(w, ev)
    <3> SUFFICES ASSUME v.pendingFocus # 0
                 PROVE  FocusSent(w, ev)
      OBVIOUS
    <3>1. FocusSent(v, ev)
      BY <1>1, <1>3 DEF FocusKnown, FocusTold
    <3>2. ~Tells(ev, v.pendingFocus)
      BY <3>1 DEF FocusSent
    <3> QED
      BY <1>2, <1>3, <3>1, <3>2, ShiftedSent
  <2>3. v.pendingFocus = 0 =>
          NoFocusSent(w) \/ \E k \in DOMAIN w.sent : LastFocus(w, k) /\ w.sent[k].type = "blur"
    <3>1. v.pendingFocus = 0 => \E k \in DOMAIN v.sent : LastFocus(v, k) /\ v.sent[k].type = "blur"
      BY <1>1, <1>3, <2>1 DEF FocusKnown
    <3> QED
      BY <3>1, ShiftedEnds
  <2> QED
    BY <1>2, <2>1, <2>2, <2>3 DEF FocusKnown
<1>8. ASSUME v.pendingResize.id # 0, NEW applied, ResizeTold(v, ev, rt, applied)
      PROVE  ResizeTold(w, ev, later, applied)
  BY <1>2, <1>4, <1>8, PostsOthers
<1>9. ResizeKnown(w, ev, later)
  <2>1. v.pendingResize.id # 0 => (ResizeSent(v, ev) => ResizeSent(w, ev))
    <3> SUFFICES ASSUME v.pendingResize.id # 0, ResizeSent(v, ev)
                 PROVE  ResizeSent(w, ev)
      OBVIOUS
    <3>1. ~Tells(ev, v.pendingResize.id)
      BY DEF ResizeSent
    <3> QED
      BY <1>2, <1>3, <3>1, ShiftedSent
  <2> QED
    BY <1>1, <1>2, <1>8, <2>1 DEF ResizeKnown
<1>10. Sized(w, ev, later)
  <2>1. Claims(w, later)
    BY <1>2 DEF Sized, Claims, SameItem, SameResize
  <2>2. Looked(w) => Looked(v)
    BY DEF Looked, SameItem, SameResize
  <2>3. ASSUME Agrees(v, ev, rt)
        PROVE  Agrees(w, ev, later)
    <3>1. w.claimPending => w.pendingResize # NoResize
      BY <2>3 DEF Agrees, SameResize
    <3>2. CASE v.pendingResize # NoResize /\ ResizeTold(v, ev, rt, FALSE)
      <4>1. v.pendingResize.id # 0
        BY <1>1, <3>2 DEF ResizeKnown
      <4> QED
        BY <1>2, <1>8, <3>1, <3>2, <4>1 DEF Agrees
    <3>3. CASE Asked(v, rt, v.size) /\ (v.pendingResize = NoResize => NoResizeSent(v))
      <4>1. Asked(w, later, w.size)
        BY <1>3, <3>3, ShiftedNone, ShiftedEnds DEF Asked, SameItem
      <4>2. w.pendingResize = NoResize => NoResizeSent(w)
        BY <1>2, <3>3, ShiftedNone
      <4> QED
        BY <3>1, <4>1, <4>2 DEF Agrees
    <3> QED
      BY <2>3, <3>2, <3>3 DEF Agrees
  <2> QED
    BY <2>1, <2>2, <2>3 DEF Sized
<1> QED
  BY <1>5, <1>6, <1>7, <1>9, <1>10 DEF Lined

\* The focus is carried out, or rejected: the runtime, which was without it, has it
\* if it was applied, and the outcome says so.
LEMMA FocusCarried ==
  ASSUME NEW v, NEW w, NEW ev \in Seq(Posted), NEW rt \in Runtime, Lined(v, ev, rt),
         Sized(v, ev, rt), SameItem(v, w), SameFocus(v, w), SameResize(v, w),
         Shifted(v.sent, w.sent), v.sent[1].type = "focus", v.sent[1] \in Command,
         NEW applied \in BOOLEAN,
         NEW o \in Posted, o.type = "focus", o.id = v.sent[1].what.id, o.applied = applied,
         NEW after, after = Append(ev, o),
         NEW later, later.focused = (rt.focused \/ applied), later.size = rt.size,
         later.claimed = rt.claimed
  PROVE  Lined(w, after, later) /\ Sized(w, after, later)
<1>1. /\ Numbered(v, ev) /\ Alternating(v, rt) /\ FocusKnown(v, ev, rt)
      /\ ResizeKnown(v, ev, rt)
  BY DEF Lined
<1>2. /\ w.claimed = v.claimed /\ w.pendingFocus = v.pendingFocus
      /\ w.pendingResize = v.pendingResize
  BY DEF SameFocus, SameResize
<1>3. PICK id : id = v.sent[1].what.id
  OBVIOUS
<1>4. /\ id # 0 /\ ~NoFocusSent(v) /\ ~LastResize(v, 1) /\ 1 \in DOMAIN v.sent
      /\ Sends(v, id) /\ v.sent[1].type # "blur"
  BY <1>1, <1>3 DEF Numbered, Shifted, NoFocusSent, IsFocus, LastResize, Sends
<1>5. o.type = "focus" /\ o.id = id /\ o.applied = applied
  BY <1>3
<1>6. /\ Posts(ev, after, "focus", id)
      /\ ~Tells(ev, id) => \E i \in DOMAIN after :
           after[i] = o /\ \A j \in DOMAIN after : after[j].id = id => j = i
  <2>1. Posts(ev, after, o.type, o.id) /\ PostedOnce(ev, after, o)
    BY ONLY ev \in Seq(Posted), o \in Posted, after = Append(ev, o), PostsOne
  <2> QED
    BY ONLY <1>5, <2>1 DEF PostedOnce
<1>7. Numbered(w, after)
  BY <1>1, <1>4, <1>6, CarriedNumbers
<1>8. ~rt.focused /\ (later.focused <=> applied) /\ later.focused = applied
  <2>1. ~rt.focused
    <3> SUFFICES ASSUME rt.focused
                 PROVE  FALSE
      OBVIOUS
    <3>1. PICK i \in DOMAIN v.sent : i < 1
      BY <1>1, <1>4 DEF Alternating
    <3>2. i \in Nat \ {0}
      BY DEF Shifted
    <3> QED
      BY <3>1, <3>2
  <2>2. rt.focused \in BOOLEAN
    BY DEF Runtime
  <2> QED
    BY <2>1, <2>2
<1>9. Alternating(w, later)
  BY <1>1, ShiftedAlternating
<1>10. FocusKnown(w, after, later)
  <2>1. ~v.claimed
    BY <1>1, <1>4 DEF FocusKnown
  <2>2. v.pendingFocus # 0 => FocusSent(w, after) \/ FocusTold(w, after, later)
    <3> SUFFICES ASSUME v.pendingFocus # 0
                 PROVE  FocusSent(w, after) \/ FocusTold(w, after, later)
      OBVIOUS
    <3>1. FocusSent(v, ev)
      BY <1>1, <1>4 DEF FocusKnown, FocusTold
    <3>2. ~Tells(ev, v.pendingFocus)
      BY <3>1 DEF FocusSent
    <3>3. CASE id # v.pendingFocus
      <4>1. ~Tells(after, v.pendingFocus)
        BY <1>6, <3>2, <3>3 DEF Posts, Tells
      <4> QED
        BY <1>2, <1>3, <3>1, <3>3, <4>1, ShiftedSent
    <3>4. CASE id = v.pendingFocus
      <4>1. LastFocus(v, 1) /\ \A j \in DOMAIN v.sent : v.sent[j].what.id = v.pendingFocus => j = 1
        BY <1>3, <1>4, <3>1, <3>4 DEF FocusSent
      <4>2. NoFocusSent(w)
        BY <4>1, ShiftedNone
      <4>3. ~Sends(w, v.pendingFocus)
        <5>1. \A j \in DOMAIN w.sent : j + 1 \in DOMAIN v.sent /\ w.sent[j] = v.sent[j + 1]
                                       /\ j + 1 # 1
          BY DEF Shifted
        <5> QED
          BY <4>1, <5>1 DEF Sends
      <4>4. PICK i \in DOMAIN after :
              after[i] = o /\ \A j \in DOMAIN after : after[j].id = id => j = i
        BY <1>6, <3>2, <3>4
      <4>5. /\ after[i].type = "focus" /\ after[i].id = w.pendingFocus
            /\ after[i].applied = later.focused
        BY <1>2, <1>5, <1>8, <3>4, <4>4
      <4> QED
        BY <1>2, <3>4, <4>2, <4>3, <4>4, <4>5 DEF FocusTold
    <3> QED
      BY <3>3, <3>4
  <2>3. v.pendingFocus = 0 =>
          \E k \in DOMAIN w.sent : LastFocus(w, k) /\ w.sent[k].type = "blur"
    <3>1. v.pendingFocus = 0 => \E k \in DOMAIN v.sent : LastFocus(v, k) /\ v.sent[k].type = "blur"
      BY <1>1, <1>4, <2>1 DEF FocusKnown
    <3> QED
      BY <1>4, <3>1, ShiftedEnds
  <2> QED
    BY <1>2, <2>1, <2>2, <2>3 DEF FocusKnown
<1>11. v.pendingResize # NoResize => id # v.pendingResize.id
  <2>1. ASSUME ResizeSent(v, ev)
        PROVE  id # v.pendingResize.id
    BY <1>3, <1>4, <2>1 DEF ResizeSent, LastResize
  <2>2. ASSUME NEW a, ResizeTold(v, ev, rt, a)
        PROVE  id # v.pendingResize.id
    BY <1>4, <2>2 DEF ResizeTold
  <2> QED
    BY <1>1, <2>1, <2>2 DEF ResizeKnown
<1>12. ASSUME v.pendingResize # NoResize, NEW a, ResizeTold(v, ev, rt, a)
       PROVE  ResizeTold(w, after, later, a)
  BY <1>2, <1>6, <1>11, <1>12, PostsOthers
<1>13. ResizeKnown(w, after, later)
  <2>1. v.pendingResize # NoResize => (ResizeSent(v, ev) => ResizeSent(w, after))
    <3> SUFFICES ASSUME v.pendingResize # NoResize, ResizeSent(v, ev)
                 PROVE  ResizeSent(w, after)
      OBVIOUS
    <3>1. ~Tells(ev, v.pendingResize.id)
      BY DEF ResizeSent
    <3>2. ~Tells(after, v.pendingResize.id)
      BY <1>6, <1>11, <3>1 DEF Posts, Tells
    <3> QED
      BY <1>2, <1>3, <1>11, <3>2, ShiftedSent
  <2> QED
    BY <1>1, <1>2, <1>12, <2>1 DEF ResizeKnown
<1>14. Sized(w, after, later)
  <2>1. Claims(w, later)
    BY <1>2 DEF Sized, Claims, SameItem, SameResize
  <2>2. Looked(w) => Looked(v)
    BY DEF Looked, SameItem, SameResize
  <2>3. ASSUME Agrees(v, ev, rt)
        PROVE  Agrees(w, after, later)
    <3>1. w.claimPending => w.pendingResize # NoResize
      BY <2>3 DEF Agrees, SameResize
    <3>2. CASE v.pendingResize # NoResize /\ ResizeTold(v, ev, rt, FALSE)
      BY <1>2, <1>12, <3>1, <3>2 DEF Agrees
    <3>3. CASE Asked(v, rt, v.size) /\ (v.pendingResize = NoResize => NoResizeSent(v))
      <4>1. Asked(w, later, w.size)
        BY <1>4, <3>3, ShiftedNone, ShiftedEnds DEF Asked, SameItem
      <4>2. w.pendingResize = NoResize => NoResizeSent(w)
        BY <1>2, <3>3, ShiftedNone
      <4> QED
        BY <3>1, <4>1, <4>2 DEF Agrees
    <3> QED
      BY <2>3, <3>2, <3>3 DEF Agrees
  <2> QED
    BY <2>1, <2>2, <2>3 DEF Sized
<1> QED
  BY <1>7, <1>9, <1>10, <1>13, <1>14 DEF Lined

\* The resize is carried out, or rejected: the runtime has the size, and the claim if
\* one was made, and the outcome says whether.
LEMMA ResizeCarried ==
  ASSUME NEW v, NEW w, NEW ev \in Seq(Posted), NEW rt \in Runtime, Lined(v, ev, rt),
         Sized(v, ev, rt), SameItem(v, w), SameFocus(v, w), SameResize(v, w),
         Shifted(v.sent, w.sent), v.sent[1].type = "resize", v.sent[1] \in Command,
         NEW applied \in BOOLEAN,
         NEW o \in Posted, o.type = "resize", o.id = v.sent[1].what.id, o.applied = applied,
         NEW after, after = Append(ev, o),
         NEW later, later.focused = rt.focused,
         applied => /\ later.size = v.sent[1].what.size
                    /\ rt.claimed \/ v.sent[1].what.claim => later.claimed,
         ~applied => later.size = rt.size /\ later.claimed = rt.claimed
  PROVE  Lined(w, after, later) /\ Sized(w, after, later)
<1>1. /\ Numbered(v, ev) /\ Alternating(v, rt) /\ FocusKnown(v, ev, rt)
      /\ ResizeKnown(v, ev, rt)
  BY DEF Lined
<1>2. /\ w.claimed = v.claimed /\ w.pendingFocus = v.pendingFocus
      /\ w.pendingResize = v.pendingResize
  BY DEF SameFocus, SameResize
<1>3. PICK id : id = v.sent[1].what.id
  OBVIOUS
<1>4. /\ id # 0 /\ ~NoResizeSent(v) /\ ~LastFocus(v, 1) /\ 1 \in DOMAIN v.sent
      /\ Sends(v, id) /\ v.sent[1].type # "blur"
  BY <1>1, <1>3 DEF Numbered, Shifted, NoResizeSent, IsFocus, LastFocus, Sends
<1>5. o.type = "resize" /\ o.id = id /\ o.applied = applied
  BY <1>3
<1>6. /\ Posts(ev, after, "resize", id)
      /\ ~Tells(ev, id) => \E i \in DOMAIN after :
           after[i] = o /\ \A j \in DOMAIN after : after[j].id = id => j = i
  <2>1. Posts(ev, after, o.type, o.id) /\ PostedOnce(ev, after, o)
    BY ONLY ev \in Seq(Posted), o \in Posted, after = Append(ev, o), PostsOne
  <2> QED
    BY ONLY <1>5, <2>1 DEF PostedOnce
<1>7. Numbered(w, after)
  BY <1>1, <1>4, <1>6, CarriedNumbers
<1>8. Alternating(w, later)
  BY <1>1, <1>4, ShiftedAlternating
<1>9. v.pendingFocus # 0 => id # v.pendingFocus
  <2>1. ASSUME FocusSent(v, ev)
        PROVE  id # v.pendingFocus
    BY <1>3, <1>4, <2>1 DEF FocusSent, LastFocus
  <2>2. ASSUME FocusTold(v, ev, rt)
        PROVE  id # v.pendingFocus
    BY <1>4, <2>2 DEF FocusTold
  <2> QED
    BY <1>1, <2>1, <2>2 DEF FocusKnown
<1>10. FocusKnown(w, after, later)
  <2>1. v.pendingFocus # 0 /\ FocusSent(v, ev) => FocusSent(w, after)
    <3> SUFFICES ASSUME v.pendingFocus # 0, FocusSent(v, ev)
                 PROVE  FocusSent(w, after)
      OBVIOUS
    <3>1. ~Tells(ev, v.pendingFocus)
      BY DEF FocusSent
    <3>2. ~Tells(after, v.pendingFocus)
      BY <1>6, <1>9, <3>1 DEF Posts, Tells
    <3> QED
      BY <1>2, <1>3, <1>9, <3>2, ShiftedSent
  <2>2. v.pendingFocus # 0 /\ FocusTold(v, ev, rt) => FocusTold(w, after, later)
    BY <1>2, <1>6, <1>9, PostsOthers
  <2>3. v.claimed => v.pendingFocus = 0 /\ later.focused /\ NoFocusSent(w)
    BY <1>1, ShiftedNone DEF FocusKnown
  <2>4. ~v.claimed /\ v.pendingFocus = 0 =>
          \/ ~later.focused /\ NoFocusSent(w)
          \/ \E k \in DOMAIN w.sent : LastFocus(w, k) /\ w.sent[k].type = "blur"
    <3> SUFFICES ASSUME ~v.claimed, v.pendingFocus = 0
                 PROVE  \/ ~later.focused /\ NoFocusSent(w)
                        \/ \E k \in DOMAIN w.sent : LastFocus(w, k) /\ w.sent[k].type = "blur"
      OBVIOUS
    <3>1. \/ ~rt.focused /\ NoFocusSent(v)
          \/ \E k \in DOMAIN v.sent : LastFocus(v, k) /\ v.sent[k].type = "blur"
      BY <1>1 DEF FocusKnown
    <3>2. CASE ~rt.focused /\ NoFocusSent(v)
      BY <3>2, ShiftedNone
    <3>3. CASE \E k \in DOMAIN v.sent : LastFocus(v, k) /\ v.sent[k].type = "blur"
      BY <1>4, <3>3, ShiftedEnds
    <3> QED
      BY <3>1, <3>2, <3>3
  <2> QED
    BY <1>1, <1>2, <2>1, <2>2, <2>3, <2>4 DEF FocusKnown
<1>11. ASSUME v.pendingResize # NoResize
       PROVE  ResizeSent(v, ev) /\ ~Tells(ev, v.pendingResize.id)
  <2>1. ResizeSent(v, ev)
    BY <1>1, <1>4, <1>11 DEF ResizeKnown, ResizeTold
  <2> QED
    BY <2>1 DEF ResizeSent
<1>12. ASSUME v.pendingResize # NoResize, id # v.pendingResize.id
       PROVE  ResizeSent(w, after)
  <2>1. ~Tells(after, v.pendingResize.id)
    BY <1>6, <1>11, <1>12 DEF Posts, Tells
  <2> QED
    BY <1>2, <1>3, <1>11, <1>12, <2>1, ShiftedSent
<1>13. ASSUME v.pendingResize # NoResize, id = v.pendingResize.id
       PROVE  /\ LastResize(v, 1) /\ v.sent[1].what = v.pendingResize
              /\ ResizeTold(w, after, later, applied)
  <2>1. /\ LastResize(v, 1) /\ v.sent[1].what = v.pendingResize
        /\ \A j \in DOMAIN v.sent : v.sent[j].what.id = id => j = 1
    BY <1>3, <1>4, <1>11, <1>13 DEF ResizeSent
  <2>2. NoResizeSent(w)
    BY <2>1, ShiftedNone
  <2>3. ~Sends(w, id)
    <3>1. \A j \in DOMAIN w.sent : j + 1 \in DOMAIN v.sent /\ w.sent[j] = v.sent[j + 1]
                                   /\ j + 1 # 1
      BY DEF Shifted
    <3> QED
      BY <2>1, <3>1 DEF Sends
  <2>4. PICK i \in DOMAIN after :
          after[i] = o /\ \A j \in DOMAIN after : after[j].id = id => j = i
    BY <1>6, <1>11, <1>13
  <2>5. after[i].type = "resize" /\ after[i].id = id /\ after[i].applied = applied
    BY <1>5, <2>4
  <2>6. applied => /\ later.size = v.pendingResize.size
                   /\ v.pendingResize.claim => later.claimed
    BY <2>1
  <2> QED
    BY <1>2, <1>13, <2>1, <2>2, <2>3, <2>4, <2>5, <2>6 DEF ResizeTold
<1>14. ResizeKnown(w, after, later)
  BY <1>1, <1>2, <1>12, <1>13 DEF ResizeKnown
<1>15. Sized(w, after, later)
  <2>1. Claims(w, later)
    <3>1. rt.claimed => later.claimed
      OBVIOUS
    <3> QED
      BY <1>2, <3>1 DEF Sized, Claims, SameItem, SameResize
  <2>2. Looked(w) => Looked(v)
    BY DEF Looked, SameItem, SameResize
  <2>3. ASSUME Agrees(v, ev, rt)
        PROVE  Agrees(w, after, later)
    <3>1. w.claimPending => w.pendingResize # NoResize
      BY <2>3 DEF Agrees, SameResize
    <3>2. v.pendingResize # NoResize /\ SentSize(v, v.size)
      BY <1>4, <2>3 DEF Agrees, Asked, ResizeTold
    <3>3. w.size = v.size
      BY DEF SameItem
    <3>4. CASE id # v.pendingResize.id
      <4>1. ~LastResize(v, 1)
        <5>1. PICK k \in DOMAIN v.sent : LastResize(v, k) /\ v.sent[k].what = v.pendingResize
          BY <1>11, <3>2 DEF ResizeSent
        <5>2. k # 1 /\ k > 1
          BY <1>3, <3>4, <5>1 DEF Shifted
        <5> QED
          BY <5>1, <5>2 DEF LastResize
      <4>2. SentSize(w, w.size)
        BY <3>2, <3>3, <4>1, ShiftedEnds
      <4> QED
        BY <1>2, <3>1, <3>2, <4>2 DEF Agrees, Asked
    <3>5. CASE id = v.pendingResize.id
      <4>1. /\ LastResize(v, 1) /\ v.sent[1].what = v.pendingResize
            /\ ResizeTold(w, after, later, applied)
        BY <1>13, <3>2, <3>5
      <4>2. v.pendingResize.size = v.size
        <5>1. PICK k \in DOMAIN v.sent : LastResize(v, k) /\ v.sent[k].what.size = v.size
          BY <3>2 DEF SentSize
        <5>2. k = 1
          BY <1>4, <4>1, <5>1 DEF LastResize, Shifted
        <5> QED
          BY <4>1, <5>1, <5>2
      <4>3. CASE applied
        <5>1. NoResizeSent(w)
          BY <4>1, ShiftedNone
        <5>2. later.size = w.size
          BY <3>3, <4>1, <4>2, <4>3
        <5> QED
          BY <1>2, <3>1, <3>2, <5>1, <5>2 DEF Agrees, Asked
      <4>4. CASE ~applied
        <5>1. ResizeTold(w, after, later, FALSE)
          BY <4>1, <4>4
        <5> QED
          BY <1>2, <3>1, <3>2, <5>1 DEF Agrees
      <4> QED
        BY <4>3, <4>4
    <3> QED
      BY <3>4, <3>5
  <2> QED
    BY <2>1, <2>2, <2>3 DEF Sized
<1> QED
  BY <1>7, <1>8, <1>10, <1>14, <1>15 DEF Lined

-----------------------------------------------------------------------------
(* The invariant.                                                           *)

Inv ==
  /\ Whole(view, events, runtime)
  /\ changes \in 0 .. ChangeLimit
  /\ events \in Seq(Posted)
  /\ runtime \in Runtime

\* A view that was not used yet waits for nothing.
LEMMA InvInit == Init => Inv
<1> SUFFICES ASSUME Init
             PROVE  Inv
  OBVIOUS
<1>1. PICK v : v = view
  OBVIOUS
<1>2. /\ IsRecord(v) /\ v.activeFocus = FALSE /\ v.shown = TRUE /\ v.enabled = TRUE
      /\ v.size = 1 /\ v.epoch = 0 /\ v.attached = FALSE /\ v.ready = FALSE
      /\ v.control = FALSE /\ v.authority = FALSE
  BY <1>1 DEF Init, IsRecord, Names
<1>3. /\ v.desired = FALSE /\ v.claimed = FALSE /\ v.pendingFocus = 0
      /\ v.focusRetry = "none" /\ v.focusRefused = FALSE
  BY <1>1 DEF Init
<1>4. /\ v.resizeQueued = FALSE /\ v.lastSize = 0 /\ v.pendingResize = NoResize
      /\ v.resizeRetry = FALSE /\ v.claimPending = FALSE /\ v.resizeRefused = FALSE
      /\ v.passedOver = FALSE
  BY <1>1 DEF Init
<1>5. /\ v.queue = <<>> /\ v.inputRetry = FALSE /\ v.inputGeneration = 0
      /\ v.typed = 0 /\ v.taken = 0 /\ v.stray = FALSE
      /\ v.timers = EmptyBag /\ v.sent = <<>> /\ v.refusals = 0
  BY <1>1 DEF Init
<1>6. events = <<>> /\ runtime = Unknown /\ changes = 0
  BY DEF Init
<1>7. /\ EpochLimit \in Nat /\ ChangeLimit \in Nat /\ RefusalLimit \in Nat
      /\ SizeLimit \in Nat \ {0} /\ QueueLimit \in Nat /\ NoResize \in Resizing
  BY ConstantsAssumption DEF ConstantsAssumption, NoResize, Resizing
<1>8. v.timers \in TimerBag /\ DOMAIN v.timers = {}
  <2>1. v.timers \in [{} -> Nat \ {0}]
    BY ONLY <1>5 DEF EmptyBag, SetToBag
  <2> QED
    BY ONLY <2>1 DEF TimerBag
<1>9. IsView(v)
  <2>1. ItemTyped(v)
    <3>1. 1 \in Size /\ 0 \in 0 .. EpochLimit
      BY ONLY <1>7 DEF Size
    <3>2. /\ v.activeFocus \in BOOLEAN /\ v.shown \in BOOLEAN /\ v.enabled \in BOOLEAN
          /\ v.attached \in BOOLEAN /\ v.ready \in BOOLEAN /\ v.control \in BOOLEAN
          /\ v.authority \in BOOLEAN
      BY ONLY <1>2
    <3> QED
      BY ONLY <1>2, <3>1, <3>2 DEF ItemTyped
  <2>2. FocusTyped(v)
    <3>1. v.desired \in BOOLEAN /\ v.claimed \in BOOLEAN /\ v.focusRefused \in BOOLEAN
      BY ONLY <1>3
    <3> QED
      BY ONLY <1>3, <3>1 DEF FocusTyped
  <2>3. ResizeTyped(v)
    <3>1. /\ v.resizeQueued \in BOOLEAN /\ v.resizeRetry \in BOOLEAN
          /\ v.claimPending \in BOOLEAN /\ v.resizeRefused \in BOOLEAN
          /\ v.passedOver \in BOOLEAN
      BY ONLY <1>4
    <3>2. 0 \in 0 .. SizeLimit
      BY ONLY <1>7
    <3> QED
      BY ONLY <1>4, <1>7, <3>1, <3>2 DEF ResizeTyped
  <2>4. InputTyped(v)
    <3>1. v.inputRetry \in BOOLEAN /\ v.stray \in BOOLEAN
      BY ONLY <1>5
    <3>2. Len(v.queue) = 0 /\ v.queue \in Seq(Input) /\ 0 <= QueueLimit
      BY ONLY <1>5, <1>7
    <3> QED
      BY ONLY <1>5, <3>1, <3>2 DEF InputTyped
  <2>5. OutsideTyped(v)
    <3>1. v.sent \in Seq(Command) /\ 0 \in 0 .. RefusalLimit
      BY ONLY <1>5, <1>7
    <3> QED
      BY ONLY <1>5, <1>8, <3>1 DEF OutsideTyped
  <2> QED
    BY ONLY <1>2, <2>1, <2>2, <2>3, <2>4, <2>5 DEF IsView
<1>10. Timed(v)
  BY ONLY <1>3, <1>4, <1>5, <1>8 DEF Timed
<1>11. Lined(v, <<>>, Unknown)
  <2>1. DOMAIN v.sent = {} /\ DOMAIN <<>> = {} /\ ~Unknown.focused
    BY ONLY <1>5 DEF Unknown
  <2>2. Numbered(v, <<>>) /\ Alternating(v, Unknown)
    BY ONLY <2>1 DEF Numbered, Alternating
  <2>3. FocusKnown(v, <<>>, Unknown) /\ ResizeKnown(v, <<>>, Unknown)
    BY ONLY <1>3, <1>4, <2>1 DEF FocusKnown, ResizeKnown, NoFocusSent
  <2> QED
    BY ONLY <2>2, <2>3 DEF Lined
<1>12. Apart(v) /\ Wanted(v)
  BY ONLY <1>2, <1>3, <1>4, <1>5 DEF Apart, Wanted, InteractionAvailable
<1>13. Queued(v)
  <2>1. Len(v.queue) = 0 /\ DOMAIN v.queue = {}
    BY ONLY <1>5
  <2> QED
    BY ONLY <1>5, <2>1 DEF Queued
<1>14. Sized(v, <<>>, Unknown)
  BY ONLY <1>2, <1>4 DEF Sized, Claims, Looked
<1>15. Unknown \in Runtime
  <2>1. 0 \in 0 .. SizeLimit
    BY ONLY <1>7
  <2> QED
    BY ONLY <2>1 DEF Unknown, Runtime
<1>16. 0 \in 0 .. ChangeLimit
  BY ONLY <1>7
<1>17. Whole(v, <<>>, Unknown)
  BY ONLY <1>9, <1>10, <1>11, <1>12, <1>13, <1>14 DEF Whole
<1> QED
  BY <1>1, <1>6, <1>15, <1>16, <1>17 DEF Inv

\* A change of the item or the application, or an input, leaves the view whole.
LEMMA ChangeKeeps ==
  ASSUME Inv, NEW after, Change(after), \A w \in after : Whole(w, events, runtime)
  PROVE  Inv'
<1>1. /\ changes' = changes + 1 /\ changes < ChangeLimit /\ changes \in 0 .. ChangeLimit
      /\ Whole(view', events, runtime) /\ events' = events /\ runtime' = runtime
      /\ events \in Seq(Posted) /\ runtime \in Runtime
  BY DEF Inv, Change
<1>2. changes' \in 0 .. ChangeLimit
  BY <1>1, ConstantsAssumption DEF ConstantsAssumption
<1> QED
  BY ONLY <1>1, <1>2 DEF Inv

LEMMA ItemChangesKeep ==
  ASSUME Inv, ItemChanges
  PROVE  Inv'
<1>1. Whole(view, events, runtime) /\ events \in Seq(Posted)
  BY DEF Inv
<1>2. CASE InteractionAvailable(view) /\ Change(FocusIn(view))
  <2>1. \A w \in FocusIn(view) : Whole(w, events, runtime)
    BY <1>1, <1>2, ItemFocused
  <2> QED
    BY <1>2, <2>1, ChangeKeeps
<1>3. CASE Change(FocusOut(view))
  <2>1. \A w \in FocusOut(view) : Whole(w, events, runtime)
    BY <1>1, ItemUnfocused
  <2> QED
    BY <1>3, <2>1, ChangeKeeps
<1>4. CASE Change(SetShown(view))
  <2>1. \A w \in SetShown(view) : Whole(w, events, runtime)
    BY <1>1, ItemShown
  <2> QED
    BY <1>4, <2>1, ChangeKeeps
<1>5. CASE Change(SetEnabled(view))
  <2>1. \A w \in SetEnabled(view) : Whole(w, events, runtime)
    BY <1>1, ItemEnabled
  <2> QED
    BY <1>5, <2>1, ChangeKeeps
<1>6. ASSUME NEW size \in Size, Change(Resized(view, size))
      PROVE  Inv'
  <2>1. \A w \in Resized(view, size) : Whole(w, events, runtime)
    BY <1>1, ItemResized
  <2> QED
    BY <1>6, <2>1, ChangeKeeps
<1> QED
  BY <1>2, <1>3, <1>4, <1>5, <1>6 DEF ItemChanges

LEMMA ApplicationChangesKeep ==
  ASSUME Inv, ApplicationChanges
  PROVE  Inv'
<1>1. Whole(view, events, runtime) /\ events \in Seq(Posted)
  BY DEF Inv
<1>2. CASE Change(SetTerminalInteraction(view))
  <2>1. ASSUME NEW w \in SetTerminalInteraction(view)
        PROVE  Whole(w, events, runtime)
    <3>1. CASE view.control
      <4>1. w \in Revoked(view)
        BY <3>1 DEF SetTerminalInteraction
      <4> QED
        BY <1>1, <4>1, InteractionRevoked
    <3>2. CASE ~view.control
      <4>1. w \in Granted(view)
        BY <3>2 DEF SetTerminalInteraction
      <4> QED
        BY <1>1, <3>2, <4>1, InteractionGranted
    <3> QED
      BY <3>1, <3>2
  <2> QED
    BY <1>2, <2>1, ChangeKeeps
<1>3. CASE Change(SetFocusedSizeAuthority(view))
  <2>1. \A w \in SetFocusedSizeAuthority(view) : Whole(w, events, runtime)
    BY <1>1, AuthorityChanges
  <2> QED
    BY <1>3, <2>1, ChangeKeeps
<1> QED
  BY <1>2, <1>3 DEF ApplicationChanges

LEMMA TypeKeeps ==
  ASSUME Inv, Type
  PROVE  Inv'
<1>1. \A w \in EnqueueInput(view) : Whole(w, events, runtime)
  BY InputTypes DEF Inv
<1> QED
  BY <1>1, ChangeKeeps DEF Type

LEMMA UnknownTyped == Unknown \in Runtime
<1>1. 0 \in 0 .. SizeLimit
  BY ConstantsAssumption DEF ConstantsAssumption
<1> QED
  BY <1>1 DEF Unknown, Runtime

LEMMA AttachKeeps ==
  ASSUME Inv, Attach
  PROVE  Inv'
<1>1. IsView(view) /\ Timed(view) /\ ~view.stray /\ changes \in 0 .. ChangeLimit
  BY DEF Inv, Whole, Queued
<1>2. Blank(view', view)
  BY <1>1, Attaches DEF Attach
<1>3. PICK w, ev : w = view' /\ ev = events'
  OBVIOUS
<1>4. /\ ev \in {<<>>, <<[type |-> "connected", id |-> 0, applied |-> TRUE]>>}
      /\ runtime' = Unknown /\ changes' = changes
  BY <1>3 DEF Attach
<1>5. \A i \in DOMAIN ev : ev[i].id = 0 /\ ev[i].type = "connected"
  BY ONLY <1>4
<1>6. ev \in Seq(Posted)
  <2>1. PICK news : news = [type |-> "connected", id |-> 0, applied |-> TRUE]
    OBVIOUS
  <2>2. news \in Posted
    BY ONLY <2>1 DEF Posted
  <2>3. ev = <<>> \/ ev = <<news>>
    BY ONLY <1>4, <2>1
  <2>4. CASE ev = <<>>
    BY ONLY <2>4
  <2>5. CASE ev = <<news>>
    BY ONLY <2>2, <2>5
  <2> QED
    BY ONLY <2>3, <2>4, <2>5
<1>7. Blank(w, view)
  BY <1>2, <1>3
<1>8. Whole(w, ev, Unknown)
  BY ONLY <1>1, <1>5, <1>7, StartsOver
<1> QED
  BY ONLY <1>1, <1>3, <1>4, <1>6, <1>8, UnknownTyped DEF Inv

LEMMA DetachKeeps ==
  ASSUME Inv, Detach
  PROVE  Inv'
<1>1. IsView(view) /\ Timed(view) /\ ~view.stray /\ changes \in 0 .. ChangeLimit
  BY DEF Inv, Whole, Queued
<1>2. PICK w : w = view'
  OBVIOUS
<1>3. /\ view.epoch < EpochLimit /\ w = Detached(view) /\ events' = <<>>
      /\ runtime' = Unknown /\ changes' = changes
  BY <1>2 DEF Detach
<1>4. Blank(w, view)
  BY ONLY <1>1, <1>3, Detaches
<1>5. PICK ev : ev = <<>>
  OBVIOUS
<1>6. (\A i \in DOMAIN ev : ev[i].id = 0 /\ ev[i].type = "connected") /\ ev \in Seq(Posted)
  BY ONLY <1>5
<1>7. Whole(w, ev, Unknown)
  BY ONLY <1>1, <1>4, <1>6, StartsOver
<1> QED
  BY ONLY <1>1, <1>2, <1>3, <1>5, <1>6, <1>7, UnknownTyped DEF Inv

LEMMA PresentFrameKeeps ==
  ASSUME Inv, PresentFrame
  PROVE  Inv'
<1>1. PICK w : w = view'
  OBVIOUS
<1>2. /\ w = ScheduleResize([view EXCEPT !.ready = TRUE])
      /\ changes' = changes /\ events' = events /\ runtime' = runtime
  BY <1>1 DEF PresentFrame
<1>3. Whole(w, events, runtime)
  BY <1>2, FrameComes DEF Inv
<1> QED
  BY <1>1, <1>2, <1>3 DEF Inv

LEMMA HandleEventKeeps ==
  ASSUME Inv, HandleEvent
  PROVE  Inv'
<1>1. PICK w, event, rest : w = view' /\ event = Head(events) /\ rest = Tail(events)
  OBVIOUS
<1>2. /\ events # <<>> /\ events' = rest /\ changes' = changes /\ runtime' = runtime
  BY <1>1 DEF HandleEvent
<1>3. \/ /\ event.type = "connected"
         /\ w \in IF view.activeFocus /\ InteractionAvailable(view)
                  THEN SendFocus(view) ELSE {view}
      \/ event.type = "focus" /\ w = HandleFocusOutcome(view, event)
      \/ event.type = "resize" /\ w = HandleResizeOutcome(view, event)
  BY <1>1 DEF HandleEvent
<1>4. Whole(w, rest, runtime)
  BY <1>1, <1>2, <1>3, EventHandled DEF Inv
<1>5. rest \in Seq(Posted)
  BY <1>1, <1>2, Tails DEF Inv
<1> QED
  BY ONLY Inv, <1>1, <1>2, <1>4, <1>5 DEF Inv

LEMMA TimerFiresKeeps ==
  ASSUME Inv, NEW timer \in DOMAIN view.timers, TimerFires(timer)
  PROVE  Inv'
<1>1. PICK v, w : v = view /\ w = view'
  OBVIOUS
<1>2. PICK fired : fired = [v EXCEPT !.timers = @ (-) SetToBag({timer})]
  OBVIOUS
<1>3. /\ Whole(v, events, runtime) /\ events \in Seq(Posted) /\ timer \in DOMAIN v.timers
      /\ changes' = changes /\ events' = events /\ runtime' = runtime
  BY <1>1 DEF Inv, TimerFires
<1>4. \/ timer.epoch # v.epoch /\ w = fired
      \/ /\ timer.epoch = v.epoch /\ timer.does = "focusRetry"
         /\ \E u : /\ u = [fired EXCEPT !.focusRetry = "none"]
                   /\ \/ v.focusRetry = "none" /\ w = u
                      \/ v.focusRetry = "focus" /\ w \in DispatchFocus(u)
                      \/ v.focusRetry = "blur" /\ w \in DispatchBlur(u)
      \/ /\ timer.epoch = v.epoch /\ timer.does = "resize"
         /\ w \in DispatchResize([fired EXCEPT !.resizeQueued = FALSE])
      \/ /\ timer.epoch = v.epoch /\ timer.does = "resizeRetry"
         /\ w \in DispatchResize([fired EXCEPT !.resizeRetry = FALSE])
      \/ /\ timer.epoch = v.epoch /\ timer.does = "inputRetry"
         /\ \/ /\ timer.generation = v.inputGeneration
               /\ w \in DrainInputQueue([fired EXCEPT !.inputRetry = FALSE])
            \/ timer.generation # v.inputGeneration /\ w = fired
  BY <1>1, <1>2 DEF TimerFires, Fenced
<1>5. CASE timer.epoch # v.epoch /\ w = fired
  <2>1. ~Current(v, timer)
    BY <1>5 DEF Current, Heard
  <2>2. Whole(w, events, runtime)
    BY <1>2, <1>3, <1>5, <2>1, TimerStale
  <2> QED
    BY ONLY Inv, <1>1, <1>3, <2>2 DEF Inv
<1>6. CASE /\ timer.epoch = v.epoch /\ timer.does = "focusRetry"
           /\ \E u : /\ u = [fired EXCEPT !.focusRetry = "none"]
                     /\ \/ v.focusRetry = "none" /\ w = u
                        \/ v.focusRetry = "focus" /\ w \in DispatchFocus(u)
                        \/ v.focusRetry = "blur" /\ w \in DispatchBlur(u)
  <2>1. Heard(v, timer, "focusRetry")
    BY <1>6 DEF Heard
  <2>2. Whole(w, events, runtime)
    BY <1>2, <1>3, <1>6, <2>1, FocusTimerFires
  <2> QED
    BY ONLY Inv, <1>1, <1>3, <2>2 DEF Inv
<1>7. CASE /\ timer.epoch = v.epoch /\ timer.does = "resize"
           /\ w \in DispatchResize([fired EXCEPT !.resizeQueued = FALSE])
  <2>1. Heard(v, timer, "resize")
    BY <1>7 DEF Heard
  <2>2. Whole(w, events, runtime)
    BY <1>2, <1>3, <1>7, <2>1, ResizeTimerFires
  <2> QED
    BY ONLY Inv, <1>1, <1>3, <2>2 DEF Inv
<1>8. CASE /\ timer.epoch = v.epoch /\ timer.does = "resizeRetry"
           /\ w \in DispatchResize([fired EXCEPT !.resizeRetry = FALSE])
  <2>1. Heard(v, timer, "resizeRetry")
    BY <1>8 DEF Heard
  <2>2. Whole(w, events, runtime)
    BY <1>2, <1>3, <1>8, <2>1, ResizeTimerFires
  <2> QED
    BY ONLY Inv, <1>1, <1>3, <2>2 DEF Inv
<1>9. CASE /\ timer.epoch = v.epoch /\ timer.does = "inputRetry"
           /\ timer.generation = v.inputGeneration
           /\ w \in DrainInputQueue([fired EXCEPT !.inputRetry = FALSE])
  <2>1. Current(v, timer)
    BY <1>9 DEF Current, Heard
  <2>2. Whole(w, events, runtime)
    BY <1>2, <1>3, <1>9, <2>1, InputTimerFires
  <2> QED
    BY ONLY Inv, <1>1, <1>3, <2>2 DEF Inv
<1>10. CASE /\ timer.epoch = v.epoch /\ timer.does = "inputRetry"
            /\ timer.generation # v.inputGeneration /\ w = fired
  <2>1. ~Current(v, timer)
    BY <1>10 DEF Current
  <2>2. Whole(w, events, runtime)
    BY <1>2, <1>3, <1>10, <2>1, TimerStale
  <2> QED
    BY ONLY Inv, <1>1, <1>3, <2>2 DEF Inv
<1> QED
  BY ONLY <1>4, <1>5, <1>6, <1>7, <1>8, <1>9, <1>10

LEMMA RuntimeCarriesOutKeeps ==
  ASSUME Inv, NEW applied \in BOOLEAN, RuntimeCarriesOut(applied)
  PROVE  Inv'
<1>1. PICK v, w, ev, rt, after, later :
        /\ v = view /\ w = view' /\ ev = events /\ rt = runtime
        /\ after = events' /\ later = runtime'
  OBVIOUS
<1>2. PICK command : command = Head(v.sent)
  OBVIOUS
<1>3. /\ Whole(v, events, runtime) /\ ev \in Seq(Posted) /\ rt \in Runtime
      /\ v.sent # <<>> /\ (applied \/ v.refusals < RefusalLimit)
      /\ w = Carried(v, applied) /\ changes' = changes
      /\ Lined(v, ev, rt) /\ Sized(v, ev, rt)
  BY <1>1 DEF Inv, Whole, RuntimeCarriesOut, Carried
<1>4. /\ IsView(w) /\ SameItem(v, w) /\ SameFocus(v, w) /\ SameResize(v, w)
      /\ Timed(w) /\ Apart(w) /\ Wanted(w) /\ Queued(w)
      /\ Shifted(v.sent, w.sent) /\ command = v.sent[1] /\ v.sent[1] \in Command
  BY <1>2, <1>3, CarriedLeaves
<1>5. /\ command.what.id \in Nat /\ command.what.size \in 0 .. SizeLimit
      /\ command.what.claim \in BOOLEAN
  BY ONLY <1>4 DEF Command, Resizing
<1>6. \/ /\ command.type = "blur" /\ after = ev /\ later = [rt EXCEPT !.focused = FALSE]
      \/ /\ command.type = "focus" /\ later = [rt EXCEPT !.focused = @ \/ applied]
         /\ after = Append(ev, [type |-> "focus", id |-> command.what.id, applied |-> applied])
      \/ /\ command.type = "resize"
         /\ later = IF applied
                    THEN [rt EXCEPT !.size = command.what.size,
                                    !.claimed = @ \/ command.what.claim]
                    ELSE rt
         /\ after = Append(ev, [type |-> "resize", id |-> command.what.id, applied |-> applied])
  BY <1>1, <1>2 DEF RuntimeCarriesOut
<1>7. /\ Lined(w, after, later) /\ Sized(w, after, later)
      /\ after \in Seq(Posted) /\ later \in Runtime
  <2>1. CASE /\ command.type = "blur" /\ after = ev /\ later = [rt EXCEPT !.focused = FALSE]
    <3>1. /\ later.focused = FALSE /\ later.size = rt.size /\ later.claimed = rt.claimed
          /\ later \in Runtime
      BY ONLY <1>3, <2>1 DEF Runtime
    <3> QED
      BY ONLY <1>3, <1>4, <2>1, <3>1, BlurCarried
  <2>2. CASE /\ command.type = "focus" /\ later = [rt EXCEPT !.focused = @ \/ applied]
             /\ after = Append(ev, [type |-> "focus", id |-> command.what.id, applied |-> applied])
    <3>1. PICK o : o = [type |-> "focus", id |-> command.what.id, applied |-> applied]
      OBVIOUS
    <3>2. /\ o \in Posted /\ o.type = "focus" /\ o.id = v.sent[1].what.id
          /\ o.applied = applied /\ v.sent[1].type = "focus"
      BY ONLY <1>4, <1>5, <2>2, <3>1, applied \in BOOLEAN DEF Posted
    <3>3. /\ later.focused = (rt.focused \/ applied) /\ later.size = rt.size
          /\ later.claimed = rt.claimed /\ later \in Runtime
      BY ONLY <1>3, <2>2, applied \in BOOLEAN DEF Runtime
    <3>4. after = Append(ev, o) /\ after \in Seq(Posted)
      BY ONLY <1>3, <2>2, <3>1, <3>2
    <3> QED
      BY ONLY <1>3, <1>4, <3>2, <3>3, <3>4, applied \in BOOLEAN, FocusCarried
  <2>3. CASE /\ command.type = "resize"
             /\ later = IF applied
                        THEN [rt EXCEPT !.size = command.what.size,
                                        !.claimed = @ \/ command.what.claim]
                        ELSE rt
             /\ after = Append(ev, [type |-> "resize", id |-> command.what.id, applied |-> applied])
    <3>1. PICK o : o = [type |-> "resize", id |-> command.what.id, applied |-> applied]
      OBVIOUS
    <3>2. /\ o \in Posted /\ o.type = "resize" /\ o.id = v.sent[1].what.id
          /\ o.applied = applied /\ v.sent[1].type = "resize"
      BY ONLY <1>4, <1>5, <2>3, <3>1, applied \in BOOLEAN DEF Posted
    <3>3. /\ later.focused = rt.focused /\ later \in Runtime
          /\ applied => /\ later.size = v.sent[1].what.size
                        /\ rt.claimed \/ v.sent[1].what.claim => later.claimed
          /\ ~applied => later.size = rt.size /\ later.claimed = rt.claimed
      BY ONLY <1>3, <1>4, <1>5, <2>3 DEF Runtime
    <3>4. after = Append(ev, o) /\ after \in Seq(Posted)
      BY ONLY <1>3, <2>3, <3>1, <3>2
    <3> QED
      BY ONLY <1>3, <1>4, <3>2, <3>3, <3>4, applied \in BOOLEAN, ResizeCarried
  <2> QED
    BY ONLY <1>6, <2>1, <2>2, <2>3
<1> QED
  BY ONLY Inv, <1>1, <1>3, <1>4, <1>7 DEF Inv, Whole

LEMMA InvNext ==
  ASSUME Inv, [Next]_vars
  PROVE  Inv'
<1>1. CASE UNCHANGED vars
  BY <1>1 DEF Inv, vars
<1>2. CASE Next
  BY <1>2, ItemChangesKeep, ApplicationChangesKeep, TypeKeeps, AttachKeeps, DetachKeeps,
     PresentFrameKeeps, HandleEventKeeps, TimerFiresKeeps, RuntimeCarriesOutKeeps DEF Next
<1> QED
  BY <1>1, <1>2

LEMMA Invariant == Spec => []Inv
<1>1. Init => Inv
  BY InvInit
<1>2. Inv /\ [Next]_vars => Inv'
  BY InvNext
<1> QED
  BY <1>1, <1>2, PTL DEF Spec

-----------------------------------------------------------------------------
(* What follows from it.                                                    *)

\* Every field of the view has its type, and no more inputs are queued than the limit.
THEOREM TypeCorrect == Spec => []TypeOK
<1>1. Inv => TypeOK
  <2> SUFFICES ASSUME Inv
               PROVE  TypeOK
    OBVIOUS
  <2>1. /\ ItemTyped(view) /\ FocusTyped(view) /\ ResizeTyped(view) /\ InputTyped(view)
        /\ OutsideTyped(view) /\ changes \in 0 .. ChangeLimit /\ events \in Seq(Posted)
        /\ runtime \in Runtime
    BY DEF Inv, Whole, IsView
  <2>2. IsABag(view.timers) /\ DOMAIN view.timers \subseteq Timer
    BY ONLY <2>1 DEF OutsideTyped, TimerBag, IsABag
  <2> QED
    BY ONLY <2>1, <2>2 DEF TypeOK, ItemTyped, FocusTyped, ResizeTyped, InputTyped,
                           OutsideTyped, Runtime
<1> QED
  BY <1>1, Invariant, PTL

\* Whatever waits for a timer has one coming, and input never waits without it: the
\* handlers of TerminalView set each flag together with its timer, and a detachment, a
\* revocation or a hidden view leaves none behind.
THEOREM RetryComes == Spec => []RetryIsComing
<1>1. Inv => RetryIsComing
  <2> SUFFICES ASSUME Inv
               PROVE  RetryIsComing
    OBVIOUS
  <2>1. Timed(view) /\ Queued(view) /\ IsView(view)
    BY DEF Inv, Whole
  <2>2. \A does : does # "inputRetry" => (Comes(view, does) => Coming(does))
    BY DEF Comes, Heard, Coming
  <2>3. Coming("inputRetry") <=> \E timer \in DOMAIN view.timers : Current(view, timer)
    BY DEF Coming, Current, Heard
  <2>4. view.inputRetry \in BOOLEAN
    BY ONLY <2>1 DEF IsView, InputTyped
  <2>5. view.inputRetry <=> Coming("inputRetry")
    BY ONLY <2>1, <2>3, <2>4 DEF Timed
  <2> QED
    BY ONLY <2>1, <2>2, <2>5 DEF RetryIsComing, Timed, Queued
<1> QED
  BY <1>1, Invariant, PTL

\* Inputs are taken in the order they were typed, each once, by the session they were
\* typed for, and none after the interaction was lost.
THEOREM InputsTakenInTurn == Spec => []InputInTurn
<1>1. Inv => InputInTurn
  BY DEF Inv, Whole, Queued, InputInTurn
<1> QED
  BY <1>1, Invariant, PTL

\* Once nothing is on its way, the runtime has the focus where the view wants it and
\* the size and the claim of the view, however it came there.
THEOREM SettledAgrees == Spec => []AgreeOnceSettled
<1>1. Inv => AgreeOnceSettled
  <2> SUFFICES ASSUME Inv, Settled
               PROVE  /\ ~view.focusRefused =>
                           /\ runtime.focused = view.claimed
                           /\ view.claimed <=> view.desired /\ view.control
                                                 /\ InteractionAvailable(view)
                      /\ CanResize /\ ~view.passedOver =>
                           /\ runtime.size = view.size
                           /\ view.authority => runtime.claimed
    BY DEF AgreeOnceSettled
  <2>1. /\ IsView(view) /\ Timed(view) /\ Lined(view, events, runtime)
        /\ Wanted(view) /\ Sized(view, events, runtime) /\ runtime \in Runtime
    BY DEF Inv, Whole
  <2>2. /\ view.attached /\ view.ready /\ DOMAIN view.sent = {} /\ DOMAIN events = {}
        /\ \A timer \in DOMAIN view.timers : timer.epoch # view.epoch
    BY DEF Settled
  <2>3. view.focusRetry = "none" /\ ~view.resizeQueued /\ ~view.resizeRetry
    BY ONLY <2>1, <2>2 DEF Timed, Comes, Heard
  <2>4. NoFocusSent(view) /\ NoResizeSent(view) /\ \A size : ~SentSize(view, size)
    BY ONLY <2>2 DEF NoFocusSent, NoResizeSent, SentSize
  <2>5. view.pendingFocus = 0
    BY ONLY <2>1, <2>2 DEF Lined, FocusKnown, FocusSent, FocusTold
  <2>6. view.pendingResize = NoResize
    BY ONLY <2>1, <2>2 DEF Lined, ResizeKnown, ResizeSent, ResizeTold
  <2>7. runtime.focused = view.claimed
    <3>1. view.claimed \in BOOLEAN /\ runtime.focused \in BOOLEAN
      BY ONLY <2>1 DEF IsView, FocusTyped, Runtime
    <3>2. view.claimed <=> runtime.focused
      BY ONLY <2>1, <2>2, <2>5 DEF Lined, FocusKnown
    <3> QED
      BY ONLY <3>1, <3>2
  <2>8. ~view.focusRefused =>
          (view.claimed <=> view.desired /\ view.control /\ InteractionAvailable(view))
    BY ONLY <2>1, <2>2, <2>3, <2>5 DEF Wanted
  <2>9. ASSUME CanResize, ~view.passedOver
        PROVE  runtime.size = view.size /\ (view.authority => runtime.claimed)
    <3>1. Looked(view) /\ view.control
      BY ONLY <2>2, <2>3, <2>9 DEF CanResize, InteractionAvailable, Looked
    <3>2. Claims(view, runtime) /\ Agrees(view, events, runtime)
      BY ONLY <2>1, <3>1 DEF Sized
    <3> QED
      BY ONLY <2>2, <2>4, <2>6, <3>1, <3>2 DEF Claims, Agrees, Asked
  <2> QED
    BY ONLY <2>7, <2>8, <2>9
<1> QED
  BY <1>1, Invariant, PTL
=============================================================================
