----------------------- MODULE SessionRegistry_proofs -----------------------
(***************************************************************************)
(* Proofs about SessionRegistry, for every value of its constants.         *)
(***************************************************************************)
EXTENDS SessionRegistry, FiniteSetTheorems, WellFoundedInduction, TLAPS

(***************************************************************************)
(* Type correctness.                                                       *)
(***************************************************************************)
\* Taking a generation out of the queue leaves a queue, no longer than before.
LEMMA EraseType ==
  ASSUME NEW S, NEW seeds \in Seq(S), NEW s
  PROVE  /\ Erase(seeds, s) \in Seq(S)
         /\ Len(Erase(seeds, s)) <= Len(seeds)
<1> DEFINE at == {i \in DOMAIN seeds : seeds[i] = s}
           k  == CHOOSE i \in at : TRUE
           E  == [i \in 1 .. Len(seeds) - 1 |-> IF i < k THEN seeds[i] ELSE seeds[i + 1]]
<1>1. CASE at = {}
  BY <1>1 DEF Erase
<1>2. CASE at # {}
  <2>1. Len(seeds) \in Nat /\ Len(seeds) > 0
    BY <1>2
  <2>2. E \in Seq(S) /\ Len(E) = Len(seeds) - 1
    BY <2>1
  <2>3. Erase(seeds, s) = E
    BY <1>2 DEF Erase
  <2> QED
    BY <2>1, <2>2, <2>3
<1> QED
  BY <1>1, <1>2

\* The entries of a session and of any set the callback thread copies are finite.
LEMMA SurfacesFinite ==
  ASSUME NEW S \in SUBSET Surface
  PROVE  IsFiniteSet(S) /\ Cardinality(S) \in Nat
<1>1. IsFiniteSet(Surface)
  BY FS_Interval, ConstantsAssumption DEF Surface
<1> QED
  BY <1>1, FS_Subset, FS_CardinalityType

(***************************************************************************)
(* The records the two threads' control states are made of.                *)
(***************************************************************************)
\* What publishFrame is handed is a frame or one of the four failures.
LEMMA ResultTyped ==
  /\ \A r \in Nat : Frame(r) \in ResultType
  /\ \A k \in FailureKind : Failure(k) \in ResultType
  /\ NoResult \in ResultType
  /\ {"missing", "stale", "gap", "ghostty"} \subseteq FailureKind
BY DEF Frame, Failure, NoResult, ResultType, FailureKind

\* A control state of the GUI thread built by GuiAt is one.
LEMMA GuiTyped ==
  ASSUME NEW pc \in {"idle", "connect", "refresh", "cancel", "rollback", "publish"},
         NEW s \in 0 .. SurfaceLimit, NEW t \in 0 .. SubLimit, NEW r \in ResultType
  PROVE  GuiAt(pc, s, t, r) \in GuiType
BY DEF GuiAt, GuiType

\* A delivery that has just begun is a control state of the callback thread.
LEMMA CallTyped ==
  ASSUME NEW pc \in {"idle", "lookup", "targets"},
         NEW kind \in {"none", "data", "resize", "checkpoint"},
         NEW t \in 0 .. SubLimit, NEW n \in Nat
  PROVE  Call(pc, kind, t, n) \in CbType
BY ResultTyped, ConstantsAssumption DEF Call, CbType

\* So are the idle states of both threads.
LEMMA IdleTyped == GuiIdle \in GuiType /\ CbIdle \in CbType
BY GuiTyped, CallTyped, ResultTyped, ConstantsAssumption DEF GuiIdle, CbIdle

\* Every reachable state of the registry, its kernels and the two threads is
\* well typed, and the session stays within its bounds on surfaces and refreshes.
THEOREM TypeCorrect == Spec => []TypeOK
<1>1. Init => TypeOK
  <2> SUFFICES ASSUME Init PROVE TypeOK
    OBVIOUS
  <2>1. session \in SessionType /\ Cardinality(session.surfaces) = 0 /\ Len(session.seeds) = 0
    BY FS_EmptySet, ConstantsAssumption DEF Init, NoSession, SessionType
  <2>2. kernel \in [Surface -> KernelType] /\ link \in [Sub -> LinkType]
    BY ConstantsAssumption DEF Init, KernelType, LinkType
  <2> QED
    BY <2>1, <2>2, IdleTyped, ConstantsAssumption DEF Init, TypeOK
<1>2. TypeOK /\ [Next]_vars => TypeOK'
  <2> SUFFICES ASSUME TypeOK, [Next]_vars PROVE TypeOK'
    OBVIOUS
  <2>1. ASSUME NEW t \in Sub, Register(t) PROVE TypeOK'
    <3> DEFINE s == nextSurface + 1
    <3>1. s \in Surface /\ s \in 0 .. SurfaceLimit /\ t \in 0 .. SubLimit
      BY <2>1, ConstantsAssumption DEF Register, Surface, Sub
    <3>2. nextSub' \in 0 .. SubLimit
      BY <2>1, <3>1 DEF Register, Offered, TypeOK
    <3>3. sub' \in [Surface -> 0 .. SubLimit] /\ active' \in [Surface -> BOOLEAN]
      BY <2>1, <3>1 DEF Register, NewEntry, TypeOK
    <3>4. gui' \in GuiType
      BY <2>1, <3>1, GuiTyped, IdleTyped, ResultTyped DEF Register, TypeOK
    <3>5. /\ session' \in SessionType
          /\ Cardinality(session'.surfaces) <= MaxSurfaces
          /\ Len(session'.seeds) <= MaxSeeds
      <4>1. CASE session.sub = 0
        <5>1. session' = [sub |-> t, surfaces |-> {s}, seeds |-> <<>>, admitted |-> FALSE]
          BY <2>1, <4>1 DEF Register
        <5>2. Cardinality({s}) = 1
          BY FS_Singleton
        <5> QED
          BY <3>1, <5>1, <5>2, ConstantsAssumption DEF SessionType
      <4>2. CASE session.sub # 0 /\ Admissible(t)
        <5> DEFINE S == session.surfaces \cup {s}
                   Q == IF RequiresRefresh THEN Append(session.seeds, s) ELSE session.seeds
        <5>1. session' = [session EXCEPT !.surfaces = S, !.seeds = Q]
          BY <2>1, <4>2 DEF Register
        <5>2. session \in SessionType /\ session.surfaces \in SUBSET Surface
              /\ session.seeds \in Seq(Surface) /\ Len(session.seeds) <= MaxSeeds
          BY DEF TypeOK, SessionType
        <5>3. S \in SUBSET Surface /\ Q \in Seq(Surface)
          BY <3>1, <5>2
        <5>4. Cardinality(S) <= Cardinality(session.surfaces) + 1
              /\ Cardinality(S) \in Nat /\ Cardinality(session.surfaces) \in Nat
          <6>1. IsFiniteSet(session.surfaces) /\ Cardinality(session.surfaces) \in Nat
            BY <5>2, SurfacesFinite
          <6>2. Cardinality(S) = Cardinality(session.surfaces)
                \/ Cardinality(S) = Cardinality(session.surfaces) + 1
            BY <6>1, FS_AddElement
          <6> QED
            BY <6>1, <6>2
        <5>5. Cardinality(S) <= MaxSurfaces
          BY <4>2, <5>4, ConstantsAssumption DEF Admissible
        <5>6. Len(Q) <= MaxSeeds
          BY <3>1, <4>2, <5>2, ConstantsAssumption DEF Admissible, RequiresRefresh
        <5>7. session' \in SessionType /\ session'.surfaces = S /\ session'.seeds = Q
          BY <5>1, <5>2, <5>3 DEF SessionType
        <5> QED
          BY <5>5, <5>6, <5>7
      <4>3. CASE session.sub # 0 /\ ~Admissible(t)
        BY <2>1, <4>3 DEF Register, TypeOK
      <4> QED
        BY <4>1, <4>2, <4>3
    <3>6. nextSurface' \in 0 .. SurfaceLimit
          /\ UNCHANGED <<needs, pub, kernel, told, cb, link>>
      BY <2>1, <3>1 DEF Register
    <3> QED
      BY <3>2, <3>3, <3>4, <3>5, <3>6 DEF TypeOK
  <2>2. CASE RuntimeAccepts
    <3>1. gui.sub \in 0 .. SubLimit
      BY DEF TypeOK, GuiType
    <3>2. link' \in [Sub -> LinkType]
      <4>1. \A t \in Sub : link[t] \in LinkType /\ link[t].owed + 1 \in Nat
        BY DEF TypeOK, LinkType
      <4>2. link' = [t \in Sub |-> IF t = gui.sub
                                 THEN [[link[t] EXCEPT !.owed = @ + 1] EXCEPT !.open = TRUE]
                                 ELSE link[t]]
        BY <2>2 DEF RuntimeAccepts, TypeOK
      <4> QED
        BY <4>1, <4>2 DEF LinkType
    <3> QED
      BY <2>2, <3>2, IdleTyped DEF RuntimeAccepts, TypeOK
  <2>3. CASE RuntimeRejects
    BY <2>3 DEF RuntimeRejects, TypeOK, GuiType
  <2>4. CASE CancelSurfaceRefresh
    <3>1. gui' \in GuiType
      BY <2>4 DEF CancelSurfaceRefresh, TypeOK, GuiType
    <3>2. session \in SessionType /\ session.seeds \in Seq(Surface)
      BY DEF TypeOK, SessionType
    <3> DEFINE Q == Erase(session.seeds, gui.surface)
    <3>3. Q \in Seq(Surface) /\ Len(Q) <= Len(session.seeds)
          /\ Len(Q) \in Nat /\ Len(session.seeds) \in Nat
      BY <3>2, EraseType
    <3>4. CASE session' = session
      BY <2>4, <3>1, <3>4 DEF CancelSurfaceRefresh, TypeOK
    <3>5. CASE session' = [session EXCEPT !.seeds = Q]
      <4>1. session' \in SessionType /\ session'.seeds = Q /\ session'.surfaces = session.surfaces
        BY <3>2, <3>3, <3>5 DEF SessionType
      <4>2. Len(session'.seeds) <= MaxSeeds
        BY <3>3, <4>1, ConstantsAssumption DEF TypeOK
      <4> QED
        BY <2>4, <3>1, <4>1, <4>2 DEF CancelSurfaceRefresh, TypeOK
    <3> QED
      BY <2>4, <3>4, <3>5 DEF CancelSurfaceRefresh
  <2>5. ASSUME NEW s, Unregister(s)
        PROVE  /\ session' \in SessionType
               /\ Cardinality(session'.surfaces) <= MaxSurfaces
               /\ Len(session'.seeds) <= MaxSeeds
               /\ active' \in [Surface -> BOOLEAN]
    <3>1. active' \in [Surface -> BOOLEAN]
      BY <2>5 DEF Unregister, Deactivated, TypeOK
    <3>2. CASE session.surfaces = {s}
      BY <2>5, <3>1, <3>2, FS_EmptySet, ConstantsAssumption
         DEF Unregister, NoSession, SessionType
    <3>3. CASE session.surfaces # {s}
      <4> DEFINE S == session.surfaces \ {s}
                 Q == Erase(session.seeds, s)
      <4>1. session' = [session EXCEPT !.surfaces = S, !.seeds = Q]
        BY <2>5, <3>3 DEF Unregister
      <4>2. session \in SessionType /\ session.surfaces \in SUBSET Surface
            /\ session.seeds \in Seq(Surface)
        BY DEF TypeOK, SessionType
      <4>3. Cardinality(S) <= Cardinality(session.surfaces)
            /\ Cardinality(S) \in Nat /\ Cardinality(session.surfaces) \in Nat
        <5>1. IsFiniteSet(session.surfaces) /\ Cardinality(session.surfaces) \in Nat
          BY <4>2, SurfacesFinite
        <5>2. Cardinality(S) \in Nat
          BY <4>2, SurfacesFinite
        <5>3. Cardinality(S) = Cardinality(session.surfaces)
              \/ Cardinality(S) = Cardinality(session.surfaces) - 1
          BY <5>1, FS_RemoveElement
        <5> QED
          BY <5>1, <5>2, <5>3
      <4>4. Q \in Seq(Surface) /\ Len(Q) <= Len(session.seeds) /\ Len(Q) \in Nat
            /\ Len(session.seeds) \in Nat
        BY <4>2, EraseType
      <4>5. session' \in SessionType /\ session'.surfaces = S /\ session'.seeds = Q
        BY <4>1, <4>2, <4>4 DEF SessionType
      <4> QED
        BY <3>1, <4>3, <4>4, <4>5, ConstantsAssumption DEF TypeOK
    <3> QED
      BY <3>2, <3>3
  <2>6. CASE Rollback
    BY <2>5, <2>6, IdleTyped DEF Rollback, TypeOK
  <2>7. ASSUME NEW s \in Surface, Detach(s) PROVE TypeOK'
    BY <2>5, <2>7 DEF Detach, TypeOK
  <2>8. ASSUME NEW s \in Surface, MoveViewport(s) PROVE TypeOK'
    <3>1. kernel[s] \in KernelType /\ kernel[s].rev \in Nat /\ kernel[s].rev + 1 \in Nat
      BY DEF TypeOK, KernelType
    <3>2. /\ Moved(s) \in [Surface -> KernelType]
          /\ [kernel EXCEPT ![s].state = "failed"] \in [Surface -> KernelType]
      BY <3>1 DEF Moved, TypeOK, KernelType
    <3>3. kernel' \in [Surface -> KernelType]
      BY <2>8, <3>2 DEF MoveViewport, TypeOK
    <3>4. s \in 0 .. SurfaceLimit /\ 0 \in 0 .. SubLimit
      BY ConstantsAssumption DEF Surface
    <3>5. PICK r \in ResultType : gui' = GuiAt("publish", s, 0, r)
      BY <2>8, <3>1, ResultTyped DEF MoveViewport, ToPublish
    <3>6. gui' \in GuiType
      BY <3>4, <3>5, GuiTyped
    <3> QED
      BY <2>8, <3>3, <3>6 DEF MoveViewport, TypeOK
  <2>9. ASSUME NEW s, NEW r \in ResultType, PublishFrame(s, r)
        PROVE pub' \in [Surface -> Nat] /\ told' \in [Surface -> SUBSET FailureKind]
    <3>1. r.rev \in Nat /\ (~r.ok => r.kind \in FailureKind)
      <4>1. CASE r \in [ok : {TRUE}, rev : Nat, kind : {"none"}]
        <5>1. r.ok = TRUE /\ r.rev \in Nat
          BY <4>1
        <5> QED
          BY <5>1
      <4>2. CASE r \in [ok : {FALSE}, rev : {0}, kind : FailureKind]
        BY <4>2
      <4> QED
        BY <4>1, <4>2 DEF ResultType
    <3>2. pub \in [Surface -> Nat] /\ told \in [Surface -> SUBSET FailureKind]
      BY DEF TypeOK
    <3>3. pub' \in [Surface -> Nat]
      BY <2>9, <3>1, <3>2 DEF PublishFrame
    <3>4. told' \in [Surface -> SUBSET FailureKind]
      BY <2>9, <3>1, <3>2 DEF PublishFrame
    <3> QED
      BY <3>3, <3>4
  <2>10. CASE PublishMove
    <3>1. gui.result \in ResultType
      BY DEF TypeOK, GuiType
    <3> QED
      BY <2>9, <2>10, <3>1, IdleTyped DEF PublishMove, TypeOK
  <2>11. ASSUME NEW t \in Sub
         PROVE  t \in 0 .. SubLimit /\ link[t] \in LinkType /\ link[t].seq \in Nat
                /\ link[t].seq + 1 \in Nat
    BY ConstantsAssumption DEF TypeOK, LinkType, Sub
  <2>12. ASSUME NEW t \in Sub, DeliverData(t) PROVE TypeOK'
    <3>1. link' \in [Sub -> LinkType]
      BY <2>11, <2>12 DEF DeliverData, TypeOK, LinkType
    <3> QED
      BY <2>11, <2>12, <3>1, CallTyped DEF DeliverData, TypeOK
  <2>13. ASSUME NEW t \in Sub, DeliverResize(t) PROVE TypeOK'
    BY <2>11, <2>13, CallTyped DEF DeliverResize, TypeOK
  <2>14. ASSUME NEW t \in Sub, DeliverCheckpoint(t) PROVE TypeOK'
    <3>1. link[t].owed - 1 \in Nat
      BY <2>11, <2>14 DEF DeliverCheckpoint, LinkType
    <3>2. link' \in [Sub -> LinkType]
      BY <2>11, <2>14, <3>1 DEF DeliverCheckpoint, TypeOK, LinkType
    <3> QED
      BY <2>11, <2>14, <3>2, CallTyped DEF DeliverCheckpoint, TypeOK
  <2>15. CASE Lookup
    <3>1. Seeded \in SUBSET Surface
      BY DEF Seeded, TypeOK, SessionType
    <3>2. cb' \in CbType
      BY <2>15, <3>1, IdleTyped DEF Lookup, TypeOK, CbType
    <3> QED
      BY <2>15, <3>2 DEF Lookup, TypeOK
  <2>16. ASSUME NEW s \in Surface, NEW r \in ResultType, Returned(s, r) PROVE cb' \in CbType
    <3>1. s \in 0 .. SurfaceLimit /\ cb.todo \ {s} \in SUBSET Surface
      BY DEF TypeOK, CbType, Surface
    <3> QED
      BY <2>16, <3>1 DEF Returned, TypeOK, CbType
  <2>17. ASSUME NEW s \in Surface, Apply(s) PROVE TypeOK'
    <3>1. kernel[s] \in KernelType /\ kernel[s].rev + 1 \in Nat /\ kernel[s].next + 1 \in Nat
      BY DEF TypeOK, KernelType
    <3>2. /\ [kernel EXCEPT ![s] = Written(@)] \in [Surface -> KernelType]
          /\ [kernel EXCEPT ![s].state = "failed"] \in [Surface -> KernelType]
      <4>1. Written(kernel[s]) \in KernelType
        BY <3>1 DEF Written, KernelType
      <4>2. [kernel[s] EXCEPT !.state = "failed"] \in KernelType
        BY <3>1 DEF KernelType
      <4> QED
        BY <4>1, <4>2 DEF TypeOK
    <3>3. kernel' \in [Surface -> KernelType]
      BY <2>17, <3>2 DEF Apply, TypeOK
    <3>4. \E r \in ResultType : Returned(s, r)
      BY <2>17, <3>1, ResultTyped DEF Apply
    <3> QED
      BY <2>16, <2>17, <3>3, <3>4 DEF Apply, TypeOK
  <2>18. CASE Targets
    <3>1. session.seeds \in Seq(Surface) /\ Needing \in SUBSET Surface
          /\ session \in SessionType /\ Len(session.seeds) <= MaxSeeds
      BY DEF TypeOK, SessionType, Needing
    <3>2. ASSUME NEW T \in SUBSET Surface, NEW o \in BOOLEAN, StartInstall(T, o)
          PROVE  cb' \in CbType
      BY <3>2 DEF StartInstall, Answer, TypeOK, CbType
    <3>3. cb' \in CbType
      <4>1. CASE cb' = Answer(FALSE, FALSE)
        BY <4>1 DEF Answer, TypeOK, CbType
      <4>2. \A i \in FirstWanted : {session.seeds[i]} \in SUBSET Surface
        BY <3>1 DEF FirstWanted
      <4> QED
        BY <2>18, <3>1, <3>2, <4>1, <4>2 DEF Targets
    <3>4. session' \in SessionType /\ session'.surfaces = session.surfaces
          /\ Len(session'.seeds) <= MaxSeeds
      <4>1. CASE session' = session
        BY <3>1, <4>1
      <4>2. CASE session' = [session EXCEPT !.seeds = <<>>]
        <5>1. <<>> \in Seq(Surface) /\ Len(<<>>) = 0
          OBVIOUS
        <5>2. session' \in SessionType /\ session'.surfaces = session.surfaces
              /\ session'.seeds = <<>>
          BY <3>1, <4>2, <5>1 DEF SessionType
        <5> QED
          BY <5>1, <5>2, ConstantsAssumption
      <4>3. ASSUME NEW i \in FirstWanted, session' = [session EXCEPT !.seeds = Behind(i)]
            PROVE  session' \in SessionType /\ session'.surfaces = session.surfaces
                   /\ Len(session'.seeds) <= MaxSeeds
        <5>1. i \in 1 .. Len(session.seeds)
          BY <3>1 DEF FirstWanted
        <5>2. Behind(i) \in Seq(Surface) /\ Len(Behind(i)) <= Len(session.seeds)
              /\ Len(Behind(i)) \in Nat
          BY <3>1, <5>1 DEF Behind
        <5> QED
          BY <3>1, <4>3, <5>2, ConstantsAssumption DEF SessionType
      <4> QED
        BY <2>18, <4>1, <4>2, <4>3 DEF Targets
    <3> QED
      BY <2>18, <3>3, <3>4 DEF Targets, TypeOK
  <2>19. ASSUME NEW s \in Surface, Install(s) PROVE TypeOK'
    <3>1. kernel[s] \in KernelType /\ kernel[s].rev + 1 \in Nat
          /\ cb.seq \in Nat /\ cb.sub \in 0 .. SubLimit
      BY DEF TypeOK, KernelType, CbType
    <3>2. Restored(kernel[s]) \in KernelType
      BY <3>1 DEF Restored, KernelType
    <3>3. kernel' \in [Surface -> KernelType] /\ needs' \in [Surface -> BOOLEAN]
      BY <2>19, <3>2 DEF Install, TypeOK
    <3>4. \E r \in ResultType : Returned(s, r)
      BY <2>19, <3>1, ResultTyped DEF Install
    <3> QED
      BY <2>16, <2>19, <3>3, <3>4 DEF Install, TypeOK
  <2>20. CASE Publish
    <3>1. cb.result \in ResultType /\ cb \in CbType
      BY DEF TypeOK, CbType
    <3>2. AfterPublish \in CbType
      <4>1. ASSUME NEW pc \in {"apply", "install", "pending", "reply"},
                   NEW accepted \in BOOLEAN, NEW current \in BOOLEAN
            PROVE  [cb EXCEPT !.pc = pc, !.surface = 0, !.result = NoResult,
                              !.accepted = accepted, !.current = current] \in CbType
        <5>1. 0 \in 0 .. SurfaceLimit /\ NoResult \in ResultType
          BY ResultTyped, ConstantsAssumption
        <5> QED
          BY <3>1, <5>1 DEF CbType
      <4>2. [cb EXCEPT !.pc = "apply", !.surface = 0, !.result = NoResult] \in CbType
        <5>1. 0 \in 0 .. SurfaceLimit /\ NoResult \in ResultType
          BY ResultTyped, ConstantsAssumption
        <5> QED
          BY <3>1, <5>1 DEF CbType
      <4> QED
        BY <4>1, <4>2, IdleTyped DEF AfterPublish
    <3> QED
      BY <2>9, <2>20, <3>1, <3>2 DEF Publish, TypeOK
  <2>21. CASE Pending
    <3>1. Outstanding \in SUBSET Surface /\ cb \in CbType /\ session \in SessionType
      BY DEF TypeOK, SessionType, Needing, Outstanding
    <3>2. cb' \in CbType
      BY <2>21, <3>1 DEF Pending, Answer, CbType
    <3>3. session' \in SessionType /\ session'.surfaces = session.surfaces
          /\ session'.seeds = session.seeds
      BY <2>21, <3>1 DEF Pending, SessionType
    <3> QED
      BY <2>21, <3>2, <3>3 DEF Pending, TypeOK
  <2>22. CASE Reply
    <3>1. cb.sub \in Sub => link[cb.sub].owed + 1 \in Nat /\ link[cb.sub] \in LinkType
      BY DEF TypeOK, LinkType
    <3>2. link' \in [Sub -> LinkType]
      BY <2>22, <3>1 DEF Reply, TypeOK, LinkType
    <3> QED
      BY <2>22, <3>2, IdleTyped DEF Reply, TypeOK
  <2>23. CASE UNCHANGED vars
    BY <2>23 DEF vars, TypeOK
  <2> QED
    BY <2>1, <2>2, <2>3, <2>4, <2>6, <2>7, <2>8, <2>10, <2>12, <2>13, <2>14, <2>15,
       <2>17, <2>18, <2>19, <2>20, <2>21, <2>22, <2>23
       DEF Next, GuiThread, CallbackThread
<1> QED
  BY <1>1, <1>2, PTL DEF Spec

(***************************************************************************)
(* The order of the stream.  Each lemma says what one action does to the   *)
(* parts of the state the invariant InOrder speaks of.                     *)
(***************************************************************************)
\* The fields of a delivery that has just begun.
LEMMA CallFields ==
  ASSUME NEW pc, NEW kind, NEW t, NEW n
  PROVE  LET c == Call(pc, kind, t, n) IN
         c.pc = pc /\ c.kind = kind /\ c.sub = t /\ c.seq = n /\ c.todo = {} /\ c.surface = 0
BY DEF Call

\* The fields of a control state built by GuiAt.
LEMMA GuiFields ==
  ASSUME NEW pc, NEW s, NEW t, NEW r
  PROVE  LET g == GuiAt(pc, s, t, r) IN g.pc = pc /\ g.surface = s /\ g.result = r
BY DEF GuiAt

\* The fields of the idle states.
LEMMA IdleFields ==
  /\ GuiIdle.pc = "idle"
  /\ CbIdle.pc = "idle" /\ CbIdle.kind = "none" /\ CbIdle.todo = {}
BY CallFields, GuiFields DEF GuiIdle, CbIdle

\* The fields of a frame and of a failure.
LEMMA ResultFields ==
  /\ \A r : Frame(r).ok = TRUE /\ Frame(r).kind = "none"
  /\ \A k : Failure(k).ok = FALSE /\ Failure(k).kind = k
BY DEF Frame, Failure

\* A stream's position only depends on a link's seq.
SameSeq == \A t \in Sub : link'[t].seq = link[t].seq

\* registerSurface: a refused surface changes no entry; an accepted one is fresh,
\* and its entry is of the subscription of the session.
LEMMA RegisterEffect ==
  ASSUME TypeOK, EntriesMatch, NEW t \in Sub, Register(t)
  PROVE  /\ nextSurface + 1 \in Surface
         /\ nextSurface' = nextSurface + 1
         /\ UNCHANGED <<needs, pub, kernel, told, cb, link>>
         /\ gui'.pc # "publish"
         /\ \/ UNCHANGED <<session, sub, active>>
            \/ /\ session'.sub = t
               /\ session'.surfaces = session.surfaces \cup {nextSurface + 1}
               /\ session.surfaces # {} => session.sub = t
               /\ sub' = [sub EXCEPT ![nextSurface + 1] = t]
               /\ active' = [active EXCEPT ![nextSurface + 1] = TRUE]
<1> DEFINE s == nextSurface + 1
<1>1. gui'.pc # "publish"
  BY GuiFields, IdleFields DEF Register, TypeOK
<1>2. CASE session.sub = 0
  BY <1>1, <1>2 DEF Register, NewEntry, EntriesMatch
<1>3. CASE session.sub # 0 /\ Admissible(t)
  <2> DEFINE Q == IF RequiresRefresh THEN Append(session.seeds, s) ELSE session.seeds
  <2>1. session' = [session EXCEPT !.surfaces = @ \cup {s}, !.seeds = Q]
    BY <1>3 DEF Register
  <2>2. session'.surfaces = session.surfaces \cup {s} /\ session'.sub = session.sub
    BY <2>1 DEF TypeOK, SessionType
  <2>3. session.sub = t
    BY <1>3 DEF Admissible
  <2> QED
    BY <1>1, <1>3, <2>2, <2>3 DEF Register, NewEntry
<1>4. CASE session.sub # 0 /\ ~Admissible(t)
  BY <1>1, <1>4 DEF Register
<1> QED
  BY <1>2, <1>3, <1>4

\* unregisterSurface: the entry is deactivated and taken out of the map, and no
\* other is touched.
LEMMA UnregisterEffect ==
  ASSUME TypeOK, EntriesMatch, NEW s, Unregister(s)
  PROVE  /\ session'.surfaces = session.surfaces \ {s}
         /\ session'.sub = IF session'.surfaces = {} THEN 0 ELSE session.sub
         /\ active' = [active EXCEPT ![s] = FALSE]
<1>1. CASE session.surfaces = {s}
  BY <1>1 DEF Unregister, Deactivated, NoSession
<1>2. CASE session.surfaces # {s}
  <2>1. session' = [session EXCEPT !.surfaces = @ \ {s}, !.seeds = Erase(@, s)]
    BY <1>2 DEF Unregister
  <2>2. session'.surfaces = session.surfaces \ {s} /\ session'.sub = session.sub
    BY <2>1 DEF TypeOK, SessionType
  <2> QED
    BY <1>2, <2>2 DEF Unregister, Deactivated, EntriesMatch
<1> QED
  BY <1>1, <1>2

\* A move of the viewport changes no more of a kernel than its revision and state,
\* and never finds it under another subscription.
LEMMA MoveViewportEffect ==
  ASSUME TypeOK, InOrder, NEW s \in Surface, MoveViewport(s)
  PROVE  /\ s \in session.surfaces
         /\ UNCHANGED <<nextSurface, session, sub, active, needs, told, cb, link>>
         /\ gui'.pc = "publish" /\ gui'.surface = s
         /\ gui'.result.kind \notin {"stale", "gap"}
         /\ \A x \in Surface : /\ kernel'[x].state = "admitted" => kernel[x].state = "admitted"
                               /\ kernel'[x].sub = kernel[x].sub
                               /\ kernel'[x].next = kernel[x].next
<1>1. kernel \in [Surface -> KernelType] /\ kernel[s].state = "admitted" => kernel[s].sub = sub[s]
  BY DEF TypeOK, InOrder, KernelOfEntry
<1>2. PICK r : gui' = GuiAt("publish", s, 0, r) /\ r.kind \notin {"stale", "gap"}
  BY <1>1, ResultFields DEF MoveViewport, ToPublish, InOrder, KernelOfEntry
<1>3. gui'.pc = "publish" /\ gui'.surface = s /\ gui'.result.kind \notin {"stale", "gap"}
  BY <1>2, GuiFields
<1>4. kernel' = kernel \/ kernel' = Moved(s) \/ kernel' = [kernel EXCEPT ![s].state = "failed"]
  BY DEF MoveViewport
<1>5. \A x \in Surface : /\ kernel'[x].state = "admitted" => kernel[x].state = "admitted"
                         /\ kernel'[x].sub = kernel[x].sub
                         /\ kernel'[x].next = kernel[x].next
  <2> SUFFICES ASSUME NEW x \in Surface
               PROVE  /\ kernel'[x].state = "admitted" => kernel[x].state = "admitted"
                      /\ kernel'[x].sub = kernel[x].sub /\ kernel'[x].next = kernel[x].next
    OBVIOUS
  <2>1. kernel[x] \in KernelType /\ kernel \in [Surface -> KernelType]
    BY DEF TypeOK
  <2>2. CASE kernel' = kernel
    BY <2>2
  <2>3. CASE kernel' = Moved(s)
    BY <2>1, <2>3 DEF Moved, KernelType
  <2>4. CASE kernel' = [kernel EXCEPT ![s].state = "failed"]
    BY <2>1, <2>4 DEF KernelType
  <2> QED
    BY <1>4, <2>2, <2>3, <2>4
<1> QED
  BY <1>3, <1>5 DEF MoveViewport

\* After a kernel operation its entry is no longer to do, and the delivery is the same.
LEMMA ReturnedEffect ==
  ASSUME TypeOK, NEW s \in Surface, NEW r, Returned(s, r)
  PROVE  /\ cb'.pc = "publish" /\ cb'.surface = s /\ cb'.result = r
         /\ cb'.todo = cb.todo \ {s}
         /\ cb'.kind = cb.kind /\ cb'.sub = cb.sub /\ cb'.seq = cb.seq
BY DEF Returned, TypeOK, CbType

\* applyData and applyResize on a kernel at the position of the delivery: no gap and
\* no stale subscription is reported, and the sequence moves with the data.
LEMMA ApplyEffect ==
  ASSUME TypeOK, InOrder, NEW s \in Surface, Apply(s)
  PROVE  /\ cb.pc = "apply" /\ s \in cb.todo
         /\ UNCHANGED <<nextSurface, session, sub, active, needs, told, gui, link>>
         /\ cb'.pc = "publish" /\ cb'.surface = s /\ cb'.todo = cb.todo \ {s}
         /\ cb'.kind = cb.kind /\ cb'.sub = cb.sub /\ cb'.seq = cb.seq
         /\ s \in session.surfaces => cb'.result.kind \notin {"stale", "gap"}
         /\ \A x \in Surface :
              /\ kernel'[x].state = "admitted" => kernel[x].state = "admitted"
              /\ kernel'[x].sub = kernel[x].sub
              /\ x # s => kernel'[x].next = kernel[x].next
         /\ kernel'[s].state = "admitted" =>
              IF cb.kind = "data" /\ s \in session.surfaces
              THEN kernel'[s].next = kernel[s].next + 1
              ELSE cb.kind # "data" => kernel'[s].next = kernel[s].next
<1>1. /\ cb.pc = "apply" /\ s \in cb.todo
      /\ UNCHANGED <<nextSurface, session, sub, active, needs, told, gui, link>>
  BY DEF Apply
<1>2. PICK r : Returned(s, r)
  BY DEF Apply
<1>3. /\ cb'.pc = "publish" /\ cb'.surface = s /\ cb'.todo = cb.todo \ {s}
      /\ cb'.kind = cb.kind /\ cb'.sub = cb.sub /\ cb'.seq = cb.seq
  BY <1>2, ReturnedEffect
\* A registered entry's kernel is at the position of the delivery.
<1>4. s \in session.surfaces /\ kernel[s].state = "admitted"
        => kernel[s].sub = cb.sub /\ kernel[s].next = cb.seq
  <2> SUFFICES ASSUME s \in session.surfaces, kernel[s].state = "admitted"
               PROVE  kernel[s].sub = cb.sub /\ kernel[s].next = cb.seq
    OBVIOUS
  <2>1. cb.sub = sub[s] /\ cb.sub \in Sub /\ ~needs[s] /\ kernel[s].sub = sub[s]
    BY <1>1 DEF InOrder, CallOfStream, KernelOfEntry
  <2>2. cb.seq \in Nat /\ link[cb.sub].seq \in Nat /\ cb.kind \in {"data", "resize"}
    BY <1>1, <2>1 DEF TypeOK, CbType, LinkType, InOrder, CallOfStream
  <2>3. cb.kind = "data" => kernel[s].next = link[cb.sub].seq - 1 /\ link[cb.sub].seq = cb.seq + 1
    BY <1>1, <2>1 DEF InOrder, Contiguity, Awaits, CallOfStream
  <2>4. cb.kind # "data" => kernel[s].next = link[cb.sub].seq /\ link[cb.sub].seq = cb.seq
    BY <1>1, <2>1 DEF InOrder, Contiguity, Awaits, CallOfStream
  <2> QED
    BY <2>1, <2>2, <2>3, <2>4
<1>5. s \in session.surfaces => cb'.result.kind \notin {"stale", "gap"}
  <2>1. CASE kernel[s].state # "admitted"
    BY <2>1, ReturnedEffect, ResultFields DEF Apply
  <2>2. CASE kernel[s].state = "admitted"
    BY <1>4, <2>2, ReturnedEffect, ResultFields DEF Apply
  <2> QED
    BY <2>1, <2>2
<1>6. \/ kernel' = kernel /\ (s \in session.surfaces /\ kernel[s].state = "admitted"
                              => cb.kind = "resize")
      \/ kernel' = [kernel EXCEPT ![s] = Written(@)] /\ kernel[s].state = "admitted"
      \/ kernel' = [kernel EXCEPT ![s].state = "failed"]
  BY <1>4 DEF Apply
<1>7. kernel \in [Surface -> KernelType] /\ \A x \in Surface : kernel[x] \in KernelType
  BY DEF TypeOK
<1>8. CASE kernel' = kernel /\ (s \in session.surfaces /\ kernel[s].state = "admitted"
                              => cb.kind = "resize")
  BY <1>1, <1>3, <1>5, <1>8
<1>9. CASE kernel' = [kernel EXCEPT ![s] = Written(@)] /\ kernel[s].state = "admitted"
  <2>1. /\ Written(kernel[s]).state = kernel[s].state
        /\ Written(kernel[s]).sub = kernel[s].sub
        /\ Written(kernel[s]).next = IF cb.kind = "data" THEN kernel[s].next + 1 ELSE kernel[s].next
    BY <1>7 DEF Written, KernelType
  <2> QED
    BY <1>1, <1>3, <1>5, <1>7, <1>9, <2>1
<1>10. CASE kernel' = [kernel EXCEPT ![s].state = "failed"]
  <2>1. kernel'[s].state = "failed" /\ kernel'[s].sub = kernel[s].sub
        /\ \A x \in Surface \ {s} : kernel'[x] = kernel[x]
    BY <1>7, <1>10 DEF KernelType
  <2> QED
    BY <1>1, <1>3, <1>5, <2>1
<1> QED
  BY <1>6, <1>8, <1>9, <1>10

\* checkpointTargets copies entries of the delivery's own subscription only.
LEMMA TargetsEffect ==
  ASSUME TypeOK, Targets
  PROVE  /\ cb.pc = "targets"
         /\ UNCHANGED <<nextSurface, sub, active, needs, pub, kernel, told, gui, link>>
         /\ session'.surfaces = session.surfaces /\ session'.sub = session.sub
         /\ cb'.kind = cb.kind /\ cb'.sub = cb.sub /\ cb'.seq = cb.seq
         /\ \/ cb'.pc = "reply" /\ cb'.todo = cb.todo
            \/ /\ cb'.pc = "install" /\ session.sub = cb.sub
               /\ cb'.todo \subseteq session.surfaces
<1>1. /\ cb.pc = "targets"
      /\ UNCHANGED <<nextSurface, sub, active, needs, pub, kernel, told, gui, link>>
  BY DEF Targets
<1>2. session'.surfaces = session.surfaces /\ session'.sub = session.sub
  <2>1. session' = session \/ \E q : session' = [session EXCEPT !.seeds = q]
    BY DEF Targets
  <2> QED
    BY <2>1 DEF TypeOK, SessionType
<1>3. ASSUME NEW a, NEW c, cb' = Answer(a, c)
      PROVE  cb'.pc = "reply" /\ cb'.todo = cb.todo
             /\ cb'.kind = cb.kind /\ cb'.sub = cb.sub /\ cb'.seq = cb.seq
  BY <1>3 DEF Answer, TypeOK, CbType
<1>4. ASSUME NEW T \in SUBSET session.surfaces, NEW o, StartInstall(T, o), Current
      PROVE  /\ cb'.kind = cb.kind /\ cb'.sub = cb.sub /\ cb'.seq = cb.seq
             /\ \/ cb'.pc = "reply" /\ cb'.todo = cb.todo
                \/ cb'.pc = "install" /\ session.sub = cb.sub /\ cb'.todo \subseteq session.surfaces
  <2>1. CASE T = {}
    BY <1>3, <1>4, <2>1 DEF StartInstall
  <2>2. CASE T # {}
    <3>1. cb' = [cb EXCEPT !.pc = "install", !.todo = T, !.seedOnly = o]
      BY <1>4, <2>2 DEF StartInstall
    <3> QED
      BY <1>4, <3>1 DEF Current, TypeOK, CbType
  <2> QED
    BY <2>1, <2>2
<1>5. Needing \in SUBSET session.surfaces
      /\ \A i \in FirstWanted : {session.seeds[i]} \in SUBSET session.surfaces
  BY DEF Needing, FirstWanted
<1>6. CASE cb' = Answer(FALSE, FALSE)
  BY <1>1, <1>2, <1>3, <1>6
<1>7. CASE \E T \in SUBSET session.surfaces, o \in BOOLEAN : StartInstall(T, o) /\ Current
  BY <1>1, <1>2, <1>4, <1>7
<1> QED
  BY <1>5, <1>6, <1>7 DEF Targets

\* installCheckpoint leaves the kernel at the position of the delivery, or untouched.
LEMMA InstallEffect ==
  ASSUME TypeOK, NEW s \in Surface, Install(s)
  PROVE  /\ cb.pc = "install" /\ s \in cb.todo
         /\ UNCHANGED <<nextSurface, session, sub, active, told, gui, link>>
         /\ cb'.pc = "publish" /\ cb'.surface = s /\ cb'.todo = cb.todo \ {s}
         /\ cb'.kind = cb.kind /\ cb'.sub = cb.sub /\ cb'.seq = cb.seq
         /\ cb'.result.kind \notin {"stale", "gap"}
         /\ \A x \in Surface \ {s} : kernel'[x] = kernel[x] /\ needs'[x] = needs[x]
         /\ \/ kernel'[s] = kernel[s] /\ needs'[s] = needs[s]
            \/ ~needs'[s] /\ kernel'[s].sub = cb.sub /\ kernel'[s].next = cb.seq
<1>1. PICK r : Returned(s, r) /\ r.kind \notin {"stale", "gap"}
  BY ResultFields DEF Install
<1>2. /\ cb'.pc = "publish" /\ cb'.surface = s /\ cb'.todo = cb.todo \ {s}
      /\ cb'.kind = cb.kind /\ cb'.sub = cb.sub /\ cb'.seq = cb.seq
      /\ cb'.result.kind \notin {"stale", "gap"}
  BY <1>1, ReturnedEffect
<1>3. Restored(kernel[s]).sub = cb.sub /\ Restored(kernel[s]).next = cb.seq
  BY DEF Restored
<1> QED
  BY <1>2, <1>3 DEF Install, TypeOK

\* publishFrame changes what is delivered to its own entry only, and only while active.
LEMMA PublishFrameEffect ==
  ASSUME TypeOK, NEW s, NEW r, PublishFrame(s, r)
  PROVE  \A x \in Surface :
           /\ told'[x] = told[x] \/ (x = s /\ active[s] /\ told'[x] = told[x] \cup {r.kind})
           /\ pub'[x] = pub[x] \/ (x = s /\ active[s])
BY DEF PublishFrame, TypeOK

\* A callback that has published goes on with the entries left, of the same delivery.
LEMMA PublishEffect ==
  ASSUME TypeOK, CallOfStream, Publish
  PROVE  /\ cb.pc = "publish"
         /\ UNCHANGED <<nextSurface, session, sub, active, needs, kernel, gui, link>>
         /\ \/ cb'.pc = "idle" /\ cb'.kind = "none" /\ cb'.todo = {} /\ cb.todo = {}
            \/ /\ cb'.pc \in {"apply", "install", "pending", "reply"}
               /\ cb'.kind = cb.kind /\ cb'.sub = cb.sub /\ cb'.seq = cb.seq
               /\ cb'.todo = cb.todo
               /\ cb'.pc = "apply" <=> cb.kind # "checkpoint"
               /\ cb'.pc \in {"pending", "reply"} => cb.todo = {}
<1>1. ASSUME NEW pc, NEW a, NEW c,
             cb' = [cb EXCEPT !.pc = pc, !.surface = 0, !.result = NoResult,
                              !.accepted = a, !.current = c]
      PROVE  cb'.pc = pc /\ cb'.kind = cb.kind /\ cb'.sub = cb.sub /\ cb'.seq = cb.seq
             /\ cb'.todo = cb.todo
  BY <1>1 DEF TypeOK, CbType
<1>2. CASE cb.kind = "checkpoint"
  <2> DEFINE taken(pc, a, c) ==
               /\ cb' = [cb EXCEPT !.pc = pc, !.surface = 0, !.result = NoResult,
                                   !.accepted = a, !.current = c]
               /\ pc \in {"pending", "reply"} => cb.todo = {}
  <2>1. \E pc \in {"install", "pending", "reply"} : \E a, c : taken(pc, a, c)
    BY <1>2 DEF Publish, AfterPublish
  <2>2. ASSUME NEW pc \in {"install", "pending", "reply"}, NEW a, NEW c, taken(pc, a, c)
        PROVE  /\ cb'.pc = pc /\ cb'.kind = cb.kind /\ cb'.sub = cb.sub
               /\ cb'.seq = cb.seq /\ cb'.todo = cb.todo
               /\ pc \in {"pending", "reply"} => cb.todo = {}
    BY <1>1, <2>2
  <2>3. PICK pc \in {"install", "pending", "reply"} :
           /\ cb'.pc = pc /\ cb'.kind = cb.kind /\ cb'.sub = cb.sub
           /\ cb'.seq = cb.seq /\ cb'.todo = cb.todo
           /\ pc \in {"pending", "reply"} => cb.todo = {}
    <3> HIDE DEF taken
    <3> QED
      BY <2>1, <2>2
  <2> QED
    BY <1>2, <2>3 DEF Publish
<1>3. CASE cb.kind # "checkpoint" /\ cb.todo = {}
  BY <1>3, IdleFields DEF Publish, AfterPublish
<1>4. CASE cb.kind # "checkpoint" /\ cb.todo # {}
  <2>1. cb' = [cb EXCEPT !.pc = "apply", !.surface = 0, !.result = NoResult]
    BY <1>4 DEF Publish, AfterPublish
  <2> QED
    BY <1>4, <2>1 DEF Publish, TypeOK, CbType
<1> QED
  BY <1>2, <1>3, <1>4

\* pendingCheckpointTargets adds entries of the delivery's own subscription only.
LEMMA PendingEffect ==
  ASSUME TypeOK, Pending
  PROVE  /\ cb.pc = "pending"
         /\ UNCHANGED <<nextSurface, sub, active, needs, pub, kernel, told, gui, link>>
         /\ session'.surfaces = session.surfaces /\ session'.sub = session.sub
         /\ cb'.kind = cb.kind /\ cb'.sub = cb.sub /\ cb'.seq = cb.seq
         /\ \/ cb'.pc = "reply" /\ cb'.todo = cb.todo
            \/ /\ cb'.pc = "install" /\ session.sub = cb.sub
               /\ cb'.todo \subseteq session.surfaces
<1>1. session'.surfaces = session.surfaces /\ session'.sub = session.sub
  BY DEF Pending, TypeOK, SessionType
<1>2. CASE \E a, c : cb' = Answer(a, c)
  <2>1. cb'.pc = "reply" /\ cb'.todo = cb.todo /\ cb'.kind = cb.kind /\ cb'.sub = cb.sub
        /\ cb'.seq = cb.seq
    BY <1>2 DEF Answer, TypeOK, CbType
  <2> QED
    BY <1>1, <2>1 DEF Pending
<1>3. CASE cb' = [cb EXCEPT !.pc = "install", !.todo = Outstanding] /\ Current
  <2>1. Outstanding \subseteq session.surfaces
    BY DEF Outstanding, Needing
  <2>2. cb'.pc = "install" /\ cb'.todo = Outstanding /\ cb'.kind = cb.kind /\ cb'.sub = cb.sub
        /\ cb'.seq = cb.seq
    BY <1>3 DEF TypeOK, CbType
  <2> QED
    BY <1>1, <1>3, <2>1, <2>2 DEF Pending, Current
<1> QED
  BY <1>2, <1>3 DEF Pending

\* exact copies entries that have their checkpoint, of the delivery's subscription.
LEMMA LookupEffect ==
  ASSUME TypeOK, Lookup
  PROVE  /\ cb.pc = "lookup"
         /\ UNCHANGED <<nextSurface, session, sub, active, needs, pub, kernel, told, gui, link>>
         /\ \/ /\ cb'.pc = "idle" /\ cb'.kind = "none" /\ cb'.todo = {}
               /\ session.sub = cb.sub => \A s \in session.surfaces : needs[s]
            \/ /\ cb'.pc = "apply" /\ session.sub = cb.sub
               /\ cb'.todo = {s \in session.surfaces : ~needs[s]}
               /\ cb'.kind = cb.kind /\ cb'.sub = cb.sub /\ cb'.seq = cb.seq
<1>1. CASE Current /\ Seeded # {}
  <2>1. cb' = [cb EXCEPT !.pc = "apply", !.todo = Seeded]
    BY <1>1 DEF Lookup
  <2>2. cb'.pc = "apply" /\ cb'.todo = Seeded /\ cb'.kind = cb.kind /\ cb'.sub = cb.sub
        /\ cb'.seq = cb.seq
    BY <2>1 DEF TypeOK, CbType
  <2> QED
    BY <1>1, <2>2 DEF Lookup, Current, Seeded
<1>2. CASE ~(Current /\ Seeded # {})
  BY <1>2, IdleFields DEF Lookup, Current, Seeded
<1> QED
  BY <1>1, <1>2

\* In every reachable state the entries agree with the map, kernels with their
\* entries, and the delivery in hand with the position of its stream.
THEOREM InOrderInvariant == Spec => []InOrder
<1>1. Init => InOrder
  BY IdleFields DEF Init, InOrder, NoSession, EntriesMatch, FreshUnused,
     KernelOfEntry, CallOfStream, Contiguity, NoFaultInHand, NoSpuriousFault
<1>2. TypeOK /\ InOrder /\ [Next]_vars => InOrder'
  <2> SUFFICES ASSUME TypeOK, InOrder, [Next]_vars PROVE InOrder'
    OBVIOUS
  <2> USE DEF InOrder
  <2>0. /\ session.surfaces \in SUBSET Surface /\ session.sub \in 0 .. SubLimit
        /\ \A s \in session.surfaces : sub[s] = session.sub /\ sub[s] \in Sub
        /\ cb.todo \in SUBSET Surface /\ cb.seq \in Nat
        /\ nextSurface \in Nat
        /\ \A t \in Sub : link[t] \in LinkType /\ link[t].seq \in Nat
    <3>1. /\ session.surfaces \in SUBSET Surface /\ session.sub \in 0 .. SubLimit
          /\ cb.todo \in SUBSET Surface /\ cb.seq \in Nat /\ nextSurface \in Nat
      BY ConstantsAssumption DEF TypeOK, SessionType, CbType
    <3>2. \A t \in Sub : link[t] \in LinkType /\ link[t].seq \in Nat
      BY DEF TypeOK, LinkType
    <3>3. \A s \in session.surfaces : sub[s] = session.sub /\ sub[s] \in Sub
      <4>1. SUFFICES ASSUME NEW s \in session.surfaces
                     PROVE  sub[s] = session.sub /\ sub[s] \in Sub
        OBVIOUS
      <4>2. s \in Surface /\ session.surfaces # {}
        BY <3>1
      <4>3. sub[s] = session.sub /\ session.sub # 0
        BY <4>2 DEF EntriesMatch
      <4> QED
        BY <3>1, <4>3, ConstantsAssumption DEF Sub
    <3> QED
      BY <3>1, <3>2, <3>3
  <2>1. ASSUME NEW t \in Sub, Register(t) PROVE InOrder'
    <3> DEFINE n == nextSurface + 1
    <3>0. /\ n \in Surface /\ n > nextSurface /\ t # 0
          /\ n \notin session.surfaces /\ n \notin cb.todo /\ needs[n]
          /\ kernel[n].state # "admitted"
      BY <2>0, <2>1, RegisterEffect, ConstantsAssumption DEF FreshUnused, KernelOfEntry, Sub
    <3>1. EntriesMatch'
      <4>1. CASE UNCHANGED <<session, sub, active>>
        BY <4>1 DEF EntriesMatch
      <4>2. CASE /\ session'.sub = t
                 /\ session'.surfaces = session.surfaces \cup {n}
                 /\ session.surfaces # {} => session.sub = t
                 /\ sub' = [sub EXCEPT ![n] = t]
                 /\ active' = [active EXCEPT ![n] = TRUE]
        <5>1. session'.sub = 0 <=> session'.surfaces = {}
          BY <3>0, <4>2
        <5>2. ASSUME NEW x \in Surface
              PROVE  /\ active'[x] <=> x \in session'.surfaces
                     /\ x \in session'.surfaces => sub'[x] = session'.sub
          <6>1. CASE x = n
            BY <3>0, <4>2, <6>1 DEF TypeOK
          <6>2. CASE x # n
            BY <4>2, <6>2 DEF TypeOK, EntriesMatch
          <6> QED
            BY <6>1, <6>2
        <5> QED
          BY <2>0, <3>0, <4>2, <5>1, <5>2 DEF EntriesMatch
      <4> QED
        BY <2>1, <4>1, <4>2, RegisterEffect
    <3>2. FreshUnused' /\ KernelOfEntry'
      <4>1. FreshUnused'
        BY <2>0, <2>1, <3>0, RegisterEffect DEF FreshUnused, Surface
      <4>2. KernelOfEntry'
        BY <2>0, <2>1, <3>0, RegisterEffect DEF KernelOfEntry, TypeOK
      <4> QED
        BY <4>1, <4>2
    <3>4. CallOfStream'
      BY <2>0, <2>1, <3>0, RegisterEffect DEF CallOfStream, TypeOK
    <3>5. Contiguity'
      <4>1. \A s \in session'.surfaces : ~needs'[s] => s \in session.surfaces /\ sub'[s] = sub[s]
        <5>1. UNCHANGED needs /\ (UNCHANGED <<session, sub>>
                 \/ /\ session'.surfaces = session.surfaces \cup {n}
                    /\ sub' = [sub EXCEPT ![n] = t])
          BY <2>1, RegisterEffect
        <5> QED
          BY <2>0, <3>0, <5>1 DEF TypeOK
      <4> QED
        BY <2>0, <2>1, <4>1, RegisterEffect DEF Contiguity, Awaits
    <3>3. NoFaultInHand' /\ NoSpuriousFault'
      BY <2>0, <2>1, RegisterEffect DEF FreshUnused, NoFaultInHand, NoSpuriousFault
    <3> QED
      BY <3>1, <3>2, <3>3, <3>4, <3>5
  <2>2. CASE RuntimeAccepts \/ RuntimeRejects \/ CancelSurfaceRefresh
    <3>1. /\ UNCHANGED <<nextSurface, sub, active, needs, pub, kernel, told, cb>>
          /\ session'.surfaces = session.surfaces /\ session'.sub = session.sub
      BY <2>2 DEF RuntimeAccepts, RuntimeRejects, CancelSurfaceRefresh, TypeOK, SessionType
    <3>2. gui'.pc # "publish"
      BY <2>2, IdleFields DEF RuntimeAccepts, RuntimeRejects, CancelSurfaceRefresh, TypeOK, GuiType
    <3>3. SameSeq
      <4>1. CASE RuntimeAccepts
        BY <4>1, <2>0 DEF RuntimeAccepts, SameSeq, TypeOK, LinkType
      <4>2. CASE link' = link
        BY <4>2 DEF SameSeq
      <4> QED
        BY <2>2, <4>1, <4>2 DEF RuntimeRejects, CancelSurfaceRefresh
    <3> QED
      BY <2>0, <3>1, <3>2, <3>3 DEF SameSeq, EntriesMatch, FreshUnused, KernelOfEntry, CallOfStream,
         Contiguity, Awaits, NoFaultInHand, NoSpuriousFault
  <2>3. ASSUME NEW s, Unregister(s),
               UNCHANGED <<nextSurface, sub, needs, pub, kernel, told, cb, link>>,
               gui'.pc # "publish"
        PROVE  InOrder'
    <3>1. EntriesMatch' /\ FreshUnused' /\ KernelOfEntry' /\ CallOfStream'
      BY <2>0, <2>3, UnregisterEffect
         DEF EntriesMatch, FreshUnused, KernelOfEntry, CallOfStream, TypeOK
    <3>2. Contiguity' /\ NoFaultInHand' /\ NoSpuriousFault'
      BY <2>0, <2>3, UnregisterEffect DEF Contiguity, Awaits, NoFaultInHand, NoSpuriousFault
    <3> QED
      BY <3>1, <3>2
  <2>4. CASE Rollback \/ \E s \in Surface : Detach(s)
    BY <2>3, <2>4, IdleFields DEF Rollback, Detach
  <2>5. ASSUME NEW s \in Surface, MoveViewport(s) PROVE InOrder'
    <3>1. EntriesMatch' /\ FreshUnused' /\ KernelOfEntry' /\ CallOfStream'
      BY <2>0, <2>5, MoveViewportEffect DEF EntriesMatch, FreshUnused, KernelOfEntry, CallOfStream
    <3>2. Contiguity' /\ NoFaultInHand' /\ NoSpuriousFault'
      BY <2>0, <2>5, MoveViewportEffect DEF Contiguity, Awaits, NoFaultInHand, NoSpuriousFault
    <3> QED
      BY <3>1, <3>2
  <2>6. CASE PublishMove
    <3>1. /\ UNCHANGED <<nextSurface, session, sub, active, needs, kernel, cb, link>>
          /\ gui'.pc = "idle" /\ gui.pc = "publish" /\ PublishFrame(gui.surface, gui.result)
      BY <2>6, IdleFields DEF PublishMove
    <3>2. NoSpuriousFault'
      BY <3>1, PublishFrameEffect DEF NoSpuriousFault, NoFaultInHand
    <3> QED
      BY <2>0, <3>1, <3>2 DEF EntriesMatch, FreshUnused, KernelOfEntry, CallOfStream, Contiguity,
         Awaits, NoFaultInHand
  <2>7. ASSUME NEW t \in Sub, DeliverData(t) \/ DeliverResize(t) \/ DeliverCheckpoint(t)
        PROVE  InOrder'
    <3>1. /\ UNCHANGED <<nextSurface, session, sub, active, needs, pub, kernel, told, gui>>
          /\ cb.pc = "idle" /\ cb'.todo = {} /\ cb'.sub = t /\ cb'.seq = link[t].seq
          /\ cb'.pc \in {"lookup", "targets"}
          /\ cb'.pc = "lookup" => cb'.kind \in {"data", "resize"}
          /\ cb'.pc = "targets" => cb'.kind = "checkpoint"
      BY <2>7, CallFields DEF DeliverData, DeliverResize, DeliverCheckpoint
    <3>2. \A x \in Sub : link'[x].seq = IF x = t /\ cb'.kind = "data"
                                      THEN link[x].seq + 1 ELSE link[x].seq
      <4>1. CASE DeliverData(t)
        BY <2>0, <4>1, CallFields DEF DeliverData, TypeOK, LinkType
      <4>2. CASE DeliverResize(t)
        BY <2>0, <4>2, CallFields DEF DeliverResize
      <4>3. CASE DeliverCheckpoint(t)
        BY <2>0, <4>3, CallFields DEF DeliverCheckpoint, TypeOK, LinkType
      <4> QED
        BY <2>7, <4>1, <4>2, <4>3
    <3>3. EntriesMatch' /\ FreshUnused' /\ KernelOfEntry' /\ NoFaultInHand' /\ NoSpuriousFault'
      BY <2>0, <3>1 DEF EntriesMatch, FreshUnused, KernelOfEntry, NoFaultInHand, NoSpuriousFault
    <3>4. CallOfStream'
      BY <2>0, <3>1, <3>2 DEF CallOfStream
    <3>5. Contiguity'
      BY <2>0, <3>1, <3>2 DEF Contiguity, Awaits, CallOfStream
    <3> QED
      BY <3>3, <3>4, <3>5
  <2>8. CASE Lookup
    <3>1. EntriesMatch' /\ FreshUnused' /\ KernelOfEntry' /\ NoFaultInHand' /\ NoSpuriousFault'
      BY <2>0, <2>8, LookupEffect
         DEF EntriesMatch, FreshUnused, KernelOfEntry, NoFaultInHand, NoSpuriousFault
    <3>2. CallOfStream'
      BY <2>0, <2>8, LookupEffect DEF CallOfStream
    <3>3. Contiguity'
      BY <2>0, <2>8, LookupEffect DEF Contiguity, Awaits, CallOfStream
    <3> QED
      BY <3>1, <3>2, <3>3
  <2>9. ASSUME NEW s \in Surface, Apply(s) PROVE InOrder'
    <3>1. EntriesMatch' /\ FreshUnused' /\ KernelOfEntry' /\ NoFaultInHand' /\ NoSpuriousFault'
      BY <2>0, <2>9, ApplyEffect
         DEF EntriesMatch, FreshUnused, KernelOfEntry, NoFaultInHand, NoSpuriousFault
    <3>2. CallOfStream'
      BY <2>0, <2>9, ApplyEffect DEF CallOfStream
    <3>3. Contiguity'
      BY <2>0, <2>9, ApplyEffect DEF Contiguity, Awaits, CallOfStream
    <3> QED
      BY <3>1, <3>2, <3>3
  <2>10. CASE Targets \/ Pending
    <3>1. /\ cb.pc \in {"targets", "pending"}
          /\ UNCHANGED <<nextSurface, sub, active, needs, pub, kernel, told, gui, link>>
          /\ session'.surfaces = session.surfaces /\ session'.sub = session.sub
          /\ cb'.kind = cb.kind /\ cb'.sub = cb.sub /\ cb'.seq = cb.seq
          /\ \/ cb'.pc = "reply" /\ cb'.todo = cb.todo
             \/ /\ cb'.pc = "install" /\ session.sub = cb.sub
                /\ cb'.todo \subseteq session.surfaces
      BY <2>10, TargetsEffect, PendingEffect
    <3>2. EntriesMatch' /\ FreshUnused' /\ KernelOfEntry' /\ NoFaultInHand' /\ NoSpuriousFault'
      BY <2>0, <3>1 DEF EntriesMatch, FreshUnused, KernelOfEntry, NoFaultInHand, NoSpuriousFault
    <3>3. CallOfStream' /\ Contiguity'
      BY <2>0, <3>1 DEF CallOfStream, Contiguity, Awaits
    <3> QED
      BY <3>2, <3>3
  <2>11. ASSUME NEW s \in Surface, Install(s) PROVE InOrder'
    <3>1. EntriesMatch' /\ FreshUnused' /\ NoFaultInHand' /\ NoSpuriousFault'
      BY <2>0, <2>11, InstallEffect DEF EntriesMatch, FreshUnused, NoFaultInHand, NoSpuriousFault
    <3>2. KernelOfEntry' /\ CallOfStream'
      BY <2>0, <2>11, InstallEffect DEF KernelOfEntry, CallOfStream
    <3>3. Contiguity'
      BY <2>0, <2>11, InstallEffect DEF Contiguity, Awaits, CallOfStream
    <3> QED
      BY <3>1, <3>2, <3>3
  <2>12. CASE Publish
    <3>1. NoSpuriousFault'
      <4>1. PublishFrame(cb.surface, cb.result) /\ cb.pc = "publish"
        BY <2>12 DEF Publish
      <4>2. \A x \in Surface :
               \/ told'[x] = told[x]
               \/ /\ told'[x] = told[x] \cup {cb.result.kind}
                  /\ x = cb.surface /\ active[x]
        BY <4>1, PublishFrameEffect
      <4>3. \A x \in Surface : x = cb.surface /\ active[x] => cb.result.kind \notin {"stale", "gap"}
        <5>1. SUFFICES ASSUME NEW x \in Surface, x = cb.surface, active[x]
                       PROVE  cb.result.kind \notin {"stale", "gap"}
          OBVIOUS
        <5>2. x \in session.surfaces
          BY <5>1 DEF EntriesMatch
        <5> QED
          BY <4>1, <5>1, <5>2 DEF NoFaultInHand
      <4> QED
        BY <4>2, <4>3 DEF NoSpuriousFault
    <3>2. EntriesMatch' /\ FreshUnused' /\ KernelOfEntry' /\ NoFaultInHand'
      BY <2>0, <2>12, PublishEffect DEF EntriesMatch, FreshUnused, KernelOfEntry, NoFaultInHand
    <3>3. CallOfStream'
      <4>1. cb.kind \in {"none", "data", "resize", "checkpoint"}
        BY DEF TypeOK, CbType
      <4> QED
        BY <2>0, <2>12, <4>1, PublishEffect DEF CallOfStream
    <3>4. Contiguity'
      BY <2>0, <2>12, PublishEffect DEF CallOfStream, Contiguity, Awaits
    <3> QED
      BY <3>1, <3>2, <3>3, <3>4
  <2>13. CASE Reply
    <3>1. /\ UNCHANGED <<nextSurface, session, sub, active, needs, pub, kernel, told, gui>>
          /\ cb.pc = "reply" /\ cb'.pc = "idle" /\ cb'.kind = "none" /\ cb'.todo = {}
      BY <2>13, IdleFields DEF Reply
    <3>2. SameSeq
      <4>1. CASE link' = link
        BY <4>1 DEF SameSeq
      <4>2. CASE link' = [link EXCEPT ![cb.sub].owed = @ + 1]
        BY <2>0, <4>2 DEF SameSeq, TypeOK, LinkType
      <4> QED
        BY <2>13, <4>1, <4>2 DEF Reply
    <3> QED
      BY <2>0, <3>1, <3>2 DEF SameSeq, EntriesMatch, FreshUnused, KernelOfEntry, CallOfStream,
         Contiguity, Awaits, NoFaultInHand, NoSpuriousFault
  <2>14. CASE UNCHANGED vars
    BY <2>14 DEF vars, EntriesMatch, FreshUnused, KernelOfEntry, CallOfStream, Contiguity, Awaits,
       NoFaultInHand, NoSpuriousFault
  <2> QED
    BY <2>1, <2>2, <2>4, <2>5, <2>6, <2>7, <2>8, <2>9, <2>10, <2>11, <2>12, <2>13, <2>14
       DEF Next, GuiThread, CallbackThread
<1> QED
  BY <1>1, <1>2, TypeCorrect, PTL DEF Spec

\* The display of every surface is the delivered stream, in order.
THEOREM StreamContiguous == Spec => []Contiguity
<1>1. InOrder => Contiguity
  BY DEF InOrder
<1> QED
  BY <1>1, InOrderInvariant, PTL

\* No view is ever told its own stream went wrong.
THEOREM NoFaultReported == Spec => []NoSpuriousFault
<1>1. InOrder => NoSpuriousFault
  BY DEF InOrder
<1> QED
  BY <1>1, InOrderInvariant, PTL

\* After unregisterSurface has returned, no call of the listener begins.
THEOREM ListenerCalls == Spec => CalledOnlyWhileRegistered
<1> DEFINE Only == \A s \in Surface :
                     pub'[s] # pub[s] \/ told'[s] # told[s] => s \in session.surfaces
<1>1. TypeOK /\ InOrder /\ [Next]_vars => [Only]_vars
  <2> SUFFICES ASSUME TypeOK, InOrder, [Next]_vars PROVE Only
    OBVIOUS
  <2>1. ASSUME NEW s, NEW r, PublishFrame(s, r) PROVE Only
    BY <2>1, PublishFrameEffect DEF InOrder, EntriesMatch
  <2>2. CASE PublishMove \/ Publish
    BY <2>1, <2>2 DEF PublishMove, Publish
  <2>3. CASE UNCHANGED <<pub, told>>
    BY <2>3
  <2> QED
    BY <2>2, <2>3 DEF Next, GuiThread, CallbackThread, vars, Register, RuntimeAccepts,
       RuntimeRejects, CancelSurfaceRefresh, Rollback, Detach, MoveViewport, DeliverData,
       DeliverResize, DeliverCheckpoint, Lookup, Apply, Targets, Install, Pending, Reply
<1> QED
  BY <1>1, TypeCorrect, InOrderInvariant, PTL DEF Spec, CalledOnlyWhileRegistered

(***************************************************************************)
(* The queue of refreshes.  Every queued refresh has a checkpoint coming:  *)
(* one the runtime owes, the one the callback thread is taking up, or the  *)
(* one the GUI thread is asking for.                                       *)
(***************************************************************************)
\* The generations in a queue, and that none is queued twice.
Queued(q) == {q[i] : i \in DOMAIN q}
Distinct(q) == \A i, j \in DOMAIN q : q[i] = q[j] => i = j

\* Erase takes one generation out of the queue and leaves the rest in it, once each.
LEMMA EraseFacts ==
  ASSUME NEW S, NEW q \in Seq(S), NEW s, Distinct(q)
  PROVE  /\ Erase(q, s) \in Seq(S)
         /\ Distinct(Erase(q, s))
         /\ Queued(Erase(q, s)) = Queued(q) \ {s}
         /\ Len(Erase(q, s)) = IF s \in Queued(q) THEN Len(q) - 1 ELSE Len(q)
<1> DEFINE at == {i \in DOMAIN q : q[i] = s}
<1>1. CASE at = {}
  BY <1>1 DEF Erase, Queued
<1>2. CASE at # {}
  <2>1. PICK k \in DOMAIN q : k = CHOOSE i \in at : TRUE
    BY <1>2
  <2>2. q[k] = s /\ \A i \in DOMAIN q : q[i] = s => i = k
    BY <1>2, <2>1 DEF Distinct
  <2> DEFINE e == [i \in 1 .. Len(q) - 1 |-> IF i < k THEN q[i] ELSE q[i + 1]]
  <2>3. Erase(q, s) = e
    BY <1>2, <2>1 DEF Erase
  <2>4. PICK n \in Nat : n = Len(q)
    OBVIOUS
  <2>5. k \in 1 .. n /\ DOMAIN q = 1 .. n /\ DOMAIN e = 1 .. n - 1
    BY <2>1, <2>4
  <2>6. \A i \in DOMAIN e : e[i] \in S /\ e[i] = IF i < k THEN q[i] ELSE q[i + 1]
    BY <2>5
  <2>7. e \in Seq(S) /\ Len(e) = n - 1
    BY <2>4, <2>5, <2>6
  <2> HIDE DEF e
  <2>8. Distinct(e)
    BY <2>5, <2>6 DEF Distinct
  <2>9. Queued(e) = Queued(q) \ {s}
    <3>1. ASSUME NEW i \in DOMAIN e PROVE e[i] \in Queued(q) \ {s}
      <4>1. CASE i < k
        BY <2>2, <2>5, <2>6, <4>1 DEF Queued
      <4>2. CASE ~(i < k)
        BY <2>2, <2>5, <2>6, <4>2 DEF Queued
      <4> QED
        BY <4>1, <4>2
    <3>2. ASSUME NEW i \in DOMAIN q, q[i] # s PROVE q[i] \in Queued(e)
      <4>1. CASE i < k
        <5>1. i \in DOMAIN e /\ e[i] = q[i]
          BY <2>5, <2>6, <4>1
        <5> QED
          BY <5>1 DEF Queued
      <4>2. CASE i > k
        <5>1. i - 1 \in DOMAIN e /\ e[i - 1] = q[i]
          BY <2>5, <2>6, <4>2
        <5> QED
          BY <5>1 DEF Queued
      <4> QED
        BY <2>2, <2>5, <3>2, <4>1, <4>2
    <3> QED
      BY <3>1, <3>2 DEF Queued
  <2>10. s \in Queued(q)
    BY <2>1, <2>2 DEF Queued
  <2> QED
    BY <2>3, <2>4, <2>7, <2>8, <2>9, <2>10
<1> QED
  BY <1>1, <1>2

\* A set of naturals that is not empty has a least element.
LEMMA Least ==
  ASSUME NEW T \in SUBSET Nat, T # {}
  PROVE  \E x \in T : \A y \in T : x <= y
<1>1. IsWellFoundedOn(OpToRel(<, Nat), Nat)
  BY NatLessThanWellFounded
<1>2. PICK x \in T : \A y \in T : ~(<<y, x>> \in OpToRel(<, Nat))
  BY <1>1, WFMin
<1>3. \A y \in T : ~(y < x)
  BY <1>2 DEF OpToRel
<1> QED
  BY <1>3

\* A refresh that is not queued yet is queued last, once.
LEMMA AppendSeeds ==
  ASSUME NEW S, NEW q \in Seq(S), NEW s \in S, Distinct(q), s \notin Queued(q)
  PROVE  /\ Append(q, s) \in Seq(S) /\ Distinct(Append(q, s))
         /\ Queued(Append(q, s)) = Queued(q) \cup {s}
         /\ Len(Append(q, s)) = Len(q) + 1
         /\ Append(q, s)[Len(q) + 1] = s
         /\ Append(q, s) # <<>>
<1>1. PICK n \in Nat : n = Len(q)
  OBVIOUS
<1> DEFINE a == Append(q, s)
<1>2. /\ DOMAIN q = 1 .. n /\ DOMAIN a = 1 .. n + 1 /\ a[n + 1] = s
      /\ \A i \in 1 .. n : a[i] = q[i]
      /\ a \in Seq(S) /\ Len(a) = n + 1 /\ a # <<>>
  BY <1>1
<1>3. \A i \in 1 .. n : q[i] # s
  BY <1>2 DEF Queued
<1> HIDE DEF a
<1>4. Distinct(a)
  BY <1>2, <1>3 DEF Distinct
<1>5. Queued(a) = Queued(q) \cup {s}
  <2>1. \A i \in DOMAIN a : a[i] \in Queued(q) \cup {s}
    BY <1>2 DEF Queued
  <2>2. \A i \in DOMAIN q : q[i] \in Queued(a)
    BY <1>2 DEF Queued
  <2>3. s \in Queued(a)
    BY <1>2 DEF Queued
  <2> QED
    BY <2>1, <2>2, <2>3 DEF Queued
<1> QED
  BY <1>1, <1>2, <1>4, <1>5 DEF a

\* What is behind the one taken: shorter, and with the same end.
LEMMA BehindFacts ==
  ASSUME NEW S, NEW q \in Seq(S), Distinct(q), NEW i \in DOMAIN q,
         NEW b, b = SubSeq(q, i + 1, Len(q))
  PROVE  /\ b \in Seq(S) /\ Distinct(b) /\ Len(b) \in Nat /\ Len(b) < Len(q)
         /\ Queued(b) \subseteq Queued(q)
         /\ b # <<>> => b[Len(b)] = q[Len(q)]
<1>1. PICK n \in Nat : n = Len(q)
  OBVIOUS
<1>2. /\ DOMAIN q = 1 .. n /\ i \in 1 .. n
      /\ b \in Seq(S) /\ Len(b) = n - i /\ DOMAIN b = 1 .. n - i
      /\ \A j \in 1 .. n - i : b[j] = q[i + j]
  BY <1>1
<1>3. n - i \in Nat /\ n \in Nat /\ i \in Nat
  BY <1>2
<1>4. \A j \in DOMAIN b : i + j \in DOMAIN q /\ b[j] = q[i + j] /\ j \in Nat
  BY <1>3, <1>2
<1>5. b # <<>> => b[Len(b)] = q[n]
  <2>1. CASE n - i = 0
    <3>1. Len(b) = 0
      BY <1>2, <2>1
    <3> QED
      BY <1>2, <3>1
  <2>2. CASE n - i # 0
    <3>1. n - i \in DOMAIN b /\ i + (n - i) = n
      BY <1>3, <1>2, <2>2
    <3> QED
      BY <1>2, <1>4, <3>1
  <2> QED
    BY <2>1, <2>2
<1>6. Distinct(b)
  <2> SUFFICES ASSUME NEW j \in DOMAIN b, NEW k \in DOMAIN b, b[j] = b[k] PROVE j = k
    BY DEF Distinct
  <2>1. i + j = i + k
    BY <1>4 DEF Distinct
  <2> QED
    BY <2>1, <1>3, <1>4
<1>7. Queued(b) \subseteq Queued(q)
  BY <1>2 DEF Queued
<1> QED
  BY <1>1, <1>2, <1>5, <1>6, <1>7

\* One that is behind the one taken is still queued.
LEMMA BehindRest ==
  ASSUME NEW S, NEW q \in Seq(S), Distinct(q), NEW i \in DOMAIN q,
         NEW b, b = SubSeq(q, i + 1, Len(q)), NEW m \in DOMAIN q, m > i
  PROVE  q[m] \in Queued(b)
<1>1. PICK n \in Nat : n = Len(q)
  OBVIOUS
<1>2. /\ DOMAIN q = 1 .. n /\ i \in 1 .. n
      /\ b \in Seq(S) /\ Len(b) = n - i /\ DOMAIN b = 1 .. n - i
      /\ \A j \in 1 .. n - i : b[j] = q[i + j]
  BY <1>1
<1>3. n - i \in Nat /\ n \in Nat /\ i \in Nat
  BY <1>2
<1>4. \A j \in DOMAIN b : i + j \in DOMAIN q /\ b[j] = q[i + j] /\ j \in Nat
  BY <1>3, <1>2
<1>5. m \in 1 .. n /\ m \in Nat /\ m - i \in 1 .. n - i /\ i + (m - i) = m
  BY <1>3, <1>2
<1>6. m - i \in DOMAIN b /\ b[m - i] = q[m]
  BY <1>2, <1>4, <1>5
<1> QED
  BY <1>6 DEF Queued

\* While attach is between its registration and the answer of the runtime, the session
\* entry is the one it registered in.
GuiOfSession ==
  gui.pc \in {"connect", "refresh", "cancel", "rollback"} =>
    gui.surface \in session.surfaces /\ gui.sub = session.sub

\* The refresh the GUI thread asks for, or takes back, is the last of the queue.
LastQueued ==
  gui.pc \in {"refresh", "cancel"} /\ session.seeds # <<>> =>
    session.seeds[Len(session.seeds)] = gui.surface

\* The checkpoint being taken up, and the one being asked for or taken back: the terms of
\* the sum in SeedsOwed.
Coming == IF cb.pc = "targets" /\ Current THEN 1 ELSE 0
Asking == IF gui.pc \in {"refresh", "cancel"} THEN 1 ELSE 0

\* There is a checkpoint for each queued refresh.
Answered ==
  session.seeds # <<>> => Len(session.seeds) <= link[session.sub].owed + Coming + Asking

\* SeedsOwed with what makes it inductive.
Refreshes ==
  /\ Distinct(session.seeds)
  /\ Queued(session.seeds) \subseteq session.surfaces
  /\ GuiOfSession
  /\ LastQueued
  /\ Answered

\* Types of what the queue depends on, and when there is a session entry.
LEMMA RegistryTypes ==
  ASSUME TypeOK, InOrder
  PROVE  /\ session \in SessionType /\ session.seeds \in Seq(Surface)
         /\ session.surfaces \subseteq Surface /\ session.sub \in 0 .. SubLimit
         /\ session.surfaces # {} => session.sub \in Sub
         /\ session.surfaces = {} => session.sub = 0
         /\ \A t \in Sub : link[t] \in LinkType /\ link[t].owed \in Nat
         /\ nextSurface \in Nat /\ \A s \in Surface : s \in Nat /\ s # 0
         /\ session.admitted \in BOOLEAN
<1>1. /\ session \in SessionType /\ session.seeds \in Seq(Surface)
      /\ session.surfaces \subseteq Surface /\ session.sub \in 0 .. SubLimit
      /\ session.admitted \in BOOLEAN
  BY DEF TypeOK, SessionType
<1>2. /\ \A t \in Sub : link[t] \in LinkType /\ link[t].owed \in Nat
      /\ nextSurface \in Nat /\ \A s \in Surface : s \in Nat /\ s # 0
  BY ConstantsAssumption DEF TypeOK, LinkType, Surface
<1>3. session.sub = 0 <=> session.surfaces = {}
  BY DEF InOrder, EntriesMatch
<1> QED
  BY <1>1, <1>2, <1>3, ConstantsAssumption DEF Sub

\* The parts of a session entry after a change of some of them.
LEMMA SessionParts ==
  ASSUME TypeOK, NEW S, NEW Q, session' = [session EXCEPT !.surfaces = S, !.seeds = Q]
  PROVE  /\ session'.sub = session.sub /\ session'.surfaces = S
         /\ session'.seeds = Q /\ session'.admitted = session.admitted
BY DEF TypeOK, SessionType

\* The same when only the queue changes.
LEMMA SeedsParts ==
  ASSUME TypeOK, NEW Q, session' = [session EXCEPT !.seeds = Q]
  PROVE  /\ session'.sub = session.sub /\ session'.surfaces = session.surfaces
         /\ session'.seeds = Q /\ session'.admitted = session.admitted
BY DEF TypeOK, SessionType

\* registerSurface: refused, the first of its session, registered before the first
\* checkpoint was admitted, or registered later and queued for a refresh.
LEMMA RegisterQueue ==
  ASSUME TypeOK, InOrder, NEW t \in Sub, Register(t)
  PROVE  LET s == nextSurface + 1 IN
         /\ gui.pc = "idle" /\ UNCHANGED <<needs, pub, kernel, told, cb, link>>
         /\ s \in Surface /\ s \notin session.surfaces
         /\ \/ UNCHANGED <<session, gui, sub, active>>
            \/ /\ session.sub = 0 /\ session'.sub = t /\ session'.surfaces = {s}
                  /\ session'.seeds = <<>>
               /\ session'.admitted = FALSE
               /\ gui' = GuiAt("connect", s, t, NoResult)
            \/ /\ session.sub = t /\ session'.sub = t
               /\ session'.surfaces = session.surfaces \cup {s} /\ session'.seeds = session.seeds
               /\ session'.admitted = FALSE /\ session.admitted = FALSE
               /\ gui' = GuiIdle
            \/ /\ session.sub = t /\ session'.sub = t
               /\ session'.surfaces = session.surfaces \cup {s}
               /\ session'.seeds = Append(session.seeds, s)
               /\ session'.admitted = TRUE /\ session.admitted = TRUE
               /\ gui' = GuiAt("refresh", s, t, NoResult)
<1> DEFINE s == nextSurface + 1
<1>1. /\ gui.pc = "idle" /\ UNCHANGED <<needs, pub, kernel, told, cb, link>> /\ s \in Surface
  BY DEF Register
<1>2. s \notin session.surfaces
  BY <1>1, RegistryTypes DEF InOrder, FreshUnused
<1>3. CASE session.sub = 0
  BY <1>1, <1>2, <1>3 DEF Register
<1>4. CASE session.sub # 0 /\ ~Admissible(t)
  BY <1>1, <1>2, <1>4 DEF Register
<1>5. CASE session.sub # 0 /\ Admissible(t)
  <2> DEFINE Q == IF RequiresRefresh THEN Append(session.seeds, s) ELSE session.seeds
  <2>1. session' = [session EXCEPT !.surfaces = session.surfaces \cup {s}, !.seeds = Q]
        /\ gui' = IF RequiresRefresh THEN GuiAt("refresh", s, t, NoResult) ELSE GuiIdle
    BY <1>5 DEF Register
  <2>2. session'.sub = session.sub /\ session'.surfaces = session.surfaces \cup {s}
        /\ session'.seeds = Q
        /\ session'.admitted = session.admitted
    BY <2>1, SessionParts
  <2>3. session.sub = t /\ session.admitted \in BOOLEAN
    BY <1>5, RegistryTypes DEF Admissible
  <2> QED
    BY <1>1, <1>2, <2>1, <2>2, <2>3 DEF RequiresRefresh
<1> QED
  BY <1>3, <1>4, <1>5

\* unregisterSurface forgets the refresh of the surface and keeps the others.
LEMMA UnregisterQueue ==
  ASSUME TypeOK, InOrder, Refreshes, NEW s \in session.surfaces, Unregister(s)
  PROVE  /\ session'.surfaces = session.surfaces \ {s}
         /\ session'.seeds \in Seq(Surface) /\ Distinct(session'.seeds)
         /\ Queued(session'.seeds) = Queued(session.seeds) \ {s}
         /\ Len(session'.seeds) <= Len(session.seeds)
         /\ session'.surfaces # {} => session'.sub = session.sub
         /\ session'.admitted => session.admitted
<1>1. session.seeds \in Seq(Surface) /\ Distinct(session.seeds) /\ Len(session.seeds) \in Nat
      /\ Queued(session.seeds) \subseteq session.surfaces
  BY RegistryTypes DEF Refreshes
<1>2. CASE session.surfaces = {s}
  <2>1. session' = NoSession
    BY <1>2 DEF Unregister
  <2>2. session'.surfaces = {} /\ session'.seeds = <<>> /\ session'.admitted = FALSE
    BY <2>1 DEF NoSession
  <2>3. Distinct(<<>>) /\ Queued(<<>>) = {} /\ <<>> \in Seq(Surface) /\ Len(<<>>) = 0
    BY DEF Distinct, Queued
  <2> QED
    BY <1>1, <1>2, <2>2, <2>3
<1>3. CASE session.surfaces # {s}
  <2>1. session' = [session EXCEPT !.surfaces = session.surfaces \ {s}, !.seeds = Erase(session.seeds, s)]
    BY <1>3 DEF Unregister
  <2>2. session'.surfaces = session.surfaces \ {s} /\ session'.seeds = Erase(session.seeds, s)
        /\ session'.sub = session.sub /\ session'.admitted = session.admitted
    BY <2>1, SessionParts
  <2> QED
    BY <1>1, <2>2, EraseFacts
<1> QED
  BY <1>2, <1>3

\* cancelSurfaceRefresh finds the session entry of the refresh it takes back.
LEMMA CancelQueue ==
  ASSUME TypeOK, InOrder, Refreshes, CancelSurfaceRefresh
  PROVE  /\ gui.pc = "cancel" /\ gui'.pc = "rollback" /\ gui'.surface = gui.surface
            /\ gui'.sub = gui.sub
         /\ UNCHANGED <<nextSurface, nextSub, sub, active, needs, pub, kernel, told, cb, link>>
         /\ session'.sub = session.sub /\ session'.surfaces = session.surfaces
         /\ session'.admitted = session.admitted
         /\ session'.seeds = Erase(session.seeds, gui.surface)
<1>1. session.sub = gui.sub
  BY DEF CancelSurfaceRefresh, Refreshes, GuiOfSession
<1>2. session' = [session EXCEPT !.seeds = Erase(session.seeds, gui.surface)]
  BY <1>1 DEF CancelSurfaceRefresh
<1>3. gui'.pc = "rollback" /\ gui'.surface = gui.surface /\ gui'.sub = gui.sub
  BY DEF CancelSurfaceRefresh, TypeOK, GuiType
<1> QED
  BY <1>2, <1>3, SeedsParts DEF CancelSurfaceRefresh

\* checkpointTargets leaves the queue, empties it, or takes off what is answered.
LEMMA TargetsQueue ==
  ASSUME TypeOK, InOrder, Refreshes, Targets
  PROVE  /\ cb.pc = "targets" /\ cb'.pc # "targets"
         /\ UNCHANGED <<nextSurface, sub, active, needs, pub, kernel, told, gui, link>>
         /\ session'.surfaces = session.surfaces /\ session'.sub = session.sub
         /\ session'.admitted = session.admitted
         /\ \/ ~Current /\ session' = session
            \/ session.seeds = <<>> /\ session'.seeds = <<>>
            \/ session'.seeds = <<>> /\ session.seeds # <<>> /\ FirstWanted = {}
            \/ \E i \in FirstWanted : session'.seeds = Behind(i)
<1>1. cb.pc = "targets" /\ cb'.pc # "targets"
      /\ UNCHANGED <<nextSurface, sub, active, needs, pub, kernel, told, gui, link>>
      /\ session'.surfaces = session.surfaces /\ session'.sub = session.sub
  BY TargetsEffect
<1>2. session' = session \/ \E q : session' = [session EXCEPT !.seeds = q]
  BY DEF Targets
<1>3. session'.admitted = session.admitted
  BY <1>2, SeedsParts
<1>4. \/ ~Current /\ session' = session
      \/ session.seeds = <<>> /\ session' = session
      \/ session' = [session EXCEPT !.seeds = <<>>] /\ session.seeds # <<>> /\ FirstWanted = {}
      \/ \E i \in FirstWanted : session' = [session EXCEPT !.seeds = Behind(i)]
  BY DEF Targets
<1>5. ASSUME NEW i \in FirstWanted, session' = [session EXCEPT !.seeds = Behind(i)]
      PROVE  session'.seeds = Behind(i)
  <2> DEFINE q == Behind(i)
  <2>1. session' = [session EXCEPT !.seeds = q]
    BY <1>5
  <2> HIDE DEF q
  <2>2. session'.seeds = q
    BY <2>1, SeedsParts
  <2> QED
    BY <2>2 DEF q
<1>6. session' = [session EXCEPT !.seeds = <<>>] => session'.seeds = <<>>
  BY SeedsParts
<1> QED
  BY <1>1, <1>3, <1>4, <1>5, <1>6

\* The step leaves the session entry alone, but for whether a checkpoint was admitted.
SameSession == session'.sub = session.sub /\ session'.surfaces = session.surfaces
/\ session'.seeds = session.seeds

\* Terms of the sum.
LEMMA Terms ==
  /\ Coming \in {0, 1} /\ Asking \in {0, 1}
BY DEF Coming, Asking

\* What a control state of the GUI thread is about.
LEMMA GuiSubject ==
  ASSUME NEW pc, NEW s, NEW t, NEW r, gui' = GuiAt(pc, s, t, r)
  PROVE  gui'.pc = pc /\ gui'.surface = s /\ gui'.sub = t
BY DEF GuiAt

\* With a refresh queued there is a session entry, and its stream owes checkpoints.
LEMMA SeedsNonempty ==
  ASSUME TypeOK, InOrder, Refreshes, session.seeds # <<>>
  PROVE  /\ session.sub \in Sub /\ session.surfaces # {}
         /\ Len(session.seeds) \in Nat /\ link[session.sub].owed \in Nat
         /\ Len(session.seeds) <= link[session.sub].owed + Coming + Asking
<1>1. session.seeds \in Seq(Surface)
  BY RegistryTypes
<1>2. Len(session.seeds) \in DOMAIN session.seeds /\ Len(session.seeds) \in Nat
  BY <1>1
<1>3. session.surfaces # {}
  BY <1>2 DEF Refreshes, Queued
<1> QED
  BY <1>2, <1>3, RegistryTypes DEF Refreshes, Answered

\* There is no refresh in the beginning.
LEMMA RefreshesStart ==
  ASSUME Init
  PROVE  Refreshes
<1>1. session.seeds = <<>> /\ session.surfaces = {} /\ gui.pc = "idle"
  BY IdleFields DEF Init, NoSession
<1>2. Distinct(<<>>) /\ Queued(<<>>) = {}
  BY DEF Distinct, Queued
<1> QED
  BY <1>1, <1>2 DEF Refreshes, GuiOfSession, LastQueued, Answered

\* A refresh that is queued is being asked for.
LEMMA RefreshesRegister ==
  ASSUME TypeOK, InOrder, Refreshes, NEW t \in Sub, Register(t)
  PROVE  Refreshes'
<1> DEFINE s == nextSurface + 1
<1>1. gui.pc = "idle" /\ UNCHANGED <<cb, link>> /\ s \in Surface /\ s \notin session.surfaces
  BY RegisterQueue
<1>2. session.seeds \in Seq(Surface) /\ Distinct(session.seeds)
      /\ Queued(session.seeds) \subseteq session.surfaces
  BY RegistryTypes DEF Refreshes
<1> HIDE DEF s
<1>3. CASE UNCHANGED <<session, gui>>
  BY <1>1, <1>3 DEF Refreshes, GuiOfSession, LastQueued, Answered, Coming, Asking, Current
<1>4. CASE session'.seeds = <<>> /\ session'.surfaces = {s} /\ session'.sub = t
           /\ gui' = GuiAt("connect", s, t, NoResult)
  <2>1. gui'.pc = "connect" /\ gui'.surface = s /\ gui'.sub = t
    BY <1>4, GuiSubject
  <2>2. Distinct(<<>>) /\ Queued(<<>>) = {}
    BY DEF Distinct, Queued
  <2> QED
    BY <1>4, <2>1, <2>2 DEF Refreshes, GuiOfSession, LastQueued, Answered
<1>5. CASE /\ session.sub = t /\ session'.sub = t /\ session'.surfaces = session.surfaces \cup {s}
           /\ session'.seeds = session.seeds /\ gui' = GuiIdle
  <2>1. gui'.pc = "idle"
    BY <1>5, IdleFields
  <2>2. Coming' = Coming /\ Asking' = Asking
    BY <1>1, <1>5, <2>1 DEF Coming, Asking, Current
  <2>3. Answered'
    BY <1>1, <1>5, <2>2 DEF Answered, Refreshes
  <2> QED
    BY <1>2, <1>5, <2>1, <2>3 DEF Refreshes, GuiOfSession, LastQueued
<1>6. CASE /\ session.sub = t /\ session'.sub = t /\ session'.surfaces = session.surfaces \cup {s}
           /\ session'.seeds = Append(session.seeds, s) /\ gui' = GuiAt("refresh", s, t, NoResult)
  <2>1. gui'.pc = "refresh" /\ gui'.surface = s /\ gui'.sub = t
    BY <1>6, GuiSubject
  <2>2. s \notin Queued(session.seeds)
    BY <1>1, <1>2
  <2>3. /\ session'.seeds \in Seq(Surface) /\ Distinct(session'.seeds)
        /\ Queued(session'.seeds) = Queued(session.seeds) \cup {s}
        /\ Len(session'.seeds) = Len(session.seeds) + 1
        /\ session'.seeds[Len(session.seeds) + 1] = s
    BY <1>1, <1>2, <1>6, <2>2, AppendSeeds
  <2>4. Coming' = Coming /\ Asking' = 1 /\ Asking = 0 /\ Coming \in {0, 1}
    BY <1>1, <1>6, <2>1, Terms DEF Coming, Asking, Current
  <2>5. link[session.sub].owed \in Nat /\ Len(session.seeds) \in Nat
    BY <1>2, <1>6, RegistryTypes
  <2>6. Len(session.seeds) <= link[session.sub].owed + Coming
    <3>1. CASE session.seeds = <<>>
      BY <2>4, <2>5, <3>1
    <3>2. CASE session.seeds # <<>>
      BY <2>4, <2>5, <3>2, SeedsNonempty
    <3> QED
      BY <3>1, <3>2
  <2>7. Answered'
    BY <1>1, <1>6, <2>3, <2>4, <2>5, <2>6 DEF Answered
  <2>8. GuiOfSession' /\ LastQueued'
    BY <1>6, <2>1, <2>3 DEF GuiOfSession, LastQueued
  <2> QED
    BY <1>2, <1>6, <2>3, <2>7, <2>8 DEF Refreshes
<1> QED
  BY <1>3, <1>4, <1>5, <1>6, RegisterQueue DEF s

\* A refresh that was accepted is owed by the stream of the session.
LEMMA RefreshesRuntime ==
  ASSUME TypeOK, InOrder, Refreshes, RuntimeAccepts \/ RuntimeRejects
  PROVE  Refreshes'
<1>1. session' = session /\ cb' = cb /\ gui.pc \in {"connect", "refresh"} /\ Coming' = Coming
  BY DEF RuntimeAccepts, RuntimeRejects, Coming, Current
<1>2. CASE RuntimeRejects
  <2>1. gui'.pc = (IF gui.pc = "refresh" THEN "cancel" ELSE "rollback")
        /\ gui'.surface = gui.surface /\ gui'.sub = gui.sub /\ link' = link
    BY <1>2 DEF RuntimeRejects, TypeOK, GuiType
  <2>2. Asking' = Asking
    BY <1>1, <2>1 DEF Asking
  <2>3. GuiOfSession' /\ LastQueued'
    BY <1>1, <2>1 DEF Refreshes, GuiOfSession, LastQueued
  <2> QED
    BY <1>1, <2>1, <2>2, <2>3 DEF Refreshes, Answered
<1>3. CASE RuntimeAccepts
  <2>1. gui'.pc = "idle"
    BY <1>3, IdleFields DEF RuntimeAccepts
  <2>2. GuiOfSession' /\ LastQueued'
    BY <2>1 DEF GuiOfSession, LastQueued
  <2>3. ASSUME session.seeds # <<>>
        PROVE  Len(session.seeds) <= link'[session.sub].owed + Coming + Asking'
    <3>1. /\ session.sub \in Sub /\ Len(session.seeds) \in Nat /\ link[session.sub].owed \in Nat
          /\ Len(session.seeds) <= link[session.sub].owed + Coming + Asking
      BY <2>3, SeedsNonempty
    <3>2. gui.sub = session.sub
      BY <1>1 DEF Refreshes, GuiOfSession
    <3>3. link'[session.sub].owed = link[session.sub].owed + 1
      BY <1>3, <3>1, <3>2, RegistryTypes DEF RuntimeAccepts, TypeOK, LinkType
    <3>4. Asking' = 0 /\ Asking \in {0, 1} /\ Coming \in {0, 1}
      BY <2>1, Terms DEF Asking
    <3> QED
      BY <3>1, <3>3, <3>4
  <2> QED
    BY <1>1, <2>2, <2>3 DEF Refreshes, Answered
<1> QED
  BY <1>2, <1>3

\* A refresh taken back is out of the queue: had it been answered meanwhile, so had all
\* before it, and the queue is empty.
LEMMA RefreshesCancel ==
  ASSUME TypeOK, InOrder, Refreshes, CancelSurfaceRefresh
  PROVE  Refreshes'
<1>1. /\ gui.pc = "cancel" /\ gui'.pc = "rollback" /\ gui'.surface = gui.surface
         /\ gui'.sub = gui.sub
      /\ cb' = cb /\ link' = link
      /\ session'.sub = session.sub /\ session'.surfaces = session.surfaces
      /\ session'.seeds = Erase(session.seeds, gui.surface)
  BY CancelQueue
<1>2. session.seeds \in Seq(Surface) /\ Distinct(session.seeds) /\ Len(session.seeds) \in Nat
      /\ Queued(session.seeds) \subseteq session.surfaces
  BY RegistryTypes DEF Refreshes
<1>3. /\ session'.seeds \in Seq(Surface) /\ Distinct(session'.seeds)
      /\ Queued(session'.seeds) = Queued(session.seeds) \ {gui.surface}
      /\ Len(session'.seeds) = IF gui.surface \in Queued(session.seeds) THEN Len(session.seeds) - 1
                               ELSE Len(session.seeds)
  BY <1>1, <1>2, EraseFacts
<1>4. Coming' = Coming /\ Asking' = 0 /\ Asking = 1 /\ Coming \in {0, 1}
  BY <1>1, Terms DEF Coming, Asking, Current
<1>5. ASSUME session'.seeds # <<>>
      PROVE  Len(session'.seeds) <= link[session.sub].owed + Coming
  <2>1. session.seeds # <<>>
    <3>1. CASE session.seeds = <<>>
      <4>1. Queued(session'.seeds) = {} /\ Len(session'.seeds) \in DOMAIN session'.seeds
        BY <1>3, <1>5, <3>1 DEF Queued
      <4> QED
        BY <4>1 DEF Queued
    <3> QED
      BY <3>1
  <2>2. session.seeds[Len(session.seeds)] = gui.surface
        /\ Len(session.seeds) \in DOMAIN session.seeds
    BY <1>1, <1>2, <2>1 DEF Refreshes, LastQueued
  <2>3. gui.surface \in Queued(session.seeds)
    BY <2>2 DEF Queued
  <2>4. /\ Len(session.seeds) \in Nat /\ link[session.sub].owed \in Nat
        /\ Len(session.seeds) <= link[session.sub].owed + Coming + Asking
    BY <2>1, SeedsNonempty
  <2> QED
    BY <1>3, <1>4, <2>3, <2>4
<1>6. Answered'
  <2>1. ASSUME session'.seeds # <<>>
        PROVE  Len(session'.seeds) <= link[session.sub].owed + Coming + Asking'
    <3>1. Len(session'.seeds) <= link[session.sub].owed + Coming /\ session.seeds \in Seq(Surface)
      BY <1>5, <2>1, <1>2
    <3>2. session'.surfaces # {}
      <4>1. Len(session'.seeds) \in DOMAIN session'.seeds
        BY <1>3, <2>1
      <4>2. session'.seeds[Len(session'.seeds)] \in Queued(session'.seeds)
        BY <4>1 DEF Queued
      <4> QED
        BY <1>1, <1>2, <1>3, <4>2
    <3>3. link[session.sub].owed \in Nat
      BY <1>1, <3>2, RegistryTypes
    <3> QED
      BY <1>4, <3>1, <3>3
  <2> QED
    BY <1>1, <1>4, <2>1 DEF Answered
<1>7. GuiOfSession' /\ LastQueued'
  BY <1>1 DEF Refreshes, GuiOfSession, LastQueued
<1> QED
  BY <1>1, <1>2, <1>3, <1>6, <1>7 DEF Refreshes

\* unregisterSurface leaves no more refreshes than before.
LEMMA RefreshesUnregister ==
  ASSUME TypeOK, InOrder, Refreshes, NEW s \in session.surfaces, Unregister(s),
         UNCHANGED <<cb, link>>, gui'.pc = "idle", gui.pc \in {"idle", "rollback"}
  PROVE  Refreshes'
<1>1. /\ session'.surfaces = session.surfaces \ {s}
      /\ session'.seeds \in Seq(Surface) /\ Distinct(session'.seeds)
      /\ Queued(session'.seeds) = Queued(session.seeds) \ {s}
      /\ Len(session'.seeds) <= Len(session.seeds)
      /\ session'.surfaces # {} => session'.sub = session.sub
  BY UnregisterQueue
<1>2. Queued(session.seeds) \subseteq session.surfaces /\ session.seeds \in Seq(Surface)
  BY RegistryTypes DEF Refreshes
<1>3. ASSUME session'.seeds # <<>>
      PROVE  Len(session'.seeds) <= link'[session'.sub].owed + Coming' + Asking'
  <2>1. Len(session'.seeds) \in DOMAIN session'.seeds /\ Len(session'.seeds) \in Nat
    BY <1>1, <1>3
  <2>2. session'.surfaces # {}
    <3>1. session'.seeds[Len(session'.seeds)] \in Queued(session'.seeds)
      BY <2>1 DEF Queued
    <3> QED
      BY <1>1, <1>2, <3>1
  <2>3. session.seeds # <<>>
    BY <1>1, <1>2, <2>1
  <2>4. session'.sub = session.sub
    BY <1>1, <2>2
  <2>5. Coming' = Coming /\ Asking' = 0 /\ Asking = 0 /\ Coming \in {0, 1}
    BY <2>4, Terms DEF Coming, Asking, Current
  <2>6. /\ Len(session.seeds) \in Nat /\ link[session.sub].owed \in Nat
        /\ Len(session.seeds) <= link[session.sub].owed + Coming + Asking
    BY <2>3, SeedsNonempty
  <2> QED
    BY <1>1, <2>1, <2>4, <2>5, <2>6
<1>4. Answered' /\ GuiOfSession' /\ LastQueued'
  BY <1>3 DEF Answered, GuiOfSession, LastQueued
<1> QED
  BY <1>1, <1>2, <1>4 DEF Refreshes

\* A step that leaves the session and the GUI thread alone, after which no fewer checkpoints
\* are owed or taken up.
LEMMA RefreshesQuiet ==
  ASSUME TypeOK, InOrder, Refreshes, SameSession,
         gui' = gui \/ (gui'.pc \in {"idle", "publish"} /\ gui.pc \in {"idle", "publish"}),
         session.seeds # <<>> => link'[session.sub].owed + Coming' >= link[session.sub].owed + Coming,
         session.seeds # <<>> => link'[session.sub].owed \in Nat
  PROVE  Refreshes'
<1>1. Asking' = Asking
  BY DEF Asking
<1>2. ASSUME session.seeds # <<>>
      PROVE  Len(session.seeds) <= link'[session.sub].owed + Coming' + Asking
  <2>1. /\ Len(session.seeds) \in Nat /\ link[session.sub].owed \in Nat
        /\ Len(session.seeds) <= link[session.sub].owed + Coming + Asking
    BY <1>2, SeedsNonempty
  <2>2. Coming' \in {0, 1} /\ Coming \in {0, 1} /\ Asking \in {0, 1}
    BY DEF Coming, Asking
  <2>3. ASSUME NEW n \in Nat, NEW a \in Nat, NEW b \in Nat,
               NEW c \in {0, 1}, NEW d \in {0, 1}, NEW e \in {0, 1},
               n <= a + c + e, b + d >= a + c
        PROVE  n <= b + d + e
    BY <2>3
  <2>4. link'[session.sub].owed \in Nat
        /\ link'[session.sub].owed + Coming' >= link[session.sub].owed + Coming
    BY <1>2
  <2>5. PICK n \in Nat : n = Len(session.seeds)
    BY <2>1
  <2>6. PICK a \in Nat : a = link[session.sub].owed
    BY <2>1
  <2>7. PICK b \in Nat : b = link'[session.sub].owed
    BY <2>4
  <2>8. PICK c \in {0, 1} : c = Coming
    BY <2>2
  <2>9. PICK d \in {0, 1} : d = Coming'
    BY <2>2
  <2>10. PICK e \in {0, 1} : e = Asking
    BY <2>2
  <2>11. n <= a + c + e
    BY <2>1, <2>5, <2>6, <2>8, <2>10
  <2>12. b + d >= a + c
    BY <2>4, <2>6, <2>7, <2>8, <2>9
  <2>13. n <= b + d + e
    BY <2>3, <2>11, <2>12
  <2> QED
    BY <2>5, <2>7, <2>9, <2>10, <2>13
<1>3. GuiOfSession' /\ LastQueued'
  BY DEF GuiOfSession, LastQueued, SameSession, Refreshes
<1>4. Answered'
  BY <1>1, <1>2 DEF SameSession, Answered
<1> QED
  BY <1>3, <1>4 DEF Refreshes, SameSession

\* A checkpoint that is taken up answers at least the first refresh.
LEMMA RefreshesTargets ==
  ASSUME TypeOK, InOrder, Refreshes, Targets
  PROVE  Refreshes'
<1>1. /\ cb.pc = "targets" /\ cb'.pc # "targets" /\ gui' = gui /\ link' = link
      /\ session'.surfaces = session.surfaces /\ session'.sub = session.sub
      /\ \/ ~Current /\ session' = session
         \/ session.seeds = <<>> /\ session'.seeds = <<>>
         \/ session'.seeds = <<>>
         \/ \E i \in FirstWanted : session'.seeds = Behind(i)
  BY TargetsQueue
<1>2. Coming' = 0 /\ (~Current => Coming = 0) /\ Coming \in {0, 1} /\ Asking' = Asking
      /\ Asking \in {0, 1}
  BY <1>1, Terms DEF Coming, Asking
<1>3. CASE ~Current /\ session' = session
  <2>1. Coming' = Coming
    BY <1>2, <1>3
  <2> QED
    BY <1>1, <1>2, <1>3, <2>1 DEF Refreshes, GuiOfSession, LastQueued, Answered
<1>4. CASE session'.seeds = <<>>
  <2>1. Distinct(<<>>) /\ Queued(<<>>) = {}
    BY DEF Distinct, Queued
  <2> QED
    BY <1>1, <1>4, <2>1 DEF Refreshes, GuiOfSession, LastQueued, Answered
<1>5. ASSUME NEW i \in FirstWanted, session'.seeds = Behind(i)
      PROVE  Refreshes'
  <2>1. i \in DOMAIN session.seeds /\ session.seeds \in Seq(Surface) /\ Distinct(session.seeds)
        /\ Queued(session.seeds) \subseteq session.surfaces
    BY RegistryTypes DEF FirstWanted, Refreshes
  <2> DEFINE q == session.seeds
             b == session'.seeds
  <2>2. b = SubSeq(q, i + 1, Len(q))
    BY <1>5 DEF Behind
  <2>3. q \in Seq(Surface) /\ Distinct(q) /\ i \in DOMAIN q
    BY <2>1
  <2>4. /\ session'.seeds \in Seq(Surface) /\ Distinct(session'.seeds)
           /\ Len(session'.seeds) \in Nat
        /\ Len(session'.seeds) < Len(session.seeds)
        /\ Queued(session'.seeds) \subseteq Queued(session.seeds)
        /\ session'.seeds # <<>> => session'.seeds[Len(session'.seeds)] = session.seeds[Len(session.seeds)]
    <3> HIDE DEF q, b
    <3>1. /\ b \in Seq(Surface) /\ Distinct(b) /\ Len(b) \in Nat /\ Len(b) < Len(q)
          /\ Queued(b) \subseteq Queued(q)
          /\ b # <<>> => b[Len(b)] = q[Len(q)]
      BY <2>2, <2>3, BehindFacts
    <3> QED
      BY <3>1 DEF q, b
  <2>5. session.seeds # <<>>
    BY <2>1
  <2>6. /\ Len(session.seeds) \in Nat /\ link[session.sub].owed \in Nat
        /\ Len(session.seeds) <= link[session.sub].owed + Coming + Asking
    BY <2>5, SeedsNonempty
  <2>7. Len(session'.seeds) <= link[session.sub].owed + 0 + Asking
    BY <1>2, <2>4, <2>6
  <2>8. Answered'
    BY <1>1, <1>2, <2>7 DEF Answered
  <2>9. GuiOfSession' /\ LastQueued'
    BY <1>1, <2>4, <2>5 DEF Refreshes, GuiOfSession, LastQueued
  <2> QED
    BY <1>1, <2>1, <2>4, <2>8, <2>9 DEF Refreshes
<1> QED
  BY <1>1, <1>3, <1>4, <1>5

\* A checkpoint that is delivered is no longer owed, and is being taken up.
LEMMA RefreshesCheckpoint ==
  ASSUME TypeOK, InOrder, Refreshes, NEW t \in Sub, DeliverCheckpoint(t)
  PROVE  Refreshes'
<1>1. /\ cb.pc = "idle" /\ cb'.pc = "targets" /\ cb'.sub = t /\ gui' = gui /\ session' = session
      /\ link[t].owed > 0
      /\ link' = [link EXCEPT ![t].owed = @ - 1]
  BY CallFields DEF DeliverCheckpoint
<1>2. ASSUME session.seeds # <<>>
      PROVE  link'[session.sub].owed \in Nat
             /\ link'[session.sub].owed + Coming' >= link[session.sub].owed + Coming
  <2>1. session.sub \in Sub /\ link[session.sub].owed \in Nat /\ link[t] \in LinkType
        /\ link[session.sub] \in LinkType
    BY <1>2, SeedsNonempty, RegistryTypes
  <2>2. Coming = 0 /\ Coming' \in {0, 1}
    BY <1>1 DEF Coming
  <2>3. CASE session.sub = t
    <3>1. Coming' = 1
      BY <1>1, <2>3 DEF Coming, Current
    <3>2. link'[session.sub].owed = link[session.sub].owed - 1
      BY <1>1, <2>1, <2>3 DEF TypeOK, LinkType
    <3> QED
      BY <1>1, <2>1, <2>2, <2>3, <3>1, <3>2
  <2>4. CASE session.sub # t
    <3>1. link'[session.sub] = link[session.sub]
      BY <1>1, <2>1, <2>4 DEF TypeOK
    <3> QED
      BY <2>1, <2>2, <3>1
  <2> QED
    BY <2>3, <2>4
<1>3. SameSession
  BY <1>1 DEF SameSession
<1> QED
  BY <1>1, <1>2, <1>3, RefreshesQuiet

\* Steps of the callback thread that do not take up a checkpoint.
LEMMA RefreshesElse ==
  ASSUME TypeOK, InOrder, Refreshes, SameSession,
         gui' = gui \/ (gui'.pc \in {"idle", "publish"} /\ gui.pc \in {"idle", "publish"}),
         cb' = cb \/ cb.pc # "targets",
         \A t \in Sub : link'[t].owed = link[t].owed \/ link'[t].owed = link[t].owed + 1
  PROVE  Refreshes'
<1>1. ASSUME session.seeds # <<>>
      PROVE  link'[session.sub].owed \in Nat
             /\ link'[session.sub].owed + Coming' >= link[session.sub].owed + Coming
  <2>1. session.sub \in Sub /\ link[session.sub].owed \in Nat
    BY <1>1, SeedsNonempty
  <2>2. Coming \in {0, 1} /\ Coming' \in {0, 1} /\ (Coming = 0 \/ Coming' = Coming)
    BY DEF Coming, Current, SameSession
  <2>3. link'[session.sub].owed = link[session.sub].owed \/ link'[session.sub].owed = link[session.sub].owed + 1
    BY <2>1
  <2> QED
    BY <2>1, <2>2, <2>3
<1> QED
  BY <1>1, RefreshesQuiet

\* A change of one field of one stream.
LEMMA LinkParts ==
  ASSUME TypeOK, NEW t, NEW n
  PROVE  /\ link' = [link EXCEPT ![t].seq = n] => \A x \in Sub : link'[x].owed = link[x].owed
         /\ link' = [link EXCEPT ![t].owed = n] =>
              \A x \in Sub : link'[x].owed = IF x = t THEN n ELSE link[x].owed
<1>1. link \in [Sub -> LinkType] /\ \A x \in Sub : link[x] \in LinkType
  BY DEF TypeOK
<1> QED
  BY <1>1 DEF LinkType

\* Every step of either thread keeps a checkpoint coming for each queued refresh.
LEMMA RefreshesStep ==
  ASSUME TypeOK, InOrder, Refreshes, [Next]_vars
  PROVE  Refreshes'
<1>1. ASSUME NEW t \in Sub, Register(t) PROVE Refreshes'
  BY <1>1, RefreshesRegister
<1>2. CASE RuntimeAccepts \/ RuntimeRejects
  BY <1>2, RefreshesRuntime
<1>3. CASE CancelSurfaceRefresh
  BY <1>3, RefreshesCancel
<1>4. CASE Rollback
  <2>1. gui.pc = "rollback" /\ gui.surface \in session.surfaces /\ gui'.pc = "idle"
        /\ Unregister(gui.surface) /\ UNCHANGED <<cb, link>>
    BY <1>4, IdleFields DEF Rollback, Refreshes, GuiOfSession
  <2> QED
    BY <2>1, RefreshesUnregister
<1>5. ASSUME NEW s \in Surface, Detach(s) PROVE Refreshes'
  <2>1. gui.pc = "idle" /\ gui'.pc = "idle" /\ s \in session.surfaces /\ Unregister(s)
        /\ UNCHANGED <<cb, link>>
    BY <1>5 DEF Detach
  <2> QED
    BY <2>1, RefreshesUnregister
<1>6. CASE PublishMove \/ \E s \in Surface : MoveViewport(s)
  <2>1. gui.pc \in {"idle", "publish"} /\ gui'.pc \in {"idle", "publish"}
        /\ UNCHANGED <<session, cb, link>>
    <3>1. CASE PublishMove
      BY <3>1, IdleFields DEF PublishMove
    <3>2. ASSUME NEW s \in Surface, MoveViewport(s) PROVE gui.pc = "idle"
                 /\ gui'.pc = "publish" /\ UNCHANGED <<session, cb, link>>
      <4>1. gui.pc = "idle"
        BY <3>2 DEF MoveViewport
      <4> QED
        BY <3>2, <4>1, MoveViewportEffect
    <3> QED
      BY <1>6, <3>1, <3>2
  <2> QED
    BY <2>1, RefreshesElse DEF SameSession
<1>7. CASE Targets
  BY <1>7, RefreshesTargets
<1>8. ASSUME NEW t \in Sub, DeliverCheckpoint(t) PROVE Refreshes'
  BY <1>8, RefreshesCheckpoint
<1>9. ASSUME NEW t \in Sub, DeliverData(t) \/ DeliverResize(t) PROVE Refreshes'
  <2>1. UNCHANGED <<session, gui>> /\ cb.pc = "idle"
    BY <1>9 DEF DeliverData, DeliverResize
  <2>2. link' = link \/ link' = [link EXCEPT ![t].seq = link[t].seq + 1]
    BY <1>9 DEF DeliverData, DeliverResize
  <2>3. SameSession /\ \A x \in Sub : link'[x].owed = link[x].owed
    BY <2>1, <2>2, LinkParts DEF SameSession
  <2> QED
    BY <2>1, <2>3, RefreshesElse
<1>10. CASE Reply
  <2>1. UNCHANGED <<session, gui>> /\ cb.pc = "reply"
    BY <1>10 DEF Reply
  <2>2. link' = link \/ link' = [link EXCEPT ![cb.sub].owed = link[cb.sub].owed + 1]
    BY <1>10 DEF Reply
  <2>3. SameSession
        /\ \A x \in Sub : link'[x].owed = link[x].owed \/ link'[x].owed = link[x].owed + 1
    BY <2>1, <2>2, LinkParts DEF SameSession
  <2> QED
    BY <2>1, <2>3, RefreshesElse
<1>11. CASE Lookup \/ Publish \/ \E s \in Surface : Apply(s) \/ Install(s)
  <2>1. UNCHANGED <<session, gui, link>> /\ cb.pc # "targets"
    BY <1>11 DEF Lookup, Publish, Apply, Install
  <2>2. SameSession /\ \A x \in Sub : link'[x].owed = link[x].owed
    BY <2>1 DEF SameSession
  <2> QED
    BY <2>1, <2>2, RefreshesElse
<1>12. CASE Pending
  <2>1. session' = session \/ session' = [session EXCEPT !.admitted = TRUE]
    BY <1>12 DEF Pending
  <2>2. SameSession
    BY <2>1, RegistryTypes DEF SameSession, SessionType
  <2>3. UNCHANGED <<gui, link>> /\ cb.pc # "targets"
    BY <1>12 DEF Pending
  <2>4. \A x \in Sub : link'[x].owed = link[x].owed
    BY <2>3
  <2> QED
    BY <2>2, <2>3, <2>4, RefreshesElse
<1>13. CASE UNCHANGED vars
  <2>1. SameSession /\ cb' = cb /\ gui' = gui /\ \A x \in Sub : link'[x].owed = link[x].owed
    BY <1>13 DEF vars, SameSession
  <2> QED
    BY <2>1, RefreshesElse
<1> QED
  BY <1>1, <1>2, <1>3, <1>4, <1>5, <1>6, <1>7, <1>8, <1>9, <1>10, <1>11, <1>12, <1>13
     DEF Next, GuiThread, CallbackThread

\* In every reachable state each queued refresh is of a registered surface and is queued once,
\* and they are no more than the checkpoints to come; what the GUI thread asks for, or takes
\* back, is the last of them.
THEOREM RefreshesInvariant == Spec => []Refreshes
<1>1. Init => Refreshes
  BY RefreshesStart
<1>2. TypeOK /\ InOrder /\ Refreshes /\ [Next]_vars => Refreshes'
  BY RefreshesStep
<1> QED
  BY <1>1, <1>2, TypeCorrect, InOrderInvariant, PTL DEF Spec

\* The queued refreshes are of different surfaces, all registered, and no more than the
\* checkpoints to come (requestSurfaceRefresh, cancelSurfaceRefresh, checkpointTargets,
\* unregisterSurface).
THEOREM RefreshesAnswered == Spec => []SeedsOwed
<1>1. Refreshes => SeedsOwed
  BY DEF Refreshes, SeedsOwed, Distinct, Queued, Answered, Coming, Asking
<1> QED
  BY <1>1, RefreshesInvariant, PTL

(***************************************************************************)
(* No surface is forgotten.                                                *)
(***************************************************************************)
\* The callback thread is at a surface only while it publishes for it; a frame of a
\* checkpoint means that the surface has its checkpoint, a failure that its kernel rejected it.
HandOver ==
  /\ cb.pc # "publish" => cb.surface = 0
  /\ cb.pc = "publish" => cb.surface \in Surface
  /\ cb.pc = "publish" /\ cb.kind = "checkpoint" =>
       IF cb.result.ok THEN ~needs[cb.surface] ELSE cb.result.kind = "ghostty"

\* What NoStranding asks for a surface that waits.
Cared(s) ==
  \/ s \in Queued(session.seeds)
  \/ cb.kind = "checkpoint" /\ s \in cb.todo \cup {cb.surface}
  \/ "ghostty" \in told[s]
  \/ gui.pc = "rollback" /\ gui.surface = s

\* NoStranding, surface by surface.
NoneForgotten == session.admitted => \A s \in session.surfaces : needs[s] => Cared(s)

\* A callback that only goes on to another place.
LEMMA CbGoes ==
  ASSUME TypeOK, NEW pc, NEW T, NEW o, NEW a, NEW c,
         \/ cb' = [cb EXCEPT !.pc = pc, !.todo = T]
         \/ cb' = [cb EXCEPT !.pc = pc, !.todo = T, !.seedOnly = o]
         \/ cb' = [cb EXCEPT !.pc = pc, !.accepted = a, !.current = c] /\ T = cb.todo
  PROVE  cb'.pc = pc /\ cb'.todo = T /\ cb'.kind = cb.kind /\ cb'.surface = cb.surface
BY DEF TypeOK, CbType

\* A delivery that begins or ends is at no surface.
LEMMA CbBlank ==
  /\ \A pc, kind, t, n : Call(pc, kind, t, n).surface = 0
  /\ CbIdle.surface = 0
BY DEF Call, CbIdle

\* Where the targets of a checkpoint come from.
LEMMA TargetsCb ==
  ASSUME TypeOK, Targets
  PROVE  /\ cb'.surface = cb.surface /\ cb'.kind = cb.kind /\ cb'.pc # "publish"
         /\ \/ ~Current /\ session' = session /\ cb'.todo = cb.todo
            \/ session' = session /\ cb'.todo = Needing /\ Needing # {}
            \/ session' = session /\ Needing = {}
            \/ session' = [session EXCEPT !.seeds = <<>>] /\ FirstWanted = {}
            \/ \E i \in FirstWanted : session' = [session EXCEPT !.seeds = Behind(i)]
               /\ cb'.todo = {session.seeds[i]}
<1>1. ASSUME NEW a, NEW c, cb' = Answer(a, c)
      PROVE  cb'.pc = "reply" /\ cb'.todo = cb.todo /\ cb'.kind = cb.kind
             /\ cb'.surface = cb.surface
  BY <1>1, CbGoes DEF Answer
<1>2. ASSUME NEW T, NEW o, StartInstall(T, o)
      PROVE  /\ cb'.pc # "publish" /\ cb'.kind = cb.kind /\ cb'.surface = cb.surface
             /\ T = {} \/ cb'.todo = T
  <2>1. CASE T = {}
    BY <1>1, <1>2, <2>1 DEF StartInstall
  <2>2. CASE T # {}
    <3>1. cb' = [cb EXCEPT !.pc = "install", !.todo = T, !.seedOnly = o]
      BY <1>2, <2>2 DEF StartInstall
    <3>2. cb'.pc = "install" /\ cb'.todo = T /\ cb'.kind = cb.kind /\ cb'.surface = cb.surface
      BY <3>1, CbGoes
    <3> QED
      BY <3>2
  <2> QED
    BY <2>1, <2>2
<1>3. CASE ~Current /\ cb' = Answer(FALSE, FALSE) /\ session' = session
  BY <1>1, <1>3
<1>4. CASE StartInstall(Needing, FALSE) /\ session' = session
  BY <1>2, <1>4
<1>5. CASE FirstWanted = {} /\ StartInstall({}, TRUE) /\ session' = [session EXCEPT !.seeds = <<>>]
  BY <1>2, <1>5
<1>6. ASSUME NEW i \in FirstWanted, StartInstall({session.seeds[i]}, TRUE),
             session' = [session EXCEPT !.seeds = Behind(i)]
      PROVE  /\ cb'.surface = cb.surface /\ cb'.kind = cb.kind /\ cb'.pc # "publish"
             /\ cb'.todo = {session.seeds[i]}
  <2> DEFINE T == {session.seeds[i]}
  <2>1. T # {} /\ StartInstall(T, TRUE)
    BY <1>6
  <2> HIDE DEF T
  <2>2. /\ cb'.pc # "publish" /\ cb'.kind = cb.kind /\ cb'.surface = cb.surface /\ cb'.todo = T
    BY <1>2, <2>1
  <2> QED
    BY <2>2 DEF T
<1> QED
  BY <1>3, <1>4, <1>5, <1>6 DEF Targets

\* pendingCheckpointTargets admits the checkpoint only when no surface waits any more.
LEMMA PendingCb ==
  ASSUME TypeOK, InOrder, Pending
  PROVE  /\ cb.pc = "pending" /\ cb'.surface = cb.surface /\ cb'.kind = cb.kind
            /\ cb'.pc # "publish"
         /\ session'.surfaces = session.surfaces /\ session'.seeds = session.seeds
         /\ session'.admitted = session.admitted \/ Needing = {}
         /\ cb.todo = {}
<1>1. ASSUME NEW a, NEW c, cb' = Answer(a, c)
      PROVE  cb'.pc = "reply" /\ cb'.todo = cb.todo /\ cb'.kind = cb.kind
             /\ cb'.surface = cb.surface
  BY <1>1, CbGoes DEF Answer
<1>2. session' = session \/ (session' = [session EXCEPT !.admitted = TRUE] /\ Outstanding = {}
      /\ ~cb.seedOnly)
  BY DEF Pending
<1>3. /\ session'.surfaces = session.surfaces /\ session'.seeds = session.seeds
      /\ session'.admitted = session.admitted \/ Needing = {}
  BY <1>2 DEF TypeOK, SessionType, Outstanding
<1>4. cb.pc = "pending" /\ cb.todo = {}
  BY DEF Pending, InOrder, CallOfStream
<1>5. CASE \E a, c : cb' = Answer(a, c)
  BY <1>1, <1>3, <1>4, <1>5
<1>6. CASE cb' = [cb EXCEPT !.pc = "install", !.todo = Outstanding]
  <2>1. cb'.pc = "install" /\ cb'.todo = Outstanding /\ cb'.kind = cb.kind
        /\ cb'.surface = cb.surface
    BY <1>6, CbGoes
  <2> QED
    BY <1>3, <1>4, <2>1
<1> QED
  BY <1>5, <1>6 DEF Pending

\* A frame is accepted and has its revision; a failure has none.
LEMMA ResultKinds ==
  /\ \A r : Frame(r).ok = TRUE /\ Frame(r).rev = r
  /\ \A k : Failure(k).ok = FALSE /\ Failure(k).rev = 0
BY DEF Frame, Failure

\* After a publication the callback is at no surface, and waits for the same ones.
LEMMA PublishCb ==
  ASSUME TypeOK, Publish
  PROVE  /\ cb.pc = "publish" /\ cb'.pc # "publish" /\ cb'.surface = 0
         /\ cb'.kind = cb.kind \/ (cb.kind # "checkpoint" /\ cb'.kind = "none")
         /\ cb.kind = "checkpoint" => cb'.todo = cb.todo
         /\ UNCHANGED <<nextSurface, session, sub, active, needs, kernel, gui, link>>
<1>1. ASSUME NEW pc, NEW a, NEW c,
             cb' = [cb EXCEPT !.pc = pc, !.surface = 0, !.result = NoResult,
                              !.accepted = a, !.current = c]
      PROVE  cb'.pc = pc /\ cb'.kind = cb.kind /\ cb'.todo = cb.todo /\ cb'.surface = 0
  BY <1>1 DEF TypeOK, CbType
<1>2. CASE cb.kind = "checkpoint"
  <2>1. \E pc \in {"install", "pending", "reply"} : \E a, c :
             cb' = [cb EXCEPT !.pc = pc, !.surface = 0, !.result = NoResult, !.accepted = a, !.current = c]
    BY <1>2 DEF Publish, AfterPublish
  <2>2. cb'.pc \in {"install", "pending", "reply"} /\ cb'.kind = cb.kind /\ cb'.todo = cb.todo
        /\ cb'.surface = 0
    BY <2>1, <1>1
  <2> QED
    BY <1>2, <2>2 DEF Publish
<1>3. CASE cb.kind # "checkpoint" /\ cb.todo = {}
  BY <1>3, IdleFields, CbBlank DEF Publish, AfterPublish
<1>4. CASE cb.kind # "checkpoint" /\ cb.todo # {}
  <2>1. cb' = [cb EXCEPT !.pc = "apply", !.surface = 0, !.result = NoResult]
    BY <1>4 DEF Publish, AfterPublish
  <2> QED
    BY <1>4, <2>1 DEF Publish, TypeOK, CbType
<1> QED
  BY <1>2, <1>3, <1>4

\* A checkpoint is installed, or the failure to install it is in hand.
LEMMA InstallCb ==
  ASSUME TypeOK, NEW s \in Surface, Install(s)
  PROVE  /\ cb.pc = "install" /\ s \in cb.todo
         /\ cb'.pc = "publish" /\ cb'.surface = s /\ cb'.kind = cb.kind /\ cb'.todo = cb.todo \ {s}
         /\ UNCHANGED <<nextSurface, session, sub, active, pub, told, gui, link>>
         /\ \/ /\ needs' = [needs EXCEPT ![s] = FALSE]
                  /\ kernel' = [kernel EXCEPT ![s] = Restored(@)]
               /\ cb'.result = Frame(kernel[s].rev + 1)
            \/ UNCHANGED <<needs, kernel>> /\ cb'.result = Failure("ghostty")
<1>1. PICK r : /\ Returned(s, r)
               /\ \/ /\ needs' = [needs EXCEPT ![s] = FALSE]
                        /\ kernel' = [kernel EXCEPT ![s] = Restored(@)]
                     /\ r = Frame(kernel[s].rev + 1)
                  \/ UNCHANGED <<needs, kernel>> /\ r = Failure("ghostty")
  BY DEF Install
<1>2. cb'.pc = "publish" /\ cb'.surface = s /\ cb'.kind = cb.kind /\ cb'.todo = cb.todo \ {s}
      /\ cb'.result = r
  BY <1>1, ReturnedEffect
<1> QED
  BY <1>1, <1>2 DEF Install

\* Every step of the callback thread hands over as HandOver says.
LEMMA HandOverStep ==
  ASSUME TypeOK, InOrder, HandOver, [Next]_vars
  PROVE  HandOver'
<1>1. CASE cb' = cb /\ needs' = needs
  BY <1>1 DEF HandOver
<1>2. CASE cb'.pc # "publish" /\ cb'.surface = 0
  BY <1>2 DEF HandOver
<1>3. ASSUME NEW t \in Sub, DeliverData(t) \/ DeliverResize(t) \/ DeliverCheckpoint(t) PROVE HandOver'
  <2>1. cb'.pc # "publish" /\ cb'.surface = 0
    BY <1>3, CbBlank, CallFields DEF DeliverData, DeliverResize, DeliverCheckpoint
  <2> QED
    BY <1>2, <2>1
<1>4. CASE Lookup
  <2>1. cb.pc = "lookup" /\ cb.surface = 0
    BY <1>4 DEF Lookup, HandOver
  <2>2. CASE cb' = CbIdle
    BY <1>2, <2>2, IdleFields, CbBlank
  <2>3. CASE cb' = [cb EXCEPT !.pc = "apply", !.todo = Seeded]
    <3>1. cb'.pc = "apply" /\ cb'.surface = 0
      BY <2>1, <2>3, CbGoes
    <3> QED
      BY <1>2, <3>1
  <2> QED
    BY <1>4, <2>2, <2>3 DEF Lookup
<1>5. CASE Targets
  BY <1>2, <1>5, TargetsCb, TargetsEffect DEF HandOver
<1>6. CASE Pending
  BY <1>2, <1>6, PendingCb DEF HandOver
<1>7. CASE Publish
  BY <1>2, <1>7, PublishCb
<1>8. CASE Reply
  BY <1>2, <1>8, IdleFields, CbBlank DEF Reply
<1>9. ASSUME NEW s \in Surface, Apply(s) PROVE HandOver'
  <2>1. cb'.pc = "publish" /\ cb'.surface = s /\ cb'.kind # "checkpoint"
    BY <1>9, ApplyEffect DEF InOrder, CallOfStream
  <2> QED
    BY <2>1 DEF HandOver
<1>10. ASSUME NEW s \in Surface, Install(s) PROVE HandOver'
  <2>1. cb'.pc = "publish" /\ cb'.surface = s
    BY <1>10, InstallCb
  <2>2. IF cb'.result.ok THEN ~needs'[s] ELSE cb'.result.kind = "ghostty"
    <3>1. CASE needs' = [needs EXCEPT ![s] = FALSE] /\ cb'.result = Frame(kernel[s].rev + 1)
      BY <3>1, ResultFields DEF TypeOK
    <3>2. CASE cb'.result = Failure("ghostty")
      BY <3>2, ResultFields
    <3> QED
      BY <1>10, <3>1, <3>2, InstallCb
  <2> QED
    BY <2>1, <2>2 DEF HandOver
<1>11. CASE GuiThread \/ UNCHANGED vars
  <2>1. cb' = cb /\ needs' = needs
    BY <1>11 DEF GuiThread, vars, Register, RuntimeAccepts, RuntimeRejects,
       CancelSurfaceRefresh, Rollback, Detach, MoveViewport, PublishMove
  <2> QED
    BY <1>1, <2>1
<1> QED
  BY <1>3, <1>4, <1>5, <1>6, <1>7, <1>8, <1>9, <1>10, <1>11 DEF Next, CallbackThread

\* What nobody touched is still cared for.
LEMMA StillCared ==
  ASSUME NoneForgotten,
         session'.admitted => session.admitted,
         \A s \in session'.surfaces : needs'[s] =>
           s \in session.surfaces /\ needs[s] /\ (Cared(s) => Cared(s)')
  PROVE  NoneForgotten'
BY DEF NoneForgotten

\* publishFrame tells of a failure.
LEMMA ToldOfFailure ==
  ASSUME TypeOK, NEW s, NEW r, PublishFrame(s, r)
  PROVE  /\ \A x \in Surface : told[x] \subseteq told'[x]
         /\ s \in Surface /\ active[s] /\ ~r.ok => r.kind \in told'[s]
BY DEF PublishFrame, TypeOK

\* A surface registered after the first checkpoint is queued for a refresh.
LEMMA CaredRegister ==
  ASSUME TypeOK, InOrder, Refreshes, NoneForgotten, NEW t \in Sub, Register(t)
  PROVE  NoneForgotten'
<1> DEFINE s == nextSurface + 1
<1>1. gui.pc = "idle" /\ UNCHANGED <<needs, told, cb>> /\ s \in Surface /\ s \notin session.surfaces
  BY RegisterQueue
<1>2. session.seeds \in Seq(Surface) /\ Distinct(session.seeds)
      /\ Queued(session.seeds) \subseteq session.surfaces
  BY RegistryTypes DEF Refreshes
<1> HIDE DEF s
<1>3. CASE UNCHANGED <<session, gui>>
  BY <1>1, <1>3 DEF NoneForgotten, Cared
<1>4. CASE session'.admitted = FALSE
  BY <1>4 DEF NoneForgotten
<1>5. CASE /\ session'.surfaces = session.surfaces \cup {s}
           /\ session'.seeds = Append(session.seeds, s)
           /\ session.admitted = TRUE
  <2>1. Queued(session'.seeds) = Queued(session.seeds) \cup {s}
    BY <1>1, <1>2, <1>5, AppendSeeds
  <2>2. ASSUME NEW x \in session'.surfaces, needs'[x] PROVE Cared(x)'
    <3>1. CASE x = s
      BY <2>1, <3>1 DEF Cared
    <3>2. CASE x # s
      <4>1. x \in session.surfaces /\ needs[x]
        BY <1>1, <1>5, <2>2, <3>2
      <4>2. Cared(x) /\ gui.pc # "rollback"
        BY <1>1, <1>5, <4>1 DEF NoneForgotten
      <4> QED
        BY <1>1, <2>1, <4>2 DEF Cared
    <3> QED
      BY <3>1, <3>2
  <2> QED
    BY <2>2 DEF NoneForgotten
<1> QED
  BY <1>3, <1>4, <1>5, RegisterQueue DEF s

\* unregisterSurface takes nothing from the surfaces that stay.
LEMMA CaredUnregister ==
  ASSUME TypeOK, InOrder, Refreshes, NoneForgotten, NEW s \in session.surfaces, Unregister(s),
         UNCHANGED <<cb, told, needs>>, gui.pc = "rollback" => gui.surface = s
  PROVE  NoneForgotten'
<1>1. /\ session'.surfaces = session.surfaces \ {s}
      /\ Queued(session'.seeds) = Queued(session.seeds) \ {s}
      /\ session'.admitted => session.admitted
  BY UnregisterQueue
<1>2. \A x \in session'.surfaces : Cared(x) => Cared(x)'
  BY <1>1 DEF Cared
<1> QED
  BY <1>1, <1>2, StillCared

\* A surface whose refresh is taken back is about to be unregistered.
LEMMA CaredCancel ==
  ASSUME TypeOK, InOrder, Refreshes, NoneForgotten, CancelSurfaceRefresh
  PROVE  NoneForgotten'
<1>1. /\ gui.pc = "cancel" /\ gui'.pc = "rollback" /\ gui'.surface = gui.surface
      /\ UNCHANGED <<needs, told, cb>>
      /\ session'.surfaces = session.surfaces /\ session'.admitted = session.admitted
      /\ session'.seeds = Erase(session.seeds, gui.surface)
  BY CancelQueue
<1>2. Queued(session'.seeds) = Queued(session.seeds) \ {gui.surface}
  BY <1>1, EraseFacts, RegistryTypes DEF Refreshes
<1>3. \A x \in session'.surfaces : Cared(x) => Cared(x)'
  BY <1>1, <1>2 DEF Cared
<1> QED
  BY <1>1, <1>3, StillCared

\* What checkpointTargets takes off the queue has its checkpoint already, or is installed
\* next.
LEMMA CaredTargets ==
  ASSUME TypeOK, InOrder, Refreshes, HandOver, NoneForgotten, Targets
  PROVE  NoneForgotten'
<1>1. /\ cb.pc = "targets" /\ UNCHANGED <<needs, told, gui>>
      /\ session'.surfaces = session.surfaces /\ session'.admitted = session.admitted
  BY TargetsQueue
<1>2. cb.kind = "checkpoint" /\ cb'.kind = "checkpoint" /\ cb.todo = {} /\ cb.surface = 0
  BY <1>1, TargetsCb DEF InOrder, CallOfStream, HandOver
<1>3. \A x \in session.surfaces : x # 0
  BY RegistryTypes
<1>4. CASE session' = session /\ (cb'.todo = cb.todo \/ cb'.todo = Needing)
  <2>1. \A x \in session.surfaces : Cared(x) => Cared(x)'
    BY <1>1, <1>2, <1>3, <1>4 DEF Cared
  <2> QED
    BY <1>1, <2>1, StillCared
<1>5. CASE Needing = {}
  BY <1>1, <1>5 DEF Needing, NoneForgotten
<1>6. CASE session' = [session EXCEPT !.seeds = <<>>] /\ FirstWanted = {}
  <2>1. ASSUME NEW x \in session.surfaces, needs[x], x \in Queued(session.seeds) PROVE FALSE
    <3> DEFINE W == {k \in DOMAIN session.seeds : session.seeds[k] \in Needing}
    <3>1. W \in SUBSET Nat /\ W # {}
      BY <2>1, RegistryTypes DEF Queued, Needing
    <3> HIDE DEF W
    <3>2. PICK k \in W : \A j \in W : k <= j
      BY <3>1, Least
    <3>3. k \in DOMAIN session.seeds /\ session.seeds[k] \in Needing /\ k \in Nat
          /\ DOMAIN session.seeds = 1 .. Len(session.seeds)
      BY <3>2, RegistryTypes DEF W
    <3>4. ASSUME NEW j \in 1 .. k - 1 PROVE session.seeds[j] \notin Needing
      <4>1. j \in DOMAIN session.seeds /\ ~(k <= j)
        BY <3>3
      <4> QED
        BY <3>2, <4>1 DEF W
    <3> QED
      BY <1>6, <3>3, <3>4 DEF FirstWanted
  <2>2. \A x \in session.surfaces : needs[x] /\ Cared(x) => Cared(x)'
    BY <1>1, <1>2, <1>3, <2>1 DEF Cared
  <2> QED
    BY <1>1, <2>2, StillCared DEF NoneForgotten
<1>7. ASSUME NEW i \in FirstWanted, session' = [session EXCEPT !.seeds = Behind(i)],
             cb'.todo = {session.seeds[i]}
      PROVE  NoneForgotten'
  <2> DEFINE q == session.seeds
             b == Behind(i)
  <2>1. q \in Seq(Surface) /\ Distinct(q) /\ i \in DOMAIN q /\ b = SubSeq(q, i + 1, Len(q))
        /\ \A j \in 1 .. i - 1 : q[j] \notin Needing
    BY RegistryTypes DEF Refreshes, FirstWanted, Behind
  <2>2. session' = [session EXCEPT !.seeds = b] /\ cb'.todo = {q[i]}
    BY <1>7
  <2> HIDE DEF q, b
  <2>3. session'.seeds = b
    BY <2>2, SeedsParts
  <2>4. \A j \in DOMAIN q : j > i => q[j] \in Queued(b)
    <3>1. q \in Seq(Surface) /\ Distinct(q) /\ i \in DOMAIN q /\ b = SubSeq(q, i + 1, Len(q))
      BY <2>1
    <3>2. ASSUME NEW j \in DOMAIN q, j > i PROVE q[j] \in Queued(b)
      BY <3>1, <3>2, BehindRest
    <3> QED
      BY <3>2
  <2>5. ASSUME NEW x \in session.surfaces, needs[x], x \in Queued(q)
        PROVE  x = q[i] \/ x \in Queued(b)
    <3>1. PICK j \in DOMAIN q : x = q[j]
      BY <2>5 DEF Queued
    <3>2. x \in Needing
      BY <2>5 DEF Needing
    <3>3. j \in Nat /\ i \in Nat /\ j >= 1
      BY <2>1
    <3>4. ~(j < i)
      BY <2>1, <3>1, <3>2, <3>3
    <3> QED
      BY <2>4, <3>1, <3>3, <3>4
  <2>6. \A x \in session.surfaces : needs[x] /\ Cared(x) => Cared(x)'
    BY <1>1, <1>2, <1>3, <2>2, <2>3, <2>5 DEF Cared, q
  <2> QED
    BY <1>1, <2>6 DEF NoneForgotten
<1> QED
  BY <1>4, <1>5, <1>6, <1>7, TargetsCb

\* A surface that could not be given its checkpoint is told of the failure.
LEMMA CaredPublish ==
  ASSUME TypeOK, InOrder, HandOver, NoneForgotten, Publish
  PROVE  NoneForgotten'
<1>1. /\ cb.pc = "publish" /\ (cb'.kind = cb.kind \/ (cb.kind # "checkpoint" /\ cb'.kind = "none"))
      /\ cb.kind = "checkpoint" => cb'.todo = cb.todo
      /\ UNCHANGED <<session, active, needs, gui>>
  BY PublishCb
<1>2. PublishFrame(cb.surface, cb.result)
  BY DEF Publish
<1>3. \A x \in Surface : told[x] \subseteq told'[x]
  BY <1>2, ToldOfFailure
<1>4. session.surfaces \subseteq Surface
  BY RegistryTypes
<1>5. ASSUME NEW x \in session.surfaces, needs[x], Cared(x)
      PROVE  Cared(x)'
  <2>1. CASE cb.kind = "checkpoint" /\ x = cb.surface
    <3>1. ~cb.result.ok /\ cb.result.kind = "ghostty"
      BY <1>1, <1>5, <2>1 DEF HandOver
    <3>2. active[x]
      BY <1>4, <1>5 DEF InOrder, EntriesMatch
    <3>3. "ghostty" \in told'[x]
      BY <1>2, <1>4, <1>5, <2>1, <3>1, <3>2, ToldOfFailure
    <3> QED
      BY <3>3 DEF Cared
  <2>2. CASE ~(cb.kind = "checkpoint" /\ x = cb.surface)
    BY <1>1, <1>3, <1>4, <1>5, <2>2 DEF Cared
  <2> QED
    BY <2>1, <2>2
<1>6. ASSUME session'.admitted, NEW x \in session'.surfaces, needs'[x] PROVE Cared(x)'
  BY <1>1, <1>5, <1>6 DEF NoneForgotten
<1> QED
  BY <1>6 DEF NoneForgotten

\* No step of either thread forgets a surface that waits.
LEMMA CaredStep ==
  ASSUME TypeOK, InOrder, Refreshes, HandOver, NoneForgotten, [Next]_vars
  PROVE  NoneForgotten'
<1>1. session.surfaces \subseteq Surface
  BY RegistryTypes
<1>2. ASSUME NEW t \in Sub, Register(t) PROVE NoneForgotten'
  BY <1>2, CaredRegister
<1>3. CASE RuntimeAccepts \/ RuntimeRejects
  <2>1. gui.pc # "rollback" /\ UNCHANGED <<session, needs, told, cb>>
    BY <1>3 DEF RuntimeAccepts, RuntimeRejects
  <2>2. \A x \in session'.surfaces : Cared(x) => Cared(x)'
    BY <2>1 DEF Cared
  <2> QED
    BY <2>1, <2>2, StillCared
<1>4. CASE CancelSurfaceRefresh
  BY <1>4, CaredCancel
<1>5. CASE Rollback
  <2>1. gui.pc = "rollback" /\ gui.surface \in session.surfaces /\ Unregister(gui.surface)
        /\ UNCHANGED <<cb, told, needs>>
    BY <1>5 DEF Rollback, Refreshes, GuiOfSession
  <2> QED
    BY <2>1, CaredUnregister
<1>6. ASSUME NEW s \in Surface, Detach(s) PROVE NoneForgotten'
  <2>1. gui.pc = "idle" /\ s \in session.surfaces /\ Unregister(s) /\ UNCHANGED <<cb, told, needs>>
    BY <1>6 DEF Detach
  <2> QED
    BY <2>1, CaredUnregister
<1>7. ASSUME NEW s \in Surface, MoveViewport(s) PROVE NoneForgotten'
  <2>1. gui.pc = "idle" /\ UNCHANGED <<session, needs, told, cb>>
    BY <1>7 DEF MoveViewport
  <2>2. \A x \in session'.surfaces : Cared(x) => Cared(x)'
    BY <2>1 DEF Cared
  <2> QED
    BY <2>1, <2>2, StillCared
<1>8. CASE PublishMove
  <2>1. gui.pc = "publish" /\ UNCHANGED <<session, needs, cb>>
        /\ \A x \in Surface : told[x] \subseteq told'[x]
    BY <1>8, ToldOfFailure DEF PublishMove
  <2>2. \A x \in session'.surfaces : Cared(x) => Cared(x)'
    BY <1>1, <2>1 DEF Cared
  <2> QED
    BY <2>1, <2>2, StillCared
<1>9. ASSUME NEW t \in Sub, DeliverData(t) \/ DeliverResize(t) \/ DeliverCheckpoint(t)
      PROVE  NoneForgotten'
  <2>1. cb.pc = "idle" /\ UNCHANGED <<session, needs, told, gui>>
    BY <1>9 DEF DeliverData, DeliverResize, DeliverCheckpoint
  <2>2. cb.kind = "none"
    BY <2>1 DEF InOrder, CallOfStream
  <2>3. \A x \in session'.surfaces : Cared(x) => Cared(x)'
    BY <2>1, <2>2 DEF Cared
  <2> QED
    BY <2>1, <2>3, StillCared
<1>10. CASE Lookup \/ \E s \in Surface : Apply(s)
  <2>1. cb.pc \in {"lookup", "apply"} /\ UNCHANGED <<session, needs, told, gui>>
    BY <1>10 DEF Lookup, Apply
  <2>2. cb.kind # "checkpoint"
    BY <2>1 DEF InOrder, CallOfStream
  <2>3. \A x \in session'.surfaces : Cared(x) => Cared(x)'
    BY <2>1, <2>2 DEF Cared
  <2> QED
    BY <2>1, <2>3, StillCared
<1>11. CASE Targets
  BY <1>11, CaredTargets
<1>12. ASSUME NEW s \in Surface, Install(s) PROVE NoneForgotten'
  <2>1. /\ cb.pc = "install" /\ cb'.surface = s /\ cb'.kind = cb.kind /\ cb'.todo = cb.todo \ {s}
        /\ UNCHANGED <<session, told, gui>>
        /\ needs' = needs \/ needs' = [needs EXCEPT ![s] = FALSE]
    BY <1>12, InstallCb
  <2>2. cb.surface = 0
    BY <2>1 DEF HandOver
  <2>3. \A x \in session'.surfaces : x # 0
    BY <2>1, RegistryTypes
  <2>4. \A x \in session'.surfaces : Cared(x) => Cared(x)'
    BY <2>1, <2>2, <2>3 DEF Cared
  <2>5. \A x \in session'.surfaces : needs'[x] => needs[x]
    BY <1>1, <2>1 DEF TypeOK
  <2> QED
    BY <2>1, <2>4, <2>5, StillCared
<1>13. CASE Publish
  BY <1>13, CaredPublish
<1>14. CASE Pending
  <2>1. /\ cb.pc = "pending" /\ session'.surfaces = session.surfaces
           /\ session'.seeds = session.seeds
        /\ session'.admitted = session.admitted \/ Needing = {}
        /\ cb.todo = {}
    BY <1>14, PendingCb
  <2>2. UNCHANGED <<needs, told, gui>> /\ cb.surface = 0
    BY <1>14, <2>1 DEF Pending, HandOver
  <2>3. CASE Needing = {}
    BY <2>1, <2>2, <2>3 DEF Needing, NoneForgotten
  <2>4. CASE session'.admitted = session.admitted
    <3>1. \A x \in session'.surfaces : Cared(x) => Cared(x)'
      BY <2>1, <2>2, RegistryTypes DEF Cared
    <3> QED
      BY <2>1, <2>2, <2>4, <3>1, StillCared
  <2> QED
    BY <2>1, <2>3, <2>4
<1>15. CASE Reply
  <2>1. cb.pc = "reply" /\ UNCHANGED <<session, needs, told, gui>>
    BY <1>15 DEF Reply
  <2>2. cb.todo = {} /\ cb.surface = 0
    BY <2>1 DEF InOrder, CallOfStream, HandOver
  <2>3. \A x \in session'.surfaces : Cared(x) => Cared(x)'
    BY <2>1, <2>2, RegistryTypes DEF Cared
  <2> QED
    BY <2>1, <2>3, StillCared
<1>16. CASE UNCHANGED vars
  BY <1>16 DEF vars, NoneForgotten, Cared
<1> QED
  BY <1>2, <1>3, <1>4, <1>5, <1>6, <1>7, <1>8, <1>9, <1>10, <1>11, <1>12, <1>13, <1>14, <1>15, <1>16
     DEF Next, GuiThread, CallbackThread

\* A surface that counts as seeded has a kernel that was given a checkpoint.
Given == \A s \in Surface : ~needs[s] => kernel[s].state # "empty"

\* No step takes the checkpoint of a kernel away or marks a surface without one as seeded.
LEMMA GivenStep ==
  ASSUME TypeOK, Given, [Next]_vars PROVE Given'
<1>1. CASE UNCHANGED <<needs, kernel>>
  BY <1>1 DEF Given
<1>2. ASSUME NEW s \in Surface, MoveViewport(s) PROVE Given'
  <2>1. needs' = needs /\ (kernel' = kernel \/ kernel' = [kernel EXCEPT ![s].state = "failed"]
                           \/ kernel' = [kernel EXCEPT ![s].rev = @ + 1])
    BY <1>2 DEF MoveViewport, Moved
  <2> QED
    BY <2>1 DEF Given, TypeOK, KernelType
<1>3. ASSUME NEW s \in Surface, Apply(s) PROVE Given'
  <2>1. needs' = needs
    BY <1>3 DEF Apply
  <2>2. CASE kernel' = kernel \/ kernel' = [kernel EXCEPT ![s].state = "failed"]
    BY <2>1, <2>2 DEF Given, TypeOK, KernelType
  <2>3. CASE kernel' = [kernel EXCEPT ![s] = Written(@)]
    <3>1. Written(kernel[s]).state = kernel[s].state
      BY DEF Written, TypeOK, KernelType
    <3> QED
      BY <2>1, <2>3, <3>1 DEF Given, TypeOK
  <2> QED
    BY <1>3, <2>2, <2>3 DEF Apply
<1>4. ASSUME NEW s \in Surface, Install(s) PROVE Given'
  <2>1. CASE needs' = [needs EXCEPT ![s] = FALSE] /\ kernel' = [kernel EXCEPT ![s] = Restored(@)]
    <3>1. Restored(kernel[s]).state = "admitted"
      BY DEF Restored
    <3> QED
      BY <2>1, <3>1 DEF Given, TypeOK
  <2> QED
    BY <1>1, <1>4, <2>1, InstallCb
<1>5. CASE \/ Lookup \/ Targets \/ Publish \/ Pending \/ Reply \/ UNCHANGED vars
           \/ \E t \in Sub : DeliverData(t) \/ DeliverResize(t) \/ DeliverCheckpoint(t)
  BY <1>1, <1>5 DEF Lookup, Targets, Publish, Pending, Reply, vars,
     DeliverData, DeliverResize, DeliverCheckpoint
<1>6. CASE \/ RuntimeAccepts \/ RuntimeRejects \/ CancelSurfaceRefresh \/ Rollback \/ PublishMove
           \/ \E t \in Sub : Register(t)
           \/ \E s \in Surface : Detach(s)
  BY <1>1, <1>6 DEF RuntimeAccepts, RuntimeRejects, CancelSurfaceRefresh, Rollback, PublishMove,
     Register, Detach
<1> QED
  BY <1>2, <1>3, <1>4, <1>5, <1>6 DEF Next, GuiThread, CallbackThread

\* NoStranding with what makes it inductive.
NeverForgotten == HandOver /\ NoneForgotten /\ Given

\* Only a surface whose kernel had a checkpoint counts as seeded (installSemanticCheckpoint), and
\* in an admitted session one that waits for its checkpoint is queued for a refresh, a target,
\* told that its kernel rejected the checkpoint, or about to be unregistered
\* (checkpointTargets, pendingCheckpointTargets, registerSurface).
THEOREM NobodyForgotten == Spec => []NoStranding
<1>1. Init => NeverForgotten
  <2> SUFFICES ASSUME Init PROVE NeverForgotten
    OBVIOUS
  <2>1. session.admitted = FALSE /\ cb.pc = "idle" /\ cb.surface = 0
    BY IdleFields, CbBlank DEF Init, NoSession
  <2>2. \A s \in Surface : needs[s]
    BY DEF Init
  <2> QED
    BY <2>1, <2>2 DEF NeverForgotten, HandOver, NoneForgotten, Given
<1>2. TypeOK /\ InOrder /\ Refreshes /\ NeverForgotten /\ [Next]_vars => NeverForgotten'
  BY HandOverStep, CaredStep, GivenStep DEF NeverForgotten
<1>3. TypeOK /\ InOrder /\ NeverForgotten => NoStranding
  <2> SUFFICES ASSUME TypeOK, InOrder, NeverForgotten PROVE NoStranding
    OBVIOUS
  <2>1. \A s \in Seeded : kernel[s].state # "empty"
    BY RegistryTypes DEF NeverForgotten, Given, Seeded
  <2>2. session.admitted => \A s \in Needing : Cared(s)
    BY DEF NeverForgotten, NoneForgotten, Needing
  <2>3. ASSUME NEW s, Cared(s), s \notin {session.seeds[i] : i \in DOMAIN session.seeds}
        PROVE  \/ cb.kind = "checkpoint" /\ s \in cb.todo \cup {cb.surface}
               \/ "ghostty" \in told[s]
               \/ gui.pc = "rollback" /\ gui.surface = s
    BY <2>3 DEF Cared, Queued
  <2> QED
    BY <2>1, <2>2, <2>3 DEF NoStranding
<1> QED
  BY <1>1, <1>2, <1>3, TypeCorrect, InOrderInvariant, RefreshesInvariant, PTL DEF Spec

(***************************************************************************)
(* The newest frame of each surface is delivered or in the hand of a thread.*)
(***************************************************************************)
\* No listener was given, and no thread has in hand, a frame newer than what is displayed.
NotNewer ==
  /\ \A s \in Surface : pub[s] <= kernel[s].rev
  /\ gui.pc = "publish" => gui.surface \in Surface /\ gui.result.rev <= kernel[gui.surface].rev
  /\ cb.pc = "publish" => cb.surface \in Surface /\ cb.result.rev <= kernel[cb.surface].rev

\* The thread has the frame of revision n of surface s in hand.
Brings(thread, s, n) ==
  thread.pc = "publish" /\ thread.surface = s /\ thread.result.ok /\ thread.result.rev = n

\* What is displayed was delivered, or is in the hand of a thread.
LastOnItsWay ==
  \A s \in session.surfaces : kernel[s].state = "admitted" =>
    pub[s] = kernel[s].rev \/ Brings(gui, s, kernel[s].rev) \/ Brings(cb, s, kernel[s].rev)

\* LastFrameDelivered with what makes it inductive.
Newest == NotNewer /\ LastOnItsWay

\* Revisions are naturals.
LEMMA Revisions ==
  ASSUME TypeOK
  PROVE  /\ \A s \in Surface : kernel[s] \in KernelType /\ kernel[s].rev \in Nat /\ pub[s] \in Nat
         /\ kernel \in [Surface -> KernelType] /\ pub \in [Surface -> Nat]
         /\ session.surfaces \subseteq Surface
         /\ gui.result \in ResultType /\ cb.result \in ResultType
BY DEF TypeOK, KernelType, SessionType, GuiType, CbType

\* So is that of a result.
LEMMA ResultRev ==
  ASSUME NEW r \in ResultType
  PROVE  r.rev \in Nat
<1>1. CASE r \in [ok : {TRUE}, rev : Nat, kind : {"none"}]
  BY <1>1
<1>2. CASE r \in [ok : {FALSE}, rev : {0}, kind : FailureKind]
  BY <1>2
<1> QED
  BY <1>1, <1>2 DEF ResultType

\* An operation on the kernel of s that hands on r: what is newly displayed is in r.
KernelStep(s, r) ==
  /\ \A x \in Surface \ {s} : kernel'[x] = kernel[x]
  /\ kernel'[s].rev >= kernel[s].rev /\ r.rev <= kernel'[s].rev
  /\ \/ kernel'[s] = kernel[s]
     \/ kernel'[s].state # "admitted"
     \/ r.ok /\ r.rev = kernel'[s].rev

\* The three outcomes of an operation.
LEMMA Outcomes ==
  ASSUME TypeOK, NEW s \in Surface, NEW r,
         \/ kernel' = kernel /\ r.rev <= kernel[s].rev
         \/ kernel' = [kernel EXCEPT ![s].state = "failed"] /\ r.rev = 0
         \/ /\ r = Frame(kernel[s].rev + 1)
            /\ \E k : k.rev = kernel[s].rev + 1 /\ kernel' = [kernel EXCEPT ![s] = k]
  PROVE  KernelStep(s, r)
<1>1. kernel[s].rev \in Nat /\ kernel \in [Surface -> KernelType] /\ kernel[s] \in KernelType
  BY Revisions
<1>2. CASE kernel' = kernel /\ r.rev <= kernel[s].rev
  BY <1>1, <1>2 DEF KernelStep
<1>3. CASE kernel' = [kernel EXCEPT ![s].state = "failed"] /\ r.rev = 0
  <2>1. kernel'[s].state = "failed" /\ kernel'[s].rev = kernel[s].rev
        /\ \A x \in Surface \ {s} : kernel'[x] = kernel[x]
    BY <1>1, <1>3 DEF KernelType
  <2> QED
    BY <1>1, <1>3, <2>1 DEF KernelStep
<1>4. ASSUME r = Frame(kernel[s].rev + 1), NEW k, k.rev = kernel[s].rev + 1,
             kernel' = [kernel EXCEPT ![s] = k]
      PROVE  KernelStep(s, r)
  <2>1. kernel'[s] = k /\ \A x \in Surface \ {s} : kernel'[x] = kernel[x]
    BY <1>1, <1>4
  <2>2. r.ok = TRUE /\ r.rev = kernel[s].rev + 1
    BY <1>4, ResultKinds
  <2> QED
    BY <1>1, <1>4, <2>1, <2>2 DEF KernelStep
<1> QED
  BY <1>2, <1>3, <1>4

\* A move of the viewport hands on what it displays.
LEMMA MoveHands ==
  ASSUME TypeOK, NEW s \in Surface, MoveViewport(s)
  PROVE  /\ gui.pc = "idle" /\ gui'.pc = "publish" /\ gui'.surface = s
         /\ UNCHANGED <<session, pub, cb>>
         /\ KernelStep(s, gui'.result)
<1>1. kernel[s].rev \in Nat /\ kernel[s] \in KernelType
  BY Revisions
<1>2. ASSUME NEW r, ToPublish(s, r)
      PROVE  gui'.pc = "publish" /\ gui'.surface = s /\ gui'.result = r
  BY <1>2, GuiFields DEF ToPublish
<1>3. PICK r : /\ ToPublish(s, r)
               /\ \/ kernel' = kernel /\ (r = Frame(kernel[s].rev) \/ \E k : r = Failure(k))
                  \/ kernel' = [kernel EXCEPT ![s].state = "failed"] /\ r = Failure("ghostty")
                  \/ r = Frame(kernel[s].rev + 1) /\ kernel' = Moved(s)
  BY DEF MoveViewport
<1>4. [kernel[s] EXCEPT !.rev = @ + 1].rev = kernel[s].rev + 1
      /\ Moved(s) = [kernel EXCEPT ![s] = [kernel[s] EXCEPT !.rev = @ + 1]]
  BY <1>1, Revisions DEF Moved, KernelType
<1>5. KernelStep(s, r)
  <2>1. CASE kernel' = kernel /\ (r = Frame(kernel[s].rev) \/ \E k : r = Failure(k))
    <3>1. r.rev <= kernel[s].rev
      BY <1>1, <2>1, ResultKinds
    <3> QED
      BY <2>1, <3>1, Outcomes
  <2>2. CASE kernel' = [kernel EXCEPT ![s].state = "failed"] /\ r = Failure("ghostty")
    BY <2>2, Outcomes, ResultKinds
  <2>3. CASE r = Frame(kernel[s].rev + 1) /\ kernel' = Moved(s)
    BY <1>4, <2>3, Outcomes
  <2> QED
    BY <1>3, <2>1, <2>2, <2>3
<1> QED
  BY <1>2, <1>3, <1>5 DEF MoveViewport

\* So do applyData and applyResize.
LEMMA ApplyHands ==
  ASSUME TypeOK, NEW s \in Surface, Apply(s)
  PROVE  /\ cb.pc = "apply" /\ cb'.pc = "publish" /\ cb'.surface = s
         /\ UNCHANGED <<session, pub, gui>>
         /\ KernelStep(s, cb'.result)
<1>1. kernel[s].rev \in Nat /\ kernel[s] \in KernelType
  BY Revisions
<1>2. PICK r : /\ Returned(s, r)
               /\ \/ kernel' = kernel /\ \E k : r = Failure(k)
                  \/ kernel' = [kernel EXCEPT ![s].state = "failed"] /\ r = Failure("ghostty")
                  \/ r = Frame(kernel[s].rev + 1) /\ kernel' = [kernel EXCEPT ![s] = Written(@)]
  BY DEF Apply
<1>3. cb'.pc = "publish" /\ cb'.surface = s /\ cb'.result = r
  BY <1>2, ReturnedEffect
<1>4. Written(kernel[s]).rev = kernel[s].rev + 1
  BY <1>1 DEF Written, KernelType
<1>5. KernelStep(s, r)
  <2>1. CASE kernel' = kernel /\ \E k : r = Failure(k)
    <3>1. r.rev <= kernel[s].rev
      BY <1>1, <2>1, ResultKinds
    <3> QED
      BY <2>1, <3>1, Outcomes
  <2>2. CASE kernel' = [kernel EXCEPT ![s].state = "failed"] /\ r = Failure("ghostty")
    BY <2>2, Outcomes, ResultKinds
  <2>3. CASE r = Frame(kernel[s].rev + 1) /\ kernel' = [kernel EXCEPT ![s] = Written(@)]
    <3>1. kernel' = [kernel EXCEPT ![s] = Written(kernel[s])]
      BY <2>3
    <3> QED
      BY <1>4, <2>3, <3>1, Outcomes
  <2> QED
    BY <1>2, <2>1, <2>2, <2>3
<1> QED
  BY <1>3, <1>5 DEF Apply

\* So does installCheckpoint.
LEMMA InstallHands ==
  ASSUME TypeOK, NEW s \in Surface, Install(s)
  PROVE  /\ cb.pc = "install" /\ cb'.pc = "publish" /\ cb'.surface = s
         /\ UNCHANGED <<session, pub, gui>>
         /\ KernelStep(s, cb'.result)
<1>1. kernel[s].rev \in Nat
  BY Revisions
<1>2. /\ cb.pc = "install" /\ cb'.pc = "publish" /\ cb'.surface = s
         /\ UNCHANGED <<session, pub, gui>>
      /\ \/ /\ kernel' = [kernel EXCEPT ![s] = Restored(@)] /\ cb'.result = Frame(kernel[s].rev + 1)
         \/ kernel' = kernel /\ cb'.result = Failure("ghostty")
  BY InstallCb
<1>3. Restored(kernel[s]).rev = kernel[s].rev + 1
  BY DEF Restored
<1>4. CASE kernel' = [kernel EXCEPT ![s] = Restored(@)] /\ cb'.result = Frame(kernel[s].rev + 1)
  <2>1. kernel' = [kernel EXCEPT ![s] = Restored(kernel[s])]
    BY <1>4
  <2> QED
    BY <1>2, <1>3, <1>4, <2>1, Outcomes
<1>5. CASE kernel' = kernel /\ cb'.result = Failure("ghostty")
  <2>1. cb'.result.rev <= kernel[s].rev
    BY <1>1, <1>5, ResultKinds
  <2> QED
    BY <1>2, <1>5, <2>1, Outcomes
<1> QED
  BY <1>2, <1>4, <1>5

\* An operation of a thread that had nothing in hand.
LEMMA HandsOn ==
  ASSUME TypeOK, TypeOK', Newest, NEW s \in Surface, UNCHANGED <<session, pub>>,
         NEW r, KernelStep(s, r),
         \/ gui.pc # "publish" /\ gui'.pc = "publish" /\ gui'.surface = s /\ gui'.result = r
            /\ cb' = cb
         \/ cb.pc # "publish" /\ cb'.pc = "publish" /\ cb'.surface = s /\ cb'.result = r
            /\ gui' = gui
  PROVE  Newest'
<1>1. \A x \in Surface : pub[x] \in Nat /\ kernel[x].rev \in Nat /\ kernel'[x].rev \in Nat
  BY Revisions DEF TypeOK, KernelType
<1>2. \A x \in Surface : kernel'[x].rev >= kernel[x].rev
  BY <1>1 DEF KernelStep
<1>3. session.surfaces \subseteq Surface /\ gui.result.rev \in Nat /\ cb.result.rev \in Nat
  BY Revisions, ResultRev
<1>4. r.rev <= kernel'[s].rev
  BY DEF KernelStep
<1>5. \A x \in Surface : pub'[x] <= kernel'[x].rev
  BY <1>1, <1>2 DEF Newest, NotNewer
<1>6. gui'.pc = "publish" => gui'.surface \in Surface
      /\ gui'.result.rev <= kernel'[gui'.surface].rev
  <2>1. CASE gui' = gui
    BY <1>1, <1>2, <1>3, <2>1 DEF Newest, NotNewer
  <2>2. CASE gui' # gui
    BY <1>4, <2>2
  <2> QED
    BY <2>1, <2>2
<1>7. cb'.pc = "publish" => cb'.surface \in Surface /\ cb'.result.rev <= kernel'[cb'.surface].rev
  <2>1. CASE cb' = cb
    BY <1>1, <1>2, <1>3, <2>1 DEF Newest, NotNewer
  <2>2. CASE cb' # cb
    BY <1>4, <2>2
  <2> QED
    BY <2>1, <2>2
<1>8. NotNewer'
  BY <1>5, <1>6, <1>7 DEF NotNewer
<1>9. ASSUME NEW x \in session'.surfaces, kernel'[x].state = "admitted"
      PROVE  pub'[x] = kernel'[x].rev \/ Brings(gui', x, kernel'[x].rev) \/ Brings(cb', x, kernel'[x].rev)
  <2>1. CASE kernel'[x] = kernel[x]
    <3>1. pub[x] = kernel[x].rev \/ Brings(gui, x, kernel[x].rev) \/ Brings(cb, x, kernel[x].rev)
      BY <1>9, <2>1 DEF Newest, LastOnItsWay
    <3> QED
      BY <2>1, <3>1 DEF Brings
  <2>2. CASE kernel'[x] # kernel[x]
    <3>1. x = s /\ r.ok /\ r.rev = kernel'[s].rev
      BY <1>3, <1>9, <2>2 DEF KernelStep
    <3> QED
      BY <3>1 DEF Brings
  <2> QED
    BY <2>1, <2>2
<1>10. LastOnItsWay'
  BY <1>9 DEF LastOnItsWay, Brings
<1> QED
  BY <1>8, <1>10 DEF Newest

\* What a publication leaves with the listeners.
LEMMA PublishedRev ==
  ASSUME TypeOK, NEW s \in Surface, NEW r \in ResultType, PublishFrame(s, r),
         pub[s] <= kernel[s].rev, r.rev <= kernel[s].rev
  PROVE  /\ \A x \in Surface \ {s} : pub'[x] = pub[x]
         /\ pub'[s] <= kernel[s].rev
         /\ pub[s] = kernel[s].rev => pub'[s] = kernel[s].rev
         /\ active[s] /\ r.ok /\ r.rev = kernel[s].rev => pub'[s] = kernel[s].rev
<1>1. pub \in [Surface -> Nat] /\ pub[s] \in Nat /\ kernel[s].rev \in Nat /\ r.rev \in Nat
  BY Revisions, ResultRev
<1>2. CASE pub' = pub /\ ~(active[s] /\ r.ok /\ Newer(s, r))
  BY <1>1, <1>2 DEF Newer
<1>3. CASE pub' = [pub EXCEPT ![s] = r.rev] /\ Newer(s, r)
  BY <1>1, <1>3 DEF Newer
<1> QED
  BY <1>2, <1>3 DEF PublishFrame

\* publishFrame delivers the newest frame, and drops an older one although it comes later,
\* whichever thread has it.
LEMMA NewestPublish ==
  ASSUME TypeOK, InOrder, Newest, UNCHANGED <<session, kernel>>,
         \/ /\ gui.pc = "publish" /\ PublishFrame(gui.surface, gui.result)
               /\ gui'.pc # "publish" /\ cb' = cb
         \/ /\ cb.pc = "publish" /\ PublishFrame(cb.surface, cb.result) /\ cb'.pc # "publish"
               /\ gui' = gui
  PROVE  Newest'
<1>1. session.surfaces \subseteq Surface /\ gui.result \in ResultType /\ cb.result \in ResultType
  BY Revisions
<1>2. \A x \in session.surfaces : active[x]
  BY <1>1 DEF InOrder, EntriesMatch
<1>3. ASSUME NEW thread, thread.result \in ResultType, thread.surface \in Surface,
             thread.result.rev <= kernel[thread.surface].rev,
             PublishFrame(thread.surface, thread.result)
      PROVE  /\ \A x \in Surface : pub'[x] <= kernel[x].rev
             /\ \A x \in session.surfaces : pub[x] = kernel[x].rev \/ (thread.surface = x
                /\ thread.result.ok /\ thread.result.rev = kernel[x].rev)
                  => pub'[x] = kernel[x].rev
  <2>1. pub[thread.surface] <= kernel[thread.surface].rev
    BY <1>3 DEF Newest, NotNewer
  <2>2. /\ \A x \in Surface \ {thread.surface} : pub'[x] = pub[x]
        /\ pub'[thread.surface] <= kernel[thread.surface].rev
        /\ pub[thread.surface] = kernel[thread.surface].rev => pub'[thread.surface] = kernel[thread.surface].rev
        /\ active[thread.surface] /\ thread.result.ok
           /\ thread.result.rev = kernel[thread.surface].rev
             => pub'[thread.surface] = kernel[thread.surface].rev
    BY <1>3, <2>1, PublishedRev
  <2>3. ASSUME NEW x \in Surface PROVE pub'[x] <= kernel[x].rev
    BY <2>2 DEF Newest, NotNewer
  <2>4. ASSUME NEW x \in session.surfaces,
               pub[x] = kernel[x].rev \/ (thread.surface = x /\ thread.result.ok
               /\ thread.result.rev = kernel[x].rev)
        PROVE  pub'[x] = kernel[x].rev
    BY <1>1, <1>2, <2>2, <2>4
  <2> QED
    BY <2>3, <2>4
<1>4. CASE gui.pc = "publish" /\ PublishFrame(gui.surface, gui.result) /\ gui'.pc # "publish"
           /\ cb' = cb
  <2>1. gui.surface \in Surface /\ gui.result.rev <= kernel[gui.surface].rev
    BY <1>4 DEF Newest, NotNewer
  <2>2. /\ \A x \in Surface : pub'[x] <= kernel[x].rev
        /\ \A x \in session.surfaces : pub[x] = kernel[x].rev \/ (gui.surface = x
           /\ gui.result.ok /\ gui.result.rev = kernel[x].rev)
             => pub'[x] = kernel[x].rev
    BY <1>1, <1>3, <1>4, <2>1
  <2>3. NotNewer'
    BY <1>4, <2>2 DEF Newest, NotNewer
  <2>4. LastOnItsWay'
    BY <1>4, <2>2 DEF Newest, LastOnItsWay, Brings
  <2> QED
    BY <2>3, <2>4 DEF Newest
<1>5. CASE cb.pc = "publish" /\ PublishFrame(cb.surface, cb.result) /\ cb'.pc # "publish"
           /\ gui' = gui
  <2>1. cb.surface \in Surface /\ cb.result.rev <= kernel[cb.surface].rev
    BY <1>5 DEF Newest, NotNewer
  <2>2. /\ \A x \in Surface : pub'[x] <= kernel[x].rev
        /\ \A x \in session.surfaces : pub[x] = kernel[x].rev \/ (cb.surface = x
           /\ cb.result.ok /\ cb.result.rev = kernel[x].rev)
             => pub'[x] = kernel[x].rev
    BY <1>1, <1>3, <1>5, <2>1
  <2>3. NotNewer'
    BY <1>5, <2>2 DEF Newest, NotNewer
  <2>4. LastOnItsWay'
    BY <1>5, <2>2 DEF Newest, LastOnItsWay, Brings
  <2> QED
    BY <2>3, <2>4 DEF Newest
<1> QED
  BY <1>4, <1>5

\* Steps that neither change what is displayed nor publish it.
LEMMA NewestQuiet ==
  ASSUME TypeOK, InOrder, Newest, UNCHANGED <<kernel, pub>>,
         \A s \in session'.surfaces : s \in session.surfaces \/ kernel[s].state # "admitted",
         gui' = gui \/ (gui.pc # "publish" /\ gui'.pc # "publish"),
         cb' = cb \/ (cb.pc # "publish" /\ cb'.pc # "publish")
  PROVE  Newest'
<1>1. NotNewer'
  BY DEF Newest, NotNewer
<1>2. LastOnItsWay'
  BY DEF Newest, LastOnItsWay, Brings
<1> QED
  BY <1>1, <1>2 DEF Newest

\* Every step of either thread keeps the newest frame delivered or on its way.
LEMMA NewestStep ==
  ASSUME TypeOK, TypeOK', InOrder, Refreshes, Newest, [Next]_vars
  PROVE  Newest'
<1>1. ASSUME NEW t \in Sub, Register(t) PROVE Newest'
  <2> DEFINE n == nextSurface + 1
  <2>1. /\ gui.pc = "idle" /\ UNCHANGED <<kernel, pub, cb>> /\ n \in Surface
        /\ session'.surfaces \subseteq session.surfaces \cup {n}
        /\ gui' = gui \/ gui'.pc # "publish"
    BY <1>1, RegisterQueue, RegisterEffect DEF InOrder
  <2>2. kernel[n].state # "admitted"
    BY <2>1 DEF TypeOK, InOrder, FreshUnused, KernelOfEntry
  <2> HIDE DEF n
  <2> QED
    BY <2>1, <2>2, NewestQuiet
<1>2. CASE RuntimeAccepts \/ RuntimeRejects
  <2>1. session' = session /\ UNCHANGED <<kernel, pub, cb>> /\ gui.pc # "publish"
        /\ gui'.pc # "publish"
    BY <1>2, IdleFields DEF RuntimeAccepts, RuntimeRejects, TypeOK, GuiType
  <2> QED
    BY <2>1, NewestQuiet
<1>3. CASE CancelSurfaceRefresh
  <2>1. session'.surfaces = session.surfaces /\ UNCHANGED <<kernel, pub, cb>>
        /\ gui.pc # "publish" /\ gui'.pc # "publish"
    BY <1>3, CancelQueue
  <2> QED
    BY <2>1, NewestQuiet
<1>4. ASSUME NEW s, Unregister(s), UNCHANGED <<kernel, pub, cb>>,
             gui.pc # "publish", gui'.pc # "publish"
      PROVE  Newest'
  <2>1. session'.surfaces \subseteq session.surfaces
    BY <1>4, UnregisterEffect DEF InOrder
  <2> QED
    BY <1>4, <2>1, NewestQuiet
<1>5. CASE Rollback \/ \E s \in Surface : Detach(s)
  BY <1>4, <1>5, IdleFields DEF Rollback, Detach
<1>6. ASSUME NEW s \in Surface, MoveViewport(s) PROVE Newest'
  <2>1. /\ gui.pc # "publish" /\ gui'.pc = "publish" /\ gui'.surface = s /\ cb' = cb
        /\ UNCHANGED <<session, pub>> /\ KernelStep(s, gui'.result)
    BY <1>6, MoveHands
  <2> QED
    BY <2>1, HandsOn
<1>7. CASE PublishMove
  <2>1. /\ gui.pc = "publish" /\ PublishFrame(gui.surface, gui.result) /\ gui'.pc # "publish"
           /\ cb' = cb
        /\ UNCHANGED <<session, kernel>>
    BY <1>7, IdleFields DEF PublishMove
  <2> QED
    BY <2>1, NewestPublish
<1>8. ASSUME NEW t \in Sub, DeliverData(t) \/ DeliverResize(t) \/ DeliverCheckpoint(t) PROVE Newest'
  <2>1. UNCHANGED <<session, kernel, pub, gui>> /\ cb.pc # "publish" /\ cb'.pc # "publish"
    BY <1>8, CallFields DEF DeliverData, DeliverResize, DeliverCheckpoint
  <2> QED
    BY <2>1, NewestQuiet
<1>9. CASE Lookup
  <2>1. UNCHANGED <<session, kernel, pub, gui>> /\ cb.pc # "publish" /\ cb'.pc # "publish"
    BY <1>9, LookupEffect
  <2> QED
    BY <2>1, NewestQuiet
<1>10. CASE Targets
  <2>1. session'.surfaces = session.surfaces /\ UNCHANGED <<kernel, pub, gui>>
        /\ cb.pc # "publish" /\ cb'.pc # "publish"
    BY <1>10, TargetsEffect
  <2> QED
    BY <2>1, NewestQuiet
<1>11. CASE Pending
  <2>1. session'.surfaces = session.surfaces /\ UNCHANGED <<kernel, pub, gui>>
        /\ cb.pc # "publish" /\ cb'.pc # "publish"
    BY <1>11, PendingEffect
  <2> QED
    BY <2>1, NewestQuiet
<1>12. CASE Publish
  <2>1. /\ cb.pc = "publish" /\ PublishFrame(cb.surface, cb.result) /\ cb'.pc # "publish"
           /\ gui' = gui
        /\ UNCHANGED <<session, kernel>>
    BY <1>12, PublishCb DEF Publish
  <2> QED
    BY <2>1, NewestPublish
<1>13. CASE Reply
  <2>1. UNCHANGED <<session, kernel, pub, gui>> /\ cb.pc # "publish" /\ cb'.pc # "publish"
    BY <1>13, IdleFields DEF Reply
  <2> QED
    BY <2>1, NewestQuiet
<1>14. ASSUME NEW s \in Surface, Apply(s) \/ Install(s) PROVE Newest'
  <2>1. /\ cb.pc # "publish" /\ cb'.pc = "publish" /\ cb'.surface = s /\ gui' = gui
        /\ UNCHANGED <<session, pub>> /\ KernelStep(s, cb'.result)
    BY <1>14, ApplyHands, InstallHands
  <2> QED
    BY <2>1, HandsOn
<1>15. CASE UNCHANGED vars
  <2>1. UNCHANGED <<session, kernel, pub, gui, cb>>
    BY <1>15 DEF vars
  <2> QED
    BY <2>1, NewestQuiet
<1> QED
  BY <1>1, <1>2, <1>3, <1>5, <1>6, <1>7, <1>8, <1>9, <1>10, <1>11, <1>12, <1>13, <1>14, <1>15
     DEF Next, GuiThread, CallbackThread

\* Whatever order the two threads publish in, the last frame a view was given is what its
\* kernel shows once no call is in progress (publishFrame).
THEOREM NewestDelivered == Spec => []LastFrameDelivered
<1>1. Init => Newest
  <2> SUFFICES ASSUME Init PROVE Newest
    OBVIOUS
  <2>1. /\ \A s \in Surface : pub[s] = 0 /\ kernel[s].rev = 0
        /\ gui.pc = "idle" /\ cb.pc = "idle" /\ session.surfaces = {}
    BY IdleFields DEF Init, NoSession
  <2> QED
    BY <2>1 DEF Newest, NotNewer, LastOnItsWay
<1>2. TypeOK /\ TypeOK' /\ InOrder /\ Refreshes /\ Newest /\ [Next]_vars => Newest'
  BY NewestStep
<1>3. Newest => LastFrameDelivered
  BY DEF Newest, LastOnItsWay, LastFrameDelivered, Brings
<1> QED
  BY <1>1, <1>2, <1>3, TypeCorrect, InOrderInvariant, RefreshesInvariant, PTL DEF Spec
=============================================================================
