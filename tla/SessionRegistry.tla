---------------------------- MODULE SessionRegistry ----------------------------
(***************************************************************************)
(* The terminal session registry (src/terminal/TerminalSessionRegistry.cpp)*)
(* and the admission state of the kernels it feeds                         *)
(* (src/terminal/GhosttyTerminalKernel.cpp), for one key of the session    *)
(* map: every operation of the registry looks up exactly one key, so the   *)
(* keys do not interact.                                                   *)
(*                                                                         *)
(* Two threads run through the registry.                                   *)
(*   - The GUI thread registers and unregisters surfaces, asks the runtime *)
(*     for a connection or a refresh, and moves the viewport of a kernel.  *)
(*   - The callback thread delivers data, resizes and semantic checkpoints.*)
(*     RuntimeBridge holds one mutex around every callback, so the         *)
(*     callbacks are one thread, whatever thread of the runtime runs them. *)
(* A step of a thread is what it does under one lock: the registry's mutex *)
(* (Lookup, Targets, Pending, Register, Unregister), a kernel's mutex      *)
(* (Apply, Install, MoveViewport), or an entry's listener mutex (Publish). *)
(* An entry is held by a shared_ptr: a callback that has copied it goes on *)
(* using it after the GUI thread has unregistered it.                      *)
(*                                                                         *)
(* The runtime is external: link[t] is the stream of subscription t, as    *)
(* the bridge drives it.  It delivers data and resizes in sequence, and    *)
(* one checkpoint for the connection and for each refresh it accepted, at  *)
(* the sequence position the stream has reached.                           *)
(***************************************************************************)
EXTENDS Naturals, Sequences, FiniteSets

CONSTANTS
  SurfaceLimit,  \* bound: surface generations the controller hands out
  SubLimit,      \* bound: subscription generations the controller hands out
  SequenceLimit, \* bound: data frames a stream delivers
  RevisionLimit, \* bound: display revisions spent on moves and resizes
  MaxSurfaces,   \* Impl::maximumSurfacesPerSession (8)
  MaxSeeds,      \* Impl::maximumSeedRefreshCorrelations (64)
  Faults         \* whether a kernel may reject a checkpoint or a write

ASSUME ConstantsAssumption ==
  /\ {SurfaceLimit, SubLimit, SequenceLimit, RevisionLimit} \subseteq Nat
  /\ {MaxSurfaces, MaxSeeds} \subseteq Nat \ {0}
  /\ Faults \in BOOLEAN

Surface == 1 .. SurfaceLimit
Sub     == 1 .. SubLimit

VARIABLES
  nextSurface, \* surface generations handed out
  nextSub,     \* subscription generations handed out
  session,     \* the SessionEntry of the key; sub = 0 when the map has none
  sub,         \* Entry::identity.subscription, 0 for an unused generation
  active,      \* Entry::active
  needs,       \* Entry::needsCheckpoint
  pub,         \* Entry::lastPublishedDisplayRevision
  kernel,      \* admitted / failed, subscription, nextSequence, displayRevision
  told,        \* kinds of failure the listener of a surface was given
  gui,         \* control state of the GUI thread
  cb,          \* control state of the callback thread
  link         \* external: the runtime's stream of each subscription

registryVars == <<session, sub, active, needs>>
vars == <<nextSurface, nextSub, session, sub, active, needs, pub, kernel,
          told, gui, cb, link>>

(***************************************************************************)
(* Values.                                                                 *)
(***************************************************************************)
NoSession == [sub |-> 0, surfaces |-> {}, seeds |-> <<>>, admitted |-> FALSE]

FailureKind == {"ghostty", "missing", "stale", "gap"}

\* What a kernel operation returns: a frame, or the failure it reports.
Frame(r)      == [ok |-> TRUE,  rev |-> r, kind |-> "none"]
Failure(k)    == [ok |-> FALSE, rev |-> 0, kind |-> k]
ResultType    == [ok : {TRUE}, rev : Nat, kind : {"none"}]
                   \cup [ok : {FALSE}, rev : {0}, kind : FailureKind]
NoResult      == Frame(0)

GuiType == [pc : {"idle", "connect", "refresh", "cancel", "rollback", "publish"},
            surface : 0 .. SurfaceLimit, sub : 0 .. SubLimit, result : ResultType]

GuiAt(pc, s, t, result) == [pc |-> pc, surface |-> s, sub |-> t, result |-> result]
GuiIdle == GuiAt("idle", 0, 0, NoResult)

CbType == [pc : {"idle", "lookup", "apply", "targets", "install", "publish",
                 "pending", "reply"},
           kind : {"none", "data", "resize", "checkpoint"},
           sub : 0 .. SubLimit, seq : Nat, todo : SUBSET Surface,
           surface : 0 .. SurfaceLimit, result : ResultType,
           seedOnly : BOOLEAN, accepted : BOOLEAN, current : BOOLEAN]

\* A delivery of subscription t, at sequence n, that has taken no entry yet.
Call(pc, kind, t, n) ==
  [pc |-> pc, kind |-> kind, sub |-> t, seq |-> n, todo |-> {}, surface |-> 0,
   result |-> NoResult, seedOnly |-> FALSE, accepted |-> TRUE, current |-> FALSE]
CbIdle == Call("idle", "none", 0, 0)

SessionType == [sub : 0 .. SubLimit, surfaces : SUBSET Surface,
                seeds : Seq(Surface), admitted : BOOLEAN]
KernelType  == [state : {"empty", "admitted", "failed"}, sub : 0 .. SubLimit,
                next : Nat, rev : Nat]
LinkType    == [open : BOOLEAN, seq : Nat, owed : Nat]

TypeOK ==
  /\ nextSurface \in 0 .. SurfaceLimit
  /\ nextSub \in 0 .. SubLimit
  /\ session \in SessionType
  /\ Cardinality(session.surfaces) <= MaxSurfaces
  /\ Len(session.seeds) <= MaxSeeds
  /\ sub \in [Surface -> 0 .. SubLimit]
  /\ active \in [Surface -> BOOLEAN]
  /\ needs \in [Surface -> BOOLEAN]
  /\ pub \in [Surface -> Nat]
  /\ kernel \in [Surface -> KernelType]
  /\ told \in [Surface -> SUBSET FailureKind]
  /\ gui \in GuiType
  /\ cb \in CbType
  /\ link \in [Sub -> LinkType]

Init ==
  /\ nextSurface = 0
  /\ nextSub = 0
  /\ session = NoSession
  /\ sub    = [s \in Surface |-> 0]
  /\ active = [s \in Surface |-> FALSE]
  /\ needs  = [s \in Surface |-> TRUE]
  /\ pub    = [s \in Surface |-> 0]
  /\ kernel = [s \in Surface |-> [state |-> "empty", sub |-> 0, next |-> 0, rev |-> 0]]
  /\ told   = [s \in Surface |-> {}]
  /\ gui    = GuiIdle
  /\ cb     = CbIdle
  /\ link   = [t \in Sub |-> [open |-> FALSE, seq |-> 1, owed |-> 0]]

(***************************************************************************)
(* publishFrame, under the entry's listener mutex: a deactivated entry     *)
(* gets nothing; a frame no newer than the last one delivered is dropped;  *)
(* a failure goes to the listener as it is.                                *)
(***************************************************************************)
AlwaysNewer(s, result) == TRUE  \* mutant: no revision check
Newer(s, result) == result.rev > pub[s]

PublishFrame(s, result) ==
  /\ pub'  = IF active[s] /\ result.ok /\ Newer(s, result)
             THEN [pub EXCEPT ![s] = result.rev] ELSE pub
  /\ told' = IF active[s] /\ ~result.ok
             THEN [told EXCEPT ![s] = @ \cup {result.kind}] ELSE told

\* std::erase of one surface generation: a generation is queued only once.
Erase(seeds, s) ==
  LET at == {i \in DOMAIN seeds : seeds[i] = s}
      k  == CHOOSE i \in at : TRUE
  IN IF at = {} THEN seeds
     ELSE [i \in 1 .. Len(seeds) - 1 |-> IF i < k THEN seeds[i] ELSE seeds[i + 1]]

(***************************************************************************)
(* GUI thread: TerminalView::attach.                                       *)
(***************************************************************************)
\* The subscription an attachment asks for: the one another attached surface
\* holds, or a fresh generation (TerminalSurfaceController::tryAttach).
Offered(t) ==
  \/ t = session.sub /\ t # 0 /\ UNCHANGED nextSub
  \/ t = nextSub + 1 /\ t \in Sub /\ nextSub' = t

\* Mutant of Admissible: one surface too many.
AdmissibleOneMore(t) ==
  /\ session.sub = t
  /\ Cardinality(session.surfaces) <= MaxSurfaces
  /\ session.admitted => Len(session.seeds) < MaxSeeds

\* registerSurface, when the session already has an entry.
Admissible(t) ==
  /\ session.sub = t
  /\ Cardinality(session.surfaces) < MaxSurfaces
  /\ session.admitted => Len(session.seeds) < MaxSeeds

NeverRefreshes == FALSE  \* mutant: a late surface asks for nothing
RequiresRefresh == session.admitted

NewEntry(s, t) ==
  /\ sub'    = [sub EXCEPT ![s] = t]
  /\ active' = [active EXCEPT ![s] = TRUE]

Register(t) ==
  LET s == nextSurface + 1 IN
  /\ gui.pc = "idle"
  /\ s \in Surface
  /\ Offered(t)
  /\ nextSurface' = s
  /\ \/ /\ session.sub = 0
        /\ session' = [sub |-> t, surfaces |-> {s}, seeds |-> <<>>, admitted |-> FALSE]
        /\ NewEntry(s, t)
        /\ gui' = GuiAt("connect", s, t, NoResult)
     \/ /\ session.sub # 0
        /\ Admissible(t)
        /\ session' = [session EXCEPT
                         !.surfaces = @ \cup {s},
                         !.seeds = IF RequiresRefresh THEN Append(@, s) ELSE @]
        /\ NewEntry(s, t)
        /\ gui' = IF RequiresRefresh THEN GuiAt("refresh", s, t, NoResult) ELSE GuiIdle
     \/ /\ session.sub # 0
        /\ ~Admissible(t)
        /\ UNCHANGED <<session, sub, active, gui>>
  /\ UNCHANGED <<needs, pub, kernel, told, cb, link>>

\* connectTerminal or refreshTerminal accepted: the runtime owes a checkpoint.
RuntimeAccepts ==
  /\ gui.pc \in {"connect", "refresh"}
  /\ link' = [link EXCEPT ![gui.sub].owed = @ + 1, ![gui.sub].open = TRUE]
  /\ gui' = GuiIdle
  /\ UNCHANGED <<nextSurface, nextSub, session, sub, active, needs, pub, kernel, told, cb>>

RuntimeRejects ==
  /\ gui.pc \in {"connect", "refresh"}
  /\ gui' = [gui EXCEPT !.pc = IF gui.pc = "refresh" THEN "cancel" ELSE "rollback"]
  /\ UNCHANGED <<nextSurface, nextSub, session, sub, active, needs, pub, kernel, told, cb, link>>

CancelSurfaceRefresh ==
  /\ gui.pc = "cancel"
  /\ session' = IF session.sub = gui.sub
                THEN [session EXCEPT !.seeds = Erase(@, gui.surface)] ELSE session
  /\ gui' = [gui EXCEPT !.pc = "rollback"]
  /\ UNCHANGED <<nextSurface, nextSub, sub, active, needs, pub, kernel, told, cb, link>>

(***************************************************************************)
(* unregisterSurface, all under the registry's mutex: the queued refresh   *)
(* is forgotten, the entry is deactivated (under its listener mutex too),  *)
(* and the last surface takes the session entry with it.                   *)
(***************************************************************************)
StillActive(s) == active  \* mutant: the entry is not deactivated
Deactivated(s) == [active EXCEPT ![s] = FALSE]

Unregister(s) ==
  /\ session' = IF session.surfaces = {s} THEN NoSession
                ELSE [session EXCEPT !.surfaces = @ \ {s}, !.seeds = Erase(@, s)]
  /\ active' = Deactivated(s)

\* attach failed after the registration: unregister, nothing to disconnect.
Rollback ==
  /\ gui.pc = "rollback"
  /\ Unregister(gui.surface)
  /\ gui' = GuiIdle
  /\ UNCHANGED <<nextSurface, nextSub, sub, needs, pub, kernel, told, cb, link>>

\* TerminalView::detach.  When the last surface went, it also asks the runtime
\* to disconnect; deliveries already on their way may still come.
Detach(s) ==
  /\ gui.pc = "idle"
  /\ s \in session.surfaces
  /\ Unregister(s)
  /\ UNCHANGED <<nextSurface, nextSub, sub, needs, pub, kernel, told, gui, cb, link>>

(***************************************************************************)
(* GUI thread: an operation on the kernel of a surface that changes what   *)
(* is displayed (scrollViewport, scrollViewportToBottom, the selection     *)
(* operations, configure), then publishFrame with what it returned.        *)
(***************************************************************************)
Moved(s) == [kernel EXCEPT ![s].rev = @ + 1]

ToPublish(s, result) == gui' = GuiAt("publish", s, 0, result)

MoveViewport(s) ==
  /\ gui.pc = "idle"
  /\ s \in session.surfaces
  /\ \/ /\ kernel[s].state # "admitted"
        /\ ToPublish(s, Failure("missing"))
        /\ UNCHANGED kernel
     \/ /\ kernel[s].state = "admitted" /\ kernel[s].sub # sub[s]
        /\ ToPublish(s, Failure("stale"))
        /\ UNCHANGED kernel
     \/ /\ kernel[s].state = "admitted" /\ kernel[s].sub = sub[s]
        /\ \/ /\ ToPublish(s, Frame(kernel[s].rev))      \* nothing to move
              /\ UNCHANGED kernel
           \/ /\ kernel[s].rev < RevisionLimit
              /\ ToPublish(s, Frame(kernel[s].rev + 1))
              /\ kernel' = Moved(s)
           \/ /\ Faults
              /\ ToPublish(s, Failure("ghostty"))
              /\ kernel' \in {kernel, [kernel EXCEPT ![s].state = "failed"]}
  /\ UNCHANGED <<nextSurface, nextSub, session, sub, active, needs, pub, told, cb, link>>

PublishMove ==
  /\ gui.pc = "publish"
  /\ PublishFrame(gui.surface, gui.result)
  /\ gui' = GuiIdle
  /\ UNCHANGED <<nextSurface, nextSub, session, sub, active, needs, kernel, cb, link>>

(***************************************************************************)
(* Callback thread.  A delivery starts when the runtime calls the bridge.  *)
(***************************************************************************)
DeliverData(t) ==
  /\ cb.pc = "idle"
  /\ link[t].open
  /\ link[t].seq <= SequenceLimit
  /\ cb' = Call("lookup", "data", t, link[t].seq)
  /\ link' = [link EXCEPT ![t].seq = @ + 1]
  /\ UNCHANGED <<nextSurface, nextSub, session, sub, active, needs, pub, kernel, told, gui>>

DeliverResize(t) ==
  /\ cb.pc = "idle"
  /\ link[t].open
  /\ \A s \in Surface : kernel[s].rev < RevisionLimit
  /\ cb' = Call("lookup", "resize", t, link[t].seq)
  /\ UNCHANGED <<nextSurface, nextSub, session, sub, active, needs, pub, kernel, told, gui, link>>

DeliverCheckpoint(t) ==
  /\ cb.pc = "idle"
  /\ link[t].owed > 0
  /\ cb' = Call("targets", "checkpoint", t, link[t].seq)
  /\ link' = [link EXCEPT ![t].owed = @ - 1]
  /\ UNCHANGED <<nextSurface, nextSub, session, sub, active, needs, pub, kernel, told, gui>>

AnyCurrent == TRUE  \* mutant: the subscription is not compared

\* The session entry of the delivery's subscription is the one in the map.
Current == session.sub = cb.sub

\* Impl::exact copies the entries; the loop skips those without a checkpoint.
\* needs is written by this thread only, so it may be read with the copy.
Seeded == {s \in session.surfaces : ~needs[s]}
Needing == {s \in session.surfaces : needs[s]}

Lookup ==
  /\ cb.pc = "lookup"
  /\ cb' = IF Current /\ Seeded # {}
           THEN [cb EXCEPT !.pc = "apply", !.todo = Seeded] ELSE CbIdle
  /\ UNCHANGED <<nextSurface, nextSub, session, sub, active, needs, pub, kernel, told, gui, link>>

\* Mutant of Written: a resize takes a sequence too.
WrittenAlways(k) == [k EXCEPT !.next = @ + 1, !.rev = @ + 1]

\* A write of data takes the next sequence; a resize only redraws.
Written(k) == [k EXCEPT !.next = IF cb.kind = "data" THEN @ + 1 ELSE @, !.rev = @ + 1]

Returned(s, result) ==
  cb' = [cb EXCEPT !.pc = "publish", !.todo = @ \ {s}, !.surface = s, !.result = result]

\* applyData and applyResize, under the kernel's mutex.
Apply(s) ==
  /\ cb.pc = "apply"
  /\ s \in cb.todo
  /\ \/ /\ kernel[s].state # "admitted"
        /\ Returned(s, Failure("missing"))
        /\ UNCHANGED kernel
     \/ /\ kernel[s].state = "admitted" /\ kernel[s].sub # cb.sub
        /\ Returned(s, Failure("stale"))
        /\ UNCHANGED kernel
     \/ /\ kernel[s].state = "admitted" /\ kernel[s].sub = cb.sub /\ kernel[s].next # cb.seq
        /\ Returned(s, Failure("gap"))
        /\ UNCHANGED kernel
     \/ /\ kernel[s].state = "admitted" /\ kernel[s].sub = cb.sub /\ kernel[s].next = cb.seq
        /\ \/ /\ Returned(s, Frame(kernel[s].rev + 1))
              /\ kernel' = [kernel EXCEPT ![s] = Written(@)]
           \/ /\ Faults
              /\ Returned(s, Failure("ghostty"))
              /\ \/ kernel' = [kernel EXCEPT ![s].state = "failed"]
                 \/ cb.kind = "resize" /\ UNCHANGED kernel
  /\ UNCHANGED <<nextSurface, nextSub, session, sub, active, needs, pub, told, gui, link>>

(***************************************************************************)
(* installSemanticCheckpoint.                                              *)
(***************************************************************************)
\* The position of the first queued refresh whose surface still waits.
FirstWanted ==
  {i \in DOMAIN session.seeds :
     /\ session.seeds[i] \in Needing
     /\ \A j \in 1 .. i - 1 : session.seeds[j] \notin Needing}

\* Mutant of Behind: the answered refresh stays queued.
BehindFrom(i) == SubSeq(session.seeds, i, Len(session.seeds))

\* The queue once the refreshes up to i have been taken off.
Behind(i) == SubSeq(session.seeds, i + 1, Len(session.seeds))

Answer(accepted, current) ==
  [cb EXCEPT !.pc = "reply", !.accepted = accepted, !.current = current]

StartInstall(targets, seedOnly) ==
  cb' = IF targets = {} THEN Answer(TRUE, TRUE)
        ELSE [cb EXCEPT !.pc = "install", !.todo = targets, !.seedOnly = seedOnly]

\* checkpointTargets: a queued refresh is answered alone; with none queued the
\* checkpoint is for every surface that waits.
Targets ==
  /\ cb.pc = "targets"
  /\ \/ /\ ~Current
        /\ cb' = Answer(FALSE, FALSE)
        /\ UNCHANGED session
     \/ /\ Current /\ session.seeds = <<>>
        /\ StartInstall(Needing, FALSE)
        /\ UNCHANGED session
     \/ /\ Current /\ session.seeds # <<>> /\ FirstWanted = {}
        /\ StartInstall({}, TRUE)
        /\ session' = [session EXCEPT !.seeds = <<>>]
     \/ \E i \in FirstWanted :
        /\ Current
        /\ StartInstall({session.seeds[i]}, TRUE)
        /\ session' = [session EXCEPT !.seeds = Behind(i)]
  /\ UNCHANGED <<nextSurface, nextSub, sub, active, needs, pub, kernel, told, gui, link>>

Restored(k) == [state |-> "admitted", sub |-> cb.sub, next |-> cb.seq, rev |-> k.rev + 1]

\* installCheckpoint, under the kernel's mutex, and needsCheckpoint cleared.
Install(s) ==
  /\ cb.pc = "install"
  /\ s \in cb.todo
  /\ \/ /\ Returned(s, Frame(kernel[s].rev + 1))
        /\ kernel' = [kernel EXCEPT ![s] = Restored(@)]
        /\ needs' = [needs EXCEPT ![s] = FALSE]
     \/ /\ Faults
        /\ Returned(s, Failure("ghostty"))
        /\ UNCHANGED <<kernel, needs>>
  /\ UNCHANGED <<nextSurface, nextSub, session, sub, active, pub, told, gui, link>>

\* publishFrame returns whether the entry was active; allAccepted and
\* anyCurrent count the active entries only.
AfterPublish ==
  LET accepted == cb.accepted /\ (active[cb.surface] => cb.result.ok)
      current  == cb.current \/ active[cb.surface]
      on(pc) == [cb EXCEPT !.pc = pc, !.surface = 0, !.result = NoResult,
                           !.accepted = accepted, !.current = current]
  IN IF cb.kind = "checkpoint"
     THEN on(IF cb.todo # {} THEN "install" ELSE IF accepted THEN "pending" ELSE "reply")
     ELSE IF cb.todo = {} THEN CbIdle
     ELSE [cb EXCEPT !.pc = "apply", !.surface = 0, !.result = NoResult]

Publish ==
  /\ cb.pc = "publish"
  /\ PublishFrame(cb.surface, cb.result)
  /\ cb' = AfterPublish
  /\ UNCHANGED <<nextSurface, nextSub, session, sub, active, needs, kernel, gui, link>>

NoneOutstanding == {}  \* mutant: the targets are not taken a second time

\* pendingCheckpointTargets: surfaces registered since the targets were taken.
Outstanding == IF cb.seedOnly THEN {} ELSE Needing

Pending ==
  /\ cb.pc = "pending"
  /\ cb' = IF ~Current THEN Answer(FALSE, cb.current)
           ELSE IF Outstanding = {} THEN Answer(TRUE, cb.current)
           ELSE [cb EXCEPT !.pc = "install", !.todo = Outstanding]
  /\ session' = IF Current /\ ~cb.seedOnly /\ Outstanding = {}
                THEN [session EXCEPT !.admitted = TRUE] ELSE session
  /\ UNCHANGED <<nextSurface, nextSub, sub, active, needs, pub, kernel, told, gui, link>>

\* The runtime may send a checkpoint that was not accepted once more.
Reply ==
  /\ cb.pc = "reply"
  /\ cb' = CbIdle
  /\ \/ UNCHANGED link
     \/ /\ ~(cb.accepted /\ cb.current)
        /\ link' = [link EXCEPT ![cb.sub].owed = @ + 1]
  /\ UNCHANGED <<nextSurface, nextSub, session, sub, active, needs, pub, kernel, told, gui>>

GuiThread ==
  \/ \E t \in Sub : Register(t)
  \/ RuntimeAccepts \/ RuntimeRejects \/ CancelSurfaceRefresh \/ Rollback
  \/ \E s \in Surface : Detach(s) \/ MoveViewport(s)
  \/ PublishMove

CallbackThread ==
  \/ \E t \in Sub : DeliverData(t) \/ DeliverResize(t) \/ DeliverCheckpoint(t)
  \/ Lookup \/ Targets \/ Publish \/ Pending \/ Reply
  \/ \E s \in Surface : Apply(s) \/ Install(s)

Next == GuiThread \/ CallbackThread

Spec == Init /\ [][Next]_vars

(***************************************************************************)
(* Fairness: a thread that has started a call finishes it, and the runtime *)
(* sends the checkpoint it owes after finitely many other deliveries.      *)
(***************************************************************************)
GuiContinues == RuntimeAccepts \/ RuntimeRejects \/ CancelSurfaceRefresh
                \/ Rollback \/ PublishMove

CbContinues == \/ Lookup \/ Targets \/ Publish \/ Pending \/ Reply
               \/ \E s \in Surface : Apply(s) \/ Install(s)

FairSpec ==
  /\ Spec
  /\ WF_vars(GuiContinues)
  /\ WF_vars(CbContinues)
  /\ \A t \in Sub : SF_vars(DeliverCheckpoint(t))

(***************************************************************************)
(* Properties.                                                             *)
(***************************************************************************)
\* The stream position of subscription sub[s] that the kernel of s should have
\* reached: while a data frame is on its way to s, the one before it.
Awaits(s) ==
  /\ cb.kind = "data" /\ cb.sub = sub[s]
  /\ cb.pc = "lookup" \/ s \in cb.todo

\* Every surface that has its checkpoint holds exactly the data delivered so
\* far on its subscription, none missing and none twice, whatever checkpoints,
\* registrations and other surfaces' failures happen in between.
Contiguity ==
  \A s \in session.surfaces :
    ~needs[s] /\ kernel[s].state = "admitted" =>
      kernel[s].next = IF Awaits(s) THEN link[sub[s]].seq - 1 ELSE link[sub[s]].seq

\* A listener is never told of a sequence gap or a stale subscription: late
\* deliveries of an old subscription are filtered by Impl::exact and
\* checkpointTargets before a kernel sees them.
NoSpuriousFault == \A s \in Surface : told[s] \cap {"stale", "gap"} = {}

\* The queued refreshes (seedRefreshSurfaceGenerations) are of different
\* surfaces, all registered, and there are no more of them than checkpoints the
\* runtime still owes the session, the one being taken up and the one being
\* asked for or taken back included.
SeedsOwed ==
  /\ \A i, j \in DOMAIN session.seeds : session.seeds[i] = session.seeds[j] => i = j
  /\ \A i \in DOMAIN session.seeds : session.seeds[i] \in session.surfaces
  /\ session.seeds # <<>> =>
       Len(session.seeds) <= link[session.sub].owed
         + (IF cb.pc = "targets" /\ Current THEN 1 ELSE 0)
         + (IF gui.pc \in {"refresh", "cancel"} THEN 1 ELSE 0)

\* A surface counts as seeded only when its kernel has had a checkpoint.  Once
\* the session is admitted, a surface that still waits for one is queued for a
\* refresh, is a target of the checkpoint being installed, or is about to be
\* unregistered: it is never forgotten between pendingCheckpointTargets and
\* registerSurface.  The exception is a surface whose kernel rejected the
\* checkpoint: its listener is told so, and nothing more.
NoStranding ==
  /\ \A s \in Seeded : kernel[s].state # "empty"
  /\ session.admitted =>
       \A s \in Needing :
         \/ \E i \in DOMAIN session.seeds : session.seeds[i] = s
         \/ cb.kind = "checkpoint" /\ s \in cb.todo \cup {cb.surface}
         \/ "ghostty" \in told[s]
         \/ gui.pc = "rollback" /\ gui.surface = s

\* With no call in progress, what a surface's view was last given is what its
\* kernel shows: the frames of the two threads may overtake each other between
\* the kernel's mutex and the listener's, and the newest still arrives last.
LastFrameDelivered ==
  gui.pc = "idle" /\ cb.pc = "idle" =>
    \A s \in session.surfaces : kernel[s].state = "admitted" => pub[s] = kernel[s].rev

\* A listener is called only while its surface is in the session map, although
\* callbacks go on using the entries they copied out of it: after
\* unregisterSurface returns, the view may be destroyed.
CalledOnlyWhileRegistered ==
  [][\A s \in Surface :
       pub'[s] # pub[s] \/ told'[s] # told[s] => s \in session.surfaces]_vars

\* When no kernel rejects anything, every registered surface is shown a frame,
\* unless it is unregistered first.
Shown ==
  \A s \in Surface :
    s \in session.surfaces ~> (pub[s] > 0 \/ s \notin session.surfaces)

(***************************************************************************)
(* What makes Contiguity and NoSpuriousFault inductive.                    *)
(***************************************************************************)
\* An entry is active exactly while the map holds it, under the subscription of
\* the session entry, and the map keeps no empty session entry.
EntriesMatch ==
  /\ session.sub = 0 <=> session.surfaces = {}
  /\ \A s \in Surface : active[s] <=> s \in session.surfaces
  /\ \A s \in session.surfaces : sub[s] = session.sub

\* A generation not handed out yet is nowhere and has no checkpoint.
FreshUnused ==
  \A s \in Surface : s > nextSurface =>
    /\ s \notin session.surfaces
    /\ s \notin cb.todo
    /\ needs[s]
    /\ ~(cb.pc = "publish" /\ cb.surface = s)
    /\ ~(gui.pc = "publish" /\ gui.surface = s)

\* A kernel that shows something was given its checkpoint, under its
\* surface's subscription.
KernelOfEntry ==
  \A s \in Surface : kernel[s].state = "admitted" => ~needs[s] /\ kernel[s].sub = sub[s]

\* What the callback thread carries: the position of its stream, and entries
\* that were registered under its subscription when it copied them.
CallOfStream ==
  /\ cb.pc # "idle" =>
       /\ cb.sub \in Sub
       /\ cb.kind # "none"
       /\ cb.kind = "data" => link[cb.sub].seq = cb.seq + 1
       /\ cb.kind # "data" => link[cb.sub].seq = cb.seq
  /\ cb.pc = "idle" => cb.kind = "none"
  /\ cb.pc \in {"lookup", "apply"} => cb.kind \in {"data", "resize"}
  /\ cb.pc \in {"targets", "install", "pending", "reply"} => cb.kind = "checkpoint"
  /\ cb.pc \in {"idle", "lookup", "targets", "pending", "reply"} => cb.todo = {}
  /\ \A s \in cb.todo : sub[s] = cb.sub /\ (cb.kind # "checkpoint" => ~needs[s])

\* No thread is about to report a gap or a stale subscription to a listener.
NoFaultInHand ==
  /\ gui.pc = "publish" => gui.result.kind \notin {"stale", "gap"}
  /\ cb.pc = "publish" /\ cb.surface \in session.surfaces
       => cb.result.kind \notin {"stale", "gap"}

InOrder ==
  /\ EntriesMatch
  /\ FreshUnused
  /\ KernelOfEntry
  /\ CallOfStream
  /\ Contiguity
  /\ NoFaultInHand
  /\ NoSpuriousFault
================================================================================
