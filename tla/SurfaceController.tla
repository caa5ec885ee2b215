-------------------------- MODULE SurfaceController --------------------------
(***************************************************************************)
(* TerminalSurfaceController: the binding of terminal views to the         *)
(* sessions of the catalog, with the subscription registry and the views   *)
(* as far as the controller sees them.                                     *)
(*                                                                         *)
(* Everything runs on the GUI thread, and a signal runs its handlers       *)
(* before it returns.  So the handlers are operators from one state of the *)
(* stage to the next, and Stage composes them into the events of the event *)
(* loop.  The fields used here:                                            *)
(*   running    the runtime runs                                           *)
(*   catalog    SessionCatalogModel: its authority state and its sessions  *)
(*   bindings   m_bindings, in order                                       *)
(*   views      each TerminalView: where it is attached, whether it shows  *)
(*              a frame, and the events queued for it                      *)
(*   registry   the subscription of each session, and how far its          *)
(*              connection has come                                        *)
(*   waiting    m_waitingForFreshCatalog                                   *)
(*   retryTimer m_attachmentRetryTimer is active                           *)
(*   error      the views whose tile shows an error, with a Retry button   *)
(*   refused    the views whose attachment the runtime refuses this time   *)
(*   faulty     it did refuse something                                    *)
(***************************************************************************)
EXTENDS Naturals, FiniteSets, SequencesExt

CONSTANTS
    Session,    \* session ids
    Local,      \* the sessions of this computer, the others are remote
    None,       \* an empty id
    Extra,      \* views besides those of the tiles, as the tests bind them
    RetryLimit  \* attempts at a remote attachment, 20 in the code

ASSUME ControllerAssumption ==
    /\ IsFiniteSet(Session) /\ IsFiniteSet(Extra)
    /\ Local \subseteq Session
    /\ None \notin Session \cup Extra
    /\ Session \cap Extra = {}
    /\ RetryLimit \in Nat \ {0}

\* The view of a tile is named after the tile's session.
View == Session \cup Extra

(***************************************************************************)
(* What the catalog says of a session: its incarnation, and whether it is  *)
(* ready (live, and connected if remote), away (live, not connected),      *)
(* closing, or blocked.                                                    *)
(***************************************************************************)
Authoritative(w) == w.catalog.state = "Loaded"
Known(w, s) == s \in DOMAIN w.catalog.sessions
Incarnation(w, s) == IF Known(w, s) THEN w.catalog.sessions[s].inc ELSE 0
Status(w, s) == IF Known(w, s) THEN w.catalog.sessions[s].status ELSE "gone"
CanRetain(w, s) == Status(w, s) \in {"ready", "away", "closing"}
RemoteConnectable(w, s) == s \notin Local /\ Status(w, s) \in {"ready", "away"}
CanControl(w, s) == Status(w, s) = "ready"
Away(w, s) == RemoteConnectable(w, s) /\ ~CanControl(w, s)

(***************************************************************************)
(* Views and registry                                                      *)
(***************************************************************************)
Detached == [session |-> None, sub |-> 0, ready |-> FALSE, inbox |-> <<>>]
NoEntry == [sub |-> 0, phase |-> "none"]
Registered(w, s) == {v \in View : w.views[v].session = s}

\* TerminalView::detach: the last surface of a session takes its entry along.
DetachView(w, v) ==
    LET s == w.views[v].session
    IN IF s = None THEN w
       ELSE [w EXCEPT !.views[v] = Detached,
                      !.registry[s] = IF Registered(w, s) = {v} THEN NoEntry ELSE @]

\* TerminalView::attach: a first surface asks for a connection, one that joins
\* after a checkpoint asks for another, and either request may be refused.
RegisterView(w, v, s, sub) ==
    LET entry == w.registry[s]
        asks == entry.sub = 0 \/ entry.phase = "admitted"
    IN IF entry.sub \notin {0, sub} THEN w
       ELSE IF asks /\ v \in w.refused THEN [w EXCEPT !.error = @ \cup {v}, !.faulty = TRUE]
       ELSE [w EXCEPT !.views[v] = [Detached EXCEPT !.session = s, !.sub = sub],
                      !.registry[s] = IF @.sub = 0 THEN [sub |-> sub, phase |-> "asked"] ELSE @]

AttachView(w, v, s, sub) == RegisterView(DetachView(w, v), v, s, sub)

(***************************************************************************)
(* Bindings                                                                *)
(***************************************************************************)
Position(w, v) == SelectInSeq(w.bindings, LAMBDA b : b.view = v)
Bound(w, v) == Position(w, v) # 0
BindingOf(w, v) == w.bindings[Position(w, v)]
Rebound(w, v, b) == [w EXCEPT !.bindings[Position(w, v)] = b]
BoundViews(w) == [i \in DOMAIN w.bindings |-> w.bindings[i].view]

NewBinding(w, v, s) ==
    [view |-> v, session |-> s, inc |-> Incarnation(w, s), sub |-> 0, attached |-> FALSE,
     attempts |-> 0, retry |-> FALSE, exhausted |-> FALSE, connected |-> FALSE, timer |-> FALSE]

Unretried(b) == [b EXCEPT !.attempts = 0, !.retry = FALSE, !.exhausted = FALSE]
\* Off its view, with the checkpoint timer cancelled.
Off(b) == [b EXCEPT !.sub = 0, !.attached = FALSE, !.timer = FALSE]

Rejected(w, v) == [w EXCEPT !.error = @ \cup {v}]
Ready(w, v) == [w EXCEPT !.error = @ \ {v}]

\* The least number no binding and no surface of the session uses stands for a
\* new subscription.
FreshSubscription(w, s) ==
    LET used == {w.bindings[i].sub : i \in {i \in DOMAIN w.bindings : w.bindings[i].session = s}}
                  \cup {w.views[v].sub : v \in Registered(w, s)}
    IN CHOOSE n \in 1 .. Cardinality(used) + 1 : n \notin used /\ \A m \in 1 .. n - 1 : m \in used

ScheduleRemoteRetry(w, v) ==
    LET b == BindingOf(w, v)
        tried == [b EXCEPT !.attempts = @ + 1]
    IN IF ~RemoteConnectable(w, b.session) THEN Rejected(w, v)
       ELSE IF tried.attempts >= RetryLimit
       THEN Rejected(Rebound(w, v, [tried EXCEPT !.retry = FALSE, !.exhausted = TRUE]), v)
       ELSE [Rebound(w, v, [tried EXCEPT !.retry = TRUE]) EXCEPT !.retryTimer = TRUE]

Attachable(w, b) ==
    /\ ~Away(w, b.session)
    /\ ~b.attached /\ ~b.retry /\ ~b.exhausted
    /\ w.running /\ ~w.waiting /\ b.inc # 0

\* The attached binding of the same incarnation whose subscription is shared.
Sharer(w, v) ==
    LET b == BindingOf(w, v)
    IN SelectInSeq(w.bindings, LAMBDA c : /\ c.view # v /\ c.attached /\ c.sub # 0
                                          /\ c.session = b.session /\ c.inc = b.inc)

\* A shared attachment waits for its checkpoint under a timer.
NoteAttached(w, v, shared) ==
    LET b == BindingOf(w, v)
        sub == w.views[v].sub
    IN IF sub = 0
       THEN ScheduleRemoteRetry(Rebound(w, v, [b EXCEPT !.attached = FALSE, !.sub = 0]), v)
       ELSE Rebound(w, v, [b EXCEPT !.attached = TRUE, !.sub = sub, !.timer = shared])

TryAttach(w, v) ==
    LET b == BindingOf(w, v)
        sharer == Sharer(w, v)
        sub == IF sharer # 0 THEN w.bindings[sharer].sub ELSE FreshSubscription(w, b.session)
    IN IF Attachable(w, b) THEN NoteAttached(AttachView(w, v, b.session, sub), v, sharer # 0)
       ELSE w

\* The binding starts over on a session.
StartOver(w, v, s) ==
    LET b == [Unretried(Off(BindingOf(w, v))) EXCEPT !.session = s, !.inc = Incarnation(w, s)]
    IN TryAttach(Rebound(DetachView(w, v), v, b), v)

\* Handlers of the view's signals are connected at each first bind and, but for
\* the readiness handler, never disconnected: `wired` counts them, up to two.
Wire(w, v) == [w EXCEPT !.wired[v] = IF @ = 2 THEN 2 ELSE @ + 1]

BindRefused(w, s) == (~Known(w, s) /\ ~w.waiting) \/ Status(w, s) = "blocked"

Bind(w, v, s) ==
    IF BindRefused(w, s) THEN Rejected(w, v)
    ELSE IF ~Bound(w, v)
    THEN TryAttach(Wire([w EXCEPT !.bindings = Append(@, NewBinding(w, v, s))], v), v)
    ELSE IF BindingOf(w, v).session = s THEN TryAttach(w, v)
    ELSE StartOver(w, v, s)

Retry(w, v, s) ==
    IF ~CanRetain(w, s) THEN Rejected(w, v)
    ELSE IF ~Bound(w, v) THEN Bind(w, v, s)
    ELSE StartOver(w, v, s)

Detach(w, v) ==
    IF ~Bound(w, v) THEN w
    ELSE [DetachView(w, v) EXCEPT !.bindings = RemoveAt(@, Position(w, v))]

(***************************************************************************)
(* Signals of the runtime and of the catalog                               *)
(***************************************************************************)
DetachAll(w) == FoldLeft(DetachView, w, BoundViews(w))

RuntimeChanged(w) ==
    [DetachAll(w) EXCEPT
        !.retryTimer = FALSE, !.waiting = TRUE,
        !.bindings = [i \in DOMAIN @ |-> [Unretried(Off(@[i])) EXCEPT !.inc = 0]]]

\* reconcile without an authoritative catalog: exhausted retries stay so.
Withdraw(w) ==
    [DetachAll(w) EXCEPT
        !.waiting = TRUE,
        !.bindings = [i \in DOMAIN @ |-> [Off(@[i]) EXCEPT !.inc = 0, !.retry = FALSE]]]

\* The connection of the session came or went since it was last noted.
NoteConnection(w, v) ==
    LET b == BindingOf(w, v)
        connected == ~Away(w, b.session)
        noted == [Unretried(b) EXCEPT !.connected = connected]
    IN IF connected = b.connected THEN w
       ELSE IF connected THEN Rebound(w, v, noted)
       ELSE Rebound(DetachView(w, v), v, Off(noted))

\* mutant: the view stays on the subscription of the earlier incarnation.
NoteIncarnationOnly(w, v) ==
    Rebound(w, v, [BindingOf(w, v) EXCEPT !.inc = Incarnation(w, BindingOf(w, v).session)])

NoteIncarnation(w, v) ==
    LET b == BindingOf(w, v)
        inc == Incarnation(w, b.session)
    IN IF b.inc = inc THEN w
       ELSE Rebound(DetachView(w, v), v, [Unretried(Off(b)) EXCEPT !.inc = inc])

Reattach(w, v) ==
    IF w.running THEN TryAttach(w, v)
    ELSE Rebound(DetachView(w, v), v, Off(BindingOf(w, v)))

ReconcileBinding(w, v) ==
    IF CanRetain(w, BindingOf(w, v).session)
    THEN Reattach(NoteIncarnation(NoteConnection(w, v), v), v)
    ELSE Rejected(Detach(w, v), v)

Reconcile(w) ==
    IF ~Authoritative(w) THEN Withdraw(w)
    ELSE FoldLeft(ReconcileBinding, [w EXCEPT !.waiting = FALSE], BoundViews(w))

CatalogSnapshotApplied(w) == IF w.running THEN Reconcile([w EXCEPT !.waiting = FALSE]) ELSE w

(***************************************************************************)
(* Timers, and the signals of the views                                    *)
(***************************************************************************)
\* mutant: the flag of a pending retry is left standing.
RetryNothing(w) == [w EXCEPT !.retryTimer = FALSE]

RetryPendingAttachments(w) ==
    LET again(u, v) == IF BindingOf(u, v).retry
                       THEN TryAttach(Rebound(u, v, [BindingOf(u, v) EXCEPT !.retry = FALSE]), v)
                       ELSE u
    IN FoldLeft(again, [w EXCEPT !.retryTimer = FALSE], BoundViews(w))

\* The checkpoint of a shared attachment did not come in time.
CheckpointTimeout(w, v) ==
    LET b == [Off(BindingOf(w, v)) EXCEPT !.retry = FALSE, !.exhausted = FALSE]
    IN Rejected(Rebound(DetachView(w, v), v, b), v)

TerminalReady(w, v) ==
    LET shown == [w EXCEPT !.views[v].ready = TRUE]
    IN IF ~Bound(w, v) \/ ~BindingOf(w, v).attached \/ ~BindingOf(w, v).timer THEN shown
       ELSE Ready(Rebound(shown, v, [BindingOf(w, v) EXCEPT !.timer = FALSE]), v)

Connected(w, v) ==
    IF ~Bound(w, v) THEN w
    ELSE LET u == Rebound(w, v, Unretried(BindingOf(w, v)))
         IN IF BindingOf(w, v).timer THEN u ELSE Ready(u, v)

ConnectionFailed(w, v) ==
    LET fail(u) == ScheduleRemoteRetry(Rebound(DetachView(u, v), v, Off(BindingOf(u, v))), v)
    IN IF ~Bound(w, v) THEN w
       ELSE IF w.wired[v] = 2 THEN fail(fail(w)) ELSE fail(w)

\* The binding stays, off its view, and the tile says that the terminal has ended.
TerminalClosed(w, v) ==
    Rejected(IF Bound(w, v) THEN Rebound(w, v, Off(BindingOf(w, v))) ELSE w, v)

\* TerminalView draws its last frame and detaches itself before it tells of the
\* end.
ViewEnds(w, v) == TerminalClosed(DetachView(w, v), v)

\* TerminalView detaches itself when its queue overflows, which the controller
\* is not told.
Overflow(w, v) == Rejected(DetachView(w, v), v)
=============================================================================
