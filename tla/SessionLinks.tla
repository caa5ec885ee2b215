---------------------------- MODULE SessionLinks ----------------------------
(***************************************************************************)
(* SessionActionsModel and Workspace, as far as they open, stage and close *)
(* terminals: requests and their answers and deadlines, deep links, the    *)
(* account, and the snapshots of the catalog.                              *)
(*   pending     m_pending: the requests no answer has come for            *)
(*   active      m_activeLink                                              *)
(*   links       m_links, the links behind it                              *)
(*   signedIn, finalizing                                                  *)
(*   sends       the runtime takes the commands of this step               *)
(*   reported    an error was set in this step; the request for the next   *)
(*               link, when it is taken, clears what is set before it      *)
(*   done        what the last activate returned                           *)
(***************************************************************************)
EXTENDS DesktopState

CONSTANTS
    MaxPending,     \* requests at a time, 32 in the code
    MaxLinks        \* links waiting, 32 in the code

ASSUME LinksAssumption == MaxPending \in Nat /\ MaxLinks \in Nat

Request(op, s) == [op |-> op, session |-> s]
Reported(w) == [w EXCEPT !.reported = TRUE]
Unsent(w) == [Reported(w) EXCEPT !.faulty = ~w.sends \/ @]
Returns(w, done) == [w EXCEPT !.done = done]

(***************************************************************************)
(* Requests                                                                *)
(***************************************************************************)
Sends(w) == w.sends /\ w.running

\* mutant: one request too many is taken.
TracksOneMore(w) == Cardinality(w.pending) <= MaxPending /\ Sends(w)

Tracks(w) == Cardinality(w.pending) < MaxPending /\ Sends(w)

SendTracked(w, op, s) ==
    IF Tracks(w) THEN [w EXCEPT !.pending = @ \cup {Request(op, s)}] ELSE Unsent(w)

(***************************************************************************)
(* SessionActionsModel                                                     *)
(***************************************************************************)
Opening(w, s) == Request("openRemote", s) \in w.pending

\* activate, of a session the catalog does not know.
OpenUnknown(w, s) ==
    IF Opening(w, s) THEN Returns(w, TRUE)
    ELSE Returns([SendTracked(w, "openRemote", s) EXCEPT !.active = IF Tracks(w) THEN s ELSE None],
                 Tracks(w))

Activate(w, s) ==
    LET full == s \notin Range(w.staged) /\ Len(w.staged) >= MaxStaged
        asks == s \notin Local /\ ~Opening(w, s)
        asked == IF asks THEN SendTracked(w, "openRemote", s) ELSE w
    IN IF ~Known(w, s) /\ w.signedIn THEN OpenUnknown(w, s)
       ELSE IF Status(w, s) \in {"gone", "blocked", "closing"} \/ full
       THEN Returns(Reported(w), FALSE)
       ELSE IF asks /\ ~Tracks(w) THEN Returns(Unsent(w), FALSE)
       ELSE Returns(StageSession(asked, s), TRUE)

\* mutant: the active link goes with any terminal that is minimized.
MinimizeAny(w, s) ==
    IF s \notin Range(w.staged) THEN w
    ELSE [UnstageSession(w, s) EXCEPT
            !.active = None, !.pending = @ \ {Request("openRemote", s)}]

\* minimize: no answer is waited for any more.
Minimize(w, s) ==
    IF s \notin Range(w.staged) THEN w
    ELSE [UnstageSession(w, s) EXCEPT
            !.active = IF @ = s THEN None ELSE @,
            !.pending = @ \ {Request("openRemote", s)}]

\* The links in the order they are opened, the active one first.
Queue(w) == IF w.active = None THEN w.links ELSE <<w.active>> \o w.links

\* The active link, of a session the catalog does not know.
OpenActive(w) ==
    IF w.finalizing THEN w
    ELSE IF ~w.signedIn THEN Reported(w)
    ELSE Activate(w, w.active)

\* activatePendingLink calls itself after each link whose session the catalog
\* knows: those are activated one after the other, up to the first it does not
\* know, which becomes the active one.
ActivatePendingLink(w) ==
    LET queue == Queue(w)
        unknown == SelectInSeq(queue, LAMBDA s : ~Known(w, s))
        known == IF unknown = 0 THEN queue ELSE SubSeq(queue, 1, unknown - 1)
        opened == FoldLeft(Activate, [w EXCEPT !.active = None, !.links = <<>>], known)
    IN IF unknown = 0 THEN opened
       ELSE OpenActive([opened EXCEPT !.active = queue[unknown],
                                      !.links = SubSeq(queue, unknown + 1, Len(queue))])

Route(w, s) ==
    IF w.active = s \/ s \in Range(w.links) THEN w
    ELSE IF Len(w.links) >= MaxLinks THEN Reported(w)
    ELSE ActivatePendingLink([w EXCEPT !.links = Append(@, s)])

\* refresh: the catalog is loading until the list asked for comes.
Refresh(w) ==
    IF Sends(w) THEN [w EXCEPT !.catalog.state = "Loading"]
    ELSE Unsent([w EXCEPT !.catalog.state = "Failed"])

(***************************************************************************)
(* Workspace                                                               *)
(***************************************************************************)
\* resetRuntimeAuthority: the model is reset before its state changes.
ResetAuthority(w) ==
    [Reconcile([w EXCEPT !.catalog.sessions = <<>>]) EXCEPT !.catalog.state = "Loading"]

ClearAccountData(w) ==
    LET forgotten == [w EXCEPT
            !.pending = {},
            !.active = IF w.signedIn THEN None ELSE @,
            !.links = IF w.signedIn THEN <<>> ELSE @]
    IN ResetAuthority(ClearSessions(forgotten))

\* auth.ready and auth.required, of a new account epoch or of the same.
ApplyAuth(w, signedIn, renewed) ==
    LET settled == [w EXCEPT !.finalizing = FALSE]
        cleared == IF renewed \/ signedIn # w.signedIn THEN ClearAccountData(settled) ELSE settled
    IN ActivatePendingLink(Refresh([cleared EXCEPT !.signedIn = signedIn]))

\* What a snapshot answers: the creation of a session it holds, the closing of
\* one it does not.
Answered(w) ==
    {p \in w.pending : \/ p.op = "create" /\ Known(w, p.session)
                       \/ p.op = "close" /\ ~Known(w, p.session)}

Answer(w) ==
    LET created == {p.session : p \in {p \in Answered(w) : p.op = "create"}}
    IN FoldLeft(Activate, [w EXCEPT !.pending = @ \ Answered(w)], SetToSeq(created))

\* authoritativeSnapshotApplied, which follows the reset of the model, and its
\* handlers in the order they are connected.
SnapshotApplied(w) ==
    Answer(CatalogSnapshotApplied(ActivatePendingLink(DesktopReconcile(w))))

ApplySnapshot(w, sessions) ==
    SnapshotApplied(Reconcile([w EXCEPT !.catalog = [state |-> "Loaded", sessions |-> sessions]]))

ApplyInvalidSnapshot(w) == Reported([w EXCEPT !.catalog.state = "Failed"])

\* session.result: a created session is activated, or its link is made the
\* active one until the catalog has it.
ApplyResult(w, p) ==
    LET taken == [w EXCEPT !.pending = @ \ {p}]
    IN IF p.op # "create" THEN taken
       ELSE IF Known(w, p.session) THEN Activate(taken, p.session)
       ELSE [taken EXCEPT !.active = p.session]

\* session.error: the next link is tried before the request is taken off.
Withdrawn(w, p) == Reported([w EXCEPT !.pending = @ \ {p}])

ApplyError(w, p) ==
    IF p.op = "openRemote" /\ w.active = p.session
    THEN Withdrawn(ActivatePendingLink([w EXCEPT !.active = None]), p)
    ELSE Withdrawn(w, p)

\* The deadline of a request has passed.
Expire(w, p) ==
    LET given == [w EXCEPT
            !.active = IF p.op = "openRemote" /\ @ = p.session THEN None ELSE @,
            !.pending = @ \ {p}]
    IN Reported(ActivatePendingLink(given))

\* runningChanged: the surfaces hear of it first, then the workspace resets.
RuntimeStops(w) ==
    [ClearAccountData(RuntimeChanged([w EXCEPT !.running = FALSE]))
        EXCEPT !.signedIn = FALSE, !.finalizing = TRUE]

\* A new generation of the runtime is ready.
RuntimeStarts(w) == Refresh(RuntimeChanged([w EXCEPT !.running = TRUE]))
=============================================================================
