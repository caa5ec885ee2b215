-------------------------------- MODULE Stage --------------------------------
(***************************************************************************)
(* The stage as main.cpp and the QML put it together: the catalog of       *)
(* sessions, the staged terminals and their tiles, the surface controller, *)
(* requests, deep links and the account, driven by the events of the GUI   *)
(* thread: input, events of the runtime, timers, and the signals of the    *)
(* terminal views.  An action is one event, with all its handlers.         *)
(***************************************************************************)
EXTENDS SessionLinks

CONSTANTS
    MaxInc,     \* incarnations of a session
    Shown,      \* the sessions there are when terminals are looked at
    Inputs, Changes, Faults,            \* bounds when terminals are looked at:
                                        \* inputs, events of the runtime, faults
    LinkInputs, LinkChanges, LinkFaults \* bounds when links are

ASSUME StageAssumption ==
    /\ MaxInc \in Nat \ {0}
    /\ Shown \subseteq Session
    /\ {Inputs, Changes, Faults, LinkInputs, LinkChanges, LinkFaults} \subseteq Nat

VARIABLES
    stage,      \* the state the handlers work on
    runtime,    \* the sessions the runtime has
    budget      \* what may still happen

vars == <<stage, runtime, budget>>

(***************************************************************************)
(* A run of the model looks either at terminals, or at links, requests and *)
(* the account; there terminals stay connecting.                           *)
(***************************************************************************)
Budgets ==
    {[links |-> FALSE, inputs |-> Inputs, changes |-> Changes, faults |-> Faults],
     [links |-> TRUE, inputs |-> LinkInputs, changes |-> LinkChanges, faults |-> LinkFaults]}

Init ==
    /\ stage = [running |-> FALSE, catalog |-> [state |-> "Loading", sessions |-> <<>>],
                bindings |-> <<>>, views |-> [v \in View |-> Detached],
                registry |-> [s \in Session |-> NoEntry], waiting |-> TRUE,
                retryTimer |-> FALSE, wired |-> [v \in View |-> 0], error |-> {},
                staged |-> <<>>, selected |-> None, focus |-> FALSE,
                viewport |-> [extent |-> "none", preferred |-> OneColumn], tiling |-> NoTiling,
                pending |-> {}, active |-> None, links |-> <<>>,
                signedIn |-> FALSE, finalizing |-> TRUE,
                made |-> {}, reported |-> FALSE, unheard |-> {},
                refused |-> {}, sends |-> TRUE, done |-> FALSE, faulty |-> FALSE]
    /\ runtime = <<>>
    /\ budget \in Budgets

(***************************************************************************)
(* Events                                                                  *)
(***************************************************************************)
\* The fields that speak of the last step, at the start of the next.
Fresh == [stage EXCEPT !.made = {}, !.reported = FALSE]

\* The sessions a run of the model has.
Sessions == IF budget.links THEN Session ELSE Shown

\* What the runtime may do to the commands of an event: take them all, refuse
\* them, or refuse to attach one view.
Runs ==
    {Fresh} \cup IF budget.faults = 0 THEN {}
                ELSE {[Fresh EXCEPT !.refused = {v}] : v \in Sessions \cup Extra}
                       \cup {[Fresh EXCEPT !.sends = FALSE, !.refused = View]}

Becomes(w) == stage' = [w EXCEPT !.refused = {}, !.sends = TRUE, !.done = FALSE, !.faulty = FALSE]

\* An event, within the budget; a refusal must be met, and counts.
Event(inputs, changes, faults, Op(_)) ==
    /\ budget.inputs >= inputs /\ budget.changes >= changes /\ budget.faults >= faults
    /\ \E run \in Runs : \E w \in {Op(run)} :
         LET met == faults + IF w.faulty THEN 1 ELSE 0
         IN /\ run # Fresh => w.faulty
            /\ met <= budget.faults
            /\ Becomes(w)
            /\ budget' = [budget EXCEPT !.inputs = @ - inputs, !.changes = @ - changes,
                                       !.faults = @ - met]

\* The user does something, the runtime says something, or a timer fires or a
\* view has an event.
Input(Op(_)) == Event(1, 0, 0, Op) /\ UNCHANGED runtime
Hears(Op(_)) == Event(0, 1, 0, Op)
Happens(faults, Op(_)) == Event(0, 0, faults, Op) /\ UNCHANGED runtime

(***************************************************************************)
(* The runtime and the account                                             *)
(***************************************************************************)
Start == ~stage.running /\ Hears(RuntimeStarts) /\ UNCHANGED runtime
Stop == stage.running /\ Hears(RuntimeStops) /\ runtime' = <<>>

Auth == /\ budget.links /\ stage.running
        /\ \E signedIn, renewed \in BOOLEAN :
             Hears(LAMBDA w : ApplyAuth(w, signedIn, renewed))
        /\ UNCHANGED runtime

\* A sign-in that is being finalized, or asks for the user again.
AuthStep == /\ budget.links /\ stage.running
            /\ Hears(LAMBDA w : [w EXCEPT !.finalizing = ~@])
            /\ UNCHANGED runtime

\* A session appears, changes or ends.
SessionStates(s) ==
    [inc : IF budget.links THEN {1} ELSE 1 .. MaxInc,
     status : CASE s \in Local -> {"ready", "closing"}
                [] budget.links -> {"ready", "blocked"}
                [] OTHER -> {"ready", "away", "blocked"}]

Changed(s) ==
    {runtime}
      \cup {[t \in DOMAIN runtime \cup {s} |-> IF t = s THEN state ELSE runtime[t]] :
                state \in {x \in SessionStates(s) : s \in DOMAIN runtime => x.inc >= runtime[s].inc}}
      \cup {[t \in DOMAIN runtime \ {s} |-> runtime[t]]}

Snapshot ==
    /\ stage.running /\ budget.changes > 0
    /\ \E sessions \in UNION {Changed(s) : s \in Sessions} :
         /\ Hears(LAMBDA w : ApplySnapshot(w, sessions))
         /\ runtime' = sessions

InvalidSnapshot == stage.running /\ Hears(ApplyInvalidSnapshot) /\ UNCHANGED runtime

(***************************************************************************)
(* Requests                                                                *)
(***************************************************************************)
Result == \E p \in stage.pending : Happens(0, LAMBDA w : ApplyResult(w, p))
Error == \E p \in stage.pending : Happens(1, LAMBDA w : ApplyError(w, p))
Deadline == \E p \in stage.pending : Happens(1, LAMBDA w : Expire(w, p))

(***************************************************************************)
(* The user                                                                *)
(***************************************************************************)
UserActivates == \E s \in Sessions : Input(LAMBDA w : Activate(w, s))
UserMinimizes == \E s \in Range(stage.staged) : Input(LAMBDA w : Minimize(w, s))
UserSelects == \E s \in Range(stage.staged) : Input(LAMBDA w : StageSession(w, s))
UserTogglesFocus == Input(ToggleFocus)
UserRefreshes == Input(Refresh)
UserRoutes == budget.links /\ \E s \in Session \ Local : Input(LAMBDA w : Route(w, s))

UserCreates ==
    /\ budget.links
    /\ \E s \in Local \ DOMAIN runtime :
         Request("create", s) \notin stage.pending /\ Input(LAMBDA w : SendTracked(w, "create", s))

\* command: of a session the catalog still has.
UserCloses ==
    /\ budget.links /\ Authoritative(stage)
    /\ \E s \in DOMAIN stage.catalog.sessions :
         /\ Status(stage, s) # "blocked"
         /\ Request("close", s) \notin stage.pending
         /\ Input(LAMBDA w : SendTracked(w, "close", s))

UserResizes ==
    /\ ~budget.links
    /\ \E viewport \in Viewport \ {stage.viewport} :
         Input(LAMBDA w : Rebuild([w EXCEPT !.viewport = viewport]))

UserMovesDivider ==
    \E id \in Movable(stage.tiling) : Input(LAMBDA w : Rebuild([w EXCEPT !.tiling.moved = @ \cup {id}]))

\* Retry, in a tile that shows an error: the error goes, and the view is only
\* tried again if the session can be activated.
RetryActivated(w, s) ==
    IF w.done THEN Retry([w EXCEPT !.unheard = @ \ {s}], s, s)
    ELSE [w EXCEPT !.unheard = @ \cup {s}]

RetryTile(w, s) == RetryActivated(Activate(Ready(w, s), s), s)

UserRetries == \E s \in Range(stage.staged) \cap stage.error : Input(LAMBDA w : RetryTile(w, s))

\* A second view of a session, as the tests bind one.
BindExtra == \E x \in Extra, s \in Shown : ~budget.links /\ Input(LAMBDA w : Bind(w, x, s))
DetachExtra == \E x \in Extra : Bound(stage, x) /\ Input(LAMBDA w : Detach(w, x))

(***************************************************************************)
(* Terminals                                                               *)
(***************************************************************************)
Hearing(view, event) == [view EXCEPT !.inbox = Append(@, event)]

Tells(w, s, phase, event) ==
    [w EXCEPT !.registry[s].phase = phase,
              !.views = [v \in View |-> IF @[v].session = s THEN Hearing(@[v], event) ELSE @[v]]]

\* The runtime answers the request for a connection, or ends a terminal.
ConnectionOpens ==
    \E s \in Session : /\ ~budget.links /\ stage.registry[s].phase = "asked"
                       /\ Happens(0, LAMBDA w : Tells(w, s, "open", "ok"))

ConnectionRefused ==
    \E s \in Session : /\ ~budget.links /\ stage.registry[s].phase = "asked"
                       /\ Happens(1, LAMBDA w : Tells(w, s, "over", "failed"))

TerminalEnds ==
    \E s \in Session : /\ stage.registry[s].phase \in {"open", "admitted"}
                       /\ Happens(1, LAMBDA w : Tells(w, s, "over", "closed"))

Taken(w, v) == [w EXCEPT !.views[v].inbox = Tail(@)]

ViewHears ==
    \E v \in View :
        /\ stage.views[v].inbox # <<>>
        /\ Happens(0, LAMBDA w :
             CASE Head(w.views[v].inbox) = "ok" -> Connected(Taken(w, v), v)
               [] Head(w.views[v].inbox) = "failed" -> ConnectionFailed(Taken(w, v), v)
               [] OTHER -> ViewEnds(Taken(w, v), v))

\* The first frame of an attachment, of a checkpoint that was admitted.
FrameShown ==
    \E v \in View :
        LET s == stage.views[v].session
        IN /\ s # None /\ ~stage.views[v].ready /\ stage.views[v].inbox = <<>>
           /\ stage.registry[s].phase \in {"open", "admitted"}
           /\ Happens(0, LAMBDA w : TerminalReady([w EXCEPT !.registry[s].phase = "admitted"], v))

ViewOverflows ==
    \E v \in View : ~budget.links /\ stage.views[v].session # None /\ Happens(1, LAMBDA w : Overflow(w, v))

RetryTimer == stage.retryTimer /\ Happens(0, RetryPendingAttachments)

CheckpointTimer ==
    \E v \in View : /\ Bound(stage, v) /\ BindingOf(stage, v).timer
                    /\ Happens(1, LAMBDA w : CheckpointTimeout(w, v))

(***************************************************************************)
(* Specification                                                           *)
(***************************************************************************)
Next ==
    \/ Start \/ Stop \/ Auth \/ AuthStep \/ Snapshot \/ InvalidSnapshot
    \/ Result \/ Error \/ Deadline
    \/ UserActivates \/ UserMinimizes \/ UserSelects \/ UserTogglesFocus \/ UserRefreshes
    \/ UserRoutes \/ UserCreates \/ UserCloses \/ UserResizes \/ UserMovesDivider
    \/ UserRetries \/ BindExtra \/ DetachExtra
    \/ ConnectionOpens \/ ConnectionRefused \/ TerminalEnds \/ ViewHears \/ FrameShown
    \/ ViewOverflows \/ RetryTimer \/ CheckpointTimer

Spec == Init /\ [][Next]_vars

(***************************************************************************)
(* Properties                                                              *)
(***************************************************************************)
Bindings == {stage.bindings[i] : i \in DOMAIN stage.bindings}

\* The state is well typed and within its limits: at most MaxStaged terminals
\* on stage, MaxPending requests and MaxLinks links.  A binding counts up to
\* RetryLimit + 1 attempts: a view that was bound twice counts a failure twice.
TypeOK ==
    /\ stage.catalog.state \in {"Loading", "Loaded", "Failed"}
    /\ DOMAIN stage.catalog.sessions \subseteq Session
    /\ \A b \in Bindings :
         /\ b.view \in View /\ b.session \in Session /\ b.inc \in 0 .. MaxInc
         /\ b.attempts \in 0 .. RetryLimit + 1
         /\ b.attached <=> b.sub # 0
    /\ \A v \in View : stage.views[v].session \in Session \cup {None}
    /\ stage.staged \in Seq(Session) /\ Len(stage.staged) <= MaxStaged
    /\ stage.selected \in Session \cup {None}
    /\ stage.pending \subseteq [op : {"openRemote", "create", "close"}, session : Session]
    /\ Cardinality(stage.pending) <= MaxPending
    /\ stage.active \in Session \cup {None}
    /\ stage.links \in Seq(Session) /\ Len(stage.links) <= MaxLinks

\* A binding that counts as attached is attached to what the catalog now says:
\* the runtime runs, the session is there in the same incarnation, it may be
\* shown, and a remote session is connected, unless the controller never noted
\* its connection.  Its view holds the binding's subscription or has let go of
\* it on an overflow, and bindings of one incarnation share one subscription.
\* Snapshots, restarts, account changes, retries and timers all take part.
AttachedAsListed ==
    \A b \in {b \in Bindings : b.attached} :
        LET view == stage.views[b.view]
        IN /\ stage.running /\ ~stage.waiting
           /\ Known(stage, b.session) => /\ b.inc = Incarnation(stage, b.session)
                                         /\ CanRetain(stage, b.session)
                                         /\ Away(stage, b.session) => ~b.connected
           /\ view = Detached \/ (view.session = b.session /\ view.sub = b.sub)
           /\ \A c \in Bindings :
                c.attached /\ c.session = b.session => c.sub = b.sub

\* A tile is never left on "Connecting terminal" with nothing that will change
\* it: it shows a frame, or an error with a Retry button, or waits for a
\* catalog, for the session's connection, for a timer that is running, or for
\* an answer of the runtime.  The exception is a Retry that could not activate
\* the session: it takes the error away and does nothing more.
Served(s) ==
    LET b == BindingOf(stage, s)
        view == stage.views[s]
    IN \/ view.ready \/ s \in stage.error \cup stage.unheard
       \/ /\ Bound(stage, s)
          /\ \/ stage.waiting \/ Away(stage, s)
             \/ b.retry /\ stage.retryTimer
             \/ b.timer
             \/ /\ view.session = s
                /\ stage.registry[s].phase # "over" \/ view.inbox # <<>>

NoSilentTile == \A s \in Range(stage.staged) : Served(s)

\* The stage shows what is staged, and nothing else: one tile per session in
\* order, the selected session among them, only it in focus mode, dividers
\* between all rows and columns, and, once the catalog is authoritative, no
\* session the catalog lacks or blocks.  Nothing is bound but tiles and extra
\* views.
StageShown ==
    /\ [i \in DOMAIN stage.tiling.tiles |-> stage.tiling.tiles[i].id]
         = [i \in DOMAIN stage.staged |-> <<"tile", stage.staged[i]>>]
    /\ stage.selected = None <=> stage.staged = <<>>
    /\ stage.staged # <<>> => stage.selected \in Range(stage.staged)
    /\ stage.focus => {t \in Range(stage.tiling.tiles) : t.visible}
                        = {[id |-> <<"tile", stage.selected>>, visible |-> TRUE]}
    /\ stage.staged # <<>> => Len(stage.tiling.dividers) < Len(stage.staged) * 2
    /\ Authoritative(stage) => \A s \in Range(stage.staged) : CanRetain(stage, s)
    /\ {b.view : b \in Bindings} \cap Session = Range(stage.staged)

\* A session that stays on stage keeps its tile, and with it its terminal view,
\* whatever else is staged, removed, selected or resized in the same step.
TilesKept ==
    [][\A s \in Range(stage.staged) \cap Range(stage.staged') : s \notin stage'.made]_vars

\* No link is lost without a word: a link that was waiting or being opened
\* leaves by being staged, with an error that is set, with the account's data,
\* or because another session became the active one in the meantime.
Following(w) == Range(w.links) \cup ({w.active} \ {None})

LinksHeard ==
    [][\A s \in Following(stage) \ Following(stage') :
          \/ s \in Range(stage.staged')
          \/ stage'.reported
          \/ stage'.catalog.state # "Loaded" /\ stage'.catalog.sessions = <<>>
          \/ s = stage.active /\ stage'.active # None /\ stage'.links = stage.links]_vars
=============================================================================
