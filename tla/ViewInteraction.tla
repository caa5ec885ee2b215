---------------------------- MODULE ViewInteraction ----------------------------
(***************************************************************************)
(* How a terminal view tells the runtime of its focus, its size and what   *)
(* is typed into it (src/terminal/TerminalView.cpp, TerminalViewInput.cpp).*)
(*                                                                         *)
(* Everything runs on the GUI thread, so a handler is one step.  What      *)
(* makes it hard is time: each command may be refused as busy and is tried *)
(* again by a timer, its outcome arrives as an event later, and meanwhile  *)
(* the focus moves, the view is resized, hidden or disabled, interaction   *)
(* is granted or revoked, and the view is attached elsewhere.              *)
(*                                                                         *)
(* The fields of the view are one record; a handler is an operator that    *)
(* takes the record to the set of records it may leave, one for every      *)
(* answer the runtime may give to the commands sent on the way.            *)
(*                                                                         *)
(* External: the runtime takes commands in the order they were accepted    *)
(* and posts an outcome for each; Qt delivers focus, geometry and timers.  *)
(* The way of an outcome into the view, and what becomes of the late ones  *)
(* of a detached view, is ViewMailbox.  The view is the only one of its    *)
(* subscription, so commands on their way go with it when it detaches.     *)
(***************************************************************************)
EXTENDS Naturals, Sequences, FiniteSets, FiniteSetsExt, Bags

CONSTANTS
  EpochLimit,    \* bound: values of m_attachmentEpoch
  ChangeLimit,   \* bound: changes made by the user and the application
  RefusalLimit,  \* bound: commands the runtime refuses or rejects
  SizeLimit,     \* sizes of the view are 1 .. SizeLimit
  QueueLimit,    \* most inputs queued (maximumQueuedInputFrames)
  BatchLimit     \* inputs sent in one go (64)

ASSUME ConstantsAssumption ==
  /\ {EpochLimit, ChangeLimit, RefusalLimit} \subseteq Nat
  /\ {SizeLimit, QueueLimit, BatchLimit} \subseteq Nat \ {0}

VARIABLES
  view,     \* the fields of TerminalView, and what the item and the runtime know of it
  changes,  \* changes made so far
  events,   \* outcomes posted to the view
  runtime   \* external: the focus, size and claim of the view in the runtime

vars == <<view, changes, events, runtime>>

Size     == 1 .. SizeLimit
NoResize == [id |-> 0, size |-> 0, claim |-> FALSE]
Resizing == [id : Nat, size : 0 .. SizeLimit, claim : BOOLEAN]
Input    == [n : Nat, epoch : 0 .. EpochLimit, generation : Nat]
Timer    == [does : {"focusRetry", "resize", "resizeRetry", "inputRetry"},
             epoch : 0 .. EpochLimit, generation : Nat]
Command  == [type : {"focus", "blur", "resize"}, what : Resizing]
Posted   == [type : {"connected", "focus", "resize"}, id : Nat, applied : BOOLEAN]

TypeOK ==
  \* the item: hasActiveFocus, visible in a visible window, enabled, size
  /\ view.activeFocus \in BOOLEAN /\ view.shown \in BOOLEAN /\ view.enabled \in BOOLEAN
  /\ view.size \in Size
  \* m_attachmentEpoch, m_runtime and m_registry, m_frame and m_terminalReady
  /\ view.epoch \in 0 .. EpochLimit
  /\ view.attached \in BOOLEAN /\ view.ready \in BOOLEAN
  \* m_canSendInput and m_canResize, always set alike; m_focusedSizeAuthority
  /\ view.control \in BOOLEAN /\ view.authority \in BOOLEAN
  \* m_desiredFocus, m_focusClaimed, m_pendingFocusRequestId, m_focusRetryOperation
  \* ("none" when m_focusRetryQueued is false)
  /\ view.desired \in BOOLEAN /\ view.claimed \in BOOLEAN
  /\ view.pendingFocus \in Nat
  /\ view.focusRetry \in {"none", "focus", "blur"}
  \* m_resizeQueued, m_lastResizeKey, m_pendingResize, m_resizeRetryQueued,
  \* m_resizeClaimPending
  /\ view.resizeQueued \in BOOLEAN /\ view.resizeRetry \in BOOLEAN
  /\ view.lastSize \in 0 .. SizeLimit
  /\ view.pendingResize \in Resizing
  /\ view.claimPending \in BOOLEAN
  \* m_inputQueue, m_inputRetryQueued, m_inputGeneration
  /\ view.queue \in Seq(Input) /\ Len(view.queue) <= QueueLimit
  /\ view.inputRetry \in BOOLEAN /\ view.inputGeneration \in Nat
  \* external: the single-shot timers, the commands accepted and not carried out
  /\ IsABag(view.timers) /\ DOMAIN view.timers \subseteq Timer
  /\ view.sent \in Seq(Command)
  /\ view.refusals \in 0 .. RefusalLimit
  \* history: a refusal other than busy since the last command of the kind; the
  \* last look at the size passed it over (Passing, or the view was disabled);
  \* inputs typed, and taken by the runtime; one was taken out of turn
  /\ view.focusRefused \in BOOLEAN /\ view.resizeRefused \in BOOLEAN
  /\ view.passedOver \in BOOLEAN
  /\ view.typed \in Nat /\ view.taken \in Nat /\ view.stray \in BOOLEAN
  /\ changes \in 0 .. ChangeLimit
  /\ events \in Seq(Posted)
  /\ runtime \in [focused : BOOLEAN, size : 0 .. SizeLimit, claimed : BOOLEAN]

Unknown == [focused |-> FALSE, size |-> 0, claimed |-> FALSE]

Init ==
  /\ view = [activeFocus |-> FALSE, shown |-> TRUE, enabled |-> TRUE, size |-> 1,
             epoch |-> 0, attached |-> FALSE, ready |-> FALSE,
             control |-> FALSE, authority |-> FALSE,
             desired |-> FALSE, claimed |-> FALSE, pendingFocus |-> 0,
             focusRetry |-> "none",
             resizeQueued |-> FALSE, lastSize |-> 0, pendingResize |-> NoResize,
             resizeRetry |-> FALSE, claimPending |-> FALSE,
             queue |-> <<>>, inputRetry |-> FALSE, inputGeneration |-> 0,
             timers |-> EmptyBag, sent |-> <<>>, refusals |-> 0,
             focusRefused |-> FALSE, resizeRefused |-> FALSE, passedOver |-> FALSE,
             typed |-> 0, taken |-> 0, stray |-> FALSE]
  /\ changes = 0
  /\ events = <<>>
  /\ runtime = Unknown

(***************************************************************************)
(* Commands and timers.                                                    *)
(***************************************************************************)
InteractionAvailable(v) == v.shown /\ v.enabled

\* A request id that nothing refers to.
FreshId(v) ==
  Min({i \in 1 .. Len(v.sent) + Len(events) + 3 :
         /\ i \notin {v.pendingFocus, v.pendingResize.id}
         /\ \A k \in DOMAIN v.sent : v.sent[k].what.id # i
         /\ \A k \in DOMAIN events : events[k].id # i})

\* The runtime refuses a command: it is busy, or there is something wrong.
Refusals(v) == IF v.refusals < RefusalLimit THEN {"busy", "error"} ELSE {}

Refused(v) == [v EXCEPT !.refusals = @ + 1]

Sent(v, type, what) == [v EXCEPT !.sent = Append(@, [type |-> type, what |-> what])]

\* QTimer::singleShot, of which the handler knows the epoch it was started in.
Started(v, does) ==
  [v EXCEPT !.timers = @ (+) SetToBag({[does |-> does, epoch |-> v.epoch,
                                        generation |-> IF does = "inputRetry"
                                                       THEN v.inputGeneration ELSE 0]})]

(***************************************************************************)
(* Focus.                                                                  *)
(***************************************************************************)
\* scheduleFocusRetry.
FocusRetried(v, operation) ==
  IF v.focusRetry = operation THEN v
  ELSE Started([v EXCEPT !.focusRetry = operation], "focusRetry")

FocusFailed(v, operation, refusal) ==
  IF refusal = "busy" THEN FocusRetried(Refused(v), operation)
  ELSE [Refused(v) EXCEPT !.focusRetry = "none", !.focusRefused = TRUE]

\* dispatchFocus(Focus).
DispatchFocus(v) ==
  IF \/ ~v.control \/ ~InteractionAvailable(v) \/ ~v.attached
     \/ v.claimed \/ v.pendingFocus # 0
  THEN {v}
  ELSE LET id == FreshId(v) IN
       {Sent([v EXCEPT !.pendingFocus = id, !.focusRetry = "none", !.focusRefused = FALSE],
             "focus", [NoResize EXCEPT !.id = id])}
       \cup {FocusFailed(v, "focus", refusal) : refusal \in Refusals(v)}

\* dispatchFocus(Blur): when it was accepted the focus may be wanted again.
DispatchBlur(v) ==
  IF ~v.attached THEN {v}
  ELSE LET released == Sent([v EXCEPT !.claimed = FALSE, !.pendingFocus = 0,
                                      !.focusRetry = "none", !.focusRefused = FALSE],
                            "blur", NoResize) IN
       (IF v.desired /\ v.control THEN DispatchFocus(released) ELSE {released})
       \cup {FocusFailed(v, "blur", refusal) : refusal \in Refusals(v)}

SendFocus(v) == DispatchFocus([v EXCEPT !.desired = TRUE])
SendBlur(v)  == DispatchBlur([v EXCEPT !.desired = FALSE])

\* handleFocusOutcome.
HandleFocusOutcome(v, outcome) ==
  IF outcome.id # v.pendingFocus THEN v
  ELSE [v EXCEPT !.pendingFocus = 0, !.claimed = outcome.applied,
                 !.focusRefused = @ \/ ~outcome.applied]

(***************************************************************************)
(* Size.                                                                   *)
(***************************************************************************)
ScheduleResize(v) ==
  IF v.resizeQueued \/ ~v.attached \/ ~v.ready THEN v
  ELSE Started([v EXCEPT !.resizeQueued = TRUE], "resize")

ScheduleResizeRetry(v) ==
  IF v.resizeRetry THEN v ELSE Started([v EXCEPT !.resizeRetry = TRUE], "resizeRetry")

ResizeFailed(v, refusal) ==
  LET idle == [Refused(v) EXCEPT !.pendingResize = NoResize] IN
  IF refusal = "busy" THEN ScheduleResizeRetry(idle)
  ELSE [idle EXCEPT !.resizeRefused = TRUE]

\* The runtime has this size, or was asked for it.
SizeKnown(v) ==
  \/ ~v.claimPending /\ v.size = v.lastSize
  \/ v.pendingResize # NoResize /\ v.size = v.pendingResize.size

\* External: the resizes on their way, and the size the runtime has once it did them.
Resizes(v)   == {k \in DOMAIN v.sent : v.sent[k].type = "resize"}
AskedSize(v) == IF Resizes(v) = {} THEN runtime.size ELSE v.sent[Max(Resizes(v))].what.size

\* The last look at the size leaves the runtime with another size, or with one on
\* its way whose outcome the view no longer waits for.
Passing(v) == \/ v.size # AskedSize(v)
              \/ v.pendingResize = NoResize /\ Resizes(v) # {}

\* A view that may not interact, or whose size is known, says nothing.
DispatchResize(v) ==
  IF ~v.attached \/ ~v.control \/ ~InteractionAvailable(v)
  THEN {[v EXCEPT !.passedOver = @ \/ ~v.enabled]}
  ELSE IF SizeKnown(v) THEN {[v EXCEPT !.passedOver = Passing(v)]}
  ELSE LET what == [id |-> FreshId(v), size |-> v.size, claim |-> v.claimPending]
           spoken == [v EXCEPT !.passedOver = FALSE]
       IN {Sent([spoken EXCEPT !.pendingResize = what, !.resizeRefused = FALSE],
                "resize", what)}
          \cup {ResizeFailed(spoken, refusal) : refusal \in Refusals(v)}

\* mutant: the claim asked for while a resize without claim was on its way is lost.
HandleResizeOutcomeForgetful(v, outcome) ==
  IF v.pendingResize = NoResize \/ outcome.id # v.pendingResize.id THEN v
  ELSE [v EXCEPT
         !.lastSize = IF outcome.applied THEN v.pendingResize.size ELSE @,
         !.claimPending = @ /\ ~(outcome.applied /\ v.pendingResize.claim),
         !.resizeRefused = ~outcome.applied,
         !.pendingResize = NoResize]

\* handleResizeOutcome.
HandleResizeOutcome(v, outcome) ==
  IF v.pendingResize = NoResize \/ outcome.id # v.pendingResize.id THEN v
  ELSE LET claim == v.pendingResize.claim
           done  == [v EXCEPT
             !.lastSize = IF outcome.applied THEN v.pendingResize.size ELSE @,
             !.claimPending = @ /\ ~(outcome.applied /\ claim),
             !.resizeRefused = ~outcome.applied,
             !.pendingResize = NoResize]
       IN IF ~claim /\ done.claimPending THEN ScheduleResize(done) ELSE done

(***************************************************************************)
(* Input.  The bytes an input has are left out, and the limit on them.     *)
(***************************************************************************)
\* mutant: the timer of the cleared inputs is still taken for theirs.
ClearPendingInputKeepingRetry(v) ==
  [v EXCEPT !.inputGeneration = @ + 1, !.queue = <<>>, !.taken = v.typed]

\* mutant: the inputs stay queued.
ClearPendingInputKeepingQueue(v) ==
  [v EXCEPT !.inputGeneration = @ + 1, !.inputRetry = FALSE, !.taken = v.typed]

\* clearPendingInput.
ClearPendingInput(v) ==
  [v EXCEPT !.inputGeneration = @ + 1, !.queue = <<>>, !.inputRetry = FALSE,
            !.taken = v.typed]

\* The runtime takes the first k inputs, in the turn they were typed, unless
\* they are of another attachment or of before they were cleared.
Taken(v, k) ==
  [v EXCEPT
    !.queue = SubSeq(@, k + 1, Len(@)),
    !.taken = @ + k,
    !.stray = @ \/ \E i \in 1 .. k : v.queue[i] # [n |-> v.taken + i, epoch |-> v.epoch,
                                                   generation |-> v.inputGeneration]]

InputRetried(v) == Started([v EXCEPT !.inputRetry = TRUE], "inputRetry")

InputFailed(v, refusal) ==
  IF refusal = "busy" THEN InputRetried(Refused(v))
  ELSE [Refused(v) EXCEPT !.queue = <<>>, !.taken = v.typed]

DrainInputQueue(v) ==
  IF ~InteractionAvailable(v) \/ ~v.control \/ ~v.attached \/ v.inputRetry THEN {v}
  ELSE LET most == Min({Len(v.queue), BatchLimit})
           all  == Taken(v, most)
       IN {IF all.queue = <<>> THEN all ELSE InputRetried(all)}
          \cup {InputFailed(Taken(v, k), refusal) :
                  k \in 0 .. most - 1, refusal \in Refusals(v)}

\* mutant: one input too many.
EnqueueInputBeyondLimit(v) ==
  IF \/ ~InteractionAvailable(v) \/ ~v.control \/ ~v.attached \/ ~v.ready
     \/ Len(v.queue) > QueueLimit
  THEN {v}
  ELSE DrainInputQueue(
         [v EXCEPT !.typed = @ + 1,
                   !.queue = Append(@, [n |-> v.typed + 1, epoch |-> v.epoch,
                                        generation |-> v.inputGeneration])])

\* enqueueInput; an input that finds the queue full, or no terminal, is refused.
EnqueueInput(v) ==
  IF \/ ~InteractionAvailable(v) \/ ~v.control \/ ~v.attached \/ ~v.ready
     \/ Len(v.queue) >= QueueLimit
  THEN {v}
  ELSE DrainInputQueue(
         [v EXCEPT !.typed = @ + 1,
                   !.queue = Append(@, [n |-> v.typed + 1, epoch |-> v.epoch,
                                        generation |-> v.inputGeneration])])

(***************************************************************************)
(* What the user, the application and Qt do.                               *)
(***************************************************************************)
\* synchronizeInteraction.
SynchronizeInteraction(v) ==
  IF InteractionAvailable(v)
  THEN IF ~v.activeFocus \/ ~v.ready THEN {v}
       ELSE IF v.focusRetry = "blur" THEN {[v EXCEPT !.desired = TRUE]}
       ELSE SendFocus(v)
  ELSE LET cleared == ClearPendingInput(v) IN
       IF v.claimed \/ v.pendingFocus # 0 \/ v.desired THEN SendBlur(cleared)
       ELSE {cleared}

FocusIn(v)  == SendFocus([v EXCEPT !.activeFocus = TRUE])
FocusOut(v) == SendBlur([v EXCEPT !.activeFocus = FALSE])

\* The item, one above it or its window is shown or hidden.
SetShown(v) ==
  {ScheduleResize(w) : w \in SynchronizeInteraction([v EXCEPT !.shown = ~@])}

\* The tile enables or disables the item: Qt takes the focus from a disabled item.
\* (No tile changes the opacity, which is handled alike.)
SetEnabled(v) ==
  LET flipped == [v EXCEPT !.enabled = ~@] IN
  UNION {SynchronizeInteraction(w) :
           w \in IF v.enabled /\ v.activeFocus THEN FocusOut(flipped) ELSE {flipped}}

\* geometryChange.
Resized(v, size) == {ScheduleResize([v EXCEPT !.size = size])}

\* setTerminalInteraction(true, true): a blur that waits for its retry goes first.
Granted(v) ==
  LET focused == IF v.desired /\ v.focusRetry # "blur"
                 THEN SendFocus([v EXCEPT !.control = TRUE])
                 ELSE {[v EXCEPT !.control = TRUE]}
  IN {ScheduleResize([w EXCEPT !.claimPending = w.authority]) : w \in focused}

\* setTerminalInteraction(false, false): the focus goes and stays wanted.
Revoked(v) ==
  LET cleared == ClearPendingInput([v EXCEPT !.control = FALSE])
      blurred == IF v.claimed \/ v.pendingFocus # 0 \/ v.desired
                 THEN {[w EXCEPT !.desired = v.desired] : w \in SendBlur(cleared)}
                 ELSE {cleared}
  IN {[w EXCEPT !.resizeRetry = FALSE, !.pendingResize = NoResize,
                !.claimPending = FALSE, !.lastSize = 0] : w \in blurred}

SetTerminalInteraction(v) == IF v.control THEN Revoked(v) ELSE Granted(v)

SetFocusedSizeAuthority(v) ==
  LET focused == [v EXCEPT !.authority = ~@, !.claimPending = ~v.authority /\ v.control]
  IN {IF focused.claimPending THEN ScheduleResize(focused) ELSE focused}

\* detach: its blur is tried again on the spot while the runtime is busy, and what
\* came of it goes with the subscription.
Detached(v) ==
  ClearPendingInput(
    [v EXCEPT !.epoch = @ + 1, !.attached = FALSE, !.ready = FALSE,
              !.resizeQueued = FALSE, !.lastSize = 0, !.pendingResize = NoResize,
              !.pendingFocus = 0, !.claimed = FALSE, !.focusRetry = "none",
              !.resizeRetry = FALSE, !.claimPending = FALSE, !.desired = FALSE,
              !.sent = <<>>, !.focusRefused = FALSE, !.resizeRefused = FALSE,
              !.passedOver = FALSE])

Attached(v) ==
  [v EXCEPT !.epoch = @ + 1, !.attached = TRUE,
            !.claimPending = v.authority /\ v.control]

(***************************************************************************)
(* Steps.                                                                  *)
(***************************************************************************)
Change(after) ==
  /\ changes < ChangeLimit
  /\ changes' = changes + 1
  /\ view' \in after
  /\ UNCHANGED <<events, runtime>>

ItemChanges ==
  \/ ~view.activeFocus /\ InteractionAvailable(view) /\ Change(FocusIn(view))
  \/ view.activeFocus /\ Change(FocusOut(view))
  \/ Change(SetShown(view))
  \/ Change(SetEnabled(view))
  \/ \E size \in Size \ {view.size} : Change(Resized(view, size))

ApplicationChanges ==
  \/ Change(SetTerminalInteraction(view))
  \/ Change(SetFocusedSizeAuthority(view))

Type == Change(EnqueueInput(view))

\* attach, which detaches first; when the terminal is connected by it, the runtime
\* tells so.
Attach ==
  /\ view.epoch + 2 <= EpochLimit
  /\ view' = Attached(Detached(view))
  /\ events' \in {<<>>, <<[type |-> "connected", id |-> 0, applied |-> TRUE]>>}
  /\ runtime' = Unknown
  /\ UNCHANGED changes

Detach ==
  /\ view.attached
  /\ view.epoch < EpochLimit
  /\ view' = Detached(view)
  /\ events' = <<>>
  /\ runtime' = Unknown
  /\ UNCHANGED changes

\* drainFrame finds a frame.
PresentFrame ==
  /\ view.attached
  /\ view' = ScheduleResize([view EXCEPT !.ready = TRUE])
  /\ UNCHANGED <<changes, events, runtime>>

\* drainGuiEvents takes an event.
HandleEvent ==
  /\ events # <<>>
  /\ events' = Tail(events)
  /\ LET event == Head(events) IN
     \/ /\ event.type = "connected"
        /\ view' \in IF view.activeFocus /\ InteractionAvailable(view)
                     THEN SendFocus(view) ELSE {view}
     \/ event.type = "focus"  /\ view' = HandleFocusOutcome(view, event)
     \/ event.type = "resize" /\ view' = HandleResizeOutcome(view, event)
  /\ UNCHANGED <<changes, runtime>>

Fenced(timer) == timer.epoch = view.epoch

\* A timer fires; one of an earlier attachment does nothing, nor does one whose
\* inputs were cleared.
TimerFires(timer) ==
  LET fired == [view EXCEPT !.timers = @ (-) SetToBag({timer})] IN
  /\ \/ /\ ~Fenced(timer)
        /\ view' = fired
     \/ /\ Fenced(timer) /\ timer.does = "focusRetry"
        /\ LET taken == [fired EXCEPT !.focusRetry = "none"] IN
           \/ view.focusRetry = "none"  /\ view' = taken
           \/ view.focusRetry = "focus" /\ view' \in DispatchFocus(taken)
           \/ view.focusRetry = "blur"  /\ view' \in DispatchBlur(taken)
     \/ /\ Fenced(timer) /\ timer.does = "resize"
        /\ view' \in DispatchResize([fired EXCEPT !.resizeQueued = FALSE])
     \/ /\ Fenced(timer) /\ timer.does = "resizeRetry"
        /\ view' \in DispatchResize([fired EXCEPT !.resizeRetry = FALSE])
     \/ /\ Fenced(timer) /\ timer.does = "inputRetry"
        /\ IF timer.generation = view.inputGeneration
           THEN view' \in DrainInputQueue([fired EXCEPT !.inputRetry = FALSE])
           ELSE view' = fired
  /\ UNCHANGED <<changes, events, runtime>>

\* External: the runtime carries out the next command and posts its outcome.
RuntimeCarriesOut(applied) ==
  /\ view.sent # <<>>
  /\ applied \/ view.refusals < RefusalLimit
  /\ LET command == Head(view.sent)
         what    == command.what
     IN /\ view' = [view EXCEPT !.sent = Tail(@),
                                !.refusals = IF applied THEN @ ELSE @ + 1]
        /\ \/ /\ command.type = "blur" /\ applied
              /\ runtime' = [runtime EXCEPT !.focused = FALSE]
              /\ UNCHANGED events
           \/ /\ command.type = "focus"
              /\ runtime' = [runtime EXCEPT !.focused = @ \/ applied]
              /\ events' = Append(events, [type |-> "focus", id |-> what.id,
                                           applied |-> applied])
           \/ /\ command.type = "resize"
              /\ runtime' = IF applied
                            THEN [runtime EXCEPT !.size = what.size,
                                                 !.claimed = @ \/ what.claim]
                            ELSE runtime
              /\ events' = Append(events, [type |-> "resize", id |-> what.id,
                                           applied |-> applied])
  /\ UNCHANGED changes

Next ==
  \/ ItemChanges \/ ApplicationChanges \/ Type
  \/ Attach \/ Detach \/ PresentFrame \/ HandleEvent
  \/ \E timer \in DOMAIN view.timers : TimerFires(timer)
  \/ \E applied \in BOOLEAN : RuntimeCarriesOut(applied)

Spec == Init /\ [][Next]_vars

(***************************************************************************)
(* Properties.                                                             *)
(***************************************************************************)
Coming(does) ==
  \E timer \in DOMAIN view.timers :
    /\ timer.does = does /\ timer.epoch = view.epoch
    /\ does = "inputRetry" => timer.generation = view.inputGeneration

\* Whatever waits for a timer has one coming: a flag that says so is never left
\* behind by a detachment, a revocation or a hidden view, and input never waits
\* without it.
RetryIsComing ==
  /\ view.focusRetry # "none" => Coming("focusRetry")
  /\ view.resizeQueued => Coming("resize")
  /\ view.resizeRetry => Coming("resizeRetry")
  /\ view.inputRetry <=> Coming("inputRetry")
  /\ view.queue # <<>> => view.inputRetry

\* Nothing is on its way between the view and the runtime.
Settled ==
  /\ view.attached /\ view.ready
  /\ view.sent = <<>> /\ events = <<>>
  /\ \A timer \in DOMAIN view.timers : timer.epoch # view.epoch

CanResize == view.control /\ InteractionAvailable(view) /\ ~view.resizeRefused

\* Once settled, view and runtime agree.  The focus is where it is wanted unless the
\* runtime said no: no blur is lost behind a focus, nor a focus behind the retry of
\* a blur.  The runtime has the size of the view, however often it was resized,
\* hidden, revoked and refused meanwhile, unless the last look at the size passed it
\* over: the view was disabled, or its size was compared with what the runtime was
\* last heard to have while another was on its way.  And a view with the authority
\* over the size has made its claim, also when a resize without claim was on its way
\* as it got the authority.
AgreeOnceSettled ==
  Settled =>
    /\ ~view.focusRefused =>
         /\ runtime.focused = view.claimed
         /\ view.claimed <=> view.desired /\ view.control /\ InteractionAvailable(view)
    /\ CanResize /\ ~view.passedOver =>
         /\ runtime.size = view.size
         /\ view.authority => runtime.claimed

\* Inputs are taken in the order they were typed, each once and by the session it
\* was typed for; none is taken after interaction was lost.
InputInTurn == ~view.stray
================================================================================
