------------------------------ MODULE ViewMailbox ------------------------------
(***************************************************************************)
(* How a terminal view receives what the registry publishes for its        *)
(* surface (src/terminal/TerminalView.cpp): frames through a mailbox of    *)
(* one place (detail::TerminalFrameMailbox), everything else through a     *)
(* bounded queue of GUI events, both drained by calls posted to the event  *)
(* loop of the GUI thread.  Attaching and detaching the view move the      *)
(* attachment epoch, by which what belongs to an earlier attachment is     *)
(* recognised.                                                             *)
(*                                                                         *)
(* Both threads publish (publishFrame of TerminalSessionRegistry.cpp): the *)
(* callback thread what the runtime delivers, the GUI thread what a scroll *)
(* or a selection changed.  They hold the listener mutex of the entry      *)
(* while they do.  A step is what a thread does under one mutex, or one    *)
(* load or increment of the atomic epoch.                                  *)
(*                                                                         *)
(* External: Qt's event loop, a queue of posted calls run in order.        *)
(***************************************************************************)
EXTENDS Naturals, Sequences, FiniteSets

CONSTANTS
  EpochLimit,    \* bound: attachment epochs
  RevisionLimit, \* bound: display revisions of one attachment
  SentLimit,     \* bound: GUI events sent to one attachment
  EventLimit     \* capacity of m_guiEvents (64)

ASSUME ConstantsAssumption ==
  /\ {EpochLimit, RevisionLimit, SentLimit} \subseteq Nat
  /\ EventLimit \in Nat \ {0}

VARIABLES
  epoch,   \* m_attachmentEpoch
  mailbox, \* m_frameMailbox; pending is 0 when it is empty
  queue,   \* m_guiEvents, m_guiOverflow, m_guiDrainQueued
  loop,    \* the calls posted to the GUI thread
  entry,   \* the registry's entry of the view: epoch its listener captured,
           \* active, the kernel's revision, lastPublishedDisplayRevision
  lock,    \* holder of the entry's listener mutex
  pub,     \* the frame each thread is publishing
  gui,     \* control state of the GUI thread
  view,    \* m_frame: its revision, and the epoch it was presented in
  sent     \* history: GUI events sent to this attachment, and handled by it

vars == <<epoch, mailbox, queue, loop, entry, lock, pub, gui, view, sent>>

Thread == {"gui", "callback"}
Kind   == {"note", "refused", "closed"}

\* What a listener is told besides frames.  "note" stands for failures, focus
\* and resize outcomes and accepted connections, which leave the attachment as
\* it is.  n and seen are history: the event's number, and the last revision
\* published before it.
Event == [kind : Kind, n : 1 .. SentLimit, seen : 0 .. RevisionLimit]

\* A call posted with QMetaObject::invokeMethod.
Posted == [call : {"drainFrame", "drainGuiEvents"}, epoch : 0 .. EpochLimit]
DrainFrame(e)     == [call |-> "drainFrame", epoch |-> e]
DrainGuiEvents(e) == [call |-> "drainGuiEvents", epoch |-> e]

\* Where the GUI thread is: the steps it has still to take, a call's own before
\* those that follow it, since a handler may attach or detach the view while a
\* drain runs.  in, frame, batch and seen are the locals of the drain: its epoch,
\* the frame taken, the events left, and seen of the closed event.
DetachSteps == <<"bump", "reset", "clear", "unregister">>
AttachSteps == DetachSteps \o <<"bump", "reset", "register", "connect">>
StepName == {"present", "handle", "closing", "bump", "reset", "clear",
             "unregister", "register", "connect", "rollback"}
GuiType == [todo : Seq(StepName), in : 0 .. EpochLimit, frame : 0 .. RevisionLimit,
            batch : Seq(Event), seen : 0 .. RevisionLimit]
GuiIdle == [todo |-> <<>>, in |-> 0, frame |-> 0, batch |-> <<>>, seen |-> 0]

PubType == [pc : {"idle", "publish", "check", "put", "post"},
            epoch : 0 .. EpochLimit, rev : 0 .. RevisionLimit]
PubIdle == [pc |-> "idle", epoch |-> 0, rev |-> 0]

TypeOK ==
  /\ epoch \in 0 .. EpochLimit
  /\ mailbox \in [incarnation : 0 .. EpochLimit, highest : 0 .. RevisionLimit,
                  pending : 0 .. RevisionLimit, queued : BOOLEAN]
  /\ queue.events \in Seq(Event) /\ Len(queue.events) <= EventLimit
  /\ queue.overflow \in BOOLEAN /\ queue.queued \in BOOLEAN
  /\ loop \in Seq(Posted)
  /\ entry \in [epoch : 0 .. EpochLimit, active : BOOLEAN,
                rev : 0 .. RevisionLimit, pub : 0 .. RevisionLimit]
  /\ lock \in Thread \cup {"free"}
  /\ pub \in [Thread -> PubType]
  /\ gui \in GuiType
  /\ view \in [rev : 0 .. RevisionLimit, epoch : 0 .. EpochLimit]
  /\ sent \in [accepted : 0 .. SentLimit, handled : 0 .. SentLimit]

NoEvents == [events |-> <<>>, overflow |-> FALSE, queued |-> FALSE]
NoFrame  == [rev |-> 0, epoch |-> 0]

Init ==
  /\ epoch = 0
  /\ mailbox = [incarnation |-> 0, highest |-> 0, pending |-> 0, queued |-> FALSE]
  /\ queue = NoEvents
  /\ loop = <<>>
  /\ entry = [epoch |-> 0, active |-> FALSE, rev |-> 0, pub |-> 0]
  /\ lock = "free"
  /\ pub = [th \in Thread |-> PubIdle]
  /\ gui = GuiIdle
  /\ view = NoFrame
  /\ sent = [accepted |-> 0, handled |-> 0]

(***************************************************************************)
(* Publishing a frame.                                                     *)
(***************************************************************************)
Free(th) == pub[th].pc = "idle" /\ (th = "gui" => gui.todo = <<>>)

\* An operation on the kernel of the entry returns a newer frame.
Redraw(th) ==
  /\ Free(th)
  /\ entry.active
  /\ entry.rev < RevisionLimit
  /\ entry' = [entry EXCEPT !.rev = @ + 1]
  /\ pub' = [pub EXCEPT ![th] = [pc |-> "publish", epoch |-> entry.epoch,
                                 rev |-> entry.rev + 1]]
  /\ UNCHANGED <<epoch, mailbox, queue, loop, lock, gui, view, sent>>

Release(th) ==
  /\ lock' = "free"
  /\ pub' = [pub EXCEPT ![th] = PubIdle]

\* publishFrame: the entry may have been deactivated since, and the other
\* thread may have published a newer frame.
Publish(th) ==
  /\ pub[th].pc = "publish"
  /\ lock = "free"
  /\ IF entry.active /\ entry.epoch = pub[th].epoch /\ pub[th].rev > entry.pub
     THEN /\ entry' = [entry EXCEPT !.pub = pub[th].rev]
          /\ lock' = th
          /\ pub' = [pub EXCEPT ![th].pc = "check"]
     ELSE /\ Release(th)
          /\ UNCHANGED entry
  /\ UNCHANGED <<epoch, mailbox, queue, loop, gui, view, sent>>

\* enqueueFrame loads the epoch before it takes the mailbox's mutex.
CheckEpoch(th) ==
  /\ pub[th].pc = "check"
  /\ IF epoch = pub[th].epoch
     THEN pub' = [pub EXCEPT ![th].pc = "put"] /\ UNCHANGED lock
     ELSE Release(th)
  /\ UNCHANGED <<epoch, mailbox, queue, loop, entry, gui, view, sent>>

Accepts(e, r) == e = mailbox.incarnation /\ r > mailbox.highest

NeedsDrain == ~mailbox.queued

\* TerminalFrameMailbox::enqueue.
Put(th) ==
  /\ pub[th].pc = "put"
  /\ IF Accepts(pub[th].epoch, pub[th].rev)
     THEN /\ mailbox' = [mailbox EXCEPT !.highest = pub[th].rev,
                                        !.pending = pub[th].rev, !.queued = TRUE]
          /\ IF NeedsDrain THEN pub' = [pub EXCEPT ![th].pc = "post"] /\ UNCHANGED lock
             ELSE Release(th)
     ELSE /\ Release(th)
          /\ UNCHANGED mailbox
  /\ UNCHANGED <<epoch, queue, loop, entry, gui, view, sent>>

Post(th) ==
  /\ pub[th].pc = "post"
  /\ loop' = Append(loop, DrainFrame(pub[th].epoch))
  /\ Release(th)
  /\ UNCHANGED <<epoch, mailbox, queue, entry, gui, view, sent>>

(***************************************************************************)
(* enqueueGuiEvent, under the mutex of the queue; the epoch is loaded under*)
(* it too.  The event that does not fit empties the queue.                 *)
(***************************************************************************)
AlwaysQueued(event) == Append(queue.events, event)  \* mutant: no capacity
Queued(event) ==
  IF Len(queue.events) >= EventLimit THEN <<>> ELSE Append(queue.events, event)

\* The GUI thread reports its own failed operations only.
Send(th, kind) ==
  LET event == [kind |-> kind, n |-> sent.accepted + 1, seen |-> entry.pub] IN
  /\ Free(th)
  /\ lock = "free"
  /\ entry.active
  /\ sent.accepted < SentLimit
  /\ kind \in (IF th = "gui" THEN {"note"} ELSE Kind)
  /\ IF epoch # entry.epoch \/ queue.overflow
     THEN UNCHANGED <<queue, loop, sent>>
     ELSE /\ queue' = [events |-> Queued(event),
                       overflow |-> Len(queue.events) >= EventLimit, queued |-> TRUE]
          /\ loop' = IF queue.queued THEN loop ELSE Append(loop, DrainGuiEvents(epoch))
          /\ sent' = [sent EXCEPT !.accepted = @ + 1]
  /\ UNCHANGED <<epoch, mailbox, entry, lock, pub, gui, view>>

(***************************************************************************)
(* The GUI thread.                                                         *)
(***************************************************************************)
At(step) == gui.todo # <<>> /\ Head(gui.todo) = step

\* The step is done; call is what it calls before the GUI thread goes on.
Done(call) == [gui EXCEPT !.todo = call \o Tail(@)]

FlagKept == [mailbox EXCEPT !.pending = 0]  \* mutant: the flag is left set
Emptied == [mailbox EXCEPT !.pending = 0, !.queued = FALSE]

\* drainFrame(epoch), the epoch having been compared: TerminalFrameMailbox::take,
\* then presentFrame when there was a frame, then whatever follows the call.
TakeFrame(next) ==
  IF mailbox.incarnation = epoch
  THEN /\ mailbox' = Emptied
       /\ gui' = IF mailbox.pending = 0 THEN next
                 ELSE [next EXCEPT !.todo = <<"present">> \o @, !.frame = mailbox.pending]
  ELSE /\ gui' = next
       /\ UNCHANGED mailbox

RunDrainFrame ==
  /\ Free("gui")
  /\ loop # <<>> /\ Head(loop).call = "drainFrame"
  /\ loop' = Tail(loop)
  /\ IF Head(loop).epoch = epoch THEN TakeFrame(GuiIdle) ELSE UNCHANGED <<mailbox, gui>>
  /\ UNCHANGED <<epoch, queue, entry, lock, pub, view, sent>>

MayDetach == epoch + 1 <= EpochLimit
MayAttach == epoch + 3 <= EpochLimit

\* presentFrame; a handler of its signals may attach the view to something else.
Present ==
  /\ At("present")
  /\ view' = [rev |-> gui.frame, epoch |-> epoch]
  /\ \/ gui' = [Done(<<>>) EXCEPT !.frame = 0]
     \/ MayAttach /\ gui' = [Done(AttachSteps) EXCEPT !.frame = 0]
  /\ UNCHANGED <<epoch, mailbox, queue, loop, entry, lock, pub, sent>>

RunDrainGuiEvents ==
  /\ Free("gui")
  /\ loop # <<>> /\ Head(loop).call = "drainGuiEvents"
  /\ loop' = Tail(loop)
  /\ \/ /\ Head(loop).epoch # epoch
        /\ UNCHANGED <<queue, gui>>
     \/ /\ Head(loop).epoch = epoch
        /\ queue' = [queue EXCEPT !.events = <<>>, !.queued = FALSE]
        /\ gui' = IF queue.overflow THEN [GuiIdle EXCEPT !.todo = DetachSteps]
                  ELSE [GuiIdle EXCEPT !.todo = <<"handle">>, !.in = epoch,
                                       !.batch = queue.events]
  /\ UNCHANGED <<epoch, mailbox, entry, lock, pub, view, sent>>

StillAttached == epoch = gui.in

\* Mutant of LastFrame: the view is closed at once.
NotDrained(next) == gui' = next /\ UNCHANGED mailbox
LastFrame(next) == TakeFrame(next)

\* One turn of the loop of drainGuiEvents.  A refused connection makes the
\* surface controller detach the view while the loop runs; a closed terminal
\* is drained of its last frame first.
Handle ==
  LET event == Head(gui.batch)
      rest  == [gui EXCEPT !.batch = Tail(gui.batch)]
  IN
  /\ At("handle")
  /\ \/ /\ gui.batch = <<>> \/ ~StillAttached
        /\ gui' = GuiIdle
        /\ UNCHANGED <<mailbox, sent>>
     \/ /\ gui.batch # <<>> /\ StillAttached
        /\ sent' = [sent EXCEPT !.handled = event.n]
        /\ CASE event.kind = "note"    -> gui' = rest /\ UNCHANGED mailbox
             [] event.kind = "refused" -> /\ gui' = [rest EXCEPT !.todo = DetachSteps \o @]
                                          /\ UNCHANGED mailbox
             [] event.kind = "closed"  -> LastFrame([rest EXCEPT !.todo = <<"closing">> \o @,
                                                                 !.seen = event.seen])
  /\ UNCHANGED <<epoch, queue, loop, entry, lock, pub, view>>

\* The terminal has ended: after its last frame the view is detached, unless a
\* handler of that frame attached it to another session.
CloseView ==
  /\ At("closing")
  /\ gui' = IF StillAttached THEN [Done(DetachSteps) EXCEPT !.seen = 0] ELSE GuiIdle
  /\ UNCHANGED <<epoch, mailbox, queue, loop, entry, lock, pub, view, sent>>

(***************************************************************************)
(* detach and attach.                                                      *)
(***************************************************************************)
Detach ==
  /\ Free("gui")
  /\ MayDetach
  /\ gui' = [GuiIdle EXCEPT !.todo = DetachSteps]
  /\ UNCHANGED <<epoch, mailbox, queue, loop, entry, lock, pub, view, sent>>

Attach ==
  /\ Free("gui")
  /\ MayAttach
  /\ gui' = [GuiIdle EXCEPT !.todo = AttachSteps]
  /\ UNCHANGED <<epoch, mailbox, queue, loop, entry, lock, pub, view, sent>>

Bump ==
  /\ At("bump")
  /\ epoch' = epoch + 1
  /\ gui' = Done(<<>>)
  /\ UNCHANGED <<mailbox, queue, loop, entry, lock, pub, view, sent>>

Fresh == [incarnation |-> epoch, highest |-> 0, pending |-> 0, queued |-> FALSE]

ResetMailbox ==
  /\ At("reset")
  /\ mailbox' = Fresh
  /\ gui' = Done(<<>>)
  /\ UNCHANGED <<epoch, queue, loop, entry, lock, pub, view, sent>>

\* Mutants of Cleared: the flag of a posted drain, or the events, are kept.
FlagLeft == [NoEvents EXCEPT !.queued = queue.queued]
EventsLeft == [queue EXCEPT !.overflow = FALSE]

Cleared == NoEvents

ClearEvents ==
  /\ At("clear")
  /\ queue' = Cleared
  /\ gui' = Done(<<>>)
  /\ UNCHANGED <<epoch, mailbox, loop, entry, lock, pub, view, sent>>

\* unregisterSurface waits for the listener mutex.
Deactivate ==
  /\ lock = "free"
  /\ entry' = [entry EXCEPT !.active = FALSE]

Unregister ==
  /\ At("unregister")
  /\ Deactivate
  /\ view' = NoFrame
  /\ gui' = Done(<<>>)
  /\ UNCHANGED <<epoch, mailbox, queue, loop, lock, pub, sent>>

\* The registry may refuse the surface.
Register ==
  /\ At("register")
  /\ \/ /\ entry' = [epoch |-> epoch, active |-> TRUE, rev |-> 0, pub |-> 0]
        /\ gui' = Done(<<>>)
        /\ sent' = [accepted |-> 0, handled |-> 0]
     \/ /\ gui' = [gui EXCEPT !.todo = Tail(Tail(@))]
        /\ UNCHANGED <<entry, sent>>
  /\ UNCHANGED <<epoch, mailbox, queue, loop, lock, pub, view>>

\* connectTerminal or refreshTerminal; a refusal takes the registration back.
Connect ==
  /\ At("connect")
  /\ gui' \in {Done(<<>>), Done(<<"rollback">>)}
  /\ UNCHANGED <<epoch, mailbox, queue, loop, entry, lock, pub, view, sent>>

Rollback ==
  /\ At("rollback")
  /\ Deactivate
  /\ gui' = Done(<<>>)
  /\ UNCHANGED <<epoch, mailbox, queue, loop, lock, pub, view, sent>>

PublishStep(th) == Publish(th) \/ CheckEpoch(th) \/ Put(th) \/ Post(th)

GuiStep == \/ Present \/ RunDrainFrame \/ RunDrainGuiEvents \/ Handle \/ CloseView
           \/ Bump \/ ResetMailbox \/ ClearEvents \/ Unregister
           \/ Register \/ Connect \/ Rollback \/ PublishStep("gui")

Next ==
  \/ GuiStep
  \/ PublishStep("callback")
  \/ Attach \/ Detach
  \/ \E th \in Thread : Redraw(th) \/ \E kind \in Kind : Send(th, kind)

Spec == Init /\ [][Next]_vars

\* The GUI thread goes on with what it does and runs its event loop; the
\* callback thread finishes a callback it has begun.
FairSpec == Spec /\ WF_vars(GuiStep) /\ WF_vars(PublishStep("callback"))

(***************************************************************************)
(* Properties.                                                             *)
(***************************************************************************)
\* The calls posted for the current attachment.
Due(call) == {i \in DOMAIN loop : loop[i] = [call |-> call, epoch |-> epoch]}

Posting == \E th \in Thread : pub[th].pc = "post" /\ pub[th].epoch = epoch

\* The mailbox and the queue are of the current epoch, the GUI thread not being
\* between moving the epoch and clearing them.
Settled == mailbox.incarnation = epoch /\ ~At("clear")

\* A flag that says a drain is coming is true, and is set whenever there is
\* something to drain: nothing of the current attachment waits for a call that
\* was never posted, whatever detaches, closes and stale drains there were.  Nor
\* can a fast terminal flood the event loop: whenever the GUI thread is back in
\* it, one drain of each kind is posted for an attachment at most; the second one
\* that a closed terminal draws, draining its last frame out of turn, is stale by
\* then.
DrainIsComing ==
  /\ Settled =>
       /\ mailbox.queued => Due("drainFrame") # {} \/ Posting
       /\ queue.queued => Due("drainGuiEvents") # {}
       /\ mailbox.pending # 0 => mailbox.queued
       /\ queue.events # <<>> => queue.queued
  /\ gui.todo = <<>> =>
       /\ \A i, j \in Due("drainGuiEvents") : i = j
       /\ Cardinality(Due("drainFrame")) + (IF Posting THEN 1 ELSE 0) <= 1

\* No GUI event of an attachment is lost, repeated or reordered while the view
\* is attached and the queue has not overflowed: the events in hand and in the
\* queue are exactly those sent and not handled yet.
EventsInOrder ==
  LET waiting == (IF epoch = gui.in THEN gui.batch ELSE <<>>) \o queue.events IN
  entry.active /\ entry.epoch = epoch /\ ~queue.overflow =>
    /\ sent.handled + Len(waiting) = sent.accepted
    /\ \A i \in DOMAIN waiting : waiting[i].n = sent.handled + i

\* A terminal that ended has shown the last frame published before its end when
\* it is detached, although frames and events take different ways; and its end
\* never detaches the attachment that replaced it, made by a handler of the same
\* drain.
EndedInItsTurn ==
  /\ At("closing") /\ epoch = gui.in /\ gui.seen # 0 =>
       view.epoch = epoch /\ view.rev >= gui.seen
  /\ gui.todo = DetachSteps \o <<"handle">> => epoch = gui.in

\* Once the queue overflowed, the view is detached.
OverflowDetaches == queue.overflow ~> ~entry.active

\* The frames of an attachment are shown in order, and the newest in the end.
Frames == INSTANCE LatestFrame WITH
  offered <- IF mailbox.incarnation = epoch THEN mailbox.highest ELSE 0,
  shown   <- IF view.epoch = epoch THEN view.rev ELSE 0
NewestFrameShown == Frames!Spec

\* A view whose attachment was refused shows nothing.
RefusedShowsNothing == gui.todo = <<>> /\ ~entry.active => view.rev = 0
================================================================================
