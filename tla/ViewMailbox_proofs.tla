--------------------------- MODULE ViewMailbox_proofs ---------------------------
(***************************************************************************)
(* What ViewMailbox promises, for any number of epochs, frames and events  *)
(* and any capacity of the queue.                                          *)
(*                                                                         *)
(* Sound is its type correctness: the bound of the epochs is kept only     *)
(* because attach and detach take their steps in order, also when one is   *)
(* called inside a drain, so it says where the GUI thread can be.  It also *)
(* says what the rest needs: nothing is tagged with an epoch to come, and  *)
(* while detach or attach is between moving the epoch and the registration *)
(* nothing at all is of the current epoch.                                 *)
(*                                                                         *)
(* IInv adds a part for the mailbox and its drain, one for the queue and   *)
(* its drain, one for the order of the events, and one for the frames on   *)
(* their way to the screen.                                                *)
(***************************************************************************)
EXTENDS ViewMailbox, FiniteSetTheorems, TLAPS

-----------------------------------------------------------------------------
(* The steps the GUI thread has still to take, and the types.               *)


\* The steps the GUI thread has still to take, named by the step that comes
\* first.  The last four are those of attach once the old attachment is gone.
To(step, rest) == <<step>> \o rest

\* What follows a step: the loop of drainGuiEvents, and the end of the view
\* before it.
Loop == <<"handle">>
End == <<"closing", "handle">>
AtUnregister(rest) == To("unregister", rest)
AtClear(rest) == To("clear", AtUnregister(rest))
AtReset(rest) == To("reset", AtClear(rest))
AtBump(rest) == To("bump", AtReset(rest))
AtConnect(rest) == To("connect", rest)
AtRegister(rest) == To("register", AtConnect(rest))
AtReset2(rest) == To("reset", AtRegister(rest))
AtBump2(rest) == To("bump", AtReset2(rest))

\* The registry has no entry of the view, and the queue is empty.
Bare == ~entry.active /\ queue = NoEvents

\* Inside detach, b following it.  Before the epoch is moved inside the loop of
\* drainGuiEvents, it is still the epoch of the drain.
Detaching(b) ==
   \/ gui.todo = AtBump(b) /\ epoch + 1 <= EpochLimit /\ (b = Loop => gui.in = epoch)
   \/ gui.todo \in {AtReset(b), AtClear(b), AtUnregister(b)}

\* Inside attach, b following it, with as many epochs left as it still takes.
Attaching(b) ==
   \/ gui.todo = AtBump(AtBump2(b)) /\ epoch + 3 <= EpochLimit
   \/ gui.todo \in {AtReset(AtBump2(b)), AtClear(AtBump2(b)), AtUnregister(AtBump2(b))} /\ epoch + 2 <= EpochLimit
   \/ gui.todo = AtBump2(b) /\ epoch + 2 <= EpochLimit /\ Bare
   \/ gui.todo \in {AtReset2(b), AtRegister(b)} /\ epoch + 1 <= EpochLimit /\ Bare
   \/ gui.todo \in {AtConnect(b), To("rollback", b)}

\* Where the GUI thread can be: outside a drain of events, or inside one.
Control ==
  \/ /\ gui.in = 0 /\ gui.batch = <<>> /\ gui.seen = 0
     /\ \/ gui.todo \in {<<>>, To("present", <<>>)} \/ Detaching(<<>>) \/ Attaching(<<>>)
  \/ /\ gui.in # 0
     /\ \/ gui.todo \in {Loop, End, To("present", End)} \/ Detaching(Loop) \/ Attaching(End)

\* What is tagged with an epoch of an attachment can still be detached.
Room ==
  /\ entry.active => entry.epoch \in 1 .. EpochLimit - 1
  /\ \A i \in DOMAIN loop : loop[i].call = "drainGuiEvents" => loop[i].epoch \in 1 .. EpochLimit - 1
  /\ gui.in # 0 => gui.in < EpochLimit

\* Nothing is tagged with an epoch that has not been yet.
NotAhead ==
  /\ entry.epoch <= epoch /\ gui.in <= epoch /\ view.epoch <= epoch /\ mailbox.incarnation <= epoch
  /\ \A th \in Thread : pub[th].epoch <= epoch
  /\ \A i \in DOMAIN loop : loop[i].epoch <= epoch

\* x is the next of the steps s.
Starts(s, x) == s # <<>> /\ Head(s) = x

\* The epoch has been moved, and detach or attach is not through with it.
Between == \E x \in {"reset", "clear", "unregister", "register"} : Starts(gui.todo, x)

\* Nothing is of the current epoch yet.
Behind ==
  /\ entry.epoch < epoch /\ gui.in < epoch /\ view.epoch < epoch
  /\ \A th \in Thread : pub[th].epoch < epoch
  /\ \A i \in DOMAIN loop : loop[i].epoch < epoch
QueueType == [events : Seq(Event), overflow : BOOLEAN, queued : BOOLEAN]

\* The part of the inductive invariant about types, control and epochs.
Sound ==
  /\ TypeOK
  /\ queue \in QueueType
  /\ Control
  /\ Room
  /\ NotAhead
  /\ Between => Behind
  /\ Starts(gui.todo, "unregister") => queue = NoEvents

-----------------------------------------------------------------------------
(* The steps of the GUI thread.                                             *)

\* Putting a step before others.
LEMMA ToFacts ==
  ASSUME NEW x \in StepName, NEW s \in Seq(StepName)
  PROVE  /\ To(x, s) \in Seq(StepName)
         /\ Starts(To(x, s), x)
         /\ Tail(To(x, s)) = s
<1>0. To(x, s) \in Seq(StepName) /\ Len(To(x, s)) = Len(s) + 1
  BY DEF To
<1>1. To(x, s) # <<>> /\ Head(To(x, s)) = x
  BY <1>0 DEF To
<1>2. Tail(To(x, s)) \in Seq(StepName) /\ Len(Tail(To(x, s))) = Len(s)
  BY <1>0
<1>3. \A i \in 1 .. Len(s) : Tail(To(x, s))[i] = s[i]
  BY <1>0 DEF To
<1> QED
  BY <1>0, <1>1, <1>2, <1>3 DEF Starts

\* The steps of detach, one after the other.
LEMMA DetachFacts ==
  ASSUME NEW b \in Seq(StepName)
  PROVE  /\ AtUnregister(b) \in Seq(StepName) /\ Starts(AtUnregister(b), "unregister") /\ Tail(AtUnregister(b)) = b
         /\ AtClear(b) \in Seq(StepName) /\ Starts(AtClear(b), "clear") /\ Tail(AtClear(b)) = AtUnregister(b)
         /\ AtReset(b) \in Seq(StepName) /\ Starts(AtReset(b), "reset") /\ Tail(AtReset(b)) = AtClear(b)
         /\ AtBump(b) \in Seq(StepName) /\ Starts(AtBump(b), "bump") /\ Tail(AtBump(b)) = AtReset(b)
<1> USE DEF StepName
<1>1. AtUnregister(b) \in Seq(StepName) /\ Starts(AtUnregister(b), "unregister") /\ Tail(AtUnregister(b)) = b
  BY ToFacts DEF AtUnregister
<1>2. AtClear(b) \in Seq(StepName) /\ Starts(AtClear(b), "clear") /\ Tail(AtClear(b)) = AtUnregister(b)
  BY <1>1, ToFacts DEF AtClear
<1>3. AtReset(b) \in Seq(StepName) /\ Starts(AtReset(b), "reset") /\ Tail(AtReset(b)) = AtClear(b)
  BY <1>2, ToFacts DEF AtReset
<1>4. AtBump(b) \in Seq(StepName) /\ Starts(AtBump(b), "bump") /\ Tail(AtBump(b)) = AtReset(b)
  BY <1>3, ToFacts DEF AtBump
<1> QED
  BY <1>1, <1>2, <1>3, <1>4

\* The steps of attach after those of detach, and the steps that stand alone.
LEMMA AttachFacts ==
  ASSUME NEW b \in Seq(StepName)
  PROVE  /\ AtConnect(b) \in Seq(StepName) /\ Starts(AtConnect(b), "connect") /\ Tail(AtConnect(b)) = b
         /\ AtRegister(b) \in Seq(StepName) /\ Starts(AtRegister(b), "register") /\ Tail(AtRegister(b)) = AtConnect(b)
         /\ AtReset2(b) \in Seq(StepName) /\ Starts(AtReset2(b), "reset") /\ Tail(AtReset2(b)) = AtRegister(b)
         /\ AtBump2(b) \in Seq(StepName) /\ Starts(AtBump2(b), "bump") /\ Tail(AtBump2(b)) = AtReset2(b)
         /\ To("rollback", b) \in Seq(StepName) /\ Starts(To("rollback", b), "rollback") /\ Tail(To("rollback", b)) = b
         /\ To("present", b) \in Seq(StepName) /\ Starts(To("present", b), "present") /\ Tail(To("present", b)) = b
<1> USE DEF StepName
<1>1. AtConnect(b) \in Seq(StepName) /\ Starts(AtConnect(b), "connect") /\ Tail(AtConnect(b)) = b
  BY ToFacts DEF AtConnect
<1>2. AtRegister(b) \in Seq(StepName) /\ Starts(AtRegister(b), "register") /\ Tail(AtRegister(b)) = AtConnect(b)
  BY <1>1, ToFacts DEF AtRegister
<1>3. AtReset2(b) \in Seq(StepName) /\ Starts(AtReset2(b), "reset") /\ Tail(AtReset2(b)) = AtRegister(b)
  BY <1>2, ToFacts DEF AtReset2
<1>4. AtBump2(b) \in Seq(StepName) /\ Starts(AtBump2(b), "bump") /\ Tail(AtBump2(b)) = AtReset2(b)
  BY <1>3, ToFacts DEF AtBump2
<1>5. To("rollback", b) \in Seq(StepName) /\ Starts(To("rollback", b), "rollback") /\ Tail(To("rollback", b)) = b
  BY ToFacts
<1>6. To("present", b) \in Seq(StepName) /\ Starts(To("present", b), "present") /\ Tail(To("present", b)) = b
  BY ToFacts
<1> QED
  BY <1>1, <1>2, <1>3, <1>4, <1>5, <1>6

\* What can follow attach and detach.
LEMMA EndFacts ==
  /\ <<>> \in Seq(StepName)
  /\ Loop \in Seq(StepName) /\ Starts(Loop, "handle") /\ Tail(Loop) = <<>>
  /\ End \in Seq(StepName) /\ Starts(End, "closing") /\ Tail(End) = Loop
BY DEF Loop, End, StepName, Starts

\* What detach, attach and the rollback of connectTerminal put before what
\* follows them.
LEMMA CallFacts ==
  ASSUME NEW b \in Seq(StepName)
  PROVE  /\ DetachSteps \o b = AtBump(b)
         /\ AttachSteps \o b = AtBump(AtBump2(b))
         /\ <<>> \o b = b
         /\ DetachSteps = AtBump(<<>>)
         /\ AttachSteps = AtBump(AtBump2(<<>>))
         /\ <<"rollback">> \o b = To("rollback", b)
         /\ <<"present">> \o b = To("present", b)
<1>1. ASSUME NEW c \in Seq(StepName) PROVE DetachSteps \o c = AtBump(c)
  BY DEF DetachSteps, AtBump, AtReset, AtClear, AtUnregister, To, StepName
<1>2. ASSUME NEW c \in Seq(StepName) PROVE <<"bump", "reset", "register", "connect">> \o c = AtBump2(c)
  BY DEF AtBump2, AtReset2, AtRegister, AtConnect, To, StepName
<1>3. AtBump2(b) \in Seq(StepName)
  BY AttachFacts
<1>4. AttachSteps \o b = DetachSteps \o (<<"bump", "reset", "register", "connect">> \o b)
  BY DEF AttachSteps, DetachSteps, StepName
<1>5. AttachSteps \o b = AtBump(AtBump2(b))
  BY <1>1, <1>2, <1>3, <1>4
<1>6. <<>> \o b = b
  OBVIOUS
<1>7. DetachSteps = AtBump(<<>>)
  <2>1. DetachSteps \o <<>> = DetachSteps
    BY DEF DetachSteps
  <2> QED
    BY <1>1, <2>1, EndFacts
<1>8. AttachSteps = AtBump(AtBump2(<<>>))
  <2>1. AttachSteps = DetachSteps \o <<"bump", "reset", "register", "connect">>
    BY DEF AttachSteps
  <2>2. <<"bump", "reset", "register", "connect">> \o <<>> = <<"bump", "reset", "register", "connect">>
    OBVIOUS
  <2>3. AtBump2(<<>>) = <<"bump", "reset", "register", "connect">> /\ AtBump2(<<>>) \in Seq(StepName)
    BY <1>2, <2>2, EndFacts, AttachFacts
  <2> QED
    BY <1>1, <2>1, <2>3
<1> QED
  BY <1>1, <1>5, <1>6, <1>7, <1>8 DEF To

\* The bounds are numbers, and the idle values are within them.
LEMMA Zero ==
  /\ EpochLimit \in Nat /\ RevisionLimit \in Nat
  /\ 0 \in 0 .. RevisionLimit /\ 0 \in 0 .. EpochLimit /\ <<>> \in Seq(Event)
BY ConstantsAssumption DEF ConstantsAssumption

\* Changing only the steps of the GUI thread.
LEMMA GuiFacts ==
  ASSUME gui \in GuiType, NEW s \in Seq(StepName), NEW g, g = [gui EXCEPT !.todo = s]
  PROVE  /\ g \in GuiType
         /\ g.todo = s /\ g.in = gui.in /\ g.frame = gui.frame
         /\ g.batch = gui.batch /\ g.seen = gui.seen
BY DEF GuiType

\* Changing its steps and the frame it presents.
LEMMA GuiFrameFacts ==
  ASSUME gui \in GuiType, NEW s \in Seq(StepName), NEW f \in 0 .. RevisionLimit,
         NEW g, g = [[gui EXCEPT !.todo = s] EXCEPT !.frame = f]
  PROVE  /\ g \in GuiType
         /\ g.todo = s /\ g.in = gui.in /\ g.frame = f
         /\ g.batch = gui.batch /\ g.seen = gui.seen
BY DEF GuiType

\* Changing its steps and what a closed terminal published last.
LEMMA GuiSeenFacts ==
  ASSUME gui \in GuiType, NEW s \in Seq(StepName), NEW f \in 0 .. RevisionLimit,
         NEW g, g = [[gui EXCEPT !.todo = s] EXCEPT !.seen = f]
  PROVE  /\ g \in GuiType
         /\ g.todo = s /\ g.in = gui.in /\ g.frame = gui.frame
         /\ g.batch = gui.batch /\ g.seen = f
BY DEF GuiType

\* The control state of the GUI thread, put together.
LEMMA GuiMade ==
  ASSUME NEW s \in Seq(StepName), NEW i \in 0 .. EpochLimit, NEW f \in 0 .. RevisionLimit,
         NEW b \in Seq(Event), NEW n \in 0 .. RevisionLimit
  PROVE  [todo |-> s, in |-> i, frame |-> f, batch |-> b, seen |-> n] \in GuiType
BY DEF GuiType

\* A call that begins from the event loop.
LEMMA IdleFacts ==
  ASSUME NEW s \in Seq(StepName), NEW g, g = [GuiIdle EXCEPT !.todo = s]
  PROVE  /\ g \in GuiType
         /\ g.todo = s /\ g.in = 0 /\ g.frame = 0 /\ g.batch = <<>> /\ g.seen = 0
<1>1. g = [todo |-> s, in |-> 0, frame |-> 0, batch |-> <<>>, seen |-> 0]
  BY DEF GuiIdle
<1>2. [todo |-> s, in |-> 0, frame |-> 0, batch |-> <<>>, seen |-> 0] \in GuiType
  BY Zero, GuiMade
<1>3. g.todo = s /\ g.in = 0 /\ g.frame = 0 /\ g.batch = <<>> /\ g.seen = 0
  BY <1>1
<1> QED
  BY <1>1, <1>2, <1>3

\* Nothing is left to do in the event loop.
LEMMA IdleGui == GuiIdle = [GuiIdle EXCEPT !.todo = <<>>]
BY DEF GuiIdle

Ends == {<<>>, Loop, End}

\* One step comes next.
LEMMA StartsOnce ==
  \A s, x, y : Starts(s, x) /\ Starts(s, y) => x = y
BY DEF Starts

\* What follows attach and detach begins with none of their steps.
LEMMA EndsFacts ==
  \A b \in Ends : b \in Seq(StepName) /\ \A x \in StepName \ {"handle", "closing"} : ~Starts(b, x)
BY EndFacts, StartsOnce DEF Ends, Starts

\* Turns of detach: t is what remains.
DetachTurn(b, t) ==
  \/ /\ Starts(gui.todo, "bump") /\ t = AtReset(b) /\ Starts(t, "reset")
     /\ gui.todo = AtBump(b) /\ epoch + 1 <= EpochLimit /\ (b = Loop => gui.in = epoch)
  \/ Starts(gui.todo, "reset") /\ t = AtClear(b) /\ Starts(t, "clear")
  \/ Starts(gui.todo, "clear") /\ t = AtUnregister(b) /\ Starts(t, "unregister")
  \/ Starts(gui.todo, "unregister") /\ t = b

\* Which step of detach is next, and what remains after it.
LEMMA DetachAt ==
  ASSUME NEW b \in Ends, Detaching(b)
  PROVE  DetachTurn(b, Tail(gui.todo))
<1>1. b \in Seq(StepName)
  BY EndsFacts
<1>2. CASE gui.todo = AtBump(b) /\ epoch + 1 <= EpochLimit /\ (b = Loop => gui.in = epoch)
  BY <1>1, <1>2, DetachFacts DEF DetachTurn
<1>3. CASE gui.todo = AtReset(b)
  BY <1>1, <1>3, DetachFacts DEF DetachTurn
<1>4. CASE gui.todo = AtClear(b)
  BY <1>1, <1>4, DetachFacts DEF DetachTurn
<1>5. CASE gui.todo = AtUnregister(b)
  BY <1>1, <1>5, DetachFacts DEF DetachTurn
<1> QED
  BY <1>2, <1>3, <1>4, <1>5 DEF Detaching

\* Turns of attach: t is what remains.
AttachTurn(b, t) ==
  \/ /\ Starts(gui.todo, "bump") /\ t = AtReset(AtBump2(b)) /\ Starts(t, "reset")
     /\ epoch + 3 <= EpochLimit
  \/ /\ Starts(gui.todo, "reset") /\ t = AtClear(AtBump2(b)) /\ Starts(t, "clear")
     /\ epoch + 2 <= EpochLimit
  \/ /\ Starts(gui.todo, "clear") /\ t = AtUnregister(AtBump2(b)) /\ Starts(t, "unregister")
     /\ epoch + 2 <= EpochLimit
  \/ /\ Starts(gui.todo, "unregister") /\ t = AtBump2(b) /\ Starts(t, "bump")
     /\ epoch + 2 <= EpochLimit
  \/ /\ Starts(gui.todo, "bump") /\ t = AtReset2(b) /\ Starts(t, "reset")
     /\ epoch + 2 <= EpochLimit /\ Bare
  \/ /\ Starts(gui.todo, "reset") /\ t = AtRegister(b) /\ Starts(t, "register")
     /\ epoch + 1 <= EpochLimit /\ Bare
  \/ /\ Starts(gui.todo, "register") /\ t = AtConnect(b) /\ Starts(t, "connect")
     /\ Tail(t) = b /\ epoch + 1 <= EpochLimit /\ Bare
  \/ Starts(gui.todo, "connect") /\ t = b
  \/ Starts(gui.todo, "rollback") /\ t = b

\* Which step of attach is next, and what remains after it.
LEMMA AttachAt ==
  ASSUME NEW b \in Ends, Attaching(b)
  PROVE  AttachTurn(b, Tail(gui.todo))
<1>1. b \in Seq(StepName)
  BY EndsFacts
<1>2. AtBump2(b) \in Seq(StepName) /\ Starts(AtBump2(b), "bump")
  BY <1>1, AttachFacts
<1>3. CASE gui.todo = AtBump(AtBump2(b)) /\ epoch + 3 <= EpochLimit
  BY <1>2, <1>3, DetachFacts DEF AttachTurn
<1>4. CASE gui.todo = AtReset(AtBump2(b)) /\ epoch + 2 <= EpochLimit
  BY <1>2, <1>4, DetachFacts DEF AttachTurn
<1>5. CASE gui.todo = AtClear(AtBump2(b)) /\ epoch + 2 <= EpochLimit
  BY <1>2, <1>5, DetachFacts DEF AttachTurn
<1>6. CASE gui.todo = AtUnregister(AtBump2(b)) /\ epoch + 2 <= EpochLimit
  BY <1>2, <1>6, DetachFacts DEF AttachTurn
<1>7. CASE gui.todo = AtBump2(b) /\ epoch + 2 <= EpochLimit /\ Bare
  BY <1>1, <1>7, AttachFacts DEF AttachTurn
<1>8. CASE gui.todo = AtReset2(b) /\ epoch + 1 <= EpochLimit /\ Bare
  BY <1>1, <1>8, AttachFacts DEF AttachTurn
<1>9. CASE gui.todo = AtRegister(b) /\ epoch + 1 <= EpochLimit /\ Bare
  <2>1. Starts(gui.todo, "register") /\ Tail(gui.todo) = AtConnect(b) /\ Starts(Tail(gui.todo), "connect")
    BY <1>1, <1>9, AttachFacts
  <2>2. Tail(AtConnect(b)) = b
    BY <1>1, AttachFacts
  <2> HIDE DEF Starts
  <2> QED
    BY <1>9, <2>1, <2>2 DEF AttachTurn
<1>10. CASE gui.todo = AtConnect(b)
  BY <1>1, <1>10, AttachFacts DEF AttachTurn
<1>11. CASE gui.todo = To("rollback", b)
  BY <1>1, <1>11, AttachFacts DEF AttachTurn
<1> QED
  BY <1>3, <1>4, <1>5, <1>6, <1>7, <1>8, <1>9, <1>10, <1>11 DEF Attaching

-----------------------------------------------------------------------------
(* Types, control and epochs.                                               *)

\* Before anything is attached.
LEMMA SoundInit == Init => Sound
<1> SUFFICES ASSUME Init PROVE Sound
  OBVIOUS
<1> USE DEF Init
<1>1. TypeOK
  BY ConstantsAssumption
     DEF TypeOK, NoEvents, NoFrame, GuiIdle, PubIdle, GuiType, PubType, Thread, ConstantsAssumption
<1>2. Control /\ ~Between /\ ~Starts(gui.todo, "unregister")
  BY DEF Control, GuiIdle, Between, Starts
<1>3. Room /\ NotAhead /\ queue \in QueueType
  BY DEF Room, NotAhead, NoEvents, NoFrame, GuiIdle, PubIdle, Thread, QueueType
<1> QED
  BY <1>1, <1>2, <1>3 DEF Sound

USE DEF Done, Thread

\* Types of the epoch and of the control state.
LEMMA Types ==
  ASSUME Sound
  PROVE  /\ EpochLimit \in Nat /\ RevisionLimit \in Nat /\ SentLimit \in Nat /\ EventLimit \in Nat
         /\ epoch \in Nat /\ epoch <= EpochLimit
         /\ gui \in GuiType /\ gui.todo \in Seq(StepName)
BY ConstantsAssumption DEF Sound, TypeOK, GuiType, ConstantsAssumption

\* Whatever is tagged with an epoch is tagged with a number.
LEMMA EpochTypes ==
  ASSUME Sound
  PROVE  /\ entry.epoch \in Nat /\ gui.in \in Nat /\ view.epoch \in Nat /\ mailbox.incarnation \in Nat
         /\ \A th \in Thread : pub[th].epoch \in Nat
         /\ \A i \in DOMAIN loop : loop[i].epoch \in Nat
<1> USE DEF Sound
<1>1. entry.epoch \in Nat /\ gui.in \in Nat /\ view.epoch \in Nat /\ mailbox.incarnation \in Nat
  BY Types DEF TypeOK, GuiType
<1>2. \A th \in Thread : pub[th].epoch \in Nat
  BY Types DEF TypeOK, PubType
<1>3. \A i \in DOMAIN loop : loop[i] \in Posted
  <2>1. loop \in Seq(Posted)
    BY DEF TypeOK
  <2> QED
    BY <2>1
<1> QED
  BY <1>1, <1>2, <1>3, Types DEF Posted

\* Revisions are numbers.
LEMMA RevTypes ==
  ASSUME Sound
  PROVE  /\ entry.rev \in Nat /\ entry.pub \in Nat /\ view.rev \in Nat
         /\ mailbox.highest \in Nat /\ mailbox.pending \in Nat
         /\ gui.frame \in Nat /\ gui.seen \in Nat
         /\ \A th \in Thread : pub[th].rev \in Nat
<1> USE DEF Sound
<1>1. entry.rev \in Nat /\ entry.pub \in Nat /\ view.rev \in Nat /\ mailbox.highest \in Nat /\ mailbox.pending \in Nat
  BY Types DEF TypeOK
<1>2. gui.frame \in Nat /\ gui.seen \in Nat
  BY Types DEF GuiType
<1>3. \A th \in Thread : pub[th].rev \in Nat
  BY Types DEF TypeOK, PubType
<1> QED
  BY <1>1, <1>2, <1>3

\* What may follow the next step of the GUI thread: t is what remains.
Turn(t) ==
  /\ Starts(gui.todo, "bump") => Starts(t, "reset") /\ epoch + 1 <= EpochLimit
  /\ Starts(gui.todo, "reset") => Starts(t, "clear") \/ Starts(t, "register")
  /\ Starts(gui.todo, "clear") => Starts(t, "unregister")
  /\ Starts(gui.todo, "unregister") => Starts(t, "bump") \/ t \in Ends
  /\ Starts(gui.todo, "register") =>
       Starts(t, "connect") /\ Tail(t) \in {<<>>, End} /\ Bare /\ epoch + 1 <= EpochLimit
  /\ Starts(gui.todo, "connect") \/ Starts(gui.todo, "rollback") => t \in {<<>>, End}
  /\ Starts(gui.todo, "present") => t \in {<<>>, End} /\ (t = <<>> <=> gui.in = 0)
  /\ Starts(gui.todo, "handle") => gui.todo = Loop /\ gui.in # 0
  /\ Starts(gui.todo, "closing") => gui.todo = End /\ gui.in # 0

\* detach takes its steps in order.
LEMMA DetachOrder ==
  ASSUME NEW b \in Ends, NEW t, DetachTurn(b, t)
  PROVE  Turn(t)
BY StartsOnce DEF DetachTurn, Turn

\* attach takes its steps in order.
LEMMA AttachOrder ==
  ASSUME NEW b \in {<<>>, End}, NEW t, AttachTurn(b, t), EpochLimit \in Nat, epoch \in Nat
  PROVE  Turn(t)
<1>1. CASE Starts(gui.todo, "bump") /\ Starts(t, "reset") /\ epoch + 1 <= EpochLimit
  BY <1>1, StartsOnce DEF Turn
<1>2. CASE Starts(gui.todo, "reset") /\ (Starts(t, "clear") \/ Starts(t, "register"))
  BY <1>2, StartsOnce DEF Turn
<1>3. CASE Starts(gui.todo, "clear") /\ Starts(t, "unregister")
  BY <1>3, StartsOnce DEF Turn
<1>4. CASE Starts(gui.todo, "unregister") /\ Starts(t, "bump")
  BY <1>4, StartsOnce DEF Turn
<1>5. CASE /\ Starts(gui.todo, "register") /\ Starts(t, "connect") /\ Tail(t) = b
           /\ epoch + 1 <= EpochLimit /\ Bare
  BY <1>5, StartsOnce DEF Turn
<1>6. CASE (Starts(gui.todo, "connect") \/ Starts(gui.todo, "rollback")) /\ t = b
  BY <1>6, StartsOnce DEF Turn
<1> QED
  BY <1>1, <1>2, <1>3, <1>4, <1>5, <1>6 DEF AttachTurn

\* Whatever the GUI thread is doing, it takes its steps in the order of detach,
\* attach, presentFrame and drainGuiEvents.
LEMMA Order ==
  ASSUME Sound, gui.todo # <<>>
  PROVE  Turn(Tail(gui.todo))
<1>0. EpochLimit \in Nat /\ epoch \in Nat
  BY Types
<1>2. ASSUME NEW b \in Ends, Detaching(b) PROVE Turn(Tail(gui.todo))
  BY <1>2, DetachAt, DetachOrder
<1>3. ASSUME NEW b \in {<<>>, End}, Attaching(b) PROVE Turn(Tail(gui.todo))
  BY <1>0, <1>3, AttachAt, AttachOrder DEF Ends
<1>4. CASE gui.todo = To("present", <<>>) /\ gui.in = 0
  <2>1. Starts(gui.todo, "present") /\ Tail(gui.todo) = <<>>
    BY <1>4, AttachFacts, EndFacts
  <2> QED BY <1>4, <2>1, StartsOnce DEF Turn
<1>5. CASE gui.todo = To("present", End) /\ gui.in # 0
  <2>1. Starts(gui.todo, "present") /\ Tail(gui.todo) = End /\ End # <<>>
    BY <1>5, AttachFacts, EndFacts DEF Starts
  <2> QED BY <1>5, <2>1, StartsOnce DEF Turn
<1>6. CASE gui.todo \in {Loop, End} /\ gui.in # 0
  BY <1>6, EndFacts, StartsOnce DEF Turn
<1> QED
  BY <1>0, <1>2, <1>3, <1>4, <1>5, <1>6 DEF Sound, Control, Ends

\* A step that calls nothing leaves the rest.
LEMMA Popped ==
  ASSUME Sound, gui.todo # <<>>, gui' = Done(<<>>)
  PROVE  /\ gui' \in GuiType /\ gui'.todo = Tail(gui.todo) /\ gui'.in = gui.in /\ gui'.frame = gui.frame
         /\ gui'.batch = gui.batch /\ gui'.seen = gui.seen
<1>1. gui \in GuiType /\ gui.todo \in Seq(StepName) /\ Tail(gui.todo) \in Seq(StepName)
  BY Types
<1>2. gui' = [gui EXCEPT !.todo = Tail(gui.todo)]
  BY <1>1
<1> QED
  BY <1>1, <1>2, GuiFacts

\* A step of detach or attach that calls nothing leaves the control state sound.
LEMMA PopControl ==
  ASSUME Sound, gui.todo # <<>>, ~Starts(gui.todo, "handle"), ~Starts(gui.todo, "closing"), ~Starts(gui.todo, "present"),
         gui'.todo = Tail(gui.todo), gui'.in = gui.in, gui'.batch = gui.batch, gui'.seen = gui.seen,
         Starts(gui.todo, "bump") => epoch' = epoch + 1,
         ~Starts(gui.todo, "bump") => epoch' = epoch,
         Bare => Bare' \/ Starts(gui.todo, "register"),
         Starts(gui.todo, "unregister") => Bare'
  PROVE  Control'
<1>0. EpochLimit \in Nat /\ epoch \in Nat
  BY Types
<1>1. ASSUME NEW b \in Ends, Detaching(b) PROVE Detaching(b)' \/ gui'.todo = b
  BY <1>0, <1>1, DetachAt, StartsOnce DEF DetachTurn, Detaching
<1>2. ASSUME NEW b \in Ends, Attaching(b) PROVE Attaching(b)' \/ gui'.todo = b
  <2>1. AttachTurn(b, gui'.todo)
    BY <1>2, AttachAt
  <2>2. CASE Starts(gui.todo, "bump")
    BY <1>0, <2>1, <2>2, StartsOnce DEF AttachTurn, Attaching
  <2>3. CASE ~Starts(gui.todo, "bump") /\ Starts(gui.todo, "register")
    BY <1>0, <2>1, <2>3, StartsOnce DEF AttachTurn, Attaching
  <2>4. CASE ~Starts(gui.todo, "bump") /\ ~Starts(gui.todo, "register")
    BY <1>0, <2>1, <2>4, StartsOnce DEF AttachTurn, Attaching
  <2> QED
    BY <2>2, <2>3, <2>4
<1>3. gui.todo \notin {<<>>, Loop, End, To("present", <<>>), To("present", End)}
  BY AttachFacts, EndFacts
<1> QED
  BY <1>1, <1>2, <1>3 DEF Sound, Control, Ends

\* Only moving the epoch begins the part of detach and attach in which nothing
\* is of the current epoch.
LEMMA PopBetween ==
  ASSUME Sound, gui.todo # <<>>, ~Starts(gui.todo, "handle"), ~Starts(gui.todo, "closing"),
         gui'.todo = Tail(gui.todo)
  PROVE  /\ Between' => Between \/ Starts(gui.todo, "bump")
         /\ Starts(gui'.todo, "unregister") => Starts(gui.todo, "clear")
<1>1. Turn(gui'.todo)
  BY Order
<1>2. gui'.todo \in Ends => ~Between' /\ ~Starts(gui'.todo, "unregister")
  BY EndsFacts DEF Between, StepName
<1>3. Starts(gui.todo, Head(gui.todo)) /\ Head(gui.todo) \in StepName
  BY Types DEF Starts
<1> QED
  BY <1>1, <1>2, <1>3, EndFacts, StartsOnce DEF Turn, Between, StepName, Ends

\* ++m_attachmentEpoch: what was of the current epoch no longer is.
LEMMA BumpSound == ASSUME Sound, Bump PROVE Sound'
<1> USE DEF Bump, Sound
<1>0. EpochLimit \in Nat /\ epoch \in Nat /\ epoch + 1 <= EpochLimit /\ gui.todo # <<>> /\ Starts(gui.todo, "bump")
  BY Types, Order DEF At, Turn, Starts
<1>c. /\ gui' \in GuiType /\ gui'.todo = Tail(gui.todo) /\ gui'.in = gui.in
  BY <1>0, Popped
<1>1. Control'
  BY <1>0, <1>c, Popped, PopControl, StartsOnce DEF Bare
<1>2. TypeOK' /\ queue' \in QueueType
  BY <1>0, <1>c DEF TypeOK
<1>3. Room'
  BY <1>0, <1>c DEF Room
<1>4. NotAhead' /\ Behind'
  <2>0. \A n \in Nat : n <= epoch => n < epoch + 1
    BY <1>0
  <2>1. /\ entry.epoch < epoch + 1 /\ gui.in < epoch + 1 /\ view.epoch < epoch + 1
        /\ mailbox.incarnation < epoch + 1
    BY <2>0, EpochTypes DEF NotAhead
  <2>2. \A th \in Thread : pub[th].epoch < epoch + 1
    BY <2>0, EpochTypes DEF NotAhead
  <2>3. \A i \in DOMAIN loop : loop[i].epoch < epoch + 1
    BY <2>0, EpochTypes DEF NotAhead
  <2>4. Behind'
    BY <1>0, <1>c, <2>1, <2>2, <2>3 DEF Behind
  <2> QED
    BY <1>0, <1>c, <2>1, <2>4, EpochTypes DEF NotAhead, Behind
<1>5. ~Starts(gui'.todo, "unregister")
  BY <1>0, <1>c, PopBetween, StartsOnce
<1> QED
  BY <1>1, <1>2, <1>3, <1>4, <1>5

\* TerminalFrameMailbox::reset.
LEMMA ResetSound == ASSUME Sound, ResetMailbox PROVE Sound'
<1> USE DEF ResetMailbox, Sound
<1>0. EpochLimit \in Nat /\ epoch \in Nat /\ gui.todo # <<>> /\ Starts(gui.todo, "reset")
  BY Types DEF At, Starts
<1>c. /\ gui' \in GuiType /\ gui'.todo = Tail(gui.todo) /\ gui'.in = gui.in
  BY <1>0, Popped
<1>1. Control'
  BY <1>0, <1>c, Popped, PopControl, StartsOnce DEF Bare
<1>2. TypeOK' /\ queue' \in QueueType
  BY <1>0, <1>c, Types DEF TypeOK, Fresh
<1>3. Room'
  BY <1>0, <1>c DEF Room
<1>4. NotAhead' /\ (Between' => Behind')
  BY <1>0, <1>c, Types, EpochTypes, PopBetween, StartsOnce DEF NotAhead, Behind, Fresh
<1>5. ~Starts(gui'.todo, "unregister")
  BY <1>0, <1>c, PopBetween, StartsOnce
<1> QED
  BY <1>1, <1>2, <1>3, <1>4, <1>5

\* clearGuiEvents.
LEMMA ClearSound == ASSUME Sound, ClearEvents PROVE Sound'
<1> USE DEF ClearEvents, Sound
<1>0. gui.todo # <<>> /\ Starts(gui.todo, "clear") /\ queue' = NoEvents
  BY DEF At, Starts, Cleared
<1>c. /\ gui' \in GuiType /\ gui'.todo = Tail(gui.todo) /\ gui'.in = gui.in
  BY <1>0, Popped
<1>1. Control'
  BY <1>0, <1>c, Popped, PopControl, StartsOnce DEF Bare
<1>2. TypeOK' /\ queue' \in QueueType
  BY <1>0, <1>c, Types DEF TypeOK, NoEvents, QueueType
<1>3. Room'
  BY <1>0, <1>c DEF Room
<1>4. NotAhead' /\ (Between' => Behind')
  BY <1>0, <1>c, Types, PopBetween, StartsOnce DEF NotAhead, Behind
<1> QED
  BY <1>0, <1>1, <1>2, <1>3, <1>4

\* unregisterSurface.
LEMMA UnregisterSound == ASSUME Sound, Unregister PROVE Sound' /\ ~Between'
<1> USE DEF Unregister, Deactivate, Sound
<1>0. gui.todo # <<>> /\ Starts(gui.todo, "unregister")
  BY DEF At, Starts
<1>c. /\ gui' \in GuiType /\ gui'.todo = Tail(gui.todo) /\ gui'.in = gui.in
  BY <1>0, Popped
<1>e. /\ entry'.active = FALSE /\ entry'.epoch = entry.epoch
      /\ entry' \in [epoch : 0 .. EpochLimit, active : BOOLEAN, rev : 0 .. RevisionLimit, pub : 0 .. RevisionLimit]
  BY DEF TypeOK
<1>1. Control'
  BY <1>0, <1>c, <1>e, Popped, PopControl, StartsOnce DEF Bare
<1>2. TypeOK' /\ queue' \in QueueType
  BY <1>0, <1>c, <1>e, Types DEF TypeOK, NoFrame
<1>3. Room'
  BY <1>0, <1>c, <1>e DEF Room
<1>4. NotAhead' /\ (Between' => Behind')
  BY <1>0, <1>c, <1>e, Types, EpochTypes, PopBetween, StartsOnce DEF NotAhead, Behind, NoFrame
<1>5. ~Starts(gui'.todo, "unregister") /\ ~Between'
  <2>1. Starts(gui'.todo, "bump") \/ gui'.todo \in Ends
    BY <1>0, <1>c, Order DEF Turn
  <2> QED
    BY <2>1, EndsFacts, StartsOnce DEF Between, StepName
<1> QED
  BY <1>1, <1>2, <1>3, <1>4, <1>5

\* registerSurface, which may refuse the surface.
LEMMA RegisterSound == ASSUME Sound, Register PROVE Sound' /\ ~Between'
<1> USE DEF Register, Sound
<1>0. /\ gui.todo # <<>> /\ Starts(gui.todo, "register") /\ Bare /\ epoch + 1 <= EpochLimit
      /\ Starts(Tail(gui.todo), "connect") /\ Tail(Tail(gui.todo)) \in Ends
      /\ EpochLimit \in Nat /\ epoch \in Nat /\ Behind
  <2>1. gui.todo # <<>> /\ Starts(gui.todo, "register")
    BY DEF At, Starts
  <2> QED
    BY <2>1, Types, Order DEF Turn, Between, Ends
<1>1. CASE entry' = [epoch |-> epoch, active |-> TRUE, rev |-> 0, pub |-> 0] /\ gui' = Done(<<>>)
           /\ sent' = [accepted |-> 0, handled |-> 0]
  <2>c. /\ gui' \in GuiType /\ gui'.todo = Tail(gui.todo) /\ gui'.in = gui.in
    BY <1>0, <1>1, Popped
  <2>1. Control'
    BY <1>0, <1>1, <2>c, Popped, PopControl, StartsOnce DEF Bare
  <2>2. TypeOK' /\ queue' \in QueueType
    BY <1>0, <1>1, <2>c, Types DEF TypeOK
  <2>3. Room'
    BY <1>0, <1>1, <2>c, EpochTypes DEF Room, Behind
  <2>4. NotAhead'
    BY <1>0, <1>1, <2>c, Types, EpochTypes DEF NotAhead
  <2>5. ~Between' /\ ~Starts(gui'.todo, "unregister")
    BY <1>0, <2>c, StartsOnce DEF Between
  <2> QED
    BY <2>1, <2>2, <2>3, <2>4, <2>5
<1>2. CASE gui' = [gui EXCEPT !.todo = Tail(Tail(@))] /\ UNCHANGED <<entry, sent>>
  <2>c. /\ gui' \in GuiType /\ gui'.todo = Tail(Tail(gui.todo)) /\ gui'.in = gui.in
        /\ gui'.batch = gui.batch /\ gui'.seen = gui.seen
    BY <1>0, <1>2, Types, GuiFacts, EndsFacts
  <2>1. Control'
    <3>1. ASSUME NEW b \in Ends, Attaching(b) PROVE gui'.todo = b
      BY <1>0, <2>c, <3>1, AttachAt, StartsOnce DEF AttachTurn
    <3>2. ASSUME NEW b \in Ends, Detaching(b) PROVE FALSE
      BY <1>0, <3>2, DetachAt, StartsOnce DEF DetachTurn
    <3>3. gui.todo \notin {<<>>, Loop, End, To("present", <<>>), To("present", End)}
      <4>1. ~Starts(gui.todo, "handle") /\ ~Starts(gui.todo, "closing") /\ ~Starts(gui.todo, "present")
        BY <1>0, StartsOnce
      <4> QED
        BY <1>0, <4>1, AttachFacts, EndFacts
    <3> QED
      BY <2>c, <3>1, <3>2, <3>3 DEF Control, Ends
  <2>2. TypeOK' /\ queue' \in QueueType
    BY <1>2, <2>c DEF TypeOK
  <2>3. Room'
    BY <1>2, <2>c DEF Room
  <2>4. NotAhead'
    BY <1>2, <2>c DEF NotAhead
  <2>5. ~Between' /\ ~Starts(gui'.todo, "unregister")
    BY <1>0, <2>c, EndsFacts DEF Between, StepName
  <2> QED
    BY <2>1, <2>2, <2>3, <2>4, <2>5
<1> QED
  BY <1>1, <1>2

\* Steps that only move the control of the GUI thread.
LEMMA MovedSound ==
  ASSUME Sound, UNCHANGED <<epoch, queue, loop, entry, lock, pub>>,
         sent' \in [accepted : 0 .. SentLimit, handled : 0 .. SentLimit],
         mailbox' \in [incarnation : {mailbox.incarnation}, highest : 0 .. RevisionLimit,
                       pending : 0 .. RevisionLimit, queued : BOOLEAN],
         view' \in [rev : 0 .. RevisionLimit, epoch : {view.epoch, epoch}],
         gui' \in GuiType, gui'.in \in {0, gui.in}, Control', ~Between'
  PROVE  Sound'
<1> USE DEF Sound
<1>1. TypeOK' /\ queue' \in QueueType
  BY Types, EpochTypes DEF TypeOK
<1>2. Room'
  BY DEF Room
<1>3. NotAhead'
  BY Types, EpochTypes DEF NotAhead
<1>4. ~Starts(gui'.todo, "unregister")
  BY DEF Between
<1> QED
  BY <1>1, <1>2, <1>3, <1>4

\* The same of steps that handle no event.
LEMMA MoveSound ==
  ASSUME Sound, UNCHANGED <<epoch, queue, loop, entry, lock, pub, sent>>,
         mailbox' \in [incarnation : {mailbox.incarnation}, highest : 0 .. RevisionLimit,
                       pending : 0 .. RevisionLimit, queued : BOOLEAN],
         view' \in [rev : 0 .. RevisionLimit, epoch : {view.epoch, epoch}],
         gui' \in GuiType, gui'.in \in {0, gui.in}, Control', ~Between'
  PROVE  Sound'
BY MovedSound DEF Sound, TypeOK

\* The mailbox and the view, as they are and with the frame taken out.
LEMMA SameMailbox ==
  ASSUME Sound
  PROVE  /\ mailbox \in [incarnation : {mailbox.incarnation}, highest : 0 .. RevisionLimit,
                       pending : 0 .. RevisionLimit, queued : BOOLEAN]
         /\ view \in [rev : 0 .. RevisionLimit, epoch : {view.epoch, epoch}]
         /\ [mailbox EXCEPT !.pending = 0, !.queued = FALSE] \in [incarnation : {mailbox.incarnation},
                   highest : 0 .. RevisionLimit, pending : 0 .. RevisionLimit, queued : BOOLEAN]
<1>1. mailbox \in [incarnation : 0 .. EpochLimit, highest : 0 .. RevisionLimit,
                  pending : 0 .. RevisionLimit, queued : BOOLEAN]
  BY DEF Sound, TypeOK
<1>2. view \in [rev : 0 .. RevisionLimit, epoch : 0 .. EpochLimit] /\ 0 \in 0 .. RevisionLimit
  BY Types DEF Sound, TypeOK
<1> QED
  BY <1>1, <1>2

\* connectTerminal, whose refusal is followed by the rollback.
LEMMA ConnectSound == ASSUME Sound, Connect PROVE Sound' /\ ~Between'
<1> USE DEF Connect
<1>0. gui.todo # <<>> /\ Starts(gui.todo, "connect") /\ Tail(gui.todo) \in Ends
  <2>1. gui.todo # <<>> /\ Starts(gui.todo, "connect")
    BY DEF At, Starts
  <2> QED
    BY <2>1, Order DEF Turn, Ends
<1>1. CASE gui' = Done(<<>>)
  <2>1. Control' /\ gui' \in GuiType /\ gui'.in = gui.in /\ gui'.todo \in Ends
    BY <1>0, <1>1, Popped, PopControl, StartsOnce DEF Bare
  <2>2. ~Between'
    BY <2>1, EndsFacts DEF Between, StepName
  <2> QED
    BY <2>1, <2>2, MoveSound, SameMailbox
<1>2. CASE gui' = Done(<<"rollback">>)
  <2>1. gui' = [gui EXCEPT !.todo = To("rollback", Tail(gui.todo))]
    BY <1>0, <1>2, Types, CallFacts, EndsFacts
  <2>2. To("rollback", Tail(gui.todo)) \in Seq(StepName) /\ Starts(To("rollback", Tail(gui.todo)), "rollback")
    BY <1>0, EndsFacts, AttachFacts
  <2>3. /\ gui' \in GuiType /\ gui'.in = gui.in /\ gui'.todo = To("rollback", Tail(gui.todo))
        /\ gui'.batch = gui.batch /\ gui'.seen = gui.seen
    BY <2>1, <2>2, Types, GuiFacts
  <2>4. Control'
    <3>1. ASSUME NEW b \in Ends, Attaching(b) PROVE Attaching(b)'
      BY <1>0, <2>3, <3>1, AttachAt, StartsOnce DEF AttachTurn, Attaching
    <3>2. ASSUME NEW b \in Ends, Detaching(b) PROVE FALSE
      BY <1>0, <3>2, DetachAt, StartsOnce DEF DetachTurn
    <3>3. gui.todo \notin {<<>>, Loop, End, To("present", <<>>), To("present", End)}
      <4>1. ~Starts(gui.todo, "handle") /\ ~Starts(gui.todo, "closing") /\ ~Starts(gui.todo, "present")
        BY <1>0, StartsOnce
      <4> QED
        BY <1>0, <4>1, AttachFacts, EndFacts
    <3> QED
      BY <2>3, <3>1, <3>2, <3>3 DEF Sound, Control, Ends
  <2>5. ~Between'
    BY <2>2, <2>3, StartsOnce DEF Between
  <2> QED
    BY <2>3, <2>4, <2>5, MoveSound, SameMailbox
<1> QED
  BY <1>1, <1>2

\* The registration is taken back.
LEMMA RollbackSound == ASSUME Sound, Rollback PROVE Sound' /\ ~Between'
<1> USE DEF Rollback, Deactivate, Sound
<1>0. gui.todo # <<>> /\ Starts(gui.todo, "rollback") /\ Tail(gui.todo) \in Ends
  <2>1. gui.todo # <<>> /\ Starts(gui.todo, "rollback")
    BY DEF At, Starts
  <2> QED
    BY <2>1, Order DEF Turn, Ends
<1>c. /\ gui' \in GuiType /\ gui'.todo = Tail(gui.todo) /\ gui'.in = gui.in
  BY <1>0, Popped
<1>e. /\ entry'.active = FALSE /\ entry'.epoch = entry.epoch
      /\ entry' \in [epoch : 0 .. EpochLimit, active : BOOLEAN, rev : 0 .. RevisionLimit, pub : 0 .. RevisionLimit]
  BY DEF TypeOK
<1>1. Control'
  BY <1>0, <1>c, <1>e, Popped, PopControl, StartsOnce DEF Bare
<1>2. TypeOK' /\ queue' \in QueueType
  BY <1>0, <1>c, <1>e, Types DEF TypeOK
<1>3. Room'
  BY <1>0, <1>c, <1>e DEF Room
<1>4. NotAhead'
  BY <1>c, <1>e DEF NotAhead
<1>5. ~Between' /\ ~Starts(gui'.todo, "unregister")
  BY <1>0, <1>c, EndsFacts DEF Between, StepName
<1> QED
  BY <1>1, <1>2, <1>3, <1>4, <1>5

\* A call that begins from the event loop is in a sound control state.
LEMMA CallControl ==
  ASSUME Sound, gui'.todo \in {<<>>, DetachSteps, AttachSteps, To("present", <<>>)},
         gui'.in = 0, gui'.batch = <<>>, gui'.seen = 0, epoch' = epoch,
         gui'.todo = DetachSteps => epoch + 1 <= EpochLimit,
         gui'.todo = AttachSteps => epoch + 3 <= EpochLimit
  PROVE  Control' /\ ~Between' /\ gui'.todo \in Seq(StepName)
<1>1. DetachSteps = AtBump(<<>>) /\ AttachSteps = AtBump(AtBump2(<<>>)) /\ <<>> \in Seq(StepName) /\ AtBump2(<<>>) \in Seq(StepName)
  BY CallFacts, EndFacts, AttachFacts
<1>2. /\ Starts(DetachSteps, "bump") /\ Starts(AttachSteps, "bump") /\ Starts(To("present", <<>>), "present")
      /\ {DetachSteps, AttachSteps, To("present", <<>>)} \subseteq Seq(StepName)
  BY <1>1, DetachFacts, AttachFacts
<1>3. Control'
  BY <1>1, <1>2 DEF Control, Detaching, Attaching, Loop
<1>4. ~Between'
  BY <1>2, StartsOnce DEF Between, Starts
<1> QED
  BY <1>1, <1>2, <1>3, <1>4

\* attach and detach begin.
LEMMA AttachDetachSound == ASSUME Sound, Attach \/ Detach PROVE Sound' /\ ~Between'
<1>1. gui' = [GuiIdle EXCEPT !.todo = gui'.todo] /\ gui'.todo \in {DetachSteps, AttachSteps}
  BY DEF Attach, Detach, GuiIdle
<1>2. gui'.in = 0 /\ gui'.batch = <<>> /\ gui'.seen = 0 /\ gui'.frame = 0
  BY <1>1 DEF GuiIdle
<1>3. DetachSteps # AttachSteps
  BY DEF DetachSteps, AttachSteps
<1>4. /\ gui'.todo = DetachSteps => epoch + 1 <= EpochLimit
      /\ gui'.todo = AttachSteps => epoch + 3 <= EpochLimit
  BY <1>3 DEF Attach, Detach, GuiIdle, MayAttach, MayDetach
<1>5. Control' /\ ~Between' /\ gui'.todo \in Seq(StepName)
  BY <1>1, <1>2, <1>4, CallControl DEF Attach, Detach
<1>6. gui' \in GuiType
  BY <1>1, <1>5, IdleFacts
<1> QED
  BY <1>2, <1>5, <1>6, MoveSound, SameMailbox DEF Attach, Detach

\* presentFrame, a handler of which may attach the view elsewhere.
LEMMA PresentSound == ASSUME Sound, Present PROVE Sound' /\ ~Between'
<1> USE DEF Present
<1>0. gui.todo # <<>> /\ Starts(gui.todo, "present") /\ Tail(gui.todo) \in {<<>>, End} /\ (Tail(gui.todo) = <<>> <=> gui.in = 0)
  BY Order DEF At, Starts, Turn
<1>1. Tail(gui.todo) \in Seq(StepName) /\ Tail(gui.todo) \in Ends
  BY <1>0, EndFacts DEF Ends
<1>2. PICK s \in {Tail(gui.todo), AttachSteps \o Tail(gui.todo)} :
        /\ gui' = [[gui EXCEPT !.todo = s] EXCEPT !.frame = 0]
        /\ s = AttachSteps \o Tail(gui.todo) => MayAttach
  <2>1. CASE gui' = [Done(<<>>) EXCEPT !.frame = 0]
    <3>1. Done(<<>>) = [gui EXCEPT !.todo = Tail(gui.todo)]
      BY <1>1, Types
    <3>2. Tail(gui.todo) # AttachSteps \o Tail(gui.todo)
      BY <1>1 DEF AttachSteps, DetachSteps, StepName
    <3> QED
      BY <2>1, <3>1, <3>2
  <2>2. CASE MayAttach /\ gui' = [Done(AttachSteps) EXCEPT !.frame = 0]
    BY <2>2
  <2> QED
    BY <2>1, <2>2
<1>3. AttachSteps \o Tail(gui.todo) = AtBump(AtBump2(Tail(gui.todo))) /\ s \in Seq(StepName) /\ (s = Tail(gui.todo) \/ Starts(s, "bump"))
  <2>1. AttachSteps \o Tail(gui.todo) = AtBump(AtBump2(Tail(gui.todo))) /\ AtBump2(Tail(gui.todo)) \in Seq(StepName)
    BY <1>1, CallFacts, AttachFacts
  <2>2. AtBump(AtBump2(Tail(gui.todo))) \in Seq(StepName) /\ Starts(AtBump(AtBump2(Tail(gui.todo))), "bump")
    BY <2>1, DetachFacts
  <2> QED
    BY <1>1, <1>2, <2>1, <2>2
<1>4. /\ gui' \in GuiType /\ gui'.todo = s /\ gui'.in = gui.in
      /\ gui'.batch = gui.batch /\ gui'.seen = gui.seen
  <2>1. gui \in GuiType
    BY Types
  <2> QED
    BY <1>2, <1>3, <2>1, Zero DEF GuiType
<1>5. Control'
  <2>1. gui.in = 0 => gui.batch = <<>> /\ gui.seen = 0
    BY DEF Sound, Control
  <2>2. s = Tail(gui.todo) => Control'
    BY <1>0, <1>4, <2>1 DEF Control
  <2>3. ASSUME s = AttachSteps \o Tail(gui.todo), NEW b \in {<<>>, End}, b = Tail(gui.todo) PROVE Attaching(b)'
    <3>1. epoch' + 3 <= EpochLimit /\ gui'.todo = AtBump(AtBump2(b))
      BY <1>2, <1>3, <1>4, <2>3 DEF MayAttach
    <3> QED
      BY <3>1 DEF Attaching
  <2>4. s = AttachSteps \o Tail(gui.todo) => Control'
    BY <1>0, <1>4, <2>1, <2>3 DEF Control
  <2> QED
    BY <1>2, <2>2, <2>4
<1>6. ~Between'
  BY <1>1, <1>3, <1>4, EndsFacts, StartsOnce DEF Between, StepName
<1>7. view' \in [rev : 0 .. RevisionLimit, epoch : {view.epoch, epoch}]
  BY Types DEF GuiType
<1> QED
  BY <1>4, <1>5, <1>6, <1>7, MoveSound, SameMailbox

\* The view of a closed terminal is detached, unless it was attached elsewhere.
LEMMA CloseViewSound == ASSUME Sound, CloseView PROVE Sound' /\ ~Between'
<1> USE DEF CloseView
<1>0. gui.todo = End /\ gui.in # 0 /\ gui.todo # <<>> /\ Tail(gui.todo) = Loop
  BY Order, EndFacts DEF At, Starts, Turn
<1>1. CASE epoch = gui.in
  <2>1. DetachSteps \o Loop = AtBump(Loop) /\ AtBump(Loop) \in Seq(StepName) /\ Starts(AtBump(Loop), "bump")
    BY EndFacts, DetachFacts, CallFacts
  <2>2. gui' = [[gui EXCEPT !.todo = AtBump(Loop)] EXCEPT !.seen = 0]
    BY <1>0, <1>1, <2>1 DEF StillAttached
  <2>3. gui' \in GuiType /\ gui'.todo = AtBump(Loop) /\ gui'.in = gui.in
    <3>1. gui \in GuiType
      BY Types
    <3> QED
      BY <2>1, <2>2, <3>1, Zero DEF GuiType
  <2>4. gui.in < EpochLimit
    BY <1>0 DEF Sound, Room
  <2>5. Control'
    BY <1>0, <1>1, <2>3, <2>4, Types DEF Control, Detaching
  <2>6. ~Between'
    BY <2>1, <2>3, StartsOnce DEF Between
  <2> QED
    BY <2>3, <2>5, <2>6, MoveSound, SameMailbox
<1>2. CASE epoch # gui.in
  <2>1. gui' = GuiIdle
    BY <1>2 DEF StillAttached
  <2>2. gui' \in GuiType /\ gui'.in = 0 /\ gui'.todo = <<>> /\ gui'.batch = <<>> /\ gui'.seen = 0
    <3>1. gui' = [GuiIdle EXCEPT !.todo = <<>>]
      BY <2>1, IdleGui
    <3> QED
      BY <3>1, IdleFacts, EndFacts
  <2>3. DetachSteps # <<>> /\ AttachSteps # <<>>
    BY DEF DetachSteps, AttachSteps
  <2>4. Control' /\ ~Between'
    BY <2>2, <2>3, CallControl
  <2> QED
    BY <2>2, <2>4, MoveSound, SameMailbox
<1> QED
  BY <1>1, <1>2

\* In the event loop no drain is under way.
LEMMA IdleState ==
  ASSUME Sound, gui.todo = <<>>
  PROVE  gui.in = 0 /\ gui.batch = <<>> /\ gui.seen = 0
<1>1. \A b \in Ends : ~Detaching(b) /\ ~Attaching(b)
  BY DetachAt, AttachAt DEF DetachTurn, AttachTurn, Starts
<1>2. <<>> \notin {Loop, End, To("present", End)}
  BY EndFacts, AttachFacts DEF Starts
<1> QED
  BY <1>1, <1>2 DEF Control, Ends, Sound

\* Taking the first of the posted calls.
LEMMA LoopTail ==
  ASSUME Sound, loop # <<>>
  PROVE  /\ loop \in Seq(Posted) /\ Head(loop) \in Posted /\ Tail(loop) \in Seq(Posted)
         /\ \A i \in DOMAIN Tail(loop) : \E j \in DOMAIN loop : Tail(loop)[i] = loop[j]
<1>1. loop \in Seq(Posted)
  BY DEF Sound, TypeOK
<1>2. \A i \in DOMAIN Tail(loop) : i + 1 \in DOMAIN loop /\ Tail(loop)[i] = loop[i + 1]
  BY <1>1
<1> QED
  BY <1>1, <1>2

\* drainGuiEvents begins.
LEMMA DrainGuiEventsSound == ASSUME Sound, RunDrainGuiEvents PROVE Sound' /\ ~Between'
<1> USE DEF RunDrainGuiEvents, Free, Sound
<1>0. /\ gui.todo = <<>> /\ gui.in = 0 /\ gui.batch = <<>> /\ gui.seen = 0 /\ loop # <<>>
      /\ loop \in Seq(Posted) /\ Head(loop) \in Posted /\ Tail(loop) \in Seq(Posted)
      /\ \A i \in DOMAIN Tail(loop) : \E j \in DOMAIN loop : Tail(loop)[i] = loop[j]
  BY IdleState, LoopTail
<1>1. loop' \in Seq(Posted) /\ (\A i \in DOMAIN loop' : \E j \in DOMAIN loop : loop'[i] = loop[j])
  BY <1>0
<1>2. /\ gui' \in GuiType /\ Control' /\ ~Between'
      /\ gui'.in \in {0, epoch} /\ (gui'.in # 0 => gui'.in < EpochLimit)
      /\ queue' \in QueueType /\ Len(queue'.events) <= EventLimit
  <2>1. CASE Head(loop).epoch # epoch /\ UNCHANGED <<queue, gui>>
    <3>1. DetachSteps # <<>> /\ AttachSteps # <<>>
      BY DEF DetachSteps, AttachSteps
    <3>2. Control' /\ ~Between'
      BY <1>0, <2>1, <3>1, CallControl
    <3> QED
      BY <1>0, <2>1, <3>2, Types DEF TypeOK
  <2>2. CASE /\ Head(loop).epoch = epoch
             /\ queue' = [queue EXCEPT !.events = <<>>, !.queued = FALSE]
             /\ gui' = IF queue.overflow THEN [GuiIdle EXCEPT !.todo = DetachSteps]
                  ELSE [GuiIdle EXCEPT !.todo = <<"handle">>, !.in = epoch,
                                       !.batch = queue.events]
    <3>1. epoch \in 1 .. EpochLimit - 1
      BY <1>0, <2>2 DEF Room
    <3>2. queue' \in QueueType /\ Len(queue'.events) <= EventLimit
      <4>1. queue' = [events |-> <<>>, overflow |-> queue.overflow, queued |-> FALSE]
        BY <2>2 DEF QueueType
      <4>2. queue.overflow \in BOOLEAN /\ <<>> \in Seq(Event) /\ Len(<<>>) <= EventLimit
        BY Types DEF QueueType
      <4> QED
        BY <4>1, <4>2 DEF QueueType
    <3>3. CASE queue.overflow
      <4>1. gui' = [GuiIdle EXCEPT !.todo = DetachSteps] /\ DetachSteps \in Seq(StepName) /\ DetachSteps # AttachSteps
        BY <2>2, <3>3 DEF DetachSteps, AttachSteps, StepName
      <4>2. gui' \in GuiType /\ gui'.todo = DetachSteps /\ gui'.in = 0 /\ gui'.batch = <<>> /\ gui'.seen = 0
        BY <4>1, IdleFacts
      <4>3. Control' /\ ~Between'
        BY <3>1, <4>1, <4>2, CallControl, Types
      <4> QED
        BY <3>2, <4>2, <4>3
    <3>4. CASE ~queue.overflow
      <4>1. gui' = [todo |-> Loop, in |-> epoch, frame |-> 0, batch |-> queue.events, seen |-> 0]
        BY <2>2, <3>4 DEF GuiIdle, Loop
      <4>2. queue.events \in Seq(Event)
        BY DEF QueueType
      <4>3. gui' \in GuiType
        BY <4>1, <4>2, Zero, EndFacts, GuiMade DEF TypeOK
      <4>4. Control'
        BY <3>1, <4>1 DEF Control
      <4>5. ~Between'
        BY <4>1, EndFacts, StartsOnce DEF Between
      <4>6. gui'.in = epoch /\ epoch # 0 /\ epoch < EpochLimit
        BY <3>1, <4>1, Types
      <4> QED
        BY <3>2, <4>3, <4>4, <4>5, <4>6
    <3> QED
      BY <3>3, <3>4
  <2> QED
    BY <2>1, <2>2
<1>3. TypeOK'
  BY <1>1, <1>2 DEF TypeOK, QueueType
<1>4. Room'
  BY <1>1, <1>2 DEF Room
<1>5. NotAhead'
  BY <1>1, <1>2, Types DEF NotAhead
<1> QED
  BY <1>2, <1>3, <1>4, <1>5 DEF Between

\* drainFrame.
LEMMA DrainFrameSound == ASSUME Sound, RunDrainFrame PROVE Sound' /\ ~Between'
<1> USE DEF RunDrainFrame, Free, Sound
<1>0. /\ gui.todo = <<>> /\ gui.in = 0 /\ gui.batch = <<>> /\ gui.seen = 0 /\ loop # <<>>
      /\ loop \in Seq(Posted) /\ Tail(loop) \in Seq(Posted)
      /\ \A i \in DOMAIN Tail(loop) : \E j \in DOMAIN loop : Tail(loop)[i] = loop[j]
  BY IdleState, LoopTail
<1>1. loop' \in Seq(Posted) /\ (\A i \in DOMAIN loop' : \E j \in DOMAIN loop : loop'[i] = loop[j])
  BY <1>0
<1>d. DetachSteps # <<>> /\ AttachSteps # <<>> /\ DetachSteps # To("present", <<>>) /\ AttachSteps # To("present", <<>>)
  BY DEF DetachSteps, AttachSteps, To
<1>2. /\ gui' \in GuiType /\ Control' /\ ~Between' /\ gui'.in = 0
      /\ mailbox' \in [incarnation : {mailbox.incarnation}, highest : 0 .. RevisionLimit,
                       pending : 0 .. RevisionLimit, queued : BOOLEAN]
  <2>1. CASE gui' = gui
    <3>1. Control' /\ ~Between'
      BY <1>0, <1>d, <2>1, CallControl
    <3>2. mailbox' \in {mailbox, Emptied}
      BY DEF TakeFrame
    <3> QED
      BY <1>0, <2>1, <3>1, <3>2, Types, SameMailbox DEF Emptied
  <2>2. CASE gui' = GuiIdle
    <3>1. gui' \in GuiType /\ gui'.in = 0 /\ gui'.todo = <<>> /\ gui'.batch = <<>> /\ gui'.seen = 0
      BY <2>2, IdleGui, IdleFacts, EndFacts
    <3>2. Control' /\ ~Between'
      BY <3>1, <1>d, CallControl
    <3>3. mailbox' \in {mailbox, Emptied}
      BY DEF TakeFrame
    <3> QED
      BY <3>1, <3>2, <3>3, SameMailbox DEF Emptied
  <2>3. CASE mailbox' = Emptied /\ gui' = [GuiIdle EXCEPT !.todo = <<"present">> \o @, !.frame = mailbox.pending]
    <3>1. gui' = [todo |-> To("present", <<>>), in |-> 0, frame |-> mailbox.pending, batch |-> <<>>, seen |-> 0]
      BY <2>3 DEF GuiIdle, To
    <3>2. To("present", <<>>) \in Seq(StepName) /\ mailbox.pending \in 0 .. RevisionLimit
      BY EndFacts, AttachFacts DEF TypeOK
    <3>3. gui' \in GuiType
      BY <3>1, <3>2, Zero, GuiMade
    <3>4. Control' /\ ~Between'
      BY <1>d, <3>1, CallControl
    <3>5. gui'.in = 0
      BY <3>1
    <3> QED
      BY <2>3, <3>3, <3>4, <3>5, SameMailbox DEF Emptied
  <2> QED
    BY <2>1, <2>2, <2>3 DEF TakeFrame
<1>3. TypeOK'
  BY <1>1, <1>2, EpochTypes DEF TypeOK
<1>4. Room'
  BY <1>1, <1>2 DEF Room
<1>5. NotAhead'
  BY <1>1, <1>2, Types DEF NotAhead
<1> QED
  BY <1>2, <1>3, <1>4, <1>5 DEF Between

\* What a turn of the loop of drainGuiEvents does to the control state.
Closing(event) ==
  /\ event.kind = "closed" /\ gui'.seen = event.seen
  /\ \/ gui'.todo = End /\ mailbox' = mailbox /\ mailbox.incarnation # epoch
     \/ gui'.todo = End /\ mailbox' = Emptied /\ mailbox.incarnation = epoch /\ mailbox.pending = 0
     \/ /\ gui'.todo = To("present", End) /\ gui'.frame = mailbox.pending /\ mailbox.pending # 0
        /\ mailbox' = Emptied /\ mailbox.incarnation = epoch
Turned(event) ==
  /\ gui.batch # <<>> /\ epoch = gui.in /\ event = Head(gui.batch)
  /\ sent' = [sent EXCEPT !.handled = event.n]
  /\ gui' \in GuiType /\ gui'.in = gui.in /\ gui'.batch = Tail(gui.batch)
  /\ \/ event.kind = "note" /\ gui'.todo = Loop /\ UNCHANGED mailbox
     \/ event.kind = "refused" /\ gui'.todo = AtBump(Loop) /\ UNCHANGED mailbox
     \/ Closing(event)

\* A turn of the loop of drainGuiEvents ends the drain or handles one event.
LEMMA HandleMoves ==
  ASSUME Sound, Handle
  PROVE  /\ gui.todo = Loop /\ gui.in # 0 /\ gui.in < EpochLimit
         /\ \/ /\ gui.batch = <<>> \/ epoch # gui.in
               /\ gui' = GuiIdle /\ UNCHANGED <<mailbox, sent>>
            \/ \E event \in Event : Turned(event)
<1> USE DEF Handle, Sound
<1>0. gui.todo = Loop /\ gui.in # 0 /\ gui.in < EpochLimit /\ gui \in GuiType /\ gui.batch \in Seq(Event)
  BY Order, Types DEF At, Starts, Turn, Room, GuiType
<1>2. CASE gui.batch # <<>> /\ epoch = gui.in
  <2> DEFINE event == Head(gui.batch)
             rest == [gui EXCEPT !.batch = Tail(gui.batch)]
  <2>1. event \in Event /\ Tail(gui.batch) \in Seq(Event)
    BY <1>0, <1>2
  <2> SUFFICES Turned(event)
    BY <1>0, <2>1
  <2>0. sent' = [sent EXCEPT !.handled = event.n]
    BY <1>2 DEF StillAttached
  <2> HIDE DEF event
  <2>2. event.seen \in 0 .. RevisionLimit /\ event.kind \in Kind
    BY <2>1 DEF Event
  <2>3. rest \in GuiType /\ rest.todo = Loop /\ rest.in = gui.in /\ rest.batch = Tail(gui.batch) /\ rest.seen = gui.seen /\ rest.frame = gui.frame
    BY <1>0, <2>1 DEF GuiType
  <2> HIDE DEF rest
  <2>4. /\ gui' \in GuiType /\ gui'.in = gui.in /\ gui'.batch = Tail(gui.batch)
        /\ \/ event.kind = "note" /\ gui'.todo = Loop /\ UNCHANGED mailbox
           \/ event.kind = "refused" /\ gui'.todo = AtBump(Loop) /\ UNCHANGED mailbox
           \/ Closing(event)
    <3>1. CASE event.kind = "note" /\ gui' = rest /\ UNCHANGED mailbox
      BY <2>3, <3>1
    <3>2. CASE event.kind = "refused" /\ gui' = [rest EXCEPT !.todo = DetachSteps \o @] /\ UNCHANGED mailbox
      <4>1. DetachSteps \o Loop = AtBump(Loop) /\ AtBump(Loop) \in Seq(StepName) /\ Starts(AtBump(Loop), "bump")
        BY EndFacts, DetachFacts, CallFacts
      <4>2. gui' \in GuiType /\ gui'.todo = AtBump(Loop) /\ gui'.in = gui.in /\ gui'.batch = Tail(gui.batch)
        BY <2>3, <3>2, <4>1 DEF GuiType
      <4> QED
        BY <3>2, <4>2
    <3>3. CASE event.kind = "closed" /\ LastFrame([rest EXCEPT !.todo = <<"closing">> \o @, !.seen = event.seen])
      <4> DEFINE next == [rest EXCEPT !.todo = <<"closing">> \o @, !.seen = event.seen]
      <4>0. <<"closing">> \o Loop = End
        <5>1. <<"closing">> \o Loop \in Seq(StepName) /\ Len(<<"closing">> \o Loop) = 2
          BY DEF Loop, StepName
        <5>2. (<<"closing">> \o Loop)[1] = "closing" /\ (<<"closing">> \o Loop)[2] = "handle"
          BY DEF Loop
        <5>3. End \in Seq(StepName) /\ Len(End) = 2 /\ End[1] = "closing" /\ End[2] = "handle"
          BY DEF End, StepName
        <5> HIDE DEF Loop, End
        <5> QED
          BY <5>1, <5>2, <5>3
      <4>1. next \in GuiType /\ next.todo = End /\ next.in = gui.in /\ next.frame = gui.frame
            /\ next.batch = Tail(gui.batch) /\ next.seen = event.seen
        BY <2>2, <2>3, <4>0, EndFacts DEF GuiType
      <4> HIDE DEF next
      <4>2. CASE mailbox.incarnation # epoch
        BY <3>3, <4>1, <4>2 DEF LastFrame, TakeFrame, Closing, next
      <4>3. CASE mailbox.incarnation = epoch /\ mailbox.pending = 0
        BY <3>3, <4>1, <4>3 DEF LastFrame, TakeFrame, Closing, next
      <4>4. CASE mailbox.incarnation = epoch /\ mailbox.pending # 0
        <5>0. mailbox' = Emptied /\ gui' = [next EXCEPT !.todo = <<"present">> \o @, !.frame = mailbox.pending]
          BY <3>3, <4>4 DEF LastFrame, TakeFrame, next
        <5>1. <<"present">> \o End = To("present", End) /\ To("present", End) \in Seq(StepName) /\ Starts(To("present", End), "present")
          BY EndFacts, AttachFacts, CallFacts
        <5>2. gui' \in GuiType /\ gui'.todo = To("present", End) /\ gui'.in = gui.in /\ gui'.batch = Tail(gui.batch)
              /\ gui'.frame = mailbox.pending /\ gui'.seen = event.seen
          BY <4>1, <5>0, <5>1 DEF GuiType, TypeOK
        <5> QED
          BY <3>3, <4>4, <5>0, <5>2 DEF Closing
      <4> QED
        BY <4>2, <4>3, <4>4
    <3> QED
      BY <1>2, <2>2, <3>1, <3>2, <3>3 DEF Kind, event, rest, At, StillAttached
  <2> QED
    BY <1>2, <2>0, <2>4 DEF Turned, event
<1> QED
  BY <1>0, <1>2 DEF StillAttached

\* A turn of the loop of drainGuiEvents.
LEMMA HandleSound == ASSUME Sound, Handle PROVE Sound' /\ ~Between'
<1>1. CASE gui' = GuiIdle /\ UNCHANGED <<mailbox, sent>>
  <2>1. gui' \in GuiType /\ gui'.in = 0 /\ gui'.todo = <<>> /\ gui'.batch = <<>> /\ gui'.seen = 0
    BY <1>1, IdleGui, IdleFacts, EndFacts
  <2>2. DetachSteps # <<>> /\ AttachSteps # <<>>
    BY DEF DetachSteps, AttachSteps
  <2>3. Control' /\ ~Between'
    BY <2>1, <2>2, CallControl DEF Handle
  <2> QED
    BY <1>1, <2>1, <2>3, MoveSound, SameMailbox DEF Handle
<1>2. ASSUME NEW event \in Event, Turned(event) PROVE Sound' /\ ~Between'
  <2>1. gui.in # 0 /\ gui.in < EpochLimit /\ gui' \in GuiType /\ gui'.in = gui.in /\ epoch = gui.in
    BY <1>2, HandleMoves DEF Turned
  <2>2. mailbox' \in {mailbox, Emptied} /\ gui'.todo \in {Loop, AtBump(Loop), End, To("present", End)}
    BY <1>2 DEF Turned, Closing
  <2>3. Control'
    BY <2>1, <2>2, Types DEF Handle, Control, Detaching
  <2>4. ~Between'
    BY <2>2, EndFacts, DetachFacts, AttachFacts, StartsOnce DEF Between
  <2>5. sent' \in [accepted : 0 .. SentLimit, handled : 0 .. SentLimit]
    <3>1. event.n \in 0 .. SentLimit
      BY ConstantsAssumption DEF Event, ConstantsAssumption
    <3> QED
      BY <1>2, <3>1 DEF Turned, Sound, TypeOK
  <2> QED
    BY <2>1, <2>2, <2>3, <2>4, <2>5, MovedSound, SameMailbox DEF Handle, Emptied
<1> QED
  BY <1>1, <1>2, HandleMoves

\* Steps of the two threads that leave the control of the GUI thread alone.
LEMMA StillControl ==
  ASSUME Control, UNCHANGED <<gui, epoch>>, Bare => Bare'
  PROVE  Control'
<1>1. ASSUME NEW b \in Ends PROVE (Detaching(b) => Detaching(b)') /\ (Attaching(b) => Attaching(b)')
  BY DEF Detaching, Attaching
<1> QED
  BY <1>1 DEF Control, Ends

\* Steps of publishing: they change the entry, its lock, the mailbox and who
\* publishes what.
LEMMA PublishedSound ==
  ASSUME Sound, UNCHANGED <<epoch, queue, gui, view, sent>>,
         entry' \in [epoch : {entry.epoch}, active : {entry.active}, rev : 0 .. RevisionLimit, pub : 0 .. RevisionLimit],
         lock' \in Thread \cup {"free"},
         pub' \in [Thread -> PubType],
         \A th \in Thread : pub'[th].epoch \in {0, entry.epoch, pub[th].epoch},
         mailbox' \in [incarnation : {mailbox.incarnation}, highest : 0 .. RevisionLimit,
                       pending : 0 .. RevisionLimit, queued : BOOLEAN],
         loop' = loop \/ \E th \in Thread : loop' = Append(loop, DrainFrame(pub[th].epoch))
  PROVE  Sound'
<1> USE DEF Sound
<1>1. Control'
  BY StillControl DEF Bare
<1>2. /\ loop' \in Seq(Posted)
      /\ \A i \in DOMAIN loop' : \/ \E j \in DOMAIN loop : loop'[i] = loop[j]
                               \/ \E th \in Thread : loop'[i] = DrainFrame(pub[th].epoch)
  <2>0. loop \in Seq(Posted)
    BY DEF TypeOK
  <2>1. ASSUME NEW th \in Thread, loop' = Append(loop, DrainFrame(pub[th].epoch))
        PROVE  /\ loop' \in Seq(Posted)
               /\ \A i \in DOMAIN loop' : \/ \E j \in DOMAIN loop : loop'[i] = loop[j]
                                        \/ loop'[i] = DrainFrame(pub[th].epoch)
    <3>1. DrainFrame(pub[th].epoch) \in Posted
      BY Types, EpochTypes DEF DrainFrame, Posted, TypeOK, PubType
    <3> HIDE DEF DrainFrame
    <3> QED
      BY <2>0, <2>1, <3>1
  <2> QED
    BY <2>0, <2>1
<1>3. TypeOK' /\ queue' \in QueueType
  BY <1>2, EpochTypes, Types DEF TypeOK
<1>4. Room'
  BY <1>2 DEF Room, DrainFrame
<1>n. /\ entry'.epoch = entry.epoch /\ mailbox'.incarnation = mailbox.incarnation
      /\ \A th \in Thread : DrainFrame(pub[th].epoch).epoch = pub[th].epoch
  BY DEF DrainFrame
<1>5. NotAhead'
  <2>1. ASSUME NEW th \in Thread PROVE pub'[th].epoch <= epoch
    <3>1. pub'[th].epoch = 0 \/ pub'[th].epoch = entry.epoch \/ pub'[th].epoch = pub[th].epoch
      OBVIOUS
    <3>2. 0 <= epoch /\ entry.epoch <= epoch /\ pub[th].epoch <= epoch
      BY Types DEF NotAhead
    <3> QED
      BY <3>1, <3>2
  <2>2. \A i \in DOMAIN loop' : loop'[i].epoch <= epoch
    BY <1>2, <1>n DEF NotAhead
  <2> QED
    BY <1>n, <2>1, <2>2 DEF NotAhead
<1>6. Between' => Behind'
  <2> SUFFICES ASSUME Between' PROVE Behind'
    OBVIOUS
  <2>1. Behind
    BY DEF Between
  <2>2. ASSUME NEW th \in Thread PROVE pub'[th].epoch < epoch
    <3>1. pub'[th].epoch = 0 \/ pub'[th].epoch = entry.epoch \/ pub'[th].epoch = pub[th].epoch
      OBVIOUS
    <3>2. entry.epoch < epoch /\ pub[th].epoch < epoch /\ entry.epoch \in Nat
      BY <2>1, EpochTypes DEF Behind
    <3> QED
      BY <3>1, <3>2, Types
  <2>3. \A i \in DOMAIN loop' : loop'[i].epoch < epoch
    BY <1>2, <1>n, <2>1 DEF Behind
  <2> QED
    BY <1>n, <2>1, <2>2, <2>3 DEF Behind
<1> QED
  BY <1>1, <1>3, <1>4, <1>5, <1>6

\* The places of a publishing thread.
LEMMA PubFacts ==
  ASSUME Sound
  PROVE  /\ pub \in [Thread -> PubType] /\ lock \in Thread \cup {"free"} /\ PubIdle \in PubType
         /\ entry \in [epoch : {entry.epoch}, active : {entry.active}, rev : 0 .. RevisionLimit, pub : 0 .. RevisionLimit]
         /\ \A t \in Thread, pc \in {"check", "put", "post"} :
               /\ [pub EXCEPT ![t].pc = pc] \in [Thread -> PubType]
               /\ \A u \in Thread : [pub EXCEPT ![t].pc = pc][u].epoch = pub[u].epoch
         /\ \A t \in Thread :
               /\ [pub EXCEPT ![t] = PubIdle] \in [Thread -> PubType]
               /\ \A u \in Thread : [pub EXCEPT ![t] = PubIdle][u].epoch \in {0, pub[u].epoch}
<1>1. pub \in [Thread -> PubType] /\ lock \in Thread \cup {"free"}
  BY DEF Sound, TypeOK
<1>2. PubIdle \in PubType /\ PubIdle.epoch = 0
  BY Zero DEF PubIdle, PubType
<1>3. entry \in [epoch : {entry.epoch}, active : {entry.active}, rev : 0 .. RevisionLimit, pub : 0 .. RevisionLimit]
  <2>1. entry \in [epoch : 0 .. EpochLimit, active : BOOLEAN, rev : 0 .. RevisionLimit, pub : 0 .. RevisionLimit]
    BY DEF Sound, TypeOK
  <2> QED
    BY <2>1
<1>4. ASSUME NEW t \in Thread, NEW pc \in {"check", "put", "post"}
      PROVE  /\ [pub EXCEPT ![t].pc = pc] \in [Thread -> PubType]
             /\ \A u \in Thread : [pub EXCEPT ![t].pc = pc][u].epoch = pub[u].epoch
  BY <1>1 DEF PubType
<1>5. ASSUME NEW t \in Thread
      PROVE  /\ [pub EXCEPT ![t] = PubIdle] \in [Thread -> PubType]
             /\ \A u \in Thread : [pub EXCEPT ![t] = PubIdle][u].epoch \in {0, pub[u].epoch}
  BY <1>1, <1>2
<1> QED
  BY <1>1, <1>2, <1>3, <1>4, <1>5

\* A redraw and the steps of publishFrame and enqueueFrame.
LEMMA PublishSound ==
  ASSUME Sound, NEW th \in Thread, Redraw(th) \/ PublishStep(th)
  PROVE  Sound'
<1>0. /\ entry \in [epoch : 0 .. EpochLimit, active : BOOLEAN, rev : 0 .. RevisionLimit, pub : 0 .. RevisionLimit]
      /\ pub \in [Thread -> PubType] /\ pub[th] \in PubType /\ EpochLimit \in Nat /\ RevisionLimit \in Nat
  BY Types DEF Sound, TypeOK
<1>1. CASE Redraw(th)
  <2>1. entry' \in [epoch : {entry.epoch}, active : {entry.active}, rev : 0 .. RevisionLimit, pub : 0 .. RevisionLimit]
    <3>1. entry.rev + 1 \in 0 .. RevisionLimit
      BY <1>0, <1>1 DEF Redraw
    <3> QED
      BY <1>0, <1>1, <3>1 DEF Redraw
  <2>2. [pc |-> "publish", epoch |-> entry.epoch, rev |-> entry.rev + 1] \in PubType
    BY <1>0, <1>1 DEF Redraw, PubType
  <2>3. pub' \in [Thread -> PubType] /\ \A t \in Thread : pub'[t].epoch \in {0, entry.epoch, pub[t].epoch}
    BY <1>0, <1>1, <2>2 DEF Redraw
  <2>4. lock' \in Thread \cup {"free"} /\ UNCHANGED <<epoch, queue, gui, view, sent, mailbox, loop>>
    BY <1>1, PubFacts DEF Redraw
  <2> QED
    BY <2>1, <2>3, <2>4, PublishedSound, SameMailbox
<1>2. CASE PublishStep(th)
  <2>1. UNCHANGED <<epoch, queue, gui, view, sent>>
    BY <1>2 DEF PublishStep, Publish, CheckEpoch, Put, Post
  <2>2. /\ lock' \in Thread \cup {"free"}
        /\ pub' \in {[pub EXCEPT ![th].pc = "check"], [pub EXCEPT ![th].pc = "put"],
                     [pub EXCEPT ![th].pc = "post"], [pub EXCEPT ![th] = PubIdle]}
    BY <1>2, PubFacts DEF PublishStep, Publish, CheckEpoch, Put, Post, Release
  <2>3. pub' \in [Thread -> PubType] /\ \A t \in Thread : pub'[t].epoch \in {0, entry.epoch, pub[t].epoch}
    <3>1. CASE pub' = [pub EXCEPT ![th] = PubIdle]
      BY <3>1, PubFacts
    <3>2. ASSUME NEW pc \in {"check", "put", "post"}, pub' = [pub EXCEPT ![th].pc = pc]
          PROVE  pub' \in [Thread -> PubType] /\ \A t \in Thread : pub'[t].epoch = pub[t].epoch
      BY <3>2, PubFacts
    <3> QED
      BY <2>2, <3>1, <3>2
  <2>4. entry' \in [epoch : {entry.epoch}, active : {entry.active}, rev : 0 .. RevisionLimit, pub : 0 .. RevisionLimit]
    <3>1. entry' \in {entry, [entry EXCEPT !.pub = pub[th].rev]} /\ pub[th].rev \in 0 .. RevisionLimit
      BY <1>0, <1>2 DEF PublishStep, Publish, CheckEpoch, Put, Post, PubType
    <3> QED
      BY <1>0, <3>1
  <2>5. mailbox' \in [incarnation : {mailbox.incarnation}, highest : 0 .. RevisionLimit,
                       pending : 0 .. RevisionLimit, queued : BOOLEAN]
    <3>1. /\ mailbox' \in {mailbox, [mailbox EXCEPT !.highest = pub[th].rev, !.pending = pub[th].rev, !.queued = TRUE]}
          /\ pub[th].rev \in 0 .. RevisionLimit
      BY <1>0, <1>2 DEF PublishStep, Publish, CheckEpoch, Put, Post, PubType
    <3> QED
      BY <3>1, SameMailbox
  <2>6. loop' = loop \/ loop' = Append(loop, DrainFrame(pub[th].epoch))
    BY <1>2 DEF PublishStep, Publish, CheckEpoch, Put, Post
  <2> QED
    BY <2>1, <2>2, <2>3, <2>4, <2>5, <2>6, PublishedSound
<1> QED
  BY <1>1, <1>2

\* enqueueGuiEvent.
LEMMA SendSound ==
  ASSUME Sound, NEW th \in Thread, NEW kind \in Kind, Send(th, kind)
  PROVE  Sound'
<1> USE DEF Sound
<1> DEFINE event == [kind |-> kind, n |-> sent.accepted + 1, seen |-> entry.pub]
<1>1. CASE UNCHANGED <<queue, loop, sent>>
  <2>1. UNCHANGED vars
    BY <1>1 DEF Send, vars
  <2>2. Bare' = Bare /\ Control'
    BY <2>1, StillControl DEF vars, Bare
  <2> QED
    BY <2>1, <2>2 DEF vars, TypeOK, Room, NotAhead, Behind, Between
<1>2. CASE /\ epoch = entry.epoch
           /\ queue' = [events |-> Queued(event),
                       overflow |-> Len(queue.events) >= EventLimit, queued |-> TRUE]
           /\ loop' = IF queue.queued THEN loop ELSE Append(loop, DrainGuiEvents(epoch))
           /\ sent' = [sent EXCEPT !.accepted = @ + 1]
  <2>0. entry.active /\ sent.accepted < SentLimit /\ UNCHANGED <<epoch, mailbox, entry, lock, pub, gui, view>>
    BY DEF Send
  <2>a. sent \in [accepted : 0 .. SentLimit, handled : 0 .. SentLimit] /\ entry.pub \in 0 .. RevisionLimit /\ SentLimit \in Nat
    BY Types DEF TypeOK
  <2>1. event \in Event
    BY <2>0, <2>a DEF Event
  <2> HIDE DEF event
  <2>2. queue' \in QueueType /\ Len(queue'.events) <= EventLimit
    <3>1. queue.events \in Seq(Event) /\ Len(queue.events) \in Nat /\ Len(queue.events) <= EventLimit
      BY DEF QueueType, TypeOK
    <3>2. Queued(event) \in Seq(Event) /\ Len(Queued(event)) <= EventLimit
      BY <2>1, <3>1, Types DEF Queued
    <3> QED
      BY <1>2, <3>1, <3>2, Types DEF QueueType
  <2>3. ~Between
    BY <1>2, Types DEF Behind
  <2>4. Control'
    BY <2>0, StillControl DEF Bare
  <2>5. epoch \in 1 .. EpochLimit - 1
    BY <1>2, <2>0 DEF Room
  <2>6. /\ loop' \in Seq(Posted)
        /\ \A i \in DOMAIN loop' : loop'[i] = DrainGuiEvents(epoch) \/ \E j \in DOMAIN loop : loop'[i] = loop[j]
    <3>1. DrainGuiEvents(epoch) \in Posted /\ loop \in Seq(Posted)
      BY Types DEF DrainGuiEvents, Posted, TypeOK
    <3> HIDE DEF DrainGuiEvents
    <3> QED
      BY <1>2, <3>1
  <2>7. sent' \in [accepted : 0 .. SentLimit, handled : 0 .. SentLimit]
    BY <1>2, <2>0, <2>a
  <2>8. TypeOK'
    BY <2>0, <2>2, <2>6, <2>7 DEF TypeOK, QueueType
  <2>9. Room'
    BY <2>0, <2>5, <2>6 DEF Room, DrainGuiEvents
  <2>10. NotAhead'
    BY <2>0, <2>6, Types DEF NotAhead, DrainGuiEvents
  <2>11. ~Between' /\ ~Starts(gui'.todo, "unregister")
    BY <2>0, <2>3 DEF Between
  <2> QED
    BY <2>2, <2>4, <2>8, <2>9, <2>10, <2>11
<1> QED
  BY <1>1, <1>2 DEF Send

\* Every step keeps types, control and epochs sound.
LEMMA SoundKept == Sound /\ [Next]_vars => Sound'
<1> SUFFICES ASSUME Sound, [Next]_vars PROVE Sound'
  OBVIOUS
<1>1. CASE UNCHANGED vars
  <2>1. Bare' = Bare /\ Control'
    BY <1>1, StillControl DEF vars, Bare, Sound
  <2> QED
    BY <1>1, <2>1 DEF vars, TypeOK, Room, NotAhead, Behind, Between, Sound
<1>2. CASE Next
  BY <1>2, PublishSound, SendSound, AttachDetachSound, PresentSound, DrainFrameSound,
     DrainGuiEventsSound, HandleSound,
     CloseViewSound, BumpSound, ResetSound, ClearSound, UnregisterSound, RegisterSound, ConnectSound, RollbackSound
     DEF Next, GuiStep
<1> QED
  BY <1>1, <1>2

\* The attachment epoch, the mailbox, the queue of GUI events, the registry
\* entry and what either thread is doing with them have their types
\* (TerminalView.cpp): the queue never holds more than EventLimit events, and no
\* path through attach, detach and the drains passes the bound of the epochs.
THEOREM TypeCorrect == Spec => []TypeOK
<1>1. Spec => []Sound
  BY SoundInit, SoundKept, PTL DEF Spec
<1>2. Sound => TypeOK
  BY DEF Sound
<1> QED
  BY <1>1, <1>2, PTL

-----------------------------------------------------------------------------
(* What follows uses these everywhere.                                       *)
USE DEF Done, Thread

-----------------------------------------------------------------------------
(* The steps of the GUI thread, seen from outside.                          *)

\* The locals of the drain are left alone.
Keeps == gui'.in = gui.in /\ gui'.frame = gui.frame /\ gui'.batch = gui.batch /\ gui'.seen = gui.seen

\* A step that calls nothing keeps the locals of the drain.
LEMMA PopMoves ==
  ASSUME Sound, gui.todo # <<>>, gui' = Done(<<>>)
  PROVE  Turn(gui'.todo) /\ Keeps
BY Order, Popped DEF Keeps

\* Moving the epoch is followed by the reset of the mailbox.
LEMMA BumpMoves ==
  ASSUME Sound, Bump
  PROVE  Starts(gui.todo, "bump") /\ Starts(gui'.todo, "reset") /\ Keeps /\ epoch' = epoch + 1
<1>1. gui.todo # <<>> /\ Starts(gui.todo, "bump") /\ gui' = Done(<<>>)
  BY DEF Bump, At, Starts
<1> QED
  BY <1>1, PopMoves DEF Turn, Bump

\* The reset of the mailbox is followed by clearGuiEvents, or by the
\* registration.
LEMMA ResetMoves ==
  ASSUME Sound, ResetMailbox
  PROVE  Starts(gui.todo, "reset") /\ (Starts(gui'.todo, "clear") \/ Starts(gui'.todo, "register")) /\ Keeps
<1>1. gui.todo # <<>> /\ Starts(gui.todo, "reset") /\ gui' = Done(<<>>)
  BY DEF ResetMailbox, At, Starts
<1> QED
  BY <1>1, PopMoves DEF Turn

\* clearGuiEvents is followed by unregisterSurface.
LEMMA ClearMoves ==
  ASSUME Sound, ClearEvents
  PROVE  Starts(gui.todo, "clear") /\ Starts(gui'.todo, "unregister") /\ Keeps
<1>1. gui.todo # <<>> /\ Starts(gui.todo, "clear") /\ gui' = Done(<<>>)
  BY DEF ClearEvents, At, Starts
<1> QED
  BY <1>1, PopMoves DEF Turn

\* unregisterSurface ends detach, or the new epoch of attach follows.
LEMMA UnregisterMoves ==
  ASSUME Sound, Unregister
  PROVE  Starts(gui.todo, "unregister") /\ (Starts(gui'.todo, "bump") \/ gui'.todo \in Ends) /\ Keeps
<1>1. gui.todo # <<>> /\ Starts(gui.todo, "unregister") /\ gui' = Done(<<>>)
  BY DEF Unregister, At, Starts
<1> QED
  BY <1>1, PopMoves DEF Turn

\* registerSurface finds no entry of the view and no event in the queue;
\* accepted, the terminal is connected.
LEMMA RegisterMoves ==
  ASSUME Sound, Register
  PROVE  /\ Starts(gui.todo, "register") /\ Bare /\ Keeps
         /\ \/ /\ entry' = [epoch |-> epoch, active |-> TRUE, rev |-> 0, pub |-> 0]
               /\ sent' = [accepted |-> 0, handled |-> 0]
               /\ Starts(gui'.todo, "connect")
            \/ /\ UNCHANGED <<entry, sent>>
               /\ gui'.todo \in {<<>>, End}
<1>1. gui.todo # <<>> /\ Starts(gui.todo, "register")
  BY DEF Register, At, Starts
<1>2. Starts(Tail(gui.todo), "connect") /\ Tail(Tail(gui.todo)) \in {<<>>, End} /\ Bare
  BY <1>1, Order DEF Turn
<1>3. CASE /\ entry' = [epoch |-> epoch, active |-> TRUE, rev |-> 0, pub |-> 0] /\ gui' = Done(<<>>)
           /\ sent' = [accepted |-> 0, handled |-> 0]
  <2>1. gui'.todo = Tail(gui.todo) /\ Keeps
    BY <1>1, <1>3, Popped DEF Keeps
  <2> QED
    BY <1>1, <1>2, <1>3, <2>1
<1>4. CASE gui' = [gui EXCEPT !.todo = Tail(Tail(@))] /\ UNCHANGED <<entry, sent>>
  <2>1. Tail(Tail(gui.todo)) \in Seq(StepName) /\ gui \in GuiType
    BY <1>2, Types, EndFacts
  <2>2. gui'.todo = Tail(Tail(gui.todo)) /\ Keeps
    BY <1>4, <2>1, GuiFacts DEF Keeps
  <2> QED
    BY <1>1, <1>2, <1>4, <2>2
<1> QED
  BY <1>3, <1>4 DEF Register

\* connectTerminal ends attach, or its rollback does.
LEMMA ConnectMoves ==
  ASSUME Sound, Connect
  PROVE  Starts(gui.todo, "connect") /\ (Starts(gui'.todo, "rollback") \/ gui'.todo \in {<<>>, End}) /\ Keeps
<1>1. gui.todo # <<>> /\ Starts(gui.todo, "connect") /\ Tail(gui.todo) \in {<<>>, End}
  <2>1. gui.todo # <<>> /\ Starts(gui.todo, "connect")
    BY DEF Connect, At, Starts
  <2> QED
    BY <2>1, Order DEF Turn
<1>2. CASE gui' = Done(<<>>)
  BY <1>1, <1>2, Popped DEF Keeps
<1>3. CASE gui' = Done(<<"rollback">>)
  <2>1. Tail(gui.todo) \in Seq(StepName)
    BY <1>1, EndFacts
  <2>2. <<"rollback">> \o Tail(gui.todo) = To("rollback", Tail(gui.todo))
    BY <2>1, CallFacts
  <2>3. To("rollback", Tail(gui.todo)) \in Seq(StepName) /\ Starts(To("rollback", Tail(gui.todo)), "rollback")
    BY <2>1, AttachFacts
  <2>4. gui' = [gui EXCEPT !.todo = To("rollback", Tail(gui.todo))] /\ gui \in GuiType
    BY <1>3, <2>2, Types
  <2> QED
    BY <1>1, <2>3, <2>4, GuiFacts DEF Keeps
<1> QED
  BY <1>2, <1>3 DEF Connect

\* The rollback ends attach.
LEMMA RollbackMoves ==
  ASSUME Sound, Rollback
  PROVE  Starts(gui.todo, "rollback") /\ gui'.todo \in {<<>>, End} /\ Keeps
<1>1. gui.todo # <<>> /\ Starts(gui.todo, "rollback") /\ gui' = Done(<<>>)
  BY DEF Rollback, At, Starts
<1> QED
  BY <1>1, PopMoves DEF Turn

\* presentFrame goes on with what drew it, or attaches the view.
LEMMA PresentMoves ==
  ASSUME Sound, Present
  PROVE  /\ Starts(gui.todo, "present") /\ (Starts(gui'.todo, "bump") \/ gui'.todo \in {<<>>, End})
         /\ gui'.in = gui.in /\ gui'.batch = gui.batch /\ gui'.seen = gui.seen
         /\ gui.in # 0 => gui'.todo # Loop
<1> USE DEF Present
<1>0. gui.todo # <<>> /\ Starts(gui.todo, "present") /\ Tail(gui.todo) \in {<<>>, End} /\ gui \in GuiType
  BY Order, Types DEF At, Starts, Turn
<1>1. Tail(gui.todo) \in Seq(StepName)
  BY <1>0, EndFacts
<1>2. AttachSteps \o Tail(gui.todo) \in Seq(StepName) /\ Starts(AttachSteps \o Tail(gui.todo), "bump")
  <2>1. AttachSteps \o Tail(gui.todo) = AtBump(AtBump2(Tail(gui.todo))) /\ AtBump2(Tail(gui.todo)) \in Seq(StepName)
    BY <1>1, CallFacts, AttachFacts
  <2> QED
    BY <2>1, DetachFacts
<1>3. CASE gui' = [Done(<<>>) EXCEPT !.frame = 0]
  <2>1. gui' = [[gui EXCEPT !.todo = Tail(gui.todo)] EXCEPT !.frame = 0]
    BY <1>1, <1>3
  <2>2. gui'.todo = Tail(gui.todo) /\ gui'.in = gui.in /\ gui'.batch = gui.batch /\ gui'.seen = gui.seen
    BY <1>0, <2>1 DEF GuiType
  <2>3. <<>> # Loop /\ End # Loop
    BY DEF Loop, End
  <2> QED
    BY <1>0, <2>2, <2>3
<1>4. CASE gui' = [Done(AttachSteps) EXCEPT !.frame = 0]
  <2>1. gui'.todo = AttachSteps \o Tail(gui.todo) /\ gui'.in = gui.in /\ gui'.batch = gui.batch /\ gui'.seen = gui.seen
    BY <1>0, <1>4 DEF GuiType
  <2>2. ~Starts(Loop, "bump")
    BY EndFacts, StartsOnce
  <2> QED
    BY <1>0, <1>2, <2>1, <2>2
<1> QED
  BY <1>3, <1>4

\* The end of the view is acted on by the drain of its own epoch only.
LEMMA CloseViewMoves ==
  ASSUME Sound, CloseView
  PROVE  /\ gui.todo = End /\ gui.in # 0
         /\ \/ epoch = gui.in /\ Starts(gui'.todo, "bump") /\ gui'.in = gui.in /\ gui'.batch = gui.batch
            \/ epoch # gui.in /\ gui' = GuiIdle
<1> USE DEF CloseView
<1>0. gui.todo = End /\ gui.in # 0 /\ gui.todo # <<>> /\ Tail(gui.todo) = Loop /\ gui \in GuiType
  BY Order, Types, EndFacts DEF At, Starts, Turn
<1>1. CASE epoch = gui.in
  <2>1. DetachSteps \o Loop = AtBump(Loop) /\ AtBump(Loop) \in Seq(StepName) /\ Starts(AtBump(Loop), "bump")
    BY EndFacts, DetachFacts, CallFacts
  <2>2. gui' = [[gui EXCEPT !.todo = AtBump(Loop)] EXCEPT !.seen = 0]
    BY <1>0, <1>1, <2>1 DEF StillAttached
  <2>3. gui'.todo = AtBump(Loop) /\ gui'.in = gui.in /\ gui'.batch = gui.batch
    BY <1>0, <2>1, <2>2 DEF GuiType
  <2> QED
    BY <1>0, <1>1, <2>1, <2>3
<1> QED
  BY <1>0, <1>1 DEF StillAttached

\* The steps of the GUI thread that neither move the epoch nor reset the mailbox.
GuiMove == \/ Present \/ RunDrainFrame \/ RunDrainGuiEvents \/ Handle \/ CloseView \/ Unregister
           \/ Register \/ Connect \/ Rollback \/ Attach \/ Detach

\* Those steps are taken outside the window in which nothing is of the current
\* epoch, and do not open it.
LEMMA Elsewhere ==
  ASSUME Sound, GuiMove
  PROVE  /\ ~Between' /\ ~Starts(gui.todo, "reset") /\ ~Starts(gui.todo, "clear")
         /\ epoch' = epoch /\ mailbox'.incarnation = mailbox.incarnation
<1>1. ~Between'
  BY AttachDetachSound, PresentSound, DrainFrameSound, DrainGuiEventsSound, HandleSound,
     CloseViewSound, UnregisterSound, RegisterSound, ConnectSound, RollbackSound DEF GuiMove
<1>2. ~Starts(gui.todo, "reset") /\ ~Starts(gui.todo, "clear")
  <2>1. CASE gui.todo = <<>>
    BY <2>1 DEF Starts
  <2>2. ASSUME gui.todo # <<>>
        PROVE  \E x \in {"present", "handle", "closing", "unregister", "register", "connect", "rollback"} : Starts(gui.todo, x)
    BY <2>2 DEF GuiMove, Present, RunDrainFrame, RunDrainGuiEvents, Handle, CloseView, Unregister,
       Register, Connect, Rollback,
       Attach, Detach, Free, At, Starts
  <2> QED
    BY <2>1, <2>2, StartsOnce
<1>3. epoch' = epoch
  BY DEF GuiMove, Present, RunDrainFrame, RunDrainGuiEvents, Handle, CloseView, Unregister,
     Register, Connect, Rollback, Attach, Detach
<1>4. mailbox' \in {mailbox, Emptied}
  <2>1. CASE RunDrainFrame
    BY <2>1 DEF RunDrainFrame, TakeFrame
  <2>2. CASE Handle
    BY <2>2, HandleMoves DEF Turned, Closing
  <2>3. CASE ~RunDrainFrame /\ ~Handle
    BY <2>3 DEF GuiMove, Present, RunDrainGuiEvents, CloseView, Unregister, Register, Connect,
       Rollback, Attach, Detach
  <2> QED
    BY <2>1, <2>2, <2>3
<1>5. Emptied.incarnation = mailbox.incarnation
  BY DEF Emptied, Sound, TypeOK
<1> QED
  BY <1>1, <1>2, <1>3, <1>4, <1>5

-----------------------------------------------------------------------------
(* The posted calls; the epoch of the mailbox; the listener mutex.          *)

\* x is among the posted calls q; at most once; and a thread is about to post a
\* drain of epoch e.
In(q, x) == \E i \in DOMAIN q : q[i] = x
Once(q, x) == \A i, j \in DOMAIN q : q[i] = x /\ q[j] = x => i = j
Posts(p, e) == \E th \in Thread : p[th].pc = "post" /\ p[th].epoch = e

\* Taking the first call of the event loop.
LEMMA TailFacts ==
  ASSUME NEW q \in Seq(Posted), q # <<>>, NEW x
  PROVE  /\ In(Tail(q), x) => In(q, x)
         /\ In(q, x) /\ Head(q) # x => In(Tail(q), x)
         /\ Once(q, x) => Once(Tail(q), x)
         /\ Once(q, x) /\ Head(q) = x => ~In(Tail(q), x)
<1>1. \A i \in DOMAIN Tail(q) : i + 1 \in DOMAIN q /\ Tail(q)[i] = q[i + 1] /\ i \in Nat
  OBVIOUS
<1>2. \A i \in DOMAIN q : i # 1 => i - 1 \in DOMAIN Tail(q) /\ Tail(q)[i - 1] = q[i]
  OBVIOUS
<1>3. 1 \in DOMAIN q /\ Head(q) = q[1] /\ \A i \in DOMAIN q : i \in Nat
  OBVIOUS
<1>4. In(Tail(q), x) => In(q, x)
  BY <1>1 DEF In
<1>5. In(q, x) /\ Head(q) # x => In(Tail(q), x)
  BY <1>2, <1>3 DEF In
<1>6. Once(q, x) => Once(Tail(q), x)
  <2> SUFFICES ASSUME Once(q, x), NEW i \in DOMAIN Tail(q), NEW j \in DOMAIN Tail(q), Tail(q)[i] = x, Tail(q)[j] = x
               PROVE  i = j
    BY DEF Once
  <2>1. i + 1 = j + 1
    BY <1>1 DEF Once
  <2> QED
    BY <2>1, <1>1
<1>7. Once(q, x) /\ Head(q) = x => ~In(Tail(q), x)
  <2> SUFFICES ASSUME Once(q, x), Head(q) = x, NEW i \in DOMAIN Tail(q), Tail(q)[i] = x PROVE FALSE
    BY DEF In
  <2>1. i + 1 = 1
    BY <1>1, <1>3 DEF Once
  <2> QED
    BY <2>1, <1>1, <1>3
<1> QED
  BY <1>4, <1>5, <1>6, <1>7

\* Posting a call.
LEMMA AppendFacts ==
  ASSUME NEW q \in Seq(Posted), NEW y \in Posted, NEW x
  PROVE  /\ In(Append(q, y), x) <=> In(q, x) \/ y = x
         /\ Once(q, x) /\ (y = x => ~In(q, x)) => Once(Append(q, y), x)
<1> DEFINE r == Append(q, y)
<1>1. /\ DOMAIN r = 1 .. Len(q) + 1 /\ DOMAIN q = 1 .. Len(q) /\ Len(q) \in Nat
      /\ \A i \in DOMAIN q : i \in DOMAIN r /\ r[i] = q[i]
      /\ r[Len(q) + 1] = y
  OBVIOUS
<1> HIDE DEF r
<1>2. \A i \in DOMAIN r : i \in DOMAIN q \/ i = Len(q) + 1
  BY <1>1
<1>3. In(r, x) <=> In(q, x) \/ y = x
  BY <1>1, <1>2 DEF In
<1>4. Once(q, x) /\ (y = x => ~In(q, x)) => Once(r, x)
  BY <1>1, <1>2 DEF In, Once
<1> QED
  BY <1>3, <1>4 DEF r

\* No call of epoch e is posted when no call has that epoch.
LEMMA Absent ==
  ASSUME NEW e, \A i \in DOMAIN loop : loop[i].epoch # e
  PROVE  ~In(loop, DrainFrame(e)) /\ ~In(loop, DrainGuiEvents(e))
BY DEF In, DrainFrame, DrainGuiEvents

\* The two kinds of drain, and drains of different epochs, are different calls.
LEMMA CallsDiffer ==
  ASSUME NEW e, NEW f
  PROVE  /\ DrainFrame(e) # DrainGuiEvents(f)
         /\ DrainFrame(e) = DrainFrame(f) => e = f
         /\ DrainGuiEvents(e) = DrainGuiEvents(f) => e = f
         /\ DrainFrame(e).epoch = e /\ DrainGuiEvents(e).epoch = e
<1>1. DrainFrame(e).call # DrainGuiEvents(f).call /\ DrainFrame(e).epoch = e /\ DrainFrame(f).epoch = f
      /\ DrainGuiEvents(e).epoch = e /\ DrainGuiEvents(f).epoch = f
  BY DEF DrainFrame, DrainGuiEvents
<1> QED
  BY <1>1

\* The mailbox is of the current epoch but for the moment between moving the
\* epoch and resetting it.
Fence == Starts(gui.todo, "reset") <=> mailbox.incarnation # epoch

\* Who has passed the test of publishFrame holds the listener mutex, and what it
\* publishes is the last of the entry, still registered.
Locked ==
  /\ \A th \in Thread : pub[th].pc \in {"check", "put", "post"} <=> lock = th
  /\ \A th \in Thread : lock = th =>
       entry.active /\ pub[th].epoch = entry.epoch /\ pub[th].rev = entry.pub

\* Nothing is attached, and nobody publishes.
LEMMA FenceInit == Init => Fence /\ Locked
BY DEF Init, Fence, Locked, Starts, GuiIdle, PubIdle

\* Publishing and sending leave the GUI thread, the epoch and the view alone.
LEMMA CallbackMoves ==
  ASSUME NEW th \in Thread, Redraw(th) \/ PublishStep(th) \/ \E kind \in Kind : Send(th, kind)
  PROVE  UNCHANGED <<gui, epoch, view>>
BY DEF Redraw, PublishStep, Publish, CheckEpoch, Put, Post, Send

\* The reset follows the new epoch at once.
LEMMA FenceKept == Sound /\ Fence /\ [Next]_vars => Fence'
<1> SUFFICES ASSUME Sound, Fence, [Next]_vars PROVE Fence'
  OBVIOUS
<1>1. CASE UNCHANGED vars
  BY <1>1 DEF vars, Fence
<1>2. CASE GuiMove
  BY <1>2, Elsewhere DEF Fence, Between
<1>3. CASE Bump
  <2>1. mailbox'.incarnation # epoch'
    BY <1>3, BumpMoves, Types, EpochTypes DEF Bump, Sound, NotAhead
  <2> QED
    BY <1>3, <2>1, BumpMoves DEF Fence
<1>4. CASE ResetMailbox
  <2>1. mailbox'.incarnation = epoch'
    BY <1>4 DEF ResetMailbox, Fresh
  <2> QED
    BY <1>4, <2>1, ResetMoves, StartsOnce DEF Fence
<1>5. CASE ClearEvents
  <2>1. UNCHANGED <<mailbox, epoch>>
    BY <1>5 DEF ClearEvents
  <2> QED
    BY <1>5, <2>1, ClearMoves, StartsOnce DEF Fence
<1>6. ASSUME NEW th \in Thread, Redraw(th) \/ PublishStep(th) \/ \E kind \in Kind : Send(th, kind) PROVE Fence'
  <2>1. mailbox'.incarnation = mailbox.incarnation
    BY <1>6 DEF Redraw, PublishStep, Publish, CheckEpoch, Put, Post, Send, Sound, TypeOK
  <2> QED
    BY <1>6, <2>1, CallbackMoves DEF Fence
<1> QED
  BY <1>1, <1>2, <1>3, <1>4, <1>5, <1>6 DEF Next, GuiStep, GuiMove

\* unregisterSurface and the rollback wait for the listener mutex, so nothing is
\* taken from under a publishing thread.
LEMMA LockedKept == Sound /\ Locked /\ [Next]_vars => Locked'
<1> SUFFICES ASSUME Sound, Locked, [Next]_vars PROVE Locked'
  OBVIOUS
<1>0. /\ entry \in [epoch : 0 .. EpochLimit, active : BOOLEAN, rev : 0 .. RevisionLimit, pub : 0 .. RevisionLimit]
      /\ pub \in [Thread -> PubType] /\ lock \in Thread \cup {"free"} /\ "free" \notin Thread
  BY DEF Sound, TypeOK
<1>1. CASE UNCHANGED <<entry, lock, pub>>
  BY <1>1 DEF Locked
<1>2. CASE Unregister \/ Rollback
  <2>1. lock = "free" /\ UNCHANGED <<lock, pub>>
    BY <1>2 DEF Unregister, Rollback, Deactivate
  <2> QED
    BY <1>0, <2>1 DEF Locked
<1>3. CASE Register
  <2>1. Bare /\ UNCHANGED <<lock, pub>>
    BY <1>3, RegisterMoves DEF Register
  <2>2. \A th \in Thread : lock # th
    BY <2>1 DEF Locked, Bare
  <2> QED
    BY <2>1, <2>2 DEF Locked
<1>4. ASSUME NEW th \in Thread, Redraw(th) PROVE Locked'
  <2>1. /\ pub' = [pub EXCEPT ![th] = [pc |-> "publish", epoch |-> entry.epoch, rev |-> entry.rev + 1]] /\ pub[th].pc = "idle"
        /\ entry' = [entry EXCEPT !.rev = @ + 1] /\ lock' = lock
    BY <1>4 DEF Redraw, Free
  <2>2. entry'.active = entry.active /\ entry'.epoch = entry.epoch /\ entry'.pub = entry.pub
    BY <1>0, <2>1
  <2>3. lock # th
    BY <2>1 DEF Locked
  <2>4. \A t \in Thread : IF t = th THEN pub'[t].pc = "publish" ELSE pub'[t] = pub[t]
    BY <1>0, <2>1
  <2> QED
    BY <1>0, <2>1, <2>2, <2>3, <2>4 DEF Locked
<1>5. ASSUME NEW th \in Thread, Publish(th) PROVE Locked'
  <2>1. lock = "free" /\ pub[th].pc = "publish"
    BY <1>5 DEF Publish
  <2>2. CASE /\ entry.active /\ entry.epoch = pub[th].epoch /\ entry' = [entry EXCEPT !.pub = pub[th].rev]
             /\ lock' = th /\ pub' = [pub EXCEPT ![th].pc = "check"]
    <3>1. entry'.active /\ entry'.epoch = entry.epoch /\ entry'.pub = pub[th].rev
      BY <1>0, <2>2
    <3>2. \A t \in Thread : IF t = th THEN pub'[t].pc = "check" /\ pub'[t].epoch = pub[t].epoch /\ pub'[t].rev = pub[t].rev
                           ELSE pub'[t] = pub[t]
      BY <1>0, <2>2 DEF PubType
    <3> QED
      BY <1>0, <2>1, <2>2, <3>1, <3>2 DEF Locked
  <2>3. CASE Release(th) /\ UNCHANGED entry
    BY <1>0, <2>1, <2>3 DEF Locked, Release, PubIdle
  <2> QED
    BY <1>5, <2>2, <2>3 DEF Publish
<1>6. ASSUME NEW th \in Thread, pub[th].pc \in {"check", "put", "post"}, Release(th), UNCHANGED entry PROVE Locked'
  BY <1>0, <1>6 DEF Locked, Release, PubIdle
<1>7. ASSUME NEW th \in Thread, NEW pc \in {"put", "post"}, pub[th].pc \in {"check", "put", "post"},
             pub' = [pub EXCEPT ![th].pc = pc], UNCHANGED <<entry, lock>>
      PROVE  Locked'
  <2>1. \A t \in Thread : IF t = th THEN pub'[t].pc = pc /\ pub'[t].epoch = pub[t].epoch /\ pub'[t].rev = pub[t].rev
                           ELSE pub'[t] = pub[t]
    BY <1>0, <1>7 DEF PubType
  <2> QED
    BY <1>7, <2>1 DEF Locked
<1>8. ASSUME NEW th \in Thread, CheckEpoch(th) \/ Put(th) \/ Post(th) PROVE Locked'
  BY <1>6, <1>7, <1>8 DEF CheckEpoch, Put, Post
<1>9. CASE Present \/ RunDrainFrame \/ RunDrainGuiEvents \/ Handle \/ CloseView \/ Bump \/ ResetMailbox
           \/ ClearEvents \/ Connect \/ Attach \/ Detach \/ \E th \in Thread, kind \in Kind : Send(th, kind)
  BY <1>1, <1>9
     DEF Present, RunDrainFrame, RunDrainGuiEvents, Handle, CloseView, Bump, ResetMailbox,
     ClearEvents, Connect,
     Attach, Detach, Send
<1> QED
  BY <1>1, <1>2, <1>3, <1>4, <1>5, <1>8, <1>9 DEF Next, GuiStep, PublishStep, vars

\* drainFrame of the current epoch empties the mailbox; any other does nothing.
LEMMA DrainFrameMoves ==
  ASSUME Sound, RunDrainFrame
  PROVE  /\ gui.todo = <<>> /\ gui.in = 0 /\ gui.batch = <<>> /\ gui.seen = 0
         /\ loop # <<>> /\ loop \in Seq(Posted) /\ loop' = Tail(loop)
         /\ gui'.in = 0 /\ gui'.batch = <<>> /\ gui'.seen = 0
         /\ \/ /\ Head(loop) # DrainFrame(epoch) \/ mailbox.incarnation # epoch
               /\ gui'.todo = <<>> /\ mailbox' = mailbox
            \/ /\ Head(loop) = DrainFrame(epoch) /\ mailbox.incarnation = epoch /\ mailbox' = Emptied
               /\ \/ gui'.todo = <<>> /\ mailbox.pending = 0
                  \/ gui'.todo = To("present", <<>>) /\ gui'.frame = mailbox.pending /\ mailbox.pending # 0
         /\ Head(loop) # DrainGuiEvents(epoch)
<1> USE DEF RunDrainFrame, Free
<1>1. gui.todo = <<>> /\ gui.in = 0 /\ gui.batch = <<>> /\ gui.seen = 0
  BY IdleState
<1>2. loop # <<>> /\ loop \in Seq(Posted) /\ Head(loop) \in Posted /\ loop' = Tail(loop) /\ Head(loop).call = "drainFrame"
  BY LoopTail
<1>3. Head(loop) = DrainFrame(Head(loop).epoch) /\ Head(loop) # DrainGuiEvents(epoch)
  BY <1>2 DEF Posted, DrainFrame, DrainGuiEvents
<1>4. GuiIdle.todo = <<>> /\ GuiIdle.in = 0 /\ GuiIdle.batch = <<>> /\ GuiIdle.seen = 0
  BY DEF GuiIdle
<1>5. CASE Head(loop).epoch # epoch
  <2>1. Head(loop) # DrainFrame(epoch)
    BY <1>3, <1>5, CallsDiffer
  <2> QED
    BY <1>1, <1>2, <1>3, <1>5, <2>1
<1>6. CASE Head(loop).epoch = epoch /\ mailbox.incarnation # epoch
  BY <1>1, <1>2, <1>3, <1>4, <1>6 DEF TakeFrame
<1>7. CASE Head(loop).epoch = epoch /\ mailbox.incarnation = epoch /\ mailbox.pending = 0
  BY <1>1, <1>2, <1>3, <1>4, <1>7 DEF TakeFrame
<1>8. CASE Head(loop).epoch = epoch /\ mailbox.incarnation = epoch /\ mailbox.pending # 0
  <2>1. gui' = [todo |-> To("present", <<>>), in |-> 0, frame |-> mailbox.pending, batch |-> <<>>, seen |-> 0]
    BY <1>8 DEF TakeFrame, GuiIdle, To
  <2>2. mailbox' = Emptied
    BY <1>8 DEF TakeFrame
  <2> QED
    BY <1>1, <1>2, <1>3, <1>8, <2>1, <2>2
<1> QED
  BY <1>5, <1>6, <1>7, <1>8

-----------------------------------------------------------------------------
(* The mailbox and its drain.                                               *)

\* Inside a drain of events of the current epoch, on the way to detach the view:
\* the last frame was drawn out of turn, and the drain posted for it is left
\* behind.
Leaving == gui.in = epoch /\ gui.in # 0 /\ gui.todo # Loop

\* The drains posted for the current attachment.
FramesDrain == DrainFrame(epoch)

\* The mailbox has been reset and nothing was registered since.
Cleaning == Starts(gui.todo, "clear") \/ Starts(gui.todo, "unregister") \/ Starts(gui.todo, "register")

\* What the entry has published, no enqueueFrame of it being under way, has
\* reached the mailbox.
PublishedReached == entry.epoch = epoch /\ (\A th \in Thread : lock = th => pub[th].pc = "post") => entry.pub <= mailbox.highest

\* At most one drain of frames is coming, and only when the flag of the mailbox
\* says so.
OneDrain ==
  /\ In(loop, FramesDrain) \/ Posts(pub, epoch) => mailbox.incarnation = epoch /\ mailbox.queued
  /\ Once(loop, FramesDrain)
  /\ ~(Posts(pub, epoch) /\ In(loop, FramesDrain))

\* The part of the inductive invariant about the mailbox and its drain.
Mailboxed ==
  /\ mailbox.pending \in {0, mailbox.highest}
  /\ mailbox.pending # 0 => mailbox.queued
  /\ Cleaning => mailbox.highest = 0
  /\ PublishedReached
  /\ mailbox.incarnation = epoch /\ mailbox.queued => In(loop, FramesDrain) \/ Posts(pub, epoch)
  /\ ~Leaving => OneDrain

\* The mailbox is empty, and nothing is posted.
LEMMA MailboxedInit == Init => Mailboxed
<1> SUFFICES ASSUME Init PROVE Mailboxed
  OBVIOUS
<1>1. loop = <<>> /\ ~Posts(pub, epoch)
  BY DEF Init, Posts, PubIdle
<1>2. ~In(loop, FramesDrain) /\ Once(loop, FramesDrain)
  BY <1>1 DEF In, Once
<1> QED
  BY <1>1, <1>2 DEF Init, Mailboxed, Cleaning, PublishedReached, OneDrain, Starts, GuiIdle

\* Steps that leave the mailbox, and the drains of frames posted, as they are.
LEMMA QuietMailbox ==
  ASSUME Mailboxed, UNCHANGED <<mailbox, epoch>>,
         In(loop', FramesDrain) <=> In(loop, FramesDrain), Once(loop, FramesDrain) => Once(loop', FramesDrain),
         Posts(pub', epoch) <=> Posts(pub, epoch),
         Cleaning' => Cleaning \/ mailbox.highest = 0, PublishedReached', Leaving => Leaving'
  PROVE  Mailboxed'
<1>1. FramesDrain' = FramesDrain
  BY DEF FramesDrain
<1>2. In(loop, FramesDrain)' = In(loop', FramesDrain) /\ Once(loop, FramesDrain)' = Once(loop', FramesDrain) /\ Posts(pub, epoch)' = Posts(pub', epoch)
  BY <1>1
<1>3. ~Leaving' => OneDrain'
  BY <1>1, <1>2 DEF Mailboxed, OneDrain
<1> QED
  BY <1>1, <1>2, <1>3 DEF Mailboxed

\* A new epoch: no drain of it is posted.
LEMMA BumpMailbox == ASSUME Sound, Mailboxed, Bump PROVE Mailboxed'
<1> USE DEF Bump
<1>1. epoch' = epoch + 1 /\ Starts(gui'.todo, "reset") /\ epoch \in Nat
  BY BumpMoves, Types
<1>2. entry.epoch # epoch' /\ mailbox.incarnation # epoch'
  BY <1>1, EpochTypes DEF Sound, NotAhead
<1>3. ~Posts(pub, epoch')
  BY <1>1, EpochTypes DEF Sound, NotAhead, Posts
<1>4. \A i \in DOMAIN loop : loop[i].epoch # epoch'
  BY <1>1, EpochTypes DEF Sound, NotAhead
<1>5. ~In(loop, DrainFrame(epoch'))
  BY <1>4, Absent
<1>6. Once(loop, DrainFrame(epoch'))
  BY <1>5 DEF In, Once
<1>7. ~Cleaning'
  BY <1>1, StartsOnce DEF Cleaning
<1> QED
  BY <1>1, <1>2, <1>3, <1>5, <1>6, <1>7 DEF Mailboxed, OneDrain, PublishedReached, FramesDrain

\* A fresh mailbox, and no drain of its epoch.
LEMMA ResetMailboxed == ASSUME Sound, Mailboxed, ResetMailbox PROVE Mailboxed'
<1> USE DEF ResetMailbox
<1>1. Behind /\ epoch' = epoch
  BY ResetMoves DEF Sound, Between
<1>2. ~Posts(pub, epoch)
  BY <1>1, EpochTypes, Types DEF Behind, Posts
<1>3. \A i \in DOMAIN loop : loop[i].epoch # epoch
  BY <1>1, EpochTypes, Types DEF Behind
<1>4. ~In(loop, DrainFrame(epoch))
  BY <1>3, Absent
<1>5. Once(loop, DrainFrame(epoch))
  BY <1>4 DEF In, Once
<1>6. mailbox'.highest = 0 /\ mailbox'.pending = 0 /\ ~mailbox'.queued
  BY DEF Fresh
<1>7. entry.epoch # epoch
  BY <1>1, EpochTypes, Types DEF Behind
<1> QED
  BY <1>1, <1>2, <1>4, <1>5, <1>6, <1>7 DEF Mailboxed, OneDrain, PublishedReached, FramesDrain

\* What is left of the mailbox when its frame is taken.
LEMMA EmptiedFacts ==
  ASSUME Sound
  PROVE  /\ Emptied.pending = 0 /\ ~Emptied.queued /\ Emptied.highest = mailbox.highest
         /\ Emptied.incarnation = mailbox.incarnation
BY DEF Sound, TypeOK, Emptied

\* The drain that was coming has come, and cleared the flag.
LEMMA DrainFrameMailbox == ASSUME Sound, Mailboxed, RunDrainFrame PROVE Mailboxed'
<1>0. /\ UNCHANGED <<epoch, entry, lock, pub>> /\ loop # <<>> /\ loop \in Seq(Posted) /\ loop' = Tail(loop)
      /\ ~Leaving /\ ~Cleaning'
  BY DrainFrameMoves, DrainFrameSound DEF RunDrainFrame, Leaving, Cleaning, Between
<1>1. CASE Head(loop) # DrainFrame(epoch) /\ mailbox' = mailbox
  <2>1. In(loop', FramesDrain) <=> In(loop, FramesDrain)
    BY <1>0, <1>1, TailFacts DEF FramesDrain
  <2>2. Once(loop, FramesDrain) => Once(loop', FramesDrain)
    BY <1>0, TailFacts
  <2>3. PublishedReached'
    BY <1>0, <1>1 DEF PublishedReached, Mailboxed
  <2> QED
    BY <1>0, <1>1, <2>1, <2>2, <2>3, QuietMailbox
<1>2. CASE Head(loop) = DrainFrame(epoch)
  <2>1. In(loop, FramesDrain)
    <3>1. 1 \in DOMAIN loop /\ loop[1] = Head(loop)
      BY <1>0
    <3> QED
      BY <1>2, <3>1 DEF In, FramesDrain
  <2>2. mailbox.incarnation = epoch /\ ~Posts(pub, epoch) /\ Once(loop, FramesDrain)
    BY <1>0, <2>1 DEF Mailboxed, OneDrain
  <2>3. ~In(loop', FramesDrain) /\ Once(loop', FramesDrain)
    BY <1>0, <1>2, <2>2, TailFacts DEF FramesDrain
  <2>4. mailbox' = Emptied
    BY <1>2, <2>2, DrainFrameMoves
  <2>5. FramesDrain' = FramesDrain
    BY <1>0 DEF FramesDrain
  <2> QED
    BY <1>0, <2>2, <2>3, <2>4, <2>5, EmptiedFacts DEF Mailboxed, OneDrain, PublishedReached
<1> QED
  BY <1>1, <1>2, DrainFrameMoves, <1>0 DEF Mailboxed

\* A closed terminal is drained of its last frame out of turn.
LEMMA HandleMailbox == ASSUME Sound, Fence, Mailboxed, Handle PROVE Mailboxed'
<1>0. /\ UNCHANGED <<epoch, entry, lock, pub, loop>> /\ gui.todo = Loop /\ gui.in # 0 /\ ~Leaving /\ ~Cleaning'
      /\ mailbox.incarnation = epoch
  <2>1. gui.todo = Loop /\ gui.in # 0 /\ ~Between'
    BY HandleMoves, HandleSound
  <2>2. ~Starts(gui.todo, "reset")
    BY <2>1, EndFacts, StartsOnce
  <2> QED
    BY <2>1, <2>2 DEF Handle, Leaving, Cleaning, Between, Fence
<1>1. CASE mailbox' = mailbox
  <2>1. PublishedReached'
    BY <1>0, <1>1 DEF PublishedReached, Mailboxed
  <2> QED
    BY <1>0, <1>1, <2>1, QuietMailbox
<1>2. CASE mailbox' = Emptied /\ gui'.in = gui.in /\ epoch = gui.in /\ gui'.todo \in {End, To("present", End)}
  <2>1. gui'.todo # Loop
    <3>1. ~Starts(Loop, "closing") /\ ~Starts(Loop, "present")
      BY EndFacts, StartsOnce
    <3> QED
      BY <1>2, <3>1, EndFacts, AttachFacts
  <2>2. Leaving'
    BY <1>0, <1>2, <2>1 DEF Leaving
  <2> QED
    BY <1>0, <1>2, <2>2, EmptiedFacts DEF Mailboxed, PublishedReached
<1>3. mailbox' = mailbox \/ (mailbox' = Emptied /\ gui'.in = gui.in /\ epoch = gui.in /\ gui'.todo \in {End, To("present", End)})
  BY HandleMoves DEF Turned, Closing
<1> QED
  BY <1>1, <1>2, <1>3

\* drainGuiEvents of the current epoch takes the whole queue, or detaches the
\* view when it overflowed; any other does nothing.
LEMMA DrainGuiMoves ==
  ASSUME Sound, RunDrainGuiEvents
  PROVE  /\ gui.todo = <<>> /\ gui.in = 0 /\ gui.batch = <<>> /\ gui.seen = 0
         /\ loop # <<>> /\ loop \in Seq(Posted) /\ loop' = Tail(loop) /\ Head(loop) # DrainFrame(epoch)
         /\ \/ Head(loop) # DrainGuiEvents(epoch) /\ UNCHANGED <<queue, gui>>
            \/ /\ Head(loop) = DrainGuiEvents(epoch)
               /\ queue' = [events |-> <<>>, overflow |-> queue.overflow, queued |-> FALSE]
               /\ gui'.seen = 0
               /\ \/ /\ queue.overflow /\ gui'.todo = DetachSteps
                     /\ gui'.in = 0 /\ gui'.batch = <<>>
                  \/ /\ ~queue.overflow /\ gui'.todo = Loop /\ epoch # 0
                     /\ gui'.in = epoch /\ gui'.batch = queue.events
<1> USE DEF RunDrainGuiEvents, Free
<1>1. gui.todo = <<>> /\ gui.in = 0 /\ gui.batch = <<>> /\ gui.seen = 0
  BY IdleState
<1>2. loop # <<>> /\ loop \in Seq(Posted) /\ Head(loop) \in Posted /\ loop' = Tail(loop) /\ Head(loop).call = "drainGuiEvents"
  BY LoopTail
<1>3. Head(loop) = DrainGuiEvents(Head(loop).epoch) /\ Head(loop) # DrainFrame(epoch)
  BY <1>2 DEF Posted, DrainFrame, DrainGuiEvents
<1>4. CASE Head(loop).epoch # epoch /\ UNCHANGED <<queue, gui>>
  <2>1. Head(loop) # DrainGuiEvents(epoch)
    BY <1>3, <1>4, CallsDiffer
  <2> QED
    BY <1>1, <1>2, <1>3, <1>4, <2>1
<1>5. CASE Head(loop).epoch = epoch
  <2>1. queue' = [events |-> <<>>, overflow |-> queue.overflow, queued |-> FALSE]
    <3>1. queue' = [queue EXCEPT !.events = <<>>, !.queued = FALSE]
      BY <1>5
    <3> QED
      BY <3>1 DEF Sound, QueueType
  <2>2. epoch # 0
    <3>1. 1 \in DOMAIN loop /\ loop[1] = Head(loop)
      BY <1>2
    <3>2. loop[1].epoch \in 1 .. EpochLimit - 1
      BY <1>2, <3>1 DEF Sound, Room
    <3> QED
      BY <1>5, <3>1, <3>2, Types
  <2>3. gui'.seen = 0
        /\ \/ /\ queue.overflow /\ gui'.todo = DetachSteps
              /\ gui'.in = 0 /\ gui'.batch = <<>>
           \/ /\ ~queue.overflow /\ gui'.todo = Loop
              /\ gui'.in = epoch /\ gui'.batch = queue.events
    <3>1. gui' = IF queue.overflow THEN [GuiIdle EXCEPT !.todo = DetachSteps]
                  ELSE [GuiIdle EXCEPT !.todo = <<"handle">>, !.in = epoch, !.batch = queue.events]
      BY <1>5
    <3>2. CASE queue.overflow
      BY <3>1, <3>2 DEF GuiIdle
    <3>3. CASE ~queue.overflow
      BY <3>1, <3>3 DEF GuiIdle, Loop
    <3> QED
      BY <3>2, <3>3
  <2> QED
    BY <1>1, <1>2, <1>3, <1>5, <2>1, <2>2, <2>3
<1> QED
  BY <1>4, <1>5

\* TerminalFrameMailbox::enqueue: the first frame since the last drain makes its
\* thread post one.
LEMMA PutMailbox == ASSUME Sound, Fence, Locked, Mailboxed, NEW th \in Thread, Put(th) PROVE Mailboxed'
<1> USE DEF Put
<1>0. /\ UNCHANGED <<epoch, queue, loop, entry, gui, view, sent>>
      /\ lock = th /\ pub[th].pc = "put" /\ pub[th].epoch = entry.epoch /\ pub[th].rev = entry.pub /\ entry.active
      /\ pub \in [Thread -> PubType]
  BY DEF Locked, Sound, TypeOK
<1>1. ~Posts(pub, epoch)
  BY <1>0 DEF Posts, Locked
<1>2. FramesDrain' = FramesDrain /\ Cleaning' = Cleaning /\ Leaving' = Leaving
  BY <1>0 DEF FramesDrain, Cleaning, Leaving
<1>3. CASE ~Accepts(pub[th].epoch, pub[th].rev)
  <2>1. UNCHANGED mailbox /\ lock' = "free" /\ pub' = [pub EXCEPT ![th] = PubIdle]
    BY <1>3 DEF Release
  <2>2. ~Posts(pub', epoch)
    BY <1>0, <1>1, <2>1 DEF Posts, PubIdle
  <2>3. entry.epoch = epoch => entry.pub <= mailbox.highest
    <3> SUFFICES ASSUME entry.epoch = epoch PROVE entry.pub <= mailbox.highest
      OBVIOUS
    <3>1. mailbox.incarnation = epoch
      BY EpochTypes, Types DEF Fence, Sound, Between, Behind
    <3> QED
      BY <1>0, <1>3, <3>1, RevTypes DEF Accepts
  <2>4. PublishedReached'
    BY <1>0, <2>1, <2>3 DEF PublishedReached
  <2> QED
    BY <1>0, <1>1, <1>2, <2>1, <2>2, <2>4, QuietMailbox
<1>4. CASE Accepts(pub[th].epoch, pub[th].rev)
  <2>1. /\ mailbox'.highest = entry.pub /\ mailbox'.pending = entry.pub /\ mailbox'.queued
        /\ mailbox'.incarnation = mailbox.incarnation
        /\ mailbox.incarnation = entry.epoch
    BY <1>0, <1>4 DEF Accepts, Sound, TypeOK
  <2>2. ~Cleaning
    BY <2>1, EpochTypes, Types, StartsOnce DEF Cleaning, Fence, Sound, Between, Behind
  <2>3. PublishedReached'
    BY <1>0, <2>1, RevTypes DEF PublishedReached
  <2>4. CASE entry.epoch # epoch
    <3>1. ~Posts(pub', epoch)
      <4>1. pub' = [pub EXCEPT ![th] = PubIdle] \/ pub' = [pub EXCEPT ![th].pc = "post"]
        BY <1>4 DEF Release
      <4>2. CASE pub' = [pub EXCEPT ![th] = PubIdle]
        BY <1>0, <1>1, <4>2 DEF Posts, PubIdle
      <4>3. CASE pub' = [pub EXCEPT ![th].pc = "post"]
        <5>1. pub'[th].epoch = entry.epoch /\ \A t \in Thread : t # th => pub'[t] = pub[t]
          BY <1>0, <4>3 DEF PubType
        <5> QED
          BY <1>1, <2>4, <5>1 DEF Posts
      <4> QED
        BY <4>1, <4>2, <4>3
    <3> QED
      BY <1>0, <1>1, <1>2, <2>1, <2>2, <2>3, <2>4, <3>1 DEF Mailboxed, OneDrain
  <2>5. CASE entry.epoch = epoch /\ mailbox.queued
    <3>1. pub' = [pub EXCEPT ![th] = PubIdle]
      BY <1>4, <2>5 DEF NeedsDrain, Release
    <3>2. ~Posts(pub', epoch)
      BY <1>0, <1>1, <3>1 DEF Posts, PubIdle
    <3>3. In(loop, FramesDrain)
      BY <1>1, <2>1, <2>5 DEF Mailboxed
    <3> QED
      BY <1>0, <1>1, <1>2, <2>1, <2>2, <2>3, <2>5, <3>2, <3>3 DEF Mailboxed, OneDrain
  <2>6. CASE entry.epoch = epoch /\ ~mailbox.queued
    <3>1. pub' = [pub EXCEPT ![th].pc = "post"]
      BY <1>4, <2>6 DEF NeedsDrain
    <3>2. pub'[th].pc = "post" /\ pub'[th].epoch = epoch
      BY <1>0, <2>6, <3>1 DEF PubType
    <3>3. Posts(pub', epoch)
      BY <3>2 DEF Posts
    <3>4. ~Leaving => ~In(loop, FramesDrain)
      BY <2>6 DEF Mailboxed, OneDrain
    <3> QED
      BY <1>0, <1>2, <2>1, <2>2, <2>3, <2>6, <3>3, <3>4 DEF Mailboxed, OneDrain
  <2> QED
    BY <2>4, <2>5, <2>6
<1> QED
  BY <1>3, <1>4

\* The drain is posted.
LEMMA PostMailbox == ASSUME Sound, Fence, Locked, Mailboxed, NEW th \in Thread, Post(th) PROVE Mailboxed'
<1> USE DEF Post
<1>0. /\ UNCHANGED <<epoch, mailbox, queue, entry, gui, view, sent>>
      /\ lock = th /\ pub[th].pc = "post" /\ pub[th].epoch = entry.epoch
      /\ lock' = "free" /\ pub' = [pub EXCEPT ![th] = PubIdle] /\ loop' = Append(loop, DrainFrame(entry.epoch))
      /\ pub \in [Thread -> PubType] /\ loop \in Seq(Posted) /\ entry.epoch \in 0 .. EpochLimit
  BY DEF Locked, Sound, TypeOK, Release
<1>1. ~Posts(pub', epoch)
  BY <1>0 DEF Posts, PubIdle, Locked
<1>2. FramesDrain' = FramesDrain /\ Cleaning' = Cleaning /\ Leaving' = Leaving /\ DrainFrame(entry.epoch) \in Posted
  BY <1>0 DEF FramesDrain, Cleaning, Leaving, DrainFrame, Posted
<1>3. PublishedReached'
  BY <1>0 DEF PublishedReached, Mailboxed, Locked
<1>4. CASE entry.epoch # epoch
  <2>1. ~Posts(pub, epoch)
    BY <1>0, <1>4 DEF Posts, Locked
  <2>2. DrainFrame(entry.epoch) # FramesDrain
    BY <1>4, CallsDiffer DEF FramesDrain
  <2>3. (In(loop', FramesDrain) <=> In(loop, FramesDrain)) /\ (Once(loop, FramesDrain) => Once(loop', FramesDrain))
    BY <1>0, <1>2, <2>2, AppendFacts
  <2> QED
    BY <1>0, <1>1, <1>2, <1>3, <2>1, <2>3, QuietMailbox
<1>5. CASE entry.epoch = epoch
  <2>1. Posts(pub, epoch)
    BY <1>0, <1>5 DEF Posts
  <2>2. In(loop', FramesDrain) /\ (Once(loop, FramesDrain) /\ ~In(loop, FramesDrain) => Once(loop', FramesDrain))
    BY <1>0, <1>2, <1>5, AppendFacts DEF FramesDrain
  <2> QED
    BY <1>0, <1>1, <1>2, <1>3, <2>1, <2>2 DEF Mailboxed, OneDrain
<1> QED
  BY <1>4, <1>5

\* The steps after which the mailbox, what is posted and who publishes are as before.
LEMMA GuiMailbox ==
  ASSUME Sound, Mailboxed,
         Present \/ CloseView \/ Unregister \/ Register \/ Connect \/ Rollback \/ Attach \/ Detach
  PROVE  Mailboxed'
<1>0. UNCHANGED <<mailbox, epoch, loop, lock, pub>> /\ ~Cleaning'
  <2>1. UNCHANGED <<mailbox, epoch, loop, lock, pub>>
    BY DEF Present, CloseView, Unregister, Register, Connect, Rollback, Attach, Detach, Deactivate
  <2> QED
    BY <2>1, Elsewhere DEF GuiMove, Cleaning, Between
<1>1. PublishedReached'
  <2>1. CASE ~Register
    <3>1. entry'.epoch = entry.epoch /\ entry'.pub = entry.pub
      BY <2>1 DEF Present, CloseView, Unregister, Connect, Rollback, Attach, Detach, Deactivate,
         Sound, TypeOK
    <3> QED
      BY <1>0, <3>1 DEF PublishedReached, Mailboxed
  <2>2. CASE Register
    <3>1. entry' = entry \/ entry'.pub = 0
      BY <2>2, RegisterMoves
    <3> QED
      BY <1>0, <3>1, RevTypes DEF PublishedReached, Mailboxed
  <2> QED
    BY <2>1, <2>2
<1>2. Leaving => Leaving'
  <2>1. ~Starts(Loop, "bump") /\ ~Starts(Loop, "rollback") /\ ~Starts(Loop, "connect") /\ Loop \notin {<<>>, End}
    BY EndFacts, StartsOnce DEF Loop, End
  <2>2. CASE Present
    BY <1>0, <2>2, PresentMoves DEF Leaving
  <2>3. CASE CloseView
    BY <1>0, <2>1, <2>3, CloseViewMoves DEF Leaving
  <2>4. CASE Attach \/ Detach
    BY <2>4, IdleState DEF Attach, Detach, Free, Leaving
  <2>5. CASE Unregister \/ Register
    <3>1. Between
      BY <2>5, UnregisterMoves, RegisterMoves DEF Between
    <3> QED
      BY <3>1, EpochTypes, Types DEF Sound, Behind, Leaving
  <2>6. CASE Connect
    BY <1>0, <2>1, <2>6, ConnectMoves DEF Leaving, Keeps
  <2>7. CASE Rollback
    BY <1>0, <2>1, <2>7, RollbackMoves DEF Leaving, Keeps
  <2> QED
    BY <2>2, <2>3, <2>4, <2>5, <2>6, <2>7
<1> QED
  BY <1>0, <1>1, <1>2, QuietMailbox

\* clearGuiEvents leaves the mailbox alone.
LEMMA ClearMailbox ==
  ASSUME Sound, Mailboxed, ClearEvents
  PROVE  Mailboxed'
<1>1. UNCHANGED <<mailbox, epoch, loop, lock, pub, entry>>
  BY DEF ClearEvents
<1>2. Cleaning /\ Between
  BY ClearMoves DEF Cleaning, Between
<1>3. ~Leaving
  BY <1>2, EpochTypes, Types DEF Sound, Behind, Leaving
<1>4. PublishedReached'
  BY <1>1 DEF PublishedReached, Mailboxed
<1> QED
  BY <1>1, <1>2, <1>3, <1>4, QuietMailbox

\* drainGuiEvents takes a call that is no drain of frames.
LEMMA DrainGuiMailbox ==
  ASSUME Sound, Mailboxed, RunDrainGuiEvents
  PROVE  Mailboxed'
<1>1. UNCHANGED <<mailbox, epoch, lock, pub, entry>>
  BY DEF RunDrainGuiEvents
<1>2. ~Cleaning'
  BY DrainGuiEventsSound DEF Cleaning, Between
<1>3. ~Leaving
  BY DrainGuiMoves DEF Leaving
<1>4. (In(loop', FramesDrain) <=> In(loop, FramesDrain)) /\ (Once(loop, FramesDrain) => Once(loop', FramesDrain))
  BY DrainGuiMoves, TailFacts DEF FramesDrain
<1>5. PublishedReached'
  BY <1>1 DEF PublishedReached, Mailboxed
<1> QED
  BY <1>1, <1>2, <1>3, <1>4, <1>5, QuietMailbox

\* enqueueGuiEvent posts a call that is no drain of frames.
LEMMA SendMailbox ==
  ASSUME Sound, Mailboxed, NEW th \in Thread, NEW kind \in Kind, Send(th, kind)
  PROVE  Mailboxed'
<1>1. UNCHANGED <<mailbox, epoch, lock, pub, entry, gui>>
  BY DEF Send
<1>2. loop' = loop \/ loop' = Append(loop, DrainGuiEvents(epoch))
  BY DEF Send
<1>3. loop \in Seq(Posted) /\ DrainGuiEvents(epoch) \in Posted /\ DrainGuiEvents(epoch) # FramesDrain
  BY Types, CallsDiffer DEF Sound, TypeOK, Posted, DrainGuiEvents, FramesDrain
<1>4. (In(loop', FramesDrain) <=> In(loop, FramesDrain)) /\ (Once(loop, FramesDrain) => Once(loop', FramesDrain))
  <2>1. ASSUME NEW q, q = Append(loop, DrainGuiEvents(epoch))
        PROVE  (In(q, FramesDrain) <=> In(loop, FramesDrain)) /\ (Once(loop, FramesDrain) => Once(q, FramesDrain))
    BY <1>3, <2>1, AppendFacts
  <2> QED
    BY <1>2, <2>1
<1>5. PublishedReached' /\ Cleaning' = Cleaning /\ Leaving' = Leaving
  BY <1>1 DEF PublishedReached, Mailboxed, Cleaning, Leaving
<1> QED
  BY <1>1, <1>4, <1>5, QuietMailbox

\* The steps of publishing before the mailbox.
LEMMA BeginMailbox ==
  ASSUME Sound, Locked, Mailboxed, NEW th \in Thread, Redraw(th) \/ Publish(th) \/ CheckEpoch(th)
  PROVE  Mailboxed'
<1>0. /\ pub \in [Thread -> PubType]
      /\ entry \in [epoch : 0 .. EpochLimit, active : BOOLEAN, rev : 0 .. RevisionLimit, pub : 0 .. RevisionLimit]
  BY DEF Sound, TypeOK
<1>1. UNCHANGED <<mailbox, epoch, loop, gui>>
  BY DEF Redraw, Publish, CheckEpoch
<1>2. /\ pub[th].pc # "post" /\ pub'[th].pc # "post"
      /\ \A t \in Thread : t # th => pub'[t] = pub[t]
  BY <1>0 DEF Redraw, Publish, CheckEpoch, Free, Release, PubIdle, PubType
<1>3. Posts(pub', epoch) <=> Posts(pub, epoch)
  BY <1>2 DEF Posts
<1>4. PublishedReached'
  <2>1. CASE Redraw(th)
    <3>1. entry'.epoch = entry.epoch /\ entry'.pub = entry.pub /\ lock' = lock
      BY <1>0, <2>1 DEF Redraw
    <3> QED
      BY <1>1, <1>2, <3>1 DEF PublishedReached, Mailboxed
  <2>2. CASE Publish(th)
    <3>1. lock' = th \/ (lock = "free" /\ lock' = "free" /\ entry' = entry)
      BY <2>2 DEF Publish, Release
    <3>2. \A t \in Thread : t # "free"
      OBVIOUS
    <3> QED
      BY <1>1, <1>2, <3>1, <3>2 DEF PublishedReached, Mailboxed
  <2>3. CASE CheckEpoch(th)
    <3>1. lock = th /\ pub[th].epoch = entry.epoch /\ entry' = entry
      BY <2>3 DEF CheckEpoch, Locked
    <3>2. lock' = th \/ epoch # pub[th].epoch
      BY <2>3, <3>1 DEF CheckEpoch
    <3> QED
      BY <1>1, <1>2, <3>1, <3>2 DEF PublishedReached
  <2> QED
    BY <2>1, <2>2, <2>3
<1>5. Cleaning' = Cleaning /\ Leaving' = Leaving
  BY <1>1 DEF Cleaning, Leaving
<1> QED
  BY <1>1, <1>3, <1>4, <1>5, QuietMailbox

\* Every step keeps the mailbox and its drain together.
LEMMA MailboxedKept == Sound /\ Fence /\ Locked /\ Mailboxed /\ [Next]_vars => Mailboxed'
<1> SUFFICES ASSUME Sound, Fence, Locked, Mailboxed, [Next]_vars PROVE Mailboxed'
  OBVIOUS
<1>1. CASE UNCHANGED vars
  BY <1>1 DEF vars, Mailboxed, Cleaning, PublishedReached, Leaving, OneDrain, FramesDrain, Posts
<1>2. CASE Next
  BY <1>2, BumpMailbox, ResetMailboxed, DrainFrameMailbox, HandleMailbox, PutMailbox, PostMailbox,
     GuiMailbox, ClearMailbox, DrainGuiMailbox, SendMailbox, BeginMailbox
     DEF Next, GuiStep, PublishStep
<1> QED
  BY <1>1, <1>2
-----------------------------------------------------------------------------
(* The queue of GUI events and its drain.                                   *)

\* The drain of events of the current attachment.
EventsDrain == DrainGuiEvents(epoch)

\* Between moving the epoch and clearing the queue.
Resetting == Starts(gui.todo, "reset") \/ Starts(gui.todo, "clear")

\* The part of the inductive invariant about the queue and its drain: one is
\* coming exactly when the flag of the queue says so.
EventsDue ==
  /\ queue.queued => Resetting \/ In(loop, EventsDrain)
  /\ In(loop, EventsDrain) => queue.queued
  /\ Once(loop, EventsDrain)
  /\ queue.events # <<>> => queue.queued

\* The queue is empty.
LEMMA EventsDueInit == Init => EventsDue
BY DEF Init, EventsDue, NoEvents, In, Once

\* Steps that leave the queue, and the drains of events posted, as they are.
LEMMA QuietEvents ==
  ASSUME EventsDue, UNCHANGED <<queue, epoch>>,
         In(loop', EventsDrain) <=> In(loop, EventsDrain), Once(loop, EventsDrain) => Once(loop', EventsDrain),
         Resetting => Resetting' \/ ~queue.queued
  PROVE  EventsDue'
<1>1. EventsDrain' = EventsDrain
  BY DEF EventsDrain
<1>2. In(loop, EventsDrain)' = In(loop', EventsDrain) /\ Once(loop, EventsDrain)' = Once(loop', EventsDrain)
  BY <1>1
<1> QED
  BY <1>1, <1>2 DEF EventsDue

\* The reset before a registration is done without an entry and with an empty
\* queue.
LEMMA RegisterNext ==
  ASSUME Sound, Starts(gui.todo, "reset"), Starts(Tail(gui.todo), "register")
  PROVE  Bare
<1> DEFINE t == Tail(gui.todo)
<1> HIDE DEF t
<1>0. Starts(t, "register")
  BY DEF t
<1>1. ASSUME NEW b \in Ends, Detaching(b) PROVE FALSE
  <2>1. DetachTurn(b, t)
    BY <1>1, DetachAt DEF t
  <2> QED
    BY <1>0, <2>1, StartsOnce DEF DetachTurn
<1>2. ASSUME NEW b \in Ends, Attaching(b) PROVE Bare
  <2>1. AttachTurn(b, t)
    BY <1>2, AttachAt DEF t
  <2> QED
    BY <1>0, <2>1, StartsOnce DEF AttachTurn
<1>3. gui.todo \notin {<<>>, Loop, End, To("present", <<>>), To("present", End)}
  <2>1. ~Starts(gui.todo, "handle") /\ ~Starts(gui.todo, "closing") /\ ~Starts(gui.todo, "present") /\ gui.todo # <<>>
    BY StartsOnce DEF Starts
  <2> QED
    BY <2>1, AttachFacts, EndFacts
<1> QED
  BY <1>1, <1>2, <1>3 DEF Sound, Control, Ends

\* The second reset of attach finds an empty queue.
LEMMA ResetBare ==
  ASSUME Sound, ResetMailbox, Starts(gui'.todo, "register")
  PROVE  queue = NoEvents
<1>1. gui.todo # <<>> /\ Starts(gui.todo, "reset") /\ gui'.todo = Tail(gui.todo)
  <2>1. gui.todo # <<>> /\ Starts(gui.todo, "reset") /\ gui' = Done(<<>>)
    BY DEF ResetMailbox, At, Starts
  <2> QED
    BY <2>1, Popped
<1> QED
  BY <1>1, RegisterNext DEF Bare

\* A new epoch: the queue is cleared before anything of it.
LEMMA BumpEvents == ASSUME Sound, EventsDue, Bump PROVE EventsDue'
<1> USE DEF Bump
<1>1. epoch' = epoch + 1 /\ Starts(gui'.todo, "reset") /\ epoch \in Nat
  BY BumpMoves, Types
<1>2. \A i \in DOMAIN loop : loop[i].epoch # epoch'
  BY <1>1, EpochTypes DEF Sound, NotAhead
<1>3. ~In(loop, DrainGuiEvents(epoch'))
  BY <1>2, Absent
<1>4. Once(loop, DrainGuiEvents(epoch'))
  BY <1>3 DEF In, Once
<1> QED
  BY <1>1, <1>3, <1>4 DEF EventsDue, EventsDrain, Resetting

\* The queue is cleared next, or was already.
LEMMA ResetEvents == ASSUME Sound, EventsDue, ResetMailbox PROVE EventsDue'
<1>1. UNCHANGED <<queue, epoch, loop>>
  BY DEF ResetMailbox
<1>2. Resetting' \/ queue = NoEvents
  BY ResetMoves, ResetBare DEF Resetting
<1>3. NoEvents.queued = FALSE
  BY DEF NoEvents
<1> QED
  BY <1>1, <1>2, <1>3, QuietEvents

\* clearGuiEvents: no drain of the current epoch is posted, and the flag says
\* so.
LEMMA ClearedEvents == ASSUME Sound, EventsDue, ClearEvents PROVE EventsDue'
<1>1. UNCHANGED <<epoch, loop>> /\ queue' = NoEvents
  BY DEF ClearEvents, Cleared
<1>2. Behind
  BY ClearMoves DEF Sound, Between
<1>3. \A i \in DOMAIN loop : loop[i].epoch # epoch
  BY <1>2, EpochTypes, Types DEF Behind
<1>4. ~In(loop, EventsDrain)
  BY <1>3, Absent DEF EventsDrain
<1>5. Once(loop, EventsDrain)
  BY <1>4 DEF In, Once
<1>6. EventsDrain' = EventsDrain /\ NoEvents.queued = FALSE /\ NoEvents.events = <<>>
  BY <1>1 DEF EventsDrain, NoEvents
<1> QED
  BY <1>1, <1>4, <1>5, <1>6 DEF EventsDue

\* The drain that was coming has come, and cleared the flag.
LEMMA DrainGuiDue == ASSUME Sound, EventsDue, RunDrainGuiEvents PROVE EventsDue'
<1>0. epoch' = epoch /\ ~Resetting
  BY Elsewhere DEF GuiMove, Resetting
<1>1. CASE Head(loop) # DrainGuiEvents(epoch) /\ UNCHANGED <<queue, gui>>
  <2>1. (In(loop', EventsDrain) <=> In(loop, EventsDrain)) /\ (Once(loop, EventsDrain) => Once(loop', EventsDrain))
    BY <1>1, DrainGuiMoves, TailFacts DEF EventsDrain
  <2> QED
    BY <1>0, <1>1, <2>1, QuietEvents
<1>2. CASE Head(loop) = DrainGuiEvents(epoch)
  <2>1. Once(loop', EventsDrain) /\ ~In(loop', EventsDrain)
    BY <1>2, DrainGuiMoves, TailFacts DEF EventsDrain, EventsDue
  <2>2. queue' = [events |-> <<>>, overflow |-> queue.overflow, queued |-> FALSE]
    BY <1>2, DrainGuiMoves
  <2>3. EventsDrain' = EventsDrain /\ queue'.queued = FALSE /\ queue'.events = <<>>
    BY <1>0, <2>2 DEF EventsDrain
  <2> QED
    BY <2>1, <2>3 DEF EventsDue
<1> QED
  BY <1>1, <1>2, DrainGuiMoves

\* enqueueGuiEvent posts a drain when none is coming.
LEMMA SendEvents ==
  ASSUME Sound, EventsDue, NEW th \in Thread, NEW kind \in Kind, Send(th, kind)
  PROVE  EventsDue'
<1>1. UNCHANGED <<epoch, gui>>
  BY DEF Send
<1>2. CASE UNCHANGED <<queue, loop>>
  BY <1>1, <1>2, QuietEvents DEF Resetting
<1>3. CASE /\ epoch = entry.epoch /\ queue'.queued = TRUE
           /\ loop' = IF queue.queued THEN loop ELSE Append(loop, DrainGuiEvents(epoch))
  <2>0. loop \in Seq(Posted) /\ EventsDrain \in Posted /\ EventsDrain' = EventsDrain
    BY <1>1, Types DEF Sound, TypeOK, Posted, DrainGuiEvents, EventsDrain
  <2>1. ~Resetting
    BY <1>3, EpochTypes, Types DEF Sound, Behind, Between, Resetting
  <2>2. CASE queue.queued
    BY <1>3, <2>0, <2>1, <2>2 DEF EventsDue
  <2>3. CASE ~queue.queued
    <3>1. loop' = Append(loop, EventsDrain) /\ ~In(loop, EventsDrain) /\ Once(loop, EventsDrain)
      BY <1>3, <2>3 DEF EventsDue, EventsDrain
    <3>2. In(loop', EventsDrain) /\ Once(loop', EventsDrain)
      BY <2>0, <3>1, AppendFacts
    <3> QED
      BY <1>3, <2>0, <3>2 DEF EventsDue
  <2> QED
    BY <2>2, <2>3
<1>4. queue'.queued = TRUE \/ UNCHANGED <<queue, loop>>
  BY DEF Send
<1> QED
  BY <1>2, <1>3, <1>4 DEF Send

\* Every step keeps the queue and its drain together.
LEMMA EventsDueKept == Sound /\ EventsDue /\ [Next]_vars => EventsDue'
<1> SUFFICES ASSUME Sound, EventsDue, [Next]_vars PROVE EventsDue'
  OBVIOUS
<1>1. CASE UNCHANGED vars
  BY <1>1 DEF vars, EventsDue, Resetting, EventsDrain
<1>2. CASE RunDrainFrame
  <2>1. UNCHANGED <<queue, epoch>> /\ ~Resetting
    BY <1>2, Elsewhere DEF RunDrainFrame, GuiMove, Resetting
  <2>2. (In(loop', EventsDrain) <=> In(loop, EventsDrain)) /\ (Once(loop, EventsDrain) => Once(loop', EventsDrain))
    BY <1>2, DrainFrameMoves, TailFacts DEF EventsDrain
  <2> QED
    BY <2>1, <2>2, QuietEvents
<1>3. CASE Present \/ Handle \/ CloseView \/ Unregister \/ Register \/ Connect \/ Rollback \/ Attach \/ Detach
  <2>1. ~Resetting
    BY <1>3, Elsewhere DEF GuiMove, Resetting
  <2>2. UNCHANGED <<queue, epoch, loop>>
    BY <1>3 DEF Present, Handle, CloseView, Unregister, Register, Connect, Rollback, Attach, Detach
  <2> QED
    BY <2>1, <2>2, QuietEvents
<1>4. ASSUME NEW th \in Thread, Redraw(th) \/ PublishStep(th) PROVE EventsDue'
  <2>1. UNCHANGED <<queue, epoch, gui>>
    BY <1>4 DEF Redraw, PublishStep, Publish, CheckEpoch, Put, Post
  <2>2. loop' = loop \/ loop' = Append(loop, DrainFrame(pub[th].epoch))
    BY <1>4 DEF Redraw, PublishStep, Publish, CheckEpoch, Put, Post
  <2>3. loop \in Seq(Posted) /\ DrainFrame(pub[th].epoch) \in Posted /\ DrainFrame(pub[th].epoch) # EventsDrain
    <3>1. loop \in Seq(Posted) /\ pub[th].epoch \in 0 .. EpochLimit
      BY DEF Sound, TypeOK, PubType
    <3>2. DrainFrame(pub[th].epoch) \in Posted
      BY <3>1 DEF Posted, DrainFrame
    <3> QED
      BY <3>1, <3>2, CallsDiffer DEF EventsDrain
  <2>4. (In(loop', EventsDrain) <=> In(loop, EventsDrain)) /\ (Once(loop, EventsDrain) => Once(loop', EventsDrain))
    <3>1. ASSUME NEW q, q = Append(loop, DrainFrame(pub[th].epoch))
          PROVE  (In(q, EventsDrain) <=> In(loop, EventsDrain)) /\ (Once(loop, EventsDrain) => Once(q, EventsDrain))
      BY <2>3, <3>1, AppendFacts
    <3> QED
      BY <2>2, <3>1
  <2> QED
    BY <2>1, <2>4, QuietEvents DEF Resetting
<1> QED
  BY <1>1, <1>2, <1>3, <1>4, BumpEvents, ResetEvents, ClearedEvents, DrainGuiDue, SendEvents
     DEF Next, GuiStep

\* No event of q was sent after a frame newer than r.
SeenBy(q, r) == \A i \in DOMAIN q : q[i].seen <= r

\* The frames published before an event that waits have reached the mailbox.
SeenPublished ==
  /\ ~Resetting => SeenBy(queue.events, mailbox.highest)
  /\ epoch = gui.in => SeenBy(gui.batch, mailbox.highest)

\* No event waits.
LEMMA SeenInit == Init => SeenPublished
BY DEF Init, SeenPublished, SeenBy, NoEvents, GuiIdle

\* Types of the events that wait.
LEMMA EventFacts ==
  ASSUME Sound
  PROVE  /\ queue.events \in Seq(Event) /\ gui.batch \in Seq(Event)
         /\ \A i \in DOMAIN queue.events : queue.events[i] \in Event
         /\ \A i \in DOMAIN gui.batch : gui.batch[i] \in Event
         /\ \A e \in Event : e.seen \in Nat /\ e.n \in Nat /\ e.n <= SentLimit
<1>1. queue.events \in Seq(Event) /\ gui.batch \in Seq(Event)
  BY Types DEF Sound, QueueType, GuiType
<1>2. \A e \in Event : e.seen \in Nat /\ e.n \in Nat /\ e.n <= SentLimit
  BY Types DEF Event
<1> QED
  BY <1>1, <1>2

\* A newer frame in the mailbox.
LEMMA SeenMore ==
  ASSUME Sound, NEW q \in Seq(Event), NEW r \in Nat, NEW s \in Nat, r <= s, SeenBy(q, r)
  PROVE  SeenBy(q, s)
<1>1. \A i \in DOMAIN q : q[i] \in Event
  OBVIOUS
<1> QED
  BY <1>1, EventFacts DEF SeenBy

\* Taking the first event.
LEMMA SeenTail ==
  ASSUME NEW q \in Seq(Event), NEW r, SeenBy(q, r), q # <<>>
  PROVE  SeenBy(Tail(q), r) /\ Head(q).seen <= r
<1>1. \A i \in DOMAIN Tail(q) : i + 1 \in DOMAIN q /\ Tail(q)[i] = q[i + 1]
  OBVIOUS
<1>2. 1 \in DOMAIN q /\ Head(q) = q[1]
  OBVIOUS
<1> QED
  BY <1>1, <1>2 DEF SeenBy

\* Sending an event.
LEMMA SeenAppend ==
  ASSUME NEW q \in Seq(Event), NEW e \in Event, NEW r, SeenBy(q, r), e.seen <= r
  PROVE  SeenBy(Append(q, e), r)
<1> DEFINE p == Append(q, e)
<1>1. \A i \in DOMAIN p : (i \in DOMAIN q /\ p[i] = q[i]) \/ p[i] = e
  OBVIOUS
<1> QED
  BY <1>1 DEF SeenBy

\* Nothing new in the queue, and what is in hand is as before or dropped.
LEMMA QuietSeen ==
  ASSUME SeenPublished, mailbox'.highest = mailbox.highest, epoch' = epoch, queue' = queue,
         (gui'.in = gui.in /\ gui'.batch = gui.batch) \/ gui'.batch = <<>>, Resetting => Resetting' \/ queue.events = <<>>
  PROVE  SeenPublished'
<1>1. SeenBy(<<>>, mailbox.highest)
  BY DEF SeenBy
<1> QED
  BY <1>1 DEF SeenPublished

\* The event of a closed terminal is sent by a thread that published its frames
\* before, and a reset of the mailbox comes when no event of its epoch is in
\* hand.
LEMMA SeenKept ==
  Sound /\ Fence /\ Locked /\ Mailboxed /\ SeenPublished /\ [Next]_vars => SeenPublished'
<1> SUFFICES ASSUME Sound, Fence, Locked, Mailboxed, SeenPublished, [Next]_vars PROVE SeenPublished'
  OBVIOUS
<1> USE DEF Keeps
<1>0. NoEvents.events = <<>> /\ GuiIdle.batch = <<>>
  BY DEF NoEvents, GuiIdle
<1>1. CASE UNCHANGED vars
  BY <1>1 DEF vars, SeenPublished, Resetting
<1>2. CASE Bump
  BY <1>2, BumpMoves, Types, EpochTypes DEF Bump, SeenPublished, Resetting, Sound, NotAhead
<1>3. CASE ResetMailbox
  <2>1. Behind /\ UNCHANGED <<epoch, queue>>
    BY <1>3, ResetMoves DEF Sound, Between, ResetMailbox
  <2>2. epoch' # gui'.in
    BY <1>3, <2>1, ResetMoves, EpochTypes, Types DEF Behind
  <2>3. Resetting' \/ queue'.events = <<>>
    BY <1>0, <1>3, <2>1, ResetMoves, ResetBare DEF Resetting
  <2> QED
    BY <2>2, <2>3 DEF SeenPublished, SeenBy
<1>4. CASE ClearEvents
  <2>1. Behind /\ UNCHANGED epoch /\ queue' = NoEvents
    BY <1>4, ClearMoves DEF Sound, Between, ClearEvents, Cleared
  <2>2. epoch' # gui'.in
    BY <1>4, <2>1, ClearMoves, EpochTypes, Types DEF Behind
  <2> QED
    BY <1>0, <2>1, <2>2 DEF SeenPublished, SeenBy
<1>5. CASE Present \/ CloseView \/ Unregister \/ Register \/ Connect \/ Rollback \/ Attach \/ Detach
  <2>1. UNCHANGED <<mailbox, epoch, queue>>
    BY <1>5 DEF Present, CloseView, Unregister, Register, Connect, Rollback, Attach, Detach
  <2>2. (gui'.in = gui.in /\ gui'.batch = gui.batch) \/ gui'.batch = <<>>
    <3>1. CASE Attach \/ Detach
      BY <3>1 DEF Attach, Detach, GuiIdle
    <3> QED
      BY <1>0, <1>5, <3>1, PresentMoves, CloseViewMoves, UnregisterMoves, RegisterMoves,
         ConnectMoves, RollbackMoves
  <2>3. ~Resetting
    BY <1>5, Elsewhere DEF GuiMove, Resetting
  <2> QED
    BY <2>1, <2>2, <2>3, QuietSeen
<1>6. CASE RunDrainFrame
  <2>1. UNCHANGED <<queue, epoch>> /\ ~Resetting
    BY <1>6, Elsewhere DEF RunDrainFrame, GuiMove, Resetting
  <2>2. mailbox'.highest = mailbox.highest /\ gui'.batch = <<>>
    BY <1>6, DrainFrameMoves, EmptiedFacts
  <2> QED
    BY <2>1, <2>2, QuietSeen
<1>7. CASE RunDrainGuiEvents
  <2>1. UNCHANGED <<mailbox, epoch>> /\ ~Resetting
    BY <1>7, Elsewhere DEF RunDrainGuiEvents, GuiMove, Resetting
  <2>2. CASE UNCHANGED <<queue, gui>>
    BY <2>1, <2>2, QuietSeen
  <2>3. CASE queue'.events = <<>> /\ (gui'.batch = <<>> \/ gui'.batch = queue.events)
    BY <2>1, <2>3 DEF SeenPublished, SeenBy
  <2> QED
    BY <1>7, <2>2, <2>3, DrainGuiMoves
<1>8. CASE Handle
  <2>1. UNCHANGED <<queue, epoch>> /\ ~Resetting
    BY <1>8, Elsewhere DEF Handle, GuiMove, Resetting
  <2>2. CASE gui' = GuiIdle /\ UNCHANGED <<mailbox, sent>>
    BY <1>0, <2>1, <2>2, QuietSeen
  <2>3. ASSUME NEW event \in Event, Turned(event) PROVE SeenPublished'
    <3>1. mailbox'.highest = mailbox.highest
      BY <2>3, EmptiedFacts DEF Turned, Closing
    <3>2. SeenBy(Tail(gui.batch), mailbox.highest)
      BY <2>3, EventFacts, SeenTail DEF Turned, SeenPublished
    <3> QED
      BY <2>1, <2>3, <3>1, <3>2 DEF Turned, SeenPublished
  <2> QED
    BY <1>8, <2>2, <2>3, HandleMoves
<1>9. ASSUME NEW th \in Thread, Redraw(th) \/ Publish(th) \/ CheckEpoch(th) \/ Post(th) PROVE SeenPublished'
  <2>1. UNCHANGED <<queue, epoch, gui, mailbox>>
    BY <1>9 DEF Redraw, Publish, CheckEpoch, Post
  <2> QED
    BY <2>1 DEF SeenPublished, Resetting
<1>10. ASSUME NEW th \in Thread, Put(th) PROVE SeenPublished'
  <2>1. UNCHANGED <<queue, epoch, gui>>
    BY <1>10 DEF Put
  <2>2. mailbox'.highest \in Nat /\ mailbox.highest \in Nat /\ mailbox.highest <= mailbox'.highest
    <3>1. mailbox.highest \in Nat /\ pub[th].rev \in Nat
      BY RevTypes
    <3>2. mailbox' = mailbox \/ (mailbox'.highest = pub[th].rev /\ pub[th].rev > mailbox.highest)
      BY <1>10 DEF Put, Accepts, Sound, TypeOK
    <3> QED
      BY <3>1, <3>2
  <2>3. /\ ~Resetting => SeenBy(queue.events, mailbox'.highest)
        /\ epoch = gui.in => SeenBy(gui.batch, mailbox'.highest)
    BY <2>2, EventFacts, SeenMore DEF SeenPublished
  <2> QED
    BY <2>1, <2>3 DEF SeenPublished, Resetting
<1>11. ASSUME NEW th \in Thread, NEW kind \in Kind, Send(th, kind) PROVE SeenPublished'
  <2> DEFINE event == [kind |-> kind, n |-> sent.accepted + 1, seen |-> entry.pub]
  <2>1. UNCHANGED <<epoch, gui, mailbox>>
    BY <1>11 DEF Send
  <2>2. CASE UNCHANGED queue
    BY <2>1, <2>2 DEF SeenPublished, Resetting
  <2>3. CASE epoch = entry.epoch /\ queue'.events = Queued(event)
    <3>1. ~Resetting
      BY <2>3, EpochTypes, Types DEF Sound, Behind, Between, Resetting
    <3>2. entry.pub <= mailbox.highest
      <4>1. lock = "free"
        BY <1>11 DEF Send
      <4> QED
        BY <2>3, <4>1 DEF Mailboxed, PublishedReached
    <3>3. event \in Event /\ event.seen = entry.pub
      <4>1. sent.accepted \in 0 .. SentLimit /\ sent.accepted < SentLimit /\ entry.pub \in 0 .. RevisionLimit /\ SentLimit \in Nat
        BY <1>11, Types DEF Sound, TypeOK, Send
      <4> QED
        BY <4>1 DEF Event
    <3> HIDE DEF event
    <3>4. SeenBy(queue.events, mailbox.highest) /\ queue.events \in Seq(Event)
      BY <3>1, EventFacts DEF SeenPublished
    <3>5. SeenBy(Append(queue.events, event), mailbox.highest) /\ SeenBy(<<>>, mailbox.highest)
      <4>1. SeenBy(<<>>, mailbox.highest)
        BY DEF SeenBy
      <4> QED
        BY <3>2, <3>3, <3>4, <4>1, SeenAppend
    <3>6. SeenBy(queue'.events, mailbox.highest)
      BY <2>3, <3>5 DEF Queued
    <3> QED
      BY <2>1, <3>6 DEF SeenPublished
  <2> QED
    BY <1>11, <2>2, <2>3 DEF Send
<1> QED
  BY <1>1, <1>2, <1>3, <1>4, <1>5, <1>6, <1>7, <1>8, <1>9, <1>10, <1>11
     DEF Next, GuiStep, PublishStep
-----------------------------------------------------------------------------
(* The order of the GUI events.                                             *)

\* The events w are those numbered h + 1 to a.
InOrder(w, h, a) == h + Len(w) = a /\ \A i \in DOMAIN w : w[i].n = h + i

\* The events the drain of the current epoch has still in hand.
Held == IF epoch = gui.in THEN gui.batch ELSE <<>>

\* The entry is of the current attachment, and the queue has not overflowed.
Counting == entry.active /\ entry.epoch = epoch /\ ~queue.overflow

\* EventsInOrder, in these words.
Ordered == Counting => InOrder(Held \o queue.events, sent.handled, sent.accepted)

\* It is the invariant of the runs.
LEMMA OrderedIs == Ordered <=> EventsInOrder
BY DEF Ordered, Counting, Held, InOrder, EventsInOrder

\* Nothing is registered.
LEMMA OrderInit == Init => Ordered
BY DEF Init, Ordered, Counting

\* What waits is a sequence of events.
LEMMA HeldType == ASSUME Sound PROVE Held \in Seq(Event) /\ Held \o queue.events \in Seq(Event) /\ queue.events \in Seq(Event)
<1>1. queue.events \in Seq(Event) /\ gui.batch \in Seq(Event) /\ <<>> \in Seq(Event)
  BY EventFacts
<1>2. Held \in Seq(Event)
  BY <1>1 DEF Held
<1> QED
  BY <1>1, <1>2

\* The counters of the events are numbers.
LEMMA SentTypes == ASSUME Sound PROVE sent.accepted \in 0 .. SentLimit /\ sent.handled \in 0 .. SentLimit
BY DEF Sound, TypeOK

\* One more event is sent.
LEMMA OrderAppend ==
  ASSUME NEW p \in Seq(Event), NEW q \in Seq(Event), NEW e \in Event, NEW h \in Nat, NEW a \in Nat,
         InOrder(p \o q, h, a), e.n = a + 1
  PROVE  InOrder(p \o Append(q, e), h, a + 1)
<1> DEFINE w == p \o q
           v == p \o Append(q, e)
<1>1. w \in Seq(Event) /\ Len(w) \in Nat /\ DOMAIN w = 1 .. Len(w)
  OBVIOUS
<1>2. v = Append(w, e)
  OBVIOUS
<1>3. Len(v) = Len(w) + 1 /\ (\A i \in DOMAIN v : (i \in DOMAIN w /\ v[i] = w[i]) \/ (i = Len(w) + 1 /\ v[i] = e))
  BY <1>1, <1>2
<1> HIDE DEF w, v
<1>4. h + Len(w) = a /\ \A i \in DOMAIN w : w[i].n = h + i
  BY DEF InOrder, w
<1>5. h + Len(v) = a + 1
  BY <1>1, <1>3, <1>4
<1>6. ASSUME NEW i \in DOMAIN v PROVE v[i].n = h + i
  <2>1. CASE i \in DOMAIN w /\ v[i] = w[i]
    BY <1>4, <2>1
  <2>2. CASE i = Len(w) + 1 /\ v[i] = e
    <3>1. a + 1 = h + (Len(w) + 1)
      BY <1>1, <1>4
    <3> QED
      BY <2>2, <3>1
  <2> QED
    BY <1>3, <2>1, <2>2
<1> QED
  BY <1>5, <1>6 DEF InOrder, v

\* The first event is handled: it is the next one.
LEMMA OrderTail ==
  ASSUME NEW p \in Seq(Event), p # <<>>, NEW q \in Seq(Event), NEW h \in Nat, NEW a \in Nat,
         InOrder(p \o q, h, a)
  PROVE  InOrder(Tail(p) \o q, h + 1, a) /\ Head(p).n = h + 1
<1> DEFINE w == p \o q
           v == Tail(p) \o q
<1>1. w \in Seq(Event) /\ Len(w) \in Nat /\ DOMAIN w = 1 .. Len(w) /\ w # <<>> /\ Head(w) = Head(p) /\ w[1] = Head(p)
  OBVIOUS
<1>2. v = Tail(w)
  <2>1. Tail(p) \in Seq(Event) /\ v \in Seq(Event) /\ Len(Tail(p)) = Len(p) - 1 /\ Len(v) = Len(w) - 1 /\ Tail(w) \in Seq(Event) /\ Len(Tail(w)) = Len(w) - 1
    OBVIOUS
  <2>2. \A i \in 1 .. Len(v) : v[i] = Tail(w)[i]
    OBVIOUS
  <2> QED
    BY <2>1, <2>2
<1>3. v \in Seq(Event) /\ Len(v) = Len(w) - 1 /\ (\A i \in DOMAIN v : i + 1 \in DOMAIN w /\ v[i] = w[i + 1] /\ i \in Nat)
  BY <1>1, <1>2
<1>4. 1 \in DOMAIN w
  BY <1>1
<1> HIDE DEF w, v
<1>5. h + Len(w) = a /\ \A i \in DOMAIN w : w[i].n = h + i
  BY DEF InOrder, w
<1>6. h + 1 + Len(v) = a
  <2>1. PICK k \in Nat : k = Len(w)
    BY <1>1
  <2>2. Len(v) = k - 1 /\ h + k = a
    BY <1>3, <1>5, <2>1
  <2> QED
    BY <2>2
<1>7. ASSUME NEW i \in DOMAIN v PROVE v[i].n = h + 1 + i
  BY <1>3, <1>5
<1>8. Head(p).n = h + 1
  BY <1>1, <1>4, <1>5
<1> QED
  BY <1>6, <1>7, <1>8 DEF InOrder, v

\* Nothing sent or handled, and the same events wait.
LEMMA QuietOrder ==
  ASSUME Ordered, UNCHANGED <<queue, sent>>, Held' = Held, Counting' => Counting
  PROVE  Ordered'
BY DEF Ordered

\* enqueueGuiEvent, drainGuiEvents and its loop hand the events on in order;
\* whatever drops events has moved the epoch, unregistered the entry or set the
\* flag of the overflow.
LEMMA OrderedKept == Sound /\ Ordered /\ [Next]_vars => Ordered'
<1> SUFFICES ASSUME Sound, Ordered, [Next]_vars PROVE Ordered'
  OBVIOUS
<1> USE DEF Keeps
<1>0. NoEvents.events = <<>> /\ GuiIdle.batch = <<>>
  BY DEF NoEvents, GuiIdle
<1>1. CASE UNCHANGED vars
  BY <1>1, QuietOrder DEF vars, Held, Counting
<1>2. CASE Bump
  BY <1>2, Types, EpochTypes DEF Bump, Ordered, Counting, Sound, NotAhead
<1>3. CASE ResetMailbox \/ ClearEvents
  <2>1. Behind /\ UNCHANGED <<epoch, entry>>
    BY <1>3, ResetMoves, ClearMoves DEF Sound, Between, ResetMailbox, ClearEvents
  <2> QED
    BY <2>1, EpochTypes, Types DEF Ordered, Counting, Behind
<1>4. CASE Unregister \/ Rollback
  <2>1. ~entry'.active
    BY <1>4 DEF Unregister, Rollback, Deactivate, Sound, TypeOK
  <2> QED
    BY <2>1 DEF Ordered, Counting
<1>5. CASE Register
  <2>1. UNCHANGED <<queue, epoch>> /\ Bare /\ epoch # gui.in /\ gui'.in = gui.in
    <3>1. Behind /\ Bare /\ gui'.in = gui.in
      BY <1>5, RegisterMoves DEF Sound, Between
    <3>2. epoch # gui.in
      BY <3>1, EpochTypes, Types DEF Behind
    <3> QED
      BY <1>5, <3>1, <3>2 DEF Register
  <2>2. CASE entry' = entry
    BY <2>1, <2>2 DEF Ordered, Counting, Bare
  <2>3. CASE sent' = [accepted |-> 0, handled |-> 0]
    <3>1. Held' = <<>> /\ queue'.events = <<>> /\ sent'.accepted = 0 /\ sent'.handled = 0
      BY <1>0, <2>1, <2>3 DEF Held, Bare
    <3>2. Held' \o queue'.events = <<>>
      BY <3>1
    <3>3. InOrder(<<>>, 0, 0)
      BY DEF InOrder
    <3> QED
      BY <3>1, <3>2, <3>3 DEF Ordered
  <2> QED
    BY <1>5, <2>2, <2>3, RegisterMoves
<1>6. CASE Present \/ CloseView \/ Connect \/ Attach \/ Detach \/ RunDrainFrame
  <2>1. UNCHANGED <<entry, epoch, queue, sent>>
    BY <1>6 DEF Present, CloseView, Connect, Attach, Detach, RunDrainFrame
  <2>2. Held' = Held
    <3>1. CASE Attach \/ Detach
      <4>1. gui'.batch = <<>> /\ gui.batch = <<>>
        BY <3>1, IdleState DEF Attach, Detach, GuiIdle, Free
      <4> QED
        BY <4>1 DEF Held
    <3>2. CASE RunDrainFrame
      BY <3>2, DrainFrameMoves DEF Held
    <3>3. CASE CloseView
      BY <1>0, <2>1, <3>3, CloseViewMoves DEF Held
    <3>4. CASE Present \/ Connect
      BY <2>1, <3>4, PresentMoves, ConnectMoves DEF Held
    <3> QED
      BY <1>6, <3>1, <3>2, <3>3, <3>4
  <2> QED
    BY <2>1, <2>2, QuietOrder DEF Counting
<1>7. CASE RunDrainGuiEvents
  <2>1. UNCHANGED <<entry, epoch, sent>>
    BY <1>7 DEF RunDrainGuiEvents
  <2>2. CASE UNCHANGED <<queue, gui>>
    BY <2>1, <2>2, QuietOrder DEF Held, Counting
  <2>3. CASE queue.overflow /\ queue' = [events |-> <<>>, overflow |-> queue.overflow, queued |-> FALSE]
    BY <2>3 DEF Ordered, Counting
  <2>4. CASE gui'.in = epoch /\ gui'.batch = queue.events /\ queue' = [events |-> <<>>, overflow |-> queue.overflow, queued |-> FALSE]
    <3>1. gui.batch = <<>>
      BY <1>7, DrainGuiMoves
    <3>2. Held' = queue.events /\ Held = <<>> /\ queue'.events = <<>> /\ queue.events \in Seq(Event)
      BY <2>1, <2>4, <3>1, EventFacts DEF Held
    <3>3. Held' \o queue'.events = Held \o queue.events
      BY <3>2
    <3> QED
      BY <2>1, <2>4, <3>3 DEF Ordered, Counting
  <2> QED
    BY <1>7, <2>2, <2>3, <2>4, DrainGuiMoves
<1>8. CASE Handle
  <2>1. UNCHANGED <<queue, epoch, entry>>
    BY <1>8 DEF Handle
  <2>2. CASE (gui.batch = <<>> \/ epoch # gui.in) /\ gui' = GuiIdle /\ UNCHANGED <<mailbox, sent>>
    BY <1>0, <2>1, <2>2, QuietOrder DEF Held, Counting
  <2>3. ASSUME NEW event \in Event, Turned(event), Counting PROVE Ordered'
    <3>1. Held = gui.batch /\ Held' = Tail(gui.batch) /\ event = Head(gui.batch) /\ gui.batch # <<>>
      BY <2>1, <2>3 DEF Turned, Held
    <3>2. sent'.handled = event.n /\ sent'.accepted = sent.accepted
      BY <2>3 DEF Turned, Sound, TypeOK
    <3>3. sent.handled \in Nat /\ sent.accepted \in Nat
      BY SentTypes
    <3>4. InOrder(gui.batch \o queue.events, sent.handled, sent.accepted)
      BY <2>3, <3>1 DEF Ordered
    <3>5. InOrder(Tail(gui.batch) \o queue.events, sent.handled + 1, sent.accepted) /\ Head(gui.batch).n = sent.handled + 1
      BY <3>1, <3>3, <3>4, EventFacts, OrderTail
    <3>6. InOrder(Held' \o queue'.events, sent'.handled, sent'.accepted)
      BY <2>1, <3>1, <3>2, <3>5
    <3> QED
      BY <3>6 DEF Ordered
  <2> QED
    BY <1>8, <2>1, <2>2, <2>3, HandleMoves DEF Ordered, Counting
<1>9. ASSUME NEW th \in Thread, Redraw(th) \/ PublishStep(th) PROVE Ordered'
  <2>1. UNCHANGED <<queue, epoch, gui, sent>>
    BY <1>9 DEF Redraw, PublishStep, Publish, CheckEpoch, Put, Post
  <2>2. entry'.active = entry.active /\ entry'.epoch = entry.epoch
    BY <1>9 DEF Redraw, PublishStep, Publish, CheckEpoch, Put, Post, Sound, TypeOK
  <2> QED
    BY <2>1, <2>2, QuietOrder DEF Held, Counting
<1>10. ASSUME NEW th \in Thread, NEW kind \in Kind, Send(th, kind) PROVE Ordered'
  <2> DEFINE event == [kind |-> kind, n |-> sent.accepted + 1, seen |-> entry.pub]
  <2>1. UNCHANGED <<epoch, gui, entry>>
    BY <1>10 DEF Send
  <2>2. CASE UNCHANGED <<queue, sent>>
    BY <2>1, <2>2, QuietOrder DEF Held, Counting
  <2>3. CASE ~queue.overflow /\ queue'.events = Queued(event) /\ queue'.overflow = (Len(queue.events) >= EventLimit)
             /\ sent' = [sent EXCEPT !.accepted = @ + 1]
    <3> SUFFICES ASSUME Counting' PROVE InOrder(Held' \o queue'.events, sent'.handled, sent'.accepted)
      BY DEF Ordered
    <3>1. ~(Len(queue.events) >= EventLimit) /\ Counting
      BY <2>1, <2>3 DEF Counting
    <3>2. queue'.events = Append(queue.events, event)
      BY <2>3, <3>1 DEF Queued
    <3>3. event \in Event /\ event.n = sent.accepted + 1
      <4>1. sent.accepted \in 0 .. SentLimit /\ sent.accepted < SentLimit /\ entry.pub \in 0 .. RevisionLimit /\ SentLimit \in Nat
        BY <1>10, Types DEF Sound, TypeOK, Send
      <4> QED
        BY <4>1 DEF Event
    <3> HIDE DEF event
    <3>4. Held' = Held /\ sent'.accepted = sent.accepted + 1 /\ sent'.handled = sent.handled
      BY <2>1, <2>3 DEF Held, Sound, TypeOK
    <3>5. InOrder(Held \o Append(queue.events, event), sent.handled, sent.accepted + 1)
      BY <3>1, <3>3, HeldType, SentTypes, Types, OrderAppend DEF Ordered
    <3> QED
      BY <3>2, <3>4, <3>5
  <2> QED
    BY <1>10, <2>2, <2>3 DEF Send
<1> QED
  BY <1>1, <1>2, <1>3, <1>4, <1>5, <1>6, <1>7, <1>8, <1>9, <1>10 DEF Next, GuiStep
-----------------------------------------------------------------------------
(* The frames on their way to the screen.                                   *)

\* The revision the current attachment shows.
OnScreen == IF view.epoch = epoch THEN view.rev ELSE 0

\* A frame has been taken and is presented next.
Presenting == Starts(gui.todo, "present")

\* The part of the inductive invariant about what is shown: the newest frame of
\* the mailbox waits in it, is in the hand of the GUI thread, or is on the
\* screen, and each of the three is newer than the next.
Shown ==
  /\ mailbox.incarnation = epoch =>
       /\ OnScreen <= mailbox.highest
       /\ \/ mailbox.pending = mailbox.highest
          \/ Presenting /\ gui.frame = mailbox.highest
          \/ OnScreen = mailbox.highest
       /\ mailbox.pending # 0 => OnScreen < mailbox.pending
  /\ Presenting =>
       /\ mailbox.incarnation = epoch
       /\ OnScreen < gui.frame /\ gui.frame <= mailbox.highest
       /\ mailbox.pending # 0 => gui.frame < mailbox.pending

\* Nothing is offered and nothing shown.
LEMMA ShownInit == Init => Shown
BY DEF Init, Shown, OnScreen, Presenting, NoFrame, GuiIdle, Starts

\* What is shown is a revision.
LEMMA ShownType == ASSUME Sound PROVE OnScreen \in Nat
BY RevTypes DEF OnScreen

\* Steps that neither offer, take nor show a frame.
LEMMA QuietShown ==
  ASSUME Shown, UNCHANGED <<mailbox, epoch>>, OnScreen' = OnScreen,
         ~Presenting, ~Presenting'
  PROVE  Shown'
BY DEF Shown

\* A frame in hand is presented before anything else.
LEMMA NotPresenting ==
  /\ \A s : Starts(s, "present") => s \notin Ends
  /\ \A s : Starts(s, "present") => \A x \in StepName \ {"present"} : ~Starts(s, x)
BY EndsFacts, StartsOnce DEF StepName

\* The frame of the mailbox is taken, to be presented if there is one.
LEMMA TakenShown ==
  ASSUME Sound, Mailboxed, Shown, mailbox.incarnation = epoch, mailbox' = Emptied, UNCHANGED <<epoch, view>>, ~Presenting,
         \/ mailbox.pending = 0 /\ ~Presenting'
         \/ mailbox.pending # 0 /\ Presenting' /\ gui'.frame = mailbox.pending
  PROVE  Shown'
<1>1. /\ mailbox'.pending = 0 /\ mailbox'.highest = mailbox.highest /\ mailbox'.incarnation = epoch /\ OnScreen' = OnScreen
  BY EmptiedFacts DEF OnScreen
<1>2. mailbox.pending \in {0, mailbox.highest} /\ mailbox.pending \in Nat /\ mailbox.highest \in Nat /\ OnScreen \in Nat
  BY RevTypes, ShownType DEF Mailboxed
<1>3. OnScreen <= mailbox.highest /\ (mailbox.pending = mailbox.highest \/ OnScreen = mailbox.highest)
      /\ (mailbox.pending # 0 => OnScreen < mailbox.pending)
  BY DEF Shown
<1>4. CASE mailbox.pending = 0 /\ ~Presenting'
  BY <1>1, <1>2, <1>3, <1>4 DEF Shown
<1>5. CASE mailbox.pending # 0 /\ Presenting' /\ gui'.frame = mailbox.pending
  <2>1. Shown' <=> /\ OnScreen <= mailbox.highest
                   /\ 0 = mailbox.highest \/ (Presenting' /\ gui'.frame = mailbox.highest) \/ OnScreen = mailbox.highest
                   /\ Presenting' => OnScreen < gui'.frame /\ gui'.frame <= mailbox.highest
    BY <1>1 DEF Shown
  <2> QED
    BY <1>2, <1>3, <1>5, <2>1
<1> QED
  BY <1>4, <1>5

\* Every step keeps the frames in order.
LEMMA ShownKept ==
  Sound /\ Fence /\ Locked /\ Mailboxed /\ Shown /\ [Next]_vars => Shown'
<1> SUFFICES ASSUME Sound, Fence, Locked, Mailboxed, Shown, [Next]_vars PROVE Shown'
  OBVIOUS
<1> USE DEF Keeps
<1>1. CASE UNCHANGED vars
  BY <1>1 DEF vars, Shown, OnScreen, Presenting
<1>2. CASE Bump
  <2>1. ~Presenting' /\ mailbox'.incarnation # epoch'
    BY <1>2, BumpMoves, Types, EpochTypes, StartsOnce DEF Bump, Presenting, Sound, NotAhead
  <2> QED
    BY <2>1 DEF Shown
<1>3. CASE ResetMailbox
  <2>1. ~Presenting' /\ Behind /\ UNCHANGED <<epoch, view>>
    BY <1>3, ResetMoves, StartsOnce DEF Presenting, Sound, Between, ResetMailbox
  <2>2. OnScreen' = 0
    BY <2>1, EpochTypes, Types DEF Behind, OnScreen
  <2>3. mailbox'.highest = 0 /\ mailbox'.pending = 0
    BY <1>3 DEF ResetMailbox, Fresh
  <2> QED
    BY <2>1, <2>2, <2>3 DEF Shown
<1>4. CASE ClearEvents
  BY <1>4, ClearMoves, StartsOnce, QuietShown DEF ClearEvents, Presenting, OnScreen
<1>5. CASE Unregister
  <2>1. ~Presenting /\ ~Presenting' /\ UNCHANGED <<epoch, mailbox>>
    BY <1>5, UnregisterMoves, StartsOnce, NotPresenting DEF Presenting, Unregister
  <2>2. OnScreen = 0
    BY <1>5, UnregisterMoves, EpochTypes, Types DEF Sound, Between, Behind, OnScreen
  <2>3. OnScreen' = 0
    BY <1>5 DEF OnScreen, Unregister, NoFrame
  <2> QED
    BY <2>1, <2>2, <2>3, QuietShown
<1>6. CASE Present
  <2>1. Presenting /\ ~Presenting' /\ UNCHANGED <<epoch, mailbox>>
    BY <1>6, PresentMoves, StartsOnce, NotPresenting DEF Presenting, Present, Ends
  <2>2. OnScreen' = gui.frame
    BY <1>6 DEF OnScreen, Present
  <2> QED
    BY <2>1, <2>2, RevTypes, ShownType DEF Shown
<1>7. CASE CloseView \/ Register \/ Connect \/ Rollback \/ Attach \/ Detach \/ RunDrainGuiEvents
  <2>1. UNCHANGED <<epoch, mailbox, view>>
    BY <1>7 DEF CloseView, Register, Connect, Rollback, Attach, Detach, RunDrainGuiEvents
  <2>2. ~Presenting
    <3>1. \A x \in {"closing", "register", "connect", "rollback"} : Starts(gui.todo, x) => ~Presenting
      BY StartsOnce DEF Presenting
    <3>2. gui.todo = <<>> => ~Presenting
      BY DEF Presenting, Starts
    <3> QED
      BY <1>7, <3>1, <3>2
         DEF CloseView, Register, Connect, Rollback, Attach, Detach, RunDrainGuiEvents, Free, At,
         Starts
  <2>3. ~Presenting'
    <3>1. CASE Attach \/ Detach \/ RunDrainGuiEvents
      <4>1. gui'.todo \in {<<>>, Loop, DetachSteps, AttachSteps}
        <5>1. CASE Attach \/ Detach
          BY <5>1 DEF Attach, Detach, GuiIdle
        <5>2. CASE RunDrainGuiEvents
          BY <5>2, DrainGuiMoves
        <5> QED
          BY <3>1, <5>1, <5>2
      <4>2. ~Starts(DetachSteps, "present") /\ ~Starts(AttachSteps, "present")
        BY DEF Starts, DetachSteps, AttachSteps
      <4> QED
        BY <4>1, <4>2, NotPresenting DEF Presenting, Ends
    <3>2. CASE CloseView \/ Register \/ Connect \/ Rollback
      <4>1. \/ gui'.todo \in Ends
            \/ \E x \in StepName \ {"present"} : Starts(gui'.todo, x)
        BY <3>2, CloseViewMoves, RegisterMoves, ConnectMoves, RollbackMoves
           DEF Ends, StepName, GuiIdle
      <4> QED
        BY <4>1, NotPresenting DEF Presenting
    <3> QED
      BY <1>7, <3>1, <3>2
  <2> QED
    BY <2>1, <2>2, <2>3, QuietShown DEF OnScreen
<1>8. CASE RunDrainFrame
  <2>1. UNCHANGED <<epoch, view>> /\ ~Presenting
    BY <1>8, DrainFrameMoves DEF RunDrainFrame, Presenting, Starts
  <2>2. CASE gui'.todo = <<>> /\ mailbox' = mailbox
    BY <2>1, <2>2, QuietShown DEF OnScreen, Presenting, Starts
  <2>3. CASE mailbox.incarnation = epoch /\ mailbox' = Emptied /\ gui'.todo = <<>> /\ mailbox.pending = 0
    BY <2>1, <2>3, TakenShown DEF Presenting, Starts
  <2>4. CASE mailbox.incarnation = epoch /\ mailbox' = Emptied /\ gui'.todo = To("present", <<>>)
             /\ gui'.frame = mailbox.pending /\ mailbox.pending # 0
    <3>1. Presenting'
      BY <2>4, AttachFacts, EndFacts DEF Presenting
    <3> QED
      BY <2>1, <2>4, <3>1, TakenShown
  <2> QED
    BY <1>8, <2>2, <2>3, <2>4, DrainFrameMoves
<1>9. CASE Handle
  <2>1. UNCHANGED <<epoch, view>> /\ ~Presenting
    BY <1>9, HandleMoves, NotPresenting DEF Handle, Presenting, Ends
  <2>2. CASE gui' = GuiIdle /\ UNCHANGED <<mailbox, sent>>
    BY <2>1, <2>2, QuietShown DEF OnScreen, Presenting, Starts, GuiIdle
  <2>3. ASSUME NEW event \in Event, Turned(event) PROVE Shown'
    <3>0. ~Starts(Loop, "present") /\ ~Starts(AtBump(Loop), "present") /\ ~Starts(End, "present") /\ Starts(To("present", End), "present")
      BY EndFacts, DetachFacts, AttachFacts, StartsOnce
    <3>1. CASE gui'.todo \in {Loop, AtBump(Loop), End} /\ mailbox' = mailbox
      BY <2>1, <3>0, <3>1, QuietShown DEF OnScreen, Presenting
    <3>2. CASE gui'.todo = End /\ mailbox' = Emptied /\ mailbox.incarnation = epoch /\ mailbox.pending = 0
      BY <2>1, <3>0, <3>2, TakenShown DEF Presenting
    <3>3. CASE gui'.todo = To("present", End) /\ gui'.frame = mailbox.pending /\ mailbox.pending # 0
               /\ mailbox' = Emptied /\ mailbox.incarnation = epoch
      BY <2>1, <3>0, <3>3, TakenShown DEF Presenting
    <3> QED
      BY <2>3, <3>1, <3>2, <3>3 DEF Turned, Closing
  <2> QED
    BY <1>9, <2>2, <2>3, HandleMoves
<1>10. ASSUME NEW th \in Thread, Redraw(th) \/ Publish(th) \/ CheckEpoch(th) \/ Post(th) \/ \E kind \in Kind : Send(th, kind)
       PROVE  Shown'
  <2>1. UNCHANGED <<epoch, gui, mailbox, view>>
    BY <1>10 DEF Redraw, Publish, CheckEpoch, Post, Send
  <2> QED
    BY <2>1 DEF Shown, OnScreen, Presenting
<1>11. ASSUME NEW th \in Thread, Put(th) PROVE Shown'
  <2>1. UNCHANGED <<epoch, gui, view>>
    BY <1>11 DEF Put
  <2>2. CASE mailbox' = mailbox
    BY <2>1, <2>2 DEF Shown, OnScreen, Presenting
  <2>3. CASE mailbox' # mailbox
    <3>1. /\ mailbox'.incarnation = mailbox.incarnation /\ mailbox'.highest = pub[th].rev /\ mailbox'.pending = pub[th].rev
          /\ pub[th].rev > mailbox.highest
      BY <1>11, <2>3 DEF Put, Accepts, Sound, TypeOK
    <3>2. mailbox.highest \in Nat /\ pub[th].rev \in Nat /\ OnScreen \in Nat /\ gui.frame \in Nat
      BY RevTypes, ShownType
    <3>3. OnScreen' = OnScreen /\ Presenting' = Presenting
      BY <2>1 DEF OnScreen, Presenting
    <3> QED
      BY <2>1, <3>1, <3>2, <3>3 DEF Shown
  <2> QED
    BY <2>2, <2>3
<1> QED
  BY <1>1, <1>2, <1>3, <1>4, <1>5, <1>6, <1>7, <1>8, <1>9, <1>10, <1>11
     DEF Next, GuiStep, PublishStep

-----------------------------------------------------------------------------
(* The last frame of a closed terminal.                                     *)

\* The drain of a closed terminal has in hand, or has shown, a frame as new as
\* the last published before the end, and attach comes back to it with another
\* epoch only.
LastShown ==
  /\ Presenting /\ gui.in # 0 => gui.seen <= gui.frame
  /\ Starts(gui.todo, "closing") /\ epoch = gui.in => gui.seen <= OnScreen
  /\ Starts(gui.todo, "connect") \/ Starts(gui.todo, "rollback") => gui.in < epoch

\* No terminal has ended.
LEMMA LastInit == Init => LastShown
BY DEF Init, LastShown, Presenting, GuiIdle, Starts

\* The last frame is taken in the turn that handles the end, and shown before
\* the next.
LEMMA LastKept ==
  Sound /\ Fence /\ Mailboxed /\ SeenPublished /\ Shown /\ LastShown /\ [Next]_vars => LastShown'
<1> SUFFICES ASSUME Sound, Fence, Mailboxed, SeenPublished, Shown, LastShown, [Next]_vars PROVE LastShown'
  OBVIOUS
<1> USE DEF Keeps
<1>0. ASSUME NEW s, NEW x \in {"bump", "reset", "clear", "unregister", "register", "handle"}, Starts(s, x)
      PROVE  ~Starts(s, "present") /\ ~Starts(s, "closing") /\ ~Starts(s, "connect") /\ ~Starts(s, "rollback")
  BY <1>0, StartsOnce
<1>a. ASSUME NEW s \in {<<>>, Loop}
      PROVE  ~Starts(s, "present") /\ ~Starts(s, "closing") /\ ~Starts(s, "connect") /\ ~Starts(s, "rollback")
  BY EndFacts, StartsOnce DEF Starts
<1>b. ~Starts(End, "present") /\ ~Starts(End, "connect") /\ ~Starts(End, "rollback")
  BY EndFacts, StartsOnce
<1>1. CASE UNCHANGED vars
  BY <1>1 DEF vars, LastShown, Presenting, OnScreen
<1>2. CASE Bump \/ ResetMailbox \/ ClearEvents
  BY <1>0, <1>2, BumpMoves, ResetMoves, ClearMoves DEF LastShown, Presenting
<1>3. CASE Unregister
  <2>1. Behind /\ UNCHANGED epoch /\ gui'.in = gui.in
    BY <1>3, UnregisterMoves DEF Sound, Between, Unregister
  <2>2. epoch' # gui'.in
    BY <2>1, EpochTypes, Types DEF Behind
  <2> QED
    BY <1>0, <1>3, <1>a, <1>b, <2>2, UnregisterMoves DEF LastShown, Presenting, Ends
<1>4. CASE Register
  <2>1. Behind /\ UNCHANGED epoch /\ gui'.in = gui.in
    BY <1>4, RegisterMoves DEF Sound, Between, Register
  <2>2. gui'.in < epoch' /\ epoch' # gui'.in
    BY <2>1, EpochTypes, Types DEF Behind
  <2>3. ~Presenting'
    BY <1>4, <1>a, <1>b, RegisterMoves, StartsOnce DEF Presenting
  <2> QED
    BY <2>2, <2>3 DEF LastShown
<1>5. CASE Connect \/ Rollback
  <2>1. gui.in < epoch /\ UNCHANGED epoch /\ gui'.in = gui.in
    BY <1>5, ConnectMoves, RollbackMoves DEF LastShown, Connect, Rollback
  <2>2. gui'.in < epoch' /\ epoch' # gui'.in
    BY <2>1, EpochTypes, Types
  <2>3. ~Presenting'
    BY <1>5, <1>a, <1>b, ConnectMoves, RollbackMoves, StartsOnce DEF Presenting
  <2> QED
    BY <2>2, <2>3 DEF LastShown
<1>6. CASE Attach \/ Detach \/ RunDrainGuiEvents
  <2>1. gui' = gui \/ gui'.todo \in {<<>>, Loop, DetachSteps, AttachSteps}
    <3>1. CASE Attach \/ Detach
      BY <3>1 DEF Attach, Detach, GuiIdle
    <3>2. CASE RunDrainGuiEvents
      BY <3>2, DrainGuiMoves
    <3> QED
      BY <1>6, <3>1, <3>2
  <2>2. gui.todo = <<>>
    BY <1>6 DEF Attach, Detach, RunDrainGuiEvents, Free
  <2>3. Starts(DetachSteps, "bump") /\ Starts(AttachSteps, "bump")
    BY DEF Starts, DetachSteps, AttachSteps
  <2> QED
    BY <1>0, <1>a, <2>1, <2>2, <2>3 DEF LastShown, Presenting
<1>7. CASE RunDrainFrame
  <2>1. gui'.in = 0 /\ gui'.todo \in {<<>>, To("present", <<>>)}
    BY <1>7, DrainFrameMoves
  <2>2. Starts(To("present", <<>>), "present")
    BY AttachFacts, EndFacts
  <2> QED
    BY <1>a, <2>1, <2>2, StartsOnce DEF LastShown, Presenting
<1>8. CASE Present
  <2>1. CASE Starts(gui'.todo, "bump") \/ gui'.todo = <<>>
    BY <1>0, <1>a, <2>1 DEF LastShown, Presenting
  <2>2. CASE gui'.todo = End
    <3>1. Starts(gui.todo, "present") /\ gui'.in = gui.in /\ gui'.seen = gui.seen
      BY <1>8, PresentMoves
    <3>2. gui'.in # 0
      <4>1. Sound'
        BY <1>8, PresentSound
      <4>2. Starts(gui'.todo, "closing")
        BY <2>2, EndFacts
      <4>3. gui.in # 0
        <5>1. gui.todo # <<>> /\ Turn(Tail(gui.todo))
          BY <3>1, Order DEF Starts
        <5>2. gui.in = 0 => Tail(gui.todo) = <<>>
          BY <3>1, <5>1 DEF Turn
        <5>3. ASSUME gui.in = 0 PROVE FALSE
          <6>1. Tail(gui.todo) = <<>>
            BY <5>2, <5>3
          <6>2. gui'.todo \in {<<>>, AttachSteps}
            <7>1. gui \in GuiType
              BY Types
            <7>2. gui'.todo = <<>> \o Tail(gui.todo) \/ gui'.todo = AttachSteps \o Tail(gui.todo)
              BY <1>8, <7>1 DEF Present, GuiType
            <7>3. <<>> \o <<>> = <<>> /\ AttachSteps \o <<>> = AttachSteps
              BY DEF AttachSteps, DetachSteps
            <7> QED
              BY <6>1, <7>2, <7>3
          <6> QED
            BY <2>2, <6>2 DEF AttachSteps, DetachSteps, End
        <5> QED
          BY <5>3
      <4> QED
        BY <3>1, <4>3
    <3>3. OnScreen' = gui.frame
      BY <1>8 DEF Present, OnScreen
    <3> QED
      BY <1>b, <2>2, <3>1, <3>2, <3>3 DEF LastShown, Presenting
  <2> QED
    BY <1>8, <2>1, <2>2, PresentMoves
<1>9. CASE CloseView
  BY <1>0, <1>9, <1>a, CloseViewMoves DEF LastShown, Presenting, GuiIdle
<1>10. CASE Handle
  <2>1. mailbox.incarnation = epoch /\ UNCHANGED <<epoch, view>> /\ ~Presenting
    <3>1. ~Starts(gui.todo, "reset") /\ ~Presenting
      BY <1>10, <1>a, HandleMoves, EndFacts, StartsOnce DEF Presenting
    <3> QED
      BY <1>10, <3>1 DEF Fence, Handle
  <2>2. CASE gui' = GuiIdle
    BY <1>a, <2>2 DEF LastShown, Presenting, GuiIdle
  <2>3. ASSUME NEW event \in Event, Turned(event) PROVE LastShown'
    <3>0. Starts(AtBump(Loop), "bump") /\ Starts(To("present", End), "present") /\ Starts(End, "closing")
      BY EndFacts, DetachFacts, AttachFacts
    <3>1. CASE gui'.todo \in {Loop, AtBump(Loop)}
      BY <1>0, <1>a, <3>0, <3>1 DEF LastShown, Presenting
    <3>2. CASE Closing(event)
      <4>1. event.seen <= mailbox.highest /\ event.seen \in Nat
        BY <2>3, EventFacts, SeenTail DEF Turned, SeenPublished
      <4>2. mailbox.highest \in Nat /\ OnScreen \in Nat /\ gui'.seen = event.seen /\ OnScreen' = OnScreen
        BY <2>1, <3>2, RevTypes, ShownType DEF Closing, OnScreen
      <4>3. CASE gui'.todo = End /\ mailbox.pending = 0
        <5>1. OnScreen = mailbox.highest \/ mailbox.highest = 0
          BY <2>1, <4>3 DEF Shown
        <5>2. gui'.seen <= OnScreen'
          BY <4>1, <4>2, <5>1
        <5> QED
          BY <1>b, <4>3, <5>2 DEF LastShown, Presenting
      <4>4. CASE gui'.todo = To("present", End) /\ gui'.frame = mailbox.pending /\ mailbox.pending # 0
        <5>1. gui'.seen <= gui'.frame
          BY <4>1, <4>2, <4>4 DEF Mailboxed
        <5> QED
          BY <3>0, <4>4, <5>1, StartsOnce DEF LastShown, Presenting
      <4> QED
        BY <2>1, <3>2, <4>3, <4>4 DEF Closing
    <3> QED
      BY <2>3, <3>1, <3>2 DEF Turned
  <2> QED
    BY <1>10, <2>2, <2>3, HandleMoves
<1>11. ASSUME NEW th \in Thread, Redraw(th) \/ PublishStep(th) \/ \E kind \in Kind : Send(th, kind) PROVE LastShown'
  BY <1>11, CallbackMoves DEF LastShown, Presenting, OnScreen
<1> QED
  BY <1>1, <1>2, <1>3, <1>4, <1>5, <1>6, <1>7, <1>8, <1>9, <1>10, <1>11 DEF Next, GuiStep
-----------------------------------------------------------------------------
(* The theorems.                                                            *)

\* The inductive invariant.
IInv ==
  /\ Sound
  /\ Fence
  /\ Locked
  /\ Mailboxed
  /\ EventsDue
  /\ SeenPublished
  /\ Ordered
  /\ Shown
  /\ LastShown

\* The inductive invariant holds in every behaviour of the view, for any number
\* of epochs, frames and events and any capacity of the queue
\* (TerminalView.cpp).
THEOREM Invariance == Spec => []IInv
<1>1. Init => IInv
  BY SoundInit, FenceInit, MailboxedInit, EventsDueInit, SeenInit, OrderInit, ShownInit,
     LastInit DEF IInv
<1>2. IInv /\ [Next]_vars => IInv'
  BY SoundKept, FenceKept, LockedKept, MailboxedKept, EventsDueKept, SeenKept, OrderedKept,
     ShownKept, LastKept DEF IInv
<1> QED
  BY <1>1, <1>2, PTL DEF Spec

\* The two ways to say which step is next.
LEMMA AtStarts == \A x : At(x) <=> Starts(gui.todo, x)
BY DEF At, Starts

\* The calls DrainIsComing counts.
LEMMA DueFacts ==
  /\ Due("drainFrame") = {i \in DOMAIN loop : loop[i] = FramesDrain}
  /\ Due("drainGuiEvents") = {i \in DOMAIN loop : loop[i] = EventsDrain}
BY DEF Due, FramesDrain, EventsDrain, DrainFrame, DrainGuiEvents

\* A call posted at most once is counted at most once.
LEMMA AtMostOnce ==
  ASSUME NEW q, NEW x, Once(q, x), NEW S, S = {i \in DOMAIN q : q[i] = x}
  PROVE  /\ Cardinality(S) = IF In(q, x) THEN 1 ELSE 0
         /\ \A i, j \in S : i = j
<1>1. CASE In(q, x)
  <2>1. PICK i \in DOMAIN q : q[i] = x
    BY <1>1 DEF In
  <2>2. S = {i}
    BY <2>1 DEF Once
  <2> QED
    BY <1>1, <2>2, FS_Singleton
<1>2. CASE ~In(q, x)
  <2>1. S = {}
    BY <1>2 DEF In
  <2> QED
    BY <1>2, <2>1, FS_EmptySet
<1> QED
  BY <1>1, <1>2

\* A flag that says a drain is coming is true, something to drain always has its
\* flag set, and at most one drain of each kind is posted for the attachment
\* whenever the GUI thread is back in its event loop (TerminalFrameMailbox,
\* enqueueGuiEvent, drainFrame, drainGuiEvents).
THEOREM DrainIsComingAlways == Spec => []DrainIsComing
<1>1. IInv => DrainIsComing
  <2> SUFFICES ASSUME IInv PROVE DrainIsComing
    OBVIOUS
  <2> USE DEF IInv
  <2>0. Posting <=> Posts(pub, epoch)
    BY DEF Posting, Posts
  <2>1. ASSUME Settled
        PROVE  /\ mailbox.queued => Due("drainFrame") # {} \/ Posting
               /\ queue.queued => Due("drainGuiEvents") # {}
               /\ mailbox.pending # 0 => mailbox.queued
               /\ queue.events # <<>> => queue.queued
    <3>1. mailbox.incarnation = epoch /\ ~Resetting
      BY <2>1, AtStarts DEF Settled, Fence, Resetting
    <3> QED
      BY <2>0, <3>1, DueFacts DEF Mailboxed, EventsDue, In
  <2>2. ASSUME gui.todo = <<>>
        PROVE  /\ \A i, j \in Due("drainGuiEvents") : i = j
               /\ Cardinality(Due("drainFrame")) + (IF Posting THEN 1 ELSE 0) <= 1
    <3>1. OneDrain
      BY <2>2, IdleState DEF Mailboxed, Leaving
    <3>2. Cardinality(Due("drainFrame")) = IF In(loop, FramesDrain) THEN 1 ELSE 0
      BY <3>1, DueFacts, AtMostOnce DEF OneDrain
    <3>3. \A i, j \in Due("drainGuiEvents") : i = j
      BY DueFacts, AtMostOnce DEF EventsDue
    <3> QED
      BY <2>0, <3>1, <3>2, <3>3 DEF OneDrain
  <2> QED
    BY <2>1, <2>2 DEF DrainIsComing
<1> QED
  BY <1>1, Invariance, PTL

\* No GUI event of an attachment is lost, repeated or reordered while the view
\* is attached and the queue has not overflowed (enqueueGuiEvent,
\* drainGuiEvents).
THEOREM EventsInOrderAlways == Spec => []EventsInOrder
<1>1. IInv => EventsInOrder
  BY OrderedIs DEF IInv
<1> QED
  BY <1>1, Invariance, PTL

\* What follows detach can be told from its steps.
LEMMA DetachOfOne ==
  ASSUME NEW b \in Seq(StepName), NEW c \in Seq(StepName), AtBump(b) = AtBump(c)
  PROVE  b = c
<1>1. AtReset(b) = AtReset(c)
  <2>1. Tail(AtBump(b)) = AtReset(b) /\ Tail(AtBump(c)) = AtReset(c)
    BY DetachFacts
  <2> QED
    BY <2>1
<1>2. AtClear(b) = AtClear(c)
  <2>1. Tail(AtReset(b)) = AtClear(b) /\ Tail(AtReset(c)) = AtClear(c)
    BY DetachFacts
  <2> QED
    BY <1>1, <2>1
<1>3. AtUnregister(b) = AtUnregister(c)
  <2>1. Tail(AtClear(b)) = AtUnregister(b) /\ Tail(AtClear(c)) = AtUnregister(c)
    BY DetachFacts
  <2> QED
    BY <1>2, <2>1
<1>4. Tail(AtUnregister(b)) = b /\ Tail(AtUnregister(c)) = c
  BY DetachFacts
<1> QED
  BY <1>3, <1>4

\* A detach inside the loop of drainGuiEvents, the epoch not moved yet, is a
\* detach of the attachment that is drained.
LEMMA LoopOnly ==
  ASSUME Sound, gui.todo = AtBump(Loop)
  PROVE  epoch = gui.in
<1>0. Loop \in Seq(StepName) /\ Starts(gui.todo, "bump") /\ Tail(gui.todo) = AtReset(Loop)
  BY EndFacts, DetachFacts
<1>2. ASSUME NEW b \in Ends, Detaching(b) PROVE b = Loop /\ epoch = gui.in
  <2>1. gui.todo = AtBump(b) /\ (b = Loop => gui.in = epoch)
    BY <1>0, <1>2, DetachAt, StartsOnce DEF DetachTurn
  <2>2. b = Loop
    BY <1>0, <2>1, EndsFacts, DetachOfOne
  <2> QED
    BY <2>1, <2>2
<1>3. ASSUME NEW b \in {<<>>, End}, Attaching(b) PROVE FALSE
  <2>1. b \in Seq(StepName) /\ b \in Ends /\ AtBump2(b) \in Seq(StepName)
    BY EndFacts, AttachFacts DEF Ends
  <2>2. AttachTurn(b, Tail(gui.todo))
    BY <1>3, <2>1, AttachAt
  <2>3. Tail(gui.todo) = AtReset(AtBump2(b)) \/ Tail(gui.todo) = AtReset2(b)
    BY <1>0, <2>2, StartsOnce DEF AttachTurn
  <2>4. Starts(AtClear(Loop), "clear") /\ Tail(AtReset(Loop)) = AtClear(Loop) /\ Tail(AtClear(Loop)) = AtUnregister(Loop) /\ Tail(AtUnregister(Loop)) = Loop
    BY <1>0, DetachFacts
  <2>5. CASE Tail(gui.todo) = AtReset2(b)
    <3>1. Tail(AtReset2(b)) = AtRegister(b) /\ Starts(AtRegister(b), "register")
      BY <2>1, AttachFacts
    <3>2. AtReset2(b) = AtReset(Loop)
      BY <1>0, <2>5
    <3>3. AtRegister(b) = AtClear(Loop)
      BY <2>4, <3>1, <3>2
    <3> QED
      BY <2>4, <3>1, <3>3, StartsOnce
  <2>6. CASE Tail(gui.todo) = AtReset(AtBump2(b))
    <3>1. /\ Tail(AtReset(AtBump2(b))) = AtClear(AtBump2(b)) /\ Tail(AtClear(AtBump2(b))) = AtUnregister(AtBump2(b)) /\ Tail(AtUnregister(AtBump2(b))) = AtBump2(b)
          /\ Starts(AtBump2(b), "bump")
      BY <2>1, DetachFacts, AttachFacts
    <3>2. AtReset(AtBump2(b)) = AtReset(Loop)
      BY <1>0, <2>6
    <3>3. AtClear(AtBump2(b)) = AtClear(Loop)
      BY <2>4, <3>1, <3>2
    <3>4. AtUnregister(AtBump2(b)) = AtUnregister(Loop)
      BY <2>4, <3>1, <3>3
    <3>5. AtBump2(b) = Loop
      BY <2>4, <3>1, <3>4
    <3> QED
      BY <3>1, <3>5, EndFacts, StartsOnce
  <2> QED
    BY <2>3, <2>5, <2>6
<1>4. gui.todo \notin {<<>>, Loop, End, To("present", <<>>), To("present", End)}
  <2>1. ~Starts(gui.todo, "handle") /\ ~Starts(gui.todo, "closing") /\ ~Starts(gui.todo, "present") /\ gui.todo # <<>>
    BY <1>0, StartsOnce DEF Starts
  <2> QED
    BY <2>1, AttachFacts, EndFacts
<1> QED
  BY <1>2, <1>3, <1>4 DEF Sound, Control, Ends

\* A terminal that ended has shown its last frame when its view is detached, and
\* its end never detaches the attachment that replaced it (drainGuiEvents,
\* presentFrame).
THEOREM EndedInItsTurnAlways == Spec => []EndedInItsTurn
<1>1. IInv => EndedInItsTurn
  <2> SUFFICES ASSUME IInv PROVE EndedInItsTurn
    OBVIOUS
  <2> USE DEF IInv
  <2>1. ASSUME At("closing"), epoch = gui.in, gui.seen # 0 PROVE view.epoch = epoch /\ view.rev >= gui.seen
    <3>1. gui.seen <= OnScreen /\ gui.seen \in Nat
      BY <2>1, AtStarts, RevTypes DEF LastShown
    <3>2. OnScreen # 0
      BY <2>1, <3>1, ShownType
    <3> QED
      BY <3>1, <3>2, RevTypes DEF OnScreen
  <2>2. ASSUME gui.todo = DetachSteps \o <<"handle">> PROVE epoch = gui.in
    <3>1. gui.todo = AtBump(Loop)
      BY <2>2, EndFacts, CallFacts DEF Loop
    <3> QED
      BY <3>1, LoopOnly
  <2> QED
    BY <2>1, <2>2 DEF EndedInItsTurn
<1> QED
  BY <1>1, Invariance, PTL

-----------------------------------------------------------------------------
(* The way of a frame implements LatestFrame.                               *)

\* The newest frame offered to the current attachment.
Offered == IF mailbox.incarnation = epoch THEN mailbox.highest ELSE 0

\* Nothing is offered and nothing shown.
LEMMA FramesInit == Init => Frames!Init
BY DEF Init, Frames!Init, NoFrame

\* What the abstract specification allows a step to do.
LEMMA FramesStep ==
  ASSUME \/ Offered' > Offered /\ Offered' \in Nat /\ OnScreen' = OnScreen
         \/ OnScreen' \in OnScreen + 1 .. Offered /\ Offered' = Offered
         \/ Offered' = 0 /\ OnScreen' = 0
         \/ Offered' = Offered /\ OnScreen' = OnScreen
  PROVE  [Frames!Next]_(Frames!vars)
BY DEF Frames!Next, Frames!Offer, Frames!Show, Frames!Restart, Frames!vars, Offered, OnScreen

\* Every step offers a newer frame, shows one, begins again with another
\* attachment, or leaves the view alone.
LEMMA FramesKept == IInv /\ [Next]_vars => [Frames!Next]_(Frames!vars)
<1> SUFFICES ASSUME IInv, [Next]_vars PROVE [Frames!Next]_(Frames!vars)
  OBVIOUS
<1> USE DEF IInv
<1>1. CASE UNCHANGED <<mailbox, epoch, view>>
  BY <1>1, FramesStep DEF Offered, OnScreen
<1>2. CASE Bump
  <2>1. mailbox'.incarnation # epoch' /\ view'.epoch # epoch'
    BY <1>2, Types, EpochTypes DEF Bump, Sound, NotAhead
  <2> QED
    BY <2>1, FramesStep DEF Offered, OnScreen
<1>3. CASE ResetMailbox
  <2>1. mailbox'.highest = 0 /\ UNCHANGED <<view, epoch>> /\ Behind
    BY <1>3, ResetMoves DEF ResetMailbox, Fresh, Sound, Between
  <2>2. view.epoch # epoch
    BY <2>1, EpochTypes, Types DEF Behind
  <2> QED
    BY <2>1, <2>2, FramesStep DEF Offered, OnScreen
<1>4. CASE Unregister
  <2>1. UNCHANGED <<mailbox, epoch>> /\ Behind /\ view' = NoFrame
    BY <1>4, UnregisterMoves DEF Unregister, Sound, Between
  <2>2. view.epoch # epoch
    BY <2>1, EpochTypes, Types DEF Behind
  <2> QED
    BY <2>1, <2>2, FramesStep DEF Offered, OnScreen, NoFrame
<1>5. CASE Present
  <2>1. UNCHANGED <<mailbox, epoch>> /\ Presenting
    BY <1>5, PresentMoves DEF Present, Presenting
  <2>2. OnScreen' = gui.frame
    BY <1>5 DEF Present, OnScreen
  <2>3. Offered' = Offered /\ Offered = mailbox.highest
    BY <2>1 DEF Offered, Shown
  <2>4. gui.frame \in OnScreen + 1 .. Offered
    BY <2>1, <2>3, RevTypes, ShownType DEF Shown
  <2> QED
    BY <2>2, <2>3, <2>4, FramesStep
<1>6. CASE RunDrainFrame \/ Handle
  <2>1. mailbox' \in {mailbox, Emptied} /\ UNCHANGED <<epoch, view>>
    BY <1>6, DrainFrameMoves, HandleMoves DEF Turned, Closing, RunDrainFrame, Handle
  <2>2. mailbox'.highest = mailbox.highest /\ mailbox'.incarnation = mailbox.incarnation
    BY <2>1, EmptiedFacts
  <2> QED
    BY <2>1, <2>2, FramesStep DEF Offered, OnScreen
<1>7. ASSUME NEW th \in Thread, Put(th) PROVE [Frames!Next]_(Frames!vars)
  <2>1. UNCHANGED <<epoch, view>>
    BY <1>7 DEF Put
  <2>2. CASE mailbox' = mailbox
    BY <1>1, <2>1, <2>2
  <2>3. CASE mailbox' # mailbox
    <3>1. /\ mailbox'.incarnation = mailbox.incarnation /\ mailbox'.highest = pub[th].rev
          /\ pub[th].rev > mailbox.highest
      BY <1>7, <2>3 DEF Put, Accepts, Sound, TypeOK
    <3>2. mailbox.highest \in Nat /\ pub[th].rev \in Nat /\ OnScreen' = OnScreen
      BY <2>1, RevTypes DEF OnScreen
    <3>3. Offered' = Offered \/ (Offered' > Offered /\ Offered' \in Nat)
      BY <2>1, <3>1, <3>2 DEF Offered
    <3> QED
      BY <3>2, <3>3, FramesStep
  <2> QED
    BY <2>2, <2>3
<1>8. CASE Attach \/ Detach \/ RunDrainGuiEvents \/ CloseView \/ ClearEvents \/ Register \/ Connect \/ Rollback
  BY <1>1, <1>8
     DEF Attach, Detach, RunDrainGuiEvents, CloseView, ClearEvents, Register, Connect, Rollback
<1>9. ASSUME NEW th \in Thread, Redraw(th) \/ Publish(th) \/ CheckEpoch(th) \/ Post(th) \/ \E kind \in Kind : Send(th, kind)
      PROVE  [Frames!Next]_(Frames!vars)
  BY <1>1, <1>9 DEF Redraw, Publish, CheckEpoch, Post, Send
<1> QED
  BY <1>1, <1>2, <1>3, <1>4, <1>5, <1>6, <1>7, <1>8, <1>9 DEF Next, GuiStep, PublishStep, vars

\* The safety part of NewestFrameShown: the mailbox, its flag and the posted
\* drains implement LatestFrame, step by step (TerminalFrameMailbox,
\* presentFrame).  No frame is shown twice or after a newer one, and nothing of
\* an earlier attachment is shown.  That the newest is shown in the end needs
\* fairness and is left to the runs.
THEOREM FramesInOrder == Spec => Frames!Init /\ [][Frames!Next]_(Frames!vars)
BY FramesInit, FramesKept, Invariance, PTL DEF Spec
================================================================================
