----------------------------- MODULE RuntimeBridge -----------------------------
(***************************************************************************)
(* The bridge to the runtime library (src/runtime/RuntimeBridge.cpp): it   *)
(* starts and stops runtimes, and brings their events to the GUI thread    *)
(* through a queue that is bounded in events and in bytes.                 *)
(*                                                                         *)
(* Three kinds of thread take part.                                        *)
(*   - The GUI thread calls startAsync and stop, and runs the calls posted *)
(*     to its event loop.                                                  *)
(*   - A start thread runs kodosi_start and posts the handle it returns.   *)
(*   - The callback thread of a runtime calls event; a mutex around every  *)
(*     callback makes the callbacks of all runtimes one thread.            *)
(* A step is an atomic load or exchange, what is done under one mutex, or  *)
(* one posted call.  The two counters of the queue are added to in one     *)
(* step: callbacks are serialised, and the GUI thread only subtracts.      *)
(*                                                                         *)
(* External: the runtime.  It emits events from the moment kodosi_start    *)
(* is entered until kodosi_stop returns, which waits for its callbacks.    *)
(* Its account epoch never falls; its tasks may emit events of an earlier  *)
(* epoch after those of a later one.                                       *)
(***************************************************************************)
EXTENDS Naturals, Sequences, FiniteSets, SequencesExt

CONSTANTS
  StartLimit,   \* bound: runtimes started
  EmitLimit,    \* bound: events a runtime emits
  EventLimit,   \* most events queued, and held while starting (4096)
  ByteLimit,    \* most bytes queued (16 MiB)
  Sizes,        \* sizes an event may have
  Epochs,       \* account epochs a runtime may reach
  Users,        \* accounts; "" is signed out
  Types,        \* event types; "auth.ready" stands for auth.required too, which the
                \* fence treats alike
  StartsFail    \* whether kodosi_start may return null

ASSUME ConstantsAssumption ==
  /\ {StartLimit, EmitLimit, EventLimit, ByteLimit} \subseteq Nat
  /\ Sizes \subseteq Nat \ {0}
  /\ Epochs \subseteq Nat /\ 0 \in Epochs
  /\ "" \in Users
  /\ Types \subseteq {"auth.ready", "system.ready", "other"}
  /\ StartsFail \in BOOLEAN

VARIABLES
  alive,      \* CallbackContext::bridge is set
  starting,   \* m_starting
  generation, \* m_activeGeneration, 0 when stopped
  started,    \* m_nextGeneration: one runtime is started per generation
  handle,     \* m_handle: the runtime installed, or 0
  failed,     \* m_queueFailed
  queued,     \* m_queuedEvents and m_queuedBytes
  startup,    \* m_startupEvents
  loop,       \* calls posted to the GUI thread
  account,    \* m_accountEpoch and m_accountUserId
  cb,         \* the callback in progress
  gui,        \* the runtime kodosi_stop is waiting for, or 0
  runtime,    \* external: phase, events emitted, account epoch
  last        \* history: what deliverEvent was given since the start: the last
              \* event of the runtime being started, whether one was missing or
              \* passed the fence out of account, and of which other runtimes
              \* there were events

bridgeVars == <<alive, starting, generation, started, handle, failed, queued,
                startup, loop, account, cb, gui, runtime, last>>

Runtime == 1 .. StartLimit
Event   == [runtime : Runtime, n : 1 .. EmitLimit, size : Sizes,
            type : Types, epoch : Epochs, user : Users]
History == [runtime : 0 .. StartLimit, n : 0 .. EmitLimit,
            gap : BOOLEAN, foreign : SUBSET Runtime, stray : BOOLEAN]
NothingYet == [runtime |-> 0, n |-> 0, gap |-> FALSE, foreign |-> {}, stray |-> FALSE]

QueuedCall == [call : {"event"}, generation : Runtime, event : Event]
StopCall   == [call : {"overflow"}, generation : Runtime]
StartCall  == [call : {"started"}, generation : Runtime, ok : BOOLEAN]

TypeOK ==
  /\ alive \in BOOLEAN /\ starting \in BOOLEAN /\ failed \in BOOLEAN
  /\ generation \in 0 .. StartLimit
  /\ started \in 0 .. StartLimit
  /\ handle \in 0 .. StartLimit
  /\ queued \in [events : Nat, bytes : Nat]
  /\ startup \in Seq(Event) /\ Len(startup) <= EventLimit
  /\ loop \in Seq(QueuedCall \cup StopCall \cup StartCall)
  /\ account \in [epoch : Epochs, user : Users]
  /\ cb \in {[pc |-> "idle"]}
           \cup [pc : {"reserve", "post", "postStop"}, generation : Runtime, event : Event]
  /\ gui \in 0 .. StartLimit
  /\ runtime \in [Runtime -> [phase : {"none", "starting", "returned", "running",
                                       "abandoned", "stopped", "failed"},
                              emitted : 0 .. EmitLimit, epoch : Epochs]]
  /\ last \in History

SignedOut == [epoch |-> 0, user |-> ""]
CbIdle    == [pc |-> "idle"]

Init ==
  /\ alive = TRUE
  /\ starting = FALSE
  /\ generation = 0
  /\ started = 0
  /\ handle = 0
  /\ failed = FALSE
  /\ queued = [events |-> 0, bytes |-> 0]
  /\ startup = <<>>
  /\ loop = <<>>
  /\ account = SignedOut
  /\ cb = CbIdle
  /\ gui = 0
  /\ runtime = [r \in Runtime |-> [phase |-> "none", emitted |-> 0, epoch |-> 0]]
  /\ last = NothingYet

Phase(r, p) == runtime' = [runtime EXCEPT ![r].phase = p]

(***************************************************************************)
(* Starting.                                                               *)
(***************************************************************************)
GuiFree == alive /\ gui = 0

\* startAsync, when the bridge is neither running nor starting: the start
\* thread is on its way.  m_startupEvents is left as it is.
StartAsync ==
  /\ GuiFree
  /\ handle = 0 /\ ~starting
  /\ started < StartLimit
  /\ starting' = TRUE
  /\ account' = SignedOut
  /\ failed' = FALSE
  /\ started' = started + 1
  /\ generation' = started + 1
  /\ last' = NothingYet
  /\ Phase(started + 1, "starting")
  /\ UNCHANGED <<alive, handle, queued, startup, loop, cb, gui>>

\* The start thread: kodosi_start returns a handle, or null; its call is posted
\* when there is still a bridge, else the handle is given to kodosi_stop.
KodosiStarts(r, ok) ==
  /\ runtime[r].phase = "starting"
  /\ ok \/ StartsFail
  /\ cb.pc = "idle"
  /\ IF alive
     THEN /\ loop' = Append(loop, [call |-> "started", generation |-> r, ok |-> ok])
          /\ Phase(r, IF ok THEN "returned" ELSE "failed")
     ELSE /\ Phase(r, IF ok THEN "abandoned" ELSE "failed")
          /\ UNCHANGED loop
  /\ UNCHANGED <<alive, starting, generation, started, handle, failed, queued,
                 startup, account, cb, gui, last>>

(***************************************************************************)
(* deliverEvent: the account fence.                                        *)
(***************************************************************************)
MovesAccount(type) == type \in {"auth.ready", "system.ready"}

AnyEvent(at, event) == TRUE  \* mutant: no fence

\* The event is of the account the bridge is at, or moves it to a later epoch;
\* auth.ready may change the user within the epoch.
Admitted(at, event) ==
  \/ event.epoch = at.epoch /\ (event.user = at.user \/ event.type = "auth.ready")
  \/ event.epoch > at.epoch /\ MovesAccount(event.type)

After(at, event) ==
  IF Admitted(at, event) /\ MovesAccount(event.type)
  THEN [epoch |-> event.epoch, user |-> event.user] ELSE at

Delivered(state, event) ==
  LET at  == state.account
      own == event.runtime = generation
      new == After(at, event)
  IN [account |-> new,
      last |-> [runtime |-> IF own THEN event.runtime ELSE state.last.runtime,
                n       |-> IF own THEN event.n ELSE state.last.n,
                gap     |-> state.last.gap \/ (own /\ event.n # state.last.n + 1),
                foreign |-> IF own THEN state.last.foreign ELSE state.last.foreign \cup {event.runtime},
                stray   |-> \/ state.last.stray
                            \/ new.epoch < at.epoch
                            \/ Admitted(at, event)
                               /\ [epoch |-> event.epoch, user |-> event.user] # new]]

\* deliverEvent of each of a sequence of events.
Deliver(events) ==
  LET after == FoldLeft(Delivered, [account |-> account, last |-> last], events) IN
  /\ account' = after.account
  /\ last' = after.last

(***************************************************************************)
(* Stopping: stop() first makes what is queued stale, then calls           *)
(* kodosi_stop, which waits for the callbacks of the runtime.              *)
(***************************************************************************)
BeginStop ==
  /\ startup' = <<>>
  /\ generation' = 0
  /\ gui' = handle
  /\ handle' = 0

Stop ==
  /\ GuiFree
  /\ BeginStop
  /\ UNCHANGED <<alive, starting, started, failed, queued, loop, account, cb, runtime, last>>

InCallback(r) == cb.pc # "idle" /\ cb.event.runtime = r

\* kodosi_stop returns, and runningChanged(false) is emitted.
Joined ==
  /\ gui # 0
  /\ ~InCallback(gui)
  /\ Phase(gui, "stopped")
  /\ gui' = 0
  /\ UNCHANGED <<alive, starting, generation, started, handle, failed, queued, startup,
                 loop, account, cb, last>>

\* A detached thread stops a runtime that nothing took over.
StopAbandoned(r) ==
  /\ runtime[r].phase = "abandoned"
  /\ ~InCallback(r)
  /\ Phase(r, "stopped")
  /\ UNCHANGED <<alive, starting, generation, started, handle, failed, queued, startup,
                 loop, account, cb, gui, last>>

\* ~RuntimeBridge, under the callbacks' mutex: posted calls go with the object,
\* and the handle a posted call holds is abandoned.
Destroy ==
  /\ GuiFree
  /\ cb.pc = "idle"
  /\ alive' = FALSE
  /\ loop' = <<>>
  /\ BeginStop
  /\ runtime' = [r \in Runtime |-> IF runtime[r].phase = "returned"
                                   THEN [runtime[r] EXCEPT !.phase = "abandoned"]
                                   ELSE runtime[r]]
  /\ UNCHANGED <<starting, started, failed, queued, account, cb, last>>

(***************************************************************************)
(* The callback thread: queueEvent.                                        *)
(***************************************************************************)
\* External: runtime r emits its next event.
Emission(r) ==
  {[runtime |-> r, n |-> runtime[r].emitted + 1, size |-> size, type |-> type,
    epoch |-> epoch, user |-> user] :
      size \in Sizes, type \in Types, epoch \in Epochs, user \in Users}

\* The active generation is loaded first.
Emit(r, event) ==
  /\ runtime[r].phase \in {"starting", "returned", "running", "abandoned"}
  /\ cb.pc = "idle"
  /\ runtime[r].emitted < EmitLimit
  /\ event.epoch <= runtime[r].epoch \/ MovesAccount(event.type)
  /\ runtime' = [runtime EXCEPT
       ![r].emitted = @ + 1,
       ![r].epoch = IF event.epoch > @ THEN event.epoch ELSE @]
  /\ cb' = IF alive /\ generation # 0
           THEN [pc |-> "reserve", generation |-> generation, event |-> event]
           ELSE CbIdle
  /\ UNCHANGED <<alive, starting, generation, started, handle, failed, queued, startup,
                 loop, account, gui, last>>

\* Room for one more event of this size.
Fits(size) == queued.bytes + size <= ByteLimit /\ queued.events < EventLimit

Dropped == CbIdle  \* mutant: a refused event is forgotten

\* The first event that does not fit asks the GUI thread to stop.
Refused == IF failed THEN CbIdle ELSE [cb EXCEPT !.pc = "postStop"]

Reserve ==
  /\ cb.pc = "reserve"
  /\ IF Fits(cb.event.size)
     THEN /\ queued' = [events |-> queued.events + 1, bytes |-> queued.bytes + cb.event.size]
          /\ cb' = [cb EXCEPT !.pc = "post"]
          /\ UNCHANGED failed
     ELSE /\ cb' = Refused
          /\ failed' = TRUE
          /\ UNCHANGED queued
  /\ UNCHANGED <<alive, starting, generation, started, handle, startup, loop, account,
                 gui, runtime, last>>

Posted ==
  IF cb.pc = "post"
  THEN [call |-> "event", generation |-> cb.generation, event |-> cb.event]
  ELSE [call |-> "overflow", generation |-> cb.generation]

Post ==
  /\ cb.pc \in {"post", "postStop"}
  /\ loop' = Append(loop, Posted)
  /\ cb' = CbIdle
  /\ UNCHANGED <<alive, starting, generation, started, handle, failed, queued, startup,
                 account, gui, runtime, last>>

(***************************************************************************)
(* The GUI thread: posted calls.                                           *)
(***************************************************************************)
Takes(call) == GuiFree /\ loop # <<>> /\ Head(loop).call = call /\ loop' = Tail(loop)

AnyGeneration(g) == TRUE  \* mutant: posted calls never go stale
StillActive(g) == generation = g

EventOnly(size) == [queued EXCEPT !.events = @ - 1]  \* mutant: the bytes leak
Released(size) == [events |-> queued.events - 1, bytes |-> queued.bytes - size]

OneTooMany(event) == Len(startup) > EventLimit  \* mutant: off by one

\* The events held while starting and this one are more than may be held.
TooMany(event) ==
  \/ Len(startup) >= EventLimit
  \/ FoldLeft(LAMBDA n, held : n + held.size, event.size, startup) > ByteLimit

\* An event of an earlier generation is dropped; one that comes while starting
\* is held back, or stops the start when too many are.
RunEvent ==
  /\ Takes("event")
  /\ LET event == Head(loop).event IN
     /\ queued' = Released(event.size)
     /\ \/ /\ ~StillActive(Head(loop).generation)
           /\ UNCHANGED <<generation, handle, startup, account, gui, last>>
        \/ /\ StillActive(Head(loop).generation) /\ starting
           /\ IF TooMany(event) THEN BeginStop
              ELSE startup' = Append(startup, event) /\ UNCHANGED <<generation, handle, gui>>
           /\ UNCHANGED <<account, last>>
        \/ /\ StillActive(Head(loop).generation) /\ ~starting
           /\ Deliver(<<event>>)
           /\ UNCHANGED <<generation, handle, startup, gui>>
  /\ UNCHANGED <<alive, starting, started, failed, cb, runtime>>

RunOverflow ==
  /\ Takes("overflow")
  /\ IF StillActive(Head(loop).generation) THEN BeginStop
     ELSE UNCHANGED <<generation, handle, startup, gui>>
  /\ UNCHANGED <<alive, starting, started, failed, queued, account, cb, runtime, last>>

LeftRunning(r) == Phase(r, "running")  \* mutant: nobody stops the runtime
Abandoned(r) == Phase(r, "abandoned")

\* The start was called off meanwhile: the handle is abandoned, and the
\* completion of startAsync is dropped with the call.
StartCancelled ==
  /\ Takes("started")
  /\ ~StillActive(Head(loop).generation)
  /\ starting' = FALSE
  /\ IF Head(loop).ok THEN Abandoned(Head(loop).generation) ELSE UNCHANGED runtime
  /\ UNCHANGED <<alive, generation, started, handle, failed, queued, startup, account,
                 cb, gui, last>>

\* runningChanged(true), the events held back, and completion with a result.
StartSucceeded ==
  /\ Takes("started")
  /\ StillActive(Head(loop).generation) /\ Head(loop).ok
  /\ starting' = FALSE
  /\ handle' = Head(loop).generation
  /\ Phase(Head(loop).generation, "running")
  /\ Deliver(startup)
  /\ startup' = <<>>
  /\ UNCHANGED <<alive, generation, started, failed, queued, cb, gui>>

\* Completion with an error.
StartFailed ==
  /\ Takes("started")
  /\ StillActive(Head(loop).generation) /\ ~Head(loop).ok
  /\ starting' = FALSE
  /\ generation' = 0
  /\ UNCHANGED <<alive, started, handle, failed, queued, startup, account, cb, gui,
                 runtime, last>>

RuntimeSide ==
  \/ \E r \in Runtime : \/ \E ok \in BOOLEAN : KodosiStarts(r, ok)
                        \/ StopAbandoned(r)
                        \/ \E event \in Emission(r) : Emit(r, event)
  \/ Reserve \/ Post

PostedCalls == RunEvent \/ RunOverflow \/ StartCancelled \/ StartSucceeded \/ StartFailed

Next == StartAsync \/ Stop \/ Destroy \/ Joined \/ PostedCalls \/ RuntimeSide

Spec == Init /\ [][Next]_bridgeVars

(***************************************************************************)
(* Properties.                                                             *)
(***************************************************************************)
InLoop(call) == {i \in DOMAIN loop : loop[i].call = call}

\* The two counters hold exactly the events that are posted or about to be: the
\* bound on the queue neither leaks nor loosens over refusals and restarts.
CountersExact ==
  alive => LET held == IF cb.pc = "post" THEN cb.event.size ELSE 0 IN
    /\ queued.events = Cardinality(InLoop("event")) + (IF cb.pc = "post" THEN 1 ELSE 0)
    /\ queued.bytes = held + FoldLeft(LAMBDA n, c : IF c.call = "event" THEN n + c.event.size
                                                    ELSE n, 0, loop)

\* What is delivered of a runtime has no gap: after an event that found no room
\* nothing more of that runtime is delivered, however the queue drains.
NoGap == ~last.gap

\* Nothing is delivered in the name of a runtime other than the one started.
OwnEvents == last.foreign = {}

\* An event that passes the fence is of the account the bridge is then at, and
\* stamps its commands with, and that account's epoch never falls while the
\* runtime runs, although events of an earlier account still arrive.
AccountFenced == ~last.stray

\* No runtime is left running without an owner: each is installed or stopped in
\* the end, even when its start was called off or the bridge is gone.
RuntimesOwned ==
  \A r \in Runtime : runtime[r].phase = "returned" ~>
    runtime[r].phase = "stopped" \/ handle = r
================================================================================
