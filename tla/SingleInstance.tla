---------------------------- MODULE SingleInstance ----------------------------
(***************************************************************************)
(* One Kodosi per runtime directory (src/app/SingleInstanceGuard.cpp, and   *)
(* src/app/main.cpp, which starts, serves and quits).                       *)
(*                                                                         *)
(* Processes started by the user contend for a file lock.  The one that     *)
(* gets it is the owner: it removes a socket left by a predecessor, shows   *)
(* its window and publishes a socket of its own.  Every other process       *)
(* forwards what it was started for, its activation, to the socket it       *)
(* finds, and tries everything again, the lock first, until a deadline.     *)
(*                                                                         *)
(* A step is a system call of a process, or a handler of the owner's event  *)
(* loop cut where another process can tell.  Any process may be killed at   *)
(* any moment: the system then frees its lock and closes its connections,   *)
(* and its socket stays in the directory.                                   *)
(*                                                                         *)
(* A process lives once and has one activation, so a request id is the      *)
(* process that made it.  External: flock, and connecting to, closing and   *)
(* removing sockets of the file system; what was written before a socket    *)
(* was closed can still be read.  Left out: peers that are not Kodosi, and  *)
(* frames that are too long or malformed, which only those send.            *)
(***************************************************************************)
EXTENDS Naturals, Sequences, FiniteSets, SequencesExt

CONSTANTS
  Process,        \* the processes ever started
  None,           \* no process
  Routed,         \* those started with a link to a session
  Misrouted,      \* those started with a link that names none
  Tokened,        \* those the desktop gave an activation token
  MaximumClients, \* connections accepted at a time (MaximumActiveClients)
  Remembered,     \* requests remembered (maximumRememberedRequests)
  AttemptLimit,   \* bound: attempts until the deadline of a start has passed
  CrashLimit,     \* bound: processes killed
  LossLimit       \* bound: waits for an answer that fail before the deadline

ASSUME ConstantsAssumption ==
  /\ None \notin Process
  /\ {Routed, Misrouted, Tokened} \subseteq SUBSET Process
  /\ Routed \cap Misrouted = {}
  /\ {MaximumClients, Remembered, AttemptLimit} \subseteq Nat \ {0}
  /\ {CrashLimit, LossLimit} \subseteq Nat

VARIABLES
  pc,         \* where each process is
  attempts,   \* attempts each process has made
  lock,       \* external: the process that holds the file lock
  endpoint,   \* external: the process whose socket is at the endpoint's path
  links,      \* external: connections, one per attempt that reached a socket
  order,      \* rememberedOrder (and rememberedRequests, its elements) of each process
  acted,      \* history: the activations each process acted on, in order
  answerer,   \* history: the process that acknowledged each process's activation
  crashes,    \* processes killed so far
  losses      \* waits failed so far

vars == <<pc, attempts, lock, endpoint, links, order, acted,
          answerer, crashes, losses>>

-----------------------------------------------------------------------------
(* An activation, and its way through a frame.                              *)

Kind == {"activate", "route", "invalid"}
Activation == [requestId : Process, kind : Kind, sessionId : {"", "session"},
               parseError : 0 .. 1, token : {"", "token"}]

\* What process p was started for.
ActivationOf(p) ==
  [requestId  |-> p,
   kind       |-> IF p \in Routed THEN "route" ELSE IF p \in Misrouted THEN "invalid" ELSE "activate",
   sessionId  |-> IF p \in Routed THEN "session" ELSE "",
   parseError |-> IF p \in Misrouted THEN 1 ELSE 0,
   token      |-> IF p \in Tokened THEN "token" ELSE ""]

\* The JSON object sent: each kind has fields of its own.
Sent(a) ==
  {"version", "requestId", "kind"}
    \cup (IF a.kind = "route" THEN {"sessionId"} ELSE {})
    \cup (IF a.kind = "invalid" THEN {"parseError"} ELSE {})
    \cup (IF a.token # "" THEN {"activationToken"} ELSE {})

Encode(a) ==
  [field \in Sent(a) |->
    CASE field = "version" -> 1
      [] field = "activationToken" -> a.token
      [] OTHER -> a[field]]

\* The fields an object of its kind must have, no more and no less.
Fields(o) ==
  {"version", "requestId", "kind"}
    \cup (IF o.kind = "route" THEN {"sessionId"} ELSE {})
    \cup (IF o.kind = "invalid" THEN {"parseError"} ELSE {})
    \cup (IF "activationToken" \in DOMAIN o THEN {"activationToken"} ELSE {})

Decodable(o) == DOMAIN o = Fields(o) /\ (o.kind = "invalid" => o.parseError >= 1)

\* mutant: the token is checked and left behind
DecodeWithoutToken(o) ==
  [requestId  |-> o.requestId,
   kind       |-> o.kind,
   sessionId  |-> IF o.kind = "route" THEN o.sessionId ELSE "",
   parseError |-> IF o.kind = "invalid" THEN o.parseError ELSE 0,
   token      |-> ""]

Decode(o) ==
  [requestId  |-> o.requestId,
   kind       |-> o.kind,
   sessionId  |-> IF o.kind = "route" THEN o.sessionId ELSE "",
   parseError |-> IF o.kind = "invalid" THEN o.parseError ELSE 0,
   token      |-> IF "activationToken" \in DOMAIN o THEN o.activationToken ELSE ""]

-----------------------------------------------------------------------------
Contending == {"locking", "looking", "checking", "connecting", "writing", "waiting"}
Owning     == {"clearing", "owner", "serving", "acting", "leaving", "releasing"}
Listening  == {"serving", "acting", "leaving"}
Running    == Contending \cup Owning
Ended      == {"forwarded", "failed", "gone", "crashed"}

\* at: where the connection is on the side of the server; data: the request
\* is written; open: the client still waits on it
Link == [client : Process, attempt : 1 .. AttemptLimit, server : Process,
         at : {"backlog", "accepted", "answered", "rejected"},
         data : BOOLEAN, open : BOOLEAN]

TypeOK ==
  /\ pc \in [Process -> {"unborn"} \cup Running \cup Ended]
  /\ attempts \in [Process -> 0 .. AttemptLimit]
  /\ lock \in Process \cup {None}
  /\ endpoint \in Process \cup {None}
  /\ links \subseteq Link
  /\ order \in [Process -> Seq(Process)]
  /\ \A p \in Process : Len(order[p]) <= Remembered /\ IsInjective(order[p])
  /\ \A s \in Process :
       Cardinality({k \in links : k.server = s /\ k.at = "accepted"}) <= MaximumClients
  /\ acted \in [Process -> Seq(Activation)]
  /\ answerer \in [Process -> Process \cup {None}]
  /\ crashes \in 0 .. CrashLimit
  /\ losses \in 0 .. LossLimit

Init ==
  /\ pc = [p \in Process |-> "unborn"]
  /\ attempts = [p \in Process |-> 0]
  /\ lock = None
  /\ endpoint = None
  /\ links = {}
  /\ order = [p \in Process |-> << >>]
  /\ acted = [p \in Process |-> << >>]
  /\ answerer = [p \in Process |-> None]
  /\ crashes = 0
  /\ losses = 0

Goto(p, where) == pc' = [pc EXCEPT ![p] = where]

\* The connection process p waits on, if the server has not closed it.
LinkOf(p) == {k \in links : k.client = p /\ k.open}

\* What is left of connection k at the server when the client closes its end.
HungUp(k) == IF k.at \in {"answered", "rejected"} THEN {} ELSE {[k EXCEPT !.open = FALSE]}

\* The client p closes its end.
HangUp(p) ==
  links' = (links \ LinkOf(p)) \cup UNION {HungUp(k) : k \in LinkOf(p)}

\* An attempt is over: another one from the start, unless the deadline passed.
Again(p) ==
  \/ attempts[p] < AttemptLimit /\ Goto(p, "locking")
  \/ Goto(p, "failed")

-----------------------------------------------------------------------------
(* start                                                                    *)

\* The process is launched.  The runtime directory or the lock file may be
\* unsafe: then it gives up at once.
Launch(p) ==
  /\ pc[p] = "unborn"
  /\ Goto(p, "locking") \/ Goto(p, "failed")
  /\ UNCHANGED <<attempts, lock, endpoint, links, order, acted, answerer, crashes, losses>>

\* flock(LOCK_EX | LOCK_NB)
TryLock(p) ==
  /\ pc[p] = "locking"
  /\ attempts' = [attempts EXCEPT ![p] = @ + 1]
  /\ IF lock = None
       THEN lock' = p /\ Goto(p, "clearing")
       ELSE UNCHANGED lock /\ Goto(p, "looking")
  /\ UNCHANGED <<endpoint, links, order, acted, answerer, crashes, losses>>

\* The owner removes what a predecessor left at the endpoint; when that fails
\* it gives the lock back.
ClearStale(p) ==
  /\ pc[p] = "clearing"
  /\ \/ endpoint' = None /\ Goto(p, "owner") /\ UNCHANGED lock
     \/ endpoint # None /\ lock' = None /\ Goto(p, "failed") /\ UNCHANGED endpoint
  /\ UNCHANGED <<attempts, links, order, acted, answerer, crashes, losses>>

\* forward: is there anything at the endpoint?
Look(p) ==
  /\ pc[p] = "looking"
  /\ IF endpoint = None THEN Again(p) ELSE Goto(p, "checking")
  /\ UNCHANGED <<attempts, lock, endpoint, links, order, acted, answerer, crashes, losses>>

\* forward: is it a private socket?  It is asked of the path a second time, so
\* what has gone meanwhile is refused as unsafe.
Check(p) ==
  /\ pc[p] = "checking"
  /\ IF endpoint = None THEN Goto(p, "failed") ELSE Goto(p, "connecting")
  /\ UNCHANGED <<attempts, lock, endpoint, links, order, acted, answerer, crashes, losses>>

Connect(p) ==
  /\ pc[p] = "connecting"
  /\ \/ /\ endpoint # None
        /\ pc[endpoint] \in Listening
        /\ links' = links \cup {[client |-> p, attempt |-> attempts[p], server |-> endpoint,
                                 at |-> "backlog", data |-> FALSE, open |-> TRUE]}
        /\ Goto(p, "writing")
     \/ Again(p) /\ UNCHANGED links
  /\ UNCHANGED <<attempts, lock, endpoint, order, acted, answerer, crashes, losses>>

Write(p) ==
  /\ pc[p] = "writing"
  /\ \E k \in LinkOf(p) : links' = (links \ {k}) \cup {[k EXCEPT !.data = TRUE]}
  /\ Goto(p, "waiting")
  /\ UNCHANGED <<attempts, lock, endpoint, order, acted, answerer, crashes, losses>>

\* The answer is there: {ok: true}, for a fresh request and for a duplicate,
\* ends the process well; {ok: false} ends it with an error.
Answered(p) ==
  /\ pc[p] = "waiting"
  /\ \E k \in LinkOf(p) :
       /\ k.at \in {"answered", "rejected"}
       /\ links' = links \ {k}
       /\ IF k.at = "answered"
            THEN Goto(p, "forwarded") /\ answerer' = [answerer EXCEPT ![p] = k.server]
            ELSE Goto(p, "failed") /\ UNCHANGED answerer
  /\ UNCHANGED <<attempts, lock, endpoint, order, acted, crashes, losses>>

\* The server closed the connection without an answer, or died.
Dropped(p) ==
  /\ pc[p] \in {"writing", "waiting"}
  /\ LinkOf(p) = {}
  /\ Again(p)
  /\ UNCHANGED <<attempts, lock, endpoint, links, order, acted, answerer, crashes, losses>>

\* Writing or waiting fails: at the deadline, or with time left for another attempt.
GiveUp(p) ==
  /\ pc[p] \in {"writing", "waiting"}
  /\ LinkOf(p) # {}
  /\ HangUp(p)
  /\ \/ Goto(p, "failed") /\ UNCHANGED losses
     \/ /\ losses < LossLimit
        /\ losses' = losses + 1
        /\ attempts[p] < AttemptLimit
        /\ Goto(p, "locking")
  /\ UNCHANGED <<attempts, lock, endpoint, order, acted, answerer, crashes>>

-----------------------------------------------------------------------------
(* The owner                                                                *)

\* The owner starts up, acts on its own activation, and publishes a socket;
\* or it fails to, at any point of it, and gives up what it has.
Publish(p) ==
  /\ pc[p] = "owner"
  /\ \/ /\ acted' = [acted EXCEPT ![p] = <<ActivationOf(p)>>]
        /\ endpoint' = p
        /\ Goto(p, "serving")
        /\ UNCHANGED lock
     \/ /\ endpoint' = None
        /\ lock' = None
        /\ Goto(p, "failed")
        /\ UNCHANGED acted
  /\ UNCHANGED <<attempts, links, order, answerer, crashes, losses>>

\* mutant: counts the connections after the new one
RoomCountedLate(s) ==
  Cardinality({k \in links : k.server = s /\ k.at = "accepted"}) <= MaximumClients

Room(s) ==
  Cardinality({k \in links : k.server = s /\ k.at = "accepted"}) < MaximumClients

\* acceptConnections: a connection too many is aborted.
Accept(s) ==
  /\ pc[s] = "serving"
  /\ \E k \in links :
       /\ k.server = s /\ k.at = "backlog"
       /\ links' = (links \ {k}) \cup (IF Room(s) THEN {[k EXCEPT !.at = "accepted"]} ELSE {})
  /\ UNCHANGED <<pc, attempts, lock, endpoint, order, acted, answerer, crashes, losses>>

\* mutant: forgets the newest request
EvictingNewest(s, id) ==
  IF Len(order[s]) < Remembered THEN Append(order[s], id) ELSE order[s]

\* remember: the oldest request is forgotten for a new one too many.
Remembering(s, id) ==
  LET longer == Append(order[s], id)
  IN  IF Len(longer) > Remembered THEN Tail(longer) ELSE longer

\* readyRead: the request is remembered and answered, and then, in the same
\* handler, acted on when it is fresh.  The slot is free again once the
\* answer is written.
Receive(s) ==
  /\ pc[s] = "serving"
  /\ \E k \in links :
       /\ k.server = s /\ k.at = "accepted" /\ k.data
       /\ LET understood == Decodable(Encode(ActivationOf(k.client)))
              answer == [k EXCEPT !.at = IF understood THEN "answered" ELSE "rejected"]
          IN  /\ links' = (links \ {k}) \cup (IF k.open THEN {answer} ELSE {})
              /\ IF understood /\ ~Contains(order[s], k.client)
                   THEN /\ order' = [order EXCEPT ![s] = Remembering(s, k.client)]
                        /\ Goto(s, "acting")
                   ELSE UNCHANGED <<pc, order>>
  /\ UNCHANGED <<attempts, lock, endpoint, acted, answerer, crashes, losses>>

\* The signal: the window is raised, the link routed or its error shown.  The
\* handler still holds the request it remembered last.
Act(s) ==
  /\ pc[s] = "acting"
  /\ acted' = [acted EXCEPT ![s] = Append(@, Decode(Encode(ActivationOf(Last(order[s])))))]
  /\ Goto(s, "serving")
  /\ UNCHANGED <<attempts, lock, endpoint, links, order, answerer, crashes, losses>>

\* The three seconds of a client are over, its request not read; or it has
\* hung up without one.
ReleaseClient(s) ==
  /\ pc[s] = "serving"
  /\ \E k \in links :
       /\ k.server = s /\ k.at = "accepted"
       /\ links' = links \ {k}
  /\ UNCHANGED <<pc, attempts, lock, endpoint, order, acted, answerer, crashes, losses>>

\* The event loop ends.
Quit(s) ==
  /\ pc[s] = "serving"
  /\ Goto(s, "leaving")
  /\ UNCHANGED <<attempts, lock, endpoint, links, order, acted, answerer, crashes, losses>>

\* What is left of the connections when their server's end is closed.
WithoutServer(s) == {k \in links : k.server = s => k.at \in {"answered", "rejected"}}

\* mutant: the lock is closed before the endpoint is removed
LockFirst(s) ==
  \/ /\ pc[s] = "leaving"
     /\ lock' = None
     /\ links' = WithoutServer(s)
     /\ Goto(s, "releasing")
     /\ UNCHANGED endpoint
  \/ /\ pc[s] = "releasing"
     /\ endpoint' = None
     /\ Goto(s, "gone")
     /\ UNCHANGED <<links, lock>>

\* releaseOwnership: closeEndpoint closes the server and removes whatever is
\* at the path; then the lock is closed.
ReleaseOwnership(s) ==
  \/ /\ pc[s] = "leaving"
     /\ links' = WithoutServer(s)
     /\ endpoint' = None
     /\ Goto(s, "releasing")
     /\ UNCHANGED lock
  \/ /\ pc[s] = "releasing"
     /\ lock' = None
     /\ Goto(s, "gone")
     /\ UNCHANGED <<links, endpoint>>

Leave(s) ==
  /\ ReleaseOwnership(s)
  /\ UNCHANGED <<attempts, order, acted, answerer, crashes, losses>>

\* A process is killed.
Crash(p) ==
  /\ crashes < CrashLimit
  /\ crashes' = crashes + 1
  /\ pc[p] \in Running
  /\ Goto(p, "crashed")
  /\ lock' = IF lock = p THEN None ELSE lock
  /\ links' = (WithoutServer(p) \ LinkOf(p)) \cup UNION {HungUp(k) : k \in LinkOf(p)}
  /\ UNCHANGED <<attempts, endpoint, order, acted, answerer, losses>>

Contend(p) ==
  \/ Launch(p) \/ TryLock(p) \/ ClearStale(p) \/ Look(p) \/ Check(p) \/ Connect(p)
  \/ Write(p) \/ Answered(p) \/ Dropped(p) \/ GiveUp(p)

Serve(s) ==
  \/ Publish(s) \/ Accept(s) \/ Receive(s) \/ Act(s) \/ ReleaseClient(s)
  \/ Quit(s) \/ Leave(s)

Next == \E p \in Process : Contend(p) \/ Serve(p) \/ Crash(p)

Spec == Init /\ [][Next]_vars

-----------------------------------------------------------------------------
(* Properties                                                               *)

\* Between taking the lock and giving it back a process is the only one, and
\* while it serves the socket at the endpoint is its own: neither a late
\* predecessor nor an early successor removes it.
OneOwner ==
  \A p \in Process :
    /\ pc[p] \in Owning => lock = p
    /\ pc[p] \in Listening => endpoint = p

\* A process acts on a request again only when it has acted on as many others
\* in between as it remembers: a client that resends what was answered and
\* not heard, from a new connection or an abandoned one, is answered only.
ActedOnce ==
  \A p \in Process : \A i, j \in DOMAIN acted[p] :
    (i < j /\ acted[p][i].requestId = acted[p][j].requestId) => j - i > Remembered

\* A process that ends as forwarded has been understood: the owner that
\* acknowledged acted on the very activation it was started for, is about
\* to, or was killed before it could.  And nothing Kodosi sends is rejected.
ForwardedIsActedOn ==
  /\ \A p \in Process : pc[p] = "forwarded" =>
       LET s == answerer[p]
       IN  \/ Contains(acted[s], ActivationOf(p))
           \/ pc[s] = "acting" /\ Last(order[s]) = p
           \/ pc[s] = "crashed"
  /\ \A k \in links : k.at # "rejected"
=============================================================================
