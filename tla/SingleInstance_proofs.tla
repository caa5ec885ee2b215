------------------------- MODULE SingleInstance_proofs -------------------------
(***************************************************************************)
(* Theorems about SingleInstance, for any number of processes and any       *)
(* limits.  That there is one owner, with its own socket at the endpoint,   *)
(* is inductive once it is said both ways: the lock is held by the process  *)
(* that is between taking it and giving it back, and by no other.  That a   *)
(* forwarded activation is acted on needs the same of everything a process  *)
(* may rely on for it; that none is acted on twice, that the memory of a    *)
(* server is a window on what it has acted on.  The limits in the types     *)
(* come last: what a client does to a connection never makes one more.      *)
(***************************************************************************)
EXTENDS SingleInstance, FiniteSetTheorems, TLAPS

-----------------------------------------------------------------------------
(* One owner.                                                               *)

Place == {"unborn"} \cup Running \cup Ended

\* Where a process is says whether it holds the lock, and the socket of one
\* that listens is at the endpoint.
LockMatches ==
  /\ pc \in [Process -> Place]
  /\ \A p \in Process : pc[p] \in Owning <=> lock = p
  /\ \A p \in Process : pc[p] \in Listening => endpoint = p

USE DEF Goto, Place, Running, Ended, Contending, Owning, Listening

\* Before anything is started nobody holds the lock.
LEMMA LockInit == Init => LockMatches
BY ConstantsAssumption DEF Init, LockMatches, ConstantsAssumption

\* Starting, taking the lock and forwarding (start and forward) keep it: the lock
\* is taken only when it is free, and who looks for the owner has none.
LEMMA ContendKeeps ==
  ASSUME LockMatches, NEW p \in Process, Contend(p)
  PROVE  LockMatches'
<1>1. CASE Launch(p)
  BY <1>1 DEF Launch, LockMatches
<1>2. CASE TryLock(p)
  BY <1>2, ConstantsAssumption DEF TryLock, LockMatches, ConstantsAssumption
<1>3. CASE ClearStale(p)
  BY <1>3, ConstantsAssumption DEF ClearStale, LockMatches, ConstantsAssumption
<1>4. CASE Look(p)
  BY <1>4 DEF Look, Again, LockMatches
<1>5. CASE Check(p)
  BY <1>5 DEF Check, LockMatches
<1>6. CASE Connect(p)
  BY <1>6 DEF Connect, Again, LockMatches
<1>7. CASE Write(p)
  BY <1>7 DEF Write, LockMatches
<1>8. CASE Answered(p)
  BY <1>8 DEF Answered, LockMatches
<1>9. CASE Dropped(p)
  BY <1>9 DEF Dropped, Again, LockMatches
<1>10. CASE GiveUp(p)
  BY <1>10 DEF GiveUp, LockMatches
<1> QED
  BY <1>1, <1>2, <1>3, <1>4, <1>5, <1>6, <1>7, <1>8, <1>9, <1>10 DEF Contend

\* Serving and leaving (publishEndpoint, the handlers and releaseOwnership) keep
\* it: the endpoint is removed while the lock is held, the lock given back last.
LEMMA ServeKeeps ==
  ASSUME LockMatches, NEW p \in Process, Serve(p)
  PROVE  LockMatches'
<1>1. CASE Publish(p)
  BY <1>1, ConstantsAssumption DEF Publish, LockMatches, ConstantsAssumption
<1>2. CASE Accept(p)
  BY <1>2 DEF Accept, LockMatches
<1>3. CASE Receive(p)
  BY <1>3 DEF Receive, LockMatches
<1>4. CASE Act(p)
  BY <1>4 DEF Act, LockMatches
<1>5. CASE ReleaseClient(p)
  BY <1>5 DEF ReleaseClient, LockMatches
<1>6. CASE Quit(p)
  BY <1>6 DEF Quit, LockMatches
<1>7. CASE Leave(p)
  BY <1>7, ConstantsAssumption DEF Leave, ReleaseOwnership, LockMatches, ConstantsAssumption
<1> QED
  BY <1>1, <1>2, <1>3, <1>4, <1>5, <1>6, <1>7 DEF Serve

\* A process that is killed loses the lock at once.
LEMMA CrashKeeps ==
  ASSUME LockMatches, NEW p \in Process, Crash(p)
  PROVE  LockMatches'
BY ConstantsAssumption DEF Crash, LockMatches, ConstantsAssumption

\* The lock is held by the process between taking it and giving it back (start,
\* releaseOwnership), and by no other.
THEOREM LockInvariant == Spec => []LockMatches
<1>1. LockMatches /\ [Next]_vars => LockMatches'
  <2> SUFFICES ASSUME LockMatches, [Next]_vars PROVE LockMatches'
    OBVIOUS
  <2>1. CASE Next
    BY <2>1, ContendKeeps, ServeKeeps, CrashKeeps DEF Next
  <2>2. CASE UNCHANGED vars
    BY <2>2 DEF vars, LockMatches
  <2> QED
    BY <2>1, <2>2
<1> QED
  BY LockInit, <1>1, PTL DEF Spec

\* However many processes are started, quit and are killed, at most one owns,
\* and while it serves the socket at the endpoint is its own
\* (SingleInstanceGuard::start, publishEndpoint and releaseOwnership).
THEOREM OneOwnerAlways == Spec => []OneOwner
<1>1. LockMatches => OneOwner
  BY DEF LockMatches, OneOwner
<1> QED
  BY LockInvariant, <1>1, PTL

-----------------------------------------------------------------------------
(* A forwarded activation is acted on.                                      *)

\* Before a process serves.
Early == {"unborn", "clearing", "owner"} \cup Contending
Connection == [client : Process, attempt : Nat, server : Process,
               at : {"backlog", "accepted", "answered", "rejected"},
               data : BOOLEAN, open : BOOLEAN]

\* What the other parts need of the types; attempts need no bound here.
Shapes ==
  /\ pc \in [Process -> Place]
  /\ attempts \in [Process -> Nat]
  /\ endpoint \in Process \cup {None}
  /\ links \subseteq Connection
  /\ order \in [Process -> Seq(Process)]
  /\ acted \in [Process -> Seq(Activation)]
  /\ answerer \in [Process -> Process \cup {None}]

\* The process s has acted on what c was started for, is acting on it, or was
\* killed and may have been about to.
Heard(s, c) ==
  \/ Contains(acted[s], ActivationOf(c))
  \/ pc[s] = "acting" /\ Last(order[s]) = c
  \/ pc[s] = "crashed"

\* Whoever may take a request for settled is right: the client that ended as
\* forwarded, the answer on its way, and the memory of the server, which answers
\* a duplicate without another look.
Accounted ==
  /\ \A p \in Process : pc[p] = "forwarded" => answerer[p] \in Process /\ Heard(answerer[p], p)
  /\ \A k \in links : k.at # "rejected" /\ (k.at = "answered" => Heard(k.server, k.client))
  /\ \A s, c \in Process : Contains(order[s], c) => Heard(s, c)
  /\ \A s \in Process : pc[s] = "acting" => order[s] # << >>
  /\ \A s \in Process : pc[s] \in Early => acted[s] = << >>

Inv == Shapes /\ Accounted

USE DEF Early

\* An answer on a connection was there before.
LinksFollow ==
  \A k \in links' :
    /\ k \in Connection
    /\ k.at \in {"answered", "rejected"} =>
         \E j \in links : j.at = k.at /\ j.server = k.server /\ j.client = k.client

\* What is sent for an activation is accepted, and read as that activation
\* (encodeActivation, decodeActivation).
LEMMA CodecFaithful ==
  ASSUME NEW p \in Process
  PROVE  /\ Decodable(Encode(ActivationOf(p)))
         /\ Decode(Encode(ActivationOf(p))) = ActivationOf(p)
<1> DEFINE a == ActivationOf(p)
           o == Encode(a)
<1>1. /\ a.requestId = p
      /\ a.kind \in Kind
      /\ a.kind # "route" => a.sessionId = ""
      /\ a.kind = "invalid" => a.parseError = 1
      /\ a.kind # "invalid" => a.parseError = 0
      /\ a = [requestId |-> a.requestId, kind |-> a.kind, sessionId |-> a.sessionId,
              parseError |-> a.parseError, token |-> a.token]
  BY ConstantsAssumption DEF ActivationOf, Kind, ConstantsAssumption
<1>2. /\ DOMAIN o = Sent(a)
      /\ o["requestId"] = a.requestId /\ o["kind"] = a.kind
      /\ a.kind = "route" => o["sessionId"] = a.sessionId
      /\ a.kind = "invalid" => o["parseError"] = a.parseError
      /\ a.token # "" => o["activationToken"] = a.token
  BY <1>1 DEF Encode, Sent
<1> HIDE DEF o, a
<1>3. o.requestId = a.requestId /\ o.kind = a.kind
  BY <1>2
<1>4. "activationToken" \in DOMAIN o <=> a.token # ""
  BY <1>2 DEF Sent
<1>5. Decodable(o)
  <2>1. Fields(o) = Sent(a)
    BY <1>3, <1>4 DEF Fields, Sent
  <2>2. a.kind = "invalid" => o.parseError = 1
    BY <1>1, <1>2
  <2>3. DOMAIN o = Fields(o)
    BY <1>2, <2>1
  <2>4. o.kind = "invalid" => o.parseError >= 1
    BY <1>3, <2>2
  <2> QED
    BY <2>3, <2>4 DEF Decodable
<1>6. Decode(o) = a
  BY <1>1, <1>2, <1>3, <1>4 DEF Decode
<1> QED
  BY <1>5, <1>6 DEF o, a

\* What a process was started for is an activation.
LEMMA ActivationShape == ASSUME NEW p \in Process PROVE ActivationOf(p) \in Activation
BY DEF ActivationOf, Activation, Kind

\* A step that only moves a process, and neither remembers nor acts nor answers,
\* unsettles nothing.
LEMMA Quiet ==
  ASSUME Inv, NEW p \in Process, NEW to \in Place,
         pc' = [pc EXCEPT ![p] = to],
         pc[p] \notin {"acting", "crashed"},
         to \notin {"acting", "forwarded"},
         to \in Early => pc[p] \in Early,
         LinksFollow,
         UNCHANGED <<order, acted, answerer>>
  PROVE  Accounted'
<1>1. \A s, c \in Process : Heard(s, c) => Heard(s, c)'
  BY DEF Heard, Inv, Shapes
<1>2. (\A q \in Process : pc[q] = "forwarded" => answerer[q] \in Process /\ Heard(answerer[q], q))'
  BY <1>1 DEF Inv, Shapes, Accounted
<1>3. (\A k \in links : k.at # "rejected" /\ (k.at = "answered" => Heard(k.server, k.client)))'
  <2> SUFFICES ASSUME NEW k \in links'
               PROVE  k.at # "rejected" /\ (k.at = "answered" => Heard(k.server, k.client)')
    OBVIOUS
  <2>1. k.server \in Process /\ k.client \in Process
    BY DEF LinksFollow, Connection
  <2> QED
    BY <1>1, <2>1 DEF LinksFollow, Inv, Accounted
<1>4. (\A s, c \in Process : Contains(order[s], c) => Heard(s, c))'
  BY <1>1 DEF Inv, Shapes, Accounted
<1>5. (\A s \in Process : pc[s] = "acting" => order[s] # << >>)'
  BY DEF Inv, Shapes, Accounted
<1>6. (\A s \in Process : pc[s] \in Early => acted[s] = << >>)'
  BY DEF Inv, Shapes, Accounted
<1> QED
  BY <1>2, <1>3, <1>4, <1>5, <1>6 DEF Accounted

\* What is left of a connection whose client hangs up carries no answer.
LEMMA Cut ==
  ASSUME Inv, NEW p \in Process
  PROVE  /\ LinkOf(p) \subseteq links
         /\ \A k \in links : HungUp(k) \subseteq Connection
         /\ \A k \in links : \A j \in HungUp(k) : j.at \notin {"answered", "rejected"}
BY DEF LinkOf, HungUp, Inv, Shapes, Connection

\* Forwarding (start, forward) takes for settled only what was answered.
LEMMA ContendAccounts ==
  ASSUME Inv, NEW p \in Process, Contend(p)
  PROVE  Inv'
<1> USE DEF LinksFollow
<1>1. CASE Launch(p)
  <2>1. Accounted'
    BY <1>1, Quiet DEF Launch, Inv, Shapes
  <2> QED
    BY <1>1, <2>1 DEF Launch, Inv, Shapes
<1>2. CASE TryLock(p)
  <2>1. Accounted'
    BY <1>2, Quiet DEF TryLock, Inv, Shapes
  <2>2. attempts' \in [Process -> Nat]
    BY <1>2 DEF TryLock, Inv, Shapes
  <2>3. pc' \in [Process -> Place]
    BY <1>2 DEF TryLock, Inv, Shapes
  <2> QED
    BY <1>2, <2>1, <2>2, <2>3 DEF TryLock, Inv, Shapes
<1>3. CASE ClearStale(p)
  <2>1. Accounted'
    BY <1>3, Quiet DEF ClearStale, Inv, Shapes
  <2> QED
    BY <1>3, <2>1 DEF ClearStale, Inv, Shapes
<1>4. CASE Look(p)
  <2>1. Accounted'
    BY <1>4, Quiet DEF Look, Again, Inv, Shapes
  <2> QED
    BY <1>4, <2>1 DEF Look, Again, Inv, Shapes
<1>5. CASE Check(p)
  <2>1. Accounted'
    BY <1>5, Quiet DEF Check, Inv, Shapes
  <2> QED
    BY <1>5, <2>1 DEF Check, Inv, Shapes
<1>6. CASE Connect(p)
  <2> DEFINE new == [client |-> p, attempt |-> attempts[p], server |-> endpoint,
                     at |-> "backlog", data |-> FALSE, open |-> TRUE]
  <2>0. \/ links' = links
        \/ endpoint # None /\ links' = links \cup {new}
    BY <1>6 DEF Connect
  <2>1. links' \subseteq Connection
    <3>1. endpoint # None => new \in Connection
      BY DEF Inv, Shapes, Connection
    <3> QED
      BY <2>0, <3>1 DEF Inv, Shapes
  <2>2. LinksFollow
    BY <2>0, <2>1
  <2>3. Accounted'
    BY <1>6, <2>2, Quiet DEF Connect, Again, Inv, Shapes
  <2> QED
    BY <1>6, <2>1, <2>3 DEF Connect, Again, Inv, Shapes
<1>7. CASE Write(p)
  <2>1. PICK k \in LinkOf(p) : links' = (links \ {k}) \cup {[k EXCEPT !.data = TRUE]}
    BY <1>7 DEF Write
  <2>2. k \in links /\ k \in Connection
    BY Cut DEF Inv, Shapes
  <2>3. [k EXCEPT !.data = TRUE] \in Connection
    BY <2>2 DEF Connection
  <2>4. LinksFollow
    <3>1. /\ [k EXCEPT !.data = TRUE].at = k.at
          /\ [k EXCEPT !.data = TRUE].server = k.server
          /\ [k EXCEPT !.data = TRUE].client = k.client
      BY <2>2 DEF Connection
    <3> QED
      BY <2>1, <2>2, <2>3, <3>1 DEF Inv, Shapes
  <2>5. /\ pc' = [pc EXCEPT ![p] = "waiting"] /\ pc[p] = "writing"
        /\ UNCHANGED <<order, acted, answerer>>
    BY <1>7 DEF Write
  <2>6. Accounted'
    BY <2>4, <2>5, Quiet
  <2> QED
    BY <1>7, <2>4, <2>5, <2>6 DEF Write, Inv, Shapes
<1>8. CASE Answered(p)
  <2>1. PICK k \in LinkOf(p) :
          /\ k.at \in {"answered", "rejected"}
          /\ links' = links \ {k}
          /\ IF k.at = "answered"
               THEN Goto(p, "forwarded") /\ answerer' = [answerer EXCEPT ![p] = k.server]
               ELSE Goto(p, "failed") /\ UNCHANGED answerer
    BY <1>8 DEF Answered
  <2>2. k \in links /\ k \in Connection /\ k.client = p /\ k.server \in Process
    BY Cut DEF LinkOf, Inv, Shapes, Connection
  <2>3. k.at = "answered" /\ Heard(k.server, p)
    BY <2>1, <2>2 DEF Inv, Accounted
  <2>4. /\ pc' = [pc EXCEPT ![p] = "forwarded"]
        /\ answerer' = [answerer EXCEPT ![p] = k.server]
        /\ pc[p] = "waiting"
        /\ UNCHANGED <<order, acted>>
    BY <1>8, <2>1, <2>3 DEF Answered
  <2>5. Shapes'
    BY <1>8, <2>1, <2>2, <2>4 DEF Answered, Inv, Shapes
  <2>6. \A s, c \in Process : Heard(s, c) => Heard(s, c)'
    BY <2>4 DEF Heard, Inv, Shapes
  <2>7. (\A q \in Process : pc[q] = "forwarded" => answerer[q] \in Process /\ Heard(answerer[q], q))'
    BY <2>2, <2>3, <2>4, <2>6 DEF Inv, Shapes, Accounted
  <2>8. (\A j \in links : j.at # "rejected" /\ (j.at = "answered" => Heard(j.server, j.client)))'
    BY <2>1, <2>6 DEF Inv, Shapes, Accounted, Connection
  <2>9. (\A s, c \in Process : Contains(order[s], c) => Heard(s, c))'
    BY <2>4, <2>6 DEF Inv, Shapes, Accounted
  <2>10. (\A s \in Process : pc[s] = "acting" => order[s] # << >>)'
    BY <2>4 DEF Inv, Shapes, Accounted
  <2>11. (\A s \in Process : pc[s] \in Early => acted[s] = << >>)'
    BY <2>4 DEF Inv, Shapes, Accounted
  <2> QED
    BY <2>5, <2>7, <2>8, <2>9, <2>10, <2>11 DEF Inv, Accounted
<1>9. CASE Dropped(p)
  <2>1. Accounted'
    BY <1>9, Quiet DEF Dropped, Again, Inv, Shapes
  <2> QED
    BY <1>9, <2>1 DEF Dropped, Again, Inv, Shapes
<1>10. CASE GiveUp(p)
  <2>1. links' = (links \ LinkOf(p)) \cup UNION {HungUp(k) : k \in LinkOf(p)}
    BY <1>10 DEF GiveUp, HangUp
  <2>2. LinksFollow
    BY <2>1, Cut DEF Inv, Shapes
  <2>3. Accounted'
    BY <1>10, <2>2, Quiet DEF GiveUp, Inv, Shapes
  <2> QED
    BY <1>10, <2>2, <2>3 DEF GiveUp, Inv, Shapes
<1> QED
  BY <1>1, <1>2, <1>3, <1>4, <1>5, <1>6, <1>7, <1>8, <1>9, <1>10 DEF Contend

\* remember puts the request last and brings in no other.
LEMMA RememberingKeeps ==
  ASSUME Shapes, NEW s \in Process, NEW id \in Process
  PROVE  /\ Remembering(s, id) \in Seq(Process)
         /\ Remembering(s, id) # << >>
         /\ Last(Remembering(s, id)) = id
         /\ \A c : Contains(Remembering(s, id), c) => c = id \/ Contains(order[s], c)
<1> DEFINE n == Len(order[s])
           longer == Append(order[s], id)
<1>1. /\ order[s] \in Seq(Process)
      /\ n \in Nat
      /\ Remembered \in Nat \ {0}
  BY ConstantsAssumption DEF Shapes, ConstantsAssumption
<1>2. /\ longer \in Seq(Process)
      /\ Len(longer) = n + 1
      /\ longer[n + 1] = id
      /\ \A i \in 1 .. n : longer[i] = order[s][i]
  BY <1>1
<1>3. CASE n + 1 > Remembered
  <2>1. Remembering(s, id) = Tail(longer)
    BY <1>2, <1>3 DEF Remembering
  <2>2. /\ Tail(longer) \in Seq(Process)
        /\ Len(Tail(longer)) = n
        /\ n >= 1
        /\ \A i \in 1 .. n : Tail(longer)[i] = longer[i + 1]
    BY <1>1, <1>2, <1>3
  <2> HIDE DEF longer
  <2>3. Tail(longer) # << >> /\ Last(Tail(longer)) = id
    BY <1>1, <1>2, <2>2 DEF Last
  <2>4. \A c : Contains(Tail(longer), c) => c = id \/ Contains(order[s], c)
    BY <1>1, <1>2, <2>2 DEF Contains
  <2> QED
    BY <2>1, <2>2, <2>3, <2>4
<1>4. CASE ~(n + 1 > Remembered)
  <2>1. Remembering(s, id) = longer
    BY <1>2, <1>4 DEF Remembering
  <2> HIDE DEF longer
  <2>2. longer # << >> /\ Last(longer) = id
    BY <1>1, <1>2 DEF Last
  <2>3. \A c : Contains(longer, c) => c = id \/ Contains(order[s], c)
    BY <1>1, <1>2 DEF Contains
  <2> QED
    BY <1>2, <2>1, <2>2, <2>3
<1> QED
  BY <1>3, <1>4

\* A longer sequence holds what it held, and its new element.
LEMMA AppendContains ==
  ASSUME NEW S, NEW seq \in Seq(S), NEW e \in S
  PROVE  /\ Contains(Append(seq, e), e)
         /\ \A d : Contains(seq, d) => Contains(Append(seq, e), d)
BY DEF Contains

\* Serving answers what it has remembered to act on, or has acted on before
\* (the handler of readyRead, remember).
LEMMA ServeAccounts ==
  ASSUME Inv, NEW s \in Process, Serve(s)
  PROVE  Inv'
<1>1. CASE Publish(s)
  <2>1. ActivationOf(s) \in Activation
    BY ActivationShape
  <2>2. Shapes'
    <3>1. pc' \in [Process -> Place] /\ endpoint' \in Process \cup {None}
      BY <1>1 DEF Publish, Inv, Shapes
    <3>2. acted' \in [Process -> Seq(Activation)]
      <4>1. <<ActivationOf(s)>> \in Seq(Activation)
        BY <2>1
      <4> QED
        BY <1>1, <4>1 DEF Publish, Inv, Shapes
    <3> QED
      BY <1>1, <3>1, <3>2 DEF Publish, Inv, Shapes
  <2>3. pc[s] = "owner" /\ acted[s] = << >>
    BY <1>1 DEF Publish, Inv, Accounted
  <2>4. \A q, c \in Process : Heard(q, c) => Heard(q, c)'
    <3> SUFFICES ASSUME NEW q \in Process, NEW c \in Process, Heard(q, c)
                 PROVE  Heard(q, c)'
      OBVIOUS
    <3>1. q # s
      BY <2>3 DEF Heard, Contains
    <3> QED
      BY <1>1, <3>1 DEF Publish, Heard, Inv, Shapes
  <2>5. Accounted'
    <3>1. /\ UNCHANGED <<links, order, answerer>>
          /\ \A q \in Process : q # s => pc'[q] = pc[q] /\ acted'[q] = acted[q]
          /\ pc'[s] \in {"serving", "failed"}
      BY <1>1 DEF Publish, Inv, Shapes
    <3>2. (\A q \in Process : pc[q] = "forwarded" => answerer[q] \in Process /\ Heard(answerer[q], q))'
      BY <2>4, <3>1 DEF Inv, Shapes, Accounted
    <3>3. (\A k \in links : k.at # "rejected" /\ (k.at = "answered" => Heard(k.server, k.client)))'
      BY <2>4, <3>1 DEF Inv, Shapes, Accounted, Connection
    <3>4. (\A q, c \in Process : Contains(order[q], c) => Heard(q, c))'
      BY <2>4, <3>1 DEF Inv, Accounted
    <3>5. (\A q \in Process : pc[q] = "acting" => order[q] # << >>)'
      BY <3>1 DEF Inv, Accounted
    <3>6. (\A q \in Process : pc[q] \in Early => acted[q] = << >>)'
      BY <3>1 DEF Inv, Accounted
    <3> QED
      BY <3>2, <3>3, <3>4, <3>5, <3>6 DEF Accounted
  <2> QED
    BY <2>2, <2>5 DEF Inv
<1>2. CASE Accept(s)
  <2>1. PICK k \in links :
          links' = (links \ {k}) \cup (IF Room(s) THEN {[k EXCEPT !.at = "accepted"]} ELSE {})
    BY <1>2 DEF Accept
  <2>2. k \in Connection
    BY DEF Inv, Shapes
  <2>3. [k EXCEPT !.at = "accepted"] \in Connection /\ [k EXCEPT !.at = "accepted"].at = "accepted"
    BY <2>2 DEF Connection
  <2>4. LinksFollow
    BY <2>1, <2>3 DEF LinksFollow, Inv, Shapes
  <2>5. pc' = [pc EXCEPT ![s] = "serving"] /\ pc[s] = "serving" /\ UNCHANGED <<order, acted, answerer>>
    BY <1>2 DEF Accept, Inv, Shapes
  <2>6. Accounted'
    BY <2>4, <2>5, Quiet
  <2> QED
    BY <1>2, <2>4, <2>6 DEF Accept, LinksFollow, Inv, Shapes
<1>3. CASE Receive(s)
  <2>1. PICK k \in links :
          /\ k.server = s /\ k.at = "accepted" /\ k.data
          /\ LET understood == Decodable(Encode(ActivationOf(k.client)))
                 answer == [k EXCEPT !.at = IF understood THEN "answered" ELSE "rejected"]
             IN  /\ links' = (links \ {k}) \cup (IF k.open THEN {answer} ELSE {})
                 /\ IF understood /\ ~Contains(order[s], k.client)
                      THEN /\ order' = [order EXCEPT ![s] = Remembering(s, k.client)]
                           /\ Goto(s, "acting")
                      ELSE UNCHANGED <<pc, order>>
    BY <1>3 DEF Receive
  <2> DEFINE c == k.client
             answer == [k EXCEPT !.at = "answered"]
  <2>2. k \in Connection /\ c \in Process /\ k.server = s
    BY <2>1 DEF Inv, Shapes, Connection
  <2>3. Decodable(Encode(ActivationOf(c)))
    BY <2>2, CodecFaithful
  <2>4. /\ links' = (links \ {k}) \cup (IF k.open THEN {answer} ELSE {})
        /\ \/ /\ ~Contains(order[s], c)
              /\ order' = [order EXCEPT ![s] = Remembering(s, c)]
              /\ pc' = [pc EXCEPT ![s] = "acting"]
           \/ Contains(order[s], c) /\ UNCHANGED <<pc, order>>
    BY <2>1, <2>3
  <2>5. /\ pc[s] = "serving"
        /\ UNCHANGED <<attempts, lock, endpoint, acted, answerer>>
    BY <1>3 DEF Receive
  <2>6. answer \in Connection /\ answer.at = "answered" /\ answer.server = s /\ answer.client = c
    BY <2>2 DEF Connection
  <2>7. /\ Remembering(s, c) \in Seq(Process)
        /\ Remembering(s, c) # << >>
        /\ Last(Remembering(s, c)) = c
        /\ \A d : Contains(Remembering(s, c), d) => d = c \/ Contains(order[s], d)
    BY <2>2, RememberingKeeps DEF Inv
  <2> HIDE DEF c, answer
  <2>8. Shapes'
    <3>1. links' \subseteq Connection
      BY <2>4, <2>6 DEF Inv, Shapes
    <3>2. order' \in [Process -> Seq(Process)] /\ pc' \in [Process -> Place]
      BY <2>4, <2>7 DEF Inv, Shapes
    <3> QED
      BY <2>5, <3>1, <3>2 DEF Inv, Shapes
  <2>9. \A q, d \in Process : Heard(q, d) => Heard(q, d)'
    BY <2>4, <2>5 DEF Heard, Inv, Shapes
  <2>10. Heard(s, c)'
    <3>1. CASE Contains(order[s], c)
      BY <2>2, <2>9, <3>1 DEF Inv, Accounted
    <3>2. CASE ~Contains(order[s], c)
      <4>1. pc'[s] = "acting" /\ order'[s] = Remembering(s, c)
        BY <2>4, <3>2 DEF Inv, Shapes
      <4> QED
        BY <2>7, <4>1 DEF Heard
    <3> QED
      BY <3>1, <3>2
  <2>11. (\A q \in Process : pc[q] = "forwarded" => answerer[q] \in Process /\ Heard(answerer[q], q))'
    BY <2>4, <2>5, <2>9 DEF Inv, Shapes, Accounted
  <2>12. (\A j \in links : j.at # "rejected" /\ (j.at = "answered" => Heard(j.server, j.client)))'
    <3> SUFFICES ASSUME NEW j \in links'
                 PROVE  j.at # "rejected" /\ (j.at = "answered" => Heard(j.server, j.client)')
      OBVIOUS
    <3>1. CASE j = answer
      BY <2>6, <2>10, <3>1
    <3>2. CASE j \in links
      BY <2>9, <3>2 DEF Inv, Shapes, Accounted, Connection
    <3> QED
      BY <2>4, <3>1, <3>2
  <2>13. (\A q, d \in Process : Contains(order[q], d) => Heard(q, d))'
    <3> SUFFICES ASSUME NEW q \in Process, NEW d \in Process, Contains(order'[q], d)
                 PROVE  Heard(q, d)'
      BY DEF Contains
    <3>1. (q = s /\ d = c) \/ Contains(order[q], d)
      BY <2>4, <2>7 DEF Inv, Shapes
    <3> QED
      BY <2>9, <2>10, <3>1 DEF Inv, Accounted
  <2>14. (\A q \in Process : pc[q] = "acting" => order[q] # << >>)'
    BY <2>4, <2>5, <2>7 DEF Inv, Shapes, Accounted
  <2>15. (\A q \in Process : pc[q] \in Early => acted[q] = << >>)'
    BY <2>4, <2>5 DEF Inv, Shapes, Accounted
  <2> QED
    BY <2>8, <2>11, <2>12, <2>13, <2>14, <2>15 DEF Inv, Accounted
<1>4. CASE Act(s)
  <2> DEFINE c == Last(order[s])
  <2>1. c \in Process
    BY <1>4 DEF Act, Inv, Shapes, Accounted, Last
  <2>2. Decode(Encode(ActivationOf(c))) = ActivationOf(c) /\ ActivationOf(c) \in Activation
    BY <2>1, CodecFaithful, ActivationShape
  <2>3. /\ acted' = [acted EXCEPT ![s] = Append(acted[s], ActivationOf(c))]
        /\ pc' = [pc EXCEPT ![s] = "serving"]
        /\ pc[s] = "acting"
        /\ UNCHANGED <<attempts, lock, endpoint, links, order, answerer>>
    BY <1>4, <2>2 DEF Act
  <2>4. acted[s] \in Seq(Activation)
    BY DEF Inv, Shapes
  <2> DEFINE longer == Append(acted[s], ActivationOf(c))
  <2>5. /\ longer \in Seq(Activation)
        /\ Contains(longer, ActivationOf(c))
        /\ \A d : Contains(acted[s], d) => Contains(longer, d)
    BY <2>2, <2>4, AppendContains
  <2>6. acted' = [acted EXCEPT ![s] = longer]
    BY <2>3
  <2> HIDE DEF longer
  <2>7. Shapes'
    BY <2>3, <2>5, <2>6 DEF Inv, Shapes
  <2>8. \A q, d \in Process : Heard(q, d) => Heard(q, d)'
    <3> SUFFICES ASSUME NEW q \in Process, NEW d \in Process, Heard(q, d)
                 PROVE  Heard(q, d)'
      OBVIOUS
    <3>1. CASE q = s
      <4>1. acted'[s] = longer
        BY <2>6 DEF Inv, Shapes
      <4>2. Contains(acted[s], ActivationOf(d)) \/ d = c
        BY <2>3, <3>1 DEF Heard
      <4> QED
        BY <2>5, <3>1, <4>1, <4>2 DEF Heard
    <3>2. CASE q # s
      BY <2>3, <3>2 DEF Heard, Inv, Shapes
    <3> QED
      BY <3>1, <3>2
  <2> HIDE DEF c
  <2>9. (\A q \in Process : pc[q] = "forwarded" => answerer[q] \in Process /\ Heard(answerer[q], q))'
    BY <2>3, <2>8 DEF Inv, Shapes, Accounted
  <2>10. (\A k \in links : k.at # "rejected" /\ (k.at = "answered" => Heard(k.server, k.client)))'
    BY <2>3, <2>8 DEF Inv, Shapes, Accounted, Connection
  <2>11. (\A q, d \in Process : Contains(order[q], d) => Heard(q, d))'
    BY <2>3, <2>8 DEF Inv, Accounted
  <2>12. (\A q \in Process : pc[q] = "acting" => order[q] # << >>)'
    BY <2>3 DEF Inv, Shapes, Accounted
  <2>13. (\A q \in Process : pc[q] \in Early => acted[q] = << >>)'
    BY <2>3 DEF Inv, Shapes, Accounted
  <2> QED
    BY <2>7, <2>9, <2>10, <2>11, <2>12, <2>13 DEF Inv, Accounted
<1>5. CASE ReleaseClient(s)
  <2>1. LinksFollow
    BY <1>5 DEF ReleaseClient, LinksFollow, Inv, Shapes
  <2>2. pc' = [pc EXCEPT ![s] = "serving"] /\ pc[s] = "serving" /\ UNCHANGED <<order, acted, answerer>>
    BY <1>5 DEF ReleaseClient, Inv, Shapes
  <2>3. Accounted'
    BY <2>1, <2>2, Quiet
  <2> QED
    BY <1>5, <2>1, <2>3 DEF ReleaseClient, LinksFollow, Inv, Shapes
<1>6. CASE Quit(s)
  <2>0. LinksFollow
    BY <1>6 DEF Quit, LinksFollow, Inv, Shapes
  <2>1. Accounted'
    BY <1>6, <2>0, Quiet DEF Quit
  <2> QED
    BY <1>6, <2>1 DEF Quit, Inv, Shapes
<1>7. CASE Leave(s)
  <2>1. links' \subseteq links
    BY <1>7 DEF Leave, ReleaseOwnership, WithoutServer
  <2>2. Accounted'
    BY <1>7, <2>1, Quiet DEF Leave, ReleaseOwnership, LinksFollow, Inv, Shapes
  <2> QED
    BY <1>7, <2>1, <2>2 DEF Leave, ReleaseOwnership, Inv, Shapes
<1> QED
  BY <1>1, <1>2, <1>3, <1>4, <1>5, <1>6, <1>7 DEF Serve

\* A process that is killed leaves no claim that it was heard but its answers.
LEMMA CrashAccounts ==
  ASSUME Inv, NEW p \in Process, Crash(p)
  PROVE  Inv'
<1>1. /\ pc' = [pc EXCEPT ![p] = "crashed"]
      /\ pc[p] \in Running
      /\ UNCHANGED <<attempts, endpoint, order, acted, answerer>>
  BY DEF Crash
<1>2. LinksFollow
  <2>1. links' = (WithoutServer(p) \ LinkOf(p)) \cup UNION {HungUp(k) : k \in LinkOf(p)}
    BY DEF Crash
  <2>2. WithoutServer(p) \subseteq links
    BY DEF WithoutServer
  <2> QED
    BY <2>1, <2>2, Cut DEF LinksFollow, Inv, Shapes
<1>3. Shapes'
  BY <1>1, <1>2 DEF LinksFollow, Inv, Shapes
<1>4. \A q, c \in Process : Heard(q, c) => Heard(q, c)'
  BY <1>1 DEF Heard, Inv, Shapes
<1>5. (\A q \in Process : pc[q] = "forwarded" => answerer[q] \in Process /\ Heard(answerer[q], q))'
  BY <1>1, <1>4 DEF Inv, Shapes, Accounted
<1>6. (\A k \in links : k.at # "rejected" /\ (k.at = "answered" => Heard(k.server, k.client)))'
  <2> SUFFICES ASSUME NEW k \in links'
               PROVE  k.at # "rejected" /\ (k.at = "answered" => Heard(k.server, k.client)')
    OBVIOUS
  <2>1. k.server \in Process /\ k.client \in Process
    BY <1>2 DEF LinksFollow, Connection
  <2> QED
    BY <1>2, <1>4, <2>1 DEF LinksFollow, Inv, Accounted
<1>7. (\A s, c \in Process : Contains(order[s], c) => Heard(s, c))'
  BY <1>1, <1>4 DEF Inv, Accounted
<1>8. (\A s \in Process : pc[s] = "acting" => order[s] # << >>)'
  BY <1>1 DEF Inv, Shapes, Accounted
<1>9. (\A s \in Process : pc[s] \in Early => acted[s] = << >>)'
  BY <1>1 DEF Inv, Shapes, Accounted
<1> QED
  BY <1>3, <1>5, <1>6, <1>7, <1>8, <1>9 DEF Inv, Accounted

\* Every reachable state is well formed and accounts for what was answered
\* (the handler of readyRead, remember).
THEOREM AccountedInvariant == Spec => []Inv
<1>1. Init => Inv
  BY DEF Init, Inv, Shapes, Accounted, Heard, Contains
<1>2. Inv /\ [Next]_vars => Inv'
  <2> SUFFICES ASSUME Inv, [Next]_vars PROVE Inv'
    OBVIOUS
  <2>1. CASE Next
    BY <2>1, ContendAccounts, ServeAccounts, CrashAccounts DEF Next
  <2>2. CASE UNCHANGED vars
    BY <2>2 DEF vars, Inv, Shapes, Accounted, Heard
  <2> QED
    BY <2>1, <2>2
<1> QED
  BY <1>1, <1>2, PTL DEF Spec

\* However many processes are started and killed, one that ends as forwarded was
\* heard, and none is rejected (forward, encodeActivation, decodeActivation).
THEOREM ForwardedIsActedOnAlways == Spec => []ForwardedIsActedOn
<1>1. Inv => ForwardedIsActedOn
  BY DEF Inv, Accounted, Heard, ForwardedIsActedOn
<1> QED
  BY AccountedInvariant, <1>1, PTL

-----------------------------------------------------------------------------
(* A request is acted on once.                                             *)

\* The ids a process has acted on or is about to, the first its own; and its
\* memory: the last of them, as many as it may keep or all but the first.
Recent(own, ids, kept) ==
  /\ Len(ids) >= 1
  /\ ids[1] = own
  /\ Len(kept) <= Remembered
  /\ Len(kept) <= Len(ids) - 1
  /\ Len(kept) = Remembered \/ Len(kept) = Len(ids) - 1
  /\ \A j \in 1 .. Len(kept) : ids[Len(ids) - Len(kept) + j] = kept[j]
  /\ \A i, j \in 1 .. Len(ids) : (i < j /\ ids[i] = ids[j]) => j - i > Remembered

\* The ids acted on, and with the one being acted on.
Taken(s) == [i \in 1 .. Len(acted[s]) |-> acted[s][i].requestId]
Ids(s) == IF pc[s] = "acting" THEN Append(Taken(s), Last(order[s])) ELSE Taken(s)
Window(s) == Recent(s, Ids(s), order[s])

\* No process forwards to itself, none remembers before it serves, and while it
\* serves its memory is a window on what it acted on.
Once ==
  /\ \A k \in links : k.client # k.server
  /\ \A s \in Process : pc[s] \in Early => order[s] = << >>
  /\ \A s \in Process : pc[s] \in {"serving", "acting"} => Window(s)
  /\ ActedOnce

\* A step that neither remembers nor acts keeps every window.
LEMMA QuietOnce ==
  ASSUME Inv, Once, NEW p \in Process, NEW to \in Place,
         pc' = [pc EXCEPT ![p] = to],
         to \in {"serving", "acting"} => to = pc[p],
         to \in Early => pc[p] \in Early,
         \A k \in links' : k.client # k.server,
         UNCHANGED <<order, acted>>
  PROVE  Once'
<1>1. \A s \in Process : pc'[s] \in {"serving", "acting"} => pc'[s] = pc[s]
  BY DEF Inv, Shapes
<1>2. \A s \in Process : pc'[s] = pc[s] /\ Window(s) => Window(s)'
  <2> SUFFICES ASSUME NEW s \in Process, pc'[s] = pc[s], Window(s)
               PROVE  Window(s)'
    OBVIOUS
  <2>1. Ids(s)' = Ids(s)
    BY DEF Ids, Taken
  <2> QED
    BY <2>1 DEF Window
<1>3. ActedOnce'
  BY DEF Once, ActedOnce
<1>4. \A s \in Process : pc'[s] \in Early => pc[s] \in Early
  BY DEF Inv, Shapes
<1> QED
  BY <1>1, <1>2, <1>3, <1>4 DEF Once

\* What is left of a connection has the same ends.
LEMMA Ends ==
  ASSUME Inv, Once, NEW p \in Process
  PROVE  \A k \in links : \A j \in HungUp(k) : j.client # j.server
BY DEF HungUp, Inv, Shapes, Connection, Once

\* Starting and forwarding open connections to other processes only.
LEMMA ContendOnce ==
  ASSUME Inv, Once, NEW p \in Process, Contend(p)
  PROVE  Once'
<1> USE DEF Once
<1>0. PICK to \in Place : pc' = [pc EXCEPT ![p] = to] /\ to \in Early \cup {"forwarded", "failed"}
  BY DEF Contend, Launch, TryLock, ClearStale, Look, Check, Connect, Write, Answered, Dropped, GiveUp, Again
<1>1. pc[p] \in Early /\ UNCHANGED <<order, acted>>
  BY DEF Contend, Launch, TryLock, ClearStale, Look, Check, Connect, Write, Answered, Dropped, GiveUp
<1>2. \A k \in links' : k.client # k.server
  <2>1. CASE Connect(p)
    <3> DEFINE new == [client |-> p, attempt |-> attempts[p], server |-> endpoint,
                       at |-> "backlog", data |-> FALSE, open |-> TRUE]
    <3>1. \/ links' = links
          \/ p # endpoint /\ links' = links \cup {new}
      BY <2>1 DEF Connect
    <3>2. new.client = p /\ new.server = endpoint
      OBVIOUS
    <3> HIDE DEF new
    <3> QED
      BY <3>1, <3>2
  <2>2. CASE Write(p)
    <3>1. PICK k \in LinkOf(p) : links' = (links \ {k}) \cup {[k EXCEPT !.data = TRUE]}
      BY <2>2 DEF Write
    <3>2. k \in links /\ k \in Connection
      BY Cut DEF Inv, Shapes
    <3>3. [k EXCEPT !.data = TRUE].server = k.server /\ [k EXCEPT !.data = TRUE].client = k.client
      BY <3>2 DEF Connection
    <3> QED
      BY <3>1, <3>2, <3>3
  <2>3. CASE GiveUp(p)
    BY <2>3, Cut, Ends DEF GiveUp, HangUp
  <2>4. CASE Answered(p)
    BY <2>4 DEF Answered
  <2>5. CASE UNCHANGED links
    BY <2>5
  <2> QED
    BY <2>1, <2>2, <2>3, <2>4, <2>5
       DEF Contend, Launch, TryLock, ClearStale, Look, Check, Dropped
<1> QED
  BY <1>0, <1>1, <1>2, QuietOnce

\* Recent, from its lengths by name.
LEMMA RecentBy ==
  ASSUME NEW own, NEW ids \in Seq(Process), NEW kept \in Seq(Process),
         NEW n \in Nat, NEW m \in Nat, Len(ids) = n, Len(kept) = m,
         n >= 1, ids[1] = own, m <= Remembered, m <= n - 1,
         m = Remembered \/ m = n - 1,
         \A j \in 1 .. m : ids[n - m + j] = kept[j],
         \A i, j \in 1 .. n : (i < j /\ ids[i] = ids[j]) => j - i > Remembered
  PROVE  Recent(own, ids, kept)
BY DEF Recent

\* A request that is not remembered was acted on, if ever, longer ago than the
\* memory reaches; remembered, it keeps the memory a window (remember).
LEMMA RecentGrows ==
  ASSUME NEW own \in Process, NEW c \in Process, c # own,
         NEW ids \in Seq(Process), NEW kept \in Seq(Process),
         Recent(own, ids, kept), ~Contains(kept, c),
         NEW new, new = IF Len(Append(kept, c)) > Remembered THEN Tail(Append(kept, c)) ELSE Append(kept, c)
  PROVE  Recent(own, Append(ids, c), new)
<1>0. Remembered \in Nat \ {0}
  BY ConstantsAssumption DEF ConstantsAssumption
<1> PICK n \in Nat : Len(ids) = n
  OBVIOUS
<1> PICK m \in Nat : Len(kept) = m
  OBVIOUS
<1>1. /\ n >= 1
      /\ ids[1] = own
      /\ m <= Remembered
      /\ m <= n - 1
      /\ m = Remembered \/ m = n - 1
      /\ \A j \in 1 .. m : ids[n - m + j] = kept[j]
      /\ \A i, j \in 1 .. n : (i < j /\ ids[i] = ids[j]) => j - i > Remembered
  BY DEF Recent
<1>2. \A i \in 1 .. n : ids[i] = c => n + 1 - i > Remembered
  <2> SUFFICES ASSUME NEW i \in 1 .. n, ids[i] = c
               PROVE  n + 1 - i > Remembered
    OBVIOUS
  <2>1. i # 1
    BY <1>1
  <2>2. ~(i > n - m)
    <3> SUFFICES ASSUME i > n - m PROVE FALSE
      OBVIOUS
    <3>1. i - (n - m) \in 1 .. m /\ n - m + (i - (n - m)) = i
      BY <1>1
    <3>2. kept[i - (n - m)] = c
      BY <1>1, <3>1
    <3> QED
      BY <3>1, <3>2 DEF Contains
  <2> QED
    BY <1>0, <1>1, <2>1, <2>2
<1> DEFINE longer == Append(kept, c)
           all == Append(ids, c)
<1>3. /\ longer \in Seq(Process)
      /\ Len(longer) = m + 1
      /\ longer[m + 1] = c
      /\ \A i \in 1 .. m : longer[i] = kept[i]
  OBVIOUS
<1>4. /\ all \in Seq(Process)
      /\ Len(all) = n + 1
      /\ all[n + 1] = c
      /\ \A i \in 1 .. n : all[i] = ids[i]
  OBVIOUS
<1>5. CASE m + 1 > Remembered
  <2>1. new = Tail(longer)
    BY <1>3, <1>5
  <2> HIDE DEF longer, all
  <2>2. /\ Len(new) = m
        /\ \A i \in 1 .. m : new[i] = longer[i + 1]
    BY <1>3, <2>1
  <2>3. m = Remembered
    BY <1>0, <1>1, <1>5
  <2>4. \A j \in 1 .. m : all[n + 1 - m + j] = new[j]
    <3> SUFFICES ASSUME NEW j \in 1 .. m PROVE all[n + 1 - m + j] = new[j]
      OBVIOUS
    <3>1. CASE j = m
      BY <1>3, <1>4, <2>2, <3>1
    <3>2. CASE j # m
      <4>1. j + 1 \in 1 .. m /\ n - m + (j + 1) \in 1 .. n /\ n - m + (j + 1) = n + 1 - m + j
        BY <1>1, <3>2
      <4> QED
        BY <1>1, <1>3, <1>4, <2>2, <4>1
    <3> QED
      BY <3>1, <3>2
  <2>5. \A i, j \in 1 .. n + 1 : (i < j /\ all[i] = all[j]) => j - i > Remembered
    BY <1>0, <1>1, <1>2, <1>4
  <2>6. new \in Seq(Process)
    BY <1>3, <2>1
  <2>7. Recent(own, all, new)
    <3>1. PICK a \in Nat : a = n + 1
      OBVIOUS
    <3>2. a >= 1 /\ all[1] = own /\ m <= Remembered /\ m <= a - 1
      BY <1>1, <1>4, <3>1
    <3>3. \A j \in 1 .. m : all[a - m + j] = new[j]
      <4> SUFFICES ASSUME NEW j \in 1 .. m PROVE all[a - m + j] = new[j]
        OBVIOUS
      <4>1. a - m + j = n + 1 - m + j
        BY <3>1
      <4>2. all[n + 1 - m + j] = new[j]
        BY <2>4
      <4> QED
        BY <4>1, <4>2
    <3>4. \A i, j \in 1 .. a : (i < j /\ all[i] = all[j]) => j - i > Remembered
      BY <2>5, <3>1
    <3>5. Len(all) = a /\ all \in Seq(Process)
      BY <1>4, <3>1
    <3> QED
      BY <2>2, <2>3, <2>6, <3>2, <3>3, <3>4, <3>5, RecentBy
  <2> QED
    BY <2>7 DEF all
<1>6. CASE ~(m + 1 > Remembered)
  <2>1. new = longer
    BY <1>3, <1>6
  <2> HIDE DEF longer, all
  <2>2. m = n - 1
    BY <1>0, <1>1, <1>6
  <2>3. \A j \in 1 .. m + 1 : all[n + 1 - (m + 1) + j] = new[j]
    <3> SUFFICES ASSUME NEW j \in 1 .. m + 1 PROVE all[n + 1 - (m + 1) + j] = new[j]
      OBVIOUS
    <3>1. CASE j = m + 1
      <4>1. n + 1 - (m + 1) + j = n + 1
        BY <3>1
      <4>2. new[j] = c
        BY <1>3, <2>1, <3>1
      <4> QED
        BY <1>4, <4>1, <4>2
    <3>2. CASE j # m + 1
      <4>1. j \in 1 .. m /\ n - m + j \in 1 .. n /\ n - m + j = n + 1 - (m + 1) + j
        BY <1>1, <3>2
      <4>2. all[n - m + j] = kept[j]
        BY <1>1, <1>4, <4>1
      <4>3. new[j] = kept[j]
        BY <1>3, <2>1, <4>1
      <4> QED
        BY <4>1, <4>2, <4>3
    <3> QED
      BY <3>1, <3>2
  <2>4. \A i, j \in 1 .. n + 1 : (i < j /\ all[i] = all[j]) => j - i > Remembered
    BY <1>0, <1>1, <1>2, <1>4
  <2>5. Len(new) = m + 1 /\ new \in Seq(Process)
    BY <1>3, <2>1
  <2>6. Recent(own, all, new)
    <3>1. PICK a \in Nat : a = n + 1
      OBVIOUS
    <3>2. PICK b \in Nat : b = m + 1
      OBVIOUS
    <3>3. a >= 1 /\ all[1] = own /\ b <= Remembered /\ b <= a - 1 /\ b = a - 1
      BY <1>0, <1>1, <1>4, <1>6, <2>2, <3>1, <3>2
    <3>4. \A j \in 1 .. b : all[a - b + j] = new[j]
      <4> SUFFICES ASSUME NEW j \in 1 .. b PROVE all[a - b + j] = new[j]
        OBVIOUS
      <4>1. a - b + j = n + 1 - (m + 1) + j
        BY <3>1, <3>2
      <4>2. all[n + 1 - (m + 1) + j] = new[j]
        BY <2>3, <3>2
      <4> QED
        BY <4>1, <4>2
    <3>5. \A i, j \in 1 .. a : (i < j /\ all[i] = all[j]) => j - i > Remembered
      BY <2>4, <3>1
    <3>6. Len(all) = a /\ all \in Seq(Process) /\ Len(new) = b
      BY <1>4, <2>5, <3>1, <3>2
    <3> QED
      BY <2>5, <3>3, <3>4, <3>5, <3>6, RecentBy
  <2> QED
    BY <2>6 DEF all
<1> QED
  BY <1>5, <1>6

\* As many ids as activations.
LEMMA TakenShape ==
  ASSUME Inv, NEW s \in Process
  PROVE  Taken(s) \in Seq(Process) /\ Len(Taken(s)) = Len(acted[s])
<1>1. acted[s] \in Seq(Activation)
  BY DEF Inv, Shapes
<1>2. \A i \in 1 .. Len(acted[s]) : acted[s][i].requestId \in Process
  <2>1. \A i \in 1 .. Len(acted[s]) : acted[s][i] \in Activation
    BY <1>1
  <2> QED
    BY <2>1 DEF Activation
<1> QED
  BY <1>1, <1>2 DEF Taken

\* A fresh request slides the window (readyRead).
LEMMA ReceiveOnce ==
  ASSUME Inv, Once, NEW s \in Process, NEW c \in Process, c # s,
         pc[s] = "serving", ~Contains(order[s], c),
         pc' = [pc EXCEPT ![s] = "acting"],
         order' = [order EXCEPT ![s] = Remembering(s, c)],
         UNCHANGED acted
  PROVE  Window(s)'
<1>1. /\ Taken(s) \in Seq(Process) /\ Ids(s) = Taken(s) /\ Window(s)
      /\ order[s] \in Seq(Process)
  BY TakenShape DEF Ids, Once, Inv, Shapes
<1>2. order'[s] = Remembering(s, c) /\ pc'[s] = "acting" /\ acted'[s] = acted[s]
  BY DEF Inv, Shapes
<1>3. Ids(s)' = Append(Taken(s), c)
  <2>1. Taken(s)' = Taken(s)
    BY <1>2 DEF Taken
  <2>2. Last(order'[s]) = c
    BY <1>2, RememberingKeeps DEF Inv
  <2> QED
    BY <1>2, <2>1, <2>2 DEF Ids
<1>4. Remembering(s, c) = IF Len(Append(order[s], c)) > Remembered
                            THEN Tail(Append(order[s], c)) ELSE Append(order[s], c)
  BY DEF Remembering
<1>5. Recent(s, Append(Taken(s), c), Remembering(s, c))
  BY <1>1, <1>4, RecentGrows DEF Window
<1> QED
  BY <1>2, <1>3, <1>5 DEF Window

\* Acting on the request remembered last leaves the window where it is.
LEMMA ActOnce ==
  ASSUME Inv, Once, NEW s \in Process, Act(s)
  PROVE  /\ Window(s)'
         /\ \A i, j \in DOMAIN acted'[s] :
              (i < j /\ acted'[s][i].requestId = acted'[s][j].requestId) => j - i > Remembered
<1> DEFINE c == Last(order[s])
<1>0. c \in Process
  BY DEF Act, Inv, Shapes, Accounted, Last
<1>1. Decode(Encode(ActivationOf(c))) = ActivationOf(c) /\ ActivationOf(c) \in Activation
      /\ ActivationOf(c).requestId = c
  BY <1>0, CodecFaithful, ActivationShape DEF ActivationOf
<1>2. /\ acted'[s] = Append(acted[s], ActivationOf(c))
      /\ pc'[s] = "serving" /\ pc[s] = "acting"
      /\ order'[s] = order[s]
      /\ acted[s] \in Seq(Activation)
  BY <1>1 DEF Act, Inv, Shapes
<1>3. Ids(s) = Append(Taken(s), c) /\ Ids(s)' = Taken(s)' /\ Window(s)
  BY <1>2 DEF Ids, Once
<1>5. Taken(s)' = [i \in 1 .. Len(acted'[s]) |-> acted'[s][i].requestId]
  BY DEF Taken
<1>6. Len(acted'[s]) = Len(acted[s]) + 1 /\ DOMAIN acted'[s] = 1 .. Len(acted[s]) + 1
  BY <1>1, <1>2
<1>7. Ids(s)' = Ids(s)
  BY <1>0, <1>1, <1>2, <1>3, <1>5, <1>6, TakenShape DEF Taken
<1>8. Window(s)'
  BY <1>2, <1>3, <1>7 DEF Window
<1>9. Len(Ids(s)) = Len(acted[s]) + 1
  BY <1>0, <1>3, TakenShape
<1>10. \A i \in 1 .. Len(acted[s]) + 1 : Ids(s)[i] = acted'[s][i].requestId
  BY <1>3, <1>5, <1>6, <1>7
<1> QED
  BY <1>3, <1>6, <1>8, <1>9, <1>10 DEF Window, Recent

\* Serving acts only on what its memory does not hold.
LEMMA ServeOnce ==
  ASSUME Inv, Once, NEW s \in Process, Serve(s)
  PROVE  Once'
<1> USE DEF Once
<1>1. CASE Publish(s)
  <2>1. /\ pc[s] = "owner" /\ order[s] = << >>
        /\ UNCHANGED <<links, order>>
        /\ \A q \in Process : q # s => pc'[q] = pc[q] /\ acted'[q] = acted[q]
    BY <1>1 DEF Publish, Inv, Shapes
  <2>2. \/ pc'[s] = "serving" /\ acted'[s] = <<ActivationOf(s)>>
        \/ pc'[s] = "failed" /\ acted'[s] = acted[s]
    BY <1>1 DEF Publish, Inv, Shapes
  <2>3. \A q \in Process : q # s /\ Window(q) => Window(q)'
    <3> SUFFICES ASSUME NEW q \in Process, q # s, Window(q)
                 PROVE  Window(q)'
      OBVIOUS
    <3>1. Ids(q)' = Ids(q)
      BY <2>1 DEF Ids, Taken
    <3> QED
      BY <2>1, <3>1 DEF Window
  <2>4. pc'[s] = "serving" => Window(s)'
    <3> SUFFICES ASSUME pc'[s] = "serving" PROVE Window(s)'
      OBVIOUS
    <3> DEFINE ids == Taken(s)'
    <3>1. acted'[s] = <<ActivationOf(s)>> /\ ActivationOf(s).requestId = s
      BY <2>2 DEF ActivationOf
    <3>2. Len(ids) = 1 /\ ids[1] = s
      BY <3>1 DEF Taken
    <3>3. order'[s] = << >> /\ Ids(s)' = ids
      BY <2>1 DEF Ids
    <3> HIDE DEF ids
    <3>4. Recent(s, ids, << >>)
      BY <3>2, ConstantsAssumption DEF Recent, ConstantsAssumption
    <3> QED
      BY <3>3, <3>4 DEF Window
  <2>5. ActedOnce'
    BY <2>1, <2>2 DEF ActedOnce
  <2>6. (\A q \in Process : pc[q] \in {"serving", "acting"} => Window(q))'
    BY <2>1, <2>2, <2>3, <2>4
  <2> QED
    BY <2>1, <2>2, <2>5, <2>6
<1>2. CASE Accept(s)
  <2>1. PICK k \in links :
          links' = (links \ {k}) \cup (IF Room(s) THEN {[k EXCEPT !.at = "accepted"]} ELSE {})
    BY <1>2 DEF Accept
  <2>2. /\ [k EXCEPT !.at = "accepted"].server = k.server
        /\ [k EXCEPT !.at = "accepted"].client = k.client
    BY DEF Inv, Shapes, Connection
  <2>3. \A j \in links' : j.client # j.server
    BY <2>1, <2>2
  <2>4. pc' = [pc EXCEPT ![s] = "serving"] /\ pc[s] = "serving" /\ UNCHANGED <<order, acted>>
    BY <1>2 DEF Accept, Inv, Shapes
  <2> QED
    BY <2>3, <2>4, QuietOnce
<1>3. CASE Receive(s)
  <2>1. PICK k \in links :
          /\ k.server = s
          /\ LET answer == [k EXCEPT !.at = IF Decodable(Encode(ActivationOf(k.client))) THEN "answered" ELSE "rejected"]
             IN  links' = (links \ {k}) \cup (IF k.open THEN {answer} ELSE {})
          /\ \/ /\ ~Contains(order[s], k.client)
                /\ order' = [order EXCEPT ![s] = Remembering(s, k.client)]
                /\ pc' = [pc EXCEPT ![s] = "acting"]
             \/ UNCHANGED <<pc, order>>
    BY <1>3 DEF Receive
  <2> DEFINE c == k.client
  <2>2. c \in Process /\ c # s
    BY <2>1 DEF Inv, Shapes, Connection
  <2>3. \A j \in links' : j.client # j.server
    <3> DEFINE answer == [k EXCEPT !.at = IF Decodable(Encode(ActivationOf(k.client))) THEN "answered" ELSE "rejected"]
    <3>1. links' = (links \ {k}) \cup (IF k.open THEN {answer} ELSE {})
      BY <2>1
    <3>2. answer.server = k.server /\ answer.client = k.client
      BY DEF Inv, Shapes, Connection
    <3> HIDE DEF answer
    <3> QED
      BY <3>1, <3>2
  <2>4. pc[s] = "serving" /\ UNCHANGED acted
    BY <1>3 DEF Receive
  <2>5. CASE UNCHANGED <<pc, order>>
    <3>1. pc' = [pc EXCEPT ![s] = "serving"]
      BY <2>4, <2>5 DEF Inv, Shapes
    <3> QED
      BY <2>3, <2>4, <2>5, <3>1, QuietOnce
  <2>6. CASE /\ ~Contains(order[s], c)
             /\ order' = [order EXCEPT ![s] = Remembering(s, c)]
             /\ pc' = [pc EXCEPT ![s] = "acting"]
    <3>1. Window(s)'
      BY <2>2, <2>4, <2>6, ReceiveOnce
    <3>2. /\ \A q \in Process : q # s => pc'[q] = pc[q] /\ order'[q] = order[q]
          /\ pc'[s] = "acting"
      BY <2>6 DEF Inv, Shapes
    <3>3. \A q \in Process : q # s /\ Window(q) => Window(q)'
      <4> SUFFICES ASSUME NEW q \in Process, q # s, Window(q)
                   PROVE  Window(q)'
        OBVIOUS
      <4>1. Ids(q)' = Ids(q)
        BY <2>4, <3>2 DEF Ids, Taken
      <4> QED
        BY <3>2, <4>1 DEF Window
    <3>4. ActedOnce'
      BY <2>4 DEF ActedOnce
    <3>5. (\A q \in Process : pc[q] \in {"serving", "acting"} => Window(q))'
      BY <3>1, <3>2, <3>3
    <3> QED
      BY <2>3, <3>2, <3>4, <3>5
  <2> QED
    BY <2>1, <2>5, <2>6
<1>4. CASE Act(s)
  <2>1. /\ UNCHANGED <<links, order>>
        /\ \A q \in Process : q # s => pc'[q] = pc[q] /\ acted'[q] = acted[q]
        /\ pc'[s] = "serving"
    BY <1>4 DEF Act, Inv, Shapes
  <2>2. \A q \in Process : q # s /\ Window(q) => Window(q)'
    <3> SUFFICES ASSUME NEW q \in Process, q # s, Window(q)
                 PROVE  Window(q)'
      OBVIOUS
    <3>1. Ids(q)' = Ids(q)
      BY <2>1 DEF Ids, Taken
    <3> QED
      BY <2>1, <3>1 DEF Window
  <2>3. (\A q \in Process : pc[q] \in {"serving", "acting"} => Window(q))'
    BY <1>4, <2>1, <2>2, ActOnce
  <2>4. ActedOnce'
    BY <1>4, <2>1, ActOnce DEF ActedOnce
  <2> QED
    BY <2>1, <2>3, <2>4
<1>5. CASE ReleaseClient(s)
  <2>1. \A j \in links' : j.client # j.server
    BY <1>5 DEF ReleaseClient
  <2>2. pc' = [pc EXCEPT ![s] = "serving"] /\ pc[s] = "serving" /\ UNCHANGED <<order, acted>>
    BY <1>5 DEF ReleaseClient, Inv, Shapes
  <2> QED
    BY <2>1, <2>2, QuietOnce
<1>6. CASE Quit(s)
  BY <1>6, QuietOnce DEF Quit
<1>7. CASE Leave(s)
  BY <1>7, QuietOnce DEF Leave, ReleaseOwnership, WithoutServer
<1> QED
  BY <1>1, <1>2, <1>3, <1>4, <1>5, <1>6, <1>7 DEF Serve

\* A process that is killed acts no more.
LEMMA CrashOnce ==
  ASSUME Inv, Once, NEW p \in Process, Crash(p)
  PROVE  Once'
<1>1. \A k \in links' : k.client # k.server
  BY Cut, Ends DEF Crash, WithoutServer, Once
<1>2. pc' = [pc EXCEPT ![p] = "crashed"] /\ UNCHANGED <<order, acted>>
  BY DEF Crash
<1> QED
  BY <1>1, <1>2, QuietOnce

\* Whatever is resent, and however small the memory, a process acts on the same
\* request again only after as many others as it remembers (remember).
THEOREM ActedOnceAlways == Spec => []ActedOnce
<1>1. Init => Once
  BY DEF Init, Once, ActedOnce
<1>2. Inv /\ Once /\ [Next]_vars => Once'
  <2> SUFFICES ASSUME Inv, Once, [Next]_vars PROVE Once'
    OBVIOUS
  <2>1. CASE Next
    BY <2>1, ContendOnce, ServeOnce, CrashOnce DEF Next
  <2>2. CASE UNCHANGED vars
    BY <2>2 DEF vars, Once, Window, Ids, Taken, ActedOnce
  <2> QED
    BY <2>1, <2>2
<1>3. Once => ActedOnce
  BY DEF Once
<1> QED
  BY <1>1, <1>2, <1>3, AccountedInvariant, PTL DEF Spec

-----------------------------------------------------------------------------
(* Types, and the limits in them.                                          *)

\* Attempts are counted before they are used up.
Attempts ==
  /\ attempts \in [Process -> 0 .. AttemptLimit]
  /\ \A p \in Process : pc[p] \in {"unborn", "locking"} => attempts[p] < AttemptLimit
  /\ \A p \in Process : pc[p] \in {"looking", "checking", "connecting"} => attempts[p] >= 1
  /\ \A k \in links : k.attempt \in 1 .. AttemptLimit
  /\ lock \in Process \cup {None}
  /\ crashes \in 0 .. CrashLimit
  /\ losses \in 0 .. LossLimit

\* The connections server s has accepted and not yet answered.
AcceptedBy(s, conns) == {k \in conns : k.server = s /\ k.at = "accepted"}

\* A server has only so many of them, of finitely many connections.
Clients ==
  /\ IsFiniteSet(links)
  /\ \A s \in Process : Cardinality(AcceptedBy(s, links)) <= MaximumClients

\* A server remembers only so many requests, each once.
Memory ==
  \A p \in Process : Len(order[p]) <= Remembered /\ IsInjective(order[p])

\* Before anything is started there are no connections and no memory.
LEMMA LimitsInit == Init => Attempts /\ Clients /\ Memory
<1> SUFFICES ASSUME Init PROVE Attempts /\ Clients /\ Memory
  OBVIOUS
<1>1. Attempts
  BY ConstantsAssumption DEF Init, Attempts, ConstantsAssumption
<1>2. Clients
  <2>1. \A s \in Process : AcceptedBy(s, links) = {}
    BY DEF Init, AcceptedBy
  <2>2. Cardinality({}) = 0 /\ IsFiniteSet({})
    BY FS_EmptySet
  <2>3. links = {} /\ MaximumClients \in Nat \ {0}
    BY ConstantsAssumption DEF Init, ConstantsAssumption
  <2>4. \A s \in Process : Cardinality(AcceptedBy(s, links)) <= MaximumClients
    BY <2>1, <2>2, <2>3
  <2> QED
    BY <2>2, <2>3, <2>4 DEF Clients
<1>3. Memory
  BY ConstantsAssumption DEF Init, Memory, ConstantsAssumption, IsInjective
<1> QED
  BY <1>1, <1>2, <1>3

\* What a step does to the connections of a server that it has accepted: each of
\* them it had before, but for the side of the client.
Fewer ==
  \A s \in Process : \E f \in [AcceptedBy(s, links) -> Connection] :
    AcceptedBy(s, links') \subseteq {f[k] : k \in AcceptedBy(s, links)}

\* Then it stays within the limit.
LEMMA FewerClients ==
  ASSUME Inv, Clients, IsFiniteSet(links'), Fewer
  PROVE  Clients'
<1> SUFFICES ASSUME NEW s \in Process
             PROVE  Cardinality(AcceptedBy(s, links')) <= MaximumClients
  BY DEF Clients
<1>1. PICK f \in [AcceptedBy(s, links) -> Connection] :
        AcceptedBy(s, links') \subseteq {f[k] : k \in AcceptedBy(s, links)}
  BY DEF Fewer
<1> DEFINE S == AcceptedBy(s, links)
           T == {f[k] : k \in S}
<1>2. S \subseteq links
  BY DEF AcceptedBy
<1>3. IsFiniteSet(S) /\ Cardinality(S) <= MaximumClients
  BY <1>2, FS_Subset DEF Clients
<1>4. IsFiniteSet(T) /\ Cardinality(T) <= Cardinality(S)
  <2>1. f \in Surjection(S, T)
    BY DEF Surjection
  <2> QED
    BY <1>3, <2>1, FS_Surjection
<1>5. Cardinality(AcceptedBy(s, links')) <= Cardinality(T)
  BY <1>1, <1>4, FS_Subset
<1>6. /\ Cardinality(AcceptedBy(s, links')) \in Nat /\ Cardinality(T) \in Nat
      /\ Cardinality(S) \in Nat /\ MaximumClients \in Nat
  BY <1>1, <1>3, <1>4, FS_Subset, FS_CardinalityType, ConstantsAssumption DEF ConstantsAssumption
<1> QED
  BY <1>3, <1>4, <1>5, <1>6

\* Connections only change at the side of the client, as g says, or go.
Followed(g) ==
  /\ links' \subseteq links \cup {g[k] : k \in links}
  /\ \A j \in links' \ links : j.at = "accepted" =>
       \E k \in links : k.at = "accepted" /\ k.server = j.server /\ k \notin links' /\ g[k] = j

\* A step after which nobody has accepted more.
LEMMA FollowedClients ==
  ASSUME Inv, Clients, NEW g \in [links -> Connection], Followed(g)
  PROVE  Clients'
<1>1. links \subseteq Connection
  BY DEF Inv, Shapes
<1>2. IsFiniteSet(links')
  <2> DEFINE image == {g[k] : k \in links}
  <2>1. g \in Surjection(links, image)
    BY DEF Surjection
  <2>2. IsFiniteSet(image)
    BY <2>1, FS_Surjection DEF Clients
  <2>3. IsFiniteSet(links \cup image)
    BY <2>2, FS_Union DEF Clients
  <2> QED
    BY <2>3, FS_Subset DEF Followed
<1>3. Fewer
  <2> SUFFICES ASSUME NEW s \in Process
               PROVE  \E f \in [AcceptedBy(s, links) -> Connection] :
                        AcceptedBy(s, links') \subseteq {f[k] : k \in AcceptedBy(s, links)}
    BY DEF Fewer
  <2> DEFINE f == [k \in AcceptedBy(s, links) |-> IF k \in links' THEN k ELSE g[k]]
  <2>1. f \in [AcceptedBy(s, links) -> Connection]
    BY <1>1 DEF AcceptedBy
  <2>2. ASSUME NEW j \in AcceptedBy(s, links')
        PROVE  \E k \in AcceptedBy(s, links) : f[k] = j
    <3>1. j \in links' /\ j.server = s /\ j.at = "accepted"
      BY DEF AcceptedBy
    <3>2. CASE j \in links
      BY <3>1, <3>2 DEF AcceptedBy
    <3>3. CASE j \notin links
      <4>1. PICK k \in links : k.at = "accepted" /\ k.server = j.server /\ k \notin links' /\ g[k] = j
        BY <3>1, <3>3 DEF Followed
      <4>2. k \in AcceptedBy(s, links)
        BY <3>1, <4>1 DEF AcceptedBy
      <4> QED
        BY <4>1, <4>2
    <3> QED
      BY <3>2, <3>3
  <2> HIDE DEF f
  <2> QED
    BY <2>1, <2>2
<1> QED
  BY <1>2, <1>3, FewerClients

\* A connection more, or changed, that no server has accepted.
LEMMA QuietClients ==
  ASSUME Inv, Clients, NEW k, k.at # "accepted", links' \subseteq links \cup {k}
  PROVE  Clients'
<1>1. links' \ links \subseteq {k}
  OBVIOUS
<1>2. IsFiniteSet(links \cup {k})
  BY FS_AddElement DEF Clients
<1>3. IsFiniteSet(links')
  BY <1>2, FS_Subset
<1>4. Fewer
  <2> SUFFICES ASSUME NEW s \in Process
               PROVE  \E f \in [AcceptedBy(s, links) -> Connection] :
                        AcceptedBy(s, links') \subseteq {f[j] : j \in AcceptedBy(s, links)}
    BY DEF Fewer
  <2> DEFINE f == [j \in AcceptedBy(s, links) |-> j]
  <2>1. f \in [AcceptedBy(s, links) -> Connection]
    BY DEF AcceptedBy, Inv, Shapes
  <2>2. AcceptedBy(s, links') \subseteq AcceptedBy(s, links)
    BY DEF AcceptedBy
  <2>3. \A j \in AcceptedBy(s, links) : f[j] = j
    OBVIOUS
  <2> HIDE DEF f
  <2> QED
    BY <2>1, <2>2, <2>3
<1> QED
  BY <1>3, <1>4, FewerClients

\* A connection the client has written to or closed is at its server where it was.
LEMMA Sides ==
  ASSUME NEW k \in Connection
  PROVE  /\ [k EXCEPT !.open = FALSE] \in Connection /\ [k EXCEPT !.data = TRUE] \in Connection
         /\ [k EXCEPT !.open = FALSE].at = k.at /\ [k EXCEPT !.data = TRUE].at = k.at
         /\ [k EXCEPT !.open = FALSE].server = k.server /\ [k EXCEPT !.data = TRUE].server = k.server
         /\ ~[k EXCEPT !.open = FALSE].open
         /\ [k EXCEPT !.open = FALSE].attempt = k.attempt /\ [k EXCEPT !.data = TRUE].attempt = k.attempt
BY DEF Connection

\* The connections whose client hangs up stay accepted.
LEMMA HangUpClients ==
  ASSUME Inv, Clients, NEW p \in Process, NEW conns, conns \subseteq links,
         links' = (conns \ LinkOf(p)) \cup UNION {HungUp(k) : k \in LinkOf(p)}
  PROVE  Clients'
<1> DEFINE g == [k \in links |-> [k EXCEPT !.open = FALSE]]
<1>1. g \in [links -> Connection] /\ links \subseteq Connection
  <2>1. links \subseteq Connection
    BY DEF Inv, Shapes
  <2> QED
    BY <2>1, Sides
<1>2. \A j \in links' \ links : \E k \in LinkOf(p) : j \in HungUp(k)
  OBVIOUS
<1>3. \A k \in LinkOf(p) : /\ k \in links /\ k \in Connection /\ k.open
                           /\ \A j \in HungUp(k) : j = g[k] /\ j.at = k.at /\ j.server = k.server
                                                   /\ ~j.open
  BY <1>1, Sides DEF LinkOf, HungUp
<1>4. \A k \in LinkOf(p) : k \notin links'
  <2> SUFFICES ASSUME NEW k \in LinkOf(p), k \in links' PROVE FALSE
    OBVIOUS
  <2>1. PICK i \in LinkOf(p) : k \in HungUp(i)
    OBVIOUS
  <2> QED
    BY <1>3, <2>1
<1>5. links' \subseteq links \cup {g[k] : k \in links}
  <2> HIDE DEF g
  <2> QED
    BY <1>2, <1>3
<1>6. Followed(g)
  <2> HIDE DEF g
  <2>1. \A j \in links' \ links : j.at = "accepted" =>
          \E k \in links : k.at = "accepted" /\ k.server = j.server /\ k \notin links' /\ g[k] = j
    BY <1>2, <1>3, <1>4
  <2> QED
    BY <1>5, <2>1 DEF Followed
<1> HIDE DEF g
<1> QED
  BY <1>1, <1>6, FollowedClients

\* Connecting is not accepting, and writing is at the side of the client.
LEMMA ContendClients ==
  ASSUME Inv, Clients, NEW p \in Process, Contend(p)
  PROVE  Clients'
<1>1. CASE UNCHANGED links
  BY <1>1 DEF Clients, AcceptedBy
<1>2. CASE Connect(p)
  <2> DEFINE new == [client |-> p, attempt |-> attempts[p], server |-> endpoint,
                     at |-> "backlog", data |-> FALSE, open |-> TRUE]
  <2>1. links' \subseteq links \cup {new} /\ new.at # "accepted"
    BY <1>2 DEF Connect
  <2> HIDE DEF new
  <2> QED
    BY <2>1, QuietClients
<1>3. CASE Write(p)
  <2>1. PICK k \in LinkOf(p) : links' = (links \ {k}) \cup {[k EXCEPT !.data = TRUE]}
    BY <1>3 DEF Write
  <2> DEFINE g == [j \in links |-> [j EXCEPT !.data = TRUE]]
  <2>2. g \in [links -> Connection] /\ k \in links
    <3>1. links \subseteq Connection
      BY DEF Inv, Shapes
    <3> QED
      BY <3>1, Sides DEF LinkOf
  <2>3. g[k] = [k EXCEPT !.data = TRUE] /\ g[k].at = k.at /\ g[k].server = k.server
    BY <2>2, Sides DEF Inv, Shapes
  <2> HIDE DEF g
  <2>4. Followed(g)
    BY <2>1, <2>2, <2>3 DEF Followed
  <2> QED
    BY <2>2, <2>4, FollowedClients
<1>4. CASE Answered(p)
  <2>1. PICK k \in LinkOf(p) : k.at \in {"answered", "rejected"} /\ links' = links \ {k}
    BY <1>4 DEF Answered
  <2> QED
    BY <2>1, QuietClients
<1>5. CASE GiveUp(p)
  BY <1>5, HangUpClients DEF GiveUp, HangUp
<1> QED
  BY <1>1, <1>2, <1>3, <1>4, <1>5
     DEF Contend, Launch, TryLock, ClearStale, Look, Check, Dropped

\* A server accepts a connection when it has room for it (acceptConnections).
LEMMA AcceptClients ==
  ASSUME Inv, Clients, NEW s \in Process, Accept(s)
  PROVE  Clients'
<1>1. PICK k \in links :
        /\ k.server = s /\ k.at = "backlog"
        /\ links' = (links \ {k}) \cup (IF Room(s) THEN {[k EXCEPT !.at = "accepted"]} ELSE {})
  BY DEF Accept
<1>2. CASE ~Room(s)
  BY <1>1, <1>2, QuietClients
<1>3. CASE Room(s)
  <2> DEFINE new == [k EXCEPT !.at = "accepted"]
  <2>1. new.at = "accepted" /\ new.server = s /\ links' = (links \ {k}) \cup {new}
    BY <1>1, <1>3 DEF Inv, Shapes, Connection
  <2> HIDE DEF new
  <2>2. IsFiniteSet(links')
    BY <2>1, FS_AddElement, FS_RemoveElement DEF Clients
  <2>3. ASSUME NEW t \in Process PROVE Cardinality(AcceptedBy(t, links')) <= MaximumClients
    <3>1. /\ AcceptedBy(t, links) \subseteq links
          /\ IsFiniteSet(AcceptedBy(t, links))
          /\ Cardinality(AcceptedBy(t, links)) <= MaximumClients
      BY FS_Subset DEF Clients, AcceptedBy
    <3>2. CASE t = s
      <4>1. AcceptedBy(t, links') \subseteq AcceptedBy(t, links) \cup {new}
        BY <2>1 DEF AcceptedBy
      <4>2. Cardinality(AcceptedBy(t, links)) < MaximumClients
        BY <1>3, <3>2 DEF Room, AcceptedBy
      <4>3. /\ IsFiniteSet(AcceptedBy(t, links) \cup {new})
            /\ Cardinality(AcceptedBy(t, links) \cup {new}) <= Cardinality(AcceptedBy(t, links)) + 1
        <5> DEFINE A == AcceptedBy(t, links)
        <5> HIDE DEF A
        <5>1. IsFiniteSet(A) => /\ IsFiniteSet(A \cup {new})
                                /\ Cardinality(A \cup {new}) = IF new \in A THEN Cardinality(A) ELSE Cardinality(A) + 1
                                /\ Cardinality(A) \in Nat
          BY FS_AddElement, FS_CardinalityType
        <5>2. IsFiniteSet(A) => IsFiniteSet(A \cup {new}) /\ Cardinality(A \cup {new}) <= Cardinality(A) + 1
          BY <5>1
        <5> QED
          BY <3>1, <5>2 DEF A
      <4>4. /\ Cardinality(AcceptedBy(t, links')) <= Cardinality(AcceptedBy(t, links) \cup {new})
            /\ Cardinality(AcceptedBy(t, links')) \in Nat
            /\ Cardinality(AcceptedBy(t, links) \cup {new}) \in Nat
            /\ Cardinality(AcceptedBy(t, links)) \in Nat
        BY <3>1, <4>1, <4>3, FS_Subset, FS_CardinalityType
      <4> QED
        BY <4>2, <4>3, <4>4, ConstantsAssumption DEF ConstantsAssumption
    <3>3. CASE t # s
      <4>1. AcceptedBy(t, links') \subseteq AcceptedBy(t, links)
        BY <2>1, <3>3 DEF AcceptedBy
      <4>2. /\ Cardinality(AcceptedBy(t, links')) <= Cardinality(AcceptedBy(t, links))
            /\ Cardinality(AcceptedBy(t, links')) \in Nat
            /\ Cardinality(AcceptedBy(t, links)) \in Nat
        BY <3>1, <4>1, FS_Subset, FS_CardinalityType
      <4> QED
        BY <3>1, <4>2, ConstantsAssumption DEF ConstantsAssumption
    <3> QED
      BY <3>2, <3>3
  <2> QED
    BY <2>2, <2>3 DEF Clients
<1> QED
  BY <1>2, <1>3

\* Serving and being killed otherwise only end connections.
LEMMA ServeClients ==
  ASSUME Inv, Clients, NEW s \in Process, Serve(s) \/ Crash(s)
  PROVE  Clients'
<1>1. CASE UNCHANGED links
  BY <1>1 DEF Clients, AcceptedBy
<1>2. CASE Accept(s)
  BY <1>2, AcceptClients
<1>3. CASE Receive(s)
  <2>1. PICK k \in links :
          LET answer == [k EXCEPT !.at = IF Decodable(Encode(ActivationOf(k.client))) THEN "answered" ELSE "rejected"]
          IN  links' = (links \ {k}) \cup (IF k.open THEN {answer} ELSE {})
    BY <1>3 DEF Receive
  <2> DEFINE answer == [k EXCEPT !.at = IF Decodable(Encode(ActivationOf(k.client))) THEN "answered" ELSE "rejected"]
  <2>2. links' \subseteq links \cup {answer} /\ answer.at # "accepted"
    BY <2>1 DEF Inv, Shapes, Connection
  <2> HIDE DEF answer
  <2> QED
    BY <2>2, QuietClients
<1>4. CASE ReleaseClient(s) \/ Leave(s)
  <2>1. links' \subseteq links
    BY <1>4 DEF ReleaseClient, Leave, ReleaseOwnership, WithoutServer
  <2>2. [at |-> "answered"].at # "accepted"
    OBVIOUS
  <2> QED
    <3>1. links' \subseteq links \cup {[at |-> "answered"]}
      BY <2>1
    <3> QED
      BY <2>2, <3>1, QuietClients
<1>5. CASE Crash(s)
  <2>1. WithoutServer(s) \subseteq links
    BY DEF WithoutServer
  <2> QED
    BY <1>5, <2>1, HangUpClients DEF Crash
<1> QED
  BY <1>1, <1>2, <1>3, <1>4, <1>5 DEF Serve, Publish, Act, Quit

\* remember keeps its window small, and takes in only what is not in it.
LEMMA MemoryKept ==
  ASSUME Inv, Memory, NEW s \in Process, NEW id \in Process, ~Contains(order[s], id)
  PROVE  Len(Remembering(s, id)) <= Remembered /\ IsInjective(Remembering(s, id))
<1> DEFINE n == Len(order[s])
           longer == Append(order[s], id)
<1>1. /\ order[s] \in Seq(Process) /\ n \in Nat /\ Remembered \in Nat \ {0}
      /\ n <= Remembered
      /\ \A i, j \in 1 .. n : order[s][i] = order[s][j] => i = j
      /\ \A i \in 1 .. n : order[s][i] # id
  <2>1. order[s] \in Seq(Process)
    BY DEF Inv, Shapes
  <2>2. n \in Nat /\ DOMAIN order[s] = 1 .. n
    BY <2>1
  <2>3. n <= Remembered /\ \A i, j \in DOMAIN order[s] : order[s][i] = order[s][j] => i = j
    BY DEF Memory, IsInjective
  <2>4. \A i \in 1 .. n : order[s][i] # id
    BY DEF Contains
  <2>5. Remembered \in Nat \ {0}
    BY ConstantsAssumption DEF ConstantsAssumption
  <2> QED
    BY <2>1, <2>2, <2>3, <2>4, <2>5
<1>2. /\ longer \in Seq(Process) /\ Len(longer) = n + 1 /\ longer[n + 1] = id
      /\ \A i \in 1 .. n : longer[i] = order[s][i]
  BY <1>1
<1> HIDE DEF n
<1>3. \A i, j \in 1 .. n + 1 : longer[i] = longer[j] => i = j
  BY <1>1, <1>2 DEF n
<1>4. CASE n + 1 > Remembered
  <2>0. longer # <<>>
    BY <1>1, <1>2
  <2>1. /\ Tail(longer) \in Seq(Process) /\ Len(Tail(longer)) = n
        /\ \A i \in 1 .. n : Tail(longer)[i] = longer[i + 1]
    BY <1>1, <1>2, <2>0 DEF n
  <2>2. Remembering(s, id) = Tail(longer)
    BY <1>2, <1>4 DEF Remembering
  <2> HIDE DEF longer
  <2>3. \A i, j \in 1 .. n : Tail(longer)[i] = Tail(longer)[j] => i = j
    <3> SUFFICES ASSUME NEW i \in 1 .. n, NEW j \in 1 .. n, longer[i + 1] = longer[j + 1]
                 PROVE  i = j
      BY <2>1
    <3>1. i + 1 \in 1 .. n + 1 /\ j + 1 \in 1 .. n + 1
      BY <1>1
    <3>2. i + 1 = j + 1
      BY <1>3, <3>1
    <3> QED
      BY <3>2
  <2>4. DOMAIN Tail(longer) = 1 .. n
    BY <2>1
  <2> QED
    BY <1>1, <2>1, <2>2, <2>3, <2>4 DEF IsInjective
<1>5. CASE ~(n + 1 > Remembered)
  <2>1. Remembering(s, id) = longer
    BY <1>2, <1>5 DEF Remembering
  <2>2. DOMAIN longer = 1 .. n + 1
    BY <1>2
  <2> HIDE DEF longer
  <2> QED
    BY <1>1, <1>2, <1>3, <1>5, <2>1, <2>2 DEF IsInjective
<1> QED
  BY <1>4, <1>5

\* Only receiving a request changes a memory.
LEMMA MemoryStep ==
  ASSUME Inv, Memory, [Next]_vars
  PROVE  Memory'
<1>1. CASE UNCHANGED order
  BY <1>1 DEF Memory
<1>2. ASSUME NEW s \in Process, Receive(s)
      PROVE  Memory'
  <2>1. PICK k \in links :
          \/ ~Contains(order[s], k.client) /\ order' = [order EXCEPT ![s] = Remembering(s, k.client)]
          \/ UNCHANGED order
    BY <1>2 DEF Receive
  <2>2. k.client \in Process
    BY DEF Inv, Shapes, Connection
  <2>3. CASE UNCHANGED order
    BY <1>1, <2>3
  <2>4. CASE ~Contains(order[s], k.client) /\ order' = [order EXCEPT ![s] = Remembering(s, k.client)]
    <3>1. \A p \in Process : order'[p] = IF p = s THEN Remembering(s, k.client) ELSE order[p]
      BY <2>4 DEF Inv, Shapes
    <3>2. Len(Remembering(s, k.client)) <= Remembered /\ IsInjective(Remembering(s, k.client))
      BY <2>2, <2>4, MemoryKept
    <3> QED
      BY <3>1, <3>2 DEF Memory
  <2> QED
    BY <2>1, <2>3, <2>4
<1> QED
  BY <1>1, <1>2 DEF Next, vars, Contend, Launch, TryLock, ClearStale, Look, Check, Connect, Write,
     Answered, Dropped, GiveUp, Serve, Publish, Accept, Act, ReleaseClient, Quit, Leave, Crash

\* What a step brings to the connections was tried as often as one that was there.
LEMMA SameAttempt ==
  ASSUME Inv, NEW p \in Process
  PROVE  \A k \in links : \A j \in HungUp(k) : j.attempt = k.attempt
BY Sides DEF HungUp, Inv, Shapes

\* A step that moves a process to where its attempts let it be.
LEMMA Moved ==
  ASSUME Inv, Attempts, NEW p \in Process, NEW to,
         pc' = [pc EXCEPT ![p] = to],
         to # "unborn",
         to = "locking" => attempts[p] < AttemptLimit,
         to \in {"looking", "checking", "connecting"} => attempts[p] >= 1,
         \A k \in links' : k.attempt \in 1 .. AttemptLimit,
         lock' \in Process \cup {None}, losses' \in 0 .. LossLimit, crashes' \in 0 .. CrashLimit,
         attempts' = attempts
  PROVE  Attempts'
<1>1. \A q \in Process : pc'[q] = IF q = p THEN to ELSE pc[q]
  BY DEF Inv, Shapes
<1> QED
  BY <1>1 DEF Attempts

\* Attempts are counted when the lock is tried (start), and another one is made only
\* when the limit is not reached.
LEMMA ContendAttempts ==
  ASSUME Inv, Attempts, NEW p \in Process, Contend(p)
  PROVE  Attempts'
<1>1. pc \in [Process -> Place] /\ links \subseteq Connection
  BY DEF Inv, Shapes
<1>2. CASE TryLock(p)
  <2>1. attempts[p] \in 0 .. AttemptLimit /\ attempts[p] < AttemptLimit /\ AttemptLimit \in Nat
    BY <1>2, ConstantsAssumption DEF TryLock, Attempts, ConstantsAssumption
  <2>2. attempts' = [attempts EXCEPT ![p] = attempts[p] + 1] /\ attempts[p] + 1 \in 1 .. AttemptLimit
    BY <1>2, <2>1 DEF TryLock
  <2>3. \A q \in Process : attempts'[q] = IF q = p THEN attempts[p] + 1 ELSE attempts[q]
    BY <2>2 DEF Attempts
  <2>4. PICK to \in {"clearing", "looking"} : pc' = [pc EXCEPT ![p] = to]
    BY <1>2 DEF TryLock
  <2>5. \A q \in Process : pc'[q] = IF q = p THEN to ELSE pc[q]
    BY <1>1, <2>4
  <2>6. lock' \in Process \cup {None}
    BY <1>2 DEF TryLock, Attempts
  <2>7. UNCHANGED <<links, crashes, losses>>
    BY <1>2 DEF TryLock
  <2>8. attempts' \in [Process -> 0 .. AttemptLimit]
    BY <2>1, <2>2 DEF Attempts
  <2> QED
    BY <2>1, <2>2, <2>3, <2>5, <2>6, <2>7, <2>8 DEF Attempts
<1>3. CASE ~TryLock(p)
  <2>1. \A j \in links' : j.attempt \in 1 .. AttemptLimit
    <3>1. CASE Connect(p)
      <4> DEFINE new == [client |-> p, attempt |-> attempts[p], server |-> endpoint,
                         at |-> "backlog", data |-> FALSE, open |-> TRUE]
      <4>1. links' \subseteq links \cup {new} /\ new.attempt = attempts[p]
        BY <3>1 DEF Connect
      <4>2. attempts[p] \in 1 .. AttemptLimit
        BY <3>1 DEF Connect, Attempts
      <4> HIDE DEF new
      <4> QED
        BY <4>1, <4>2 DEF Attempts
    <3>2. CASE Write(p)
      <4>1. PICK k \in LinkOf(p) : links' = (links \ {k}) \cup {[k EXCEPT !.data = TRUE]}
        BY <3>2 DEF Write
      <4>2. k \in links
        BY DEF LinkOf
      <4>3. [k EXCEPT !.data = TRUE].attempt = k.attempt
        BY <1>1, <4>2, Sides
      <4> QED
        BY <4>1, <4>2, <4>3 DEF Attempts
    <3>3. CASE Answered(p)
      <4>1. links' \subseteq links
        BY <3>3 DEF Answered
      <4> QED
        BY <4>1 DEF Attempts
    <3>4. CASE GiveUp(p)
      <4>1. \A j \in links' : j \in links \/ \E k \in links : j \in HungUp(k)
        BY <3>4 DEF GiveUp, HangUp, LinkOf
      <4> QED
        BY <4>1, SameAttempt DEF Attempts
    <3>5. CASE UNCHANGED links
      BY <3>5 DEF Attempts
    <3> QED
      BY <1>3, <3>1, <3>2, <3>3, <3>4, <3>5
         DEF Contend, Launch, ClearStale, Look, Check, Dropped
  <2>2. /\ attempts' = attempts /\ crashes' = crashes
        /\ lock' \in {lock, None}
        /\ (losses' = losses) \/ (losses < LossLimit /\ losses' = losses + 1)
    <3>1. CASE GiveUp(p)
      BY <3>1 DEF GiveUp
    <3> QED
      BY <1>3, <3>1 DEF Contend, Launch, ClearStale, Look, Check, Connect, Write, Answered, Dropped
  <2>3. losses' \in 0 .. LossLimit /\ crashes' \in 0 .. CrashLimit /\ lock' \in Process \cup {None}
    BY <2>2, ConstantsAssumption DEF Attempts, ConstantsAssumption
  <2>4. /\ attempts[p] \in 0 .. AttemptLimit
        /\ pc[p] \in {"unborn", "locking"} => attempts[p] < AttemptLimit
        /\ pc[p] \in {"looking", "checking", "connecting"} => attempts[p] >= 1
    BY DEF Attempts
  <2>5. \E to : /\ pc' = [pc EXCEPT ![p] = to]
                /\ to # "unborn"
                /\ to = "locking" => attempts[p] < AttemptLimit
                /\ to \in {"looking", "checking", "connecting"} => attempts[p] >= 1
    <3>1. CASE Launch(p)
      BY <2>4, <3>1 DEF Launch
    <3>2. CASE ClearStale(p)
      BY <2>4, <3>2 DEF ClearStale
    <3>3. CASE Look(p)
      BY <2>4, <3>3 DEF Look, Again
    <3>4. CASE Check(p)
      BY <2>4, <3>4 DEF Check
    <3>5. CASE Connect(p)
      BY <2>4, <3>5 DEF Connect, Again
    <3>6. CASE Write(p)
      <4>1. pc' = [pc EXCEPT ![p] = "waiting"]
        BY <3>6 DEF Write
      <4> WITNESS "waiting"
      <4> QED
        BY <4>1
    <3>7. CASE Answered(p)
      BY <2>4, <3>7 DEF Answered
    <3>8. CASE Dropped(p)
      BY <2>4, <3>8 DEF Dropped, Again
    <3>9. CASE GiveUp(p)
      BY <2>4, <3>9 DEF GiveUp
    <3> QED
      BY <1>3, <3>1, <3>2, <3>3, <3>4, <3>5, <3>6, <3>7, <3>8, <3>9 DEF Contend
  <2> QED
    BY <2>1, <2>2, <2>3, <2>5, Moved
<1> QED
  BY <1>2, <1>3

\* Serving and being killed count no attempt.
LEMMA ServeAttempts ==
  ASSUME Inv, Attempts, NEW s \in Process, Serve(s) \/ Crash(s)
  PROVE  Attempts'
<1> USE ConstantsAssumption DEF ConstantsAssumption
<1>1. pc \in [Process -> Place] /\ links \subseteq Connection
  BY DEF Inv, Shapes
<1>2. \A j \in links' : j \in links \/ \E k \in links : j.attempt = k.attempt
  <2>1. CASE Accept(s)
    <3>1. PICK k \in links : links' \subseteq links \cup {[k EXCEPT !.at = "accepted"]}
      BY <2>1 DEF Accept
    <3>2. [k EXCEPT !.at = "accepted"].attempt = k.attempt
      BY <1>1 DEF Connection
    <3> QED
      BY <3>1, <3>2
  <2>2. CASE Receive(s)
    <3>1. PICK k \in links : \E at \in {"answered", "rejected"} :
            links' \subseteq links \cup {[k EXCEPT !.at = at]}
      BY <2>2 DEF Receive
    <3>2. \A at : [k EXCEPT !.at = at].attempt = k.attempt
      BY <1>1 DEF Connection
    <3> QED
      BY <3>1, <3>2
  <2>3. CASE Crash(s)
    <3>1. \A j \in links' : j \in links \/ \E k \in links : j \in HungUp(k)
      BY <2>3 DEF Crash, WithoutServer, LinkOf
    <3> QED
      BY <3>1, SameAttempt
  <2> QED
    BY <2>1, <2>2, <2>3
       DEF Serve, Publish, Act, ReleaseClient, Quit, Leave, ReleaseOwnership, WithoutServer
<1>3. \A j \in links' : j.attempt \in 1 .. AttemptLimit
  BY <1>2 DEF Attempts
<1>4. \/ UNCHANGED pc
      \/ \E to \in {"serving", "acting", "leaving", "releasing", "gone", "failed", "crashed"} :
           pc' = [pc EXCEPT ![s] = to]
  BY DEF Serve, Publish, Accept, Receive, Act, ReleaseClient, Quit, Leave, ReleaseOwnership, Crash
<1>5. attempts' = attempts /\ losses' = losses /\ crashes' \in 0 .. CrashLimit
  BY DEF Serve, Publish, Accept, Receive, Act, ReleaseClient, Quit, Leave, Crash, Attempts
<1>6. lock' \in Process \cup {None}
  BY DEF Serve, Publish, Accept, Receive, Act, ReleaseClient, Quit, Leave, ReleaseOwnership, Crash, Attempts
<1>7. CASE UNCHANGED pc
  BY <1>3, <1>5, <1>6, <1>7 DEF Attempts
<1>8. CASE ~UNCHANGED pc
  <2>1. losses' \in 0 .. LossLimit
    BY <1>5 DEF Attempts
  <2> QED
    BY <1>3, <1>4, <1>5, <1>6, <1>8, <2>1, Moved
<1> QED
  BY <1>7, <1>8

\* Every reachable state is well typed: attempts end at the deadline, a server has no
\* more clients and remembers no more requests than it may (start, acceptConnections,
\* remember).
THEOREM TypeCorrect == Spec => []TypeOK
<1> DEFINE All == Attempts /\ Clients /\ Memory
<1>1. Init => All
  BY LimitsInit
<1>2. Inv /\ All /\ [Next]_vars => All'
  <2> SUFFICES ASSUME Inv, All, [Next]_vars PROVE All'
    OBVIOUS
  <2>1. Memory'
    BY MemoryStep
  <2>2. CASE Next
    BY <2>1, <2>2, ContendAttempts, ServeAttempts, ContendClients, ServeClients DEF Next
  <2>3. CASE UNCHANGED vars
    <3>1. Attempts'
      BY <2>3 DEF vars, Attempts
    <3>2. Clients'
      BY <2>3 DEF vars, Clients, AcceptedBy
    <3> QED
      BY <2>1, <3>1, <3>2
  <2> QED
    BY <2>2, <2>3
<1>3. Inv /\ All => TypeOK
  <2> SUFFICES ASSUME Inv, All PROVE TypeOK
    OBVIOUS
  <2>1. links \subseteq Link
    <3> SUFFICES ASSUME NEW k \in links PROVE k \in Link
      OBVIOUS
    <3>1. k \in Connection /\ k.attempt \in 1 .. AttemptLimit
      BY DEF Inv, Shapes, Attempts
    <3> QED
      BY <3>1 DEF Connection, Link
  <2>2. \A s \in Process :
          Cardinality({k \in links : k.server = s /\ k.at = "accepted"}) <= MaximumClients
    BY DEF Clients, AcceptedBy
  <2>3. Shapes /\ Attempts /\ Memory
    BY DEF Inv
  <2>4. pc \in [Process -> {"unborn"} \cup Running \cup Ended]
    BY <2>3 DEF Shapes
  <2> QED
    BY <2>1, <2>2, <2>3, <2>4 DEF Shapes, Attempts, Memory, TypeOK
<1> HIDE DEF All
<1> QED
  BY AccountedInvariant, <1>1, <1>2, <1>3, PTL DEF Spec
================================================================================
