------------------------- MODULE GatewayServerProofs -------------------------
(***************************************************************************)
(* For any number of requests, any window and any time-outs: a running     *)
(* server accepts a request once, and refuses none that is waited for      *)
(* unless its four operations can last longer than the window.             *)
(***************************************************************************)
EXTENDS GatewayServer, TLAPS

\* A request is signed before anything else is done with it.
StampInv ==
    \A r \in Requests :
       /\ client[r] = "idle" <=> stamp[r] = None
       /\ stamp[r] # None => stamp[r] <= now
       /\ r \in sent \cup arriving => stamp[r] # None

\* How old the time stamp of a request that is waited for can be: less than a
\* second at the signing, and a time-out more for every operation begun since.
AgeInv ==
    \A r \in Requests :
       LET limit == Limit[r] IN
       /\ Waits(r) => since[r] <= now /\ now <= since[r] + limit
       /\ client[r] = "connect" => since[r] < stamp[r] + Second
       /\ client[r] = "headers" => since[r] < stamp[r] + Second + limit
       /\ client[r] = "body" => since[r] < stamp[r] + Second + limit + limit
       /\ client[r] = "receive" => since[r] < stamp[r] + Second + limit + limit + limit

\* What ties the history to the map of nonces: a request that was accepted has
\* a nonce that outlives its time stamp, or its time stamp is out of the window.
NonceInv ==
    \A r \in Requests :
       /\ nonces[r] # None => accepted[r] > 0
       /\ accepted[r] > 0 =>
             /\ stamp[r] # None
             /\ \/ nonces[r] # None /\ stamp[r] + Window <= nonces[r]
                \/ stamp[r] + Window < now

ServerInv == ServerTypeOK /\ StampInv /\ AgeInv /\ NonceInv /\ AcceptedOnce /\ RefusedOnlyIfStale

-----------------------------------------------------------------------------
\* The initial state of the server satisfies the invariant.
LEMMA InitInv == ServerInit => ServerInv
  BY ServerAssumption DEF ServerInit, ServerInv, ServerTypeOK, StampInv, AgeInv, NonceInv,
     AcceptedOnce, RefusedOnlyIfStale, Waits, Operations

\* The clock only makes nonces and time stamps older, and stops for an operation
\* that has timed out.
LEMMA ClockInv == ServerInv /\ ClockTicks => ServerInv'
<1> SUFFICES ASSUME ServerInv, ClockTicks PROVE ServerInv'
  OBVIOUS
<1> USE ServerAssumption DEF ClockTicks, clientVars, ServerInv, ServerTypeOK
<1>1. ServerTypeOK'
  OBVIOUS
<1>2. StampInv' /\ NonceInv'
  BY DEF StampInv, NonceInv
<1>3. AgeInv'
  BY DEF AgeInv, TimedOut, Waits
<1>4. AcceptedOnce' /\ RefusedOnlyIfStale'
  BY DEF AcceptedOnce, RefusedOnlyIfStale
<1> QED
  BY <1>1, <1>2, <1>3, <1>4

\* Signing stamps a request that nobody has seen yet.
LEMMA SignInv == ASSUME NEW r \in Requests PROVE ServerInv /\ Sign(r) => ServerInv'
<1> SUFFICES ASSUME ServerInv, Sign(r) PROVE ServerInv'
  OBVIOUS
<1> USE ServerAssumption
<1> PICK s \in WholeSeconds(now) : stamp' = [stamp EXCEPT ![r] = s]
  BY DEF Sign
<1>1. s \in Nat /\ s <= now /\ now < s + Second
  BY DEF WholeSeconds, ServerInv, ServerTypeOK
<1>2. stamp[r] = None /\ accepted[r] = 0
  BY DEF Sign, ServerInv, ServerTypeOK, StampInv, NonceInv
<1>3. ServerTypeOK'
  BY <1>1 DEF Sign, ServerInv, ServerTypeOK, Operations
<1>4. StampInv'
  BY <1>1 DEF Sign, ServerInv, ServerTypeOK, StampInv
<1>5. AgeInv'
  <2> SUFFICES ASSUME NEW q \in Requests PROVE
       /\ Waits(q)' => since'[q] <= now /\ now <= since'[q] + Limit[q]
       /\ client'[q] = "connect" => since'[q] < stamp'[q] + Second
       /\ client'[q] = "headers" => since'[q] < stamp'[q] + Second + Limit[q]
       /\ client'[q] = "body" => since'[q] < stamp'[q] + Second + Limit[q] + Limit[q]
       /\ client'[q] = "receive" => since'[q] < stamp'[q] + Second + Limit[q] + Limit[q] + Limit[q]
    BY DEF AgeInv, Sign
  <2>1. CASE q # r
    <3>1. client'[q] = client[q] /\ since'[q] = since[q] /\ stamp'[q] = stamp[q]
      BY <2>1 DEF Sign, ServerInv, ServerTypeOK
    <3> QED
      BY <3>1 DEF ServerInv, AgeInv, Waits
  <2>2. CASE q = r
    <3>1. client'[r] = "connect" /\ since'[r] = now /\ stamp'[r] = s
      BY DEF Sign, ServerInv, ServerTypeOK
    <3> QED
      BY <1>1, <2>2, <3>1 DEF ServerInv, ServerTypeOK
  <2> QED
    BY <2>1, <2>2
<1>6. NonceInv'
  BY <1>1, <1>2 DEF Sign, ServerInv, ServerTypeOK, NonceInv
<1>7. AcceptedOnce' /\ RefusedOnlyIfStale'
  BY DEF Sign, ServerInv, AcceptedOnce, RefusedOnlyIfStale
<1> QED
  BY <1>3, <1>4, <1>5, <1>6, <1>7 DEF ServerInv

\* An operation returns within its time-out, and the next one begins.
LEMMA AdvanceInv ==
  ASSUME NEW r \in Requests
  PROVE  ServerInv /\ (Connects(r) \/ SendsHeaders(r) \/ SendsBody(r)) => ServerInv'
<1> SUFFICES ASSUME ServerInv, Connects(r) \/ SendsHeaders(r) \/ SendsBody(r)
             PROVE  ServerInv'
  OBVIOUS
<1> USE ServerAssumption DEF ServerInv
<1>1. PICK from \in Operations, to \in Operations :
         /\ Advances(r, from, to)
         /\ <<from, to>> \in {<<"connect", "headers">>, <<"headers", "body">>, <<"body", "receive">>}
  BY DEF Connects, SendsHeaders, SendsBody, Operations
<1>2. sent \subseteq sent' /\ sent' \subseteq sent \cup {r}
  BY DEF Connects, SendsHeaders, SendsBody
<1>3. client' = [client EXCEPT ![r] = to] /\ since' = [since EXCEPT ![r] = now] /\ client[r] = from
      /\ UNCHANGED <<now, stamp, server, nonces, arriving, running, accepted, vain, starts>>
  BY <1>1 DEF Advances
<1>4. ServerTypeOK'
  BY <1>1, <1>2, <1>3 DEF ServerTypeOK
<1>5. StampInv'
  BY <1>1, <1>2, <1>3 DEF StampInv, ServerTypeOK, Operations
<1>6. AgeInv'
  <2> SUFFICES ASSUME NEW q \in Requests PROVE
       /\ Waits(q)' => since'[q] <= now /\ now <= since'[q] + Limit[q]
       /\ client'[q] = "connect" => since'[q] < stamp[q] + Second
       /\ client'[q] = "headers" => since'[q] < stamp[q] + Second + Limit[q]
       /\ client'[q] = "body" => since'[q] < stamp[q] + Second + Limit[q] + Limit[q]
       /\ client'[q] = "receive" => since'[q] < stamp[q] + Second + Limit[q] + Limit[q] + Limit[q]
    BY <1>3 DEF AgeInv
  <2>1. CASE q # r
    BY <1>3, <2>1 DEF AgeInv, Waits, ServerTypeOK
  <2>2. CASE q = r
    <3>1. Waits(r) /\ stamp[r] \in Nat /\ since[r] \in Nat /\ now \in Nat /\ Limit[r] \in Nat /\ Second \in Nat
      BY <1>1, <1>3 DEF Waits, ServerTypeOK, StampInv, Operations
    <3>2. now <= since[r] + Limit[r]
      BY <3>1 DEF AgeInv
    <3>3. client'[r] = to /\ since'[r] = now
      BY <1>3 DEF ServerTypeOK
    <3> QED
      BY <1>1, <1>3, <2>2, <3>1, <3>2, <3>3 DEF AgeInv
  <2> QED
    BY <2>1, <2>2
<1>7. NonceInv' /\ AcceptedOnce' /\ RefusedOnlyIfStale'
  BY <1>3 DEF NonceInv, AcceptedOnce, RefusedOnlyIfStale
<1> QED
  BY <1>4, <1>5, <1>6, <1>7

\* The sweep removes a nonce only when its time stamp is out of the window.
LEMMA SweepInv ==
  ASSUME ServerInv, NEW r \in Requests
  PROVE  /\ Swept \in [Requests -> Nat \cup {None}]
         /\ Swept[r] # None => Swept[r] = nonces[r]
         /\ accepted[r] > 0 =>
               \/ Swept[r] # None /\ stamp[r] + Window <= Swept[r]
               \/ stamp[r] + Window < now
  BY ServerAssumption DEF Swept, Expired, ServerInv, ServerTypeOK, StampInv, NonceInv

\* A request is accepted for the first time, and its nonce is remembered until
\* its time stamp is out of the window.
LEMMA AcceptInv == ASSUME NEW r \in Requests PROVE ServerInv /\ Accept(r) => ServerInv'
<1> SUFFICES ASSUME ServerInv, Accept(r) PROVE ServerInv'
  OBVIOUS
<1> USE ServerAssumption
<1> USE DEF clientVars
<1>1. stamp[r] # None /\ stamp[r] \in Nat /\ stamp[r] <= now
  BY DEF Accept, ServerInv, ServerTypeOK, StampInv
<1>2. accepted[r] = 0
  BY <1>1, SweepInv DEF Accept, InWindow, ServerInv, ServerTypeOK
<1>3. Swept \in [Requests -> Nat \cup {None}]
  BY SweepInv
<1>4. ServerTypeOK'
  BY <1>3, SweepInv DEF Accept, ServerInv, ServerTypeOK
<1>5. StampInv' /\ AgeInv'
  BY DEF Accept, ServerInv, StampInv, AgeInv, Waits
<1>6. NonceInv'
  <2> SUFFICES ASSUME NEW q \in Requests
               PROVE  /\ nonces'[q] # None => accepted'[q] > 0
                      /\ accepted'[q] > 0 =>
                            /\ stamp[q] # None
                            /\ \/ nonces'[q] # None /\ stamp[q] + Window <= nonces'[q]
                               \/ stamp[q] + Window < now
    BY DEF NonceInv, Accept
  <2>1. CASE q = r
    BY <1>1, <1>2, <1>3, <2>1 DEF Accept, ServerInv, ServerTypeOK
  <2>2. CASE q # r
    BY <1>3, <2>2, SweepInv DEF Accept, ServerInv, ServerTypeOK, NonceInv
  <2> QED
    BY <2>1, <2>2
<1>7. AcceptedOnce' /\ RefusedOnlyIfStale'
  BY <1>2 DEF Accept, ServerInv, ServerTypeOK, AcceptedOnce, RefusedOnlyIfStale
<1> QED
  BY <1>4, <1>5, <1>6, <1>7 DEF ServerInv

\* What an answer changes: the client ends its operation, or nothing.
LEMMA TellInv ==
  ASSUME ServerInv, NEW r \in Requests, NEW outcome \in {"answered", "failed"}, Tell(r, outcome),
         now' = now
  PROVE  /\ client' \in [Requests -> Operations \cup {"idle", "answered", "failed"}]
         /\ since' \in [Requests -> Nat]
         /\ \A q \in Requests : client'[q] = "idle" <=> client[q] = "idle"
         /\ stamp' = stamp /\ sent' = sent
         /\ AgeInv'
<1>0. stamp' = stamp /\ sent' = sent
  BY DEF Tell
<1>1. CASE UNCHANGED <<client, since>>
  BY <1>0, <1>1 DEF ServerInv, ServerTypeOK, AgeInv, Waits
<1>2. CASE Waits(r) /\ client' = [client EXCEPT ![r] = outcome] /\ since' = [since EXCEPT ![r] = 0]
  <2>1. outcome \notin Operations /\ outcome # "idle" /\ client[r] # "idle"
    BY <1>2 DEF Operations, Waits
  <2> QED
    BY <1>0, <1>2, <2>1 DEF ServerInv, ServerTypeOK, AgeInv, Waits, Operations
<1> QED
  BY <1>1, <1>2 DEF Tell

\* A refused request was accepted before, its client has given up, or the age of
\* its time stamp is at most what its operations can take.
LEMMA RefuseInv == ASSUME NEW r \in Requests PROVE ServerInv /\ Refuse(r) => ServerInv'
<1> SUFFICES ASSUME ServerInv, Refuse(r) PROVE ServerInv'
  OBVIOUS
<1> USE ServerAssumption
<1>1. Swept \in [Requests -> Nat \cup {None}]
  BY SweepInv
<1>2. stamp[r] # None /\ stamp[r] \in Nat /\ stamp[r] <= now
  BY DEF Refuse, ServerInv, ServerTypeOK, StampInv
<1>3. /\ client' \in [Requests -> Operations \cup {"idle", "answered", "failed"}]
      /\ since' \in [Requests -> Nat]
      /\ \A q \in Requests : client'[q] = "idle" <=> client[q] = "idle"
      /\ stamp' = stamp /\ sent' = sent
      /\ AgeInv'
  BY TellInv DEF Refuse
<1>4. ServerTypeOK'
  BY <1>1, <1>3, SweepInv DEF Refuse, ServerInv, ServerTypeOK
<1>5. StampInv'
  BY <1>3 DEF Refuse, ServerInv, StampInv
<1>6. NonceInv'
  BY <1>1, <1>3, SweepInv DEF Refuse, ServerInv, ServerTypeOK, NonceInv
<1>7. AcceptedOnce'
  BY DEF Refuse, ServerInv, AcceptedOnce
<1>8. RefusedOnlyIfStale'
  <2>1. CASE accepted[r] = 0 /\ Waits(r)
    <3>1. Swept[r] = None
      BY <2>1, SweepInv DEF ServerInv, ServerTypeOK, NonceInv
    <3>2. stamp[r] + Window < now
      BY <1>2, <3>1 DEF Refuse, InWindow, ServerInv, ServerTypeOK
    <3>3. /\ since[r] \in Nat /\ Limit[r] \in Nat /\ now \in Nat /\ now <= since[r] + Limit[r]
          /\ since[r] < stamp[r] + Second + Limit[r] + Limit[r] + Limit[r]
      BY <1>2, <2>1 DEF ServerInv, ServerTypeOK, AgeInv, Waits, Operations
    <3>4. Window < 4 * Limit[r] + Second
      BY <1>2, <3>2, <3>3
    <3> QED
      BY <3>4 DEF Refuse, ServerInv, RefusedOnlyIfStale
  <2>2. CASE ~(accepted[r] = 0 /\ Waits(r))
    BY <2>2 DEF Refuse, ServerInv, RefusedOnlyIfStale
  <2> QED
    BY <2>1, <2>2
<1> QED
  BY <1>3, <1>4, <1>5, <1>6, <1>7, <1>8 DEF ServerInv

\* Arrivals, failed reads and answers.
LEMMA TrafficInv ==
  ASSUME NEW r \in Requests
  PROVE  ServerInv /\ (Arrive(r) \/ ReadFails(r) \/ Respond(r)) => ServerInv'
<1> SUFFICES ASSUME ServerInv, Arrive(r) \/ ReadFails(r) \/ Respond(r) PROVE ServerInv'
  OBVIOUS
<1> USE DEF ServerInv, ServerTypeOK, StampInv, NonceInv, AcceptedOnce, RefusedOnlyIfStale
<1>1. CASE Arrive(r)
  BY <1>1 DEF Arrive, clientVars, AgeInv, Waits
<1>2. CASE ReadFails(r)
  <2>1. Tell(r, "failed") /\ now' = now
    BY <1>2 DEF ReadFails
  <2> QED
    BY <1>2, <2>1, TellInv DEF ReadFails
<1>3. CASE Respond(r)
  <2>1. Tell(r, "answered") /\ now' = now
    BY <1>3 DEF Respond
  <2> QED
    BY <1>3, <2>1, TellInv DEF Respond
<1> QED
  BY <1>1, <1>2, <1>3

\* gateway_request raises.
LEMMA FailInv ==
  ASSUME NEW r \in Requests
  PROVE  ServerInv /\ (ConnectFails(r) \/ OperationTimesOut(r)) => ServerInv'
<1> SUFFICES ASSUME ServerInv, Waits(r), Fails(r) PROVE ServerInv'
  BY DEF ConnectFails, OperationTimesOut, Waits, Operations
<1> USE DEF ServerInv, ServerTypeOK, Fails
<1>1. client[r] # "idle" /\ "failed" \notin Operations
  BY DEF Waits, Operations
<1>2. ServerTypeOK' /\ StampInv'
  BY <1>1 DEF StampInv
<1>3. AgeInv'
  BY <1>1 DEF AgeInv, Waits
<1>4. NonceInv' /\ AcceptedOnce' /\ RefusedOnlyIfStale'
  BY DEF NonceInv, AcceptedOnce, RefusedOnlyIfStale
<1> QED
  BY <1>2, <1>3, <1>4

\* The process ends, with the map and with what it has accepted; or it starts.
LEMMA LifeInv ==
  ServerInv /\ (Sigterm \/ CloseExits \/ TimerExits \/ Crash \/ Start) => ServerInv'
<1> SUFFICES ASSUME ServerInv, Sigterm \/ Start \/ Exits PROVE ServerInv'
  BY DEF CloseExits, TimerExits, Crash
<1> USE ServerAssumption DEF ServerInv, ServerTypeOK, StampInv, NonceInv, AcceptedOnce,
                             RefusedOnlyIfStale
<1>1. CASE Sigterm
  BY <1>1 DEF Sigterm, clientVars, AgeInv, Waits
<1>2. CASE Start
  BY <1>2 DEF Start, clientVars, AgeInv, Waits
<1>3. CASE Exits
  <2>1. \A r \in Requests : ~Waits(r)' /\ (client'[r] = "idle" <=> client[r] = "idle")
    BY <1>3 DEF Exits, Waits, Operations
  <2>2. AgeInv'
    BY <2>1 DEF AgeInv, Waits, Operations
  <2> QED
    BY <1>3, <2>1, <2>2 DEF Exits, Operations
<1> QED
  BY <1>1, <1>2, <1>3

\* The invariant of the server holds in every reachable state.
THEOREM ServerInvariance == ServerSpec => []ServerInv
<1>1. ServerInv /\ [ServerNext]_serverVars => ServerInv'
  <2> SUFFICES ASSUME ServerInv, [ServerNext]_serverVars PROVE ServerInv'
    OBVIOUS
  <2>1. CASE UNCHANGED serverVars
    BY <2>1 DEF serverVars, clientVars, ServerInv, ServerTypeOK, StampInv, AgeInv, NonceInv,
       AcceptedOnce, RefusedOnlyIfStale, Waits
  <2>2. CASE ServerNext
    BY <2>2, ClockInv, SignInv, AdvanceInv, FailInv, AcceptInv, RefuseInv, TrafficInv, LifeInv
       DEF ServerNext
  <2> QED
    BY <2>1, <2>2
<1> QED
  BY InitInv, <1>1, PTL DEF ServerSpec

\* Types of clock, requests, nonces and history (server.mjs, gateway_client.py).
THEOREM ServerTypes == ServerSpec => []ServerTypeOK
<1>1. ServerInv => ServerTypeOK
  BY DEF ServerInv
<1> QED
  BY ServerInvariance, <1>1, PTL

\* authenticate accepts a signed request once in the life of a server process.
THEOREM ReplayResistance == ServerSpec => []AcceptedOnce
<1>1. ServerInv => AcceptedOnce
  BY DEF ServerInv
<1> QED
  BY ServerInvariance, <1>1, PTL

\* authenticate refuses no request for the first time while its client waits,
\* unless the operations of the client can together outlast the window.
THEOREM NoVainRefusal == ServerSpec => []RefusedOnlyIfStale
<1>1. ServerInv => RefusedOnlyIfStale
  BY DEF ServerInv
<1> QED
  BY ServerInvariance, <1>1, PTL

=============================================================================
