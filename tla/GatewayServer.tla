---------------------------- MODULE GatewayServer ----------------------------
(***************************************************************************)
(* The socket between the site and the gateway: gateway_request signs a    *)
(* request with the second it is made in and a nonce, connects, sends      *)
(* headers and body and waits for the answer; the server reads the body,   *)
(* authenticates it (once per nonce, in a window around the time stamp),   *)
(* runs the handler and answers; SIGTERM closes the server                 *)
(* (gateway_client.py, server.mjs, verifyRequest of core.mjs).  Both       *)
(* processes read the clock of one machine.                                *)
(*                                                                         *)
(* A request may arrive late, and more than once.  What handlers do is in  *)
(* GatewayJobs and Connections; here they take any time and end.  An       *)
(* answer is received at once when its first bytes are.                    *)
(***************************************************************************)
EXTENDS Naturals, FiniteSets

CONSTANTS
    Requests,    \* one call of gateway_request each, with a nonce of its own
    Limit,       \* request -> its time-out (30, 60, 75 or 180 s)
    None,
    Second,      \* clock readings per second of the time stamp
    Window,      \* 300 s of verifyRequest and of the nonce map
    MaxTime,     \* bound: the last reading of the clock
    MaxStarts    \* bound: starts of the server

ASSUME ServerAssumption ==
    /\ Limit \in [Requests -> Nat]
    /\ Second \in Nat \ {0} /\ Window \in Nat
    /\ MaxTime \in Nat /\ MaxStarts \in Nat
    /\ None \notin Nat

VARIABLES
    now,        \* the clock
    stamp,      \* request -> its time stamp
    client,     \* request -> state of gateway_request
    since,      \* request -> when its operation began, 0 if it is in none
    sent,       \* requests whose body was handed to the socket completely
    server,     \* "up", "closing" after SIGTERM, "down"
    nonces,     \* seenNonces: request -> expiry, None if not in the map
    arriving,   \* requests whose body is being read
    running,    \* requests whose handler runs
    accepted,   \* history: request -> times accepted since the server started
    vain,       \* history: requests first refused while they were waited for
    starts

clientVars == <<stamp, client, since, sent>>
serverVars == <<now, clientVars, server, nonces, arriving, running, accepted, vain, starts>>

ServerInit ==
    /\ now = 0
    /\ stamp = [r \in Requests |-> None]
    /\ client = [r \in Requests |-> "idle"]
    /\ since = [r \in Requests |-> 0]
    /\ sent = {}
    /\ server = "up"
    /\ nonces = [r \in Requests |-> None]
    /\ arriving = {} /\ running = {}
    /\ accepted = [r \in Requests |-> 0]
    /\ vain = {}
    /\ starts = 0

-----------------------------------------------------------------------------
(* gateway_request *)

\* The operations on the socket, each of which has the whole time-out.
Operations == {"connect", "headers", "body", "receive"}
Waits(r) == client[r] \in Operations

\* int(time.time()): the second that has begun.
WholeSeconds(t) == {s \in 0 .. t : s % Second = 0 /\ t < s + Second}

Sign(r) ==
    /\ client[r] = "idle"
    /\ \E s \in WholeSeconds(now) : stamp' = [stamp EXCEPT ![r] = s]
    /\ client' = [client EXCEPT ![r] = "connect"]
    /\ since' = [since EXCEPT ![r] = now]
    /\ UNCHANGED <<now, sent, server, nonces, arriving, running, accepted, vain, starts>>

\* An operation returns and the next begins.
Advances(r, from, to) ==
    /\ client[r] = from
    /\ client' = [client EXCEPT ![r] = to]
    /\ since' = [since EXCEPT ![r] = now]
    /\ UNCHANGED <<now, stamp, server, nonces, arriving, running, accepted, vain, starts>>

Connects(r) == server = "up" /\ Advances(r, "connect", "headers") /\ UNCHANGED sent
SendsHeaders(r) == Advances(r, "headers", "body") /\ UNCHANGED sent
SendsBody(r) == Advances(r, "body", "receive") /\ sent' = sent \cup {r}

Fails(r) ==
    /\ client' = [client EXCEPT ![r] = "failed"]
    /\ since' = [since EXCEPT ![r] = 0]
    /\ UNCHANGED <<now, stamp, sent, server, nonces, arriving, running, accepted,
                   vain, starts>>

\* Nobody listens.
ConnectFails(r) == client[r] = "connect" /\ server # "up" /\ Fails(r)

\* settimeout: the request may still arrive and be served.
TimedOut(r) == now >= since[r] + Limit[r]
OperationTimesOut(r) == Waits(r) /\ TimedOut(r) /\ Fails(r)

\* No operation waits beyond its time-out, and between two of them the client
\* takes no time.
ClockTicks ==
    /\ now < MaxTime
    /\ \A r \in Requests : Waits(r) => ~TimedOut(r)
    /\ now' = now + 1
    /\ UNCHANGED <<clientVars, server, nonces, arriving, running, accepted, vain, starts>>

-----------------------------------------------------------------------------
(* The request handler: readBody, authenticate, the route, json *)

\* The headers are there, on the connection of the client or once more.
Arrive(r) ==
    /\ \/ server # "down" /\ client[r] \in {"body", "receive"}
       \/ server = "up" /\ r \in sent
    /\ r \notin arriving
    /\ arriving' = arriving \cup {r}
    /\ UNCHANGED <<now, clientVars, server, nonces, running, accepted, vain, starts>>

\* The sweep of the map, at the start of every authentication.
Expired(r) == nonces[r] # None /\ nonces[r] < now
Swept == [r \in Requests |-> IF Expired(r) THEN None ELSE nonces[r]]

\* verifyRequest: Math.abs(now - timestamp) within the window.
InWindowM(r) == now <= stamp[r] + Window + Second
InWindowN(r) == now <= stamp[r] + Limit[r]
InWindow(r) == now <= stamp[r] + Window /\ stamp[r] <= now + Window

Accept(r) ==
    /\ r \in arriving \cap sent
    /\ Swept[r] = None /\ InWindow(r)
    /\ nonces' = [Swept EXCEPT ![r] = now + Window]
    /\ arriving' = arriving \ {r}
    /\ running' = running \cup {r}
    /\ accepted' = [accepted EXCEPT ![r] = @ + 1]
    /\ UNCHANGED <<now, clientVars, server, vain, starts>>

\* An answer reaches the client, unless it has given up or this was not the
\* connection it waits on.
Tell(r, outcome) ==
    /\ \/ UNCHANGED <<client, since>>
       \/ /\ Waits(r)
          /\ client' = [client EXCEPT ![r] = outcome]
          /\ since' = [since EXCEPT ![r] = 0]
    /\ UNCHANGED <<stamp, sent>>

\* 401; the client raises.
Refuse(r) ==
    /\ r \in arriving \cap sent
    /\ Swept[r] # None \/ ~InWindow(r)
    /\ nonces' = Swept
    /\ arriving' = arriving \ {r}
    /\ Tell(r, "failed")
    /\ vain' = IF accepted[r] = 0 /\ Waits(r) THEN vain \cup {r} ELSE vain
    /\ UNCHANGED <<now, server, running, accepted, starts>>

\* The body is too large, or its connection is lost.
ReadFails(r) ==
    /\ r \in arriving
    /\ arriving' = arriving \ {r}
    /\ Tell(r, "failed")
    /\ UNCHANGED <<now, server, nonces, running, accepted, vain, starts>>

\* 200, 400 or 404.
Respond(r) ==
    /\ r \in running
    /\ running' = running \ {r}
    /\ Tell(r, "answered")
    /\ UNCHANGED <<now, server, nonces, arriving, accepted, vain, starts>>

-----------------------------------------------------------------------------
(* shutdown, and a start *)

Sigterm ==
    /\ server = "up"
    /\ server' = "closing"
    /\ UNCHANGED <<now, clientVars, nonces, arriving, running, accepted, vain, starts>>

\* server.close calls back when the last connection has ended; the timer exits
\* after 5 s whatever runs; and the process may be killed or crash.
Exits ==
    /\ server' = "down"
    /\ arriving' = {} /\ running' = {}
    /\ nonces' = [r \in Requests |-> None]
    /\ accepted' = [r \in Requests |-> 0]
    /\ client' = [r \in Requests |-> IF Waits(r) THEN "failed" ELSE client[r]]
    /\ since' = [r \in Requests |-> 0]
    /\ UNCHANGED <<now, stamp, sent, vain, starts>>

CloseExits == server = "closing" /\ arriving \cup running = {} /\ Exits
TimerExits == server = "closing" /\ Exits
Crash == server # "down" /\ Exits

Start ==
    /\ server = "down" /\ starts < MaxStarts
    /\ server' = "up"
    /\ starts' = starts + 1
    /\ UNCHANGED <<now, clientVars, nonces, arriving, running, accepted, vain>>

ServerNext ==
    \/ ClockTicks
    \/ \E r \in Requests :
         \/ Sign(r)
         \/ Connects(r)
         \/ ConnectFails(r)
         \/ SendsHeaders(r)
         \/ SendsBody(r)
         \/ OperationTimesOut(r)
         \/ Arrive(r)
         \/ Accept(r)
         \/ Refuse(r)
         \/ ReadFails(r)
         \/ Respond(r)
    \/ Sigterm
    \/ CloseExits
    \/ TimerExits
    \/ Crash
    \/ Start

ServerSpec == ServerInit /\ [][ServerNext]_serverVars

-----------------------------------------------------------------------------
(* Properties *)

\* Types; no nonce is kept for longer than the window.
ServerTypeOK ==
    /\ now \in Nat
    /\ stamp \in [Requests -> Nat \cup {None}]
    /\ client \in [Requests -> Operations \cup {"idle", "answered", "failed"}]
    /\ since \in [Requests -> Nat]
    /\ sent \subseteq Requests
    /\ server \in {"up", "closing", "down"}
    /\ nonces \in [Requests -> Nat \cup {None}]
    /\ \A r \in Requests : nonces[r] # None => nonces[r] <= now + Window
    /\ arriving \subseteq Requests /\ running \subseteq Requests
    /\ accepted \in [Requests -> Nat]
    /\ vain \subseteq Requests
    /\ starts \in Nat

\* "Signed replay-resistant requests": however late and often a request arrives,
\* a server accepts it once.  The nonce is forgotten only when the time stamp is
\* out of the window, at the same reading of the clock.
AcceptedOnce == \A r \in Requests : accepted[r] <= 1

\* Whom the window turns away in vain: a request that is refused was accepted
\* before, or its client has given up, or the four operations that may precede
\* the check (connect, headers, body, and the wait for an answer) can together
\* last longer than the window, less the part of a second the time stamp drops.
\* So none with a time-out of 30 or 60 s; one of 75 or 180 s may be.
RefusedOnlyIfStale == \A r \in vain : Window < 4 * Limit[r] + Second

=============================================================================
