---------------------------- MODULE Connections ----------------------------
(***************************************************************************)
(* The connection of one site: the linked device (Baileys socket, stored   *)
(* credentials, reconnect timers) and the Official API credentials, as     *)
(* gateway.mjs (connect, disconnect, connection.update, configureCloud,    *)
(* testCloud, initialize) and the secrets table of store.mjs keep them.    *)
(* Everything is keyed by tenant, so one tenant is modelled.               *)
(*                                                                         *)
(* The event loop interleaves at every await: the version request of       *)
(* connect, the rendering of a QR code, logout, and the test request to    *)
(* Meta.  A socket is created once per connect; an id stands for the call  *)
(* from its start on and is used again when nothing refers to it.  When a  *)
(* second connect comes before the first has its socket, both get one, and *)
(* the one that is no longer in the sessions map is an orphan: alive, its  *)
(* connection updates ignored, its credential updates still saved.         *)
(***************************************************************************)
EXTENDS Naturals, FiniteSets

CONSTANTS
    Managers,    \* requests of site managers that are open at the same time
    Sockets,     \* bound: sockets that exist at the same time
    None,        \* no socket
    Boot,        \* the caller initialize
    MaxCrashes   \* bound: restarts of the gateway

Providers == {"Baileys", "Official API"}
Callers == Managers \cup {Boot}

ASSUME ConnectionsAssumption ==
    /\ None \notin Sockets /\ Boot \notin Managers
    /\ IsFiniteSet(Sockets) /\ MaxCrashes \in Nat

VARIABLES
    creds,       \* stored linked-device credentials: none, new or linked
    cloud,       \* Official API credentials are stored
    status,      \* provider -> status ("connected" is status = "Connected")
    session,     \* the socket in the sessions map
    sock,        \* socket -> its life, credentials and flags
    rendering,   \* sockets whose QR code is being rendered
    calls,       \* caller -> what it waits for
    boot,        \* how far initialize is
    unlinked,    \* history: disconnect finished; no connect request, no pairing since
    crashes

vars == <<creds, cloud, status, session, sock, rendering, calls, boot,
          unlinked, crashes>>

Socket == [life : {"free", "starting", "live"},
           auth : {"new", "linked"},            \* creds object in memory
           by : {"request", "timer", "boot"},   \* who called connect
           stop : BOOLEAN,                      \* manualStop
           timer : BOOLEAN]                     \* reconnectTimer is pending
NoSocket == [life |-> "free", auth |-> "new", by |-> "request",
             stop |-> FALSE, timer |-> FALSE]

\* What a caller waits for: nothing, the test request to Meta, or the logout
\* of a socket on behalf of disconnect for a provider.
CallState == [on : {"nothing", "test", "logout"},
              socket : Sockets \cup {None}, provider : Providers]
Idle == [on |-> "nothing", socket |-> None, provider |-> "Baileys"]
Testing == [Idle EXCEPT !.on = "test"]
LoggingOut(s, p) == [on |-> "logout", socket |-> s, provider |-> p]

Init ==
    /\ creds = "none" /\ cloud = FALSE
    /\ status = [p \in Providers |-> "Disconnected"]
    /\ session = None
    /\ sock = [s \in Sockets |-> NoSocket]
    /\ rendering = {}
    /\ calls = [c \in Callers |-> Idle]
    /\ boot = "done"
    /\ unlinked = FALSE
    /\ crashes = 0

setStatus(p, s) == status' = [status EXCEPT ![p] = s]

\* The secrets table: what a socket starts with, and what an unlink deletes.
baileysAuthState == IF creds = "linked" THEN "linked" ELSE "new"
deleteSecrets == creds' = "none" /\ cloud' = FALSE

-----------------------------------------------------------------------------
(* connect *)

Fresh(s) ==
    /\ sock[s].life = "free" /\ ~sock[s].timer
    /\ s \notin rendering
    /\ \A c \in Callers : calls[c].socket # s

\* The part of connect before its first wait; the stored credentials are read
\* here.  connect returns at once when the map has a session.
connect(s, by, timers) ==
    /\ session = None
    /\ Fresh(s)
    /\ setStatus("Baileys", "Connecting")
    /\ sock' = [timers EXCEPT ![s] =
            [NoSocket EXCEPT !.life = "starting", !.by = by,
                             !.auth = baileysAuthState]]

\* A manager asks for a connection, or a message to be sent does.
ConnectRequest(s) ==
    /\ connect(s, "request", sock)
    /\ unlinked' = FALSE
    /\ UNCHANGED <<creds, cloud, session, rendering, calls, boot, crashes>>

\* The version is known, or not: makeWASocket, and the session is recorded,
\* whatever the map holds by now.
SocketCreated(s) ==
    /\ sock[s].life = "starting"
    /\ sock' = [sock EXCEPT ![s].life = "live", ![s].by = "request"]
    /\ session' = s
    /\ UNCHANGED <<creds, cloud, status, rendering, calls, boot, unlinked, crashes>>

\* connect throws: the timer and initialize record it, a request does not.
ConnectThrows(s) ==
    /\ sock[s].life = "starting"
    /\ sock' = [sock EXCEPT ![s] = NoSocket]
    /\ IF sock[s].by = "request" THEN UNCHANGED status
                                 ELSE setStatus("Baileys", "Error")
    /\ UNCHANGED <<creds, cloud, session, rendering, calls, boot, unlinked, crashes>>

-----------------------------------------------------------------------------
(* Events of a socket *)

\* connection.update with a QR code, which is rendered first.
QrReceived(s) ==
    /\ sock[s].life = "live" /\ sock[s].auth = "new"
    /\ session = s
    /\ s \notin rendering
    /\ rendering' = rendering \cup {s}
    /\ UNCHANGED <<creds, cloud, status, session, sock, calls, boot, unlinked, crashes>>

QrRendered(s) ==
    /\ s \in rendering
    /\ rendering' = rendering \ {s}
    /\ setStatus("Baileys", "QR Ready")
    /\ UNCHANGED <<creds, cloud, session, sock, calls, boot, unlinked, crashes>>

SocketOpened(s) ==
    /\ sock[s].life = "live" /\ sock[s].auth = "linked"
    /\ session = s
    /\ setStatus("Baileys", "Connected")
    /\ UNCHANGED <<creds, cloud, session, sock, rendering, calls, boot, unlinked, crashes>>

\* creds.update: the socket's credentials, paired just now or not, are saved.
CredsUpdated(s, paired) ==
    /\ sock[s].life = "live"
    /\ paired => sock[s].auth = "new"
    /\ sock' = [sock EXCEPT ![s].auth = IF paired THEN "linked" ELSE @]
    /\ creds' = sock'[s].auth
    /\ unlinked' = (unlinked /\ ~paired)
    /\ UNCHANGED <<cloud, status, session, rendering, calls, boot, crashes>>

\* connection.update "close".
SocketClosedM(s, expired) ==
    /\ sock[s].life = "live"
    /\ session' = None
    /\ IF sock[s].stop
       THEN sock' = [sock EXCEPT ![s] = NoSocket] /\ UNCHANGED status
       ELSE /\ sock' = [sock EXCEPT ![s] = [NoSocket EXCEPT !.timer = ~expired]]
            /\ setStatus("Baileys", IF expired THEN "Authentication expired"
                                    ELSE "Reconnecting")
    /\ UNCHANGED <<creds, cloud, rendering, calls, boot, unlinked, crashes>>
SocketClosedN(s, expired) ==
    /\ sock[s].life = "live"
    /\ sock' = [sock EXCEPT ![s] = [NoSocket EXCEPT !.timer = session = s /\ ~sock[s].stop /\ ~expired]]
    /\ session' = IF session = s /\ ~sock[s].stop THEN None ELSE session
    /\ IF session = s /\ ~sock[s].stop
       THEN setStatus("Baileys", IF expired THEN "Authentication expired" ELSE "Reconnecting")
       ELSE UNCHANGED status
    /\ UNCHANGED <<creds, cloud, rendering, calls, boot, unlinked, crashes>>
SocketClosed(s, expired) ==
    /\ sock[s].life = "live"
    /\ IF session # s
       THEN /\ sock' = [sock EXCEPT ![s] = NoSocket]
            /\ UNCHANGED <<session, status>>
       ELSE /\ session' = None
            /\ IF sock[s].stop
               THEN sock' = [sock EXCEPT ![s] = NoSocket] /\ UNCHANGED status
               ELSE /\ sock' = [sock EXCEPT ![s] = [NoSocket EXCEPT !.timer = ~expired]]
                    /\ setStatus("Baileys", IF expired THEN "Authentication expired"
                                            ELSE "Reconnecting")
    /\ UNCHANGED <<creds, cloud, rendering, calls, boot, unlinked, crashes>>

\* The 10 s timer of a closed socket calls connect.
TimerFiresM(s) ==
    /\ sock[s].timer
    /\ sock' = [sock EXCEPT ![s].timer = FALSE]
    /\ UNCHANGED <<creds, cloud, status, session, rendering, calls, boot, unlinked, crashes>>
TimerFires(s) ==
    /\ sock[s].timer
    /\ LET fired == [sock EXCEPT ![s].timer = FALSE]
       IN  \/ session # None /\ sock' = fired /\ UNCHANGED status
           \/ \E n \in Sockets : connect(n, "timer", fired)
    /\ UNCHANGED <<creds, cloud, session, rendering, calls, boot, unlinked, crashes>>

-----------------------------------------------------------------------------
(* disconnect *)

\* The end of disconnect: whatever session is in the map by now is dropped, all
\* secrets of the tenant are deleted, and one provider's status is set.
Unlink(c, p) ==
    /\ session' = None
    /\ deleteSecrets
    /\ setStatus(p, "Disconnected")
    /\ calls' = [calls EXCEPT ![c] = Idle]
    /\ unlinked' = TRUE
    /\ UNCHANGED <<rendering, boot, crashes>>

\* Without a session there is nothing to log out (and no timer is found).
DisconnectRequest(c, p) ==
    /\ calls[c] = Idle
    /\ IF session = None
       THEN Unlink(c, p) /\ UNCHANGED sock
       ELSE /\ sock' = [sock EXCEPT ![session].stop = TRUE]
            /\ calls' = [calls EXCEPT ![c] = LoggingOut(session, p)]
            /\ UNCHANGED <<creds, cloud, status, session, rendering, boot, unlinked, crashes>>

\* logout has closed the socket, or failed and end() has.
LogoutReturns(c) ==
    /\ calls[c].on = "logout"
    /\ sock' = IF sock[calls[c].socket].life = "live"
               THEN [sock EXCEPT ![calls[c].socket] = NoSocket] ELSE sock
    /\ Unlink(c, calls[c].provider)

-----------------------------------------------------------------------------
(* Official API *)

\* testCloud up to its request.
testCloud(c) ==
    /\ setStatus("Official API", "Connecting")
    /\ calls' = [calls EXCEPT ![c] = Testing]

\* configureCloud, its validations passed; or connect for the Official API.
CloudRequest(c, configure) ==
    /\ calls[c] = Idle /\ c # Boot
    /\ cloud' = (cloud \/ configure)
    /\ testCloud(c)
    /\ UNCHANGED <<creds, session, sock, rendering, boot, unlinked, crashes>>

\* Meta answers, or the request fails or times out; the credentials it was made
\* with may be gone by now.
CloudAnswers(c, ok) ==
    /\ calls[c].on = "test"
    /\ setStatus("Official API", IF ok THEN "Connected" ELSE "Error")
    /\ calls' = [calls EXCEPT ![c] = Idle]
    /\ UNCHANGED <<creds, cloud, session, sock, rendering, boot, unlinked, crashes>>

-----------------------------------------------------------------------------
(* Restart *)

\* Only the secrets table survives; initialize looks there for linked devices.
Restart ==
    /\ crashes < MaxCrashes
    /\ crashes' = crashes + 1
    /\ status' = [p \in Providers |-> "Disconnected"]
    /\ session' = None
    /\ sock' = [s \in Sockets |-> NoSocket]
    /\ rendering' = {}
    /\ calls' = [c \in Callers |-> Idle]
    /\ boot' = IF creds = "none" THEN "cloud" ELSE "baileys"
    /\ UNCHANGED <<creds, cloud, unlinked>>

\* initialize connects the device, after those of other tenants, ...
BootConnect ==
    /\ boot = "baileys"
    /\ IF session # None
       THEN UNCHANGED <<status, sock>>
       ELSE \E s \in Sockets : connect(s, "boot", sock)
    /\ boot' = "cloud"
    /\ UNCHANGED <<creds, cloud, session, rendering, calls, unlinked, crashes>>

\* ... and, when that has returned, tests the Official API.
BootCloud ==
    /\ boot = "cloud"
    /\ \A s \in Sockets : ~(sock[s].life = "starting" /\ sock[s].by = "boot")
    /\ boot' = "done"
    /\ UNCHANGED cloud
    /\ IF cloud THEN testCloud(Boot) ELSE UNCHANGED <<status, calls>>
    /\ UNCHANGED <<creds, session, sock, rendering, unlinked, crashes>>

-----------------------------------------------------------------------------
\* What the gateway does by itself.
Internal ==
    \/ \E s \in Sockets : SocketCreated(s) \/ ConnectThrows(s) \/ QrRendered(s) \/ TimerFires(s)
    \/ \E c \in Callers : LogoutReturns(c)
    \/ \E c \in Callers, ok \in BOOLEAN : CloudAnswers(c, ok)
    \/ BootConnect \/ BootCloud

Next ==
    \/ Internal
    \/ \E s \in Sockets : ConnectRequest(s) \/ QrReceived(s) \/ SocketOpened(s)
    \/ \E s \in Sockets, b \in BOOLEAN : SocketClosed(s, b) \/ CredsUpdated(s, b)
    \/ \E c \in Managers, p \in Providers : DisconnectRequest(c, p)
    \/ \E c \in Managers, b \in BOOLEAN : CloudRequest(c, b)
    \/ Restart

Spec == Init /\ [][Next]_vars

\* Timers fire, and the version request (15 s), logout and the request to Meta
\* (30 s) return or throw; managers, WhatsApp and crashes owe nothing.
FairSpec ==
    /\ Spec
    /\ \A s \in Sockets : WF_vars(SocketCreated(s) \/ ConnectThrows(s)) /\ WF_vars(TimerFires(s))
    /\ \A c \in Callers : WF_vars(\E ok \in BOOLEAN : CloudAnswers(c, ok)) /\ WF_vars(LogoutReturns(c))
    /\ WF_vars(BootConnect) /\ WF_vars(BootCloud)

-----------------------------------------------------------------------------
(* Properties *)

\* Every variable has its type, the credentials a socket starts with included.
ConnectionsTypeOK ==
    /\ creds \in {"none", "new", "linked"} /\ cloud \in BOOLEAN
    /\ status \in [Providers -> {"Disconnected", "Connecting", "QR Ready", "Connected",
                                 "Reconnecting", "Authentication expired", "Error"}]
    /\ session \in Sockets \cup {None}
    /\ sock \in [Sockets -> Socket]
    /\ rendering \subseteq Sockets
    /\ calls \in [Callers -> CallState]
    /\ boot \in {"done", "baileys", "cloud"}
    /\ unlinked \in BOOLEAN /\ crashes \in 0 .. MaxCrashes

\* The sessions map never holds a socket that has closed, whichever of close,
\* logout and connect came first: connect would return it for ever.
SessionIsLive == session # None => sock[session].life = "live"

\* The sockets the gateway has, will have, or will make by a timer.
Owed ==
    Cardinality({s \in Sockets : sock[s].timer})
  + Cardinality({s \in Sockets : sock[s].life = "starting"})
  + IF session = None THEN 0 ELSE 1

\* Reconnecting by itself, the gateway never multiplies its sockets: one that
\* closes is replaced by at most one, and orphans by none.  Only a request or a
\* restart adds one.
ReconnectsDoNotMultiply ==
    [][\/ Owed' <= Owed
       \/ \E s \in Sockets : sock'[s].life = "starting" /\ sock[s].life = "free"
                                /\ sock'[s].by # "timer"]_vars

\* A connection that was lost unexpectedly is made again: the site does not stay
\* without a session, unless connecting failed, somebody unlinked the device, the
\* process was restarted or the sockets of this instance are used up.
Reconnects ==
    (status["Baileys"] = "Reconnecting" /\ session = None /\ ~unlinked)
        ~> \/ session # None
           \/ status["Baileys"] \in {"Error", "Disconnected"}
           \/ unlinked
           \/ \A s \in Sockets : ~Fresh(s)

\* "This removes the site's linked-device or API authentication.": after an
\* unlink, and until somebody connects or pairs again, no linked credentials are
\* stored.
UnlinkForgets == unlinked => creds # "linked"

=============================================================================
