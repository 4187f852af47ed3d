------------------------- MODULE ConnectionsProofs -------------------------
(***************************************************************************)
(* Proofs about Connections: its type invariant, that the sessions map     *)
(* never holds a socket that has closed, and that reconnecting never       *)
(* multiplies sockets.  Each is shown action by action, for any managers   *)
(* and any finite set of sockets.                                          *)
(***************************************************************************)
EXTENDS Connections, FiniteSetTheorems, TLAPS

\* The records that the actions put together have their types.
LEMMA RecordTypes ==
    /\ NoSocket \in Socket
    /\ Idle \in CallState /\ Testing \in CallState
    /\ \A s \in Sockets, p \in Providers : LoggingOut(s, p) \in CallState
BY DEF NoSocket, Socket, Idle, Testing, LoggingOut, Providers, CallState

\* So have the sockets that they update.
LEMMA SocketUpdates ==
    ASSUME NEW r \in Socket
    PROVE  /\ [r EXCEPT !.life = "live", !.by = "request"] \in Socket
           /\ [r EXCEPT !.life = "live", !.by = "request"].life = "live"
           /\ \A a \in {"new", "linked"} :
                  /\ [r EXCEPT !.auth = a] \in Socket
                  /\ [r EXCEPT !.auth = a].life = r.life /\ [r EXCEPT !.auth = a].auth = a
           /\ [r EXCEPT !.stop = TRUE] \in Socket /\ [r EXCEPT !.stop = TRUE].life = r.life
           /\ [r EXCEPT !.timer = FALSE] \in Socket /\ [r EXCEPT !.timer = FALSE].life = r.life
           /\ [r EXCEPT !.timer = TRUE] \in Socket
BY DEF Socket

\* connect keeps the types of what it changes, and starts a socket that was free.
LEMMA ConnectFacts ==
    ASSUME ConnectionsTypeOK, NEW s \in Sockets, NEW by \in {"request", "timer", "boot"},
           NEW timers \in [Sockets -> Socket], connect(s, by, timers)
    PROVE  sock' \in [Sockets -> Socket] /\ status'["Baileys"] = "Connecting"
           /\ status' = [status EXCEPT !["Baileys"] = "Connecting"]
           /\ session = None
BY DEF ConnectionsTypeOK, connect, baileysAuthState, setStatus, NoSocket, Socket, Providers

\* Type correctness of the initial state.
LEMMA InitTypes == Init => ConnectionsTypeOK
<1> SUFFICES ASSUME Init PROVE ConnectionsTypeOK
  OBVIOUS
<1>1. cloud \in BOOLEAN /\ unlinked \in BOOLEAN
  BY DEF Init
<1>2. sock \in [Sockets -> Socket] /\ calls \in [Callers -> CallState]
  BY RecordTypes DEF Init
<1>3. crashes \in 0 .. MaxCrashes
  BY ConnectionsAssumption DEF Init
<1> QED BY <1>1, <1>2, <1>3 DEF Init, ConnectionsTypeOK

\* Every action keeps the types.
LEMMA StepTypes == ConnectionsTypeOK /\ [Next]_vars => ConnectionsTypeOK'
<1> SUFFICES ASSUME ConnectionsTypeOK, [Next]_vars PROVE ConnectionsTypeOK'
  OBVIOUS
<1> USE RecordTypes DEF ConnectionsTypeOK
<1> DEFINE St == {"Disconnected", "Connecting", "QR Ready", "Connected",
                  "Reconnecting", "Authentication expired", "Error"}
<1>s. ASSUME NEW p \in Providers, NEW x \in St, setStatus(p, x) PROVE status' \in [Providers -> St]
  BY <1>s DEF setStatus
<1>p. "Baileys" \in Providers /\ "Official API" \in Providers /\ Boot \in Callers
      /\ Managers \subseteq Callers
  BY DEF Providers, Callers
<1>1. ASSUME NEW s \in Sockets, ConnectRequest(s) PROVE ConnectionsTypeOK'
  <2>1. sock' \in [Sockets -> Socket] /\ status' \in [Providers -> St]
    BY <1>1, <1>p, ConnectFacts DEF ConnectRequest
  <2> QED BY <2>1, <1>1 DEF ConnectRequest
<1>2. ASSUME NEW s \in Sockets, SocketCreated(s) PROVE ConnectionsTypeOK'
  <2>1. sock' = [sock EXCEPT ![s] = [sock[s] EXCEPT !.life = "live", !.by = "request"]]
    BY <1>2 DEF SocketCreated
  <2>2. sock' \in [Sockets -> Socket]
    BY <2>1, SocketUpdates
  <2> QED BY <2>2, <1>2 DEF SocketCreated
<1>3. ASSUME NEW s \in Sockets, ConnectThrows(s) PROVE ConnectionsTypeOK'
  BY <1>3, <1>s, <1>p DEF ConnectThrows
<1>4. ASSUME NEW s \in Sockets, QrReceived(s) PROVE ConnectionsTypeOK'
  BY <1>4 DEF QrReceived
<1>5. ASSUME NEW s \in Sockets, QrRendered(s) PROVE ConnectionsTypeOK'
  BY <1>5, <1>s, <1>p DEF QrRendered
<1>6. ASSUME NEW s \in Sockets, SocketOpened(s) PROVE ConnectionsTypeOK'
  BY <1>6, <1>s, <1>p DEF SocketOpened
<1>7. ASSUME NEW s \in Sockets, NEW b \in BOOLEAN, CredsUpdated(s, b) PROVE ConnectionsTypeOK'
  <2> DEFINE a == IF b THEN "linked" ELSE sock[s].auth
  <2>0. sock' = [sock EXCEPT ![s] = [sock[s] EXCEPT !.auth = a]]
    BY <1>7 DEF CredsUpdated
  <2>a. a \in {"new", "linked"}
    BY DEF Socket
  <2> HIDE DEF a
  <2>1. sock' \in [Sockets -> Socket] /\ sock'[s].auth = a
    <3> DEFINE new == [sock[s] EXCEPT !.auth = a]
    <3>1. new \in Socket /\ new.auth = a
      <4>1. sock[s] \in Socket
        OBVIOUS
      <4> HIDE DEF ConnectionsTypeOK
      <4> QED BY <4>1, <2>a, SocketUpdates
    <3>2. sock' = [sock EXCEPT ![s] = new]
      BY <2>0
    <3> HIDE DEF new
    <3> QED BY <3>1, <3>2
  <2>3. creds' \in {"new", "linked"}
    BY <1>7, <2>1, <2>a DEF CredsUpdated
  <2>2. unlinked' \in BOOLEAN
    BY <1>7 DEF CredsUpdated
  <2> QED BY <2>1, <2>2, <2>3, <1>7 DEF CredsUpdated
<1>8. ASSUME NEW s \in Sockets, NEW b \in BOOLEAN, SocketClosed(s, b) PROVE ConnectionsTypeOK'
  <2>0. (~b) = TRUE \/ (~b) = FALSE
    OBVIOUS
  <2>1. [NoSocket EXCEPT !.timer = ~b] \in Socket
    BY <2>0, RecordTypes, SocketUpdates
  <2>2. sock' \in [Sockets -> Socket] /\ session' \in Sockets \cup {None}
    BY <1>8, <2>1 DEF SocketClosed
  <2>3. status' \in [Providers -> St]
    BY <1>8, <1>s, <1>p DEF SocketClosed
  <2> QED BY <2>2, <2>3, <1>8 DEF SocketClosed
<1>9. ASSUME NEW s \in Sockets, TimerFires(s) PROVE ConnectionsTypeOK'
  <2> DEFINE fired == [sock EXCEPT ![s].timer = FALSE]
  <2>1. fired \in [Sockets -> Socket]
    BY SocketUpdates
  <2> HIDE DEF fired
  <2>2. (sock' = fired /\ UNCHANGED status) \/ \E n \in Sockets : connect(n, "timer", fired)
    BY <1>9 DEF TimerFires, fired
  <2>3. sock' \in [Sockets -> Socket] /\ status' \in [Providers -> St]
    BY <2>1, <2>2, <1>p, ConnectFacts
  <2> QED BY <2>3, <1>9 DEF TimerFires
<1>u. ASSUME NEW c \in Callers, NEW p \in Providers, Unlink(c, p), sock' \in [Sockets -> Socket]
      PROVE  ConnectionsTypeOK'
  <2>1. cloud' \in BOOLEAN /\ unlinked' \in BOOLEAN
    BY <1>u DEF Unlink, deleteSecrets
  <2>2. status' \in [Providers -> St]
    BY <1>u, <1>s DEF Unlink
  <2>3. calls' \in [Callers -> CallState]
    BY <1>u DEF Unlink
  <2> QED BY <1>u, <2>1, <2>2, <2>3 DEF Unlink, deleteSecrets
<1>10. ASSUME NEW c \in Managers, NEW p \in Providers, DisconnectRequest(c, p) PROVE ConnectionsTypeOK'
  <2>0. c \in Callers
    BY <1>p
  <2>1. CASE session = None
    BY <1>10, <2>0, <2>1, <1>u DEF DisconnectRequest
  <2>2. CASE session # None
    <3>1. sock' \in [Sockets -> Socket]
      <4>1. sock' = [sock EXCEPT ![session] = [sock[session] EXCEPT !.stop = TRUE]]
            /\ session \in Sockets
        BY <1>10, <2>2 DEF DisconnectRequest
      <4> QED BY <4>1, SocketUpdates
    <3>2. calls' \in [Callers -> CallState]
      <4>1. calls' = [calls EXCEPT ![c] = LoggingOut(session, p)] /\ session \in Sockets
        BY <1>10, <2>2 DEF DisconnectRequest
      <4> QED BY <4>1, <2>0
    <3> QED BY <1>10, <2>2, <3>1, <3>2 DEF DisconnectRequest
  <2> QED BY <2>1, <2>2
<1>11. ASSUME NEW c \in Callers, LogoutReturns(c) PROVE ConnectionsTypeOK'
  <2>1. calls[c].provider \in Providers
    BY <1>11 DEF CallState
  <2>2. sock' \in [Sockets -> Socket]
    BY <1>11 DEF LogoutReturns
  <2> QED BY <1>11, <2>1, <2>2, <1>u DEF LogoutReturns
<1>12. ASSUME NEW c \in Managers, NEW b \in BOOLEAN, CloudRequest(c, b) PROVE ConnectionsTypeOK'
  <2>1. calls' = [calls EXCEPT ![c] = Testing] /\ status' \in [Providers -> St] /\ cloud' \in BOOLEAN
    BY <1>12, <1>s, <1>p DEF CloudRequest, testCloud
  <2> QED BY <1>12, <2>1, <1>p DEF CloudRequest
<1>13. ASSUME NEW c \in Callers, NEW b \in BOOLEAN, CloudAnswers(c, b) PROVE ConnectionsTypeOK'
  BY <1>13, <1>s, <1>p DEF CloudAnswers
<1>14. ASSUME Restart PROVE ConnectionsTypeOK'
  <2>1. crashes' \in 0 .. MaxCrashes
    <3>1. crashes \in 0 .. MaxCrashes /\ crashes < MaxCrashes /\ crashes' = crashes + 1
      BY <1>14 DEF Restart
    <3>2. MaxCrashes \in Nat
      BY ConnectionsAssumption
    <3> HIDE DEF ConnectionsTypeOK
    <3> QED BY <3>1, <3>2
  <2>2. sock' \in [Sockets -> Socket] /\ calls' \in [Callers -> CallState]
    BY <1>14 DEF Restart
  <2> QED BY <1>14, <2>1, <2>2 DEF Restart
<1>15. ASSUME BootConnect PROVE ConnectionsTypeOK'
  <2>1. sock' \in [Sockets -> Socket] /\ status' \in [Providers -> St]
    BY <1>15, <1>p, ConnectFacts DEF BootConnect
  <2> QED BY <2>1, <1>15 DEF BootConnect
<1>16. ASSUME BootCloud PROVE ConnectionsTypeOK'
  <2>1. status' \in [Providers -> St] /\ (calls' = calls \/ calls' = [calls EXCEPT ![Boot] = Testing])
    BY <1>16, <1>s, <1>p DEF BootCloud, testCloud
  <2> QED BY <2>1, <1>16, <1>p DEF BootCloud
<1>17. ASSUME UNCHANGED vars PROVE ConnectionsTypeOK'
  BY <1>17 DEF vars
<1> QED BY <1>1, <1>2, <1>3, <1>4, <1>5, <1>6, <1>7, <1>8, <1>9, <1>10, <1>11, <1>12, <1>13,
           <1>14, <1>15, <1>16, <1>17 DEF Next, Internal

\* Type correctness of the connection state.
THEOREM ConnectionTypes == Spec => []ConnectionsTypeOK
<1> QED BY InitTypes, StepTypes, PTL DEF Spec

-----------------------------------------------------------------------------
\* Steps keep the session alive: what closes or drops the session's socket takes
\* it out of the map in the same step, and a socket enters the map alive.
LEMMA StepSession ==
    ASSUME ConnectionsTypeOK, SessionIsLive, [Next]_vars PROVE SessionIsLive'
<1> USE DEF SessionIsLive, ConnectionsTypeOK
<1>c. ASSUME NEW s \in Sockets, NEW by, NEW timers, connect(s, by, timers), UNCHANGED session
      PROVE  SessionIsLive'
  BY <1>c DEF connect
<1>1. ASSUME NEW s \in Sockets, SocketCreated(s) PROVE SessionIsLive'
  <2>1. sock' = [sock EXCEPT ![s] = [sock[s] EXCEPT !.life = "live", !.by = "request"]] /\ session' = s
    BY <1>1 DEF SocketCreated
  <2> QED BY <2>1, SocketUpdates
<1>2. ASSUME NEW s \in Sockets, ConnectThrows(s) PROVE SessionIsLive'
  BY <1>2 DEF ConnectThrows
<1>3. ASSUME NEW s \in Sockets, TimerFires(s) PROVE SessionIsLive'
  <2>1. CASE session # None /\ sock' = [sock EXCEPT ![s].timer = FALSE]
    BY <1>3, <2>1 DEF TimerFires, Socket
  <2>2. CASE \E n \in Sockets : connect(n, "timer", [sock EXCEPT ![s].timer = FALSE])
    BY <1>3, <2>2, <1>c DEF TimerFires
  <2> QED BY <1>3, <2>1, <2>2 DEF TimerFires
<1>4. ASSUME NEW s \in Sockets, NEW b \in BOOLEAN, SocketClosed(s, b) PROVE SessionIsLive'
  BY <1>4 DEF SocketClosed
<1>5. ASSUME NEW s \in Sockets, NEW b \in BOOLEAN, CredsUpdated(s, b) PROVE SessionIsLive'
  BY <1>5 DEF CredsUpdated, Socket
<1>6. ASSUME NEW c \in Callers, NEW p \in Providers, DisconnectRequest(c, p) PROVE SessionIsLive'
  <2>1. CASE session = None
    BY <1>6, <2>1 DEF DisconnectRequest, Unlink
  <2>2. CASE session # None
    <3>1. /\ session' = session /\ session \in Sockets
          /\ sock' = [sock EXCEPT ![session] = [sock[session] EXCEPT !.stop = TRUE]]
      BY <1>6, <2>2 DEF DisconnectRequest
    <3> QED BY <3>1, SocketUpdates
  <2> QED BY <2>1, <2>2
<1>7. ASSUME NEW c \in Callers, LogoutReturns(c) PROVE SessionIsLive'
  BY <1>7 DEF LogoutReturns, Unlink
<1>8. ASSUME NEW s \in Sockets, ConnectRequest(s) PROVE SessionIsLive'
  BY <1>8, <1>c DEF ConnectRequest
<1>9. ASSUME BootConnect PROVE SessionIsLive'
  BY <1>9, <1>c DEF BootConnect
<1>10. Restart => SessionIsLive'
  BY DEF Restart
<1>11. BootCloud \/ UNCHANGED vars => SessionIsLive'
  BY DEF BootCloud, vars
<1>12. ASSUME NEW s \in Sockets, QrReceived(s) \/ QrRendered(s) \/ SocketOpened(s)
       PROVE  SessionIsLive'
  BY <1>12 DEF QrReceived, QrRendered, SocketOpened
<1>13. ASSUME NEW c \in Callers, NEW b \in BOOLEAN, CloudRequest(c, b) \/ CloudAnswers(c, b)
       PROVE  SessionIsLive'
  BY <1>13 DEF CloudRequest, CloudAnswers
<1>14. Managers \subseteq Callers
  BY DEF Callers
<1> QED BY <1>1, <1>2, <1>3, <1>4, <1>5, <1>6, <1>7, <1>8, <1>9, <1>10, <1>11, <1>12, <1>13,
           <1>14 DEF Next, Internal

\* The session in the map is alive, whatever connects, closes, timers, logouts,
\* unlinks and restarts overlap.
THEOREM SessionAlive == Spec => []SessionIsLive
<1>1. Init => SessionIsLive
  BY DEF Init, SessionIsLive
<1> QED BY <1>1, StepSession, ConnectionTypes, PTL DEF Spec

-----------------------------------------------------------------------------
(* Reconnecting does not multiply sockets *)

Timers == {s \in Sockets : sock[s].timer}
Starting == {s \in Sockets : sock[s].life = "starting"}

\* How the count of the sockets owed follows from the sets of timers and of
\* starting sockets: they shrink, or one member moves on to the next place.
LEMMA OwedStep ==
    ASSUME \/ /\ Timers' \subseteq Timers /\ Starting' \subseteq Starting
              /\ session' = None \/ session # None
           \/ /\ session # None /\ session' = None
              /\ \E s : Timers' \subseteq Timers \cup {s}
              /\ Starting' \subseteq Starting
           \/ /\ Timers' \subseteq Timers
              /\ \E s \in Starting : Starting' \subseteq Starting \ {s}
           \/ /\ \E s \in Timers : Timers' \subseteq Timers \ {s}
              /\ \E n : Starting' \subseteq Starting \cup {n}
              /\ session' = session
    PROVE  Owed' <= Owed
<1>1. IsFiniteSet(Timers) /\ IsFiniteSet(Starting) /\ IsFiniteSet(Timers') /\ IsFiniteSet(Starting')
  <2>1. /\ Timers \in SUBSET Sockets /\ Starting \in SUBSET Sockets
        /\ Timers' \in SUBSET Sockets /\ Starting' \in SUBSET Sockets
    BY DEF Timers, Starting
  <2> QED BY <2>1, ConnectionsAssumption, FS_Subset
<1> DEFINE t == Cardinality(Timers)   tt == Cardinality(Timers')
           b == Cardinality(Starting) bb == Cardinality(Starting')
           o == IF session = None THEN 0 ELSE 1
           oo == IF session' = None THEN 0 ELSE 1
<1>2. t \in Nat /\ tt \in Nat /\ b \in Nat /\ bb \in Nat
  BY <1>1, FS_CardinalityType
<1>3. Owed = t + b + o /\ Owed' = tt + bb + oo
  BY DEF Owed, Timers, Starting
<1>4. ASSUME NEW S, NEW U, IsFiniteSet(S), U \subseteq S
      PROVE  Cardinality(U) <= Cardinality(S)
  BY <1>4, FS_Subset
<1>5. ASSUME NEW S, NEW U, NEW x, IsFiniteSet(S), U \subseteq S \cup {x}
      PROVE  Cardinality(U) <= Cardinality(S) + 1
  <2>0. Cardinality(S) \in Nat
    BY <1>5, FS_CardinalityType
  <2>a. /\ IsFiniteSet(S \cup {x})
        /\ Cardinality(S \cup {x}) = Cardinality(S) \/ Cardinality(S \cup {x}) = Cardinality(S) + 1
    BY <1>5, FS_AddElement, Zenon
  <2>1. IsFiniteSet(S \cup {x}) /\ Cardinality(S) \in Nat
        /\ Cardinality(S \cup {x}) <= Cardinality(S) + 1
    BY <2>0, <2>a
  <2>2. Cardinality(U) <= Cardinality(S \cup {x}) /\ Cardinality(U) \in Nat
        /\ Cardinality(S \cup {x}) \in Nat
    BY <2>1, <1>5, FS_Subset, FS_CardinalityType
  <2> QED BY <2>1, <2>2
<1>6. ASSUME NEW S, NEW U, NEW x \in S, IsFiniteSet(S), U \subseteq S \ {x}
      PROVE  Cardinality(U) + 1 <= Cardinality(S)
  <2>1. IsFiniteSet(S \ {x}) /\ Cardinality(S) \in Nat
        /\ Cardinality(S \ {x}) = Cardinality(S) - 1
    BY <1>6, FS_RemoveElement, FS_CardinalityType
  <2>2. Cardinality(U) <= Cardinality(S \ {x}) /\ Cardinality(U) \in Nat
        /\ Cardinality(S \ {x}) \in Nat
    BY <2>1, <1>6, FS_Subset, FS_CardinalityType
  <2> QED BY <2>1, <2>2
<1>7. \/ tt <= t /\ bb <= b /\ (session' = None \/ session # None)
      \/ tt <= t + 1 /\ bb <= b /\ session # None /\ session' = None
      \/ tt <= t /\ bb + 1 <= b
      \/ tt + 1 <= t /\ bb <= b + 1 /\ session' = session
  <2>1. CASE Timers' \subseteq Timers /\ Starting' \subseteq Starting
             /\ (session' = None \/ session # None)
    BY <2>1, <1>1, <1>4
  <2>2. CASE /\ session # None /\ session' = None
             /\ \E s : Timers' \subseteq Timers \cup {s}
             /\ Starting' \subseteq Starting
    BY <2>2, <1>1, <1>4, <1>5
  <2>3. CASE /\ Timers' \subseteq Timers
             /\ \E s \in Starting : Starting' \subseteq Starting \ {s}
    BY <2>3, <1>1, <1>4, <1>6
  <2>4. CASE /\ \E s \in Timers : Timers' \subseteq Timers \ {s}
             /\ \E n : Starting' \subseteq Starting \cup {n}
             /\ session' = session
    BY <2>4, <1>1, <1>5, <1>6
  <2> QED BY <2>1, <2>2, <2>3, <2>4
<1>8. /\ o \in {0, 1} /\ oo \in {0, 1}
      /\ session' = None => oo = 0
      /\ session # None => o = 1
      /\ session' = session => oo = o
  OBVIOUS
<1> HIDE DEF t, tt, b, bb, o, oo
<1> QED BY <1>2, <1>3, <1>7, <1>8

\* No step that the gateway takes by itself adds to the sockets it owes.
LEMMA StepOwed ==
    ASSUME ConnectionsTypeOK, [Next]_vars
    PROVE  \/ Owed' <= Owed
           \/ \E s \in Sockets : sock'[s].life = "starting" /\ sock[s].life = "free"
                                    /\ sock'[s].by # "timer"
<1> DEFINE Added == \E s \in Sockets : sock'[s].life = "starting" /\ sock[s].life = "free"
                                    /\ sock'[s].by # "timer"
<1> USE DEF ConnectionsTypeOK
<1>0. None \notin Sockets
  BY ConnectionsAssumption
<1>s. ASSUME UNCHANGED <<sock, session>> PROVE Owed' <= Owed
  <2>1. Timers' = Timers /\ Starting' = Starting
    BY <1>s DEF Timers, Starting
  <2> QED BY <2>1, <1>s, OwedStep
<1>c. ASSUME NEW s \in Sockets, NEW by \in {"request", "boot"}, connect(s, by, sock)
      PROVE  Added
  <2>1. sock' = [sock EXCEPT ![s] = [NoSocket EXCEPT !.life = "starting", !.by = by,
                             !.auth = baileysAuthState]] /\ sock[s].life = "free"
    BY <1>c DEF connect, Fresh
  <2>2. sock'[s].life = "starting" /\ sock'[s].by = by
    BY <2>1 DEF NoSocket
  <2> QED BY <2>1, <2>2
<1>1. ASSUME NEW s \in Sockets, SocketCreated(s) PROVE Owed' <= Owed
  <2>1. sock' = [sock EXCEPT ![s] = [sock[s] EXCEPT !.life = "live", !.by = "request"]]
        /\ sock[s].life = "starting"
    BY <1>1 DEF SocketCreated
  <2>2. sock'[s].life = "live" /\ sock'[s].timer = sock[s].timer
        /\ \A n \in Sockets \ {s} : sock'[n] = sock[n]
    BY <2>1 DEF Socket
  <2>3. Timers' \subseteq Timers /\ s \in Starting /\ Starting' \subseteq Starting \ {s}
    BY <2>1, <2>2 DEF Timers, Starting
  <2> QED BY <2>3, OwedStep
<1>2. ASSUME NEW s \in Sockets, ConnectThrows(s) PROVE Owed' <= Owed
  <2>1. sock' = [sock EXCEPT ![s] = NoSocket] /\ sock[s].life = "starting"
    BY <1>2 DEF ConnectThrows
  <2>2. Timers' \subseteq Timers /\ s \in Starting /\ Starting' \subseteq Starting \ {s}
    BY <2>1 DEF Timers, Starting, NoSocket
  <2> QED BY <2>2, OwedStep
<1>3. ASSUME NEW s \in Sockets, TimerFires(s) PROVE Owed' <= Owed
  <2> DEFINE fired == [sock EXCEPT ![s].timer = FALSE]
  <2>1. /\ sock[s].timer = TRUE /\ session' = session
        /\ (session # None /\ sock' = fired) \/ \E n \in Sockets : connect(n, "timer", fired)
    BY <1>3 DEF TimerFires, Socket
  <2>2. /\ fired[s].timer = FALSE /\ fired[s].life = sock[s].life
        /\ \A n \in Sockets \ {s} : fired[n] = sock[n]
        /\ fired \in [Sockets -> Socket]
    <3> DEFINE new == [sock[s] EXCEPT !.timer = FALSE]
    <3>1. sock \in [Sockets -> Socket] /\ fired = [sock EXCEPT ![s] = new]
      OBVIOUS
    <3>2. new.timer = FALSE /\ new.life = sock[s].life /\ new \in Socket
      <4> HIDE DEF ConnectionsTypeOK
      <4> QED BY <3>1 DEF Socket
    <3> HIDE DEF new, fired, ConnectionsTypeOK
    <3> QED BY <3>1, <3>2
  <2> HIDE DEF fired
  <2>3. CASE session # None /\ sock' = fired
    <3>1. s \in Timers /\ Timers' \subseteq Timers \ {s} /\ Starting' \subseteq Starting \cup {s}
      BY <2>1, <2>2, <2>3 DEF Timers, Starting
    <3> QED BY <3>1, <2>1, OwedStep
  <2>4. CASE \E n \in Sockets : connect(n, "timer", fired)
    <3> PICK n \in Sockets : connect(n, "timer", fired)
      BY <2>4
    <3> DEFINE new == [NoSocket EXCEPT !.life = "starting", !.by = "timer", !.auth = baileysAuthState]
    <3>1. sock' = [fired EXCEPT ![n] = new] /\ new.timer = FALSE
      BY DEF connect, NoSocket
    <3> HIDE DEF new
    <3>2. sock'[n].timer = FALSE /\ \A m \in Sockets \ {n} : sock'[m] = fired[m]
      BY <3>1, <2>2
    <3>3. s \in Timers /\ Timers' \subseteq Timers \ {s}
      BY <2>1, <2>2, <3>2 DEF Timers
    <3>4. Starting' \subseteq Starting \cup {n}
      BY <2>2, <3>2 DEF Starting
    <3> QED BY <3>3, <3>4, <2>1, OwedStep
  <2> QED BY <2>1, <2>3, <2>4
<1>4. ASSUME NEW s \in Sockets, NEW b \in BOOLEAN, SocketClosed(s, b) PROVE Owed' <= Owed
  <2>1. CASE session = s /\ ~sock[s].stop
    <3>1. sock' = [sock EXCEPT ![s] = [NoSocket EXCEPT !.timer = ~b]] /\ session' = None
      BY <1>4, <2>1 DEF SocketClosed
    <3>2. session # None /\ Timers' \subseteq Timers \cup {s} /\ Starting' \subseteq Starting
      BY <2>1, <3>1, <1>0 DEF Timers, Starting, NoSocket
    <3> QED BY <3>1, <3>2, OwedStep
  <2>2. CASE ~(session = s /\ ~sock[s].stop)
    <3>1. sock' = [sock EXCEPT ![s] = NoSocket] /\ (session' = None \/ session' = session)
      BY <1>4, <2>2 DEF SocketClosed
    <3>2. Timers' \subseteq Timers /\ Starting' \subseteq Starting
      BY <3>1 DEF Timers, Starting, NoSocket
    <3> QED BY <3>1, <3>2, OwedStep
  <2> QED BY <2>1, <2>2
<1>5. ASSUME NEW s \in Sockets, NEW b \in BOOLEAN, CredsUpdated(s, b) PROVE Owed' <= Owed
  <2>1. /\ sock' = [sock EXCEPT ![s] = [sock[s] EXCEPT !.auth = IF b THEN "linked" ELSE sock[s].auth]]
        /\ session' = session
    BY <1>5 DEF CredsUpdated
  <2>2. /\ sock'[s].life = sock[s].life /\ sock'[s].timer = sock[s].timer
        /\ \A n \in Sockets \ {s} : sock'[n] = sock[n]
    BY <2>1 DEF Socket
  <2>3. Timers' \subseteq Timers /\ Starting' \subseteq Starting
    BY <2>2 DEF Timers, Starting
  <2> QED BY <2>1, <2>3, OwedStep
<1>6. ASSUME NEW c \in Managers, NEW p \in Providers, DisconnectRequest(c, p) PROVE Owed' <= Owed
  <2>1. CASE session = None
    BY <1>6, <2>1, <1>s DEF DisconnectRequest, Unlink
  <2>2. CASE session # None
    <3>1. /\ session' = session /\ session \in Sockets
          /\ sock' = [sock EXCEPT ![session] = [sock[session] EXCEPT !.stop = TRUE]]
      BY <1>6, <2>2 DEF DisconnectRequest
    <3>2. /\ sock'[session].life = sock[session].life /\ sock'[session].timer = sock[session].timer
          /\ \A n \in Sockets \ {session} : sock'[n] = sock[n]
      BY <3>1 DEF Socket
    <3>3. Timers' \subseteq Timers /\ Starting' \subseteq Starting
      BY <3>2 DEF Timers, Starting
    <3> QED BY <3>1, <3>3, OwedStep
  <2> QED BY <2>1, <2>2
<1>7. ASSUME NEW c \in Callers, LogoutReturns(c) PROVE Owed' <= Owed
  <2>1. session' = None /\ (sock' = sock \/ sock' = [sock EXCEPT ![calls[c].socket] = NoSocket])
    BY <1>7 DEF LogoutReturns, Unlink
  <2>a. \A s \in Sockets : sock'[s] = sock[s] \/ sock'[s] = NoSocket
    BY <2>1
  <2>2. Timers' \subseteq Timers /\ Starting' \subseteq Starting
    <3> HIDE DEF ConnectionsTypeOK
    <3> QED BY <2>a DEF Timers, Starting, NoSocket
  <2> QED BY <2>1, <2>2, OwedStep
<1>8. ASSUME Restart PROVE Owed' <= Owed
  <2>1. session' = None /\ Timers' \subseteq Timers /\ Starting' \subseteq Starting
    BY <1>8 DEF Restart, Timers, Starting, NoSocket
  <2> QED BY <2>1, OwedStep
<1>9. ASSUME BootConnect PROVE Owed' <= Owed \/ Added
  <2>1. CASE session # None
    BY <1>9, <2>1, <1>s DEF BootConnect
  <2>2. CASE session = None
    BY <1>9, <2>2, <1>c DEF BootConnect
  <2> QED BY <2>1, <2>2
<1>10. ASSUME NEW s \in Sockets, ConnectRequest(s) PROVE Added
  BY <1>10, <1>c DEF ConnectRequest
<1>11. ASSUME BootCloud \/ UNCHANGED vars PROVE Owed' <= Owed
  BY <1>11, <1>s DEF BootCloud, vars
<1>12. ASSUME NEW s \in Sockets, QrReceived(s) \/ QrRendered(s) \/ SocketOpened(s)
       PROVE  Owed' <= Owed
  BY <1>12, <1>s DEF QrReceived, QrRendered, SocketOpened
<1>13. ASSUME NEW c, NEW b \in BOOLEAN, CloudRequest(c, b) \/ CloudAnswers(c, b)
       PROVE  Owed' <= Owed
  BY <1>13, <1>s DEF CloudRequest, CloudAnswers
<1> HIDE DEF Added
<1>14. Owed' <= Owed \/ Added
  <2> HIDE DEF ConnectionsTypeOK
  <2> QED BY <1>1, <1>2, <1>3, <1>4, <1>5, <1>6, <1>7, <1>8, <1>9, <1>10, <1>11, <1>12, <1>13
          DEF Next, Internal
<1> QED BY <1>14 DEF Added

\* Reconnecting by itself, the gateway never multiplies its sockets, for any
\* number of sockets, managers and restarts.
THEOREM NoMultiplication == Spec => ReconnectsDoNotMultiply
<1>1. ConnectionsTypeOK /\ [Next]_vars =>
        [\/ Owed' <= Owed
         \/ \E s \in Sockets : sock'[s].life = "starting" /\ sock[s].life = "free"
                                  /\ sock'[s].by # "timer"]_vars
  BY StepOwed
<1> QED BY <1>1, ConnectionTypes, PTL DEF Spec, ReconnectsDoNotMultiply

=============================================================================
