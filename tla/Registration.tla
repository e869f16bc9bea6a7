---------------------------- MODULE Registration ----------------------------
(***************************************************************************)
(* The LwM2M registration machine of the IOWA client                       *)
(* (lwm2m/iowa_registration.c) with the calls it makes into the CoAP peer, *)
(* the security session, the timers and the Server object.                 *)
(*                                                                         *)
(* A server is a record; every C function that works on one lwm2m_server_t *)
(* is an operator from such a record to the SET of records it may leave,   *)
(* one for each outcome of the system calls it makes.  A callback of the   *)
(* stack is one step: it runs inside the critical section.  The            *)
(* application's event callback, which the code calls outside of it, only  *)
(* records the event here.  Timers carry no dates: an armed timer may fire *)
(* at any moment.                                                          *)
(***************************************************************************)
EXTENDS Integers

CONSTANTS
  Server,           \* the lwm2m_server_t structures the application may declare
  Secure,           \* the ones whose URI is "coaps://": connecting is a handshake
  Lifetimes,        \* the values a Server may write in its Lifetime resource
  DefaultLifetime,  \* LWM2M_DEFAULT_LIFETIME
  DisableTimeouts,  \* the values it may write in its Disable Timeout resource
  DefaultDisable,   \* IOWA_SERVER_RSC_DISABLE_TIMEOUT_DEFAULT_VALUE
  MaxTxWait,        \* coapPeerGetMaxTxWait() of a datagram peer
  MaxDelay,         \* INT32_MAX - currentTime: a longer timer overflows
  Faults            \* which system calls may fail, and whether links may break

ASSUME ServerAssumption == Secure \subseteq Server
ASSUME LifetimeAssumption ==
  /\ Lifetimes \subseteq Nat /\ DefaultLifetime \in Nat
  /\ DisableTimeouts \subseteq Nat /\ DefaultDisable \in Nat
ASSUME DelayAssumption == MaxTxWait \in Nat /\ MaxDelay \in Nat
ASSUME FaultsAssumption == Faults \subseteq {"malloc", "open", "send", "closed"}

VARIABLES
  state,            \* lwm2mContextP->state
  srv,              \* the servers; status "absent" for one not in serverList,
                    \* "freed" for one removed while something points to it
  insideCallback    \* CONTEXT_FLAG_INSIDE_CALLBACK, the application's lock

vars == <<state, srv, insideCallback>>

-----------------------------------------------------------------------------
(* lwm2m_server_t                                                          *)

Status == {"absent", "freed", "DISCONNECTED", "WAITING_CONNECTION", "REGISTERING",
           "REGISTERED", "FAILED", "UPDATE_PENDING"}

\* LWM2M_UPDATE_FLAG_*; no caller ever sets LWM2M_UPDATE_FLAG_BINDING.
UpdateFlags == {"OBJECTS", "LIFETIME"}

\* The coap_exchange_t on the peer's exchangeList; "several" stands for any
\* list of two or more.  saved is *updateFlagsP, the user data.
Exchange == [kind : {"none", "register", "update", "several"}, saved : SUBSET UpdateFlags]
NoExchange == [kind |-> "none", saved |-> {}]

\* runtime.peerP: "none" for nil, else the state of its security session.
\* INIT_HANDSHAKE counts as "handshaking"; a session that lost its channel is
\* "closed", one in SECURITY_STATE_DISCONNECTED that still has it "disconnected".
Session == {"none", "closed", "disconnected", "handshaking", "connected",
            "disconnecting", "failed"}

\* The registration event the application saw last.
Event == {"NONE", "UNREGISTERED", "REGISTERING", "REGISTERED", "UPDATING",
          "REG_FAILED", "UPDATE_FAILED"}

\* stale is not in the code: the parameters of the registration that changed
\* and that no message sent to the Server carries yet.
ServerRecord ==
  [status         : Status,
   flags          : SUBSET {"UPDATE", "DISABLE"},
   update         : SUBSET UpdateFlags,
   updateTimer    : {"none", "exchange", "update"},
   lifetimeTimer  : {"none", "armed"},
   session        : Session,
   exchange       : Exchange,
   lifetime       : Lifetimes \cup {DefaultLifetime},
   disableTimeout : DisableTimeouts \cup {DefaultDisable},
   event          : Event,
   stale          : SUBSET UpdateFlags]

Absent ==
  [status |-> "absent", flags |-> {}, update |-> {}, updateTimer |-> "none",
   lifetimeTimer |-> "none", session |-> "none", exchange |-> NoExchange,
   lifetime |-> DefaultLifetime, disableTimeout |-> DefaultDisable,
   event |-> "NONE", stale |-> {}]

serverList == {s \in Server : srv[s].status \notin {"absent", "freed"}}

-----------------------------------------------------------------------------
(* Timers and sends                                                        *)

\* coreTimerNew and coreTimerReset want a positive delay, whose end fits in an
\* int32_t.
DelayAccepted(delay) == delay \in 1..MaxDelay

\* coreTimerNew when the server has no such timer, coreTimerReset otherwise.
TimerMayFail(timer, delay) ==
  ~DelayAccepted(delay) \/ (timer = "none" /\ "malloc" \in Faults)

prv_getUpdateDelay(lifetime) ==
  IF MaxTxWait < lifetime THEN lifetime - MaxTxWait ELSE lifetime \div 2

\* Mutant: the request saves the wrong flags of the server.
Enqueue_SavesFlags(r, kind, saved) == [r EXCEPT !.exchange = [kind |-> kind, saved |-> r.flags]]

\* coapSend() of a request with a reply callback puts an exchange on the peer.
Enqueue(r, kind, saved) ==
  [r EXCEPT !.exchange = [kind  |-> IF r.exchange.kind = "none" THEN kind ELSE "several",
                          saved |-> saved]]

-----------------------------------------------------------------------------
(* Closing a server                                                        *)

\* prv_serverRegistrationFailing called back from coapPeerDelete: the peer is
\* already marked IOWA_CONN_UNDEFINED and the nested coapPeerDelete returns at
\* once.
FailingInDelete(r) ==
  [r EXCEPT !.updateTimer = "none", !.lifetimeTimer = "none", !.session = "none",
            !.status = "FAILED", !.event = "REG_FAILED"]

\* The callback of the exchange when no response will come: the register one
\* or the update one, here as coapPeerDelete calls it.
ExchangeAborted(r) ==
  CASE r.exchange.kind = "register" ->
         LET t == [r EXCEPT !.updateTimer = "none"] IN
         IF r.status = "REGISTERING" THEN FailingInDelete(t) ELSE t
    [] r.exchange.kind = "update" /\ r.status = "UPDATE_PENDING" ->
         [r EXCEPT !.update = @ \cup r.exchange.saved, !.stale = @ \cup r.exchange.saved,
                   !.status = "REGISTERED", !.event = "UPDATE_FAILED"]
    [] OTHER -> r

\* coapPeerDelete, and the nil its callers put in peerP: the session reports
\* its end first, then every exchange is resolved without a response.
coapPeerDelete(r) ==
  LET d == IF r.session = "connected" /\ r.status = "WAITING_CONNECTION"
           THEN FailingInDelete(r) ELSE r
  IN  [ExchangeAborted(d) EXCEPT !.session = "none", !.exchange = NoExchange]

\* registration_deregister: the DELETE is non-confirmable and nobody waits for
\* it; when its message cannot be allocated the function returns too early.
registration_deregister(r) ==
  LET left == [r EXCEPT !.status = "DISCONNECTED", !.event = "UNREGISTERED"] IN
  CASE r.status \in {"DISCONNECTED", "WAITING_CONNECTION", "FAILED"} -> {r}
    [] r.status = "REGISTERING" -> {left}
    [] OTHER -> {left} \cup (IF "malloc" \in Faults /\ r.session # "none" THEN {r} ELSE {})

\* Mutant: the lifetime timer survives.
CloseConnection_KeepsTimer(r) == coapPeerDelete([r EXCEPT !.updateTimer = "none"])

\* lwm2m_server_close after its optional deregistration.
CloseConnection(r) ==
  coapPeerDelete([r EXCEPT !.updateTimer = "none", !.lifetimeTimer = "none"])

lwm2m_server_close(r, sendDeregistration) ==
  {CloseConnection(q) : q \in IF sendDeregistration THEN registration_deregister(r) ELSE {r}}

prv_serverRegistrationFailing(r) ==
  [CloseConnection(r) EXCEPT !.status = "FAILED", !.event = "REG_FAILED"]

\* What both reply handlers do on success: arm the lifetime timer, then the
\* update timer, and fail the registration when either cannot be armed.
ArmRegistrationTimers(r) ==
  LET delay == prv_getUpdateDelay(r.lifetime) IN
  (IF DelayAccepted(r.lifetime) /\ DelayAccepted(delay)
   THEN {[r EXCEPT !.lifetimeTimer = "armed", !.updateTimer = "update",
                   !.status = "REGISTERED", !.event = "REGISTERED"]}
   ELSE {})
  \cup (IF TimerMayFail(r.lifetimeTimer, r.lifetime) \/ TimerMayFail(r.updateTimer, delay)
        THEN {prv_serverRegistrationFailing(r)} ELSE {})

-----------------------------------------------------------------------------
(* Registration updates                                                    *)

\* Mutant: a server being registered is not told of the changes.
lwm2mUpdateRegistration_NotRegistering(r, update) ==
  IF r.status \in {"REGISTERED", "UPDATE_PENDING"}
  THEN [r EXCEPT !.flags = @ \cup {"UPDATE"}, !.update = @ \cup update]
  ELSE r

\* lwm2mUpdateRegistration on one server.
lwm2mUpdateRegistration(r, update) ==
  IF r.status \in {"REGISTERING", "REGISTERED", "UPDATE_PENDING"}
  THEN [r EXCEPT !.flags = @ \cup {"UPDATE"}, !.update = @ \cup update]
  ELSE r

\* Mutant: the flags are cleared even if the request cannot be sent.
prv_updateRegistration_ForgetsFlags(r) ==
  {IF r.session = "connected"
   THEN [Enqueue(r, "update", r.update) EXCEPT
           !.status = "UPDATE_PENDING", !.update = {}, !.event = "UPDATING",
           !.stale = @ \ r.update]
   ELSE [r EXCEPT !.event = "UPDATE_FAILED", !.update = {}]}

\* prv_updateRegistration on a server with a peer: the request is sent, or
\* coapSend() fails and the application is told, or an allocation fails before
\* that and nothing happens at all.
prv_updateRegistration(r) ==
  (IF r.session = "connected"
   THEN {[Enqueue(r, "update", r.update) EXCEPT
            !.status = "UPDATE_PENDING", !.update = {}, !.event = "UPDATING",
            !.stale = @ \ r.update]}
   ELSE {})
  \cup (IF r.session # "connected" \/ Faults \cap {"send", "malloc"} # {}
        THEN {[r EXCEPT !.event = "UPDATE_FAILED"]} ELSE {})
  \cup (IF "malloc" \in Faults THEN {r} ELSE {})

\* prv_handleRegistrationUpdateReply on a datagram peer; response is "none"
\* when the transmission failed.
prv_handleRegistrationUpdateReply(r, response) ==
  LET q == [r EXCEPT !.exchange = NoExchange] IN
  CASE r.status # "UPDATE_PENDING" -> {q}
    [] r.status = "UPDATE_PENDING" /\ response = "success" ->
         ArmRegistrationTimers(q)
    [] r.status = "UPDATE_PENDING" /\ response = "error" ->
         {prv_serverRegistrationFailing(q)}
    [] OTHER ->
         {[q EXCEPT !.update = @ \cup r.exchange.saved, !.stale = @ \cup r.exchange.saved,
                    !.status = "REGISTERED", !.event = "UPDATE_FAILED"]}

-----------------------------------------------------------------------------
(* Registration and connection                                             *)

\* prv_register on a connected peer, then what prv_handleCoapRegistrationEvent
\* makes of its result.  The request carries every parameter.
prv_register(r) ==
  {[Enqueue(r, "register", {}) EXCEPT
      !.updateTimer = "exchange", !.status = "REGISTERING", !.stale = {}]}
  \cup (IF Faults \cap {"send", "malloc"} # {}
        THEN {[coapPeerDelete(r) EXCEPT !.status = "FAILED"]} ELSE {})

\* prv_handleRegistrationReply; "bare" is a 2.01 without a Location-Path.
prv_handleRegistrationReply(r, response) ==
  LET q == [r EXCEPT !.exchange = NoExchange, !.updateTimer = "none"] IN
  CASE r.status # "REGISTERING" -> {q}
    [] r.status = "REGISTERING" /\ response = "success" ->
         ArmRegistrationTimers(q)
    [] OTHER -> {prv_serverRegistrationFailing(q)}

\* prv_handleCoapRegistrationEvent(COAP_EVENT_CONNECTED).
CoapEventConnected(r) ==
  CASE r.status = "WAITING_CONNECTION" -> prv_register(r)
    [] r.status = "REGISTERED" -> prv_updateRegistration(r)
    [] OTHER -> {r}

\* Mutant: the event is ignored.
CoapEventDisconnected_Ignored(r) == r

\* prv_handleCoapRegistrationEvent(COAP_EVENT_DISCONNECTED).
CoapEventDisconnected(r) ==
  IF r.status = "WAITING_CONNECTION" THEN prv_serverRegistrationFailing(r) ELSE r

\* utilsConnectServer and securityConnect: a plain session is connected at
\* once, a secure one starts its handshake, and a session in any other state
\* than SECURITY_STATE_DISCONNECTED is left as it is.
utilsConnectServer(s, r) ==
  IF r.session \in {"none", "closed", "disconnected"}
  THEN {[server |-> q, result |-> "NO_ERROR"] :
          q \in IF s \in Secure THEN {[r EXCEPT !.session = "handshaking"]}
                                ELSE CoapEventConnected([r EXCEPT !.session = "connected"])}
       \cup (IF r.session # "disconnected" /\ Faults \cap {"open", "malloc"} # {}
             THEN {[server |-> coapPeerDelete(r), result |-> "ERROR"]} ELSE {})
  ELSE {[server |-> r, result |-> "NO_ERROR"]}

\* Mutant: the application is told that the registration starts although no
\* connection could be opened.
InitiateRegistration_Always(s, r) ==
  {[c EXCEPT !.server.status = IF c.result # "NO_ERROR" THEN "FAILED" ELSE @,
             !.server.event = "REGISTERING"] :
   c \in utilsConnectServer(s, r)}

\* prv_initiateServerConnection for a server that is not registered yet: the
\* connection failure is the registration's, and is not an event.
InitiateRegistration(s, r) ==
  {[c EXCEPT !.server = IF c.result # "NO_ERROR" THEN [@ EXCEPT !.status = "FAILED"]
                                                 ELSE [@ EXCEPT !.event = "REGISTERING"]] :
   c \in utilsConnectServer(s, r)}

\* prv_initiateServerConnection for a registered one: its result is ignored.
InitiateReconnection(s, r) ==
  {[server |-> c.server, result |-> "NO_ERROR"] : c \in utilsConnectServer(s, r)}

-----------------------------------------------------------------------------
(* registration_step                                                       *)

\* The flagged update of a registered server, on a new connection if need be.
StepUpdate(s, r) ==
  {[c EXCEPT !.server.flags = @ \ {"UPDATE"}] :
     c \in IF r.session = "connected"
           THEN {[server |-> q, result |-> "NO_ERROR"] : q \in prv_updateRegistration(r)}
           ELSE InitiateReconnection(s, r)}

\* Deregister a disabled server and arm the timer that will enable it again.
StepDisable(r) ==
  {[server |-> q, result |-> "NO_ERROR"] :
     q \in (IF DelayAccepted(r.disableTimeout)
            THEN {[c EXCEPT !.lifetimeTimer = "armed"] : c \in lwm2m_server_close(r, TRUE)}
            ELSE {})
           \cup (IF TimerMayFail("none", r.disableTimeout)
                 THEN {prv_serverRegistrationFailing(c) : c \in lwm2m_server_close(r, TRUE)}
                 ELSE {})}

\* Mutants: a disabled server, or a failed one, is connected too.
ReadyToConnect_Disabled(r) == r.status = "DISCONNECTED"
ReadyToConnect_Failed(r) == r.status \in {"DISCONNECTED", "FAILED"} /\ "DISABLE" \notin r.flags

\* A server to register: a disabled one waits for its timer.
ReadyToConnect(r) == r.status = "DISCONNECTED" /\ "DISABLE" \notin r.flags

\* What one round of registration_step makes of a server.
StepServer(s, r) ==
  CASE r.status \in {"absent", "freed"} -> {[server |-> r, result |-> "ERROR"]}
    [] ReadyToConnect(r) ->
         InitiateRegistration(s, [r EXCEPT !.status = "WAITING_CONNECTION"])
    [] r.status = "REGISTERED" /\ "UPDATE" \in r.flags /\ ~insideCallback ->
         StepUpdate(s, r)
    [] r.status = "REGISTERED" /\ "DISABLE" \in r.flags
         /\ ~("UPDATE" \in r.flags /\ ~insideCallback) -> StepDisable(r)
    [] r.status = "FAILED" -> {[server |-> r, result |-> "ERROR"]}
    [] OTHER -> {[server |-> r, result |-> "NO_ERROR"]}

\* registration_resetServersStatus on one server.
Reset(r) == IF r.status \in {"absent", "freed"} THEN r
            ELSE [r EXCEPT !.status = "DISCONNECTED", !.flags = {}, !.update = {}]

-----------------------------------------------------------------------------
(* Actions                                                                 *)

Init ==
  /\ state = "INITIAL"
  /\ srv = [s \in Server |-> Absent]
  /\ insideCallback = FALSE

\* lwm2m_step in STATE_INITIAL.
StepInitial ==
  /\ state = "INITIAL"
  /\ serverList # {}
  /\ state' = "DEVICE_MANAGEMENT"
  /\ UNCHANGED <<srv, insideCallback>>

\* lwm2m_step in STATE_DEVICE_MANAGEMENT: every server takes its round, and
\* when none of them is left the machine starts again.
StepDeviceManagement ==
  /\ state = "DEVICE_MANAGEMENT"
  /\ \E round \in [Server -> UNION {StepServer(s, srv[s]) : s \in Server}] :
       /\ \A s \in Server : round[s] \in StepServer(s, srv[s])
       /\ IF \E s \in Server : round[s].result = "NO_ERROR"
          THEN /\ srv' = [s \in Server |-> round[s].server]
               /\ UNCHANGED state
          ELSE /\ srv' = [s \in Server |-> Reset(round[s].server)]
               /\ state' = "INITIAL"
  /\ UNCHANGED insideCallback

\* A handler that only works on server s and leaves one of the given records.
Becomes(s, records) ==
  /\ \E r \in records : srv' = [srv EXCEPT ![s] = r]
  /\ UNCHANGED <<state, insideCallback>>

\* coreTimerStep calls prv_handleRegistrationExchangeTimer.
ExchangeTimer(s) ==
  /\ srv[s].updateTimer = "exchange"
  /\ Becomes(s, {prv_serverRegistrationFailing([srv[s] EXCEPT !.updateTimer = "none"])})

\* coreTimerStep calls prv_handleClientUpdateTimer.  On a registered server
\* without a peer the program ends there: coapPeerGenerateToken() dereferences
\* the nil peer.
UpdateTimer(s) ==
  LET r == [srv[s] EXCEPT !.updateTimer = "none"] IN
  /\ srv[s].updateTimer = "update"
  /\ ~(r.status = "REGISTERED" /\ r.session = "none")
  /\ Becomes(s, IF r.status = "REGISTERED" THEN prv_updateRegistration(r) ELSE {r})

\* Mutants: a pending update outlives its registration; a disabled server stays so.
LifetimeTimer_KeepsPending(s) ==
  LET r == [srv[s] EXCEPT !.lifetimeTimer = "none"] IN
  /\ srv[s].lifetimeTimer = "armed"
  /\ Becomes(s, {IF r.status = "REGISTERED" THEN prv_serverRegistrationFailing(r)
                 ELSE [r EXCEPT !.flags = @ \ {"DISABLE"}]})
LifetimeTimer_KeepsDisabled(s) ==
  LET r == [srv[s] EXCEPT !.lifetimeTimer = "none"] IN
  /\ srv[s].lifetimeTimer = "armed"
  /\ Becomes(s, {IF r.status = "DISCONNECTED" THEN r ELSE prv_serverRegistrationFailing(r)})

\* coreTimerStep calls prv_handleClientLifetimeTimer.
LifetimeTimer(s) ==
  LET r == [srv[s] EXCEPT !.lifetimeTimer = "none"] IN
  /\ srv[s].lifetimeTimer = "armed"
  /\ Becomes(s, {IF r.status = "DISCONNECTED" THEN [r EXCEPT !.flags = @ \ {"DISABLE"}]
                                             ELSE prv_serverRegistrationFailing(r)})

\* A response to the request outstanding on the peer of s; the security layer
\* forwards data only when connected.
Reply(s, response) ==
  /\ srv[s].session = "connected"
  /\ \/ /\ srv[s].exchange.kind = "register"
        /\ Becomes(s, prv_handleRegistrationReply(srv[s], response))
     \/ /\ srv[s].exchange.kind = "update"
        /\ response # "bare"
        /\ Becomes(s, prv_handleRegistrationUpdateReply(srv[s], response))

\* coapStep gives up the retransmission of the request outstanding on s.
NoReply(s) ==
  \/ /\ srv[s].exchange.kind = "register"
     /\ Becomes(s, prv_handleRegistrationReply(srv[s], "none"))
  \/ /\ srv[s].exchange.kind = "update"
     /\ Becomes(s, prv_handleRegistrationUpdateReply(srv[s], "none"))

\* securityStep ends the handshake of s.
HandshakeDone(s) ==
  /\ srv[s].session = "handshaking"
  /\ Becomes(s, CoapEventConnected([srv[s] EXCEPT !.session = "connected"]))

HandshakeFailed(s) ==
  /\ srv[s].session = "handshaking"
  /\ Becomes(s, {CoapEventDisconnected([srv[s] EXCEPT !.session = "failed"])})

\* The peer closes the DTLS session; the next securityStep reports it.
CloseNotify(s) ==
  /\ "closed" \in Faults
  /\ s \in Secure
  /\ srv[s].session = "connected"
  /\ Becomes(s, {[srv[s] EXCEPT !.session = "disconnecting"]})

SessionClosed(s) ==
  /\ srv[s].session = "disconnecting"
  /\ Becomes(s, {CoapEventDisconnected([srv[s] EXCEPT !.session = "disconnected"])})

\* iowa_connection_closed: only a connected session reports its end.
iowa_connection_closed(s) ==
  LET r == [srv[s] EXCEPT !.session = "closed"] IN
  /\ "closed" \in Faults
  /\ srv[s].session \notin {"none", "closed"}
  /\ Becomes(s, {IF srv[s].session = "connected" THEN CoapEventDisconnected(r) ELSE r})

\* The Servers whose requests dm_handleRequest serves.
Requester == {t \in Server : /\ srv[t].session = "connected"
                             /\ srv[t].status \in {"REGISTERED", "UPDATE_PENDING"}}

\* A Server writes the Lifetime of s.
WriteLifetime(s, lifetime) ==
  /\ Requester # {}
  /\ srv[s].lifetime # lifetime
  /\ Becomes(s, {lwm2mUpdateRegistration(
                   [srv[s] EXCEPT !.lifetime = lifetime, !.stale = @ \cup {"LIFETIME"}],
                   {"LIFETIME"})})

\* A Server writes the Disable Timeout of s.
WriteDisableTimeout(s, timeout) ==
  /\ Requester # {}
  /\ Becomes(s, {[srv[s] EXCEPT !.disableTimeout = timeout]})

\* A Server executes Registration Update Trigger of s, or the application
\* sends a heartbeat to s.
TriggerUpdate(s) ==
  Becomes(s, {lwm2mUpdateRegistration(srv[s], {})})

\* A Server executes Disable of s.
ExecuteDisable(s) ==
  /\ Requester # {}
  /\ srv[s].status \in {"WAITING_CONNECTION", "REGISTERED", "UPDATE_PENDING"}
  /\ Becomes(s, {[srv[s] EXCEPT !.flags = @ \cup {"DISABLE"}]})

\* The Object list of the registration changed: every server must learn it.
ObjectsChanged(servers) ==
  [s \in Server |->
     LET r == [servers[s] EXCEPT !.stale = @ \cup {"OBJECTS"}] IN
     IF r.status \in {"absent", "freed"} THEN servers[s]
     ELSE IF state = "DEVICE_MANAGEMENT" THEN lwm2mUpdateRegistration(r, {"OBJECTS"})
     ELSE r]

\* customObjectAdd, customObjectRemove, objectAddInstance, objectRemoveInstance
\* by the application, and Create and Delete by a Server.
ChangeObjects ==
  /\ srv' = ObjectsChanged(srv)
  /\ UNCHANGED <<state, insideCallback>>

\* iowa_client_add_server: a lifetime of zero asks for the default one.  Its
\* Security and Server Object Instances are new Objects for the other servers.
iowa_client_add_server(s, lifetime) ==
  /\ srv[s].status = "absent"
  /\ srv' = [ObjectsChanged(srv) EXCEPT ![s] =
              [Absent EXCEPT !.status = "DISCONNECTED",
                             !.lifetime = IF lifetime = 0 THEN DefaultLifetime ELSE lifetime]]
  /\ UNCHANGED <<state, insideCallback>>

\* iowa_client_remove_server: the server leaves the list, so that its replies
\* find nobody, its Server Object Instance goes away, then its connection is
\* closed and its memory freed.  What lwm2m_server_close leaves of it is kept: a
\* timer would still point to it.  With other servers in the list, removing the
\* Object Instance allocates memory; when it fails the server is freed unclosed.
iowa_client_remove_server(s) ==
  /\ s \in serverList
  /\ \/ \E r \in lwm2m_server_close([srv[s] EXCEPT !.exchange = NoExchange], TRUE) :
          srv' = [ObjectsChanged(srv) EXCEPT ![s] =
                   [Absent EXCEPT !.updateTimer = r.updateTimer,
                                  !.lifetimeTimer = r.lifetimeTimer, !.session = r.session]]
     \/ /\ "malloc" \in Faults
        /\ serverList # {s}
        /\ srv' = [srv EXCEPT ![s].status = "freed"]
  /\ UNCHANGED <<state, insideCallback>>

\* iowa_client_notification_lock.
clientNotificationLock(enter) ==
  /\ insideCallback' = enter
  /\ UNCHANGED <<state, srv>>

\* What iowa_step does for server s in its own time.  Nothing is said of what it
\* does with the timers and the peer of a freed one.
StackOf(s) ==
  /\ s \in serverList
  /\ \/ ExchangeTimer(s) \/ UpdateTimer(s) \/ LifetimeTimer(s)
     \/ NoReply(s)
     \/ HandshakeDone(s) \/ HandshakeFailed(s) \/ SessionClosed(s)

\* What the Server and the network do.
PeerOf(s) ==
  /\ s \in serverList
  /\ \/ \E response \in {"success", "bare", "error"} : Reply(s, response)
     \/ CloseNotify(s) \/ iowa_connection_closed(s)
     \/ \E lifetime \in Lifetimes : WriteLifetime(s, lifetime)
     \/ \E timeout \in DisableTimeouts : WriteDisableTimeout(s, timeout)
     \/ TriggerUpdate(s) \/ ExecuteDisable(s)

Application ==
  \/ \E s \in Server :
       \/ \E lifetime \in Lifetimes : iowa_client_add_server(s, lifetime)
       \/ iowa_client_remove_server(s)
  \/ ChangeObjects
  \/ \E enter \in BOOLEAN : clientNotificationLock(enter)

Next ==
  \/ StepInitial \/ StepDeviceManagement
  \/ \E s \in Server : StackOf(s) \/ PeerOf(s)
  \/ Application

Spec == Init /\ [][Next]_vars

(***************************************************************************)
(* The application calls iowa_step() again and again: every pass runs      *)
(* securityStep, lwm2m_step and coreTimerStep.  A timer is only pushed     *)
(* back when an update succeeds, which takes the server out of its status, *)
(* so it fires if the server keeps one status forever.  Nothing is assumed *)
(* of the Servers: a request may stay unanswered for good.                 *)
(***************************************************************************)
Fairness ==
  /\ WF_vars(StepInitial \/ StepDeviceManagement)
  /\ \A s \in Server :
       /\ \A x \in Status :
            /\ WF_vars(srv[s].status = x /\ ExchangeTimer(s))
            /\ WF_vars(srv[s].status = x /\ UpdateTimer(s))
            /\ WF_vars(srv[s].status = x /\ LifetimeTimer(s))
       /\ WF_vars(HandshakeDone(s) \/ HandshakeFailed(s) \/ SessionClosed(s))

FairSpec == Spec /\ Fairness

-----------------------------------------------------------------------------
(* Safety                                                                  *)

\* The variables keep their types.
TypeOK ==
  /\ state \in {"INITIAL", "DEVICE_MANAGEMENT"}
  /\ srv \in [Server -> ServerRecord]
  /\ insideCallback \in BOOLEAN

\* A registered server has its lifetime timer: clientGetMaxDelayOperation reads
\* lifetimeTimerP->executionTime of every registered server without a test, and
\* an update that is never answered ends only when that timer fires.
LifetimeTimerArmed ==
  \A s \in Server : srv[s].status \in {"REGISTERED", "UPDATE_PENDING"}
                      => srv[s].lifetimeTimer = "armed"

\* A server that is removed, failed or waiting for its turn owns no timer, no
\* peer and no request, whatever nested callbacks ran while it was closed: the
\* timers and the peer hold a pointer to it.  Only a disabled server keeps the
\* timer that enables it again.
NothingLeftBehind ==
  \A s \in Server :
    srv[s].status \in {"absent", "DISCONNECTED", "FAILED"} =>
      /\ srv[s].updateTimer = "none"
      /\ srv[s].session = "none"
      /\ srv[s].exchange = NoExchange
      /\ srv[s].lifetimeTimer = "armed" <=>
           srv[s].status = "DISCONNECTED" /\ "DISABLE" \in srv[s].flags

\* There is at most one request outstanding to a server, and it is the one its
\* status waits for: a late reply can never be taken for the reply to another
\* request, and no reply finds the server in a status that ignores it.
ReplyIsAwaited ==
  \A s \in serverList :
    /\ srv[s].exchange.kind = "register" <=> srv[s].status = "REGISTERING"
    /\ srv[s].exchange.kind = "update" <=> srv[s].status = "UPDATE_PENDING"
    /\ srv[s].exchange.kind # "several"

\* A registration request that is never answered is ended by its exchange
\* timer, which no update timer replaces or survives.
ExchangeTimerArmed ==
  \A s \in serverList : srv[s].updateTimer = "exchange" <=> srv[s].status = "REGISTERING"

\* A change of the Objects or of the lifetime that the Server has not been told
\* stays flagged until a request carries it, even when the request that carried
\* it got no reply and further changes came meanwhile.
ChangesStayFlagged ==
  \A s \in Server : srv[s].status \in {"REGISTERING", "REGISTERED", "UPDATE_PENDING"}
                      => srv[s].stale \subseteq srv[s].update

\* In STATE_INITIAL no server is being registered: a change of the Objects is
\* only flagged in STATE_DEVICE_MANAGEMENT.
InitialIsIdle ==
  state = "INITIAL" =>
    \A s \in Server : srv[s].status \in {"absent", "freed", "DISCONNECTED"}

\* What the last event of a server that is not registered may be.  Failing to
\* open a connection is not an event (IOWA_EVENT_REG_FAILED is not raised), so
\* that a failed server may be one the application was told nothing more of.  And
\* prv_initiateServerConnection raises IOWA_EVENT_REG_REGISTERING after
\* utilsConnectServer, which has already called prv_register on a plain server:
\* when that failed, IOWA_EVENT_REG_FAILED came first and the wrong event is the
\* last.
IdleEvents(s) ==
  {"NONE", "UNREGISTERED", "REG_FAILED"} \cup (IF s \in Secure THEN {} ELSE {"REGISTERING"})

\* The last event the application saw tells it the status of the server: being
\* registered, registered, updating, or none of these; except that a plain
\* server whose registration request could not be sent is out although the
\* application was last told that it is being registered.
EventAgrees ==
  \A s \in serverList :
    /\ srv[s].status \in {"WAITING_CONNECTION", "REGISTERING"} => srv[s].event = "REGISTERING"
    /\ srv[s].status = "REGISTERED" <=> srv[s].event \in {"REGISTERED", "UPDATE_FAILED"}
    /\ srv[s].status = "UPDATE_PENDING" <=> srv[s].event = "UPDATING"
    /\ srv[s].status \in {"DISCONNECTED", "FAILED"} => srv[s].event \in IdleEvents(s)

\* The states of the session of a server with a request outstanding: a link may
\* break, but no handshake starts.
Linked == {"connected", "disconnecting", "disconnected", "closed"}

\* What a server is in each status: the timers, the session and the request it
\* owns, and the event it was last told of.  This is what makes the invariants above inductive.
Consistent(s, r) ==
  /\ r.status \in {"absent", "DISCONNECTED", "FAILED"} =>
       r.updateTimer = "none" /\ r.session = "none" /\ r.exchange = NoExchange
  /\ r.status \in {"absent", "FAILED"} => r.lifetimeTimer = "none"
  /\ r.status \in {"DISCONNECTED", "FAILED"} => r.event \in IdleEvents(s)
  /\ r.status = "DISCONNECTED" => (r.lifetimeTimer = "armed" <=> "DISABLE" \in r.flags)
  /\ r.status = "WAITING_CONNECTION" =>
       /\ r.updateTimer = "none" /\ r.lifetimeTimer = "none" /\ r.exchange = NoExchange
       /\ r.session \in {"handshaking", "closed"} /\ r.event = "REGISTERING"
  /\ r.status = "REGISTERING" =>
       /\ r.updateTimer = "exchange" /\ r.lifetimeTimer = "none"
       /\ r.exchange.kind = "register"
       /\ r.session \in Linked /\ r.event = "REGISTERING"
  /\ r.status = "REGISTERED" =>
       /\ r.updateTimer # "exchange" /\ r.lifetimeTimer = "armed" /\ r.exchange = NoExchange
       /\ r.event \in {"REGISTERED", "UPDATE_FAILED"}
  /\ r.status = "UPDATE_PENDING" =>
       /\ r.updateTimer # "exchange" /\ r.lifetimeTimer = "armed"
       /\ r.exchange.kind = "update"
       /\ r.session \in Linked /\ r.event = "UPDATING"
  /\ r.status \in {"REGISTERING", "REGISTERED", "UPDATE_PENDING"} => r.stale \subseteq r.update

\* Every server is consistent, and idle before the machine starts.
RegistrationInv ==
  /\ \A s \in Server : Consistent(s, srv[s])
  /\ InitialIsIdle

-----------------------------------------------------------------------------
(* What a step may never do                                                *)

\* A disabled server is left alone: it gets a connection again only after the
\* timer that ends its disable time has fired, or after it was removed.
DisabledIsLeftAlone ==
  [][\A s \in Server :
       (srv[s].status = "DISCONNECTED" /\ "DISABLE" \in srv[s].flags)
         => \/ s \notin serverList'
            \/ srv'[s].status = "DISCONNECTED" /\ srv'[s].session = "none"]_vars

\* A server is only taken off the failed ones by a reset of all the servers,
\* which happens when no other is registered, or by its removal.
FailedUntilReset ==
  [][\A s \in Server :
       (srv[s].status = "FAILED" /\ srv'[s].status # "FAILED")
         => s \notin serverList' \/ serverList' = {t \in Server : srv'[t].status = "DISCONNECTED"}]_vars

-----------------------------------------------------------------------------
(* Liveness                                                                *)

\* Every request ends, even if the Server acknowledges it and then stays silent.
RequestsEnd ==
  \A s \in Server : \A x \in {"REGISTERING", "UPDATE_PENDING"} :
    srv[s].status = x ~> srv[s].status # x

\* A change of the Objects is eventually carried by a request, or the
\* registration it belongs to ends.
ChangesAreSent ==
  \A s \in Server :
    (srv[s].status = "REGISTERED" /\ "OBJECTS" \in srv[s].stale)
      ~> (srv[s].status \notin {"REGISTERED", "UPDATE_PENDING"}
          \/ "OBJECTS" \notin srv[s].stale)

\* A disabled server is eventually enabled again or removed.
DisabledReturns ==
  \A s \in Server :
    (srv[s].status = "DISCONNECTED" /\ "DISABLE" \in srv[s].flags)
      ~> ~(srv[s].status = "DISCONNECTED" /\ "DISABLE" \in srv[s].flags)

\* When every server has failed, all of them are tried again.
AllFailedIsRetried ==
  (serverList # {} /\ \A s \in serverList : srv[s].status = "FAILED")
    ~> (\E s \in serverList : srv[s].status # "FAILED") \/ serverList = {}

\* No server stays out for good: neither one that was disabled, nor all of them
\* when the last has failed.
ServersComeBack == DisabledReturns /\ AllFailedIsRetried

-----------------------------------------------------------------------------
(* What the comments of the code say and the code does not do              *)

\* registration_step ignores the result of a reconnection "since we are already
\* registered on the server": the registration has to survive its failure, and
\* the update timer that is still armed needs a peer.
ReconnectionIsHarmless ==
  \A s \in Server : (srv[s].status = "REGISTERED" /\ srv[s].updateTimer = "update")
                      => srv[s].session # "none"

=============================================================================
