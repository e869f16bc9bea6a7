------------------------------ MODULE Session ------------------------------
(***************************************************************************)
(* Security sessions (security/iowa_security.c), the channels under them   *)
(* (comm/iowa_comm.c), the two DTLS bindings of the samples that a client  *)
(* links with it, and the loop of iowa_step that drives them.              *)
(*                                                                         *)
(* Everything a call reaches is one step: the code is single threaded and  *)
(* its callbacks are synchronous.  A C function is an operator from the    *)
(* context to the SET of contexts it may leave, one for each outcome of    *)
(* the system calls it makes.  Of a CoAP peer and of a registration only   *)
(* what decides about the session is kept; Registration has the rest.      *)
(***************************************************************************)
EXTENDS Naturals, Sequences, SequencesExt, FiniteSets, Lists

CONSTANTS
  Server,        \* the LwM2M Servers the application declared
  Secure,        \* the ones whose URI is "coaps://"
  Modes,         \* the security modes each may be declared with
  Session,       \* addresses iowa_system_malloc may give a session
  Conn,          \* addresses iowa_system_connection_open may return
  Libraries,     \* the bindings a program may be linked with
  MaxRetransmit, \* retransmissions the library attempts in one handshake
  Faults,        \* the system and library calls that may fail
  None

SecurityMode == {"NONE", "PRE_SHARED_KEY", "CERTIFICATE"}

ASSUME ServerIsKnown == Secure \subseteq Server /\ Modes \in [Server -> SUBSET SecurityMode]
ASSUME LibraryIsKnown == Libraries \subseteq {"tinydtls", "mbedtls"}
ASSUME RetransmitIsNat == MaxRetransmit \in Nat
ASSUME FaultIsKnown == Faults \subseteq {"open", "create", "dtls", "send", "shrink", "select"}
ASSUME NoneIsOutside == None \notin Session \cup Conn \cup Server

VARIABLES
  program,   \* the binding linked with it and the modes it declares its servers with
  ctx,       \* contextP: sessions, channels, servers and the open connections
  pc,        \* where iowa_step is
  current,   \* securityS of securityStep
  connArray  \* connArray of commSelect; owner is not in the code: the session
             \* that had the connection when the array was made

vars == <<program, ctx, pc, current, connArray>>

-----------------------------------------------------------------------------
(* The context                                                             *)

State == {"DISCONNECTED", "INIT_HANDSHAKE", "HANDSHAKING", "HANDSHAKE_DONE",
          "CONNECTED", "CONNECTION_FAILED", "DISCONNECTING"}

\* What the library holds: nothing, a handshake in progress, an established
\* association, one the other side is closing.
Engine == {"none", "handshake", "connected", "closing"}

\* The states in which a close keeps the library's peer and gives no event.
Halfway == {"HANDSHAKING", "HANDSHAKE_DONE", "DISCONNECTING"}

\* Two fields are not in the code: told, the last event given to the peer, and
\* cut, the state in which the platform closed the connection under a library
\* that held something, which it has held since.
SessionRecord ==
  [owner : Server, state : State, channelP : Conn \cup {None}, engine : Engine,
   tries : 0..MaxRetransmit, told : {"NOTHING", "CONNECTED", "DISCONNECTED"},
   cut : {"NEVER"} \cup Halfway]

\* REGISTERED stands for every status with a registration or one under way.
Status == {"DISCONNECTED", "WAITING_CONNECTION", "REGISTERED", "FAILED"}

ASSUME NoneIsNoRecord == None \notin SessionRecord

Channel == [connP : Conn, userData : Session]

Live(c) == {s \in Session : c.session[s] # None}
Secured(c, s) == c.session[s].owner \in Secure

SetSession(c, s, r) == [c EXCEPT !.session[s] = r]
SetState(c, s, st) == [c EXCEPT !.session[s].state = st]
SetEngine(c, s, e) == [c EXCEPT !.session[s].engine = e, !.session[s].tries = 0]
SetStatus(c, v, st) == [c EXCEPT !.status[v] = st]

\* Every outcome of Op from every context of C.
Then(C, Op(_)) == UNION {Op(c) : c \in C}

May(fault, C) == IF fault \in Faults THEN C ELSE {}

-----------------------------------------------------------------------------
(* comm/iowa_comm.c                                                        *)

Channels(c) == {c.channelArray[i] : i \in DOMAIN c.channelArray}

\* commChannelFind, by the connection; a channel is named by its connection.
commChannelFind(c, k) == {ch \in Channels(c) : ch.connP = k}

ChannelsBut(c, k) ==
  Sublist(c.channelArray, {i \in DOMAIN c.channelArray : c.channelArray[i].connP # k})

\* Mutant: the connection of a removed channel is left open.
commChannelDelete_LeavesOpen(c, k) ==
  {[c EXCEPT !.channelArray = ChannelsBut(c, k)]}

\* iowa_system_connection_close.
iowa_system_connection_close(c, k) == [c EXCEPT !.open = @ \ {k}]

\* commChannelDelete: a smaller array is allocated first; when that fails the
\* channel stays.
commChannelDelete(c, k) ==
  IF commChannelFind(c, k) = {} THEN {c}
  ELSE {iowa_system_connection_close(
          [c EXCEPT !.channelArray = ChannelsBut(c, k)], k)}
       \cup (IF Len(c.channelArray) > 1 THEN May("shrink", {c}) ELSE {})

\* iowa_system_connection_open: the address of a new connection, or nil.
iowa_system_connection_open(c) == (Conn \ c.open) \cup May("open", {None})

\* prv_channelNew: whether there is memory for the channel and the array.
prv_channelNew == {TRUE} \cup May("open", {FALSE})

ChannelAdded(c, s, k) ==
  [c EXCEPT !.channelArray = Append(@, [connP |-> k, userData |-> s]),
            !.open = @ \cup {k}, !.session[s].channelP = k]

\* commChannelCreate, and the pointer its caller stores: a connection without
\* a channel is closed again.
commChannelCreate(c, s) ==
  UNION {IF k # None /\ made THEN {ChannelAdded(c, s, k)} ELSE {c} :
           k \in iowa_system_connection_open(c), made \in prv_channelNew}

-----------------------------------------------------------------------------
(* Freeing and closing                                                     *)

\* iowa_user_security_disconnect: dtls_close and dtls_reset_peer, or
\* mbedtls_ssl_close_notify and mbedtls_ssl_session_reset.
iowa_user_security_disconnect(c, s) == SetEngine(c, s, "none")

\* securityDeleteSession with iowa_user_security_delete_session.
securityDeleteSession(c, s) ==
  [c EXCEPT !.sessionList = RemoveFirst(@, s), !.session[s] = None]

\* What securityDisconnect leaves, the event it may generate apart.  Mutant:
\* the library keeps its association.
LoseChannel_KeepsEngine(c, s) ==
  {SetState([d EXCEPT !.session[s].channelP = None], s, "DISCONNECTED") :
     d \in commChannelDelete(c, c.session[s].channelP)}
LoseChannel(c, s) ==
  LET b == IF c.session[s].state = "CONNECTED" /\ Secured(c, s)
           THEN iowa_user_security_disconnect(c, s) ELSE c
  IN  {SetState([d EXCEPT !.session[s].channelP = None], s, "DISCONNECTED") :
         d \in commChannelDelete(b, c.session[s].channelP)}

\* coapPeerDelete of the peer of a server, and the nil its callers store: the
\* event of a connected session finds the peer already being deleted.
coapPeerDelete(c, v) ==
  IF c.peer[v] = None THEN {c}
  ELSE {[securityDeleteSession(d, c.peer[v]) EXCEPT !.peer[v] = None] :
          d \in LoseChannel(c, c.peer[v])}

\* prv_serverRegistrationFailing, with lwm2m_server_close.
prv_serverRegistrationFailing(c, v) ==
  {SetStatus(d, v, "FAILED") : d \in coapPeerDelete(c, v)}

-----------------------------------------------------------------------------
(* Events: SESSION_CALL_EVENT_CALLBACK, udpSecurityEventCb and             *)
(* prv_handleCoapRegistrationEvent                                         *)

\* iowa_user_security_send: a record needs an established association.
TinydtlsSend(c, s) ==
  IF c.session[s].engine = "connected" THEN {TRUE} \cup May("send", {FALSE}) ELSE {FALSE}

\* The same of mbedTLS, which also refuses what does not fit in one record.
MbedtlsSend(c, s) ==
  IF c.session[s].engine = "connected" THEN {TRUE} \cup May("send", {FALSE}) ELSE {FALSE}

commSend(c, s) == {TRUE} \cup May("send", {FALSE})

\* securitySend: whether all the octets were taken.
securitySend(c, s) ==
  IF ~Secured(c, s) THEN commSend(c, s)
  ELSE IF program.library = "tinydtls" THEN TinydtlsSend(c, s) ELSE MbedtlsSend(c, s)

\* SECURITY_EVENT_CONNECTED.  A registration that cannot be sent deletes the
\* peer; an update that cannot be sent leaves it.
Connected(c, s) ==
  LET v == c.session[s].owner
      t == [c EXCEPT !.session[s].told = "CONNECTED"]
  IN  IF c.status[v] = "WAITING_CONNECTION"
      THEN UNION {IF sent THEN {SetStatus(t, v, "REGISTERED")}
                  ELSE prv_serverRegistrationFailing(t, v) : sent \in securitySend(t, s)}
      ELSE {t}

\* SECURITY_EVENT_DISCONNECTED.
Disconnected(c, s) ==
  LET v == c.session[s].owner
      t == [c EXCEPT !.session[s].told = "DISCONNECTED"]
  IN  IF c.status[v] = "WAITING_CONNECTION" THEN prv_serverRegistrationFailing(t, v)
      ELSE {t}

securityDisconnect(c, s) ==
  IF c.session[s].state = "CONNECTED"
  THEN Then(LoseChannel(c, s), LAMBDA d : Disconnected(d, s))
  ELSE LoseChannel(c, s)

-----------------------------------------------------------------------------
(* The bindings, samples/07 and samples/08                                 *)

prv_connectionFailing(c, s) ==
  Disconnected(SetState(iowa_user_security_disconnect(c, s), s, "CONNECTION_FAILED"), s)

\* A handshake still waiting: its last flight is sent again until the library
\* gives the handshake up.
Retransmitted(c, s) ==
  IF c.session[s].tries < MaxRetransmit
  THEN {[c EXCEPT !.session[s].tries = @ + 1]}
  ELSE {SetEngine(c, s, "none")}

\* Mutant: a handshake the library dropped is waited for.
TinydtlsStep_Waits(c, s, due) ==
  LET r == c.session[s] IN
  CASE r.state = "INIT_HANDSHAKE" /\ r.engine = "none" ->
         {SetState(SetEngine(c, s, "handshake"), s, "HANDSHAKING")}
    [] r.state = "HANDSHAKING" /\ r.engine = "connected" ->
         Connected(SetState(c, s, "CONNECTED"), s)
    [] r.state = "HANDSHAKING" /\ r.engine = "handshake" /\ due -> Retransmitted(c, s)
    [] OTHER -> {c}

\* iowa_user_security_step of tinydtls; due says whether the retransmission
\* timer has expired.
TinydtlsStep(c, s, due) ==
  LET r == c.session[s] IN
  CASE r.state = "INIT_HANDSHAKE" /\ r.engine = "none" ->
         {SetState(SetEngine(c, s, "handshake"), s, "HANDSHAKING")}
         \cup May("dtls", prv_connectionFailing(c, s))
    [] r.state = "HANDSHAKING" /\ r.engine \in {"none", "closing"} ->
         prv_connectionFailing(c, s)
    [] r.state = "HANDSHAKING" /\ r.engine = "connected" ->
         Connected(SetState(c, s, "CONNECTED"), s)
    [] r.state = "HANDSHAKING" /\ r.engine = "handshake" /\ due -> Retransmitted(c, s)
    [] OTHER -> {c}

\* prv_mbedtlsConnect once the first flight is sent; a handshake the library
\* gives up is an error of the step itself.
prv_mbedtlsConnect(c, s, due) ==
  IF ~due THEN {c}
  ELSE Then(Retransmitted(c, s),
            LAMBDA d : IF d.session[s].engine = "none" THEN prv_connectionFailing(d, s) ELSE {d})

\* iowa_user_security_step of mbedTLS.
MbedtlsStep(c, s, due) ==
  LET r == c.session[s] IN
  CASE r.state = "DISCONNECTING" ->
         Disconnected(SetState(iowa_user_security_disconnect(c, s), s, "DISCONNECTED"), s)
    [] r.state = "INIT_HANDSHAKE" /\ r.engine = "none" ->
         {SetState(SetEngine(c, s, "handshake"), s, "HANDSHAKING")}
         \cup May("dtls", prv_connectionFailing(c, s))
    [] r.state = "HANDSHAKING" -> prv_mbedtlsConnect(c, s, due)
    [] r.state = "HANDSHAKE_DONE" -> Connected(SetState(c, s, "CONNECTED"), s)
    [] OTHER -> {c}

iowa_user_security_step(c, s, due) ==
  IF program.library = "tinydtls" THEN TinydtlsStep(c, s, due) ELSE MbedtlsStep(c, s, due)

-----------------------------------------------------------------------------
(* security/iowa_security.c and lwm2m/iowa_lwm2m_utils.c: connecting       *)

\* iowa_user_security_create_client_session of tinydtls: the key is asked for
\* later, by prv_tinydtlsPskCallback.
TinydtlsCreate(mode) == IF mode = "PRE_SHARED_KEY" THEN {TRUE} \cup May("create", {FALSE}) ELSE {FALSE}

\* prv_initCertificate: the status of freeing the credentials replaces the one
\* of parsing them, so that only a failure to read them is reported.
prv_initCertificate == {TRUE} \cup May("create", {FALSE})

\* The same of mbedTLS, which is given the key here.
MbedtlsCreate(mode) ==
  CASE mode = "PRE_SHARED_KEY" -> {TRUE} \cup May("create", {FALSE})
    [] mode = "CERTIFICATE" -> prv_initCertificate
    [] OTHER -> {FALSE}

UserCreate(v) ==
  IF v \notin Secure THEN {TRUE}
  ELSE IF program.library = "tinydtls" THEN TinydtlsCreate(program.mode[v])
  ELSE MbedtlsCreate(program.mode[v])

NewSession(v) ==
  [owner |-> v, state |-> "DISCONNECTED", channelP |-> None,
   engine |-> "none", tries |-> 0, told |-> "NOTHING", cut |-> "NEVER"]

\* The session goes to the head of the list.
SessionAdded(c, s, v) == [c EXCEPT !.session[s] = NewSession(v), !.sessionList = <<s>> \o @]

\* The mode and the scheme of the URI must agree.
securityClientNewSession(c, v) ==
  IF ~(program.mode[v] = "NONE" <=> v \notin Secure) THEN {c}
  ELSE May("create", {c})
       \cup UNION {IF made THEN {SessionAdded(c, s, v) : s \in Session \ Live(c)} ELSE {c} :
                     made \in UserCreate(v)}

\* coapPeerCreate: the peer takes the session, which is deleted when there is
\* no memory for the peer.
coapPeerCreate(c, v) ==
  UNION {IF d = c THEN {c}
         ELSE {[d EXCEPT !.peer[v] = Head(d.sessionList)]}
              \cup May("create", {securityDeleteSession(d, Head(d.sessionList))}) :
           d \in securityClientNewSession(c, v)}

\* securityConnect, which fails exactly when it leaves the session without a
\* channel.
securityConnect(c, s) ==
  Then(IF c.session[s].channelP = None THEN commChannelCreate(c, s) ELSE {c},
       LAMBDA d : IF d.session[s].channelP = None \/ d.session[s].state # "DISCONNECTED" THEN {d}
                  ELSE IF Secured(d, s) THEN {SetState(d, s, "INIT_HANDSHAKE")}
                  ELSE Connected(SetState(d, s, "CONNECTED"), s))

\* utilsConnectServer and prv_initiateServerConnection: on an error the peer
\* is deleted, and a server not registered yet has failed.
Unconnected(c, v) ==
  {IF d.status[v] = "WAITING_CONNECTION" THEN SetStatus(d, v, "FAILED") ELSE d :
     d \in coapPeerDelete(c, v)}

prv_initiateServerConnection(c, v) ==
  Then(IF c.peer[v] = None THEN coapPeerCreate(c, v) ELSE {c},
       LAMBDA p :
         IF p.peer[v] = None THEN Unconnected(p, v)
         ELSE Then(securityConnect(p, p.peer[v]),
                   LAMBDA d : IF d.peer[v] # None /\ d.session[d.peer[v]].channelP = None
                              THEN Unconnected(d, v) ELSE {d}))

-----------------------------------------------------------------------------
(* Incoming data                                                           *)

\* iowa_user_security_handle_handshake_packet: the handshake goes on, ends, or
\* is refused by one side, which tinydtls leaves for the next step to see.
TinydtlsPacket(c, s) ==
  {c} \cup (IF c.session[s].engine # "handshake" THEN {}
            ELSE {SetEngine(c, s, e) : e \in {"connected", "closing", "none"}})

MbedtlsPacket(c, s) ==
  {c} \cup (IF c.session[s].engine # "handshake" THEN {}
            ELSE {SetState(SetEngine(c, s, "connected"), s, "HANDSHAKE_DONE")}
                 \cup prv_connectionFailing(c, s))

\* iowa_user_security_recv when the other side ends the association: tinydtls
\* leaves the state of the session, mbedTLS changes it.
TinydtlsClosed(c, s) == {SetEngine(c, s, "none")}

MbedtlsClosed(c, s) == {SetState(SetEngine(c, s, "closing"), s, "DISCONNECTING")}

\* securityRecv: a message, or the end of the association.
securityRecv(c, s) ==
  {c} \cup (IF ~Secured(c, s) THEN {}
            ELSE IF program.library = "tinydtls" THEN TinydtlsClosed(c, s) ELSE MbedtlsClosed(c, s))

\* SECURITY_EVENT_DATA_AVAILABLE: the message changes nothing here, or is the
\* refusal of a registration.
DataAvailable(c, s) ==
  securityRecv(c, s) \cup prv_serverRegistrationFailing(c, c.session[s].owner)

-----------------------------------------------------------------------------
(* iowa_step                                                               *)

NextP(c, s) ==
  LET list == c.sessionList
      i == CHOOSE j \in DOMAIN list : list[j] = s
  IN  IF i = Len(list) THEN None ELSE list[i + 1]

\* Mutant: the next session is read after the step, from the freed one.
SavedNext_AfterStep(before, after, s) ==
  IF after.session[s] = None THEN s ELSE NextP(after, s)

\* securityStep keeps the next session before it steps one.
SavedNext(before, after, s) == NextP(before, s)

HeadP(c) == IF c.sessionList = <<>> THEN None ELSE Head(c.sessionList)

iowa_step ==
  /\ pc = "idle"
  /\ pc' = "security" /\ current' = HeadP(ctx)
  /\ UNCHANGED <<program, ctx, connArray>>

\* One turn of the loop of securityStep.
securityStep(due) ==
  /\ pc = "security" /\ current # None
  /\ ctx' \in IF Secured(ctx, current) THEN iowa_user_security_step(ctx, current, due) ELSE {ctx}
  /\ current' = SavedNext(ctx, ctx', current)
  /\ UNCHANGED <<program, pc, connArray>>

\* A session whose library refuses to start a handshake ends iowa_step with
\* an error, when it is the last secure one of the list.
Refused(c, s) ==
  Secured(c, s) /\ c.session[s].state = "INIT_HANDSHAKE" /\ c.session[s].engine # "none"

LastSecure(c) ==
  LET list == SelectSeq(c.sessionList, LAMBDA s : Secured(c, s))
  IN  IF list = <<>> THEN None ELSE list[Len(list)]

StepFails == LastSecure(ctx) # None /\ Refused(ctx, LastSecure(ctx))

securityStepEnds ==
  /\ pc = "security" /\ current = None
  /\ pc' = IF StepFails THEN "idle" ELSE "lwm2m"
  /\ UNCHANGED <<program, ctx, current, connArray>>

coapPeerGetConnectionState(c, v) ==
  IF c.peer[v] = None THEN "DISCONNECTED" ELSE c.session[c.peer[v]].state

\* coapStep and registration_step.
ConnectServer(v) ==
  /\ pc = "lwm2m" /\ ctx.status[v] = "DISCONNECTED"
  /\ ctx' \in prv_initiateServerConnection(SetStatus(ctx, v, "WAITING_CONNECTION"), v)
  /\ UNCHANGED <<program, pc, current, connArray>>

ReconnectServer(v) ==
  /\ pc = "lwm2m" /\ ctx.status[v] = "REGISTERED"
  /\ coapPeerGetConnectionState(ctx, v) # "CONNECTED"
  /\ ctx' \in prv_initiateServerConnection(ctx, v)
  /\ UNCHANGED <<program, pc, current, connArray>>

\* A transaction or a timer of a registration gives up.
RegistrationFails(v) ==
  /\ pc = "lwm2m" /\ ctx.status[v] = "REGISTERED"
  /\ ctx' \in prv_serverRegistrationFailing(ctx, v)
  /\ UNCHANGED <<program, pc, current, connArray>>

\* registration_resetServersStatus, and iowa_client_remove_server followed by
\* a new declaration of the server.
ResetServer(v) ==
  /\ pc \in {"lwm2m", "idle"} /\ ctx.status[v] # "DISCONNECTED"
  /\ ctx' \in {SetStatus(d, v, "DISCONNECTED") : d \in coapPeerDelete(ctx, v)}
  /\ UNCHANGED <<program, pc, current, connArray>>

\* commSelect, as far as the call of iowa_system_connection_select.
commSelect ==
  /\ pc = "lwm2m"
  /\ pc' = "select"
  /\ connArray' = [i \in DOMAIN ctx.channelArray |->
                     [connP |-> ctx.channelArray[i].connP,
                      owner |-> ctx.channelArray[i].userData]]
  /\ UNCHANGED <<program, ctx, current>>

\* The platform empties the entries that have no data; it may fail instead.
iowa_system_connection_select ==
  /\ pc = "select"
  /\ \/ /\ pc' = "dispatch"
        /\ \E ready \in SUBSET DOMAIN connArray : connArray' = Sublist(connArray, ready)
     \/ /\ "select" \in Faults
        /\ pc' = "idle" /\ connArray' = <<>>
  /\ UNCHANGED <<program, ctx, current>>

\* prv_commEventCb(COMM_EVENT_DATA_AVAILABLE).
CommData(c, s) ==
  CASE c.session[s].state = "HANDSHAKING" ->
         IF program.library = "tinydtls" THEN TinydtlsPacket(c, s) ELSE MbedtlsPacket(c, s)
    [] c.session[s].state = "CONNECTED" -> DataAvailable(c, s)
    [] OTHER -> {c}

\* One turn of the last loop of commSelect: the channel is looked for again.
Dispatch ==
  /\ pc = "dispatch" /\ connArray # <<>>
  /\ LET found == {ch.userData : ch \in commChannelFind(ctx, Head(connArray).connP)} IN
     /\ ctx' \in IF found \cap Live(ctx) = {} THEN {ctx}
                 ELSE UNION {CommData(ctx, s) : s \in found \cap Live(ctx)}
  /\ connArray' = Tail(connArray)
  /\ UNCHANGED <<program, pc, current>>

commSelectEnds ==
  /\ pc = "dispatch" /\ connArray = <<>>
  /\ pc' = "idle"
  /\ UNCHANGED <<program, ctx, current, connArray>>

-----------------------------------------------------------------------------
(* The rest of core/iowa_base.c                                            *)

Noted(c, s) ==
  IF c.session[s].engine # "none" /\ c.session[s].state \in Halfway
  THEN [c EXCEPT !.session[s].cut = c.session[s].state] ELSE c

\* iowa_connection_closed, by the platform, in any state of the session:
\* prv_commEventCb disconnects it, then the channel is deleted if it is still
\* there.
iowa_connection_closed(k) ==
  /\ pc \in {"idle", "select"}
  /\ \E ch \in commChannelFind(ctx, k) :
       /\ ctx.session[ch.userData] # None
       /\ ctx' \in Then(securityDisconnect(Noted(ctx, ch.userData), ch.userData),
                        LAMBDA d : commChannelDelete(d, k))
  /\ UNCHANGED <<program, pc, current, connArray>>

\* commClose: the channels that are left.
commClose(c) == [c EXCEPT !.channelArray = <<>>, !.open = @ \ {ch.connP : ch \in Channels(c)}]

iowa_close ==
  /\ pc = "idle" /\ pc' = "closing"
  /\ UNCHANGED <<program, ctx, current, connArray>>

\* One turn of lwm2m_close or of coapClose, which delete every peer.
coapClose(v) ==
  /\ pc = "closing" /\ ctx.peer[v] # None
  /\ ctx' \in coapPeerDelete(ctx, v)
  /\ UNCHANGED <<program, pc, current, connArray>>

\* commClose and the end of iowa_close.
iowa_closeEnds ==
  /\ pc = "closing" /\ \A v \in Server : ctx.peer[v] = None
  /\ pc' = "closed"
  /\ ctx' = commClose([ctx EXCEPT !.status = [v \in Server |-> "DISCONNECTED"]])
  /\ UNCHANGED <<program, current, connArray>>

Init ==
  /\ program \in [library : Libraries, mode : [Server -> SecurityMode]]
  /\ \A v \in Server : program.mode[v] \in Modes[v]
  /\ ctx = [sessionList |-> <<>>, session |-> [s \in Session |-> None],
            channelArray |-> <<>>, open |-> {}, peer |-> [v \in Server |-> None],
            status |-> [v \in Server |-> "DISCONNECTED"]]
  /\ pc = "closed" /\ current = None /\ connArray = <<>>

\* iowa_init, and the application that declares its servers.
iowa_init ==
  /\ pc = "closed" /\ pc' = "idle"
  /\ UNCHANGED <<program, ctx, current, connArray>>

Next ==
  \/ iowa_init \/ iowa_step \/ iowa_close \/ iowa_closeEnds
  \/ \E due \in BOOLEAN : securityStep(due)
  \/ securityStepEnds
  \/ \E v \in Server : \/ ConnectServer(v) \/ ReconnectServer(v)
                       \/ RegistrationFails(v) \/ ResetServer(v)
                       \/ coapClose(v)
  \/ commSelect \/ iowa_system_connection_select \/ Dispatch \/ commSelectEnds
  \/ \E k \in Conn : iowa_connection_closed(k)

Spec == Init /\ [][Next]_vars

\* The application calls iowa_step again and again, each pass ends, a close too,
\* and time passes between the steps of a handshake.
FairSpec ==
  /\ Spec
  /\ WF_vars(iowa_step) /\ WF_vars(securityStepEnds) /\ WF_vars(commSelect)
  /\ WF_vars(iowa_system_connection_select) /\ WF_vars(Dispatch) /\ WF_vars(commSelectEnds)
  /\ WF_vars(\E due \in BOOLEAN : securityStep(due))
  /\ WF_vars(\E v \in Server : coapClose(v)) /\ WF_vars(iowa_closeEnds)
  /\ \A s \in Session : SF_vars(securityStep(TRUE) /\ current = s)

-----------------------------------------------------------------------------
(* Properties                                                              *)

\* Every variable has a value of its type.
TypeOK ==
  /\ program \in [library : Libraries, mode : [Server -> SecurityMode]]
  /\ ctx.sessionList \in Seq(Session)
  /\ ctx.session \in [Session -> SessionRecord \cup {None}]
  /\ ctx.channelArray \in Seq(Channel) /\ ctx.open \subseteq Conn
  /\ ctx.peer \in [Server -> Session \cup {None}]
  /\ ctx.status \in [Server -> Status]
  /\ pc \in {"closed", "idle", "security", "lwm2m", "select", "dispatch", "closing"}
  /\ current \in Session \cup {None}
  /\ connArray \in Seq([connP : Conn, owner : Session])

\* The connections open on the platform are exactly those of the channels, and
\* each channel is that of one live session, which calls it its own: commSelect
\* never calls back a session that was freed, and no socket is lost, however
\* sessions, peers and channels come and go.
ChannelsAreOwned ==
  /\ ctx.open = {ch.connP : ch \in Channels(ctx)}
  /\ Len(ctx.channelArray) = Cardinality(ctx.open)
  /\ Channels(ctx) = {[connP |-> ctx.session[s].channelP, userData |-> s] :
                        s \in {x \in Live(ctx) : ctx.session[x].channelP # None}}

\* The live sessions are those of the list, each once, and each is the one of
\* the peer of its server: none is lost when a connection attempt fails half
\* way, none is used by two servers.
SessionsArePeers ==
  /\ Live(ctx) = {ctx.sessionList[i] : i \in DOMAIN ctx.sessionList}
  /\ Len(ctx.sessionList) = Cardinality(Live(ctx))
  /\ Live(ctx) = {ctx.peer[v] : v \in Server} \ {None}
  /\ \A v \in Server : ctx.peer[v] # None => ctx.session[ctx.peer[v]].owner = v

\* The peer of a session was told last that it is connected exactly while the
\* association is up (DISCONNECTING is the moment before it is told otherwise).
\* The code breaks this for one session: the one closed by the platform in that
\* moment, whose peer is never told that it is disconnected.
ToldOfItsState ==
  \A s \in Live(ctx) :
    ctx.session[s].told = "CONNECTED"
      <=> \/ ctx.session[s].state \in {"CONNECTED", "DISCONNECTING"}
          \/ ctx.session[s].cut = "DISCONNECTING"

\* A session that may start a handshake has a library that holds nothing of
\* an earlier one; otherwise each step is refused and iowa_step returns an
\* error at every call.  The code breaks this for the sessions the platform
\* closed halfway, and only for them: what the library held then is never
\* dropped, and no handshake of theirs starts again.
HandshakeCanStart ==
  \A s \in Live(ctx) :
    LET r == ctx.session[s] IN
    IF r.state \in {"DISCONNECTED", "INIT_HANDSHAKE"}
    THEN r.engine = "none" <=> r.cut = "NEVER"
    ELSE r.cut = "NEVER"

\* While securityStep walks the list, the session it is about to step is still
\* there, whatever the callbacks of the one before it deleted.
WalkIsLive == pc = "security" /\ current # None => current \in Live(ctx)

\* The data select announced goes to the session that had the connection then:
\* no callback of the same pass closes it and gives its address to another.
DataFindsItsOwner ==
  \A i \in DOMAIN connArray :
    \A ch \in commChannelFind(ctx, connArray[i].connP) : ch.userData = connArray[i].owner

\* Sockets, channels, sessions, peers and servers point at one another, and at
\* nothing else: of their types, none lost and none shared.
LinksAgree == TypeOK /\ ChannelsAreOwned /\ SessionsArePeers

\* The peer, the session and the library agree on where the association is,
\* but for the sessions whose connection the platform closed halfway.
StatesAgree == ToldOfItsState /\ HandshakeCanStart

\* What a walk or select holds on to across a callback is still what it was.
HeldIsLive == WalkIsLive /\ DataFindsItsOwner

Handshaking(r) == r # None /\ r.state \in {"INIT_HANDSHAKE", "HANDSHAKING", "HANDSHAKE_DONE"}

\* A handshake that was asked for ends: connected, failed, given up, or closed
\* by the platform.  One whose session was closed halfway before is refused at
\* each step, and is not claimed to end.
HandshakeEnds ==
  \A s \in Session :
    (Handshaking(ctx.session[s]) /\ ctx.session[s].cut = "NEVER") ~> ~Handshaking(ctx.session[s])

=============================================================================
