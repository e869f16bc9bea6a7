------------------------- MODULE RegistrationProofs -------------------------
(***************************************************************************)
(* Proofs about Registration: for any set of servers, any lifetimes and    *)
(* any faults, every server stays Consistent, and the safety invariants    *)
(* follow.  Each C function gets a lemma saying what records it leaves;    *)
(* the step lemma then goes through the actions.                           *)
(***************************************************************************)
EXTENDS Registration, TLAPS

Good(s, r) == r \in ServerRecord /\ Consistent(s, r)

-----------------------------------------------------------------------------
(* Closing a server                                                        *)

\* What any closing step keeps: it never arms a timer.
Closes(r, q) ==
  /\ q \in ServerRecord
  /\ q.updateTimer \in {"none", r.updateTimer}
  /\ q.lifetimeTimer \in {"none", r.lifetimeTimer}
  /\ q.flags = r.flags

\* prv_serverRegistrationFailing nested in coapPeerDelete closes.
LEMMA NestedFailing ==
  ASSUME NEW r \in ServerRecord
  PROVE  Closes(r, FailingInDelete(r)) /\ FailingInDelete(r).status = "FAILED"
<1>1. FailingInDelete(r) \in ServerRecord
  BY ZenonT(120) DEF FailingInDelete, ServerRecord, Session, Status, Event
<1>2. /\ FailingInDelete(r).updateTimer = "none"
      /\ FailingInDelete(r).lifetimeTimer = "none"
      /\ FailingInDelete(r).flags = r.flags
      /\ FailingInDelete(r).status = "FAILED"
  BY DEF FailingInDelete, ServerRecord
<1> QED
  BY <1>1, <1>2 DEF Closes

\* The callback of an exchange that gets no response closes.
LEMMA Aborted ==
  ASSUME NEW r \in ServerRecord
  PROVE  Closes(r, ExchangeAborted(r))
<1>1. CASE r.exchange.kind = "register" /\ r.status = "REGISTERING"
  <2> DEFINE t == [r EXCEPT !.updateTimer = "none"]
  <2>1. t \in ServerRecord
    BY DEF ServerRecord
  <2>2. t.updateTimer = "none" /\ t.lifetimeTimer = r.lifetimeTimer /\ t.flags = r.flags
    BY DEF ServerRecord
  <2>3. ExchangeAborted(r) = FailingInDelete(t)
    BY <1>1 DEF ExchangeAborted
  <2> HIDE DEF t
  <2>4. Closes(t, FailingInDelete(t))
    BY <2>1, NestedFailing
  <2> QED
    BY <2>2, <2>3, <2>4 DEF Closes
<1>2. CASE r.exchange.kind = "register" /\ r.status # "REGISTERING"
  <2> DEFINE a == [r EXCEPT !.updateTimer = "none"]
  <2>1. ExchangeAborted(r) = a
    BY <1>2 DEF ExchangeAborted
  <2>2. a \in ServerRecord
    BY DEF ServerRecord
  <2>3. a.updateTimer = "none" /\ a.lifetimeTimer = r.lifetimeTimer /\ a.flags = r.flags
    BY DEF ServerRecord
  <2> HIDE DEF a
  <2> QED
    BY <2>1, <2>2, <2>3 DEF Closes
<1>3. CASE r.exchange.kind = "update" /\ r.status = "UPDATE_PENDING"
  <2> DEFINE a == [r EXCEPT !.update = @ \cup r.exchange.saved,
                            !.stale = @ \cup r.exchange.saved,
                            !.status = "REGISTERED", !.event = "UPDATE_FAILED"]
  <2>1. ExchangeAborted(r) = a
    BY <1>3 DEF ExchangeAborted
  <2>2. r.exchange.saved \subseteq UpdateFlags
    BY DEF ServerRecord, Exchange
  <2>3. a \in ServerRecord
    BY <2>2, ZenonT(120) DEF ServerRecord, Status, Event
  <2>4. /\ a.updateTimer = r.updateTimer /\ a.lifetimeTimer = r.lifetimeTimer
        /\ a.flags = r.flags
    BY DEF ServerRecord
  <2> HIDE DEF a
  <2> QED
    BY <2>1, <2>3, <2>4 DEF Closes
<1>4. CASE ~(r.exchange.kind = "register")
           /\ ~(r.exchange.kind = "update" /\ r.status = "UPDATE_PENDING")
  BY <1>4 DEF ExchangeAborted, Closes
<1> QED
  BY <1>1, <1>2, <1>3, <1>4

\* coapPeerDelete leaves a record without peer nor request, and closes.
LEMMA PeerDelete ==
  ASSUME NEW r \in ServerRecord
  PROVE  /\ Closes(r, coapPeerDelete(r))
         /\ coapPeerDelete(r).session = "none"
         /\ coapPeerDelete(r).exchange = NoExchange
<1> DEFINE d == IF r.session = "connected" /\ r.status = "WAITING_CONNECTION"
                THEN FailingInDelete(r) ELSE r
           a == ExchangeAborted(d)
<1>1. Closes(r, d)
  BY NestedFailing DEF Closes
<1>2. coapPeerDelete(r) = [a EXCEPT !.session = "none", !.exchange = NoExchange]
  BY DEF coapPeerDelete
<1> HIDE DEF d
<1>3. Closes(d, a)
  BY <1>1, Aborted DEF Closes
<1> HIDE DEF a
<1>4. NoExchange \in Exchange
  BY DEF NoExchange, Exchange
<1> DEFINE e == [a EXCEPT !.session = "none", !.exchange = NoExchange]
<1>5. e \in ServerRecord
  BY <1>3, <1>4, ZenonT(120) DEF Closes, ServerRecord, Session
<1>6. /\ e.session = "none" /\ e.exchange = NoExchange
      /\ e.updateTimer = a.updateTimer /\ e.lifetimeTimer = a.lifetimeTimer
      /\ e.flags = a.flags
  BY <1>3 DEF Closes, ServerRecord
<1> HIDE DEF e
<1> QED
  BY <1>1, <1>2, <1>3, <1>5, <1>6 DEF Closes, e

\* lwm2m_server_close leaves nothing behind.
LEMMA Closed ==
  ASSUME NEW r \in ServerRecord
  PROVE  /\ CloseConnection(r) \in ServerRecord
         /\ CloseConnection(r).updateTimer = "none"
         /\ CloseConnection(r).lifetimeTimer = "none"
         /\ CloseConnection(r).session = "none"
         /\ CloseConnection(r).exchange = NoExchange
         /\ CloseConnection(r).flags = r.flags
<1> DEFINE t == [r EXCEPT !.updateTimer = "none", !.lifetimeTimer = "none"]
<1>1. t \in ServerRecord
  BY ZenonT(120) DEF ServerRecord
<1>2. t.updateTimer = "none" /\ t.lifetimeTimer = "none" /\ t.flags = r.flags
  BY DEF ServerRecord
<1>3. CloseConnection(r) = coapPeerDelete(t)
  BY DEF CloseConnection
<1> HIDE DEF t
<1> QED
  BY <1>1, <1>2, <1>3, PeerDelete DEF Closes

\* A failed registration is a consistent server, whatever it was before.
LEMMA Failing ==
  ASSUME NEW s, NEW r \in ServerRecord
  PROVE  /\ Good(s, prv_serverRegistrationFailing(r))
         /\ prv_serverRegistrationFailing(r).status = "FAILED"
<1> DEFINE c == CloseConnection(r)
           f == prv_serverRegistrationFailing(r)
<1>1. f = [c EXCEPT !.status = "FAILED", !.event = "REG_FAILED"]
  BY DEF prv_serverRegistrationFailing
<1>2. /\ c \in ServerRecord
      /\ c.updateTimer = "none" /\ c.lifetimeTimer = "none" /\ c.session = "none"
      /\ c.exchange = NoExchange
  BY Closed
<1> HIDE DEF c, f
<1>3. f \in ServerRecord
  BY <1>1, <1>2, ZenonT(120) DEF ServerRecord, Status, Event
<1>4. /\ f.status = "FAILED" /\ f.event = "REG_FAILED"
      /\ f.updateTimer = "none" /\ f.lifetimeTimer = "none" /\ f.session = "none"
      /\ f.exchange = NoExchange
  BY <1>1, <1>2 DEF ServerRecord
<1>5. Consistent(s, f)
  BY <1>4 DEF Consistent, IdleEvents
<1> QED
  BY <1>3, <1>4, <1>5 DEF Good, f

-----------------------------------------------------------------------------
(* Updates and replies                                                     *)

\* A success arms both timers, or fails the registration.
LEMMA Armed ==
  ASSUME NEW s, NEW r \in ServerRecord, r.exchange = NoExchange, r.stale \subseteq r.update,
         NEW q \in ArmRegistrationTimers(r)
  PROVE  Good(s, q) /\ q.status \in {"REGISTERED", "FAILED"}
<1> DEFINE a == [r EXCEPT !.lifetimeTimer = "armed", !.updateTimer = "update",
                          !.status = "REGISTERED", !.event = "REGISTERED"]
<1>1. q = a \/ q = prv_serverRegistrationFailing(r)
  BY DEF ArmRegistrationTimers
<1>2. CASE q = prv_serverRegistrationFailing(r)
  BY <1>2, Failing
<1>3. CASE q = a
  <2>1. q \in ServerRecord
    BY <1>3, ZenonT(120) DEF ServerRecord, Status, Event
  <2>2. /\ q.lifetimeTimer = "armed" /\ q.updateTimer = "update"
        /\ q.status = "REGISTERED" /\ q.event = "REGISTERED"
        /\ q.exchange = NoExchange /\ q.stale = r.stale /\ q.update = r.update
    BY <1>3 DEF ServerRecord
  <2>3. Consistent(s, q)
    BY <2>2 DEF Consistent
  <2> QED
    BY <2>1, <2>2, <2>3 DEF Good
<1> QED
  BY <1>1, <1>2, <1>3

\* The timer, request or reply handlers of a registered server update it: it
\* stays registered, or waits for the reply of the request that was sent.
LEMMA Updated ==
  ASSUME NEW s, NEW r, Good(s, r), r.status = "REGISTERED", NEW q \in prv_updateRegistration(r)
  PROVE  Good(s, q) /\ q.status \in {"REGISTERED", "UPDATE_PENDING"}
<1> DEFINE e == [kind |-> "update", saved |-> r.update]
           p == [r EXCEPT !.exchange = e, !.status = "UPDATE_PENDING", !.update = {},
                          !.event = "UPDATING", !.stale = @ \ r.update]
           f == [r EXCEPT !.event = "UPDATE_FAILED"]
<1>1. /\ r \in ServerRecord
      /\ r.lifetimeTimer = "armed" /\ r.updateTimer # "exchange"
      /\ r.exchange = NoExchange /\ r.stale \subseteq r.update
  BY DEF Good, Consistent
<1>2. NoExchange.kind = "none"
  BY DEF NoExchange
<1>3. Enqueue(r, "update", r.update) = [r EXCEPT !.exchange = e]
  BY <1>1, <1>2 DEF Enqueue
<1>4. \/ q = p /\ r.session = "connected"
      \/ q = f
      \/ q = r
  <2>1. [[r EXCEPT !.exchange = e] EXCEPT
            !.status = "UPDATE_PENDING", !.update = {}, !.event = "UPDATING",
            !.stale = @ \ r.update] = p
    BY <1>1 DEF ServerRecord
  <2> HIDE DEF p, f, e
  <2> QED
    BY <1>3, <2>1 DEF prv_updateRegistration, f
<1>5. CASE q = p /\ r.session = "connected"
  <2>1. e \in Exchange /\ e.kind = "update"
    BY <1>1 DEF Exchange, ServerRecord
  <2> HIDE DEF e
  <2>2. q \in ServerRecord
    BY <1>1, <1>5, <2>1, ZenonT(120) DEF ServerRecord, Status, Event
  <2>3. /\ q.status = "UPDATE_PENDING" /\ q.event = "UPDATING" /\ q.exchange = e
        /\ q.session = "connected" /\ q.lifetimeTimer = "armed"
        /\ q.updateTimer # "exchange" /\ q.stale = r.stale \ r.update
    BY <1>1, <1>5 DEF ServerRecord
  <2>4. q.stale = {}
    BY <1>1, <2>3
  <2>5. Consistent(s, q)
    BY <2>1, <2>3, <2>4 DEF Consistent, Linked
  <2> QED
    BY <2>2, <2>3, <2>5 DEF Good
<1>6. CASE q = f
  <2>1. q \in ServerRecord
    BY <1>1, <1>6 DEF ServerRecord, Event
  <2>2. /\ q.status = "REGISTERED" /\ q.event = "UPDATE_FAILED" /\ q.exchange = NoExchange
        /\ q.lifetimeTimer = "armed" /\ q.updateTimer # "exchange"
        /\ q.stale = r.stale /\ q.update = r.update
    BY <1>1, <1>6 DEF ServerRecord
  <2>3. Consistent(s, q)
    BY <1>1, <2>2 DEF Consistent
  <2> QED
    BY <2>1, <2>2, <2>3 DEF Good
<1> QED
  BY <1>4, <1>5, <1>6

\* The reply to an update, or its absence.
LEMMA UpdateReply ==
  ASSUME NEW s, NEW r, Good(s, r), r.status # "freed", r.exchange.kind = "update", NEW response,
         NEW q \in prv_handleRegistrationUpdateReply(r, response)
  PROVE  Good(s, q) /\ q.status \in {"REGISTERED", "FAILED"}
<1> DEFINE t == [r EXCEPT !.exchange = NoExchange]
           f == [t EXCEPT !.update = @ \cup r.exchange.saved,
                          !.stale = @ \cup r.exchange.saved,
                          !.status = "REGISTERED", !.event = "UPDATE_FAILED"]
<1>1. NoExchange \in Exchange /\ NoExchange.kind = "none"
  BY DEF NoExchange, Exchange
<1>2. r \in ServerRecord /\ r.status = "UPDATE_PENDING"
  BY <1>1 DEF Good, Consistent, ServerRecord, Status
<1>3. /\ r.updateTimer # "exchange" /\ r.lifetimeTimer = "armed"
      /\ r.stale \subseteq r.update /\ r.exchange.saved \subseteq UpdateFlags
  BY <1>2 DEF Good, Consistent, ServerRecord, Exchange
<1>4. t \in ServerRecord
  BY <1>1, <1>2 DEF ServerRecord
<1>5. /\ t.exchange = NoExchange /\ t.updateTimer = r.updateTimer
      /\ t.lifetimeTimer = r.lifetimeTimer
      /\ t.stale = r.stale /\ t.update = r.update
  BY <1>2 DEF ServerRecord
<1>6. \/ q \in ArmRegistrationTimers(t)
      \/ q = prv_serverRegistrationFailing(t)
      \/ q = f
  BY <1>2 DEF prv_handleRegistrationUpdateReply
<1> HIDE DEF t
<1>7. CASE q \in ArmRegistrationTimers(t)
  BY <1>3, <1>4, <1>5, <1>7, Armed
<1>8. CASE q = prv_serverRegistrationFailing(t)
  BY <1>4, <1>8, Failing
<1>9. CASE q = f
  <2>1. q \in ServerRecord
    BY <1>3, <1>4, <1>9, ZenonT(120) DEF ServerRecord, Status, Event
  <2>2. /\ q.status = "REGISTERED" /\ q.event = "UPDATE_FAILED" /\ q.exchange = NoExchange
        /\ q.lifetimeTimer = "armed" /\ q.updateTimer # "exchange"
        /\ q.stale = t.stale \cup r.exchange.saved
        /\ q.update = t.update \cup r.exchange.saved
    BY <1>3, <1>4, <1>5, <1>9 DEF ServerRecord
  <2>3. Consistent(s, q)
    BY <1>3, <1>5, <2>2 DEF Consistent
  <2> QED
    BY <2>1, <2>2, <2>3 DEF Good
<1> QED
  BY <1>6, <1>7, <1>8, <1>9

\* The reply to a registration, or its absence.
LEMMA RegistrationReply ==
  ASSUME NEW s, NEW r, Good(s, r), r.status # "freed", r.exchange.kind = "register", NEW response,
         NEW q \in prv_handleRegistrationReply(r, response)
  PROVE  Good(s, q) /\ q.status \in {"REGISTERED", "FAILED"}
<1> DEFINE t == [r EXCEPT !.exchange = NoExchange, !.updateTimer = "none"]
<1>1. NoExchange \in Exchange /\ NoExchange.kind = "none"
  BY DEF NoExchange, Exchange
<1>2. r \in ServerRecord /\ r.status = "REGISTERING"
  BY <1>1 DEF Good, Consistent, ServerRecord, Status
<1>3. r.stale \subseteq r.update
  BY <1>2 DEF Good, Consistent
<1>4. t \in ServerRecord
  BY <1>1, <1>2, ZenonT(120) DEF ServerRecord
<1>5. t.exchange = NoExchange /\ t.stale = r.stale /\ t.update = r.update
  BY <1>2 DEF ServerRecord
<1>6. q \in ArmRegistrationTimers(t) \/ q = prv_serverRegistrationFailing(t)
  BY <1>2 DEF prv_handleRegistrationReply
<1> HIDE DEF t
<1> QED
  BY <1>3, <1>4, <1>5, <1>6, Armed, Failing

-----------------------------------------------------------------------------
(* Connection and registration                                             *)

\* A registration request is outstanding, and its exchange timer armed.
Requested(q) ==
  /\ q.status = "REGISTERING" /\ q.updateTimer = "exchange" /\ q.lifetimeTimer = "none"
  /\ q.exchange.kind = "register" /\ q.session = "connected" /\ q.stale = {}

\* prv_register on a server that waits for its connection sends one request, or
\* fails, leaves the connection and tells the application.
LEMMA Registering ==
  ASSUME NEW s, NEW r \in ServerRecord, r.exchange = NoExchange, r.session = "connected",
         r.lifetimeTimer = "none", r.updateTimer = "none", r.status = "WAITING_CONNECTION",
         NEW q \in prv_register(r)
  PROVE  /\ q \in ServerRecord
         /\ \/ q.status = "FAILED" /\ Consistent(s, q)
            \/ Requested(q) /\ q.event = r.event
<1> DEFINE e == [kind |-> "register", saved |-> {}]
           p == [r EXCEPT !.exchange = e, !.updateTimer = "exchange",
                          !.status = "REGISTERING", !.stale = {}]
           d == coapPeerDelete(r)
<1>1. NoExchange.kind = "none"
  BY DEF NoExchange
<1>2. Enqueue(r, "register", {}) = [r EXCEPT !.exchange = e]
  BY <1>1 DEF Enqueue
<1>3. [[r EXCEPT !.exchange = e] EXCEPT
         !.updateTimer = "exchange", !.status = "REGISTERING", !.stale = {}] = p
  BY DEF ServerRecord
<1> HIDE DEF p, e, d
<1>4. q = p \/ q = [d EXCEPT !.status = "FAILED"]
  BY <1>2, <1>3 DEF prv_register, d
<1>5. CASE q = p
  <2>1. e \in Exchange /\ e.kind = "register"
    BY DEF Exchange, e
  <2>2. q \in ServerRecord
    BY <1>5, <2>1, ZenonT(120) DEF ServerRecord, Status, p
  <2>3. /\ q.status = "REGISTERING" /\ q.updateTimer = "exchange"
        /\ q.lifetimeTimer = "none" /\ q.exchange = e /\ q.session = "connected"
        /\ q.event = r.event /\ q.stale = {}
    BY <1>5 DEF ServerRecord, p
  <2> QED
    BY <2>1, <2>2, <2>3 DEF Requested
<1>6. CASE q = [d EXCEPT !.status = "FAILED"]
  <2>1. /\ d \in ServerRecord /\ d.session = "none" /\ d.exchange = NoExchange
        /\ d.updateTimer = "none" /\ d.lifetimeTimer = "none"
    BY PeerDelete DEF Closes, d
  <2>2. q \in ServerRecord
    BY <1>6, <2>1 DEF ServerRecord, Status
  <2>3. d.event = "REG_FAILED"
    <3> DEFINE f == FailingInDelete(r)
    <3>1. f \in ServerRecord
      BY NestedFailing DEF Closes
    <3>2. f.exchange = NoExchange /\ f.event = "REG_FAILED"
      BY DEF FailingInDelete, ServerRecord
    <3> HIDE DEF f
    <3>3. ExchangeAborted(f) = f
      BY <1>1, <3>2 DEF ExchangeAborted
    <3>4. d = [f EXCEPT !.session = "none", !.exchange = NoExchange]
      BY <3>3 DEF coapPeerDelete, d, f
    <3> QED
      BY <3>1, <3>2, <3>4 DEF ServerRecord
  <2>4. /\ q.status = "FAILED" /\ q.session = "none" /\ q.exchange = NoExchange
        /\ q.updateTimer = "none" /\ q.lifetimeTimer = "none" /\ q.event = "REG_FAILED"
    BY <1>6, <2>1, <2>3 DEF ServerRecord
  <2>5. Consistent(s, q)
    BY <2>4 DEF Consistent, IdleEvents
  <2> QED
    BY <2>2, <2>4, <2>5
<1> QED
  BY <1>4, <1>5, <1>6

\* The end of a handshake registers a waiting server, updates a registered one.
LEMMA HandshakeEnds ==
  ASSUME NEW s, NEW r, Good(s, r), r.status # "freed", r.session = "handshaking",
         NEW q \in CoapEventConnected([r EXCEPT !.session = "connected"])
  PROVE  Good(s, q) /\ q.status \notin {"freed", "absent", "DISCONNECTED"}
<1> DEFINE t == [r EXCEPT !.session = "connected"]
<1>1. r \in ServerRecord /\ r.status \in {"WAITING_CONNECTION", "REGISTERED"}
  BY DEF Good, Consistent, Linked, ServerRecord, Status
<1>2. t \in ServerRecord
  BY <1>1 DEF ServerRecord, Session
<1>3. /\ t.session = "connected" /\ t.status = r.status /\ t.exchange = r.exchange
      /\ t.updateTimer = r.updateTimer /\ t.lifetimeTimer = r.lifetimeTimer
      /\ t.event = r.event /\ t.stale = r.stale /\ t.update = r.update
  BY <1>1 DEF ServerRecord
<1> HIDE DEF t
<1>4. CASE r.status = "WAITING_CONNECTION"
  <2>1. /\ r.exchange = NoExchange /\ r.updateTimer = "none"
        /\ r.lifetimeTimer = "none" /\ r.event = "REGISTERING"
    BY <1>4 DEF Good, Consistent
  <2>2. q \in prv_register(t)
    BY <1>3, <1>4 DEF CoapEventConnected, t
  <2>3. /\ t.exchange = NoExchange /\ t.session = "connected"
        /\ t.lifetimeTimer = "none" /\ t.updateTimer = "none" /\ t.event = "REGISTERING"
        /\ t.status = "WAITING_CONNECTION"
    BY <1>3, <1>4, <2>1
  <2>4. /\ q \in ServerRecord
        /\ \/ q.status = "FAILED" /\ Consistent(s, q)
           \/ Requested(q) /\ q.event = t.event
    BY <1>2, <2>2, <2>3, Registering, Zenon
  <2> QED
    BY <2>3, <2>4 DEF Good, Consistent, Requested, Linked
<1>5. CASE r.status = "REGISTERED"
  <2>1. Consistent(s, t)
    BY <1>3, <1>5 DEF Good, Consistent
  <2>2. q \in prv_updateRegistration(t)
    BY <1>3, <1>5 DEF CoapEventConnected, t
  <2> QED
    BY <1>2, <1>3, <1>5, <2>1, <2>2, Updated DEF Good
<1> QED
  BY <1>1, <1>4, <1>5

\* The loss of the session fails a server that waits for it, and nothing else.
LEMMA SessionLost ==
  ASSUME NEW s, NEW r, Good(s, r), r.status # "freed", r.session \notin {"none", "closed"},
         NEW x \in {"closed", "disconnected", "failed"},
         x = "failed" => r.session = "handshaking",
         x = "disconnected" => r.session = "disconnecting",
         NEW q \in {[r EXCEPT !.session = x],
                    CoapEventDisconnected([r EXCEPT !.session = x])},
         q = CoapEventDisconnected([r EXCEPT !.session = x])
           \/ x = "closed"
  PROVE  Good(s, q) /\ q.status \notin {"freed", "absent", "DISCONNECTED"}
<1> DEFINE t == [r EXCEPT !.session = x]
<1>1. r \in ServerRecord /\ r.status \notin {"freed", "absent", "DISCONNECTED", "FAILED"}
  BY DEF Good, Consistent
<1>2. t \in ServerRecord
  BY <1>1 DEF ServerRecord, Session
<1>3. /\ t.session = x /\ t.status = r.status /\ t.exchange = r.exchange
      /\ t.updateTimer = r.updateTimer /\ t.lifetimeTimer = r.lifetimeTimer
      /\ t.event = r.event /\ t.stale = r.stale /\ t.update = r.update
      /\ t.flags = r.flags
  BY <1>1 DEF ServerRecord
<1>4. q = t \/ q = CoapEventDisconnected(t)
  OBVIOUS
<1> HIDE DEF t
<1>5. CASE r.status = "WAITING_CONNECTION" /\ q = CoapEventDisconnected(t)
  <2>1. q = prv_serverRegistrationFailing(t)
    BY <1>3, <1>5 DEF CoapEventDisconnected
  <2> QED
    BY <1>2, <2>1, Failing
<1>6. CASE r.status = "WAITING_CONNECTION" /\ q # CoapEventDisconnected(t)
  <2>1. q = t /\ x = "closed"
    BY <1>4, <1>6 DEF t
  <2>2. Consistent(s, t)
    BY <1>3, <1>6, <2>1 DEF Good, Consistent
  <2> QED
    BY <1>2, <1>3, <1>6, <2>1, <2>2 DEF Good
<1>7. CASE r.status # "WAITING_CONNECTION"
  <2>1. q = t
    BY <1>3, <1>4, <1>7 DEF CoapEventDisconnected
  <2>2. Consistent(s, t)
    BY <1>1, <1>3, <1>7 DEF Good, Consistent, Linked
  <2> QED
    BY <1>1, <1>2, <1>3, <2>1, <2>2 DEF Good
<1> QED
  BY <1>5, <1>6, <1>7

-----------------------------------------------------------------------------
(* One round of registration_step                                          *)

\* What a round leaves of a server in the list: when it reports an error the
\* server has failed.
StepOutcome(s, c) ==
  /\ Good(s, c.server)
  /\ c.server.status \notin {"absent", "freed"}
  /\ c.result \in {"NO_ERROR", "ERROR"}
  /\ c.result = "ERROR" => c.server.status = "FAILED"

\* A new registration: connected at once, connecting, or failed.
LEMMA Initiated ==
  ASSUME NEW s, NEW r, Good(s, r), r.status = "DISCONNECTED", "DISABLE" \notin r.flags,
         NEW c \in InitiateRegistration(s, [r EXCEPT !.status = "WAITING_CONNECTION"])
  PROVE  StepOutcome(s, c)
<1> DEFINE w == [r EXCEPT !.status = "WAITING_CONNECTION"]
           h == [w EXCEPT !.session = "handshaking"]
           k == [w EXCEPT !.session = "connected"]
           d == coapPeerDelete(w)
<1>1. /\ r \in ServerRecord
      /\ r.updateTimer = "none" /\ r.lifetimeTimer = "none" /\ r.session = "none"
      /\ r.exchange = NoExchange /\ r.event \in IdleEvents(s)
  BY DEF Good, Consistent, ServerRecord
<1>2. w \in ServerRecord
  BY <1>1 DEF ServerRecord, Status
<1>3. /\ w.status = "WAITING_CONNECTION" /\ w.event \in IdleEvents(s)
      /\ w.updateTimer = "none" /\ w.lifetimeTimer = "none" /\ w.session = "none"
      /\ w.exchange = NoExchange
  BY <1>1 DEF ServerRecord
<1> HIDE DEF w
<1>4. PICK u \in utilsConnectServer(s, w) :
        c = [u EXCEPT !.server = IF u.result # "NO_ERROR"
                                 THEN [u.server EXCEPT !.status = "FAILED"]
                                 ELSE [u.server EXCEPT !.event = "REGISTERING"]]
  BY DEF InitiateRegistration, w
<1>5. \/ u = [server |-> h, result |-> "NO_ERROR"]
      \/ /\ s \notin Secure
         /\ \E q \in CoapEventConnected(k) : u = [server |-> q, result |-> "NO_ERROR"]
      \/ u = [server |-> d, result |-> "ERROR"]
  <2> HIDE DEF h, k, d
  <2> QED
    BY <1>3, <1>4 DEF utilsConnectServer, h, k, d
<1>6. h \in ServerRecord /\ k \in ServerRecord
  BY <1>2 DEF ServerRecord, Session
<1>7. /\ h.status = "WAITING_CONNECTION" /\ h.updateTimer = "none"
      /\ h.lifetimeTimer = "none" /\ h.session = "handshaking" /\ h.exchange = NoExchange
  BY <1>2, <1>3 DEF ServerRecord
<1>8. /\ k.status = "WAITING_CONNECTION" /\ k.updateTimer = "none"
      /\ k.lifetimeTimer = "none" /\ k.session = "connected" /\ k.exchange = NoExchange
  BY <1>2, <1>3 DEF ServerRecord
<1>9. /\ d \in ServerRecord /\ d.session = "none" /\ d.exchange = NoExchange
      /\ d.updateTimer = "none" /\ d.lifetimeTimer = "none" /\ d.event \in IdleEvents(s)
  <2>1. NoExchange.kind = "none"
    BY DEF NoExchange
  <2>2. d = [w EXCEPT !.session = "none", !.exchange = NoExchange]
    BY <1>3, <2>1 DEF coapPeerDelete, ExchangeAborted
  <2>3. d.event = w.event
    BY <1>2, <2>2 DEF ServerRecord
  <2> QED
    BY <1>2, <1>3, <2>3, PeerDelete DEF Closes
<1> HIDE DEF h, k, d
<1>10. CASE u = [server |-> h, result |-> "NO_ERROR"]
  <2> DEFINE z == [h EXCEPT !.event = "REGISTERING"]
  <2>1. c.server = z /\ c.result = "NO_ERROR"
    BY <1>4, <1>10
  <2>2. z \in ServerRecord
    BY <1>6 DEF ServerRecord, Event
  <2>3. /\ z.status = "WAITING_CONNECTION" /\ z.updateTimer = "none"
        /\ z.lifetimeTimer = "none" /\ z.session = "handshaking" /\ z.exchange = NoExchange
        /\ z.event = "REGISTERING"
    BY <1>6, <1>7 DEF ServerRecord
  <2> HIDE DEF z
  <2>4. Consistent(s, z)
    BY <2>3 DEF Consistent
  <2> QED
    BY <2>1, <2>2, <2>3, <2>4 DEF StepOutcome, Good
<1>11. CASE /\ s \notin Secure
            /\ \E q \in CoapEventConnected(k) : u = [server |-> q, result |-> "NO_ERROR"]
  <2>1. PICK q \in CoapEventConnected(k) : u = [server |-> q, result |-> "NO_ERROR"]
    BY <1>11
  <2> DEFINE z == [q EXCEPT !.event = "REGISTERING"]
  <2>2. c.server = z /\ c.result = "NO_ERROR"
    BY <1>4, <2>1
  <2>3. q \in prv_register(k)
    BY <1>8, <2>1 DEF CoapEventConnected
  <2>4. /\ q \in ServerRecord
        /\ \/ q.status = "FAILED" /\ Consistent(s, q)
           \/ Requested(q) /\ q.event = k.event
    BY <1>6, <1>8, <2>3, Registering, Zenon
  <2>5. z \in ServerRecord
    BY <2>4 DEF ServerRecord, Event
  <2>6. /\ z.status = q.status /\ z.updateTimer = q.updateTimer
        /\ z.lifetimeTimer = q.lifetimeTimer /\ z.session = q.session
        /\ z.exchange = q.exchange /\ z.stale = q.stale /\ z.event = "REGISTERING"
    BY <2>4 DEF ServerRecord
  <2> HIDE DEF z
  <2>7. Consistent(s, z) /\ z.status \in {"FAILED", "REGISTERING"}
    BY <1>11, <2>4, <2>6 DEF Consistent, IdleEvents, Requested, Linked
  <2> QED
    BY <2>2, <2>5, <2>7 DEF StepOutcome, Good
<1>12. CASE u = [server |-> d, result |-> "ERROR"]
  <2> DEFINE z == [d EXCEPT !.status = "FAILED"]
  <2>1. c.server = z /\ c.result = "ERROR"
    BY <1>4, <1>12
  <2>2. z \in ServerRecord
    BY <1>9 DEF ServerRecord, Status
  <2>3. /\ z.status = "FAILED" /\ z.updateTimer = "none"
        /\ z.lifetimeTimer = "none" /\ z.session = "none" /\ z.exchange = NoExchange
        /\ z.event = d.event
    BY <1>9 DEF ServerRecord
  <2> HIDE DEF z
  <2>4. Consistent(s, z)
    BY <1>9, <2>3 DEF Consistent
  <2> QED
    BY <2>1, <2>2, <2>3, <2>4 DEF StepOutcome, Good
<1> QED
  BY <1>5, <1>10, <1>11, <1>12

\* The session of a server may change as it likes while it is registered.
LEMMA AnySession ==
  ASSUME NEW s, NEW r, Good(s, r), r.status = "REGISTERED", NEW x \in Session
  PROVE  /\ Good(s, [r EXCEPT !.session = x])
         /\ [r EXCEPT !.session = x].status = "REGISTERED"
<1> DEFINE t == [r EXCEPT !.session = x]
<1>1. t \in ServerRecord
  BY DEF Good, ServerRecord
<1>2. /\ t.status = "REGISTERED" /\ t.exchange = r.exchange
      /\ t.updateTimer = r.updateTimer /\ t.lifetimeTimer = r.lifetimeTimer
      /\ t.event = r.event /\ t.stale = r.stale /\ t.update = r.update
  BY DEF Good, ServerRecord
<1> HIDE DEF t
<1>3. Consistent(s, t)
  BY <1>2 DEF Good, Consistent
<1> QED
  BY <1>1, <1>2, <1>3 DEF Good, t

\* The peer of a registered server goes away without touching its registration.
LEMMA PeerOfRegistered ==
  ASSUME NEW s, NEW r, Good(s, r), r.status = "REGISTERED"
  PROVE  coapPeerDelete(r) = [r EXCEPT !.session = "none"]
<1>1. r \in ServerRecord /\ r.exchange = NoExchange
  BY DEF Good, Consistent
<1>2. NoExchange.kind = "none"
  BY DEF NoExchange
<1>3. ExchangeAborted(r) = r
  BY <1>1, <1>2 DEF ExchangeAborted
<1>4. coapPeerDelete(r) = [r EXCEPT !.session = "none", !.exchange = NoExchange]
  BY <1>3 DEF coapPeerDelete
<1> QED
  BY <1>1, <1>4, ZenonT(120) DEF ServerRecord

\* A flagged update leaves the server registered, or waiting for the reply.
LEMMA StepUpdated ==
  ASSUME NEW s, NEW r, Good(s, r), r.status = "REGISTERED", NEW c \in StepUpdate(s, r)
  PROVE  StepOutcome(s, c)
<1> DEFINE h == [r EXCEPT !.session = "handshaking"]
           k == [r EXCEPT !.session = "connected"]
           d == [r EXCEPT !.session = "none"]
<1>1. PICK u \in IF r.session = "connected"
                 THEN {[server |-> q, result |-> "NO_ERROR"] : q \in prv_updateRegistration(r)}
                 ELSE InitiateReconnection(s, r) :
        c = [u EXCEPT !.server = [u.server EXCEPT !.flags = @ \ {"UPDATE"}]]
  BY DEF StepUpdate
<1>2. /\ Good(s, h) /\ Good(s, k) /\ Good(s, d)
      /\ h.status = "REGISTERED" /\ k.status = "REGISTERED" /\ d.status = "REGISTERED"
  BY AnySession DEF Session
<1>3. CoapEventConnected(k) = prv_updateRegistration(k)
  BY <1>2 DEF CoapEventConnected
<1>4. coapPeerDelete(r) = d
  BY PeerOfRegistered
<1> HIDE DEF h, k, d
<1>5. PICK q : /\ u = [server |-> q, result |-> "NO_ERROR"]
               /\ \/ q \in prv_updateRegistration(r) \/ q \in prv_updateRegistration(k)
                  \/ q \in {h, d, r}
  <2>1. CASE r.session = "connected"
    BY <1>1, <2>1
  <2>2. CASE r.session # "connected"
    <3>1. PICK v \in utilsConnectServer(s, r) : u = [server |-> v.server, result |-> "NO_ERROR"]
      BY <1>1, <2>2 DEF InitiateReconnection
    <3>2. \/ v.server = h
          \/ v.server \in prv_updateRegistration(k)
          \/ v.server = d
          \/ v.server = r
      BY <1>3, <1>4, <3>1 DEF utilsConnectServer, h, k
    <3> QED
      BY <3>1, <3>2
  <2> QED
    BY <2>1, <2>2
<1>6. Good(s, q) /\ q.status \in {"REGISTERED", "UPDATE_PENDING"}
  BY <1>2, <1>5, Updated
<1> DEFINE z == [q EXCEPT !.flags = @ \ {"UPDATE"}]
<1>7. c.server = z /\ c.result = "NO_ERROR"
  BY <1>1, <1>5
<1>8. z \in ServerRecord
  BY <1>6 DEF Good, ServerRecord
<1>9. /\ z.status = q.status /\ z.updateTimer = q.updateTimer
      /\ z.lifetimeTimer = q.lifetimeTimer /\ z.session = q.session
      /\ z.exchange = q.exchange /\ z.event = q.event
      /\ z.stale = q.stale /\ z.update = q.update
  BY <1>6 DEF Good, ServerRecord
<1> HIDE DEF z
<1>10. Consistent(s, z)
  BY <1>6, <1>9 DEF Good, Consistent
<1> QED
  BY <1>6, <1>7, <1>8, <1>9, <1>10 DEF StepOutcome, Good

\* Deregistering a registered server ends its registration, unless an allocation
\* fails.
LEMMA Deregistered ==
  ASSUME NEW s, NEW r, Good(s, r), r.status = "REGISTERED", NEW q \in registration_deregister(r)
  PROVE  q = r \/ q = [r EXCEPT !.status = "DISCONNECTED", !.event = "UNREGISTERED"]
BY DEF registration_deregister

\* The disabled server is closed, and its timer armed, or it has failed.
LEMMA StepDisabled ==
  ASSUME NEW s, NEW r, Good(s, r), r.status = "REGISTERED", "DISABLE" \in r.flags,
         NEW c \in StepDisable(r)
  PROVE  StepOutcome(s, c)
<1>1. PICK k \in lwm2m_server_close(r, TRUE) :
        \/ c = [server |-> [k EXCEPT !.lifetimeTimer = "armed"], result |-> "NO_ERROR"]
        \/ c = [server |-> prv_serverRegistrationFailing(k), result |-> "NO_ERROR"]
  BY DEF StepDisable
<1>2. PICK q \in registration_deregister(r) : k = CloseConnection(q)
  BY <1>1 DEF lwm2m_server_close
<1>3. /\ r \in ServerRecord /\ r.exchange = NoExchange
      /\ r.event \in {"REGISTERED", "UPDATE_FAILED"} /\ r.stale \subseteq r.update
  BY DEF Good, Consistent
<1> DEFINE n == [r EXCEPT !.status = "DISCONNECTED", !.event = "UNREGISTERED"]
<1>4. n \in ServerRecord
  BY <1>3, ZenonT(120) DEF ServerRecord, Status, Event
<1>5. /\ n.status = "DISCONNECTED" /\ n.exchange = r.exchange /\ n.flags = r.flags
      /\ n.stale = r.stale /\ n.update = r.update /\ n.event = "UNREGISTERED"
  BY <1>3 DEF ServerRecord
<1> HIDE DEF n
<1>6. q = r \/ q = n
  BY <1>2, Deregistered DEF n
<1>7. /\ q.status \in {"REGISTERED", "DISCONNECTED"} /\ q.exchange = NoExchange
      /\ q.flags = r.flags /\ q.stale = r.stale /\ q.update = r.update
      /\ q.status = "REGISTERED" => q.event = r.event
      /\ q.status = "DISCONNECTED" => q.event = "UNREGISTERED"
      /\ q \in ServerRecord
  BY <1>3, <1>4, <1>5, <1>6
<1> DEFINE t == [q EXCEPT !.updateTimer = "none", !.lifetimeTimer = "none"]
<1>8. t \in ServerRecord
  BY <1>7, ZenonT(120) DEF ServerRecord
<1>9. /\ t.status = q.status /\ t.exchange = NoExchange /\ t.flags = q.flags
      /\ t.stale = q.stale /\ t.update = q.update /\ t.event = q.event
      /\ t.updateTimer = "none" /\ t.lifetimeTimer = "none"
  BY <1>7 DEF ServerRecord
<1> HIDE DEF t
<1>10. k = [t EXCEPT !.session = "none", !.exchange = NoExchange]
  <2>1. NoExchange.kind = "none"
    BY DEF NoExchange
  <2>2. ExchangeAborted(t) = t
    BY <1>9, <2>1 DEF ExchangeAborted
  <2>3. k = coapPeerDelete(t)
    BY <1>2 DEF CloseConnection, t
  <2> QED
    BY <1>7, <1>9, <2>2, <2>3 DEF coapPeerDelete
<1>11. k \in ServerRecord
  BY <1>2, <1>7, Closed
<1>12. CASE c = [server |-> prv_serverRegistrationFailing(k), result |-> "NO_ERROR"]
  BY <1>11, <1>12, Failing DEF StepOutcome
<1>13. CASE c = [server |-> [k EXCEPT !.lifetimeTimer = "armed"], result |-> "NO_ERROR"]
  <2> DEFINE z == [k EXCEPT !.lifetimeTimer = "armed"]
  <2>1. z \in ServerRecord
    BY <1>11 DEF ServerRecord
  <2>2. /\ z.status = q.status /\ z.updateTimer = "none" /\ z.lifetimeTimer = "armed"
        /\ z.session = "none" /\ z.exchange = NoExchange /\ z.flags = q.flags
        /\ z.stale = q.stale /\ z.update = q.update /\ z.event = q.event
    BY <1>8, <1>9, <1>10 DEF ServerRecord
  <2>3. c.server = z /\ c.result = "NO_ERROR"
    BY <1>13
  <2> HIDE DEF z
  <2>4. Consistent(s, z)
    BY <1>3, <1>7, <2>2 DEF Consistent, IdleEvents
  <2> QED
    BY <1>7, <2>1, <2>2, <2>3, <2>4 DEF StepOutcome, Good
<1> QED
  BY <1>1, <1>12, <1>13

\* A round leaves every server of the list consistent.
LEMMA Stepped ==
  ASSUME NEW s, NEW r, Good(s, r), NEW c \in StepServer(s, r)
  PROVE  /\ r.status \in {"absent", "freed"} => c = [server |-> r, result |-> "ERROR"]
         /\ r.status \notin {"absent", "freed"} => StepOutcome(s, c)
<1>1. CASE r.status \in {"absent", "freed"}
  BY <1>1 DEF StepServer, ReadyToConnect
<1>2. CASE r.status = "DISCONNECTED" /\ "DISABLE" \notin r.flags
  <2>1. c \in InitiateRegistration(s, [r EXCEPT !.status = "WAITING_CONNECTION"])
    BY <1>2 DEF StepServer, ReadyToConnect
  <2> QED
    BY <1>2, <2>1, Initiated
<1>3. CASE r.status = "REGISTERED" /\ "UPDATE" \in r.flags /\ ~insideCallback
  <2>1. c \in StepUpdate(s, r)
    BY <1>3 DEF StepServer, ReadyToConnect
  <2> QED
    BY <1>3, <2>1, StepUpdated
<1>4. CASE r.status = "REGISTERED" /\ "DISABLE" \in r.flags
           /\ ~("UPDATE" \in r.flags /\ ~insideCallback)
  <2>1. c \in StepDisable(r)
    BY <1>4 DEF StepServer, ReadyToConnect
  <2> QED
    BY <1>4, <2>1, StepDisabled
<1>5. CASE r.status = "FAILED"
  BY <1>5 DEF StepServer, ReadyToConnect, StepOutcome
<1>6. CASE /\ r.status \notin {"absent", "freed", "FAILED"}
           /\ ~(r.status = "DISCONNECTED" /\ "DISABLE" \notin r.flags)
           /\ ~(r.status = "REGISTERED" /\ "UPDATE" \in r.flags /\ ~insideCallback)
           /\ ~(r.status = "REGISTERED" /\ "DISABLE" \in r.flags
                /\ ~("UPDATE" \in r.flags /\ ~insideCallback))
  <2>1. c = [server |-> r, result |-> "NO_ERROR"]
    BY <1>6 DEF StepServer, ReadyToConnect
  <2> QED
    BY <1>6, <2>1 DEF StepOutcome
<1> QED
  BY <1>1, <1>2, <1>3, <1>4, <1>5, <1>6

\* A failed server starts again from nothing.
LEMMA ResetServer ==
  ASSUME NEW s, NEW r, Good(s, r), r.status = "FAILED"
  PROVE  Good(s, Reset(r)) /\ Reset(r).status = "DISCONNECTED"
<1> DEFINE t == [r EXCEPT !.status = "DISCONNECTED", !.flags = {}, !.update = {}]
<1>1. /\ r \in ServerRecord
      /\ r.updateTimer = "none" /\ r.session = "none" /\ r.exchange = NoExchange
      /\ r.lifetimeTimer = "none" /\ r.event \in IdleEvents(s)
  BY DEF Good, Consistent
<1>2. Reset(r) = t
  BY DEF Reset
<1>3. t \in ServerRecord
  BY <1>1, ZenonT(120) DEF ServerRecord, Status
<1>4. /\ t.status = "DISCONNECTED" /\ t.flags = {}
      /\ t.updateTimer = "none" /\ t.session = "none" /\ t.exchange = NoExchange
      /\ t.lifetimeTimer = "none" /\ t.event \in IdleEvents(s)
  BY <1>1 DEF ServerRecord
<1> HIDE DEF t
<1>5. Consistent(s, t)
  BY <1>4 DEF Consistent
<1> QED
  BY <1>2, <1>3, <1>4, <1>5 DEF Good

-----------------------------------------------------------------------------
(* The requests of the application and of the Servers                      *)

\* Flagging an update disturbs nothing else, and with it a change may be stale.
LEMMA Flagged ==
  ASSUME NEW s, NEW r, Good(s, r), NEW x \in SUBSET UpdateFlags,
         NEW l \in Lifetimes \cup {DefaultLifetime}
  PROVE  LET t == [r EXCEPT !.lifetime = l, !.stale = @ \cup x]
             q == lwm2mUpdateRegistration(t, x)
         IN  Good(s, q) /\ q.status = r.status
<1> DEFINE t == [r EXCEPT !.lifetime = l, !.stale = @ \cup x]
           u == [t EXCEPT !.flags = @ \cup {"UPDATE"}, !.update = @ \cup x]
           q == lwm2mUpdateRegistration(t, x)
<1>1. r \in ServerRecord
  BY DEF Good
<1>2. t \in ServerRecord
  BY <1>1, ZenonT(120) DEF ServerRecord
<1>3. /\ t.status = r.status /\ t.updateTimer = r.updateTimer
      /\ t.lifetimeTimer = r.lifetimeTimer /\ t.session = r.session
      /\ t.exchange = r.exchange /\ t.event = r.event /\ t.flags = r.flags
      /\ t.update = r.update /\ t.stale = r.stale \cup x
  BY <1>1 DEF ServerRecord
<1> HIDE DEF t
<1>4. u \in ServerRecord
  BY <1>2, ZenonT(120) DEF ServerRecord
<1>5. /\ u.status = r.status /\ u.updateTimer = r.updateTimer
      /\ u.lifetimeTimer = r.lifetimeTimer /\ u.session = r.session
      /\ u.exchange = r.exchange /\ u.event = r.event
      /\ u.update = r.update \cup x /\ u.stale = r.stale \cup x
  BY <1>2, <1>3 DEF ServerRecord
<1> HIDE DEF u
<1>6. CASE r.status \in {"REGISTERING", "REGISTERED", "UPDATE_PENDING"}
  <2>1. q = u
    BY <1>3, <1>6 DEF lwm2mUpdateRegistration, u
  <2>2. Consistent(s, u)
    BY <1>5, <1>6 DEF Good, Consistent
  <2> QED
    BY <1>4, <1>5, <2>1, <2>2 DEF Good, t
<1>7. CASE r.status \notin {"REGISTERING", "REGISTERED", "UPDATE_PENDING"}
  <2>1. q = t
    BY <1>3, <1>7 DEF lwm2mUpdateRegistration
  <2>2. Consistent(s, t)
    BY <1>3, <1>7 DEF Good, Consistent
  <2> QED
    BY <1>2, <1>3, <2>1, <2>2 DEF Good, t
<1> QED
  BY <1>6, <1>7

\* The same without a change of the lifetime.
LEMMA FlaggedSame ==
  ASSUME NEW s, NEW r, Good(s, r), NEW x \in SUBSET UpdateFlags
  PROVE  LET q == lwm2mUpdateRegistration([r EXCEPT !.stale = @ \cup x], x)
         IN  Good(s, q) /\ q.status = r.status
<1>1. r \in ServerRecord /\ r.lifetime \in Lifetimes \cup {DefaultLifetime}
  BY DEF Good, ServerRecord
<1>2. [r EXCEPT !.stale = @ \cup x] = [r EXCEPT !.lifetime = r.lifetime, !.stale = @ \cup x]
  BY <1>1, ZenonT(120) DEF ServerRecord
<1>3. LET t == [r EXCEPT !.lifetime = r.lifetime, !.stale = @ \cup x]
          q == lwm2mUpdateRegistration(t, x)
      IN  Good(s, q) /\ q.status = r.status
  BY <1>1, Flagged
<1> QED
  BY <1>2, <1>3

\* The registration of a new server.
LEMMA NewServer ==
  ASSUME NEW s
  PROVE  /\ Good(s, Absent)
         /\ \A l \in Lifetimes \cup {DefaultLifetime} :
              Good(s, [Absent EXCEPT !.status = "DISCONNECTED", !.lifetime = l])
<1>1. NoExchange \in Exchange
  BY DEF NoExchange, Exchange
<1>2. Absent \in ServerRecord
  BY <1>1 DEF Absent, ServerRecord, Status, Session, Event
<1>3. Consistent(s, Absent)
  BY DEF Absent, Consistent
<1>4. ASSUME NEW l \in Lifetimes \cup {DefaultLifetime}
      PROVE  Good(s, [Absent EXCEPT !.status = "DISCONNECTED", !.lifetime = l])
  <2> DEFINE t == [Absent EXCEPT !.status = "DISCONNECTED", !.lifetime = l]
  <2>1. t \in ServerRecord
    BY <1>2, ZenonT(120) DEF ServerRecord, Status
  <2>2. /\ t.status = "DISCONNECTED" /\ t.flags = {} /\ t.updateTimer = "none"
        /\ t.lifetimeTimer = "none" /\ t.session = "none" /\ t.exchange = NoExchange
        /\ t.event = "NONE"
    BY DEF Absent
  <2> HIDE DEF t
  <2>3. Consistent(s, t)
    BY <2>2 DEF Consistent, IdleEvents
  <2> QED
    BY <2>1, <2>3 DEF Good, t
<1> QED
  BY <1>2, <1>3, <1>4 DEF Good

\* The change of the Object list leaves every server as consistent as it was.
LEMMA ObjectsFlagged ==
  ASSUME NEW servers, NEW s \in Server, Good(s, servers[s]),
         state = "DEVICE_MANAGEMENT"
           \/ servers[s].status \in {"absent", "freed", "DISCONNECTED"}
  PROVE  /\ Good(s, ObjectsChanged(servers)[s])
         /\ ObjectsChanged(servers)[s].status = servers[s].status
<1> DEFINE o == servers[s]
           t == [o EXCEPT !.stale = @ \cup {"OBJECTS"}]
<1>1. o \in ServerRecord
  BY DEF Good
<1>2. {"OBJECTS"} \in SUBSET UpdateFlags
  BY DEF UpdateFlags
<1>3. ObjectsChanged(servers)[s] =
        IF o.status \in {"absent", "freed"} THEN o
        ELSE IF state = "DEVICE_MANAGEMENT" THEN lwm2mUpdateRegistration(t, {"OBJECTS"})
        ELSE t
  <2>1. t.status = o.status
    BY <1>1 DEF ServerRecord
  <2> QED
    BY <2>1 DEF ObjectsChanged
<1>4. Good(s, lwm2mUpdateRegistration(t, {"OBJECTS"}))
      /\ lwm2mUpdateRegistration(t, {"OBJECTS"}).status = o.status
  BY <1>2, FlaggedSame
<1>5. CASE o.status = "DISCONNECTED"
  <2>1. t.status = "DISCONNECTED"
    BY <1>1, <1>5 DEF ServerRecord
  <2>2. lwm2mUpdateRegistration(t, {"OBJECTS"}) = t
    BY <2>1 DEF lwm2mUpdateRegistration
  <2> HIDE DEF t, o
  <2> QED
    BY <1>3, <1>4, <1>5, <2>2 DEF o
<1> HIDE DEF t
<1> QED
  BY <1>3, <1>4, <1>5

-----------------------------------------------------------------------------
(* The inductive invariant                                                 *)

Ind == TypeOK /\ RegistrationInv

\* A handler of one server keeps it when it leaves that server consistent and
\* does not connect one that is disconnected.
LEMMA Handler ==
  ASSUME Ind, NEW s \in serverList, NEW records, Becomes(s, records),
         \A q \in records : /\ Good(s, q)
                            /\ srv[s].status = "DISCONNECTED" => q.status = "DISCONNECTED"
  PROVE  Ind'
<1>1. PICK q \in records : srv' = [srv EXCEPT ![s] = q]
  BY DEF Becomes
<1>2. s \in Server /\ Good(s, q) /\ srv \in [Server -> ServerRecord]
  BY DEF serverList, Ind, TypeOK
<1>3. srv' \in [Server -> ServerRecord]
  BY <1>1, <1>2 DEF Good
<1>4. \A t \in Server : srv'[t] = IF t = s THEN q ELSE srv[t]
  BY <1>1, <1>2
<1>5. TypeOK'
  BY <1>3 DEF TypeOK, Ind, Becomes
<1>6. \A t \in Server : Consistent(t, srv'[t])
  BY <1>2, <1>4 DEF Ind, RegistrationInv, Good
<1>7. InitialIsIdle'
  BY <1>2, <1>4 DEF Ind, RegistrationInv, InitialIsIdle, Becomes, serverList
<1> QED
  BY <1>5, <1>6, <1>7 DEF Ind, RegistrationInv

\* A listed server is consistent, and in the list for good reason.
LEMMA Listed ==
  ASSUME Ind, NEW s \in serverList
  PROVE  /\ s \in Server /\ srv[s] \in ServerRecord /\ Good(s, srv[s])
         /\ srv[s].status \notin {"absent", "freed"}
BY DEF Ind, TypeOK, RegistrationInv, serverList, Good

\* The timers.
LEMMA StackStep ==
  ASSUME Ind, NEW s \in Server, StackOf(s)
  PROVE  Ind'
<1> DEFINE r == srv[s]
<1>1. s \in serverList
  BY DEF StackOf
<1>2. /\ r \in ServerRecord /\ Good(s, r) /\ Consistent(s, r)
      /\ r.status \notin {"absent", "freed"}
  BY <1>1, Listed DEF Good
<1>3. CASE ExchangeTimer(s)
  <2> DEFINE t == [r EXCEPT !.updateTimer = "none"]
  <2>1. t \in ServerRecord
    BY <1>2 DEF ServerRecord
  <2>2. r.status # "DISCONNECTED"
    BY <1>2, <1>3 DEF ExchangeTimer, Consistent
  <2>3. Becomes(s, {prv_serverRegistrationFailing(t)})
    BY <1>3 DEF ExchangeTimer
  <2> HIDE DEF t
  <2> QED
    BY <1>1, <2>1, <2>2, <2>3, Failing, Handler
<1>4. CASE UpdateTimer(s)
  <2> DEFINE t == [r EXCEPT !.updateTimer = "none"]
  <2>1. t \in ServerRecord
    BY <1>2 DEF ServerRecord
  <2>2. /\ t.status = r.status /\ t.updateTimer = "none"
        /\ t.lifetimeTimer = r.lifetimeTimer /\ t.session = r.session
        /\ t.exchange = r.exchange /\ t.event = r.event
        /\ t.update = r.update /\ t.stale = r.stale
    BY <1>2 DEF ServerRecord
  <2>3. r.status \in {"REGISTERED", "UPDATE_PENDING"}
    BY <1>2, <1>4 DEF UpdateTimer, Consistent, ServerRecord, Status
  <2>4. Becomes(s, IF t.status = "REGISTERED" THEN prv_updateRegistration(t) ELSE {t})
    BY <1>4 DEF UpdateTimer
  <2> HIDE DEF t
  <2>5. Good(s, t)
    BY <1>2, <2>1, <2>2, <2>3 DEF Good, Consistent
  <2>6. \A q \in IF t.status = "REGISTERED" THEN prv_updateRegistration(t) ELSE {t} : Good(s, q)
    BY <2>5, Updated
  <2> QED
    BY <1>1, <2>3, <2>4, <2>6, Handler
<1>5. CASE LifetimeTimer(s)
  <2> DEFINE t == [r EXCEPT !.lifetimeTimer = "none"]
             e == [t EXCEPT !.flags = @ \ {"DISABLE"}]
             q == IF t.status = "DISCONNECTED" THEN e ELSE prv_serverRegistrationFailing(t)
  <2>1. t \in ServerRecord
    BY <1>2 DEF ServerRecord
  <2>2. t.status = r.status
    BY <1>2 DEF ServerRecord
  <2>3. e \in ServerRecord
    BY <1>2, ZenonT(120) DEF ServerRecord
  <2>4. /\ e.status = r.status /\ e.updateTimer = r.updateTimer
        /\ e.lifetimeTimer = "none" /\ e.session = r.session
        /\ e.exchange = r.exchange /\ e.event = r.event /\ "DISABLE" \notin e.flags
    BY <1>2 DEF ServerRecord
  <2>5. Becomes(s, {q})
    BY <1>5 DEF LifetimeTimer
  <2> HIDE DEF t, e
  <2>6. CASE t.status = "DISCONNECTED"
    <3>1. Consistent(s, e)
      BY <1>2, <2>2, <2>4, <2>6 DEF Consistent
    <3>2. q = e
      BY <2>6
    <3> HIDE DEF q
    <3> QED
      BY <1>1, <2>2, <2>3, <2>4, <2>5, <2>6, <3>1, <3>2, Handler DEF Good
  <2>7. CASE t.status # "DISCONNECTED"
    <3>1. q = prv_serverRegistrationFailing(t)
      BY <2>7
    <3> HIDE DEF q
    <3> QED
      BY <1>1, <2>1, <2>2, <2>5, <2>7, <3>1, Failing, Handler
  <2> QED
    BY <2>6, <2>7
<1>6. CASE NoReply(s)
  <2>1. r.status # "DISCONNECTED"
    <3>1. NoExchange.kind = "none"
      BY DEF NoExchange
    <3> QED
      BY <1>2, <1>6, <3>1 DEF NoReply, Consistent
  <2>2. CASE r.exchange.kind = "register"
    <3>1. Becomes(s, prv_handleRegistrationReply(r, "none"))
      BY <1>6, <2>2 DEF NoReply
    <3>2. \A q \in prv_handleRegistrationReply(r, "none") : Good(s, q)
      BY <1>2, <2>2, RegistrationReply
    <3> QED
      BY <1>1, <2>1, <3>1, <3>2, Handler
  <2>3. CASE r.exchange.kind # "register"
    <3>1. r.exchange.kind = "update" /\ Becomes(s, prv_handleRegistrationUpdateReply(r, "none"))
      BY <1>6, <2>3 DEF NoReply
    <3>2. \A q \in prv_handleRegistrationUpdateReply(r, "none") : Good(s, q)
      BY <1>2, <3>1, UpdateReply
    <3> QED
      BY <1>1, <2>1, <3>1, <3>2, Handler
  <2> QED
    BY <2>2, <2>3
<1>7. CASE HandshakeDone(s)
  <2> DEFINE records == CoapEventConnected([r EXCEPT !.session = "connected"])
  <2>1. Becomes(s, records) /\ r.session = "handshaking"
    BY <1>7 DEF HandshakeDone
  <2>2. \A q \in records : Good(s, q)
    BY <1>2, <2>1, HandshakeEnds
  <2>3. r.status # "DISCONNECTED"
    BY <1>2, <2>1 DEF Consistent
  <2> HIDE DEF records
  <2> QED
    BY <1>1, <2>1, <2>2, <2>3, Handler
<1>8. CASE HandshakeFailed(s)
  <2> DEFINE q == CoapEventDisconnected([r EXCEPT !.session = "failed"])
  <2>1. Becomes(s, {q}) /\ r.session = "handshaking"
    BY <1>8 DEF HandshakeFailed
  <2>2. Good(s, q)
    BY <1>2, <2>1, SessionLost
  <2>3. r.status # "DISCONNECTED"
    BY <1>2, <2>1 DEF Consistent
  <2> HIDE DEF q
  <2> QED
    BY <1>1, <2>1, <2>2, <2>3, Handler
<1>9. CASE SessionClosed(s)
  <2> DEFINE q == CoapEventDisconnected([r EXCEPT !.session = "disconnected"])
  <2>1. Becomes(s, {q}) /\ r.session = "disconnecting"
    BY <1>9 DEF SessionClosed
  <2>2. Good(s, q)
    BY <1>2, <2>1, SessionLost
  <2>3. r.status # "DISCONNECTED"
    BY <1>2, <2>1 DEF Consistent
  <2> HIDE DEF q
  <2> QED
    BY <1>1, <2>1, <2>2, <2>3, Handler
<1> QED
  BY <1>3, <1>4, <1>5, <1>6, <1>7, <1>8, <1>9 DEF StackOf

\* The fields that Consistent does not read, or reads in one status only.
LEMMA WrittenTimeout ==
  ASSUME NEW s, NEW r, Good(s, r), NEW timeout \in DisableTimeouts
  PROVE  /\ Good(s, [r EXCEPT !.disableTimeout = timeout])
         /\ [r EXCEPT !.disableTimeout = timeout].status = r.status
<1> DEFINE t == [r EXCEPT !.disableTimeout = timeout]
<1>1. r \in ServerRecord
  BY DEF Good
<1>2. t \in ServerRecord
  BY <1>1 DEF ServerRecord
<1>3. /\ t.status = r.status /\ t.updateTimer = r.updateTimer
      /\ t.lifetimeTimer = r.lifetimeTimer /\ t.session = r.session
      /\ t.exchange = r.exchange /\ t.event = r.event /\ t.flags = r.flags
      /\ t.update = r.update /\ t.stale = r.stale
  BY <1>1 DEF ServerRecord
<1> HIDE DEF t
<1>4. Consistent(s, t)
  BY <1>3 DEF Good, Consistent
<1> QED
  BY <1>2, <1>3, <1>4 DEF Good, t

\* A Server that asks for an update or for its own disabling only changes flags,
\* and a server that is not disconnected stays consistent.
LEMMA WrittenFlags ==
  ASSUME NEW s, NEW r, Good(s, r), r.status # "DISCONNECTED",
         NEW flags \in SUBSET {"UPDATE", "DISABLE"}
  PROVE  Good(s, [r EXCEPT !.flags = flags])
<1> DEFINE t == [r EXCEPT !.flags = flags]
<1>1. r \in ServerRecord
  BY DEF Good
<1>2. t \in ServerRecord
  BY <1>1 DEF ServerRecord
<1>3. /\ t.status = r.status /\ t.updateTimer = r.updateTimer
      /\ t.lifetimeTimer = r.lifetimeTimer /\ t.session = r.session
      /\ t.exchange = r.exchange /\ t.event = r.event
      /\ t.update = r.update /\ t.stale = r.stale
  BY <1>1 DEF ServerRecord
<1> HIDE DEF t
<1>4. Consistent(s, t)
  BY <1>3 DEF Good, Consistent
<1> QED
  BY <1>2, <1>4 DEF Good, t

\* The Servers and the network.
LEMMA PeerStep ==
  ASSUME Ind, NEW s \in Server, PeerOf(s)
  PROVE  Ind'
<1> DEFINE r == srv[s]
<1>1. s \in serverList
  BY DEF PeerOf
<1>2. /\ r \in ServerRecord /\ Good(s, r) /\ Consistent(s, r)
      /\ r.status \notin {"absent", "freed"}
  BY <1>1, Listed DEF Good
<1>3. ASSUME NEW response, Reply(s, response) PROVE Ind'
  <2>1. r.status # "DISCONNECTED"
    BY <1>2, <1>3 DEF Reply, Consistent
  <2>2. CASE r.exchange.kind = "register"
    <3>1. Becomes(s, prv_handleRegistrationReply(r, response))
      BY <1>3, <2>2 DEF Reply
    <3>2. \A q \in prv_handleRegistrationReply(r, response) : Good(s, q)
      BY <1>2, <2>2, RegistrationReply
    <3> QED
      BY <1>1, <2>1, <3>1, <3>2, Handler
  <2>3. CASE r.exchange.kind # "register"
    <3>1. /\ r.exchange.kind = "update"
          /\ Becomes(s, prv_handleRegistrationUpdateReply(r, response))
      BY <1>3, <2>3 DEF Reply
    <3>2. \A q \in prv_handleRegistrationUpdateReply(r, response) : Good(s, q)
      BY <1>2, <3>1, UpdateReply
    <3> QED
      BY <1>1, <2>1, <3>1, <3>2, Handler
  <2> QED
    BY <2>2, <2>3
<1>4. CASE CloseNotify(s)
  <2> DEFINE q == [r EXCEPT !.session = "disconnecting"]
  <2>1. Becomes(s, {q}) /\ r.session = "connected"
    BY <1>4 DEF CloseNotify
  <2>2. q \in ServerRecord
    BY <1>2 DEF ServerRecord, Session
  <2>3. /\ q.session = "disconnecting" /\ q.status = r.status /\ q.exchange = r.exchange
        /\ q.updateTimer = r.updateTimer /\ q.lifetimeTimer = r.lifetimeTimer
        /\ q.event = r.event /\ q.stale = r.stale /\ q.update = r.update
    BY <1>2 DEF ServerRecord
  <2>4. r.status \notin {"DISCONNECTED", "FAILED", "WAITING_CONNECTION"}
    BY <1>2, <2>1 DEF Consistent
  <2> HIDE DEF q
  <2>5. Consistent(s, q)
    BY <1>2, <2>3, <2>4 DEF Consistent, Linked
  <2> QED
    BY <1>1, <2>1, <2>2, <2>4, <2>5, Handler DEF Good
<1>5. CASE iowa_connection_closed(s)
  <2> DEFINE t == [r EXCEPT !.session = "closed"]
             q == IF r.session = "connected" THEN CoapEventDisconnected(t) ELSE t
  <2>1. Becomes(s, {q}) /\ r.session \notin {"none", "closed"}
    BY <1>5 DEF iowa_connection_closed
  <2>2. Good(s, q)
    BY <1>2, <2>1, SessionLost
  <2>3. r.status # "DISCONNECTED"
    BY <1>2, <2>1 DEF Consistent
  <2> HIDE DEF q
  <2> QED
    BY <1>1, <2>1, <2>2, <2>3, Handler
<1>6. ASSUME NEW lifetime \in Lifetimes, WriteLifetime(s, lifetime) PROVE Ind'
  <2> DEFINE q == lwm2mUpdateRegistration(
                    [r EXCEPT !.lifetime = lifetime, !.stale = @ \cup {"LIFETIME"}],
                    {"LIFETIME"})
  <2>1. Becomes(s, {q})
    BY <1>6 DEF WriteLifetime
  <2>2. {"LIFETIME"} \in SUBSET UpdateFlags
    BY DEF UpdateFlags
  <2>3. Good(s, q) /\ q.status = r.status
    BY <1>2, <2>2, Flagged
  <2> HIDE DEF q
  <2> QED
    BY <1>1, <2>1, <2>3, Handler
<1>7. ASSUME NEW timeout \in DisableTimeouts, WriteDisableTimeout(s, timeout) PROVE Ind'
  <2> DEFINE q == [r EXCEPT !.disableTimeout = timeout]
  <2>1. Becomes(s, {q})
    BY <1>7 DEF WriteDisableTimeout
  <2>2. Good(s, q) /\ q.status = r.status
    BY <1>2, WrittenTimeout
  <2> HIDE DEF q
  <2> QED
    BY <1>1, <2>1, <2>2, Handler
<1>8. CASE TriggerUpdate(s)
  <2> DEFINE q == lwm2mUpdateRegistration(r, {})
  <2>1. Becomes(s, {q})
    BY <1>8 DEF TriggerUpdate
  <2>2. [r EXCEPT !.stale = @ \cup {}] = r
    BY <1>2 DEF ServerRecord
  <2>3. Good(s, lwm2mUpdateRegistration([r EXCEPT !.stale = @ \cup {}], {}))
        /\ lwm2mUpdateRegistration([r EXCEPT !.stale = @ \cup {}], {}).status = r.status
    <3>1. {} \in SUBSET UpdateFlags
      OBVIOUS
    <3> QED
      BY <1>2, <3>1, FlaggedSame
  <2>4. Good(s, q) /\ q.status = r.status
    BY <2>2, <2>3
  <2> HIDE DEF q
  <2> QED
    BY <1>1, <2>1, <2>4, Handler
<1>9. CASE ExecuteDisable(s)
  <2> DEFINE flags == r.flags \cup {"DISABLE"}
             q == [r EXCEPT !.flags = flags]
  <2>1. Becomes(s, {q}) /\ r.status # "DISCONNECTED"
    BY <1>9 DEF ExecuteDisable
  <2>2. flags \in SUBSET {"UPDATE", "DISABLE"}
    BY <1>2 DEF ServerRecord
  <2> HIDE DEF flags
  <2>3. Good(s, q)
    BY <1>2, <2>1, <2>2, WrittenFlags
  <2> HIDE DEF q
  <2> QED
    BY <1>1, <2>1, <2>3, Handler
<1> QED
  BY <1>3, <1>4, <1>5, <1>6, <1>7, <1>8, <1>9 DEF PeerOf

\* The rounds of all the servers, and the reset when none of them is left.
LEMMA RoundStep ==
  ASSUME Ind, StepDeviceManagement
  PROVE  Ind'
<1>1. PICK round \in [Server -> UNION {StepServer(s, srv[s]) : s \in Server}] :
        /\ \A s \in Server : round[s] \in StepServer(s, srv[s])
        /\ IF \E s \in Server : round[s].result = "NO_ERROR"
           THEN /\ srv' = [s \in Server |-> round[s].server]
                /\ UNCHANGED state
           ELSE /\ srv' = [s \in Server |-> Reset(round[s].server)]
                /\ state' = "INITIAL"
  BY DEF StepDeviceManagement
<1>2. /\ state = "DEVICE_MANAGEMENT" /\ insideCallback' \in BOOLEAN
      /\ state' \in {"INITIAL", "DEVICE_MANAGEMENT"}
  BY <1>1 DEF StepDeviceManagement, Ind, TypeOK
<1>3. ASSUME NEW s \in Server
      PROVE  /\ Good(s, round[s].server)
             /\ \/ /\ round[s].server.status \in {"absent", "freed"}
                   /\ round[s].result = "ERROR"
                \/ /\ round[s].result = "NO_ERROR"
                   /\ round[s].server.status \notin {"absent", "freed"}
                \/ /\ round[s].result = "ERROR"
                   /\ round[s].server.status = "FAILED"
  <2>1. Good(s, srv[s]) /\ round[s] \in StepServer(s, srv[s])
    BY <1>1 DEF Ind, TypeOK, RegistrationInv, Good
  <2>2. CASE srv[s].status \in {"absent", "freed"}
    <3>1. round[s] = [server |-> srv[s], result |-> "ERROR"]
      BY <2>1, <2>2, Stepped
    <3> QED
      BY <2>1, <2>2, <3>1
  <2>3. CASE srv[s].status \notin {"absent", "freed"}
    <3>1. StepOutcome(s, round[s])
      BY <2>1, <2>3, Stepped
    <3> QED
      BY <3>1 DEF StepOutcome
  <2> QED
    BY <2>2, <2>3
<1>4. CASE \E s \in Server : round[s].result = "NO_ERROR"
  <2>1. srv' = [s \in Server |-> round[s].server] /\ state' = "DEVICE_MANAGEMENT"
    BY <1>1, <1>2, <1>4
  <2>2. \A s \in Server : srv'[s] \in ServerRecord /\ Consistent(s, srv'[s])
    BY <1>3, <2>1 DEF Good
  <2>3. srv' \in [Server -> ServerRecord]
    BY <2>1, <2>2
  <2> QED
    BY <1>2, <2>1, <2>2, <2>3 DEF Ind, TypeOK, RegistrationInv, InitialIsIdle
<1>5. CASE ~\E s \in Server : round[s].result = "NO_ERROR"
  <2>1. srv' = [s \in Server |-> Reset(round[s].server)]
    BY <1>1, <1>5
  <2>2. ASSUME NEW s \in Server
        PROVE  Good(s, srv'[s]) /\ srv'[s].status \in {"absent", "freed", "DISCONNECTED"}
    <3> DEFINE q == round[s].server
    <3>1. srv'[s] = Reset(q) /\ Good(s, q) /\ q.status \in {"absent", "freed", "FAILED"}
      BY <1>3, <1>5, <2>1
    <3> HIDE DEF q
    <3>2. CASE q.status \in {"absent", "freed"}
      BY <3>1, <3>2 DEF Reset
    <3>3. CASE q.status = "FAILED"
      BY <3>1, <3>3, ResetServer
    <3> QED
      BY <3>1, <3>2, <3>3
  <2>3. srv' \in [Server -> ServerRecord]
    BY <2>1, <2>2 DEF Good
  <2> QED
    BY <1>2, <2>2, <2>3 DEF Ind, TypeOK, RegistrationInv, InitialIsIdle, Good
<1> QED
  BY <1>4, <1>5

\* The application.
LEMMA ApplicationStep ==
  ASSUME Ind, Application
  PROVE  Ind'
<1>1. /\ srv \in [Server -> ServerRecord]
      /\ \A s \in Server : Good(s, srv[s])
      /\ state = "DEVICE_MANAGEMENT"
           \/ \A s \in Server : srv[s].status \in {"absent", "freed", "DISCONNECTED"}
      /\ state \in {"INITIAL", "DEVICE_MANAGEMENT"} /\ insideCallback \in BOOLEAN
  BY DEF Ind, TypeOK, RegistrationInv, InitialIsIdle, Good
<1> DEFINE o == ObjectsChanged(srv)
<1>2. \A s \in Server : Good(s, o[s]) /\ o[s].status = srv[s].status
  BY <1>1, ObjectsFlagged
<1>3. DOMAIN o = Server /\ o = [s \in Server |-> o[s]]
  BY DEF ObjectsChanged
<1> HIDE DEF o
<1>4. ASSUME NEW s \in Server, NEW q, Good(s, q), q.status \in {"absent", "freed", "DISCONNECTED"},
             srv' = [o EXCEPT ![s] = q], UNCHANGED <<state, insideCallback>>
      PROVE  Ind'
  <2>1. \A t \in Server : srv'[t] = IF t = s THEN q ELSE o[t]
    BY <1>3, <1>4
  <2>2. \A t \in Server : Good(t, srv'[t])
    BY <1>2, <1>4, <2>1
  <2>3. srv' \in [Server -> ServerRecord]
    BY <1>3, <1>4, <2>2 DEF Good
  <2>4. InitialIsIdle'
    BY <1>1, <1>2, <1>4, <2>1 DEF InitialIsIdle
  <2> QED
    BY <1>1, <1>4, <2>2, <2>3, <2>4 DEF Ind, TypeOK, RegistrationInv, Good
<1>5. CASE ChangeObjects
  <2>1. srv' = o /\ UNCHANGED <<state, insideCallback>>
    BY <1>5 DEF ChangeObjects, o
  <2>2. srv' \in [Server -> ServerRecord]
    BY <1>2, <1>3, <2>1 DEF Good
  <2>3. InitialIsIdle'
    BY <1>1, <1>2, <2>1 DEF InitialIsIdle
  <2> QED
    BY <1>1, <1>2, <2>1, <2>2, <2>3 DEF Ind, TypeOK, RegistrationInv, Good
<1>6. ASSUME NEW s \in Server, NEW lifetime \in Lifetimes, iowa_client_add_server(s, lifetime)
      PROVE  Ind'
  <2> DEFINE l == IF lifetime = 0 THEN DefaultLifetime ELSE lifetime
             q == [Absent EXCEPT !.status = "DISCONNECTED", !.lifetime = l]
  <2>1. srv' = [o EXCEPT ![s] = q] /\ UNCHANGED <<state, insideCallback>>
    BY <1>6 DEF iowa_client_add_server, o
  <2>2. l \in Lifetimes \cup {DefaultLifetime}
    OBVIOUS
  <2>3. q.status = "DISCONNECTED"
    BY DEF Absent
  <2> HIDE DEF l
  <2>4. Good(s, q)
    BY <2>2, NewServer
  <2> HIDE DEF q
  <2> QED
    BY <1>4, <2>1, <2>3, <2>4
<1>7. ASSUME NEW s \in Server, iowa_client_remove_server(s)
      PROVE  Ind'
  <2> DEFINE x == [srv[s] EXCEPT !.exchange = NoExchange]
  <2>1. x \in ServerRecord
    <3>1. NoExchange \in Exchange
      BY DEF NoExchange, Exchange
    <3> QED
      BY <1>1, <3>1 DEF ServerRecord
  <2>2. CASE srv' = [srv EXCEPT ![s].status = "freed"]
    <3> DEFINE q == [srv[s] EXCEPT !.status = "freed"]
    <3>1. q \in ServerRecord
      BY <1>1 DEF ServerRecord, Status
    <3>2. q.status = "freed"
      BY <1>1 DEF ServerRecord
    <3>3. srv' = [srv EXCEPT ![s] = q]
      BY <1>1, <2>2
    <3> HIDE DEF q
    <3>4. Consistent(s, q)
      BY <3>2 DEF Consistent
    <3>5. \A t \in Server : srv'[t] = IF t = s THEN q ELSE srv[t]
      BY <1>1, <3>3
    <3>6. \A t \in Server : Good(t, srv'[t])
      BY <1>1, <3>1, <3>4, <3>5 DEF Good
    <3>7. srv' \in [Server -> ServerRecord]
      BY <1>1, <3>1, <3>3
    <3>8. UNCHANGED <<state, insideCallback>>
      BY <1>7 DEF iowa_client_remove_server
    <3>9. InitialIsIdle'
      BY <1>1, <3>2, <3>5, <3>8 DEF InitialIsIdle
    <3> QED
      BY <1>1, <3>6, <3>7, <3>8, <3>9 DEF Ind, TypeOK, RegistrationInv, Good
  <2>3. CASE srv' # [srv EXCEPT ![s].status = "freed"]
    <3>1. PICK r \in lwm2m_server_close(x, TRUE) :
            srv' = [o EXCEPT ![s] =
                     [Absent EXCEPT !.updateTimer = r.updateTimer,
                                    !.lifetimeTimer = r.lifetimeTimer, !.session = r.session]]
      BY <1>7, <2>3 DEF iowa_client_remove_server, o
    <3>2. PICK d \in registration_deregister(x) : r = CloseConnection(d)
      BY <3>1 DEF lwm2m_server_close
    <3>3. d \in ServerRecord
      <4> DEFINE n == [x EXCEPT !.status = "DISCONNECTED", !.event = "UNREGISTERED"]
      <4>1. n \in ServerRecord
        BY <2>1, ZenonT(120) DEF ServerRecord, Status, Event
      <4> HIDE DEF x
      <4>2. d = x \/ d = n
        BY <3>2 DEF registration_deregister
      <4> QED
        BY <2>1, <4>1, <4>2
    <3>4. r.updateTimer = "none" /\ r.lifetimeTimer = "none" /\ r.session = "none"
      BY <3>2, <3>3, Closed
    <3>5. srv' = [o EXCEPT ![s] = Absent]
      <4>1. [Absent EXCEPT !.updateTimer = "none", !.lifetimeTimer = "none",
                           !.session = "none"] = Absent
        <5>1. Absent \in ServerRecord
          BY NewServer DEF Good
        <5>2. /\ Absent.updateTimer = "none" /\ Absent.lifetimeTimer = "none"
              /\ Absent.session = "none"
          BY DEF Absent
        <5> QED
          BY <5>1, <5>2, ZenonT(120) DEF ServerRecord
      <4> QED
        BY <3>1, <3>4, <4>1
    <3>6. Good(s, Absent) /\ Absent.status = "absent"
      BY NewServer DEF Absent
    <3>7. UNCHANGED <<state, insideCallback>>
      BY <1>7 DEF iowa_client_remove_server
    <3> QED
      BY <1>4, <3>5, <3>6, <3>7
  <2> QED
    BY <2>2, <2>3
<1>8. ASSUME NEW enter \in BOOLEAN, clientNotificationLock(enter)
      PROVE  Ind'
  BY <1>1, <1>8 DEF clientNotificationLock, Ind, TypeOK, RegistrationInv, InitialIsIdle
<1> QED
  BY <1>5, <1>6, <1>7, <1>8 DEF Application

-----------------------------------------------------------------------------
(* The theorems                                                            *)

\* The inductive invariant holds before any server is declared.
LEMMA IndInit == Init => Ind
<1> SUFFICES ASSUME Init PROVE Ind
  OBVIOUS
<1>1. srv = [s \in Server |-> Absent]
  BY DEF Init
<1>2. (\A s \in Server : Good(s, Absent)) /\ Absent.status = "absent"
  BY NewServer DEF Absent
<1> QED
  BY <1>1, <1>2 DEF Init, Ind, TypeOK, RegistrationInv, InitialIsIdle, Good

\* Every step of the registration machine preserves the inductive invariant.
LEMMA IndNext == Ind /\ [Next]_vars => Ind'
<1> SUFFICES ASSUME Ind, [Next]_vars PROVE Ind'
  OBVIOUS
<1>1. CASE StepInitial
  BY <1>1 DEF StepInitial, Ind, TypeOK, RegistrationInv, InitialIsIdle
<1>2. CASE StepDeviceManagement
  BY <1>2, RoundStep
<1>3. ASSUME NEW s \in Server, StackOf(s) PROVE Ind'
  BY <1>3, StackStep
<1>4. ASSUME NEW s \in Server, PeerOf(s) PROVE Ind'
  BY <1>4, PeerStep
<1>5. CASE Application
  BY <1>5, ApplicationStep
<1>6. CASE UNCHANGED vars
  BY <1>6 DEF vars, Ind, TypeOK, RegistrationInv, InitialIsIdle
<1> QED
  BY <1>1, <1>2, <1>3, <1>4, <1>5, <1>6 DEF Next

\* The types and the consistency of every server are invariants.
THEOREM Invariant == Spec => []Ind
BY IndInit, IndNext, PTL DEF Spec

\* Every run of the registration machine keeps its variables typed.
THEOREM TypeCorrect == Spec => []TypeOK
BY Invariant, PTL DEF Ind

\* Every server is consistent with its status in every reachable state.
THEOREM AlwaysConsistent == Spec => []RegistrationInv
BY Invariant, PTL DEF Ind

\* A registered server always has its lifetime timer: reading its date without a
\* test, as clientGetMaxDelayOperation does, is safe.
THEOREM LifetimeTimerIsArmed == Spec => []LifetimeTimerArmed
<1>1. Ind => LifetimeTimerArmed
  BY DEF Ind, RegistrationInv, Consistent, LifetimeTimerArmed
<1> QED
  BY <1>1, Invariant, PTL

\* A server that is removed, failed or waiting owns no timer, peer or request.
THEOREM NothingIsLeftBehind == Spec => []NothingLeftBehind
<1>1. ASSUME Ind, NEW s \in Server,
             srv[s].status \in {"absent", "DISCONNECTED", "FAILED"}
      PROVE  /\ srv[s].updateTimer = "none"
             /\ srv[s].session = "none"
             /\ srv[s].exchange = NoExchange
             /\ srv[s].lifetimeTimer = "armed" <=>
                  srv[s].status = "DISCONNECTED" /\ "DISABLE" \in srv[s].flags
  BY <1>1 DEF Ind, RegistrationInv, Consistent
<1>2. Ind => NothingLeftBehind
  BY <1>1 DEF NothingLeftBehind
<1> QED
  BY <1>2, Invariant, PTL

\* There is at most one request outstanding to a server, the one its status
\* waits for.
THEOREM ReplyIsAlwaysAwaited == Spec => []ReplyIsAwaited
<1>1. NoExchange.kind = "none"
  BY DEF NoExchange
<1>2. ASSUME Ind, NEW s \in serverList
      PROVE  /\ srv[s].exchange.kind = "register" <=> srv[s].status = "REGISTERING"
             /\ srv[s].exchange.kind = "update" <=> srv[s].status = "UPDATE_PENDING"
             /\ srv[s].exchange.kind # "several"
  <2>1. Consistent(s, srv[s]) /\ srv[s].status \in Status \ {"absent", "freed"}
    BY <1>2, Listed DEF Good, ServerRecord
  <2> QED
    BY <1>1, <2>1 DEF Consistent, Status
<1>3. Ind => ReplyIsAwaited
  BY <1>2 DEF ReplyIsAwaited
<1> QED
  BY <1>3, Invariant, PTL

\* A registration request has its exchange timer, and nothing else has.
THEOREM ExchangeTimerIsArmed == Spec => []ExchangeTimerArmed
<1>1. ASSUME Ind, NEW s \in serverList
      PROVE  srv[s].updateTimer = "exchange" <=> srv[s].status = "REGISTERING"
  <2>1. Consistent(s, srv[s]) /\ srv[s].status \in Status \ {"absent", "freed"}
    BY <1>1, Listed DEF Good, ServerRecord
  <2> QED
    BY <2>1 DEF Consistent, Status
<1>2. Ind => ExchangeTimerArmed
  BY <1>1 DEF ExchangeTimerArmed
<1> QED
  BY <1>2, Invariant, PTL

\* No change of the Objects or of the lifetime is forgotten before a request
\* carries it.
THEOREM ChangesAlwaysStayFlagged == Spec => []ChangesStayFlagged
<1>1. Ind => ChangesStayFlagged
  BY DEF Ind, RegistrationInv, Consistent, ChangesStayFlagged
<1> QED
  BY <1>1, Invariant, PTL

\* The last event tells the application of every status of every listed server,
\* but for the events IdleEvents names: of a plain server whose registration
\* request could not be sent, the application is last told that it is being
\* registered.
THEOREM EventAlwaysAgrees == Spec => []EventAgrees
<1>1. ASSUME Ind, NEW s \in serverList
      PROVE  /\ srv[s].status \in {"WAITING_CONNECTION", "REGISTERING"}
                   => srv[s].event = "REGISTERING"
             /\ srv[s].status = "REGISTERED"
                   <=> srv[s].event \in {"REGISTERED", "UPDATE_FAILED"}
             /\ srv[s].status = "UPDATE_PENDING" <=> srv[s].event = "UPDATING"
             /\ srv[s].status \in {"DISCONNECTED", "FAILED"} => srv[s].event \in IdleEvents(s)
  <2>1. Consistent(s, srv[s]) /\ srv[s].status \in Status \ {"absent", "freed"}
    BY <1>1, Listed DEF Good, ServerRecord
  <2> QED
    BY <2>1 DEF Consistent, Status, IdleEvents
<1>2. Ind => EventAgrees
  BY <1>1 DEF EventAgrees
<1> QED
  BY <1>2, Invariant, PTL

-----------------------------------------------------------------------------
(* What a step may never do                                                *)

\* A server nobody talks to: it failed, or waits for the end of its disable time.
Quiet(r) == r.status = "FAILED" \/ (r.status = "DISCONNECTED" /\ "DISABLE" \in r.flags)

\* It owns nothing that could wake it but the timer of the disabled one.
LEMMA QuietOwnsNothing ==
  ASSUME Ind, NEW s \in Server, Quiet(srv[s])
  PROVE  /\ srv[s] \in ServerRecord
         /\ srv[s].updateTimer = "none" /\ srv[s].session = "none"
         /\ srv[s].exchange.kind = "none"
         /\ srv[s].lifetimeTimer = "armed" => srv[s].status = "DISCONNECTED"
<1>1. NoExchange.kind = "none"
  BY DEF NoExchange
<1> QED
  BY <1>1 DEF Quiet, Ind, TypeOK, RegistrationInv, Consistent

\* A handler of a server leaves the records of the others.
LEMMA OthersKept ==
  ASSUME Ind, NEW s \in Server, NEW t \in Server, t # s, StackOf(t) \/ PeerOf(t)
  PROVE  srv'[s] = srv[s]
<1>1. ASSUME NEW records, Becomes(t, records) PROVE srv'[s] = srv[s]
  BY <1>1 DEF Becomes, Ind, TypeOK
<1>2. CASE StackOf(t)
  BY <1>1, <1>2 DEF StackOf, ExchangeTimer, UpdateTimer, LifetimeTimer, NoReply,
                    HandshakeDone, HandshakeFailed, SessionClosed
<1>3. CASE PeerOf(t)
  BY <1>1, <1>3 DEF PeerOf, Reply, CloseNotify, iowa_connection_closed, WriteLifetime,
                    WriteDisableTimeout, TriggerUpdate, ExecuteDisable
<1> QED
  BY <1>2, <1>3

\* Of the handlers of a quiet server only its own timer, the writes of other
\* Servers and a trigger apply, and none of them wakes it.
LEMMA QuietHandled ==
  ASSUME Ind, NEW s \in Server, Quiet(srv[s]), NEW t \in Server, StackOf(t) \/ PeerOf(t)
  PROVE  srv'[s].status = srv[s].status /\ srv'[s].session = "none"
<1> DEFINE r == srv[s]
<1>1. /\ r \in ServerRecord /\ r.updateTimer = "none" /\ r.session = "none"
      /\ r.exchange.kind = "none" /\ r.status \in {"FAILED", "DISCONNECTED"}
      /\ r.lifetimeTimer = "armed" => r.status = "DISCONNECTED"
      /\ srv \in [Server -> ServerRecord]
  BY QuietOwnsNothing DEF Quiet, Ind, TypeOK
<1>2. CASE t # s
  BY <1>1, <1>2, OthersKept
<1>3. ASSUME NEW q, q.status = r.status, q.session = "none", Becomes(s, {q})
      PROVE  srv'[s].status = r.status /\ srv'[s].session = "none"
  BY <1>1, <1>3 DEF Becomes
<1>4. CASE StackOf(s)
  <2>1. LifetimeTimer(s)
    BY <1>1, <1>4 DEF StackOf, ExchangeTimer, UpdateTimer, NoReply, HandshakeDone,
                      HandshakeFailed, SessionClosed
  <2> DEFINE u == [r EXCEPT !.lifetimeTimer = "none"]
             q == [u EXCEPT !.flags = @ \ {"DISABLE"}]
  <2>2. u.status = r.status /\ q.status = r.status /\ q.session = "none"
    BY <1>1 DEF ServerRecord
  <2>3. Becomes(s, {q})
    BY <1>1, <2>1, <2>2 DEF LifetimeTimer
  <2> HIDE DEF q
  <2> QED
    BY <1>3, <2>2, <2>3
<1>5. CASE PeerOf(s)
  <2>1. \/ \E lifetime \in Lifetimes : WriteLifetime(s, lifetime)
        \/ \E timeout \in DisableTimeouts : WriteDisableTimeout(s, timeout)
        \/ TriggerUpdate(s)
    BY <1>1, <1>5 DEF PeerOf, Reply, CloseNotify, iowa_connection_closed, ExecuteDisable
  <2>2. ASSUME NEW lifetime \in Lifetimes, WriteLifetime(s, lifetime)
        PROVE  srv'[s].status = r.status /\ srv'[s].session = "none"
    <3> DEFINE q == [r EXCEPT !.lifetime = lifetime, !.stale = @ \cup {"LIFETIME"}]
    <3>1. q.status = r.status /\ q.session = "none"
      BY <1>1 DEF ServerRecord
    <3>2. Becomes(s, {q})
      BY <1>1, <2>2, <3>1 DEF WriteLifetime, lwm2mUpdateRegistration
    <3> HIDE DEF q
    <3> QED
      BY <1>3, <3>1, <3>2
  <2>3. ASSUME NEW timeout \in DisableTimeouts, WriteDisableTimeout(s, timeout)
        PROVE  srv'[s].status = r.status /\ srv'[s].session = "none"
    <3> DEFINE q == [r EXCEPT !.disableTimeout = timeout]
    <3>1. q.status = r.status /\ q.session = "none" /\ Becomes(s, {q})
      BY <1>1, <2>3 DEF ServerRecord, WriteDisableTimeout
    <3> HIDE DEF q
    <3> QED
      BY <1>3, <3>1
  <2>4. CASE TriggerUpdate(s)
    <3>1. Becomes(s, {r})
      BY <1>1, <2>4 DEF TriggerUpdate, lwm2mUpdateRegistration
    <3> QED
      BY <1>1, <1>3, <3>1
  <2> QED
    BY <2>1, <2>2, <2>3, <2>4
<1> QED
  BY <1>2, <1>4, <1>5

\* A change of the Objects flags a server and does not wake it.
LEMMA QuietFlagged ==
  ASSUME Ind, NEW s \in Server, Quiet(srv[s])
  PROVE  /\ ObjectsChanged(srv)[s].status = srv[s].status
         /\ ObjectsChanged(srv)[s].session = "none"
<1> DEFINE r == srv[s]
           q == [r EXCEPT !.stale = @ \cup {"OBJECTS"}]
<1>1. r \in ServerRecord /\ r.session = "none" /\ r.status \in {"FAILED", "DISCONNECTED"}
  BY QuietOwnsNothing DEF Quiet
<1>2. q.status = r.status /\ q.session = "none"
  BY <1>1 DEF ServerRecord
<1>3. ObjectsChanged(srv)[s] = q
  BY <1>1, <1>2 DEF ObjectsChanged, lwm2mUpdateRegistration
<1> HIDE DEF q
<1> QED
  BY <1>2, <1>3

\* The application wakes it only by removing it.
LEMMA QuietApplication ==
  ASSUME Ind, NEW s \in Server, Quiet(srv[s]), Application
  PROVE  \/ s \notin serverList'
         \/ srv'[s].status = srv[s].status /\ srv'[s].session = "none"
<1> DEFINE o == ObjectsChanged(srv)
           kept == srv'[s].status = srv[s].status /\ srv'[s].session = "none"
<1>1. o[s].status = srv[s].status /\ o[s].session = "none" /\ DOMAIN o = Server
  BY QuietFlagged DEF ObjectsChanged
<1>2. srv \in [Server -> ServerRecord] /\ srv[s].session = "none"
      /\ srv[s].status \in {"FAILED", "DISCONNECTED"}
  BY QuietOwnsNothing DEF Quiet, Ind, TypeOK
<1> HIDE DEF o
<1>3. CASE ChangeObjects
  BY <1>1, <1>3 DEF ChangeObjects, o
<1>4. ASSUME NEW t \in Server, NEW lifetime \in Lifetimes, iowa_client_add_server(t, lifetime)
      PROVE  kept
  <2>1. t # s
    BY <1>2, <1>4 DEF iowa_client_add_server
  <2>2. srv'[s] = o[s]
    BY <1>1, <1>4, <2>1 DEF iowa_client_add_server, o
  <2> QED
    BY <1>1, <2>2
<1>5. ASSUME NEW t \in Server, iowa_client_remove_server(t)
      PROVE  s \notin serverList' \/ kept
  <2>1. CASE t = s
    <3>1. CASE srv' = [srv EXCEPT ![s].status = "freed"]
      <4>1. srv'[s].status = "freed"
        BY <1>2, <3>1 DEF ServerRecord
      <4> QED
        BY <4>1 DEF serverList
    <3>2. CASE srv' # [srv EXCEPT ![s].status = "freed"]
      <4>1. PICK r \in lwm2m_server_close([srv[t] EXCEPT !.exchange = NoExchange], TRUE) :
              srv' = [o EXCEPT ![t] =
                       [Absent EXCEPT !.updateTimer = r.updateTimer,
                                      !.lifetimeTimer = r.lifetimeTimer, !.session = r.session]]
        BY <1>5, <2>1, <3>2, Zenon DEF iowa_client_remove_server, o
      <4>2. srv'[s].status = "absent"
        BY <1>1, <2>1, <4>1 DEF Absent
      <4> QED
        BY <4>2 DEF serverList
    <3> QED
      BY <3>1, <3>2
  <2>2. CASE t # s
    <3>1. srv'[s] = o[s] \/ srv'[s] = srv[s]
      BY <1>1, <1>2, <1>5, <2>2 DEF iowa_client_remove_server, o
    <3> QED
      BY <1>1, <1>2, <3>1
  <2> QED
    BY <2>1, <2>2
<1>6. CASE \E enter \in BOOLEAN : clientNotificationLock(enter)
  BY <1>2, <1>6 DEF clientNotificationLock
<1> QED
  BY <1>3, <1>4, <1>5, <1>6 DEF Application

\* A round leaves a disabled server and, but for a reset, a failed one.
LEMMA QuietRound ==
  ASSUME Ind, NEW s \in Server, Quiet(srv[s]), StepDeviceManagement
  PROVE  \/ srv'[s] = srv[s]
         \/ srv[s].status = "FAILED" /\ serverList' = {t \in Server : srv'[t].status = "DISCONNECTED"}
<1>1. PICK round \in [Server -> UNION {StepServer(t, srv[t]) : t \in Server}] :
        /\ \A t \in Server : round[t] \in StepServer(t, srv[t])
        /\ IF \E t \in Server : round[t].result = "NO_ERROR"
           THEN /\ srv' = [t \in Server |-> round[t].server]
                /\ UNCHANGED state
           ELSE /\ srv' = [t \in Server |-> Reset(round[t].server)]
                /\ state' = "INITIAL"
  BY DEF StepDeviceManagement
<1>2. /\ round[s] \in StepServer(s, srv[s])
      /\ srv[s].status = "FAILED" \/ (srv[s].status = "DISCONNECTED" /\ "DISABLE" \in srv[s].flags)
  BY <1>1 DEF Quiet
<1>3. round[s] = [server |-> srv[s],
                  result |-> IF srv[s].status = "FAILED" THEN "ERROR" ELSE "NO_ERROR"]
  BY <1>2 DEF StepServer, ReadyToConnect
<1>4. CASE \E t \in Server : round[t].result = "NO_ERROR"
  BY <1>1, <1>3, <1>4
<1>5. CASE ~\E t \in Server : round[t].result = "NO_ERROR"
  <2>1. srv[s].status = "FAILED" /\ srv' = [t \in Server |-> Reset(round[t].server)]
    BY <1>1, <1>2, <1>3, <1>5
  <2>2. ASSUME NEW t \in Server
        PROVE  srv'[t].status \in {"absent", "freed", "DISCONNECTED"}
    <3>1. Good(t, srv[t]) /\ round[t] \in StepServer(t, srv[t]) /\ round[t].result # "NO_ERROR"
      BY <1>1, <1>5 DEF Ind, TypeOK, RegistrationInv, Good
    <3>2. Good(t, round[t].server) /\ round[t].server.status \in {"absent", "freed", "FAILED"}
      <4>1. CASE srv[t].status \in {"absent", "freed"}
        <5>1. round[t] = [server |-> srv[t], result |-> "ERROR"]
          BY <3>1, <4>1, Stepped
        <5> QED
          BY <3>1, <4>1, <5>1
      <4>2. CASE srv[t].status \notin {"absent", "freed"}
        <5>1. StepOutcome(t, round[t])
          BY <3>1, <4>2, Stepped
        <5> QED
          BY <3>1, <5>1 DEF StepOutcome
      <4> QED
        BY <4>1, <4>2
    <3>3. srv'[t] = Reset(round[t].server)
      BY <2>1
    <3>4. CASE round[t].server.status \in {"absent", "freed"}
      BY <3>3, <3>4 DEF Reset
    <3>5. CASE round[t].server.status = "FAILED"
      BY <3>2, <3>3, <3>5, ResetServer
    <3> QED
      BY <3>2, <3>4, <3>5
  <2> QED
    BY <2>1, <2>2 DEF serverList
<1> QED
  BY <1>4, <1>5

\* What no step does to a quiet server.
LEMMA QuietStep ==
  ASSUME Ind, [Next]_vars, NEW s \in Server, Quiet(srv[s])
  PROVE  \/ s \notin serverList'
         \/ srv'[s].status = srv[s].status /\ srv'[s].session = "none"
         \/ srv[s].status = "FAILED" /\ serverList' = {t \in Server : srv'[t].status = "DISCONNECTED"}
<1>1. srv[s].session = "none"
  BY QuietOwnsNothing
<1>2. CASE StepDeviceManagement
  BY <1>1, <1>2, QuietRound
<1>3. ASSUME NEW t \in Server, StackOf(t) \/ PeerOf(t)
      PROVE  srv'[s].status = srv[s].status /\ srv'[s].session = "none"
  BY <1>3, QuietHandled
<1>4. CASE Application
  BY <1>4, QuietApplication
<1>5. CASE StepInitial \/ UNCHANGED vars
  BY <1>1, <1>5 DEF StepInitial, vars
<1> QED
  BY <1>2, <1>3, <1>4, <1>5 DEF Next

\* A disabled server gets no connection before its timer fires or it is removed,
\* whatever the other servers and the application do.
THEOREM DisabledIsAlwaysLeftAlone == Spec => DisabledIsLeftAlone
<1>1. Ind /\ [Next]_vars
        => [\A s \in Server :
              (srv[s].status = "DISCONNECTED" /\ "DISABLE" \in srv[s].flags)
                => \/ s \notin serverList'
                   \/ srv'[s].status = "DISCONNECTED" /\ srv'[s].session = "none"]_vars
  BY QuietStep DEF Quiet
<1> QED
  BY <1>1, Invariant, PTL DEF Spec, DisabledIsLeftAlone

\* A failed server comes back only with all the others, by a reset, or when it
\* is removed and declared again.
THEOREM FailedStaysUntilReset == Spec => FailedUntilReset
<1>1. Ind /\ [Next]_vars
        => [\A s \in Server :
              (srv[s].status = "FAILED" /\ srv'[s].status # "FAILED")
                => s \notin serverList' \/ serverList' = {t \in Server : srv'[t].status = "DISCONNECTED"}]_vars
  BY QuietStep DEF Quiet
<1> QED
  BY <1>1, Invariant, PTL DEF Spec, FailedUntilReset

=============================================================================
