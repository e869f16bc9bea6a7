------------------------------ MODULE Exchange ------------------------------
(***************************************************************************)
(* The CoAP layer of one datagram peer (coap/iowa_peer.c,                  *)
(* iowa_transaction.c, iowa_coap_udp.c) between the application, a network *)
(* that loses, duplicates and reorders, and a Server.                      *)
(*                                                                         *)
(* A request of the client puts an exchange on the peer, which waits for   *)
(* the response, and a transaction, which retransmits until the message is *)
(* acknowledged; the transaction refers to the exchange by its address.    *)
(* Time is left out: a transaction that is on the list may be retransmitted *)
(* at any moment, and a message identifier is the message it belongs to.   *)
(***************************************************************************)
EXTENDS Integers, FiniteSets

CONSTANTS
  NULL,
  Request,         \* the confirmable requests the client sends
  Command,         \* the requests the Server sends
  Confirmable,     \* those of them that are confirmable
  Token,           \* the tokens coapPeerGenerateToken can draw
  Address,         \* the addresses malloc gives to an exchange
  MaxRetransmit,   \* peerP->maxRetransmit
  MaxExecuted,     \* how far executions and forgotten replies are counted
  Faults           \* the system calls that may fail

ASSUME CommandAssumption == Confirmable \subseteq Command /\ Command \cap Request = {}
ASSUME NULLAssumption == NULL \notin Token \cup Address
ASSUME MaxRetransmitAssumption == MaxRetransmit \in Nat
ASSUME MaxExecutedAssumption == MaxExecuted \in Nat /\ MaxExecuted >= 2
ASSUME FaultsAssumption == Faults \subseteq {"malloc", "send"}

VARIABLES
  peer,             \* "open", or "deleted" by coapPeerDelete
  exchangeList,     \* peerP->base.exchangeList
  transactionList,  \* peerP->transactionList
  ackList,          \* peerP->ackList: the messages whose reply is kept
  result,           \* what the callback of each request was told
  drawn,            \* the token each request went out with
  replyOf,          \* the request the response it got was made for
  executed,         \* how often each command reached requestCallback
  uncached,         \* the commands whose reply could not be kept
  forgotten,        \* how often the reply to each command was forgotten
  up, down,         \* the datagrams on their way to the Server, to the client
  reaction,         \* how the Server reacts to each request
  sending           \* what the Server still transmits

\* drawn, replyOf, executed, uncached and forgotten are not in the code: they
\* record what the properties speak of and decide nothing.
requests == <<exchangeList, result, drawn, replyOf>>
commands == <<ackList, executed, uncached, forgotten>>
client == <<peer, transactionList, requests, commands>>
server == <<reaction, sending>>
vars == <<client, up, down, server>>

-----------------------------------------------------------------------------
(* Messages and lists                                                      *)

\* of is the request or command a datagram belongs to, and stands for its MID.
Datagram ==
  [type  : {"CON", "NON", "ACK", "RST"},
   code  : {"empty", "request", "response"},
   of    : Request \cup Command,
   token : Token \cup {NULL}]

Message(type, code, of, token) ==
  [type |-> type, code |-> code, of |-> of, token |-> token]

\* coap_exchange_t: address is that of the structure, request its user data.
ExchangeRecord == [address : Address, token : Token, request : Request]

\* coap_transaction_t: address is its user data, the exchange.
Transaction ==
  [message : Datagram, retrans_counter : 0..MaxRetransmit, address : Address]

Waiting(r) == {e \in exchangeList : e.request = r}
Transmitting(r) == {t \in transactionList : t.message.of = r}

\* coapPeerGenerateToken: a token no exchange of the peer waits for.  It may
\* still be that of a request which has ended, or of a datagram on its way.
UnusedTokens == {t \in Token : \A e \in exchangeList : e.token # t}

\* malloc: memory that nothing occupies.  A transaction may still hold the
\* address of an exchange that was freed.
FreeAddresses == {a \in Address : \A e \in exchangeList : e.address # a}

-----------------------------------------------------------------------------

Init ==
  /\ peer = "open"
  /\ exchangeList = {} /\ transactionList = {} /\ ackList = {}
  /\ result = [r \in Request |-> "none"]
  /\ drawn = [r \in Request |-> NULL]
  /\ replyOf = [r \in Request |-> NULL]
  /\ executed = [c \in Command |-> 0]
  /\ uncached = {}
  /\ forgotten = [c \in Command |-> 0]
  /\ up = {} /\ down = {} /\ sending = {}
  /\ reaction = [r \in Request |-> "none"]

-----------------------------------------------------------------------------
(* Sending                                                                 *)

\* coapSend of a confirmable request that wants a reply.
Send(r) ==
  /\ peer = "open" /\ result[r] = "none"
  /\ \E token \in UnusedTokens, address \in FreeAddresses :
       LET message == Message("CON", "request", r, token) IN
       /\ up' = up \cup {message}
       /\ exchangeList' = exchangeList \cup
            {[address |-> address, token |-> token, request |-> r]}
       /\ transactionList' = transactionList \cup
            {[message |-> message, retrans_counter |-> 0, address |-> address]}
       /\ drawn' = [drawn EXCEPT ![r] = token]
  /\ result' = [result EXCEPT ![r] = "pending"]
  /\ UNCHANGED <<peer, commands, replyOf, down, server>>

\* coapSend fails, before the datagram is sent or, when the transaction cannot
\* be allocated, after: the exchange is freed and the caller told.
SendFails(r) ==
  /\ peer = "open" /\ result[r] = "none" /\ Faults # {}
  /\ \/ UNCHANGED <<up, drawn>>
     \/ /\ "malloc" \in Faults
        /\ \E token \in UnusedTokens :
             /\ up' = up \cup {Message("CON", "request", r, token)}
             /\ drawn' = [drawn EXCEPT ![r] = token]
  /\ result' = [result EXCEPT ![r] = "refused"]
  /\ UNCHANGED <<peer, exchangeList, transactionList, commands, replyOf, down, server>>

\* Mutant: the transaction is sent again however often it was.
Retransmit_Always(t) ==
  /\ up' = up \cup {t.message}
  /\ transactionList' = (transactionList \ {t}) \cup {[t EXCEPT !.retrans_counter = @ + 1]}
  /\ UNCHANGED <<peer, requests, commands, down, server>>

\* transactionStep sends a transaction again.
Retransmit(t) ==
  /\ t.retrans_counter < MaxRetransmit
  /\ up' = up \cup {t.message}
  /\ transactionList' = (transactionList \ {t}) \cup {[t EXCEPT !.retrans_counter = @ + 1]}
  /\ UNCHANGED <<peer, requests, commands, down, server>>

\* Mutant: any exchange is taken for the one that failed.
Failing_Any(t) == exchangeList

\* prv_datagramSendResult(NULL): the exchange at the address the transaction
\* holds, if there is one; it is that of another request when the exchange of
\* its own was freed and its memory given again.
Failing(t) == {e \in exchangeList : e.address = t.address}

\* Mutant: the transaction is kept and its count starts again.
GiveUp_Restarts(t) ==
  /\ t.retrans_counter = MaxRetransmit
  /\ transactionList' = (transactionList \ {t}) \cup {[t EXCEPT !.retrans_counter = 0]}
  /\ UNCHANGED <<peer, requests, commands, up, down, server>>

\* transactionStep gives up: the exchange is told of the failure.
GiveUp(t) ==
  /\ t.retrans_counter >= MaxRetransmit
  /\ transactionList' = transactionList \ {t}
  /\ exchangeList' = exchangeList \ Failing(t)
  /\ result' = [r \in Request |-> IF \E e \in Failing(t) : e.request = r THEN "failure"
                                  ELSE result[r]]
  /\ UNCHANGED <<peer, commands, drawn, replyOf, up, down, server>>

\* One transaction in transactionStep, which runs while the peer is there.
transactionStep ==
  \E t \in transactionList : Retransmit(t) \/ GiveUp(t)

-----------------------------------------------------------------------------
(* Receiving                                                               *)

\* Mutant: the first exchange is taken.
Matching_Any(d) == exchangeList

Matching(d) == {e \in exchangeList : e.token = d.token}

\* Mutant: the exchange stays on the list.
Respond_Kept(d) ==
  /\ result' = [r \in Request |-> IF \E e \in Matching(d) : e.request = r THEN "response"
                                  ELSE result[r]]
  /\ replyOf' = [r \in Request |-> IF \E e \in Matching(d) : e.request = r THEN d.of
                                   ELSE replyOf[r]]
  /\ UNCHANGED exchangeList

\* peerHandleMessage of a response: the exchange with its token gets it and is
\* freed; a response nobody waits for is ignored by lwm2m_client_handle_request.
Respond(d) ==
  /\ result' = [r \in Request |-> IF \E e \in Matching(d) : e.request = r THEN "response"
                                  ELSE result[r]]
  /\ replyOf' = [r \in Request |-> IF \E e \in Matching(d) : e.request = r THEN d.of
                                   ELSE replyOf[r]]
  /\ exchangeList' = exchangeList \ Matching(d)

\* transactionHandleMessage of an acknowledgement: the result callback of the
\* transaction ignores it, and peerHandleMessage an empty one.
ReceiveAck(d) ==
  /\ d.type = "ACK" /\ Transmitting(d.of) # {}
  /\ transactionList' = transactionList \ Transmitting(d.of)
  /\ IF d.code = "response" THEN Respond(d) ELSE UNCHANGED <<exchangeList, result, replyOf>>
  /\ UNCHANGED <<peer, commands, drawn, up, down, server>>

\* A reset ends the transaction; its result callback ignores it too.
ReceiveReset(d) ==
  /\ d.type = "RST" /\ Transmitting(d.of) # {}
  /\ transactionList' = transactionList \ Transmitting(d.of)
  /\ UNCHANGED <<peer, requests, commands, up, down, server>>

\* A bound of the model: executions and forgotten replies are counted up to
\* MaxExecuted.
Counted(n) == IF n < MaxExecuted THEN n + 1 ELSE n

\* iowa_coap_message_prepare_response: a command is answered in its
\* acknowledgement, a response gets an empty one.
Reply(d) ==
  IF d.code = "request" THEN Message("ACK", "response", d.of, d.token)
  ELSE Message("ACK", "empty", d.of, NULL)

\* The reply to d is sent, and kept for the case d comes again; or it is not
\* kept; or it is not even sent.
Acknowledge(d) ==
  \/ /\ up' = up \cup {Reply(d)}
     /\ ackList' = ackList \cup {d.of}
     /\ UNCHANGED uncached
  \/ /\ \/ "malloc" \in Faults /\ up' = up \cup {Reply(d)}
        \/ Faults # {} /\ UNCHANGED up
     /\ uncached' = uncached \cup ({d.of} \cap Command)
     /\ UNCHANGED ackList

\* Mutant: a message received before is handled again.
ReceiveConfirmable_Again(d) ==
  /\ d.type = "CON" /\ d.code = "request"
  /\ Acknowledge(d)
  /\ executed' = [executed EXCEPT ![d.of] = Counted(@)]
  /\ UNCHANGED <<peer, transactionList, requests, forgotten, down, server>>

\* transactionHandleMessage of a confirmable message: the kept reply is sent
\* again; a response is acknowledged, then handled; a command is executed, and
\* its reply is its acknowledgement.
ReceiveConfirmable(d) ==
  /\ d.type = "CON"
  /\ \/ /\ d.of \in ackList
        /\ up' = up \cup {Reply(d)}
        /\ UNCHANGED <<exchangeList, ackList, result, replyOf, executed, uncached>>
     \/ /\ d.of \notin ackList /\ d.code = "response"
        /\ Acknowledge(d)
        /\ Respond(d)
        /\ UNCHANGED executed
     \/ /\ d.of \notin ackList /\ d.code = "request"
        /\ Acknowledge(d)
        /\ executed' = [executed EXCEPT ![d.of] = Counted(@)]
        /\ UNCHANGED <<exchangeList, result, replyOf>>
  /\ UNCHANGED <<peer, transactionList, drawn, forgotten, down, server>>

\* A non-confirmable message is handled as often as it comes.
ReceiveNonConfirmable(d) ==
  /\ d.type = "NON"
  /\ \/ /\ d.code = "response"
        /\ Respond(d)
        /\ UNCHANGED <<executed, up>>
     \/ /\ d.code = "request"
        /\ \/ up' = up \cup {Message("NON", "response", d.of, d.token)}
           \/ Faults # {} /\ UNCHANGED up
        /\ executed' = [executed EXCEPT ![d.of] = Counted(@)]
        /\ UNCHANGED <<exchangeList, result, replyOf>>
  /\ UNCHANGED <<peer, transactionList, drawn, ackList, uncached, forgotten, down, server>>

\* udpSecurityEventCb(SECURITY_EVENT_DATA_AVAILABLE)
Receive ==
  /\ peer = "open"
  /\ \E d \in down :
       ReceiveAck(d) \/ ReceiveReset(d) \/ ReceiveConfirmable(d) \/ ReceiveNonConfirmable(d)

\* transactionStep forgets a reply after transmitWait, whether copies of the
\* message may still come or not.
AckExpires(x) ==
  /\ x \in ackList
  /\ ackList' = ackList \ {x}
  /\ forgotten' = [c \in Command |-> IF c = x THEN Counted(forgotten[c]) ELSE forgotten[c]]
  /\ UNCHANGED <<peer, transactionList, requests, executed, uncached, up, down, server>>

\* Mutant: the exchanges are freed and nobody is told.
coapPeerDelete_Silent ==
  /\ peer = "open"
  /\ peer' = "deleted"
  /\ exchangeList' = {} /\ transactionList' = {} /\ ackList' = {}
  /\ up' = {} /\ down' = {} /\ sending' = {}
  /\ UNCHANGED <<result, drawn, replyOf, executed, uncached, forgotten, reaction>>

\* coapPeerDelete: every exchange is told of the failure, then the transactions
\* find none.  Datagrams on their way are for nobody.
coapPeerDelete ==
  /\ peer = "open"
  /\ peer' = "deleted"
  /\ result' = [r \in Request |-> IF Waiting(r) # {} THEN "failure" ELSE result[r]]
  /\ exchangeList' = {} /\ transactionList' = {} /\ ackList' = {}
  /\ up' = {} /\ down' = {} /\ sending' = {}
  /\ UNCHANGED <<drawn, replyOf, executed, uncached, forgotten, reaction>>

-----------------------------------------------------------------------------
(* The network and the Server                                              *)

\* Delivery leaves a datagram where it is, to be delivered again: only its loss
\* takes it away.
Lose ==
  /\ \/ \E d \in up : up' = up \ {d} /\ UNCHANGED down
     \/ \E d \in down : down' = down \ {d} /\ UNCHANGED up
  /\ UNCHANGED <<client, server>>

\* The Server gets a request: it answers in the acknowledgement, or acknowledges
\* it and answers later, or rejects it; and does so again if it comes again.
ServerReceives ==
  /\ \E d \in up :
       /\ d.type = "CON"
       /\ \E how \in IF reaction[d.of] = "none" THEN {"piggyback", "separate", "reset"}
                     ELSE {reaction[d.of]} :
            /\ reaction' = [reaction EXCEPT ![d.of] = how]
            /\ down' = down \cup
                 {CASE how = "piggyback" -> Message("ACK", "response", d.of, d.token)
                    [] how = "separate" -> Message("ACK", "empty", d.of, NULL)
                    [] how = "reset" -> Message("RST", "empty", d.of, NULL)}
            /\ IF how = "separate" /\ reaction[d.of] = "none"
               THEN \E type \in {"CON", "NON"} :
                      sending' = sending \cup {Message(type, "response", d.of, d.token)}
               ELSE UNCHANGED sending
  /\ UNCHANGED <<client, up>>

\* The Server issues a command, or again one of which no trace is left.
ServerCommands(c) ==
  LET type == IF c \in Confirmable THEN "CON" ELSE "NON" IN
  /\ peer = "open" /\ executed[c] = 0 /\ c \notin ackList
  /\ \A d \in down \cup sending : d.of # c
  /\ sending' = sending \cup {Message(type, "request", c, NULL)}
  /\ UNCHANGED <<client, up, down, reaction>>

\* It transmits a confirmable message until it is acknowledged or gives up.
ServerTransmits ==
  /\ \E d \in sending :
       /\ down' = down \cup {d}
       /\ sending' = IF d.type = "NON" THEN sending \ {d} ELSE sending
  /\ UNCHANGED <<client, up, reaction>>

ServerStops ==
  /\ \E d \in sending : sending' = sending \ {d}
  /\ UNCHANGED <<client, up, down, reaction>>

Next ==
  \/ \E r \in Request : Send(r) \/ SendFails(r)
  \/ transactionStep
  \/ Receive
  \/ \E x \in Request \cup Command : AckExpires(x)
  \/ coapPeerDelete
  \/ Lose \/ ServerReceives \/ ServerTransmits \/ ServerStops
  \/ \E c \in Command : ServerCommands(c)

Spec == Init /\ [][Next]_vars

\* iowa_step is called again and again, and coapStep visits each transaction.
Fairness ==
  \A r \in Request :
    WF_vars(\E t \in transactionList : t.message.of = r /\ (Retransmit(t) \/ GiveUp(t)))

FairSpec == Spec /\ Fairness

-----------------------------------------------------------------------------
(* Safety                                                                  *)

TypeOK ==
  /\ peer \in {"open", "deleted"}
  /\ exchangeList \subseteq ExchangeRecord
  /\ transactionList \subseteq Transaction
  /\ ackList \subseteq Request \cup Command
  /\ result \in [Request -> {"none", "refused", "pending", "response", "failure"}]
  /\ replyOf \in [Request -> Request \cup {NULL}]
  /\ drawn \in [Request -> Token \cup {NULL}]
  /\ executed \in [Command -> 0..MaxExecuted]
  /\ uncached \subseteq Command
  /\ forgotten \in [Command -> 0..MaxExecuted]
  /\ up \subseteq Datagram /\ down \subseteq Datagram /\ sending \subseteq Datagram
  /\ reaction \in [Request -> {"none", "piggyback", "separate", "reset"}]

\* A request waits for its result if and only if one exchange waits for its
\* response: no callback is lost and none can come twice, whichever of the
\* response, the failure and the deletion of the peer comes first.
PendingIsWaiting ==
  /\ \A r \in Request : result[r] = "pending" <=> Waiting(r) # {}
  /\ \A e, f \in exchangeList : e.request = f.request \/ e.address = f.address => e = f

\* The response a callback gets was made by the Server for its own request; or,
\* since coapPeerGenerateToken only avoids the tokens of exchanges that wait, for
\* an earlier request which had ended and whose token was drawn again.
ReplyIsItsOwn ==
  \A r \in Request : result[r] = "response" =>
    LET q == replyOf[r] IN
    /\ q \in Request /\ reaction[q] \in {"piggyback", "separate"}
    /\ drawn[q] = drawn[r] /\ drawn[r] # NULL
    /\ q # r => result[q] \notin {"none", "pending"}

\* A confirmable command whose reply could be kept is executed once, however
\* often the network brings it, and once more for each time its reply was
\* forgotten: the layer keeps it for transmitWait (93 s), and a copy of the
\* command may come during all of coapPeerGetExchangeLifetime (247 s).
ExecutedOnce ==
  \A c \in Confirmable \ uncached : executed[c] <= 1 + forgotten[c]

-----------------------------------------------------------------------------
(* What a step may never do                                                *)

\* A request fails only with the peer, or by the give-up of a transaction that
\* holds the address of its exchange: its own, or that of a request which has
\* ended while its message was still retransmitted, and whose exchange was freed
\* and its address given again.  A request that waits never fails another.
FailureIsItsOwn ==
  [][\A r \in Request :
       result[r] = "pending" /\ result'[r] = "failure" =>
         \/ peer' = "deleted"
         \/ \E t \in transactionList \ transactionList' :
              /\ t.retrans_counter = MaxRetransmit
              /\ \A e \in Waiting(r) : e.address = t.address
              /\ t.message.of = r \/ result[t.message.of] \in {"response", "failure"}]_vars

-----------------------------------------------------------------------------
(* Liveness                                                                *)

\* No message is retransmitted forever.
TransmissionsEnd ==
  \A r \in Request : Transmitting(r) # {} ~> Transmitting(r) = {}

-----------------------------------------------------------------------------
(* The service                                                             *)

\* A request whose transaction is gone counts as acknowledged.
phase ==
  [r \in Request |-> IF result[r] # "pending" THEN result[r]
                     ELSE IF Transmitting(r) # {} THEN "sent" ELSE "acknowledged"]

served == {r \in Request : reaction[r] \in {"piggyback", "separate"}}

Service == INSTANCE RequestService WITH open <- peer = "open", token <- drawn

\* The layer gives what RequestService promises.
ImplementsService == Service!Spec

=============================================================================
