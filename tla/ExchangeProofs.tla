--------------------------- MODULE ExchangeProofs ---------------------------
(***************************************************************************)
(* Proofs about Exchange: for any requests, commands, tokens, addresses,   *)
(* numbers of retransmissions and faults.  The datagrams on their way are  *)
(* of the kinds the two sides make (Kinds); the transaction of a request   *)
(* that waits holds the address of its exchange (Paired); and what carries *)
(* a token carries the one its request drew (Drawn).                       *)
(***************************************************************************)
EXTENDS Exchange, TLAPS

\* The groups the actions leave unchanged stand for the variables in them.
USE DEF requests, commands

-----------------------------------------------------------------------------
(* What is on its way                                                      *)

\* A request of the client.
IsRequest(d) == d.type = "CON" /\ d.code = "request" /\ d.of \in Request /\ d.token \in Token

\* What the Server may send.
IsDownward(d) ==
  /\ d.code = "request" => d.of \in Command /\ (d.of \in Confirmable => d.type = "CON")
  /\ d.code = "response" => d.of \in Request /\ d.token \in Token /\ d.type # "RST"
  /\ d.type \in {"ACK", "RST"} => d.of \in Request /\ d.code # "request"

Kinds ==
  /\ \A d \in up : d.type = "CON" => IsRequest(d) /\ result[d.of] # "none"
  /\ \A t \in transactionList : IsRequest(t.message) /\ result[t.message.of] # "none"
  /\ \A d \in down \cup sending : IsDownward(d)
  /\ peer = "deleted" => transactionList = {} /\ exchangeList = {}

TypeInv == TypeOK /\ Kinds

LEMMA MessageIsDatagram ==
  ASSUME NEW type \in {"CON", "NON", "ACK", "RST"}, NEW code \in {"empty", "request", "response"},
         NEW of \in Request \cup Command, NEW token \in Token \cup {NULL}
  PROVE  /\ Message(type, code, of, token) \in Datagram
         /\ Message(type, code, of, token).type = type
         /\ Message(type, code, of, token).code = code
         /\ Message(type, code, of, token).of = of
         /\ Message(type, code, of, token).token = token
BY DEF Message, Datagram

LEMMA InitTypeInv == Init => TypeInv
BY MaxExecutedAssumption DEF Init, TypeInv, TypeOK, Kinds

\* What coapSend makes: an exchange and a transaction that belong together.
LEMMA SendEffect ==
  ASSUME TypeInv, NEW r \in Request, Send(r)
  PROVE  \E e \in ExchangeRecord, t \in Transaction, m \in Datagram :
           /\ e.request = r /\ t.address = e.address
           /\ t.message = m /\ IsRequest(m) /\ m.of = r /\ m.token = e.token
           /\ up' = up \cup {m} /\ exchangeList' = exchangeList \cup {e}
           /\ transactionList' = transactionList \cup {t}
           /\ result[r] = "none" /\ result' = [result EXCEPT ![r] = "pending"] /\ peer = "open"
           /\ drawn' = [drawn EXCEPT ![r] = e.token]
           /\ UNCHANGED <<peer, commands, replyOf, down, reaction, sending>>
           /\ \A f \in exchangeList : f.token # e.token /\ f.address # e.address
<1>1. PICK token \in UnusedTokens, address \in FreeAddresses :
        /\ up' = up \cup {Message("CON", "request", r, token)}
        /\ exchangeList' = exchangeList \cup {[address |-> address, token |-> token, request |-> r]}
        /\ transactionList' = transactionList \cup
             {[message |-> Message("CON", "request", r, token), retrans_counter |-> 0, address |-> address]}
        /\ drawn' = [drawn EXCEPT ![r] = token]
  BY DEF Send
<1>2. token \in Token /\ address \in Address
  BY DEF UnusedTokens, FreeAddresses
<1> DEFINE m == Message("CON", "request", r, token)
           e == [address |-> address, token |-> token, request |-> r]
           t == [message |-> m, retrans_counter |-> 0, address |-> address]
<1>3. m \in Datagram /\ IsRequest(m) /\ m.of = r /\ m.token = token
  BY <1>2, MessageIsDatagram DEF IsRequest
<1>4. e \in ExchangeRecord /\ e.request = r /\ e.token = token /\ e.address = address
  BY <1>2 DEF ExchangeRecord
<1>5. t \in Transaction /\ t.message = m /\ t.address = address
  BY <1>2, <1>3, MaxRetransmitAssumption DEF Transaction
<1>6. /\ up' = up \cup {m} /\ exchangeList' = exchangeList \cup {e}
      /\ transactionList' = transactionList \cup {t} /\ drawn' = [drawn EXCEPT ![r] = token]
  BY <1>1
<1>7. \A f \in exchangeList : f.token # token /\ f.address # address
  BY DEF UnusedTokens, FreeAddresses
<1>8. /\ result[r] = "none" /\ result' = [result EXCEPT ![r] = "pending"] /\ peer = "open"
      /\ UNCHANGED <<peer, commands, replyOf, down, reaction, sending>>
  BY DEF Send, server
<1> HIDE DEF m, e, t
<1> QED
  BY <1>3, <1>4, <1>5, <1>6, <1>7, <1>8

LEMMA SendTypeInv ==
  ASSUME TypeInv, NEW r \in Request, Send(r)
  PROVE  TypeInv'
<1>1. PICK e \in ExchangeRecord, t \in Transaction, m \in Datagram :
        /\ t.message = m /\ IsRequest(m) /\ m.of = r
        /\ up' = up \cup {m} /\ exchangeList' = exchangeList \cup {e}
        /\ transactionList' = transactionList \cup {t}
        /\ result[r] = "none" /\ result' = [result EXCEPT ![r] = "pending"] /\ peer = "open"
        /\ drawn' = [drawn EXCEPT ![r] = e.token]
        /\ UNCHANGED <<peer, commands, replyOf, down, reaction, sending>>
  BY SendEffect
<1>2. e.token \in Token
  BY DEF ExchangeRecord
<1>8. TypeOK'
  BY <1>1, <1>2 DEF TypeInv, TypeOK
<1>3. \A q \in Request : result'[q] # "none" <=> (result[q] # "none" \/ q = r)
  BY <1>1 DEF TypeInv, TypeOK
<1>4. \A d \in up' : d.type = "CON" => IsRequest(d) /\ result'[d.of] # "none"
  BY <1>1, <1>3 DEF TypeInv, Kinds, IsRequest
<1>5. \A u \in transactionList' : IsRequest(u.message) /\ result'[u.message.of] # "none"
  BY <1>1, <1>3 DEF TypeInv, Kinds, IsRequest
<1>6. peer' # "deleted" /\ \A d \in down' \cup sending' : IsDownward(d)
  BY <1>1 DEF TypeInv, Kinds
<1>7. Kinds'
  BY <1>4, <1>5, <1>6 DEF Kinds
<1> QED
  BY <1>7, <1>8 DEF TypeInv

LEMMA SendFailsTypeInv ==
  ASSUME TypeInv, NEW r \in Request, SendFails(r)
  PROVE  TypeInv'
<1>1. up' = up \/ \E token \in Token : up' = up \cup {Message("CON", "request", r, token)}
  BY DEF SendFails, UnusedTokens
<1>2. \A d \in up' : d \in up \/ (d \in Datagram /\ IsRequest(d) /\ d.of = r)
  BY <1>1, MessageIsDatagram DEF IsRequest
<1>3. /\ result' = [result EXCEPT ![r] = "refused"] /\ result[r] = "none"
      /\ UNCHANGED <<peer, exchangeList, transactionList, commands, replyOf, down, server>>
      /\ drawn' = drawn \/ \E token \in Token : drawn' = [drawn EXCEPT ![r] = token]
  BY DEF SendFails, UnusedTokens
<1>4. TypeOK'
  BY <1>2, <1>3 DEF TypeInv, TypeOK, server
<1>5. \A q \in Request : result'[q] # "none" <=> result[q] # "none" \/ q = r
  BY <1>3 DEF TypeInv, TypeOK
<1>6. Kinds'
  BY <1>2, <1>3, <1>5 DEF TypeInv, Kinds, server, IsRequest, IsDownward
<1> QED
  BY <1>4, <1>6 DEF TypeInv

LEMMA RetransmitTypeInv ==
  ASSUME TypeInv, NEW t \in transactionList, Retransmit(t)
  PROVE  TypeInv'
<1> DEFINE u == [t EXCEPT !.retrans_counter = @ + 1]
<1>1. t \in Transaction
  BY DEF TypeInv, TypeOK
<1>2. u \in Transaction /\ u.message = t.message /\ t.message \in Datagram
  BY <1>1, MaxRetransmitAssumption DEF Retransmit, Transaction
<1>3. /\ up' = up \cup {t.message}
      /\ transactionList' = (transactionList \ {t}) \cup {u}
      /\ UNCHANGED <<peer, requests, commands, down, server>>
  BY DEF Retransmit
<1> HIDE DEF u
<1>4. TypeOK'
  BY <1>2, <1>3 DEF TypeInv, TypeOK, server
<1>5. Kinds'
  BY <1>2, <1>3 DEF TypeInv, Kinds, server, IsRequest, IsDownward
<1> QED
  BY <1>4, <1>5 DEF TypeInv

LEMMA GiveUpTypeInv ==
  ASSUME TypeInv, NEW t \in transactionList, GiveUp(t)
  PROVE  TypeInv'
<1>1. /\ transactionList' = transactionList \ {t} /\ exchangeList' \subseteq exchangeList
      /\ UNCHANGED <<peer, commands, drawn, replyOf, up, down, server>>
  BY DEF GiveUp
<1>2. /\ result' \in [Request -> {"none", "refused", "pending", "response", "failure"}]
      /\ \A q \in Request : result[q] # "none" => result'[q] # "none"
  BY DEF GiveUp, TypeInv, TypeOK
<1>3. TypeOK'
  BY <1>1, <1>2 DEF TypeInv, TypeOK, server
<1>4. Kinds'
  BY <1>1, <1>2 DEF TypeInv, Kinds, server, IsRequest, IsDownward
<1> QED
  BY <1>3, <1>4 DEF TypeInv

LEMMA RespondTypes ==
  ASSUME TypeInv, NEW d \in down, d.code = "response", Respond(d)
  PROVE  /\ result' \in [Request -> {"none", "refused", "pending", "response", "failure"}]
         /\ \A q \in Request : result[q] # "none" => result'[q] # "none"
         /\ replyOf' \in [Request -> Request \cup {NULL}]
         /\ exchangeList' \subseteq exchangeList
<1>1. d.of \in Request
  BY DEF TypeInv, Kinds, IsDownward
<1> QED
  BY <1>1 DEF Respond, TypeInv, TypeOK

LEMMA ReceiveAckTypeInv ==
  ASSUME TypeInv, NEW d \in down, ReceiveAck(d) \/ ReceiveReset(d)
  PROVE  TypeInv'
<1>1. /\ transactionList' \subseteq transactionList
      /\ UNCHANGED <<peer, commands, drawn, up, down, server>>
  BY DEF ReceiveAck, ReceiveReset
<1>2. /\ result' \in [Request -> {"none", "refused", "pending", "response", "failure"}]
      /\ \A q \in Request : result[q] # "none" => result'[q] # "none"
      /\ replyOf' \in [Request -> Request \cup {NULL}]
      /\ exchangeList' \subseteq exchangeList
  <2>1. CASE d.code = "response" /\ Respond(d)
    BY <2>1, RespondTypes
  <2>2. CASE UNCHANGED <<exchangeList, result, replyOf>>
    BY <2>2 DEF TypeInv, TypeOK
  <2> QED
    BY <2>1, <2>2 DEF ReceiveAck, ReceiveReset
<1>3. TypeOK'
  BY <1>1, <1>2 DEF TypeInv, TypeOK, server
<1>4. Kinds'
  BY <1>1, <1>2 DEF TypeInv, Kinds, server, IsRequest, IsDownward
<1> QED
  BY <1>3, <1>4 DEF TypeInv

\* The reply to a message of the Server is none of the requests.
LEMMA ReplyTypes ==
  ASSUME NEW d \in Datagram
  PROVE  Reply(d) \in Datagram /\ Reply(d).type = "ACK"
<1>1. d.of \in Request \cup Command /\ d.token \in Token \cup {NULL}
  BY DEF Datagram
<1> QED
  BY <1>1, MessageIsDatagram DEF Reply

LEMMA CountedTypes == \A n \in 0..MaxExecuted : Counted(n) \in 0..MaxExecuted
BY MaxExecutedAssumption DEF Counted

LEMMA ReceiveConfirmableTypeInv ==
  ASSUME TypeInv, NEW d \in down, ReceiveConfirmable(d)
  PROVE  TypeInv'
<1>1. d \in Datagram /\ Reply(d) \in Datagram /\ Reply(d).type = "ACK"
      /\ d.of \in Request \cup Command
  BY ReplyTypes DEF TypeInv, TypeOK, Datagram
<1>2. /\ up' \subseteq up \cup {Reply(d)}
      /\ ackList' \subseteq ackList \cup {d.of}
      /\ uncached' \subseteq uncached \cup ({d.of} \cap Command)
      /\ UNCHANGED <<peer, transactionList, drawn, forgotten, down, server>>
  BY DEF ReceiveConfirmable, Acknowledge
<1>3. /\ result' \in [Request -> {"none", "refused", "pending", "response", "failure"}]
      /\ \A q \in Request : result[q] # "none" => result'[q] # "none"
      /\ replyOf' \in [Request -> Request \cup {NULL}]
      /\ exchangeList' \subseteq exchangeList
  <2>1. CASE d.code = "response" /\ Respond(d)
    BY <2>1, RespondTypes
  <2>2. CASE UNCHANGED <<exchangeList, result, replyOf>>
    BY <2>2 DEF TypeInv, TypeOK
  <2> QED
    BY <2>1, <2>2 DEF ReceiveConfirmable
<1>4. executed' \in [Command -> 0..MaxExecuted]
  BY CountedTypes DEF ReceiveConfirmable, TypeInv, TypeOK
<1>5. TypeOK'
  BY <1>1, <1>2, <1>3, <1>4 DEF TypeInv, TypeOK, server
<1>6. Kinds'
  BY <1>1, <1>2, <1>3 DEF TypeInv, Kinds, server, IsRequest, IsDownward
<1> QED
  BY <1>5, <1>6 DEF TypeInv

LEMMA ReceiveNonConfirmableTypeInv ==
  ASSUME TypeInv, NEW d \in down, ReceiveNonConfirmable(d)
  PROVE  TypeInv'
<1> DEFINE reply == Message("NON", "response", d.of, d.token)
<1>1. reply \in Datagram /\ reply.type = "NON"
  <2>1. d.of \in Request \cup Command /\ d.token \in Token \cup {NULL}
    BY DEF TypeInv, TypeOK, Datagram
  <2> QED
    BY <2>1, MessageIsDatagram
<1>2. /\ up' \subseteq up \cup {reply}
      /\ UNCHANGED <<peer, transactionList, drawn, ackList, uncached, forgotten, down, server>>
  BY DEF ReceiveNonConfirmable
<1>3. /\ result' \in [Request -> {"none", "refused", "pending", "response", "failure"}]
      /\ \A q \in Request : result[q] # "none" => result'[q] # "none"
      /\ replyOf' \in [Request -> Request \cup {NULL}]
      /\ exchangeList' \subseteq exchangeList
  <2>1. CASE d.code = "response" /\ Respond(d)
    BY <2>1, RespondTypes
  <2>2. CASE UNCHANGED <<exchangeList, result, replyOf>>
    BY <2>2 DEF TypeInv, TypeOK
  <2> QED
    BY <2>1, <2>2 DEF ReceiveNonConfirmable
<1>4. executed' \in [Command -> 0..MaxExecuted]
  BY CountedTypes DEF ReceiveNonConfirmable, TypeInv, TypeOK
<1> HIDE DEF reply
<1>5. TypeOK'
  BY <1>1, <1>2, <1>3, <1>4 DEF TypeInv, TypeOK, server
<1>6. Kinds'
  BY <1>1, <1>2, <1>3 DEF TypeInv, Kinds, server, IsRequest, IsDownward
<1> QED
  BY <1>5, <1>6 DEF TypeInv

LEMMA PeerDeleteTypeInv ==
  ASSUME TypeInv, coapPeerDelete
  PROVE  TypeInv'
<1>1. /\ exchangeList' = {} /\ transactionList' = {} /\ ackList' = {}
      /\ up' = {} /\ down' = {} /\ sending' = {} /\ peer' = "deleted"
      /\ UNCHANGED <<drawn, replyOf, executed, uncached, forgotten, reaction>>
  BY DEF coapPeerDelete
<1>2. result' \in [Request -> {"none", "refused", "pending", "response", "failure"}]
  BY DEF coapPeerDelete, TypeInv, TypeOK
<1> QED
  BY <1>1, <1>2 DEF TypeInv, TypeOK, Kinds

\* What the Server makes of a request it gets.
LEMMA ServerReaction ==
  ASSUME TypeInv, ServerReceives
  PROVE  \E d \in up, how \in {"piggyback", "separate", "reset"} :
           /\ IsRequest(d) /\ result[d.of] # "none" /\ reaction[d.of] \in {"none", how}
           /\ reaction' = [reaction EXCEPT ![d.of] = how]
           /\ \E m \in Datagram :
                /\ down' = down \cup {m} /\ m.of = d.of
                /\ m.type = (IF how = "reset" THEN "RST" ELSE "ACK")
                /\ m.code = (IF how = "piggyback" THEN "response" ELSE "empty")
                /\ m.code = "response" => m.token = d.token
           /\ \/ UNCHANGED sending
              \/ /\ how = "separate" /\ reaction[d.of] = "none"
                 /\ \E m \in Datagram : /\ sending' = sending \cup {m} /\ m.of = d.of
                                        /\ m.type \in {"CON", "NON"}
                                        /\ m.code = "response" /\ m.token = d.token
<1>1. PICK d \in up :
        /\ d.type = "CON"
        /\ \E how \in IF reaction[d.of] = "none" THEN {"piggyback", "separate", "reset"}
                      ELSE {reaction[d.of]} :
                /\ reaction' = [reaction EXCEPT ![d.of] = how]
                /\ down' = down \cup
                     {CASE how = "piggyback" -> Message("ACK", "response", d.of, d.token)
                        [] how = "separate" -> Message("ACK", "empty", d.of, NULL)
                        [] how = "reset" -> Message("RST", "empty", d.of, NULL)}
                /\ IF how = "separate" /\ reaction[d.of] = "none"
                   THEN \E type \in {"CON", "NON"} :
                          sending' = sending \cup {Message(type, "response", d.of, d.token)}
                   ELSE UNCHANGED sending
  BY DEF ServerReceives
<1>2. IsRequest(d) /\ d.of \in Request /\ result[d.of] # "none" /\ d.token \in Token
  BY <1>1 DEF TypeInv, Kinds, IsRequest
<1>3. reaction[d.of] \in {"none", "piggyback", "separate", "reset"}
  BY <1>2 DEF TypeInv, TypeOK
<1>4. PICK how \in {"piggyback", "separate", "reset"} :
            /\ reaction[d.of] \in {"none", how}
            /\ reaction' = [reaction EXCEPT ![d.of] = how]
            /\ down' = down \cup
                 {CASE how = "piggyback" -> Message("ACK", "response", d.of, d.token)
                    [] how = "separate" -> Message("ACK", "empty", d.of, NULL)
                    [] how = "reset" -> Message("RST", "empty", d.of, NULL)}
            /\ IF how = "separate" /\ reaction[d.of] = "none"
               THEN \E type \in {"CON", "NON"} :
                      sending' = sending \cup {Message(type, "response", d.of, d.token)}
               ELSE UNCHANGED sending
  BY <1>1, <1>3
<1>5. \E m \in Datagram :
                /\ down' = down \cup {m} /\ m.of = d.of
                /\ m.type = (IF how = "reset" THEN "RST" ELSE "ACK")
                /\ m.code = (IF how = "piggyback" THEN "response" ELSE "empty")
                /\ m.code = "response" => m.token = d.token
  <2>1. CASE how = "piggyback"
    <3> DEFINE m == Message("ACK", "response", d.of, d.token)
    <3>1. m \in Datagram /\ m.of = d.of /\ m.type = "ACK" /\ m.code = "response" /\ m.token = d.token
      BY <1>2, MessageIsDatagram
    <3> QED
      BY <1>4, <2>1, <3>1
  <2>2. CASE how = "separate"
    <3> DEFINE m == Message("ACK", "empty", d.of, NULL)
    <3>1. m \in Datagram /\ m.of = d.of /\ m.type = "ACK" /\ m.code = "empty"
      BY <1>2, MessageIsDatagram
    <3> QED
      BY <1>4, <2>2, <3>1
  <2>3. CASE how = "reset"
    <3> DEFINE m == Message("RST", "empty", d.of, NULL)
    <3>1. m \in Datagram /\ m.of = d.of /\ m.type = "RST" /\ m.code = "empty"
      BY <1>2, MessageIsDatagram
    <3> QED
      BY <1>4, <2>3, <3>1
  <2> QED
    BY <2>1, <2>2, <2>3
<1>6. \A type \in {"CON", "NON"} :
        LET m == Message(type, "response", d.of, d.token) IN
        m \in Datagram /\ m.of = d.of /\ m.type = type /\ m.code = "response" /\ m.token = d.token
  BY <1>2, MessageIsDatagram
<1> QED
  BY <1>2, <1>4, <1>5, <1>6

LEMMA ServerReceivesTypeInv ==
  ASSUME TypeInv, ServerReceives
  PROVE  TypeInv'
<1>1. PICK d \in up, how \in {"piggyback", "separate", "reset"} :
           /\ IsRequest(d) /\ reaction' = [reaction EXCEPT ![d.of] = how]
           /\ \E m \in Datagram :
                /\ down' = down \cup {m} /\ m.of = d.of /\ m.type \in {"ACK", "RST"}
                /\ m.code \in {"empty", "response"}
                /\ m.code = "response" => m.token = d.token /\ m.type = "ACK"
           /\ \/ UNCHANGED sending
              \/ \E m \in Datagram : /\ sending' = sending \cup {m} /\ m.of = d.of
                                     /\ m.type \in {"CON", "NON"}
                                     /\ m.code = "response" /\ m.token = d.token
  BY ServerReaction
<1>2. UNCHANGED <<client, up>>
  BY DEF ServerReceives
<1>3. d.of \in Request /\ d.token \in Token
  BY <1>1 DEF IsRequest
<1>4. TypeOK'
  BY <1>1, <1>2, <1>3 DEF TypeInv, TypeOK, client
<1>5. \A x \in down' \cup sending' : IsDownward(x)
  BY <1>1, <1>3 DEF TypeInv, Kinds, IsDownward
<1>6. Kinds'
  BY <1>2, <1>5 DEF TypeInv, Kinds, client, IsRequest, IsDownward
<1> QED
  BY <1>4, <1>6 DEF TypeInv

LEMMA ServerCommandsTypeInv ==
  ASSUME TypeInv, NEW c \in Command, ServerCommands(c)
  PROVE  TypeInv'
<1>1. PICK type \in {"CON", "NON"} : /\ c \in Confirmable => type = "CON"
                                     /\ sending' = sending \cup {Message(type, "request", c, NULL)}
                                     /\ UNCHANGED <<client, up, down, reaction>>
  BY DEF ServerCommands
<1> DEFINE m == Message(type, "request", c, NULL)
<1>2. m \in Datagram /\ m.type = type /\ m.code = "request" /\ m.of = c
  BY MessageIsDatagram
<1> HIDE DEF m
<1>3. IsDownward(m)
  BY <1>1, <1>2 DEF IsDownward
<1> QED
  BY <1>1, <1>2, <1>3 DEF TypeInv, TypeOK, Kinds, client, m, IsRequest, IsDownward

\* The network and the end of the transmissions of the Server take away, or move.
LEMMA NetworkTypeInv ==
  ASSUME TypeInv, Lose \/ ServerTransmits \/ ServerStops
  PROVE  TypeInv'
<1>1. /\ up' \subseteq up /\ down' \cup sending' \subseteq down \cup sending
      /\ UNCHANGED <<client, reaction>>
  BY DEF Lose, ServerTransmits, ServerStops, server
<1> QED
  BY <1>1 DEF TypeInv, TypeOK, Kinds, client, IsRequest, IsDownward

LEMMA AckExpiresTypeInv ==
  ASSUME TypeInv, NEW x \in Request \cup Command, AckExpires(x)
  PROVE  TypeInv'
BY CountedTypes DEF AckExpires, TypeInv, TypeOK, Kinds, server, IsRequest, IsDownward

LEMMA NextTypeInv == TypeInv /\ [Next]_vars => TypeInv'
<1> SUFFICES ASSUME TypeInv, [Next]_vars PROVE TypeInv'
  OBVIOUS
<1>1. CASE \E r \in Request : Send(r) \/ SendFails(r)
  BY <1>1, SendTypeInv, SendFailsTypeInv
<1>2. CASE transactionStep
  BY <1>2, RetransmitTypeInv, GiveUpTypeInv DEF transactionStep
<1>3. CASE Receive
  BY <1>3, ReceiveAckTypeInv, ReceiveConfirmableTypeInv, ReceiveNonConfirmableTypeInv DEF Receive
<1>4. CASE \E x \in Request \cup Command : AckExpires(x)
  BY <1>4, AckExpiresTypeInv
<1>5. CASE coapPeerDelete
  BY <1>5, PeerDeleteTypeInv
<1>6. CASE Lose \/ ServerTransmits \/ ServerStops
  BY <1>6, NetworkTypeInv
<1>7. CASE ServerReceives
  BY <1>7, ServerReceivesTypeInv
<1>8. CASE \E c \in Command : ServerCommands(c)
  BY <1>8, ServerCommandsTypeInv
<1>9. CASE UNCHANGED vars
  BY <1>9 DEF vars, client, server, TypeInv, TypeOK, Kinds, IsRequest, IsDownward
<1> QED
  BY <1>1, <1>2, <1>3, <1>4, <1>5, <1>6, <1>7, <1>8, <1>9 DEF Next

THEOREM AlwaysTypeInv == Spec => []TypeInv
BY InitTypeInv, NextTypeInv, PTL DEF Spec

\* The lists, the results and the datagrams keep their types, whatever is sent,
\* lost, refused or given up.
THEOREM ExchangeTypes == Spec => []TypeOK
<1>1. TypeInv => TypeOK
  BY DEF TypeInv
<1> QED
  BY <1>1, AlwaysTypeInv, PTL

-----------------------------------------------------------------------------
(* One result for each request                                             *)

\* What leaves the list is told, once: the step of a failure and of a response.
LEMMA ToldAreGone ==
  ASSUME PendingIsWaiting, NEW Gone \in SUBSET exchangeList, NEW what, what # "pending",
         exchangeList' = exchangeList \ Gone,
         result' = [r \in Request |-> IF \E e \in Gone : e.request = r THEN what ELSE result[r]]
  PROVE  PendingIsWaiting'
<1>1. \A e, f \in exchangeList' : e.request = f.request \/ e.address = f.address => e = f
  BY DEF PendingIsWaiting
<1>2. ASSUME NEW r \in Request
      PROVE  result'[r] = "pending" <=> Waiting(r)' # {}
  <2>1. CASE \E e \in Gone : e.request = r
    BY <2>1 DEF PendingIsWaiting, Waiting
  <2>2. CASE ~\E e \in Gone : e.request = r
    BY <2>2 DEF PendingIsWaiting, Waiting
  <2> QED
    BY <2>1, <2>2
<1> QED
  BY <1>1, <1>2 DEF PendingIsWaiting

LEMMA RespondPending ==
  ASSUME PendingIsWaiting, NEW d, Respond(d)
  PROVE  PendingIsWaiting'
BY ToldAreGone DEF Respond, Matching

LEMMA NextPending == TypeInv /\ PendingIsWaiting /\ [Next]_vars => PendingIsWaiting'
<1> SUFFICES ASSUME TypeInv, PendingIsWaiting, [Next]_vars PROVE PendingIsWaiting'
  OBVIOUS
<1>1. ASSUME NEW r \in Request, Send(r) PROVE PendingIsWaiting'
  <2>1. PICK e \in ExchangeRecord :
          /\ e.request = r /\ exchangeList' = exchangeList \cup {e}
          /\ \A f \in exchangeList : f.address # e.address
          /\ result[r] = "none" /\ result' = [result EXCEPT ![r] = "pending"]
    BY <1>1, SendEffect
  <2>2. Waiting(r) = {}
    BY <2>1 DEF PendingIsWaiting
  <2>3. \A q \in Request : result'[q] = IF q = r THEN "pending" ELSE result[q]
    BY <2>1 DEF TypeInv, TypeOK
  <2> QED
    BY <2>1, <2>2, <2>3 DEF PendingIsWaiting, Waiting
<1>2. ASSUME NEW r \in Request, SendFails(r) PROVE PendingIsWaiting'
  <2>1. exchangeList' = exchangeList /\ \A q \in Request : result'[q] = "pending" <=> result[q] = "pending"
    BY <1>2 DEF SendFails, TypeInv, TypeOK
  <2> QED
    BY <2>1 DEF PendingIsWaiting, Waiting
<1>3. ASSUME NEW t \in transactionList, GiveUp(t) PROVE PendingIsWaiting'
  BY <1>3, ToldAreGone DEF GiveUp, Failing
<1>4. ASSUME NEW d \in down, Respond(d) PROVE PendingIsWaiting'
  BY <1>4, RespondPending
<1>5. ASSUME UNCHANGED <<exchangeList, result>> PROVE PendingIsWaiting'
  BY <1>5 DEF PendingIsWaiting, Waiting
<1>6. CASE Receive
  BY <1>4, <1>5, <1>6 DEF Receive, ReceiveAck, ReceiveReset, ReceiveConfirmable, ReceiveNonConfirmable
<1>7. CASE coapPeerDelete
  <2>1. exchangeList' = {} /\ \A r \in Request : result'[r] # "pending"
    BY <1>7 DEF coapPeerDelete, PendingIsWaiting
  <2> QED
    BY <2>1 DEF PendingIsWaiting, Waiting
<1>8. CASE transactionStep
  BY <1>3, <1>5, <1>8 DEF transactionStep, Retransmit
<1>9. CASE (\E x \in Request \cup Command : AckExpires(x)) \/ Lose \/ ServerReceives
           \/ ServerTransmits \/ ServerStops \/ (\E c \in Command : ServerCommands(c)) \/ UNCHANGED vars
  <2>1. UNCHANGED <<exchangeList, result>>
    BY <1>9 DEF AckExpires, Lose, ServerReceives, ServerTransmits, ServerStops, ServerCommands, vars, client
  <2> QED
    BY <1>5, <2>1
<1> QED
  BY <1>1, <1>2, <1>6, <1>7, <1>8, <1>9 DEF Next

LEMMA InitPending == Init => PendingIsWaiting
BY DEF Init, PendingIsWaiting, Waiting

\* A request waits for its result exactly as long as one exchange waits for its
\* response: no callback is lost and none comes twice.
THEOREM RequestsGetOneResult == Spec => []PendingIsWaiting
BY AlwaysTypeInv, InitPending, NextPending, PTL DEF Spec

-----------------------------------------------------------------------------
(* A command is executed once for each time its reply is kept              *)

\* While the peer is there: every execution but the last has had its reply
\* forgotten, and the last one too unless its reply is kept.
Executions ==
  \A c \in Confirmable \ uncached :
    /\ executed[c] <= 1 + forgotten[c]
    /\ peer = "open" /\ c \notin ackList => executed[c] <= forgotten[c]

LEMMA CountedSteps ==
  \A n \in 0..MaxExecuted : Counted(n) <= n + 1 /\ n <= Counted(n) /\ (Counted(n) = n + 1 \/ n = MaxExecuted)
BY MaxExecutedAssumption DEF Counted

LEMMA NextExecutions == TypeInv /\ Executions /\ [Next]_vars => Executions'
<1> SUFFICES ASSUME TypeInv, Executions, [Next]_vars PROVE Executions'
  OBVIOUS
<1>0. \A c \in Command : executed[c] \in 0..MaxExecuted /\ forgotten[c] \in 0..MaxExecuted
  BY DEF TypeInv, TypeOK
<1>1. ASSUME UNCHANGED <<executed, forgotten>>, uncached \subseteq uncached',
             peer' = "open" => peer = "open" /\ ackList \subseteq ackList'
      PROVE  Executions'
  BY <1>1 DEF Executions
<1>2. CASE Receive
  <2>1. PICK d \in down : ReceiveAck(d) \/ ReceiveReset(d) \/ ReceiveConfirmable(d) \/ ReceiveNonConfirmable(d)
    BY <1>2 DEF Receive
  <2>2. /\ peer = "open" /\ UNCHANGED <<peer, forgotten>> /\ IsDownward(d)
        /\ ackList \subseteq ackList' /\ uncached \subseteq uncached'
    BY <1>2, <2>1 DEF Receive, ReceiveAck, ReceiveReset, ReceiveConfirmable, ReceiveNonConfirmable,
                      Acknowledge, TypeInv, Kinds
  <2>3. CASE UNCHANGED executed
    BY <1>1, <2>2, <2>3
  <2>4. CASE ReceiveConfirmable(d) /\ d.of \notin ackList /\ d.code = "request"
    <3>1. executed' = [executed EXCEPT ![d.of] = Counted(@)] /\ d.of \in Command
      BY <2>2, <2>4 DEF ReceiveConfirmable, IsDownward
    <3>2. d.of \in ackList' \/ d.of \in uncached'
      BY <2>4, <3>1 DEF ReceiveConfirmable, Acknowledge
    <3>3. \A c \in Command : executed'[c] = IF c = d.of THEN Counted(executed[c]) ELSE executed[c]
      BY <3>1 DEF TypeInv, TypeOK
    <3>4. ASSUME NEW c \in Confirmable \ uncached'
          PROVE  executed'[c] <= 1 + forgotten[c] /\ (c \notin ackList' => executed'[c] <= forgotten[c])
      <4>1. c \in Command /\ c \in Confirmable \ uncached /\ executed[c] \in Nat /\ forgotten[c] \in Nat
        BY <1>0, <2>2, CommandAssumption
      <4>2. CASE c = d.of
        <5>1. executed[c] <= forgotten[c] /\ c \in ackList'
          BY <2>2, <2>4, <3>2, <4>1, <4>2 DEF Executions
        <5>2. executed'[c] <= executed[c] + 1 /\ executed'[c] \in Nat
          BY <1>0, <3>3, <4>1, <4>2, CountedSteps, CountedTypes
        <5> QED
          BY <4>1, <5>1, <5>2
      <4>3. CASE c # d.of
        BY <2>2, <3>3, <4>1, <4>3 DEF Executions
      <4> QED
        BY <4>2, <4>3
    <3> QED
      BY <2>2, <3>4 DEF Executions
  <2>5. CASE ReceiveNonConfirmable(d) /\ d.code = "request"
    <3>1. d.type = "NON" /\ executed' = [executed EXCEPT ![d.of] = Counted(@)]
      BY <2>5 DEF ReceiveNonConfirmable
    <3>2. d.of \notin Confirmable
      BY <2>2, <2>5, <3>1 DEF IsDownward
    <3>3. \A c \in Confirmable : executed'[c] = executed[c]
      BY <3>1, <3>2, CommandAssumption DEF TypeInv, TypeOK
    <3> QED
      BY <2>2, <3>3 DEF Executions
  <2> QED
    BY <2>1, <2>3, <2>4, <2>5 DEF ReceiveAck, ReceiveReset, ReceiveConfirmable, ReceiveNonConfirmable
<1>3. ASSUME NEW x \in Request \cup Command, AckExpires(x) PROVE Executions'
  <2>1. /\ ackList' = ackList \ {x} /\ UNCHANGED <<peer, executed, uncached>>
        /\ \A c \in Command : forgotten'[c] = IF c = x THEN Counted(forgotten[c]) ELSE forgotten[c]
    BY <1>3 DEF AckExpires
  <2>2. ASSUME NEW c \in Confirmable \ uncached
        PROVE  /\ executed[c] <= 1 + forgotten'[c]
               /\ peer = "open" /\ c \notin ackList' => executed[c] <= forgotten'[c]
    <3>1. c \in Command /\ executed[c] \in 0..MaxExecuted /\ forgotten[c] \in 0..MaxExecuted
      BY <1>0, CommandAssumption
    <3>2. CASE c = x
      BY <2>1, <3>1, <3>2, CountedSteps, CountedTypes, MaxExecutedAssumption DEF Executions
    <3>3. CASE c # x
      BY <2>1, <3>1, <3>3 DEF Executions
    <3> QED
      BY <3>2, <3>3
  <2> QED
    BY <2>1, <2>2 DEF Executions
<1>4. CASE coapPeerDelete
  BY <1>1, <1>4 DEF coapPeerDelete
<1>5. CASE (\E r \in Request : Send(r) \/ SendFails(r)) \/ transactionStep \/ Lose \/ ServerReceives
           \/ ServerTransmits \/ ServerStops \/ (\E c \in Command : ServerCommands(c)) \/ UNCHANGED vars
  <2>1. UNCHANGED <<peer, executed, uncached, forgotten, ackList>>
    BY <1>5 DEF Send, SendFails, transactionStep, Retransmit, GiveUp, Lose, ServerReceives,
                ServerTransmits, ServerStops, ServerCommands, vars, client
  <2> QED
    BY <1>1, <2>1
<1> QED
  BY <1>2, <1>3, <1>4, <1>5 DEF Next

LEMMA InitExecutions == Init => Executions
BY CommandAssumption DEF Init, Executions

\* A confirmable command is executed once, however often the network brings it
\* and whatever fails, as long as its reply could be kept; and once more for
\* each time its reply was forgotten.
THEOREM CommandsAreExecutedOnce == Spec => []ExecutedOnce
<1>1. Executions => ExecutedOnce
  BY DEF Executions, ExecutedOnce
<1> QED
  BY <1>1, AlwaysTypeInv, InitExecutions, NextExecutions, PTL DEF Spec

-----------------------------------------------------------------------------
(* Whose failure a request is told                                         *)

\* What is still sent again belongs to a request that waits or has ended; and
\* if it waits, the transaction holds the address of its exchange.
Paired ==
  /\ \A t \in transactionList : result[t.message.of] \in {"pending", "response", "failure"}
  /\ \A t \in transactionList, e \in exchangeList : e.request = t.message.of => e.address = t.address

PairInv == TypeInv /\ PendingIsWaiting /\ Paired

\* A result once given stays.
LEMMA ResultsStay ==
  ASSUME TypeInv, PendingIsWaiting, [Next]_vars, NEW r \in Request
  PROVE  /\ result[r] \in {"response", "failure", "refused"} => result'[r] = result[r]
         /\ result[r] = "pending" => result'[r] \in {"pending", "response", "failure"}
<1>1. \A e \in exchangeList : e.request = r => result[r] = "pending"
  BY DEF PendingIsWaiting, Waiting
<1>2. CASE \E q \in Request : Send(q) \/ SendFails(q)
  BY <1>2 DEF Send, SendFails, TypeInv, TypeOK
<1>3. CASE transactionStep
  BY <1>1, <1>3 DEF transactionStep, Retransmit, GiveUp, Failing
<1>4. CASE Receive
  BY <1>1, <1>4 DEF Receive, ReceiveAck, ReceiveReset, ReceiveConfirmable, ReceiveNonConfirmable,
                    Respond, Matching
<1>5. CASE coapPeerDelete
  BY <1>1, <1>5 DEF coapPeerDelete, Waiting
<1>6. CASE (\E x \in Request \cup Command : AckExpires(x)) \/ Lose \/ ServerReceives
           \/ ServerTransmits \/ ServerStops \/ (\E c \in Command : ServerCommands(c)) \/ UNCHANGED vars
  BY <1>6 DEF AckExpires, Lose, ServerReceives, ServerTransmits, ServerStops, ServerCommands, vars, client
<1> QED
  BY <1>2, <1>3, <1>4, <1>5, <1>6 DEF Next

LEMMA NextPaired == PairInv /\ [Next]_vars => PairInv'
<1> SUFFICES ASSUME PairInv, [Next]_vars PROVE Paired'
  BY NextTypeInv, NextPending DEF PairInv
<1>0. \A t \in transactionList : t.message.of \in Request
  BY DEF PairInv, TypeInv, Kinds, IsRequest
<1>1. ASSUME NEW r \in Request, Send(r) PROVE Paired'
  <2>1. PICK e \in ExchangeRecord, t \in Transaction :
          /\ e.request = r /\ t.address = e.address /\ t.message.of = r
          /\ exchangeList' = exchangeList \cup {e} /\ transactionList' = transactionList \cup {t}
          /\ result[r] = "none" /\ result' = [result EXCEPT ![r] = "pending"]
    BY <1>1, SendEffect DEF PairInv
  <2>2. /\ \A f \in exchangeList : f.request # r
        /\ \A u \in transactionList : u.message.of # r
    BY <2>1 DEF PairInv, PendingIsWaiting, Waiting, Paired
  <2>3. result'[r] = "pending" /\ \A q \in Request \ {r} : result'[q] = result[q]
    BY <2>1 DEF PairInv, TypeInv, TypeOK
  <2> QED
    BY <1>0, <2>1, <2>2, <2>3 DEF PairInv, Paired
<1>2. ASSUME NEW t \in transactionList, Retransmit(t) PROVE Paired'
  <2> DEFINE u == [t EXCEPT !.retrans_counter = @ + 1]
  <2>1. u.address = t.address /\ u.message = t.message
    BY DEF PairInv, TypeInv, TypeOK, Transaction
  <2>2. transactionList' = (transactionList \ {t}) \cup {u} /\ UNCHANGED <<exchangeList, result>>
    BY <1>2 DEF Retransmit
  <2> HIDE DEF u
  <2> QED
    BY <2>1, <2>2 DEF PairInv, Paired
<1>3. ASSUME transactionList' \subseteq transactionList, exchangeList' \subseteq exchangeList
      PROVE  Paired'
  BY <1>0, <1>3, ResultsStay DEF PairInv, Paired
<1>4. CASE transactionStep
  BY <1>2, <1>3, <1>4 DEF transactionStep, GiveUp
<1>5. CASE Receive
  BY <1>3, <1>5 DEF Receive, ReceiveAck, ReceiveReset, ReceiveConfirmable, ReceiveNonConfirmable, Respond
<1>6. CASE (\E r \in Request : SendFails(r)) \/ (\E x \in Request \cup Command : AckExpires(x))
           \/ coapPeerDelete \/ Lose \/ ServerReceives \/ ServerTransmits \/ ServerStops
           \/ (\E c \in Command : ServerCommands(c)) \/ UNCHANGED vars
  <2>1. transactionList' \subseteq transactionList /\ exchangeList' \subseteq exchangeList
    BY <1>6 DEF SendFails, AckExpires, coapPeerDelete, Lose, ServerReceives, ServerTransmits, ServerStops,
                ServerCommands, vars, client
  <2> QED
    BY <1>3, <2>1
<1> QED
  BY <1>1, <1>4, <1>5, <1>6 DEF Next

LEMMA InitPaired == Init => PairInv
BY InitTypeInv, InitPending DEF PairInv, Init, Paired

\* The transaction that gives up fails one exchange at most: that of its own
\* request, or, once that has ended, the one that has its memory now.
LEMMA FailingIsOne ==
  ASSUME PairInv, NEW t \in transactionList, GiveUp(t), NEW e \in Failing(t)
  PROVE  /\ t.message.of \in Request /\ e.request \in Request
         /\ t.retrans_counter = MaxRetransmit /\ e.address = t.address
         /\ Failing(t) = {e} /\ Waiting(e.request) = {e} /\ result[e.request] = "pending"
         /\ e.request = t.message.of \/ result[t.message.of] \in {"response", "failure"}
<1>1. /\ t.message.of \in Request /\ e \in exchangeList /\ e.request \in Request
      /\ t.retrans_counter = MaxRetransmit /\ e.address = t.address
  <2>1. t \in Transaction /\ t.message.of \in Request
    BY DEF PairInv, TypeInv, TypeOK, Kinds, IsRequest
  <2>2. e \in exchangeList /\ e \in ExchangeRecord /\ e.address = t.address
    BY DEF PairInv, TypeInv, TypeOK, Failing
  <2>3. t.retrans_counter \in 0..MaxRetransmit /\ t.retrans_counter >= MaxRetransmit
    BY <2>1 DEF Transaction, GiveUp
  <2>4. e.request \in Request
    BY <2>2 DEF ExchangeRecord
  <2> QED
    BY <2>1, <2>2, <2>3, <2>4, MaxRetransmitAssumption
<1>2. /\ Failing(t) = {e} /\ Waiting(e.request) = {e} /\ result[e.request] = "pending"
  BY <1>1 DEF PairInv, PendingIsWaiting, Failing, Waiting
<1>3. ASSUME result[t.message.of] = "pending" PROVE e.request = t.message.of
  <2>1. PICK f \in exchangeList : f.request = t.message.of
    BY <1>1, <1>3 DEF PairInv, PendingIsWaiting, Waiting
  <2>2. f.address = t.address
    BY <2>1 DEF PairInv, Paired
  <2> QED
    BY <1>1, <2>1, <2>2 DEF PairInv, PendingIsWaiting
<1>4. result[t.message.of] \in {"pending", "response", "failure"}
  BY DEF PairInv, Paired
<1> QED
  BY <1>1, <1>2, <1>3, <1>4

Own(r) ==
  \/ peer' = "deleted"
  \/ \E t \in transactionList \ transactionList' :
       /\ t.retrans_counter = MaxRetransmit
       /\ \A e \in Waiting(r) : e.address = t.address
       /\ t.message.of = r \/ result[t.message.of] \in {"response", "failure"}

LEMMA StepFailsItsOwn ==
  ASSUME PairInv, [Next]_vars, NEW r \in Request, result[r] = "pending", result'[r] = "failure"
  PROVE  Own(r)
<1>1. ASSUME NEW t \in transactionList, GiveUp(t)
      PROVE  Own(r)
  <2>1. PICK e \in Failing(t) : e.request = r
    BY <1>1 DEF GiveUp
  <2>2. t \in transactionList \ transactionList'
    BY <1>1 DEF GiveUp
  <2> QED
    BY <1>1, <2>1, <2>2, FailingIsOne DEF Own
<1>2. ASSUME NEW d, Respond(d) PROVE FALSE
  BY <1>2 DEF Respond
<1>3. ASSUME UNCHANGED result PROVE FALSE
  BY <1>3
<1>4. CASE \E q \in Request : Send(q) \/ SendFails(q)
  BY <1>4 DEF Send, SendFails, PairInv, TypeInv, TypeOK
<1>5. CASE transactionStep
  BY <1>1, <1>3, <1>5 DEF transactionStep, Retransmit
<1>6. CASE Receive
  BY <1>2, <1>3, <1>6 DEF Receive, ReceiveAck, ReceiveReset, ReceiveConfirmable, ReceiveNonConfirmable
<1>7. CASE coapPeerDelete
  BY <1>7 DEF coapPeerDelete, Own
<1>8. CASE (\E x \in Request \cup Command : AckExpires(x)) \/ Lose \/ ServerReceives
           \/ ServerTransmits \/ ServerStops \/ (\E c \in Command : ServerCommands(c)) \/ UNCHANGED vars
  <2>1. UNCHANGED result
    BY <1>8 DEF AckExpires, Lose, ServerReceives, ServerTransmits, ServerStops, ServerCommands, vars, client
  <2> QED
    BY <1>3, <2>1
<1> QED
  BY <1>4, <1>5, <1>6, <1>7, <1>8 DEF Next

\* A request fails only with the peer, or by the give-up of a transaction that
\* holds its address: its own, or one left by a request that has ended.  A
\* request that waits never fails another.
THEOREM FailuresAreTheirOwn == Spec => FailureIsItsOwn
<1> DEFINE Owns == \A r \in Request : result[r] = "pending" /\ result'[r] = "failure" => Own(r)
<1>1. PairInv /\ [Next]_vars => Owns
  BY StepFailsItsOwn
<1>2. Spec => [][Owns]_vars
  BY <1>1, InitPaired, NextPaired, PTL DEF Spec
<1> QED
  BY <1>2 DEF FailureIsItsOwn, Own

-----------------------------------------------------------------------------
(* Whose response a request is told                                        *)

\* The datagrams and the exchange of a request carry the token it drew, and a
\* response is one to a request that was sent.
Drawn ==
  /\ \A e, f \in exchangeList : e.token = f.token => e = f
  /\ \A e \in exchangeList : e.token = drawn[e.request]
  /\ \A t \in transactionList : t.message.token = drawn[t.message.of]
  /\ \A d \in up : d.type = "CON" => d.token = drawn[d.of]
  /\ \A d \in down \cup sending : d.code = "response" =>
       /\ d.token = drawn[d.of] /\ result[d.of] # "none"
       /\ reaction[d.of] \in {"piggyback", "separate"}

DrawnInv == PairInv /\ Drawn

\* What the tokens keep while none is drawn and the Server does not react.
LEMMA FewerDrawn ==
  ASSUME DrawnInv, [Next]_vars, exchangeList' \subseteq exchangeList, UNCHANGED <<drawn, reaction>>,
         \A t \in transactionList' : \E u \in transactionList : t.message = u.message,
         \A d \in down' \cup sending' : d \in down \cup sending \/ d.code # "response",
         \A d \in up' : d \in up \/ d.type # "CON" \/ \E t \in transactionList : d = t.message
  PROVE  Drawn'
<1>1. \A d \in down \cup sending : d.code = "response" => d.of \in Request
  BY DEF DrawnInv, PairInv, TypeInv, Kinds, IsDownward
<1>2. \A q \in Request : result[q] # "none" => result'[q] # "none"
  BY ResultsStay DEF DrawnInv, PairInv, TypeInv, TypeOK
<1>3. \A d \in down' \cup sending' : d.code = "response" =>
       /\ d.token = drawn'[d.of] /\ result'[d.of] # "none"
       /\ reaction'[d.of] \in {"piggyback", "separate"}
  BY <1>1, <1>2 DEF DrawnInv, Drawn
<1> QED
  BY <1>3 DEF DrawnInv, Drawn

LEMMA SendDrawn ==
  ASSUME DrawnInv, [Next]_vars, NEW r \in Request, Send(r)
  PROVE  Drawn'
<1>1. PICK e \in ExchangeRecord, t \in Transaction, m \in Datagram :
        /\ e.request = r /\ t.message = m /\ m.of = r /\ m.token = e.token
        /\ up' = up \cup {m} /\ exchangeList' = exchangeList \cup {e}
        /\ transactionList' = transactionList \cup {t} /\ drawn' = [drawn EXCEPT ![r] = e.token]
        /\ result[r] = "none" /\ result' = [result EXCEPT ![r] = "pending"]
        /\ UNCHANGED <<down, sending, reaction>>
        /\ \A f \in exchangeList : f.token # e.token
  BY SendEffect DEF DrawnInv, PairInv
<1>2. /\ drawn'[r] = e.token /\ result'[r] = "pending"
      /\ \A q \in Request \ {r} : drawn'[q] = drawn[q] /\ result'[q] = result[q]
  BY <1>1 DEF DrawnInv, PairInv, TypeInv, TypeOK
<1>3. \A f \in exchangeList : f.request \in Request \ {r}
  BY <1>1 DEF DrawnInv, PairInv, TypeInv, TypeOK, ExchangeRecord, PendingIsWaiting, Waiting
<1>4. /\ \A u \in transactionList : u.message.of \in Request \ {r}
      /\ \A d \in up : d.type = "CON" => d.of \in Request \ {r}
  BY <1>1 DEF DrawnInv, PairInv, TypeInv, Kinds, IsRequest
<1>5. \A d \in down \cup sending : d.code = "response" => d.of \in Request \ {r}
  BY <1>1 DEF DrawnInv, Drawn, PairInv, TypeInv, Kinds, IsDownward
<1>6. /\ \A f, g \in exchangeList' : f.token = g.token => f = g
      /\ \A f \in exchangeList' : f.token = drawn'[f.request]
  BY <1>1, <1>2, <1>3 DEF DrawnInv, Drawn
<1>7. /\ \A u \in transactionList' : u.message.token = drawn'[u.message.of]
      /\ \A d \in up' : d.type = "CON" => d.token = drawn'[d.of]
  BY <1>1, <1>2, <1>4 DEF DrawnInv, Drawn
<1>8. \A d \in down' \cup sending' : d.code = "response" =>
       /\ d.token = drawn'[d.of] /\ result'[d.of] # "none"
       /\ reaction'[d.of] \in {"piggyback", "separate"}
  BY <1>1, <1>2, <1>5 DEF DrawnInv, Drawn
<1> QED
  BY <1>6, <1>7, <1>8 DEF Drawn

LEMMA SendFailsDrawn ==
  ASSUME DrawnInv, [Next]_vars, NEW r \in Request, SendFails(r)
  PROVE  Drawn'
<1>1. /\ result[r] = "none" /\ result' = [result EXCEPT ![r] = "refused"]
      /\ UNCHANGED <<exchangeList, transactionList, down, sending, reaction>>
  BY DEF SendFails, server
<1>2. CASE UNCHANGED <<up, drawn>>
  BY <1>1, <1>2, FewerDrawn
<1>3. CASE \E token \in UnusedTokens : /\ up' = up \cup {Message("CON", "request", r, token)}
                                       /\ drawn' = [drawn EXCEPT ![r] = token]
  <2>1. PICK token \in UnusedTokens : /\ up' = up \cup {Message("CON", "request", r, token)}
                                      /\ drawn' = [drawn EXCEPT ![r] = token]
    BY <1>3
  <2>2. /\ drawn'[r] = token
        /\ \A q \in Request \ {r} : drawn'[q] = drawn[q] /\ result'[q] = result[q]
    BY <1>1, <2>1 DEF DrawnInv, PairInv, TypeInv, TypeOK
  <2>3. \A f \in exchangeList : f.request \in Request \ {r}
    BY <1>1 DEF DrawnInv, PairInv, TypeInv, TypeOK, ExchangeRecord, PendingIsWaiting, Waiting
  <2>4. /\ \A u \in transactionList : u.message.of \in Request \ {r}
        /\ \A d \in up : d.type = "CON" => d.of \in Request \ {r}
    BY <1>1 DEF DrawnInv, PairInv, TypeInv, Kinds, IsRequest
  <2>5. \A d \in down \cup sending : d.code = "response" => d.of \in Request \ {r}
    BY <1>1 DEF DrawnInv, Drawn, PairInv, TypeInv, Kinds, IsDownward
  <2>6. Message("CON", "request", r, token).of = r /\ Message("CON", "request", r, token).token = token
    BY DEF Message
  <2>7. /\ \A f, g \in exchangeList' : f.token = g.token => f = g
        /\ \A f \in exchangeList' : f.token = drawn'[f.request]
        /\ \A u \in transactionList' : u.message.token = drawn'[u.message.of]
    BY <1>1, <2>2, <2>3, <2>4 DEF DrawnInv, Drawn
  <2>8. \A d \in up' : d.type = "CON" => d.token = drawn'[d.of]
    BY <2>1, <2>2, <2>4, <2>6 DEF DrawnInv, Drawn
  <2>9. \A d \in down' \cup sending' : d.code = "response" =>
          /\ d.token = drawn'[d.of] /\ result'[d.of] # "none"
          /\ reaction'[d.of] \in {"piggyback", "separate"}
    BY <1>1, <2>2, <2>5 DEF DrawnInv, Drawn
  <2> QED
    BY <2>7, <2>8, <2>9 DEF Drawn
<1> QED
  BY <1>2, <1>3 DEF SendFails

LEMMA StepDrawn ==
  ASSUME DrawnInv, [Next]_vars, NEW t \in transactionList, Retransmit(t) \/ GiveUp(t)
  PROVE  Drawn'
<1>1. [t EXCEPT !.retrans_counter = @ + 1].message = t.message
  BY DEF DrawnInv, PairInv, TypeInv, TypeOK, Transaction
<1>2. CASE Retransmit(t)
  BY <1>1, <1>2, FewerDrawn DEF Retransmit, server
<1>3. CASE GiveUp(t)
  BY <1>3, FewerDrawn DEF GiveUp, server
<1> QED
  BY <1>2, <1>3

LEMMA ReceiveDrawn ==
  ASSUME DrawnInv, [Next]_vars, Receive
  PROVE  Drawn'
<1>1. PICK d \in down : ReceiveAck(d) \/ ReceiveReset(d) \/ ReceiveConfirmable(d) \/ ReceiveNonConfirmable(d)
  BY DEF Receive
<1>2. /\ UNCHANGED <<drawn, down, sending, reaction>>
      /\ exchangeList' \subseteq exchangeList /\ transactionList' \subseteq transactionList
  BY <1>1 DEF ReceiveAck, ReceiveReset, ReceiveConfirmable, ReceiveNonConfirmable, Respond, server
<1>3. \A m \in up' : m \in up \/ m.type # "CON"
  <2>1. Reply(d).type = "ACK" /\ Message("NON", "response", d.of, d.token).type = "NON"
    BY DEF Reply, Message
  <2> QED
    BY <1>1, <2>1 DEF ReceiveAck, ReceiveReset, ReceiveConfirmable, ReceiveNonConfirmable, Acknowledge
<1> QED
  BY <1>2, <1>3, FewerDrawn

LEMMA ServerReceivesDrawn ==
  ASSUME DrawnInv, [Next]_vars, ServerReceives
  PROVE  Drawn'
<1>1. PICK d \in up, how \in {"piggyback", "separate", "reset"} :
           /\ IsRequest(d) /\ result[d.of] # "none" /\ reaction[d.of] \in {"none", how}
           /\ reaction' = [reaction EXCEPT ![d.of] = how]
           /\ \E m \in Datagram :
                /\ down' = down \cup {m} /\ m.of = d.of
                /\ m.type = (IF how = "reset" THEN "RST" ELSE "ACK")
                /\ m.code = (IF how = "piggyback" THEN "response" ELSE "empty")
                /\ m.code = "response" => m.token = d.token
           /\ \/ UNCHANGED sending
              \/ /\ how = "separate" /\ reaction[d.of] = "none"
                 /\ \E m \in Datagram : /\ sending' = sending \cup {m} /\ m.of = d.of
                                        /\ m.type \in {"CON", "NON"}
                                        /\ m.code = "response" /\ m.token = d.token
  BY ServerReaction DEF DrawnInv, PairInv
<1>2. UNCHANGED <<exchangeList, transactionList, up, drawn, result>>
  BY DEF ServerReceives, client
<1>3. d.of \in Request /\ d.token = drawn[d.of]
  BY <1>1 DEF IsRequest, DrawnInv, Drawn
<1>4. \A r \in Request : /\ reaction[r] # "none" => reaction'[r] = reaction[r]
                         /\ r = d.of => reaction'[r] = how
  BY <1>1, <1>3 DEF DrawnInv, PairInv, TypeInv, TypeOK
<1>5. ASSUME NEW m \in down' \cup sending', m.code = "response"
      PROVE  /\ m.token = drawn'[m.of] /\ result'[m.of] # "none"
             /\ reaction'[m.of] \in {"piggyback", "separate"}
  <2>1. CASE m \in down \cup sending
    <3>1. m.of \in Request
      BY <1>5, <2>1 DEF DrawnInv, PairInv, TypeInv, Kinds, IsDownward
    <3> QED
      BY <1>2, <1>4, <1>5, <2>1, <3>1 DEF DrawnInv, Drawn
  <2>2. CASE m \notin down \cup sending
    <3>1. m.of = d.of /\ m.token = d.token /\ how \in {"piggyback", "separate"}
      BY <1>1, <1>5, <2>2
    <3> QED
      BY <1>1, <1>2, <1>3, <1>4, <3>1
  <2> QED
    BY <2>1, <2>2
<1> QED
  BY <1>2, <1>5 DEF DrawnInv, Drawn

LEMMA NextDrawn == DrawnInv /\ [Next]_vars => DrawnInv'
<1> SUFFICES ASSUME DrawnInv, [Next]_vars PROVE Drawn'
  BY NextPaired DEF DrawnInv
<1>1. CASE \E r \in Request : Send(r) \/ SendFails(r)
  BY <1>1, SendDrawn, SendFailsDrawn
<1>2. CASE transactionStep
  BY <1>2, StepDrawn DEF transactionStep
<1>3. CASE Receive
  BY <1>3, ReceiveDrawn
<1>4. CASE ServerReceives
  BY <1>4, ServerReceivesDrawn
<1>5. CASE coapPeerDelete
  BY <1>5 DEF coapPeerDelete, Drawn
<1>6. CASE \E c \in Command : ServerCommands(c)
  <2>1. PICK c \in Command, type \in {"CON", "NON"} :
               /\ sending' = sending \cup {Message(type, "request", c, NULL)}
               /\ UNCHANGED <<exchangeList, transactionList, drawn, up, down, reaction>>
    BY <1>6 DEF ServerCommands, client
  <2>2. Message(type, "request", c, NULL).code # "response"
    BY DEF Message
  <2> QED
    BY <2>1, <2>2, FewerDrawn
<1>7. CASE (\E x \in Request \cup Command : AckExpires(x)) \/ Lose \/ ServerTransmits \/ ServerStops
           \/ UNCHANGED vars
  <2>1. /\ UNCHANGED <<exchangeList, transactionList, drawn, reaction>>
        /\ up' \subseteq up /\ down' \cup sending' \subseteq down \cup sending
    BY <1>7 DEF AckExpires, Lose, ServerTransmits, ServerStops, vars, client, server
  <2> QED
    BY <2>1, FewerDrawn
<1> QED
  BY <1>1, <1>2, <1>3, <1>4, <1>5, <1>6, <1>7 DEF Next

LEMMA InitDrawn == Init => DrawnInv
BY InitPaired DEF DrawnInv, Init, Drawn

\* Who gets a response: one exchange at most, whose request drew the token of
\* the request it answers; and the latter has ended if it is another.
LEMMA MatchingIsOne ==
  ASSUME DrawnInv, NEW d \in down, d.code = "response", NEW e \in Matching(d)
  PROVE  /\ Matching(d) = {e} /\ e.request \in Request /\ result[e.request] = "pending"
         /\ d.of \in Request /\ reaction[d.of] \in {"piggyback", "separate"}
         /\ drawn[d.of] = drawn[e.request] /\ drawn[e.request] # NULL
         /\ d.of # e.request => result[d.of] \notin {"none", "pending"}
<1>1. /\ e \in exchangeList /\ e.token = d.token /\ e.request \in Request
      /\ d.of \in Request /\ d.token \in Token
  BY DEF Matching, DrawnInv, PairInv, TypeInv, TypeOK, Kinds, IsDownward, ExchangeRecord
<1>2. /\ Matching(d) = {e} /\ d.token = drawn[d.of] /\ d.token = drawn[e.request]
      /\ reaction[d.of] \in {"piggyback", "separate"} /\ result[d.of] # "none"
  BY <1>1 DEF Matching, DrawnInv, Drawn
<1>3. result[e.request] = "pending"
  BY <1>1 DEF DrawnInv, PairInv, PendingIsWaiting, Waiting
<1>4. ASSUME result[d.of] = "pending" PROVE d.of = e.request
  <2>1. PICK f \in exchangeList : f.request = d.of
    BY <1>1, <1>4 DEF DrawnInv, PairInv, PendingIsWaiting, Waiting
  <2>2. f.token = e.token
    BY <1>1, <1>2, <2>1 DEF DrawnInv, Drawn
  <2> QED
    BY <1>1, <2>1, <2>2 DEF DrawnInv, Drawn
<1> QED
  BY <1>1, <1>2, <1>3, <1>4, NULLAssumption

Answers(q, r) ==
  /\ q \in Request /\ reaction[q] \in {"piggyback", "separate"}
  /\ drawn[q] = drawn[r] /\ drawn[r] # NULL
  /\ q # r => result[q] \notin {"none", "pending"}

\* What is said of an answer stays true: who drew a token draws none again.
LEMMA AnswersStay ==
  ASSUME DrawnInv, [Next]_vars, NEW q, NEW r \in Request, Answers(q, r),
         result[r] # "none", result[q] # "none"
  PROVE  Answers(q, r)'
<1>1. result[q] \notin {"none", "pending"} => result'[q] \notin {"none", "pending"}
  BY ResultsStay DEF DrawnInv, PairInv, TypeInv, TypeOK, Answers
<1>2. drawn'[q] = drawn[q] /\ drawn'[r] = drawn[r]
  <2>1. CASE \E x \in Request : Send(x) \/ SendFails(x)
    BY <2>1 DEF Send, SendFails, DrawnInv, PairInv, TypeInv, TypeOK, Answers
  <2>2. CASE UNCHANGED drawn
    BY <2>2
  <2> QED
    BY <2>1, <2>2 DEF Next, transactionStep, Retransmit, GiveUp, Receive, ReceiveAck, ReceiveReset,
       ReceiveConfirmable, ReceiveNonConfirmable, AckExpires, coapPeerDelete, Lose, ServerReceives,
       ServerTransmits, ServerStops, ServerCommands, vars, client
<1>3. reaction'[q] = reaction[q]
  <2>1. CASE ServerReceives
    <3>1. PICK d \in up, how \in {"piggyback", "separate", "reset"} :
            reaction[d.of] \in {"none", how} /\ reaction' = [reaction EXCEPT ![d.of] = how]
      BY <2>1, ServerReaction DEF DrawnInv, PairInv
    <3> QED
      BY <3>1 DEF DrawnInv, PairInv, TypeInv, TypeOK, Answers
  <2>2. CASE UNCHANGED reaction
    BY <2>2
  <2> QED
    BY <2>1, <2>2 DEF Next, Send, SendFails, transactionStep, Retransmit, GiveUp, Receive, ReceiveAck,
       ReceiveReset, ReceiveConfirmable, ReceiveNonConfirmable, AckExpires, coapPeerDelete, Lose,
       ServerTransmits, ServerStops, ServerCommands, vars, server
<1> QED
  BY <1>1, <1>2, <1>3 DEF Answers

LEMMA NextReply == DrawnInv /\ ReplyIsItsOwn /\ [Next]_vars => ReplyIsItsOwn'
<1> SUFFICES ASSUME DrawnInv, ReplyIsItsOwn, [Next]_vars, NEW r \in Request, result'[r] = "response"
             PROVE  LET q == replyOf'[r] IN
                    /\ q \in Request /\ reaction'[q] \in {"piggyback", "separate"}
                    /\ drawn'[q] = drawn'[r] /\ drawn'[r] # NULL
                    /\ q # r => result'[q] \notin {"none", "pending"}
  BY DEF ReplyIsItsOwn
<1>1. ASSUME NEW q, Answers(q, r), result[r] # "none", result[q] # "none", replyOf'[r] = q
      PROVE  LET p == replyOf'[r] IN
                    /\ p \in Request /\ reaction'[p] \in {"piggyback", "separate"}
                    /\ drawn'[p] = drawn'[r] /\ drawn'[r] # NULL
                    /\ p # r => result'[p] \notin {"none", "pending"}
  BY <1>1, AnswersStay DEF Answers
<1>2. CASE result[r] = "response" /\ replyOf'[r] = replyOf[r]
  <2>1. Answers(replyOf[r], r) /\ result[replyOf[r]] # "none"
    BY <1>2 DEF ReplyIsItsOwn, Answers
  <2> QED
    BY <1>1, <1>2, <2>1
<1>3. ASSUME NEW d \in down, d.code = "response", Respond(d)
      PROVE  \/ result[r] = "response" /\ replyOf'[r] = replyOf[r]
             \/ Answers(d.of, r) /\ result[r] # "none" /\ result[d.of] # "none" /\ replyOf'[r] = d.of
  <2>1. CASE \E e \in Matching(d) : e.request = r
    BY <1>3, <2>1, MatchingIsOne DEF Respond, Answers
  <2>2. CASE ~\E e \in Matching(d) : e.request = r
    BY <1>3, <2>2 DEF Respond
  <2> QED
    BY <2>1, <2>2
<1>4. CASE Receive
  <2>1. PICK d \in down : (d.code = "response" /\ Respond(d)) \/ UNCHANGED <<result, replyOf>>
    BY <1>4 DEF Receive, ReceiveAck, ReceiveReset, ReceiveConfirmable, ReceiveNonConfirmable
  <2> QED
    BY <1>1, <1>2, <1>3, <2>1
<1>5. CASE (\E q \in Request : Send(q) \/ SendFails(q)) \/ transactionStep \/ coapPeerDelete
  <2>1. UNCHANGED replyOf
    BY <1>5 DEF Send, SendFails, transactionStep, Retransmit, GiveUp, coapPeerDelete
  <2>2. result[r] = "response"
    BY <1>5 DEF Send, SendFails, transactionStep, Retransmit, GiveUp, coapPeerDelete, DrawnInv, PairInv,
                TypeInv, TypeOK
  <2> QED
    BY <1>2, <2>1, <2>2
<1>6. CASE (\E x \in Request \cup Command : AckExpires(x)) \/ Lose \/ ServerReceives \/ ServerTransmits
           \/ ServerStops \/ (\E c \in Command : ServerCommands(c)) \/ UNCHANGED vars
  <2>1. UNCHANGED <<result, replyOf>>
    BY <1>6 DEF AckExpires, Lose, ServerReceives, ServerTransmits, ServerStops, ServerCommands, vars, client
  <2> QED
    BY <1>2, <2>1
<1> QED
  BY <1>4, <1>5, <1>6 DEF Next

\* The response a callback gets was made by the Server for its own request, or
\* for an earlier one which had ended and had drawn the same token.
THEOREM RepliesAreTheirOwn == Spec => []ReplyIsItsOwn
<1>1. Init => ReplyIsItsOwn
  BY DEF Init, ReplyIsItsOwn
<1> QED
  BY <1>1, InitDrawn, NextDrawn, NextReply, PTL DEF Spec

-----------------------------------------------------------------------------
(* The refinement                                                          *)

VisibleVars == <<phase, drawn, served, peer = "open">>

\* What is seen of a step is what it does to the results, the transmissions,
\* the tokens, the reactions and the peer.
LEMMA Unseen ==
  ASSUME UNCHANGED <<peer, result, drawn, transactionList, reaction>>
  PROVE  UNCHANGED VisibleVars
BY DEF VisibleVars, phase, served, Transmitting

\* Who waits has an exchange, which holds the token it drew.
LEMMA WaitsIsPending ==
  ASSUME DrawnInv, NEW r \in Request
  PROVE  /\ Service!Waits(r) <=> result[r] = "pending"
         /\ result[r] # "pending" => phase[r] = result[r]
         /\ result[r] = "pending" => \E e \in exchangeList : e.request = r /\ e.token = drawn[r]
         /\ Service!Ended(r) <=> result[r] \notin {"none", "pending"}
<1>1. result[r] \in {"none", "refused", "pending", "response", "failure"}
  BY DEF DrawnInv, PairInv, TypeInv, TypeOK
<1>2. result[r] = "pending" => \E e \in exchangeList : e.request = r /\ e.token = drawn[r]
  BY DEF DrawnInv, PairInv, PendingIsWaiting, Waiting, Drawn
<1> QED
  BY <1>1, <1>2 DEF Service!Waits, Service!Ended, phase

\* A step that leaves the Server alone and disturbs only one request moves that
\* request.
LEMMA MovesOne ==
  ASSUME NEW r \in Request, UNCHANGED <<peer, reaction>>, peer = "open",
         \A q \in Request \ {r} :
           result'[q] = result[q] /\ (Transmitting(q)' = Transmitting(q) \/ result[q] # "pending")
  PROVE  /\ UNCHANGED <<served, peer = "open">>
         /\ phase' = [phase EXCEPT ![r] = phase'[r]]
<1>1. phase' = [q \in Request |-> IF q = r THEN phase'[q] ELSE phase[q]]
  BY DEF phase
<1>2. phase = [q \in Request |-> phase[q]]
  BY DEF phase
<1> QED
  BY <1>1, <1>2 DEF served

LEMMA SendServes ==
  ASSUME DrawnInv, NEW r \in Request, Send(r)
  PROVE  Service!Accept(r)
<1>1. PICK e \in ExchangeRecord, t \in Transaction :
        /\ t.message.of = r /\ transactionList' = transactionList \cup {t}
        /\ result[r] = "none" /\ result' = [result EXCEPT ![r] = "pending"]
        /\ drawn' = [drawn EXCEPT ![r] = e.token] /\ \A f \in exchangeList : f.token # e.token
        /\ peer = "open" /\ UNCHANGED <<peer, reaction>>
  BY SendEffect DEF DrawnInv, PairInv
<1>2. \A q \in Request \ {r} : result'[q] = result[q] /\ Transmitting(q)' = Transmitting(q)
  BY <1>1 DEF DrawnInv, PairInv, TypeInv, TypeOK, Transmitting
<1>3. phase[r] = "none" /\ phase'[r] = "sent"
  BY <1>1 DEF phase, Transmitting, DrawnInv, PairInv, TypeInv, TypeOK
<1>4. Service!Moves(r, {"none"}, "sent")
  BY <1>1, <1>2, <1>3, MovesOne DEF Service!Moves
<1>5. Service!Draws(r)
  <2>1. e.token \in Token
    BY DEF ExchangeRecord
  <2>2. \A q \in Request : Service!Waits(q) => drawn[q] # e.token
    BY <1>1, WaitsIsPending
  <2> QED
    BY <1>1, <2>1, <2>2 DEF Service!Draws
<1> QED
  BY <1>4, <1>5 DEF Service!Accept

LEMMA SendFailsServes ==
  ASSUME DrawnInv, NEW r \in Request, SendFails(r)
  PROVE  Service!Refuse(r)
<1>1. /\ result[r] = "none" /\ result' = [result EXCEPT ![r] = "refused"]
      /\ peer = "open" /\ UNCHANGED <<peer, reaction, transactionList>>
      /\ drawn' = drawn \/ \E token \in UnusedTokens : drawn' = [drawn EXCEPT ![r] = token]
  BY DEF SendFails, server
<1>2. \A q \in Request \ {r} : result'[q] = result[q] /\ Transmitting(q)' = Transmitting(q)
  BY <1>1 DEF DrawnInv, PairInv, TypeInv, TypeOK, Transmitting
<1>3. phase[r] = "none" /\ phase'[r] = "refused"
  BY <1>1 DEF phase, DrawnInv, PairInv, TypeInv, TypeOK
<1>4. Service!Moves(r, {"none"}, "refused")
  BY <1>1, <1>2, <1>3, MovesOne DEF Service!Moves
<1>5. drawn' = drawn \/ Service!Draws(r)
  BY <1>1, WaitsIsPending DEF UnusedTokens, Service!Draws
<1> QED
  BY <1>4, <1>5 DEF Service!Refuse

\* A transaction goes, and its request may fail with it.
LEMMA TransactionsServe ==
  ASSUME DrawnInv, NEW r \in Request, peer = "open", UNCHANGED <<peer, drawn, reaction>>,
         Transmitting(r) # {}, \A q \in Request \ {r} : Transmitting(q)' = Transmitting(q),
         \A q \in Request : result'[q] = result[q] \/ (q = r /\ result[q] = "pending" /\ result'[q] = "failure")
  PROVE  Service!Acknowledge(r) \/ Service!Fail(r) \/ UNCHANGED VisibleVars
<1>1. /\ UNCHANGED <<served, peer = "open">>
      /\ phase' = [phase EXCEPT ![r] = phase'[r]]
  BY MovesOne
<1>2. CASE result'[r] # result[r]
  <2>1. phase[r] = "sent" /\ phase'[r] = "failure"
    BY <1>2 DEF phase
  <2> QED
    BY <1>1, <2>1 DEF Service!Fail, Service!Moves
<1>3. CASE result'[r] = result[r] /\ result[r] = "pending" /\ Transmitting(r)' = {}
  <2>1. phase[r] = "sent" /\ phase'[r] = "acknowledged"
    BY <1>3 DEF phase
  <2> QED
    BY <1>1, <2>1 DEF Service!Acknowledge, Service!Moves
<1>4. CASE result'[r] = result[r] /\ (result[r] # "pending" \/ Transmitting(r)' # {})
  <2>1. phase'[r] = phase[r]
    BY <1>4 DEF phase
  <2>2. phase = [phase EXCEPT ![r] = phase[r]]
    BY DEF phase
  <2> QED
    BY <1>1, <2>1, <2>2 DEF VisibleVars
<1> QED
  BY <1>2, <1>3, <1>4

LEMMA StepServes ==
  ASSUME DrawnInv, NEW t \in transactionList, Retransmit(t) \/ GiveUp(t)
  PROVE  [Service!Next]_VisibleVars
<1> DEFINE r == t.message.of
<1>1. r \in Request /\ Transmitting(r) # {} /\ peer = "open"
  BY DEF DrawnInv, PairInv, TypeInv, TypeOK, Kinds, IsRequest, Transmitting
<1>2. CASE Retransmit(t)
  <2> DEFINE u == [t EXCEPT !.retrans_counter = @ + 1]
  <2>1. u.message = t.message
    BY DEF DrawnInv, PairInv, TypeInv, TypeOK, Transaction
  <2>2. transactionList' = (transactionList \ {t}) \cup {u} /\ UNCHANGED <<peer, result, drawn, reaction>>
    BY <1>2 DEF Retransmit, server
  <2> HIDE DEF u
  <2>3. \A q \in Request : Transmitting(q)' = {} <=> Transmitting(q) = {}
    BY <2>1, <2>2 DEF Transmitting
  <2>4. UNCHANGED <<phase, served>>
    BY <2>2, <2>3 DEF phase, served
  <2> QED
    BY <2>2, <2>4 DEF VisibleVars
<1>3. CASE GiveUp(t)
  <2>1. transactionList' = transactionList \ {t} /\ UNCHANGED <<peer, drawn, reaction>>
    BY <1>3 DEF GiveUp, server
  <2>2. \A q \in Request \ {r} : Transmitting(q)' = Transmitting(q)
    BY <2>1 DEF Transmitting
  <2>3. CASE \A e \in Failing(t) : e.request = r
    <3>1. \A e \in Failing(t) : result[e.request] = "pending"
      BY <1>3, FailingIsOne DEF DrawnInv
    <3>2. \A q \in Request : result'[q] = result[q] \/ (q = r /\ result[q] = "pending" /\ result'[q] = "failure")
      BY <1>3, <2>3, <3>1 DEF GiveUp
    <3> QED
      BY <1>1, <2>1, <2>2, <3>2, TransactionsServe DEF Service!Next
  <2>4. ASSUME NEW e \in Failing(t), e.request # r PROVE Service!FailForAnother(e.request)
    <3>1. /\ e.request \in Request /\ Failing(t) = {e} /\ result[e.request] = "pending"
          /\ result[r] \in {"response", "failure"}
      BY <1>3, <2>4, FailingIsOne DEF DrawnInv
    <3>2. result'[e.request] = "failure" /\ \A q \in Request \ {e.request} : result'[q] = result[q]
      BY <1>3, <3>1 DEF GiveUp
    <3>3. \A q \in Request \ {e.request} : Transmitting(q)' = Transmitting(q) \/ result[q] # "pending"
      BY <2>2, <3>1
    <3>4. phase[e.request] \in {"sent", "acknowledged"} /\ phase'[e.request] = "failure"
          /\ phase[r] \in {"response", "failure"}
      BY <1>1, <3>1, <3>2 DEF phase
    <3>5. Service!Moves(e.request, {"sent", "acknowledged"}, "failure")
      BY <1>1, <2>1, <3>1, <3>2, <3>3, <3>4, MovesOne DEF Service!Moves
    <3> QED
      BY <1>1, <2>1, <2>4, <3>1, <3>4, <3>5 DEF Service!FailForAnother
  <2>5. \A e \in Failing(t) : e.request \in Request
    BY <1>3, FailingIsOne DEF DrawnInv
  <2> QED
    BY <2>3, <2>4, <2>5 DEF Service!Next
<1> QED
  BY <1>2, <1>3

\* A response is delivered, with the acknowledgement of its request or apart.
LEMMA RespondServes ==
  ASSUME DrawnInv, NEW d \in down, d.code = "response", Respond(d), peer = "open",
         UNCHANGED <<peer, drawn, reaction>>, d.of \in Request,
         \A q \in Request \ {d.of} : Transmitting(q)' = Transmitting(q),
         Transmitting(d.of)' = Transmitting(d.of) \/ (Transmitting(d.of) # {} /\ Transmitting(d.of)' = {})
  PROVE  [Service!Next]_VisibleVars
<1>1. ASSUME NEW e \in Matching(d) PROVE Service!Answer(e.request)
  <2>1. /\ Matching(d) = {e} /\ e.request \in Request /\ result[e.request] = "pending"
        /\ d.of \in served /\ drawn[d.of] = drawn[e.request]
        /\ d.of # e.request => result[d.of] \notin {"none", "pending"}
    BY <1>1, MatchingIsOne DEF served
  <2>2. result'[e.request] = "response" /\ \A q \in Request \ {e.request} : result'[q] = result[q]
    BY <2>1 DEF Respond
  <2>3. phase[e.request] \in {"sent", "acknowledged"} /\ phase'[e.request] = "response"
    BY <2>1, <2>2 DEF phase
  <2>4. \A q \in Request \ {e.request} : Transmitting(q)' = Transmitting(q) \/ result[q] # "pending"
    BY <2>1
  <2>5. Service!Moves(e.request, {"sent", "acknowledged"}, "response")
    BY <2>1, <2>2, <2>3, <2>4, MovesOne DEF Service!Moves
  <2>6. d.of = e.request \/ Service!Ended(d.of)
    BY <2>1, WaitsIsPending
  <2> QED
    BY <2>1, <2>5, <2>6 DEF Service!Answer
<1>2. CASE Matching(d) # {}
  <2>1. PICK e \in Matching(d) : TRUE
    BY <1>2
  <2>2. e.request \in Request
    BY MatchingIsOne
  <2> QED
    BY <1>1, <2>2 DEF Service!Next
<1>3. CASE Matching(d) = {}
  <2>1. \A q \in Request : result'[q] = result[q]
    BY <1>3 DEF Respond
  <2>2. CASE Transmitting(d.of)' = Transmitting(d.of)
    <3>1. UNCHANGED <<phase, served>>
      BY <2>1, <2>2 DEF phase, served
    <3> QED
      BY <3>1 DEF VisibleVars
  <2>3. CASE Transmitting(d.of) # {}
    BY <2>1, <2>3, TransactionsServe DEF Service!Next
  <2> QED
    BY <2>2, <2>3
<1> QED
  BY <1>2, <1>3

LEMMA ReceiveServes ==
  ASSUME DrawnInv, Receive
  PROVE  [Service!Next]_VisibleVars
<1>1. PICK d \in down : ReceiveAck(d) \/ ReceiveReset(d) \/ ReceiveConfirmable(d) \/ ReceiveNonConfirmable(d)
  BY DEF Receive
<1>2. peer = "open" /\ UNCHANGED <<peer, drawn, reaction>>
  BY <1>1 DEF Receive, ReceiveAck, ReceiveReset, ReceiveConfirmable, ReceiveNonConfirmable, server
<1>3. /\ d.code = "response" \/ d.type \in {"ACK", "RST"} => d.of \in Request
      /\ d.type \in {"ACK", "RST"} => d.code # "request"
  BY DEF DrawnInv, PairInv, TypeInv, Kinds, IsDownward
<1>4. CASE transactionList' = transactionList \ Transmitting(d.of) /\ Transmitting(d.of) # {}
           /\ d.of \in Request
  <2>1. Transmitting(d.of)' = {} /\ \A q \in Request \ {d.of} : Transmitting(q)' = Transmitting(q)
    BY <1>4 DEF Transmitting
  <2>2. CASE UNCHANGED result
    BY <1>2, <1>4, <2>1, <2>2, TransactionsServe DEF Service!Next
  <2>3. CASE d.code = "response" /\ Respond(d)
    BY <1>2, <1>4, <2>1, <2>3, RespondServes
  <2> QED
    BY <1>1, <1>3, <1>4, <2>2, <2>3 DEF ReceiveAck, ReceiveReset, ReceiveConfirmable, ReceiveNonConfirmable
<1>5. CASE UNCHANGED <<transactionList, result>>
  BY <1>2, <1>5, Unseen
<1>6. CASE UNCHANGED transactionList /\ d.code = "response" /\ Respond(d)
  <2>1. \A q : Transmitting(q)' = Transmitting(q)
    BY <1>6 DEF Transmitting
  <2> QED
    BY <1>2, <1>3, <1>6, <2>1, RespondServes
<1> QED
  BY <1>1, <1>3, <1>4, <1>5, <1>6 DEF ReceiveAck, ReceiveReset, ReceiveConfirmable, ReceiveNonConfirmable

LEMMA ServerServes ==
  ASSUME DrawnInv, ServerReceives
  PROVE  [Service!Next]_VisibleVars
<1>1. PICK d \in up, how \in {"piggyback", "separate", "reset"} :
        /\ d.type = "CON" /\ IsRequest(d) /\ reaction[d.of] \in {"none", how}
        /\ reaction' = [reaction EXCEPT ![d.of] = how]
  BY ServerReaction DEF DrawnInv, PairInv, IsRequest
<1>2. UNCHANGED <<peer, result, drawn, transactionList>>
  BY DEF ServerReceives, client
<1>3. UNCHANGED phase
  BY <1>2 DEF phase, Transmitting
<1>4. d.of \in Request /\ drawn[d.of] # NULL
  BY <1>1, NULLAssumption DEF IsRequest, DrawnInv, Drawn
<1>5. served' = served \cup {d.of} \/ served' = served
  BY <1>1, <1>4 DEF served, DrawnInv, PairInv, TypeInv, TypeOK
<1> QED
  BY <1>2, <1>3, <1>4, <1>5 DEF Service!Next, Service!Serve, VisibleVars

LEMMA DeleteServes ==
  ASSUME DrawnInv, coapPeerDelete
  PROVE  Service!Close
<1>1. \A r \in Request : result'[r] = (IF result[r] = "pending" THEN "failure" ELSE result[r])
  BY DEF coapPeerDelete, DrawnInv, PairInv, PendingIsWaiting
<1>2. \A r \in Request : /\ result[r] = "pending" <=> Service!Waits(r)
                         /\ result[r] # "pending" => phase[r] = result[r]
  BY WaitsIsPending
<1>3. phase' = [r \in Request |-> IF Service!Waits(r) THEN "failure" ELSE phase[r]]
  BY <1>1, <1>2 DEF phase
<1> QED
  BY <1>3 DEF coapPeerDelete, served, Service!Close

LEMMA NextServes ==
  ASSUME DrawnInv, [Next]_vars
  PROVE  [Service!Next]_VisibleVars
<1>1. CASE \E r \in Request : Send(r) \/ SendFails(r)
  BY <1>1, SendServes, SendFailsServes DEF Service!Next
<1>2. CASE transactionStep
  BY <1>2, StepServes DEF transactionStep
<1>3. CASE Receive
  BY <1>3, ReceiveServes
<1>4. CASE ServerReceives
  BY <1>4, ServerServes
<1>5. CASE coapPeerDelete
  BY <1>5, DeleteServes DEF Service!Next
<1>6. CASE (\E x \in Request \cup Command : AckExpires(x)) \/ Lose \/ ServerTransmits \/ ServerStops
           \/ (\E c \in Command : ServerCommands(c)) \/ UNCHANGED vars
  <2>1. UNCHANGED <<peer, result, drawn, transactionList, reaction>>
    BY <1>6 DEF AckExpires, Lose, ServerTransmits, ServerStops, ServerCommands, vars, client, server
  <2> QED
    BY <2>1, Unseen
<1> QED
  BY <1>1, <1>2, <1>3, <1>4, <1>5, <1>6 DEF Next

\* The layer gives what RequestService promises: one result for each request,
\* an answer only from a request that was answered and has its token, a failure
\* only before the acknowledgement, with the peer, or in the place of a request
\* that has ended.
THEOREM LayerImplementsService == Spec => ImplementsService
<1>1. Init => Service!Init
  BY DEF Init, Service!Init, phase, served
<1>2. DrawnInv /\ [Next]_vars => [Service!Next]_VisibleVars
  BY NextServes
<1>3. Spec => []DrawnInv
  BY InitDrawn, NextDrawn, PTL DEF Spec
<1> QED
  BY <1>1, <1>2, <1>3, PTL DEF Spec, ImplementsService, Service!Spec, VisibleVars

=============================================================================
