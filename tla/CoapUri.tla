------------------------------ MODULE CoapUri ------------------------------
(***************************************************************************)
(* The URI of a Server (iowa_coap_uri_parse in coap/iowa_coap.c).          *)
(*                                                                         *)
(* A text is a sequence of characters; the scheme of a URI is its first    *)
(* element.  Offsets count from the first character of the host, where the *)
(* code counts from the first of the URI and has 0 for none.               *)
(***************************************************************************)
EXTENDS Integers, Sequences, SequencesExt, Status

\* What each scheme stands for: the transport, and whether it is secure.
Scheme == [coap      |-> <<"datagram", FALSE>>,  coaps     |-> <<"datagram", TRUE>>,
           coaptcp   |-> <<"stream", FALSE>>,    coapstcp  |-> <<"stream", TRUE>>,
           coapws    |-> <<"websocket", FALSE>>, coapsws   |-> <<"websocket", TRUE>>,
           sms       |-> <<"sms", FALSE>>,       lorawan   |-> <<"lorawan", FALSE>>]

DefaultPort(type, isSecure) ==
  CASE type \in {"datagram", "stream"} -> IF isSecure THEN <<"5684">> ELSE <<"5683">>
    [] type = "websocket" -> IF isSecure THEN <<"443">> ELSE <<"80">>
    [] OTHER -> NULL

\* strchr from an index: NULL if the character is not there.
Offset(text, char, from) ==
  LET at == {i \in from..Len(text) : text[i] = char}
  IN  IF at = {} THEN NULL ELSE CHOOSE i \in at : \A j \in at : i <= j

\* The port follows the first ':', or the one right after the ']' of an address.
PortOffset(text) ==
  IF text = <<>> \/ text[1] # "[" THEN Offset(text, ":", 1)
  ELSE LET end == Offset(text, "]", 1)
       IN  IF end # NULL /\ end < Len(text) /\ text[end + 1] = ":" THEN end + 1 ELSE NULL

Before(a, b) == a # NULL /\ b # NULL /\ a < b

\* utilsBufferToString of the characters from first up to before.  A part that
\* ends before it begins has a length that wraps around, and is NULL.
Part(text, first, before) ==
  IF before < first THEN NULL ELSE SubSeq(text, first, before - 1)

Up(a, b, c) == IF a # NULL THEN a ELSE IF b # NULL THEN b ELSE c

\* The offsets are refused if a separator is before the port or has nothing before it.
Accepted(type, text, port, path, query) ==
  /\ ~(text # <<>> /\ text[1] = "[" /\ Offset(text, "]", 1) = NULL)
  /\ ~Before(path, port) /\ ~Before(query, port)
  /\ IF type = "lorawan"
     THEN port = NULL /\ text # <<>> /\ path # 1 /\ query # 1
     ELSE text # <<>> /\ port # 1 /\ path # 1 /\ query # 1

\* A LoRaWAN URI has no host: what follows the scheme is its port.
iowa_coap_uri_parse(scheme, text) ==
  LET type == Scheme[scheme][1]
      isSecure == Scheme[scheme][2]
      port == PortOffset(text)
      path == Offset(text, "/", 1)
      query == Offset(text, "?", 1)
      end == Len(text) + 1
      portStart == IF type = "lorawan" THEN 0 ELSE port
  IN  IF scheme \notin DOMAIN Scheme \/ ~Accepted(type, text, port, path, query) THEN NULL
      ELSE [type |-> type, isSecure |-> isSecure,
            host |-> IF type = "lorawan" THEN NULL ELSE Part(text, 1, Up(port, path, Up(query, NULL, end))),
            port |-> IF portStart = NULL THEN DefaultPort(type, isSecure)
                     ELSE Part(text, portStart + 1, Up(path, query, end)),
            path |-> IF path = NULL THEN NULL ELSE Part(text, path, Up(query, NULL, end)),
            query |-> IF query = NULL THEN NULL ELSE Part(text, query + 1, end)]

=============================================================================
