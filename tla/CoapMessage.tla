---------------------------- MODULE CoapMessage ----------------------------
(***************************************************************************)
(* CoAP messages and their options on a datagram (coap/iowa_message.c,     *)
(* coap/iowa_option.c, the utilities of coap/iowa_coap.c).                 *)
(*                                                                         *)
(* A message is a record, its options a sequence of <<number, value>>      *)
(* pairs, an octet a number below 256.  A value is a number for an integer *)
(* option and a sequence of octets otherwise.  An operator that may fail   *)
(* returns NULL, or its CoAP code where the code has one.                  *)
(***************************************************************************)
EXTENDS Integers, Sequences, SequencesExt, Status

CONFIRMABLE == 0
NON_CONFIRMABLE == 1

UINT16 == 65536
PRV_MSG_PAYLOAD_MARKER == 255
COAP_MSG_TOKEN_MAX_LEN == 8
COAP_RESERVED_MID == 0

Number(option) == option[1]
Value(option) == option[2]

-----------------------------------------------------------------------------
(* Building a message                                                      *)

iowa_coap_message_new(type, code, token) ==
  IF Len(token) > COAP_MSG_TOKEN_MAX_LEN
  THEN NULL
  ELSE [type |-> type, code |-> code, id |-> COAP_RESERVED_MID, token |-> token,
        options |-> <<>>, payload |-> <<>>]

\* A chain of options goes after those of a smaller or the same number than its head.
iowa_coap_message_add_option(options, chain) ==
  IF chain = <<>> THEN options
  ELSE LET after(o) == Number(o) > Number(chain[1])
           at == IF \E i \in DOMAIN options : after(options[i])
                 THEN CHOOSE i \in DOMAIN options :
                        after(options[i]) /\ \A j \in 1..(i - 1) : ~after(options[j])
                 ELSE Len(options) + 1
       IN  SubSeq(options, 1, at - 1) \o chain \o SubSeq(options, at, Len(options))

\* The search stops at the first option of the number or above.
iowa_coap_message_find_option(options, number) ==
  LET reached == {i \in DOMAIN options : Number(options[i]) >= number}
      first == CHOOSE i \in reached : \A j \in reached : i <= j
  IN  IF reached # {} /\ Number(options[first]) = number THEN first ELSE NULL

-----------------------------------------------------------------------------
(* Options on the wire                                                     *)

\* Observe, Uri-Port, Content-Format, Max-Age, Accept, Block2, Block1, Size2, Size1, No-Response.
iowa_coap_option_is_integer(number) == number \in {6, 7, 12, 14, 17, 23, 27, 28, 60, 258}

\* An unsigned number on as few octets as it needs, none for zero.
RECURSIVE IntegerOctets(_)
IntegerOctets(n) == IF n = 0 THEN <<>> ELSE Append(IntegerOctets(n \div 256), n % 256)

RECURSIVE OctetsInteger(_)
OctetsInteger(octets) ==
  IF octets = <<>> THEN 0 ELSE OctetsInteger(Front(octets)) * 256 + Last(octets)

PRV_OPT_HEADER_CONSERVATIVE_LENGTH == 3
PRV_OPT_LIMIT_1 == 13
PRV_OPT_LIMIT_2 == 269
PRV_OPT_EXTEND_1 == 13
PRV_OPT_EXTEND_2 == 14
PRV_OPT_EXTEND_FORBIDDEN == 15

\* Mutant: no room for the octets that extend a long length.
option_getSerializedLength_Unextended(option) ==
  PRV_OPT_HEADER_CONSERVATIVE_LENGTH + (IF iowa_coap_option_is_integer(Number(option)) THEN 4 ELSE Len(Value(option)))

\* The room to keep for an option: the longest header its value may need.
option_getSerializedLength(option) ==
  LET value == IF iowa_coap_option_is_integer(Number(option))
               THEN CASE Value(option) > 65535 -> 4 [] Value(option) > 255 -> 2 [] OTHER -> 1
               ELSE Len(Value(option))
  IN  PRV_OPT_HEADER_CONSERVATIVE_LENGTH + value
        + CASE value >= PRV_OPT_LIMIT_2 -> 2 [] value >= PRV_OPT_LIMIT_1 -> 1 [] OTHER -> 0

\* A delta or a length: its four bits of the first octet, and the octets that extend it.
Nibble(n) == CASE n >= PRV_OPT_LIMIT_2 -> PRV_OPT_EXTEND_2
               [] n >= PRV_OPT_LIMIT_1 -> PRV_OPT_EXTEND_1
               [] OTHER -> n
Extension(n) ==
  CASE n >= PRV_OPT_LIMIT_2 -> <<((n - PRV_OPT_LIMIT_2) \div 256) % 256, (n - PRV_OPT_LIMIT_2) % 256>>
    [] n >= PRV_OPT_LIMIT_1 -> <<n - PRV_OPT_LIMIT_1>>
    [] OTHER -> <<>>

RECURSIVE option_serialize(_, _)
option_serialize(options, prevNumber) ==
  IF options = <<>> THEN <<>>
  ELSE LET option == Head(options)
           delta == (Number(option) - prevNumber) % UINT16
           value == IF iowa_coap_option_is_integer(Number(option))
                    THEN IntegerOctets(Value(option))
                    ELSE Value(option)
       IN  <<Nibble(delta) * 16 + Nibble(Len(value))>> \o Extension(delta) \o Extension(Len(value))
             \o value \o option_serialize(Tail(options), Number(option))

\* A four-bit field as it is read: what it is extended to, and by how many octets.
\* Octets past the end are read before the index is compared with the end: their
\* value changes nothing.
Extended(buffer, index, nibble) ==
  CASE nibble = PRV_OPT_EXTEND_1 ->
         [value |-> IF index <= Len(buffer) THEN PRV_OPT_LIMIT_1 + buffer[index] ELSE 0, octets |-> 1]
    [] nibble = PRV_OPT_EXTEND_2 ->
         [value |-> IF index < Len(buffer)
                    THEN (PRV_OPT_LIMIT_2 + buffer[index] * 256 + buffer[index + 1]) % UINT16 ELSE 0,
          octets |-> 2]
    [] OTHER -> [value |-> nibble, octets |-> 0]

Refused(code) == [code |-> code, options |-> <<>>, index |-> 0]

\* The options from index on, up to the payload marker or the end.
RECURSIVE option_parse(_, _, _)
option_parse(buffer, index, options) ==
  IF index > Len(buffer) \/ buffer[index] = PRV_MSG_PAYLOAD_MARKER
  THEN [code |-> NO_ERROR, options |-> options, index |-> index]
  ELSE LET delta == Extended(buffer, index + 1, buffer[index] \div 16)
           afterDelta == index + 1 + delta.octets
           length == Extended(buffer, afterDelta, buffer[index] % 16)
           start == afterDelta + length.octets
           number == ((IF options = <<>> THEN 0 ELSE Number(Last(options))) + delta.value) % UINT16
           octets == SubSeq(buffer, start, start + length.value - 1)
           isInteger == iowa_coap_option_is_integer(number)
       IN  IF buffer[index] \div 16 = PRV_OPT_EXTEND_FORBIDDEN THEN Refused(BAD_REQUEST)
           ELSE IF afterDelta > Len(buffer) + 1 THEN Refused(TOO_LARGE)
           ELSE IF buffer[index] % 16 = PRV_OPT_EXTEND_FORBIDDEN THEN Refused(BAD_REQUEST)
           ELSE IF start + length.value > Len(buffer) + 1 THEN Refused(TOO_LARGE)
           ELSE IF isInteger /\ length.value > 4 THEN Refused(INTERNAL_ERROR)
           ELSE option_parse(buffer, start + length.value,
                             Append(options, <<number, IF isInteger THEN OctetsInteger(octets) ELSE octets>>))

-----------------------------------------------------------------------------
(* Messages on the wire                                                    *)

InOrder(options) == \A i \in 1..(Len(options) - 1) : Number(options[i]) <= Number(options[i + 1])

\* The length of the buffer that is allocated, before anything is written to it.
BufferLength(message) ==
  4 + Len(message.token) + Len(message.payload) + (IF message.payload = <<>> THEN 0 ELSE 1)
    + FoldLeft(LAMBDA n, o : n + option_getSerializedLength(o), 0, message.options)

\* Options out of order are not sent.
coapMessageSerializeDatagram(message) ==
  IF ~InOrder(message.options) THEN NULL
  ELSE LET token == IF Len(message.token) <= COAP_MSG_TOKEN_MAX_LEN THEN message.token ELSE <<>>
       IN  <<64 + message.type * 16 + Len(message.token), message.code,
             message.id \div 256, message.id % 256>>
             \o token \o option_serialize(message.options, 0)
             \o (IF message.payload = <<>> THEN <<>> ELSE <<PRV_MSG_PAYLOAD_MARKER>> \o message.payload)

\* The header and the token, NULL if they are not those of a message.
messageDatagramParseHeader(buffer) ==
  IF \/ Len(buffer) < 4
     \/ buffer[1] \div 64 # 1
     \/ buffer[1] % 16 > COAP_MSG_TOKEN_MAX_LEN
     \/ 4 + (buffer[1] % 16) > Len(buffer)
  THEN NULL
  ELSE [type |-> (buffer[1] \div 16) % 4, code |-> buffer[2], id |-> buffer[3] * 256 + buffer[4],
        token |-> SubSeq(buffer, 5, 4 + (buffer[1] % 16)), options |-> <<>>, payload |-> <<>>]

messageDatagramParse(buffer) ==
  LET header == messageDatagramParseHeader(buffer)
      parsed == option_parse(buffer, 5 + Len(header.token), <<>>)
  IN  IF header = NULL THEN [code |-> BAD_REQUEST, message |-> NULL]
      ELSE IF parsed.code # NO_ERROR THEN [code |-> parsed.code, message |-> NULL]
      ELSE [code |-> NO_ERROR,
            message |-> [header EXCEPT !.options = parsed.options,
                                       !.payload = SubSeq(buffer, parsed.index + 1, Len(buffer))]]

=============================================================================
