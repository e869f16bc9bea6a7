------------------------------- MODULE Codec -------------------------------
(***************************************************************************)
(* What is sent and what is read of it: a request or a notification with   *)
(* its data, any octets a peer may send, the links of a registration, the  *)
(* URI of a Server.  The peer is assumed to encode what it sends as this   *)
(* code does, or to send octets of its choice.                             *)
(*                                                                         *)
(* An item is sent as octets or as text, which may lose its end on the way *)
(* (a datagram longer than the buffer of the receiver), and is read once.  *)
(***************************************************************************)
EXTENDS Tlv, Lwm2mUri, ServerRequest

CONSTANTS
  Exchanges,   \* [type, code, id, token, uri, options, format, named, data]
  Datagrams,   \* the octets of messages nobody encoded
  Payloads,    \* [uri, octets]: the TLVs of data nobody encoded
  Numbers,     \* texts
  LinkLists,   \* sequences of links
  Servers,     \* [scheme, host, port, path, query]
  Registrations, \* [server, name, update, location]: a registration and an update of it
  Expected     \* the type of the resources, <<object, resource>>

VARIABLES
  item,   \* <<kind, what is sent>>
  wire,   \* what was sent and has not lost its end, NULL before
  cut,    \* has it lost its end?
  got     \* what was read, NULL before

vars == <<item, wire, cut, got>>

Kind == item[1]
Sent == item[2]

-----------------------------------------------------------------------------
(* An exchange: the path, the format and the options of a request, the     *)
(* data as its payload                                                     *)

IOWA_COAP_CODE_POST == 2
IOWA_COAP_OPTION_OBSERVE == 6
IOWA_COAP_OBSERVE_REQUEST_NEW == 0
IOWA_COAP_OBSERVE_REQUEST_CANCEL == 1

Serialization(x) == dataLwm2mSerialize(x.uri, x.data, x.format)

\* Each chain of options is added to the message, in the order of the code.  The format of
\* an empty payload is not sent by this code; a Server may name it.
MessageWith(x, payload) ==
  LET format == IF payload.buffer = <<>> /\ ~x.named THEN <<>>
                ELSE <<<<IOWA_COAP_OPTION_CONTENT_FORMAT, ContentFormat[payload.format]>>>>
      chains == <<uri_encode(IOWA_COAP_OPTION_URI_PATH, x.uri), format>> \o [i \in DOMAIN x.options |-> <<x.options[i]>>]
  IN  [iowa_coap_message_new(x.type, x.code, x.token) EXCEPT
         !.id = x.id,
         !.options = FoldLeft(iowa_coap_message_add_option, <<>>, chains),
         !.payload = payload.buffer]

Message(x) == MessageWith(x, Serialization(x))

\* An Observe option says to observe or to stop.
ObserveIsValid(options) ==
  LET at == iowa_coap_message_find_option(options, IOWA_COAP_OPTION_OBSERVE)
  IN  at # NULL => Value(options[at]) \in {IOWA_COAP_OBSERVE_REQUEST_NEW, IOWA_COAP_OBSERVE_REQUEST_CANCEL}

\* The data of a request: only the argument of an Execute needs no format.
DataOf(uri, message) ==
  LET format == utils_getMediaType(message.options, IOWA_COAP_OPTION_CONTENT_FORMAT)
      isExecute == message.code = IOWA_COAP_CODE_POST /\ uri.resource # IOWA_LWM2M_ID_ALL
  IN  CASE format # UNSET -> dataLwm2mDeserialize(uri, message.payload, format, Expected)
        [] format = UNSET /\ (message.payload = <<>> \/ isExecute) -> [code |-> NO_ERROR, data |-> <<>>]
        [] OTHER -> [code |-> UNSUPPORTED_CONTENT_FORMAT, data |-> <<>>]

\* lwm2m_client_handle_request and dm_handleRequest, as far as the data.
RequestTo(path, message) ==
  [message |-> message, uri |-> path.uri]
    @@ IF path.type # "DM" \/ ~ObserveIsValid(message.options) THEN [code |-> BAD_REQUEST, data |-> <<>>]
       ELSE DataOf(path.uri, message)

Request(parsed) ==
  IF parsed.code # NO_ERROR THEN [code |-> parsed.code, message |-> NULL, data |-> <<>>, uri |-> Root]
  ELSE RequestTo(uri_decode(parsed.message.options, IOWA_COAP_OPTION_URI_PATH), parsed.message)

ReadMessage(octets) == Request(messageDatagramParse(octets))

\* A URI as it is written, external to the code.
UriText(server) ==
  LET part(mark, text) == IF text = NULL THEN <<>> ELSE mark \o text
  IN  server.host \o part(<<":">>, server.port) \o part(<<>>, server.path) \o part(<<"?">>, server.query)

\* The reply of a Server to a registration, external to the code.
LocationOptions(segments) == [i \in DOMAIN segments |-> <<IOWA_COAP_OPTION_LOCATION, segments[i]>>]

-----------------------------------------------------------------------------
(* Sending and reading                                                     *)

Items == ({"exchange"} \X Exchanges) \cup ({"datagram"} \X Datagrams) \cup ({"payload"} \X Payloads)
           \cup ({"number"} \X Numbers) \cup ({"links"} \X LinkLists) \cup ({"server"} \X Servers)
           \cup ({"registration"} \X Registrations)

Encoded ==
  CASE Kind = "exchange" -> coapMessageSerializeDatagram(Message(Sent))
    [] Kind = "links" -> prv_getRegistrationPayload(Sent)
    [] Kind = "server" -> UriText(Sent)
    [] Kind = "payload" -> Sent.octets
    [] Kind = "registration" -> RegistrationOptions(Sent.server, Sent.name)
    [] OTHER -> Sent

Decoded ==
  CASE Kind = "exchange" -> ReadMessage(wire)
    [] Kind = "datagram" -> messageDatagramParse(wire)
    [] Kind = "payload" -> tlvDeserialize(Sent.uri, wire)
    [] Kind = "number" -> <<dataUtilsBufferToInt(wire), dataUtilsBufferToFloat(wire)>>
    [] Kind = "server" -> iowa_coap_uri_parse(Sent.scheme, wire)
    [] Kind = "registration" -> UpdateOptions(Sent.server, Sent.update, Location(LocationOptions(Sent.location)))
    [] OTHER -> wire

Init == item \in Items /\ wire = NULL /\ cut = FALSE /\ got = NULL

Encode ==
  /\ wire = NULL /\ got = NULL
  /\ wire' = Encoded
  /\ UNCHANGED <<item, cut, got>>

Cut ==
  /\ wire # NULL /\ got = NULL /\ ~cut /\ Kind = "exchange"
  /\ \E n \in 1..(Len(wire) - 1) : wire' = SubSeq(wire, 1, n)
  /\ cut' = TRUE
  /\ UNCHANGED <<item, got>>

Decode ==
  /\ wire # NULL /\ got = NULL
  /\ got' = <<Decoded>>
  /\ UNCHANGED <<item, wire, cut>>

Next == Encode \/ Cut \/ Decode
Spec == Init /\ [][Next]_vars

-----------------------------------------------------------------------------
(* What the client relies on                                               *)

Read == got # NULL
Result == got[1]

\* The datagram and the TLVs fit the buffers whose lengths were computed before they
\* were written, by other functions: an octet more is written past the end of the heap
\* block (coapMessageSerializeDatagram, tlvSerialize, coreLinkSerialize).
FitsItsBuffer ==
  /\ Kind = "exchange" /\ wire # NULL => Len(wire) <= BufferLength(Message(Sent))
  /\ Kind = "exchange" /\ wire # NULL /\ Serialization(Sent).format \in TlvFormats /\ Sent.data # <<>> =>
       Len(Serialization(Sent).buffer)
         = prv_getLength(Sent.uri, dataUtilsGetUriDepth(Sent.uri), Sent.data)
  /\ Kind = "links" /\ wire # NULL => Len(wire) <= prv_calculateLinkLength(Sent)
  /\ Kind = "registration" =>
       /\ Len(prv_getRegistrationQuery(Sent.server, Sent.name)) < RegistrationQueryLength(Sent.server, Sent.name)
       /\ Len(UpdateQuery(Sent.server, Sent.update)) < UpdateQueryLength(Sent.update)

\* A multiple resource that ends an instance and begins the next one under the same id.
Straddles(data) ==
  \E i \in 1..(Len(data) - 1) :
    /\ data[i].resource = data[i + 1].resource /\ data[i].instance # data[i + 1].instance
    /\ data[i].resInstance # IOWA_LWM2M_ID_ALL

\* Two numbers are apart by less than half of what parts two singles, and the one that was
\* read is one of them.
SignedHundredths(x) == IF x.negative THEN -Hundredths(x) ELSE Hundredths(x)
IsNearestSingle(read, sent) ==
  LET apart == SignedHundredths(read) - SignedHundredths(sent)
  IN  Hundredths(read) % SingleStep = 0 /\ apart * 2 <= SingleStep /\ -apart * 2 <= SingleStep

\* In TLVs a number within the range of a single is read as the nearest one, all else is
\* read as it was sent.
IsNarrowed(datum) ==
  datum.type = "FLOAT" /\ Serialization(Sent).format \in TlvFormats /\ ~IsBeyondSingle(datum.value)
ReadsAs(read, sent) ==
  IF IsNarrowed(sent)
  THEN [read EXCEPT !.value = 0] = [sent EXCEPT !.value = 0] /\ IsNearestSingle(read.value, sent.value)
  ELSE read = sent

\* A value whose payload is empty is only read when the Server names its format.
SentData == IF Serialization(Sent).buffer = <<>> /\ ~Sent.named THEN <<>> ELSE Sent.data

BeginsAs(read, sent) == Len(read) <= Len(sent) /\ \A i \in DOMAIN read : ReadsAs(read[i], sent[i])

ReadBack == /\ Result.code = NO_ERROR
            /\ Result.message = Message(Sent)
            /\ Result.uri = [Sent.uri EXCEPT !.resInstance = IOWA_LWM2M_ID_ALL]
            /\ Len(Result.data) = Len(SentData) /\ BeginsAs(Result.data, SentData)

\* What arrives whole is read as it was sent: the options whatever order they were added
\* in, the deltas and lengths at the limits of their four bits, the path, the format that
\* was used instead of the one that was asked for, and every value with its type, but for
\* the decimals that a floating-point value loses when prv_encodeFloat narrows it and for
\* an empty value whose format is not named, which is read as no data.
ReadAsSent == Kind = "exchange" /\ Read /\ ~cut /\ ~Straddles(Sent.data) => ReadBack

\* The same whatever the data: the comment of tlvSerialize only asks them to be in order.
InOrderIsReadAsSent == Kind = "exchange" /\ Read /\ ~cut => ReadBack

\* TLVs that lost their end are never read as values that were not sent, nor the options
\* of a shortened request as others.
CutIsNotMisread ==
  Kind = "exchange" /\ Read /\ cut /\ Serialization(Sent).format \in TlvFormats =>
    /\ BeginsAs(Result.data, Sent.data)
    /\ Result.message # NULL => /\ IsPrefix(Result.message.options, Message(Sent).options)
                                /\ Result.message.token = Message(Sent).token

\* Octets that are read as a message are one: what was read can be sent, in the room that
\* is measured for it, and is then read as the same message.  The exception is a message
\* whose option numbers pass 65535: option_parse adds the deltas on sixteen bits, so that a
\* number wraps to a smaller one and the message is accepted with its options out of order,
\* which coapMessageSerializeDatagram refuses to send.
WhatIsReadCanBeSent ==
  Kind = "datagram" /\ Read /\ Result.code = NO_ERROR =>
    LET again == coapMessageSerializeDatagram(Result.message)
    IN  IF ~InOrder(Result.message.options) THEN again = NULL
        ELSE /\ again # NULL
             /\ messageDatagramParse(again).message = Result.message
             /\ Len(again) <= BufferLength(Result.message)

\* Every value read from TLVs is under the URI of the request, wherever they nest: the
\* rights of the Server were checked for that URI alone.
DataAreUnderTheUri ==
  Kind = "payload" /\ Read /\ Result.code = NO_ERROR =>
    /\ Result.data # <<>>
    /\ \A i \in DOMAIN Result.data :
         /\ dataUtilsIsInBaseUri(Result.data[i], Sent.uri, dataUtilsGetUriDepth(Sent.uri))
         /\ Result.data[i].resource # IOWA_LWM2M_ID_ALL
    /\ Len(Result.data) = prv_checkFormatAndGetDataCount(Sent.uri, UNKNOWN, Sent.octets)

\* The value of the digits of a text, computed from its end and without a width.
RECURSIVE ValueOf(_)
ValueOf(digits) == IF digits = <<>> THEN 0 ELSE ValueOf(Front(digits)) * 10 + DigitValue(Last(digits))

SaysNumber(text, n) ==
  LET digits == IF text # <<>> /\ text[1] \in {"-", "+"} THEN Tail(text) ELSE text
      sign == IF text # <<>> /\ text[1] = "-" THEN -1 ELSE 1
  IN  (\A i \in DOMAIN digits : IsDigit(digits[i])) /\ n = sign * ValueOf(digits)

\* The digits whose value may wrap around and be a smaller number again.
MaxDigits == Len(Decimal(INT64_MAX))

\* A text with no more digits than the largest integer is read as the integer it says; one
\* whose point or exponent does not change it is read alike as a floating-point number.
ShortNumberIsAsWritten ==
  Kind = "number" /\ Read /\ Len(Sent) <= MaxDigits =>
    /\ Result[1] # NULL => SaysNumber(Sent, Result[1])
    /\ Result[1] # NULL /\ Result[2] # NULL => Signed(Result[2]) = Result[1] /\ Result[2].decimals = <<>>
    /\ Result[2] # NULL /\ dataUtilsFloatToBuffer(Result[2], 64) # <<>> =>
         dataUtilsBufferToFloat(dataUtilsFloatToBuffer(Result[2], 64)) = Result[2]

\* A registration lists every Object and instance but the Security Objects, each with all
\* its attributes: attributes that do not fit are dropped without an error.
Whole(links, text) ==
  LET listed == SelectSeq(links, LAMBDA l : l.uri.object \notin {IOWA_LWM2M_ID_ALL, IOWA_LWM2M_SECURITY_OBJECT_ID})
      count(c) == Cardinality({i \in DOMAIN text : text[i] = c})
      attributes == FoldLeft(LAMBDA n, l : n + Len(l.attributes), 0, listed)
  IN  /\ count("<") = Len(listed) /\ count(">") = Len(listed)
      /\ count("=") = attributes /\ count(";") = attributes
      /\ \A i \in DOMAIN listed : \E at \in DOMAIN text :
           LET path == dataUtilsUriToBuffer(listed[i].uri, PRV_LINK_BUFFER_SIZE)
           IN  SubSeq(text, at, at + Len(path) + 1) = <<"<">> \o path \o <<">">>

RegistrationIsWhole == Kind = "links" /\ wire # NULL => Whole(Sent, wire)

\* The parts of a Server URI are found again, whichever of them it has: a port is not
\* taken from the path, nor a query from the port.
ServerIsFound ==
  Kind = "server" /\ Read =>
    LET parsed == Result
    IN  /\ parsed # NULL
        /\ parsed.host = Sent.host
        /\ parsed.port = IF Sent.port # NULL THEN Sent.port ELSE DefaultPort(parsed.type, parsed.isSecure)
        /\ parsed.path = Sent.path /\ parsed.query = Sent.query

OptionsOf(options, number) == SelectSeq(options, LAMBDA o : Number(o) = number)
Has(options, number, value) == \E i \in DOMAIN options : options[i] = <<number, value>>

\* An update goes where the registration was put: the location the Server gave is sent
\* back segment by segment, empty ones too, and what the registration and its update say
\* of the server is said once, after the query of its own URI.
UpdateFollowsRegistration ==
  Kind = "registration" /\ Read =>
    LET sent == wire
        query == OptionsOf(sent, IOWA_COAP_OPTION_QUERY)
        lifetime == QUERY_LIFETIME \o Decimal(Sent.server.lifetime)
        own == Given(IOWA_COAP_OPTION_QUERY, Sent.server.query, QUERY_DELIMITER)
    IN  /\ InOrder(sent) /\ InOrder(Result)
        /\ OptionsOf(Result, IOWA_COAP_OPTION_PATH)
             = [i \in DOMAIN Sent.location |-> <<IOWA_COAP_OPTION_PATH, Sent.location[i]>>]
        /\ "lifetime" \in Sent.update => Has(Result, IOWA_COAP_OPTION_QUERY, lifetime)
        /\ IsPrefix(own, query) /\ query[Len(own) + 1] = <<IOWA_COAP_OPTION_QUERY, lifetime>>
        /\ Has(sent, IOWA_COAP_OPTION_QUERY, QUERY_BINDING \o <<"U", "Q">>) <=> "Q" \in Sent.server.binding
        /\ Last(OptionsOf(sent, IOWA_COAP_OPTION_PATH)) = <<IOWA_COAP_OPTION_PATH, <<"r", "d">>>>

\* What a peer sends whole is what the client acts on: requests, numbers and URIs.
SentIsRead == ReadAsSent /\ ShortNumberIsAsWritten /\ ServerIsFound

\* What was not sent is not read, of a part of a message, of any octets or of
\* data that say to be elsewhere than they were sent.
OnlySentIsRead == CutIsNotMisread /\ WhatIsReadCanBeSent /\ DataAreUnderTheUri

\* A Server is told all that it has to know, and then updates of the same registration.
RegistrationIsTold == RegistrationIsWhole /\ UpdateFollowsRegistration

=============================================================================
