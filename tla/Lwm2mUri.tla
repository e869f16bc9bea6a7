------------------------------ MODULE Lwm2mUri ------------------------------
(***************************************************************************)
(* The URI of a request as Uri-Path options, the format it asks for, and   *)
(* the links of a registration or of a Discover (lwm2m/iowa_uri.c,         *)
(* lwm2m/iowa_lwm2m_utils.c, lwm2m/iowa_core_link.c).                      *)
(***************************************************************************)
EXTENDS DataText, CoapMessage

IOWA_COAP_OPTION_LOCATION_PATH == 8
IOWA_COAP_OPTION_URI_PATH == 11
IOWA_COAP_OPTION_CONTENT_FORMAT == 12
IOWA_COAP_OPTION_ACCEPT == 17

PRV_URI_BUFFER_SIZE == 15

Uri(ids) == [object |-> ids[1], instance |-> ids[2], resource |-> ids[3], resInstance |-> IOWA_LWM2M_ID_ALL]
Root == Uri(<<IOWA_LWM2M_ID_ALL, IOWA_LWM2M_ID_ALL, IOWA_LWM2M_ID_ALL>>)

\* The values of the options of a number, in the order of the message.
Segments(options, number) ==
  LET first == iowa_coap_message_find_option(options, number)
      others == {i \in first..Len(options) : Number(options[i]) # number}
      last == IF others = {} THEN Len(options) ELSE Min(others) - 1
  IN  IF first = NULL THEN <<>> ELSE [i \in 1..(last - first + 1) |-> Value(options[first + i - 1])]

IsId(n) == n # NULL /\ n >= 0 /\ n < IOWA_LWM2M_ID_ALL

\* No alternate path: LWM2M_ALTPATH_SUPPORT is not set.
uri_decode(options, number) ==
  LET segments == Segments(options, number)
      ids == [i \in 1..3 |-> IF i <= Len(segments) THEN dataUtilsBufferToInt(segments[i]) ELSE IOWA_LWM2M_ID_ALL]
      read(type, uri) == [type |-> type, uri |-> uri]
  IN  CASE segments = <<>> -> read("DM", Root)
        [] segments # <<>> /\ segments[1] = <<"r", "d">> -> read("REGISTRATION", Root)
        [] segments # <<>> /\ segments[1] = <<"b", "s">> -> read("BOOTSTRAP", Root)
        [] segments = <<<<>>>> -> read("DM", Root)
        [] Len(segments) \in 1..3 /\ \A i \in DOMAIN segments : IsId(ids[i]) -> read("DM", Uri(ids))
        [] OTHER -> read("UNKNOWN", Root)

\* The Resource Instance has no segment.  The buffer is shared by the segments.
RECURSIVE SegmentsOf(_, _)
SegmentsOf(ids, room) ==
  IF ids = <<>> THEN <<>>
  ELSE LET text == dataUtilsIntToBuffer(Head(ids), room)
       IN  IF text = <<>> THEN <<NULL>> ELSE <<text>> \o SegmentsOf(Tail(ids), room - Len(text))

uri_encode(number, uri) ==
  LET depth == dataUtilsGetUriDepth(uri)
      segments == IF depth = 0 THEN <<<<>>>>
                  ELSE SegmentsOf(SubSeq(Ids(uri), 1, IF depth > 3 THEN 3 ELSE depth), PRV_URI_BUFFER_SIZE)
  IN  IF NULL \in Range(segments) THEN NULL
      ELSE [i \in DOMAIN segments |-> <<number, segments[i]>>]

ContentFormat == ("TEXT" :> 0) @@ ("CORE_LINK" :> 40) @@ ("OPAQUE" :> 42) @@ ("TLV_OLD" :> 1542) @@ ("TLV" :> 11542)
UNSET == "UNSET"

\* A format that is repeated or unknown is none; an Accept that is absent is the default.
utils_getMediaType(options, number) ==
  LET first == iowa_coap_message_find_option(options, number)
      named == {f \in DOMAIN ContentFormat : ContentFormat[f] = Value(options[first]) % UINT16}
  IN  IF first = NULL THEN (IF number = IOWA_COAP_OPTION_CONTENT_FORMAT THEN UNSET ELSE "TLV")
      ELSE IF first < Len(options) /\ Number(options[first + 1]) = number THEN UNSET
      ELSE IF named = {} THEN UNSET ELSE CHOOSE f \in named : TRUE

-----------------------------------------------------------------------------
(* Links: a URI and its attributes, pairs of a key and a value             *)

PRV_LINK_BUFFER_SIZE == 1024

BufferKeys == {"VERSION", "URI", "RESOURCE_TYPE", "OBJECT_VERSION"}
FloatKeys == {"LESS_THAN", "GREATER_THAN", "STEP"}
KeyLength == [VERSION |-> 5, SSID |-> 4, URI |-> 3, CONTENT_FORMAT |-> 2, RESOURCE_TYPE |-> 2, OBJECT_VERSION |-> 3,
              DIMENSION |-> 3, PERIOD_MINIMUM |-> 4, PERIOD_MAXIMUM |-> 4, LESS_THAN |-> 2, GREATER_THAN |-> 2,
              STEP |-> 2, EVAL_PERIOD_MINIMUM |-> 5, EVAL_PERIOD_MAXIMUM |-> 5]

\* The length that is computed for an attribute: the quotes of a URI are counted
\* twice.  NULL if a number has none.
AttributeLength(attribute) ==
  LET key == attribute[1]
      value == CASE key = "URI" -> Len(attribute[2]) + 2
                 [] key \in BufferKeys -> Len(attribute[2])
                 [] key \in FloatKeys -> dataUtilsFloatToBufferLength(attribute[2])
                 [] OTHER -> dataUtilsIntToBufferLength(attribute[2])
  IN  IF key \in FloatKeys /\ value = 0 THEN NULL ELSE KeyLength[key] + 2 + value

SumOf(lengths) == IF NULL \in Range(lengths) THEN NULL ELSE FoldLeft(LAMBDA a, b : a + b, 0, lengths)

LinkLength(link) ==
  LET attributes == SumOf([i \in DOMAIN link.attributes |-> AttributeLength(link.attributes[i])])
  IN  IF attributes = NULL THEN NULL ELSE dataUtilsUriToBufferLength(link.uri) + 2 + attributes

prv_calculateLinkLength(links) ==
  LET sum == SumOf([i \in DOMAIN links |-> LinkLength(links[i])])
  IN  IF sum = NULL THEN NULL ELSE sum + Len(links) - 1

\* The key itself is abstracted to as many characters as it has.  A number that does
\* not fit has no text.
AttributePieces(attribute, room) ==
  LET key == attribute[1]
      left == room - KeyLength[key] - 2
      text == CASE key \in BufferKeys -> attribute[2]
                [] key \in FloatKeys -> dataUtilsFloatToBuffer(attribute[2], left)
                [] OTHER -> dataUtilsIntToBuffer(attribute[2], left)
  IN  <<<<";">>, [i \in 1..KeyLength[key] |-> key], <<"=">>,
        IF key \notin BufferKeys /\ text = <<>> THEN NULL ELSE text>>

\* The pieces are written one after the other.  The first that does not fit ends the
\* attributes, without an error.
RECURSIVE prv_serializeLinkAttributes(_, _, _)
prv_serializeLinkAttributes(pieces, attributes, room) ==
  IF pieces # <<>>
  THEN IF Head(pieces) = NULL \/ Len(Head(pieces)) > room THEN <<>>
       ELSE Head(pieces) \o prv_serializeLinkAttributes(Tail(pieces), attributes, room - Len(Head(pieces)))
  ELSE IF attributes = <<>> THEN <<>>
  ELSE prv_serializeLinkAttributes(AttributePieces(Head(attributes), room), Tail(attributes), room)

BetweenMarks(path, room) ==
  IF room < 1 \/ path = <<>> \/ room - 1 - Len(path) < 1 THEN NULL ELSE <<"<">> \o path \o <<">">>

prv_serializeLinkUri(uri, room) == BetweenMarks(dataUtilsUriToBuffer(uri, room - 1), room)

\* The links written so far, NULL once one fails.
WithAttributes(uri, attributes, room) ==
  IF uri = NULL THEN NULL ELSE uri \o prv_serializeLinkAttributes(<<>>, attributes, room - Len(uri))

WithLink(text, link, isLast) ==
  IF link = NULL THEN NULL
  ELSE IF isLast THEN text \o link
  ELSE IF Len(text) + Len(link) = PRV_LINK_BUFFER_SIZE THEN NULL
  ELSE text \o link \o <<",">>

LinksWithin(links, length) ==
  LET add(text, i) ==
        IF text = NULL THEN NULL
        ELSE WithLink(text,
                      WithAttributes(prv_serializeLinkUri(links[i].uri, length - Len(text)),
                                     links[i].attributes, length - Len(text)),
                      i = Len(links))
  IN  IF length = NULL THEN NULL ELSE FoldLeft(add, <<>>, [i \in DOMAIN links |-> i])

coreLinkSerialize(links) == IF links = <<>> THEN <<>> ELSE LinksWithin(links, prv_calculateLinkLength(links))

\* The links a registration sends: neither the root nor the Security Object.
IOWA_LWM2M_SECURITY_OBJECT_ID == 0
prv_getRegistrationPayload(links) ==
  coreLinkSerialize(SelectSeq(links, LAMBDA l : l.uri.object \notin {IOWA_LWM2M_ID_ALL, IOWA_LWM2M_SECURITY_OBJECT_ID}))

=============================================================================
