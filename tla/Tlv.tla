-------------------------------- MODULE Tlv --------------------------------
(***************************************************************************)
(* LwM2M data as a payload (data/iowa_tlv.c, data/iowa_data.c).            *)
(*                                                                         *)
(* A datum is one resource value: its four ids, its type and its value.    *)
(* The octets of a TLV are numbers below 256; those of an integer value    *)
(* are numbers below NumberSpan.  Those of a floating-point value are the  *)
(* number they stand for, eight times for a double and four for a single.  *)
(* A double has two decimals here and a single keeps quarters, so that     *)
(* most doubles are no single, as in the code.                             *)
(***************************************************************************)
EXTENDS DataText

CONSTANT FLT_MAX   \* the largest single-precision number

\* The type of a TLV, the two highest bits of its first octet.
OBJECT_INSTANCE == 0
RESOURCE_INSTANCE == 64
MULTIPLE_RESOURCE == 128
RESOURCE == 192
UNKNOWN == 7

-----------------------------------------------------------------------------
(* Values                                                                  *)

\* Mutant: the largest number of a width is one too large.
Fits_TooWide(n, octets) == -(NumberSpan^octets \div 2) <= n /\ n <= NumberSpan^octets \div 2

\* A signed number on the fewest of 1, 2, 4 and 8 octets.
Fits(n, octets) == -(NumberSpan^octets \div 2) <= n /\ n < NumberSpan^octets \div 2

prv_encodeInt(n) ==
  LET octets == CASE Fits(n, 1) -> 1 [] Fits(n, 2) -> 2 [] Fits(n, 4) -> 4 [] OTHER -> 8
  IN  [i \in 1..octets |-> ((n % NumberSpan^octets) \div NumberSpan^(octets - i)) % NumberSpan]

Hundredths(x) ==
  LET digit(i) == IF i <= Len(x.decimals) THEN DigitValue(x.decimals[i]) ELSE 0
  IN  x.whole * 100 + digit(1) * 10 + digit(2)

SingleStep == 25
IsBeyondSingle(x) == Hundredths(x) > 100 * FLT_MAX

\* The single nearest to a double.
AsSingle(x) ==
  LET quarters == (Hundredths(x) + SingleStep \div 2) \div SingleStep
      decimals == <<<<>>, <<"2", "5">>, <<"5">>, <<"7", "5">>>>
  IN  Float(x.negative, quarters \div 4, decimals[(quarters % 4) + 1])

\* A double within the range of a single is narrowed to one.
prv_encodeFloat(x) == IF IsBeyondSingle(x) THEN [i \in 1..8 |-> x] ELSE [i \in 1..4 |-> AsSingle(x)]

ObjectLinkOctets(link) == <<link[1] \div 256, link[1] % 256, link[2] \div 256, link[2] % 256>>

IsBuffer(type) == type \in {"STRING", "CORE_LINK", "OPAQUE"}
IsInteger(type) == type \in {"INTEGER", "TIME", "UNSIGNED_INTEGER"}

ValueOctets(datum) ==
  CASE IsBuffer(datum.type) -> datum.value
    [] IsInteger(datum.type) -> prv_encodeInt(datum.value)
    [] datum.type = "FLOAT" -> prv_encodeFloat(datum.value)
    [] datum.type = "BOOLEAN" -> <<IF datum.value THEN 1 ELSE 0>>
    [] datum.type = "OBJECT_LINK" -> ObjectLinkOctets(datum.value)

\* The length of a value, as it is computed before the buffer is allocated.
ValueLength(datum) ==
  CASE IsBuffer(datum.type) -> Len(datum.value)
    [] IsInteger(datum.type) -> Len(prv_encodeInt(datum.value))
    [] datum.type = "FLOAT" -> IF IsBeyondSingle(datum.value) THEN 8 ELSE 4
    [] datum.type = "BOOLEAN" -> 1
    [] datum.type = "OBJECT_LINK" -> 4

IsSerializable(datum) ==
  /\ IsBuffer(datum.type) \/ IsInteger(datum.type) \/ datum.type \in {"FLOAT", "BOOLEAN", "OBJECT_LINK"}
  /\ datum.type = "UNSIGNED_INTEGER" => datum.value >= 0

-----------------------------------------------------------------------------
(* Headers                                                                 *)

prv_getHeaderLength(id, length) ==
  2 + (IF id > 255 THEN 1 ELSE 0)
    + CASE length > 65535 -> 3 [] length > 255 -> 2 [] length > 7 -> 1 [] OTHER -> 0

prv_createHeader(type, id, length) ==
  <<type + (IF id > 255 THEN 32 ELSE 0)
         + CASE length <= 7 -> length [] length <= 255 -> 8 [] length <= 65535 -> 16 [] OTHER -> 24>>
    \o (IF id > 255 THEN <<id \div 256, id % 256>> ELSE <<id>>)
    \o CASE length <= 7 -> <<>>
         [] length <= 255 -> <<length>>
         [] length <= 65535 -> <<length \div 256, length % 256>>
         [] OTHER -> <<length \div 65536, (length \div 256) % 256, length % 256>>

\* The header at the beginning of a buffer, NULL if the buffer is too short for it.
TlvHeader(buffer) ==
  LET wideId == (buffer[1] \div 32) % 2 = 1
      start == IF wideId THEN 4 ELSE 3
      lengthOctets == (buffer[1] \div 8) % 4
      octets == SubSeq(buffer, start, start + lengthOctets - 1)
  IN  IF Len(buffer) < 2 \/ Len(buffer) < start - 1 \/ Len(buffer) < start - 1 + lengthOctets THEN NULL
      ELSE [type |-> (buffer[1] \div 64) * 64,
            id |-> IF wideId THEN buffer[2] * 256 + buffer[3] ELSE buffer[2],
            dataIndex |-> start + lengthOctets,
            length |-> IF lengthOctets = 0 THEN buffer[1] % 8
                       ELSE FoldLeft(LAMBDA n, o : n * 256 + o, 0, octets)]

TlvOf(header, buffer, end) ==
  [type |-> header.type, id |-> header.id, value |-> SubSeq(buffer, header.dataIndex, end), next |-> end + 1]

\* Mutant: a value that lost its end is read as far as it goes.
prv_lwm2mDecodeTlv_Clipped(buffer) ==
  LET header == TlvHeader(buffer)
  IN  IF header = NULL THEN NULL
      ELSE TlvOf(header, buffer, Min({Len(buffer), header.dataIndex + header.length - 1}))

\* The TLV, NULL if its value is not all in the buffer.
prv_lwm2mDecodeTlv(buffer) ==
  LET header == TlvHeader(buffer)
      end == header.dataIndex + header.length - 1
  IN  IF header = NULL THEN NULL ELSE IF Len(buffer) < end THEN NULL ELSE TlvOf(header, buffer, end)

-----------------------------------------------------------------------------
(* Serialization                                                           *)

IsMultiple(datum, depth) == datum.resInstance # IOWA_LWM2M_ID_ALL /\ depth # 4

\* A multiple resource is closed when the next datum has another resource id.
EndsResource(data, i) == i = Len(data) \/ data[i].resource # data[i + 1].resource
EndsInstance(data, i) == i > 1 /\ data[i].instance # data[i - 1].instance

ResourceId(datum) == IF datum.resInstance # IOWA_LWM2M_ID_ALL THEN datum.resInstance ELSE datum.resource

WithHeader(id, length) == prv_getHeaderLength(id, length) + length

\* The lengths of what is closed, of the open instance and of the open resource.
prv_getLength(uri, depth, data) ==
  LET step(sums, i) ==
        LET datum == data[i]
            closed == IF EndsInstance(data, i)
                      THEN sums.closed + WithHeader(data[i - 1].instance, sums.instance) ELSE sums.closed
            instance == IF EndsInstance(data, i) THEN 0 ELSE sums.instance
            resource == sums.resource + WithHeader(ResourceId(datum), ValueLength(datum))
        IN  IF ~dataUtilsIsInBaseUri(datum, uri, depth) THEN sums
            ELSE IF ~IsMultiple(datum, depth)
              THEN [closed |-> closed, instance |-> instance + resource, resource |-> 0]
            ELSE IF EndsResource(data, i)
              THEN [closed |-> closed, instance |-> instance + WithHeader(datum.resource, resource), resource |-> 0]
            ELSE [closed |-> closed, instance |-> instance, resource |-> resource]
      sums == FoldLeft(step, [closed |-> 0, instance |-> 0, resource |-> 0], [i \in 1..Len(data) |-> i])
  IN  IF depth = 1 THEN sums.closed + WithHeader(data[Len(data)].instance, sums.instance) ELSE sums.instance

\* A header is put before the last octets that are written.
InsertHeader(out, type, id, length) ==
  SubSeq(out, 1, Len(out) - length) \o prv_createHeader(type, id, length)
    \o SubSeq(out, Len(out) - length + 1, Len(out))

\* The octets that are written, the open instance and resource being their last ones.
Written(uri, depth, data) ==
  LET step(s, i) ==
        LET datum == data[i]
            closed == IF EndsInstance(data, i)
                      THEN InsertHeader(s.out, OBJECT_INSTANCE, data[i - 1].instance, s.instance) ELSE s.out
            instance == IF EndsInstance(data, i) THEN 0 ELSE s.instance
            octets == prv_createHeader(IF datum.resInstance # IOWA_LWM2M_ID_ALL THEN RESOURCE_INSTANCE ELSE RESOURCE,
                                       ResourceId(datum), Len(ValueOctets(datum))) \o ValueOctets(datum)
            out == closed \o octets
            resource == s.resource + Len(octets)
        IN  IF ~dataUtilsIsInBaseUri(datum, uri, depth) THEN s
            ELSE IF ~IsMultiple(datum, depth) THEN [out |-> out, instance |-> instance + resource, resource |-> 0]
            ELSE IF EndsResource(data, i)
              THEN [out |-> InsertHeader(out, MULTIPLE_RESOURCE, datum.resource, resource),
                    instance |-> instance + WithHeader(datum.resource, resource), resource |-> 0]
            ELSE [out |-> out, instance |-> instance, resource |-> resource]
      s == FoldLeft(step, [out |-> <<>>, instance |-> 0, resource |-> 0], [i \in 1..Len(data) |-> i])
  IN  IF depth = 1 THEN InsertHeader(s.out, OBJECT_INSTANCE, data[Len(data)].instance, s.instance) ELSE s.out

tlvSerialize(uri, data) ==
  LET depth == dataUtilsGetUriDepth(uri)
  IN  IF depth = 0 THEN NotSerialized(BAD_REQUEST)
      ELSE IF \E i \in DOMAIN data : dataUtilsIsInBaseUri(data[i], uri, depth) /\ ~IsSerializable(data[i])
        THEN NotSerialized(INTERNAL_ERROR)
      ELSE IF prv_getLength(uri, depth, data) = 0 THEN Serialized(<<>>)
      ELSE Serialized(Written(uri, depth, data))

-----------------------------------------------------------------------------
(* Deserialization                                                         *)

IsUnderId(id, tlv) == id = IOWA_LWM2M_ID_ALL \/ id = tlv.id

\* A TLV is where its level and the base URI let it be.
IsUnder(uri, level, tlv) ==
  CASE tlv.type = OBJECT_INSTANCE ->
         level = UNKNOWN /\ uri.resource = IOWA_LWM2M_ID_ALL /\ IsUnderId(uri.instance, tlv)
    [] tlv.type \in {RESOURCE, MULTIPLE_RESOURCE} ->
         /\ level \in {UNKNOWN, OBJECT_INSTANCE}
         /\ level = UNKNOWN =>
              /\ ~(uri.resource # IOWA_LWM2M_ID_ALL /\ uri.instance = IOWA_LWM2M_ID_ALL)
              /\ tlv.type = RESOURCE => uri.resInstance = IOWA_LWM2M_ID_ALL
         /\ IsUnderId(uri.resource, tlv)
    [] OTHER ->
         /\ level \in {UNKNOWN, MULTIPLE_RESOURCE}
         /\ level = UNKNOWN => uri.resource # IOWA_LWM2M_ID_ALL
         /\ IsUnderId(uri.resInstance, tlv)

LevelAfter(level, tlv) ==
  CASE level # UNKNOWN \/ tlv.type = OBJECT_INSTANCE -> level
    [] tlv.type = RESOURCE_INSTANCE -> MULTIPLE_RESOURCE
    [] OTHER -> OBJECT_INSTANCE

HoldsTlvs(tlv) == tlv.type \in {OBJECT_INSTANCE, MULTIPLE_RESOURCE}

\* How many values a buffer has, NULL if a TLV is out of place or holds octets and
\* no value.  What cannot be decoded ends it.
RECURSIVE prv_checkFormatAndGetDataCount(_, _, _)
prv_checkFormatAndGetDataCount(uri, level, buffer) ==
  LET tlv == prv_lwm2mDecodeTlv(buffer)
      inside == IF HoldsTlvs(tlv) THEN prv_checkFormatAndGetDataCount(uri, tlv.type, tlv.value) ELSE 1
      after == prv_checkFormatAndGetDataCount(uri, LevelAfter(level, tlv), From(buffer, tlv.next))
  IN  IF buffer = <<>> \/ tlv = NULL THEN 0
      ELSE IF \/ ~IsUnder(uri, level, tlv)
              \/ inside \in {0, NULL} /\ tlv.value # <<>>
              \/ after = NULL
      THEN NULL
      ELSE inside + after

Datum(uri, tlv) ==
  [object |-> uri.object, instance |-> uri.instance,
   resource |-> IF tlv.type = RESOURCE THEN tlv.id ELSE uri.resource,
   resInstance |-> IF tlv.type = RESOURCE THEN IOWA_LWM2M_ID_ALL ELSE tlv.id,
   type |-> "UNDEFINED", value |-> tlv.value]

RECURSIVE prv_tlvToLwm2mData(_, _)
prv_tlvToLwm2mData(uri, buffer) ==
  LET tlv == prv_lwm2mDecodeTlv(buffer)
      under == [object |-> uri.object,
                instance |-> IF tlv.type = OBJECT_INSTANCE THEN tlv.id ELSE uri.instance,
                resource |-> IF tlv.type = MULTIPLE_RESOURCE THEN tlv.id ELSE IOWA_LWM2M_ID_ALL,
                resInstance |-> IOWA_LWM2M_ID_ALL]
  IN  IF buffer = <<>> \/ tlv = NULL THEN <<>>
      ELSE (IF HoldsTlvs(tlv) THEN prv_tlvToLwm2mData(under, tlv.value) ELSE <<Datum(uri, tlv)>>)
             \o prv_tlvToLwm2mData(uri, From(buffer, tlv.next))

tlvDeserialize(uri, buffer) ==
  IF \/ dataUtilsGetUriDepth(uri) = 0
     \/ prv_checkFormatAndGetDataCount(uri, UNKNOWN, buffer) \in {0, NULL}
  THEN [code |-> BAD_REQUEST, data |-> <<>>]
  ELSE [code |-> NO_ERROR, data |-> prv_tlvToLwm2mData(uri, buffer)]

-----------------------------------------------------------------------------
(* Types                                                                   *)

\* What is read for the type the Object expects, NULL if it is not that type.
Unsigned(octets) == FoldLeft(LAMBDA n, o : n * NumberSpan + o, 0, octets)
TwosComplement(octets) ==
  IF octets[1] * 2 >= NumberSpan THEN Unsigned(octets) - NumberSpan^Len(octets) ELSE Unsigned(octets)

OctetsToInteger(octets, type) ==
  IF Len(octets) \notin {1, 2, 4, 8} THEN NULL
  ELSE IF Len(octets) \in {2, 4} /\ type = "UNSIGNED_INTEGER" THEN Unsigned(octets)
  ELSE TwosComplement(octets)

NotNegative(n, type) == IF n # NULL /\ type = "UNSIGNED_INTEGER" /\ n < 0 THEN NULL ELSE n

OpaqueOf(octets, size) == IF size = 0 \/ Len(octets) # size THEN NULL ELSE octets

FromText(text, type) ==
  CASE type = "OPAQUE" ->
         IF text = <<>> THEN <<>>
         ELSE OpaqueOf(utils_b64Decode(text), utils_b64GetDecodedSize(text))
    [] IsInteger(type) -> NotNegative(dataUtilsBufferToInt(text), type)
    [] type = "FLOAT" -> dataUtilsBufferToFloat(text)
    [] type = "BOOLEAN" -> CASE text = <<"0">> -> FALSE [] text = <<"1">> -> TRUE [] OTHER -> NULL
    [] type = "CORE_LINK" -> text
    [] type = "OBJECT_LINK" -> dataUtilsBufferToObjectLink(text)

FromOctets(octets, type) ==
  CASE IsBuffer(type) -> octets
    [] IsInteger(type) -> NotNegative(OctetsToInteger(octets, type), type)
    [] type = "FLOAT" -> IF Len(octets) \in {4, 8} THEN octets[1] ELSE NULL
    [] type = "BOOLEAN" -> CASE octets = <<0>> -> FALSE [] octets = <<1>> -> TRUE [] OTHER -> NULL
    [] type = "OBJECT_LINK" ->
         IF Len(octets) = 4 THEN <<octets[1] * 256 + octets[2], octets[3] * 256 + octets[4]>> ELSE NULL

\* One datum, once it has the type its resource is expected to have.
Consolidated(datum, format, expected) ==
  LET type == expected[<<datum.object, datum.resource>>]
      typed(value) == IF value = NULL THEN NULL ELSE [datum EXCEPT !.type = type, !.value = value]
  IN  CASE datum.type = type -> datum
        [] type = "UNDEFINED" -> IF format = "OPAQUE" THEN datum ELSE [datum EXCEPT !.type = "UNDEFINED"]
        [] datum.type = "STRING" -> typed(FromText(datum.value, type))
        [] datum.type = "UNDEFINED" -> typed(FromOctets(datum.value, type))
        [] OTHER -> NULL

AllOrNone(data, typed) ==
  IF NULL \in Range(typed) THEN [code |-> NOT_ACCEPTABLE, data |-> data] ELSE [code |-> NO_ERROR, data |-> typed]

dataLwm2mConsolidate(data, format, expected) ==
  AllOrNone(data, [i \in DOMAIN data |->
                     IF data[i].resource = IOWA_LWM2M_ID_ALL THEN NULL ELSE Consolidated(data[i], format, expected)])

-----------------------------------------------------------------------------
(* Payloads                                                                *)

TlvFormats == {"TLV", "TLV_OLD"}
LWM2M_DEFAULT_CONTENT_FORMAT == "TLV"

\* The format that is used for the one that is asked for.
UsedFormat(uri, data, format) ==
  IF \/ format \in TlvFormats
     \/ /\ format \in {"TEXT", "OPAQUE"}
        /\ Len(data) = 1
        /\ data[1].resource # IOWA_LWM2M_ID_ALL
        /\ format = "OPAQUE" => data[1].type = "OPAQUE"
        /\ ~(data[1].resInstance # IOWA_LWM2M_ID_ALL /\ uri.resInstance = IOWA_LWM2M_ID_ALL)
  THEN format
  ELSE LWM2M_DEFAULT_CONTENT_FORMAT

SerializedAs(used, uri, data) ==
  [format |-> used] @@ CASE used = "TEXT" -> textSerialize(data[1])
                         [] used = "OPAQUE" -> opaqueSerialize(data[1])
                         [] OTHER -> tlvSerialize(uri, data)

dataLwm2mSerialize(uri, data, format) ==
  IF data = <<>> THEN [code |-> NO_ERROR, buffer |-> <<>>, format |-> format]
  ELSE SerializedAs(UsedFormat(uri, data, format), uri, data)

\* Sorted by Object and Object Instance, those that are equal in the order they came.
Precedes(a, b) == a.object < b.object \/ (a.object = b.object /\ a.instance <= b.instance)

prv_dataInsertionSortSmallToLarge(data) ==
  FoldLeft(LAMBDA sorted, d :
             LET before == {i \in DOMAIN sorted : Precedes(sorted[i], d)}
                 at == IF before = {} THEN 1 ELSE Max(before) + 1
             IN  InsertAt(sorted, at, d),
           <<>>, data)

Deserialized(uri, buffer, format) ==
  CASE format = "TEXT" -> textDeserialize(uri, buffer)
    [] format = "OPAQUE" -> opaqueDeserialize(uri, buffer)
    [] format \in TlvFormats -> tlvDeserialize(uri, buffer)
    [] OTHER -> [code |-> UNSUPPORTED_CONTENT_FORMAT, data |-> <<>>]

Typed(read, format, expected) ==
  IF read.code = NO_ERROR THEN dataLwm2mConsolidate(read.data, format, expected) ELSE read

dataLwm2mDeserialize(uri, buffer, format, expected) ==
  [Typed(Deserialized(uri, buffer, format), format, expected) EXCEPT
     !.data = prv_dataInsertionSortSmallToLarge(@)]

=============================================================================
