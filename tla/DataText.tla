------------------------------ MODULE DataText ------------------------------
(***************************************************************************)
(* Numbers, links, paths and octets as text (data/iowa_data_utils.c,       *)
(* data/iowa_text_opaque.c, the Base64 functions of misc/iowa_utils.c).    *)
(*                                                                         *)
(* A text is a sequence of characters.  A conversion to text is given the  *)
(* room there is and returns the empty text, length 0, when it fails.      *)
(* A floating-point number is its sign, its integer part and its decimals, *)
(* without trailing zeros: the rounding of the decimals to FLT_EPSILON is  *)
(* left out.  INT64_MIN, whose negation is undefined, is left out too.     *)
(***************************************************************************)
EXTENDS Integers, Sequences, SequencesExt, Status

CONSTANT NumberSpan   \* the values of an octet of a number: 256, less for TLC

IOWA_LWM2M_ID_ALL == 65535
PRV_STR_LENGTH == 32
PRV_OBJECT_LINK_TEXT_MAX_LEN == 11

UINT64 == NumberSpan^8
INT64_MAX == NumberSpan^8 \div 2 - 1

-----------------------------------------------------------------------------
(* Numbers                                                                 *)

Digits == <<"0", "1", "2", "3", "4", "5", "6", "7", "8", "9">>
IsDigit(c) == c \in Range(Digits)
DigitValue(c) == (CHOOSE d \in 1..10 : Digits[d] = c) - 1

LeadingDigits(text) ==
  LET others == {i \in DOMAIN text : ~IsDigit(text[i])}
  IN  IF others = {} THEN Len(text) ELSE Min(others) - 1

\* The digits a text begins with: how many are read, none on an overflow that shows.
\* The sum wraps, and a wrap that leaves it above the last digit does not show.
WithDigit(sum, c) ==
  LET next == (sum.value * 10 + DigitValue(c)) % UINT64
  IN  [value |-> next, wrapped |-> sum.wrapped \/ next < DigitValue(c)]

NumberPart(read, sum) ==
  IF sum.wrapped \/ sum.value > INT64_MAX
  THEN [read |-> 0, value |-> 0] ELSE [read |-> read, value |-> sum.value]

prv_partBufferToInt(text) ==
  NumberPart(LeadingDigits(text),
             FoldLeft(WithDigit, [value |-> 0, wrapped |-> FALSE], SubSeq(text, 1, LeadingDigits(text))))

\* The sign and where the digits begin, sign 0 if the text begins with neither.
prv_getSignFromBufferToNumber(text) ==
  CASE IsDigit(text[1]) -> [sign |-> 1, next |-> 1]
    [] text[1] = "-" -> [sign |-> -1, next |-> 2]
    [] text[1] = "+" -> [sign |-> 1, next |-> 2]
    [] OTHER -> [sign |-> 0, next |-> 1]

From(text, i) == SubSeq(text, i, Len(text))

\* A sign without digits is read as 0.
SignedPart(sign, part, length) == IF sign = 0 \/ part.read # length THEN NULL ELSE sign * part.value

dataUtilsBufferToInt(text) ==
  IF text = <<>> THEN NULL
  ELSE LET head == prv_getSignFromBufferToNumber(text)
           digits == From(text, head.next)
       IN  SignedPart(head.sign, prv_partBufferToInt(digits), Len(digits))

RECURSIVE Decimal(_)
Decimal(n) == IF n < 10 THEN <<Digits[n + 1]>> ELSE Append(Decimal(n \div 10), Digits[(n % 10) + 1])

Magnitude(n) == IF n < 0 THEN -n ELSE n

prv_intToBuffer(n, length) ==
  LET text == (IF n < 0 THEN <<"-">> ELSE <<>>) \o Decimal(Magnitude(n))
  IN  IF Len(text) > length THEN <<>> ELSE text

RECURSIVE DigitCount(_)
DigitCount(n) == IF n = 0 THEN 0 ELSE 1 + DigitCount(n \div 10)

prv_intToBufferLength(n) ==
  IF n = 0 THEN 1 ELSE DigitCount(Magnitude(n)) + (IF n < 0 THEN 1 ELSE 0)

\* No caller of this edition asks for an exponent.
dataUtilsIntToBuffer(n, length) == prv_intToBuffer(n, length)
dataUtilsIntToBufferLength(n) == prv_intToBufferLength(n)

-----------------------------------------------------------------------------
(* Floating-point numbers                                                  *)

RECURSIVE WithoutZeros(_)
WithoutZeros(decimals) ==
  IF decimals # <<>> /\ Last(decimals) = "0" THEN WithoutZeros(Front(decimals)) ELSE decimals

Float(negative, whole, decimals) ==
  LET kept == WithoutZeros(decimals)
  IN  [negative |-> negative /\ (whole # 0 \/ kept # <<>>), whole |-> whole, decimals |-> kept]

\* dataUtilsPower: a factor of ten moves the point.
RECURSIVE Scaled(_, _)
Scaled(x, power) ==
  CASE power = 0 -> x
    [] power > 0 ->
         Scaled(Float(x.negative,
                      x.whole * 10 + (IF x.decimals = <<>> THEN 0 ELSE DigitValue(Head(x.decimals))),
                      From(x.decimals, 2)), power - 1)
    [] OTHER -> Scaled(Float(x.negative, x.whole \div 10, <<Digits[(x.whole % 10) + 1]>> \o x.decimals), power + 1)

SignAt(text, at) ==
  LET sign == IF at > Len(text) THEN [sign |-> 0, next |-> 1] ELSE prv_getSignFromBufferToNumber(From(text, at))
  IN  [value |-> sign.sign, next |-> at - 1 + sign.next]

DigitsAt(text, at) ==
  LET digits == prv_partBufferToInt(From(text, at))
  IN  [ok |-> digits.read # 0, value |-> digits.value, next |-> at + digits.read]

FractionAt(text, at) ==
  IF at > Len(text) \/ text[at] # "." THEN [ok |-> TRUE, decimals |-> <<>>, next |-> at]
  ELSE LET digits == DigitsAt(text, at + 1)
       IN  [ok |-> digits.ok, decimals |-> SubSeq(text, at + 1, digits.next - 1), next |-> digits.next]

\* The sign of an exponent is read past the end of a text that ends with its mark; the
\* digits it lacks refuse it whatever is there.
ExponentAt(text, at) ==
  IF at > Len(text) \/ text[at] \notin {"e", "E"} THEN [ok |-> TRUE, power |-> 0, next |-> at]
  ELSE LET sign == SignAt(text, at + 1)
           digits == DigitsAt(text, sign.next)
       IN  [ok |-> sign.value # 0 /\ digits.ok, power |-> sign.value * digits.value, next |-> digits.next]

\* Each part needs a digit.
dataUtilsBufferToFloat(text) ==
  LET sign == SignAt(text, 1)
      whole == DigitsAt(text, sign.next)
      fraction == FractionAt(text, whole.next)
      exponent == ExponentAt(text, fraction.next)
  IN  IF /\ sign.value # 0 /\ whole.ok /\ fraction.ok /\ exponent.ok
         /\ exponent.next = Len(text) + 1
      THEN Scaled(Float(sign.value = -1, whole.value, fraction.decimals), exponent.power)
      ELSE NULL

IsSmallNegative(x) == x.negative /\ x.whole = 0
Signed(x) == IF x.negative THEN -x.whole ELSE x.whole

dataUtilsFloatToBufferLength(x) ==
  IF x.whole > INT64_MAX THEN 0
  ELSE (IF IsSmallNegative(x) THEN 2 ELSE dataUtilsIntToBufferLength(Signed(x)))
         + (IF x.decimals = <<>> THEN 0 ELSE 1 + Len(x.decimals))

dataUtilsFloatToBuffer(x, length) ==
  LET whole == IF IsSmallNegative(x) THEN <<"-", "0">> ELSE dataUtilsIntToBuffer(Signed(x), length)
  IN  IF \/ x.whole > INT64_MAX
         \/ IsSmallNegative(x) /\ length < 4
         \/ whole = <<>>
         \/ x.decimals # <<>> /\ (Len(whole) >= length - 1 \/ Len(whole) + 1 + Len(x.decimals) > length)
      THEN <<>>
      ELSE IF x.decimals = <<>> THEN whole ELSE whole \o <<".">> \o x.decimals

-----------------------------------------------------------------------------
(* Object links and paths                                                  *)

IsLinkId(n) == n # NULL /\ n \in 0..65535
ObjectLink(object, instance) == IF IsLinkId(object) /\ IsLinkId(instance) THEN <<object, instance>> ELSE NULL

dataUtilsBufferToObjectLink(text) ==
  LET at == {i \in DOMAIN text : text[i] = ":"}
      colon == Min(at)
  IN  IF at = {} THEN NULL
      ELSE IF colon = Len(text) THEN NULL
      ELSE ObjectLink(dataUtilsBufferToInt(SubSeq(text, 1, colon - 1)), dataUtilsBufferToInt(From(text, colon + 1)))

dataUtilsObjectLinkToBuffer(link, length) ==
  LET object == prv_intToBuffer(link[1], length)
      instance == prv_intToBuffer(link[2], length - Len(object) - 1)
  IN  IF object = <<>> \/ instance = <<>> THEN <<>> ELSE object \o <<":">> \o instance

\* The levels of a URI that are set, from the Object down.
Ids(uri) == <<uri.object, uri.instance, uri.resource, uri.resInstance>>

dataUtilsGetUriDepth(uri) ==
  LET unset == {i \in 1..4 : Ids(uri)[i] = IOWA_LWM2M_ID_ALL}
  IN  IF unset = {} THEN 4 ELSE Min(unset) - 1

dataUtilsIsInBaseUri(datum, uri, depth) == \A i \in 1..depth : Ids(datum)[i] = Ids(uri)[i]

\* Each level needs an octet of room after it.
RECURSIVE PathOf(_, _)
PathOf(ids, length) ==
  IF ids = <<>> THEN <<>>
  ELSE LET level == prv_intToBuffer(Head(ids), length - 1)
           below == PathOf(Tail(ids), length - 1 - Len(level))
       IN  IF level = <<>> \/ 1 + Len(level) >= length \/ (Len(ids) > 1 /\ below = <<>>) THEN <<>>
           ELSE <<"/">> \o level \o below

dataUtilsUriToBuffer(uri, length) ==
  IF dataUtilsGetUriDepth(uri) = 0 THEN <<"/">>
  ELSE PathOf(SubSeq(Ids(uri), 1, dataUtilsGetUriDepth(uri)), length)

dataUtilsUriToBufferLength(uri) ==
  IF dataUtilsGetUriDepth(uri) = 0 THEN 1
  ELSE FoldLeft(LAMBDA n, id : n + dataUtilsIntToBufferLength(id) + 1, 0,
                SubSeq(Ids(uri), 1, dataUtilsGetUriDepth(uri)))

-----------------------------------------------------------------------------
(* Base64                                                                  *)

b64ClassicAlphabet ==
  <<"A","B","C","D","E","F","G","H","I","J","K","L","M","N","O","P",
    "Q","R","S","T","U","V","W","X","Y","Z","a","b","c","d","e","f",
    "g","h","i","j","k","l","m","n","o","p","q","r","s","t","u","v",
    "w","x","y","z","0","1","2","3","4","5","6","7","8","9","+","/">>
BASE64_PADDING == "="

prv_b64Revert(c) ==
  IF c \in Range(b64ClassicAlphabet) THEN (CHOOSE i \in 1..64 : b64ClassicAlphabet[i] = c) - 1 ELSE NULL

iowa_utils_base64_get_encoded_size(n) == 4 * (n \div 3) + (IF n % 3 # 0 THEN 4 ELSE 0)

\* Three octets as four characters, what is missing of them as padding.
Group(raw) ==
  LET octet(i) == IF i <= Len(raw) THEN raw[i] ELSE 0
      c(n) == b64ClassicAlphabet[n + 1]
  IN  <<c(octet(1) \div 4),
        c(((octet(1) % 4) * 16) + (octet(2) \div 16)),
        IF Len(raw) = 1 THEN BASE64_PADDING ELSE c(((octet(2) % 16) * 4) + (octet(3) \div 64)),
        IF Len(raw) <= 2 THEN BASE64_PADDING ELSE c(octet(3) % 64)>>

RECURSIVE utils_b64Encode(_)
utils_b64Encode(raw) ==
  IF raw = <<>> THEN <<>>
  ELSE IF Len(raw) <= 3 THEN Group(raw)
  ELSE Group(SubSeq(raw, 1, 3)) \o utils_b64Encode(From(raw, 4))

\* As many octets as whole ones are in the characters of a group.
Octets(t) ==
  SubSeq(<<((t[1] * 4) % 256) + (IF Len(t) > 1 THEN t[2] \div 16 ELSE 0),
           IF Len(t) > 2 THEN ((t[2] * 16) % 256) + (t[3] \div 4) ELSE 0,
           IF Len(t) > 3 THEN ((t[3] * 64) % 256) + t[4] ELSE 0>>, 1, Len(t) - 1)

RECURSIVE DecodeGroups(_)
DecodeGroups(t) ==
  IF Len(t) <= 4 THEN (IF t = <<>> THEN <<>> ELSE Octets(t))
  ELSE Octets(SubSeq(t, 1, 4)) \o DecodeGroups(From(t, 5))

utils_b64Decode(text) ==
  LET characters == {i \in DOMAIN text : text[i] # BASE64_PADDING}
      end == IF characters = {} THEN 0 ELSE Max(characters)
      values == [i \in 1..end |-> prv_b64Revert(text[i])]
  IN  IF Len(text) % 4 # 0 \/ Len(text) - end > 2 \/ end % 4 = 1 \/ NULL \in Range(values) THEN <<>>
      ELSE DecodeGroups(values)

utils_b64GetDecodedSize(text) ==
  LET padded(i) == IF text[Len(text) - i] = BASE64_PADDING THEN 1 ELSE 0
  IN  IF Len(text) % 4 # 0 \/ padded(2) = 1 THEN 0
      ELSE (Len(text) \div 4) * 3 - padded(0) - padded(1)

-----------------------------------------------------------------------------
(* One value as a payload                                                  *)

Serialized(buffer) == [code |-> NO_ERROR, buffer |-> buffer]
NotSerialized(code) == [code |-> code, buffer |-> <<>>]

textSerialize(datum) ==
  LET filled(text) == IF text = <<>> THEN NotSerialized(INTERNAL_ERROR) ELSE Serialized(text)
  IN  CASE datum.type \in {"STRING", "CORE_LINK"} -> Serialized(datum.value)
        [] datum.type = "OPAQUE" -> Serialized(utils_b64Encode(datum.value))
        [] datum.type = "UNSIGNED_INTEGER" /\ datum.value < 0 -> NotSerialized(INTERNAL_ERROR)
        [] datum.type \in {"INTEGER", "TIME", "UNSIGNED_INTEGER"} ->
             filled(dataUtilsIntToBuffer(datum.value, PRV_STR_LENGTH))
        [] datum.type = "FLOAT" -> filled(dataUtilsFloatToBuffer(datum.value, PRV_STR_LENGTH * 2))
        [] datum.type = "BOOLEAN" -> Serialized(<<IF datum.value THEN "1" ELSE "0">>)
        [] datum.type = "OBJECT_LINK" ->
             filled(dataUtilsObjectLinkToBuffer(datum.value, PRV_OBJECT_LINK_TEXT_MAX_LEN))
        [] OTHER -> NotSerialized(BAD_REQUEST)

opaqueSerialize(datum) ==
  IF datum.type \in {"UNDEFINED", "OPAQUE"} THEN Serialized(datum.value) ELSE NotSerialized(NOT_ACCEPTABLE)

\* The whole payload is the value of the one resource the URI names.
prv_commonDeserialize(uri, buffer, type) ==
  IF uri.resource = IOWA_LWM2M_ID_ALL THEN [code |-> NOT_ACCEPTABLE, data |-> <<>>]
  ELSE [code |-> NO_ERROR,
        data |-> <<[object |-> uri.object, instance |-> uri.instance, resource |-> uri.resource,
                    resInstance |-> uri.resInstance, type |-> type, value |-> buffer]>>]

textDeserialize(uri, buffer) == prv_commonDeserialize(uri, buffer, "STRING")
opaqueDeserialize(uri, buffer) == prv_commonDeserialize(uri, buffer, "OPAQUE")

=============================================================================
