---------------------------- MODULE ServerRequest ----------------------------
(***************************************************************************)
(* The path and the query of a registration and of its update, and the     *)
(* location the Server gives (lwm2m/iowa_registration.c,                   *)
(* iowa_coap_path_to_option, utils_bindingToString).                       *)
(*                                                                         *)
(* A server is a record: the path and the query of its URI, NULL for none, *)
(* its lifetime and its binding, a set of letters; name is the endpoint's. *)
(***************************************************************************)
EXTENDS DataText, CoapUri, CoapMessage

IOWA_COAP_OPTION_LOCATION == 8
IOWA_COAP_OPTION_PATH == 11
IOWA_COAP_OPTION_QUERY == 15
PRV_LINK_URI_SEPARATOR == "/"
QUERY_DELIMITER == "&"

QUERY_LIFETIME == <<"l", "t", "=">>
QUERY_VERSION == <<"&", "l", "w", "m", "2", "m", "=">>
LWM2M_VERSION_1_0 == <<"1", ".", "0">>
QUERY_NAME == <<"&", "e", "p", "=">>
QUERY_BINDING == <<"b", "=">>
QUERY_LIFETIME_MAX_LEN == 10
QUERY_BINDING_MAX_LEN == 5

\* The letters of the transports the code is built with, in their order: only UDP.
utils_bindingToString(binding) ==
  (IF "U" \in binding THEN <<"U">> ELSE <<>>) \o (IF "Q" \in binding THEN <<"Q">> ELSE <<>>)

IsDefault(binding) == binding = {"U"}

prv_getRegistrationQuery(server, name) ==
  QUERY_LIFETIME \o Decimal(server.lifetime) \o QUERY_VERSION \o LWM2M_VERSION_1_0
    \o (IF name = NULL THEN <<>> ELSE QUERY_NAME \o name)
    \o (IF IsDefault(server.binding) \/ utils_bindingToString(server.binding) = <<>> THEN <<>>
        ELSE <<QUERY_DELIMITER>> \o QUERY_BINDING \o utils_bindingToString(server.binding))

\* The length of the buffer of the query, with the octet that ends it.
RegistrationQueryLength(server, name) ==
  Len(QUERY_LIFETIME) + dataUtilsIntToBufferLength(server.lifetime) + 1 + Len(QUERY_VERSION) + Len(LWM2M_VERSION_1_0)
    + (IF name = NULL THEN 0 ELSE Len(QUERY_NAME) + Len(name))
    + (IF IsDefault(server.binding) THEN 0
       ELSE 1 + Len(QUERY_BINDING) + Len(utils_bindingToString(server.binding)))

\* What changed is said again.
UpdateQuery(server, update) ==
  LET lifetime == IF "lifetime" \in update THEN QUERY_LIFETIME \o Decimal(server.lifetime) ELSE <<>>
      binding == IF "binding" \in update THEN QUERY_BINDING \o utils_bindingToString(server.binding) ELSE <<>>
  IN  lifetime \o (IF lifetime # <<>> /\ binding # <<>> THEN <<QUERY_DELIMITER>> ELSE <<>>) \o binding

UpdateQueryLength(update) ==
  LET lifetime == IF "lifetime" \in update THEN Len(QUERY_LIFETIME) + QUERY_LIFETIME_MAX_LEN ELSE 0
      binding == IF "binding" \in update THEN Len(QUERY_BINDING) + QUERY_BINDING_MAX_LEN ELSE 0
  IN  lifetime + binding + (IF lifetime # 0 /\ binding # 0 THEN 1 ELSE 0) + 1

\* The location of a registration, from the options of the reply.
Location(options) ==
  FoldLeft(LAMBDA text, o : IF Number(o) # IOWA_COAP_OPTION_LOCATION THEN text
                            ELSE Append(text, PRV_LINK_URI_SEPARATOR) \o Value(o),
           <<>>, options)

-----------------------------------------------------------------------------
(* Paths as options                                                        *)

\* Mutant: the delimiter stays in the segment.
RECURSIVE PathSegments_KeepsDelimiter(_, _)
PathSegments_KeepsDelimiter(path, delimiter) ==
  LET next == Offset(path, delimiter, 2)
  IN  IF next = NULL THEN <<path>>
      ELSE <<SubSeq(path, 1, next - 1)>> \o PathSegments_KeepsDelimiter(From(path, next), delimiter)

\* One segment per delimiter; the one a path begins with has nothing before it.
RECURSIVE PathSegments(_, _)
PathSegments(path, delimiter) ==
  LET from == IF path # <<>> /\ path[1] = delimiter THEN 2 ELSE 1
      next == Offset(path, delimiter, from)
  IN  IF next = NULL THEN <<From(path, from)>>
      ELSE <<SubSeq(path, from, next - 1)>> \o PathSegments(From(path, next), delimiter)

iowa_coap_path_to_option(number, path, delimiter) ==
  LET segments == PathSegments(path, delimiter)
  IN  [i \in DOMAIN segments |-> <<number, segments[i]>>]

Given(number, path, delimiter) ==
  IF path = NULL THEN <<>> ELSE iowa_coap_path_to_option(number, path, delimiter)

\* The options of prv_register, as they are added.
RegistrationOptions(server, name) ==
  FoldLeft(iowa_coap_message_add_option, <<>>,
           <<Given(IOWA_COAP_OPTION_PATH, server.path, PRV_LINK_URI_SEPARATOR),
             Given(IOWA_COAP_OPTION_PATH, <<"r", "d">>, PRV_LINK_URI_SEPARATOR),
             Given(IOWA_COAP_OPTION_QUERY, server.query, QUERY_DELIMITER),
             Given(IOWA_COAP_OPTION_QUERY, prv_getRegistrationQuery(server, name), QUERY_DELIMITER),
             <<<<12, 40>>>>>>)

\* Those of prv_updateRegistration, at the location the Server gave.
UpdateOptions(server, update, location) ==
  LET query == UpdateQuery(server, update)
  IN  FoldLeft(iowa_coap_message_add_option, <<>>,
               <<Given(IOWA_COAP_OPTION_PATH, location, PRV_LINK_URI_SEPARATOR),
                 Given(IOWA_COAP_OPTION_QUERY, IF query = <<>> THEN NULL ELSE query, QUERY_DELIMITER)>>)

=============================================================================
