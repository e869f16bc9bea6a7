------------------------------ MODULE MCCodec ------------------------------
(* What is sent and read, at the limits of the lengths and of the widths. *)
EXTENDS Codec

ALL == IOWA_LWM2M_ID_ALL
U(i, r) == [object |-> 3, instance |-> i, resource |-> r, resInstance |-> ALL]
D(i, r, ri, v) == [object |-> 3, instance |-> i, resource |-> r, resInstance |-> ri,
                   type |-> Expected[<<3, r>>], value |-> v]
Times(n, c) == [i \in 1..n |-> c]

MCExpected ==
  LET types == <<"STRING", "INTEGER", "UNSIGNED_INTEGER", "FLOAT", "BOOLEAN", "OPAQUE", "OBJECT_LINK", "CORE_LINK", "TIME">>
      type(r) == CASE r = 300 -> "STRING" [] r = 9 -> "INTEGER" [] OTHER -> types[r + 1]
  IN  [k \in {<<3, r>> : r \in (0..9) \cup {300}} |-> type(k[2])]

Values ==
  ({<<0, Times(n, "a")>> : n \in {0, 1, 7, 8, 256}})
    \cup {<<r, n>> : r \in {1, 8}, n \in {0, 3, 4, -4, -5, 31, 32, -33, 2047, 2048, -2049, 8388607}}
    \cup {<<2, n>> : n \in {0, 3, 4, 7, 31, 32, 2048}}
    \cup {<<3, Float(s, w, d)>> : s \in BOOLEAN, w \in {0, 12, 50, 60}, d \in {<<>>, <<"5">>, <<"0", "5">>, <<"8", "7">>}}
    \cup {<<4, TRUE>>, <<4, FALSE>>, <<6, <<0, 65535>>>>, <<6, <<255, 256>>>>, <<7, <<"<", "/", ">">>>>}
    \cup {<<5, Times(n, 251)>> : n \in 0..4} \cup {<<300, <<"b">>>>}

Single == {[uri |-> U(0, v[1]), data |-> <<D(0, v[1], ALL, v[2])>>, format |-> f, named |-> n] :
             v \in Values, f \in {"TEXT", "OPAQUE", "TLV", "TLV_OLD"}, n \in BOOLEAN}

A == D(0, 0, ALL, <<"a">>)
B(i, ri) == D(i, 9, ri, 5)
Multiple ==
  {[uri |-> U(0, 9), data |-> <<B(0, 0), B(0, 1)>>, format |-> f, named |-> FALSE] : f \in {"TEXT", "TLV"}} \cup
  {[uri |-> U(0, ALL), data |-> d, format |-> "TLV", named |-> FALSE] :
     d \in {<<A, B(0, 0)>>, <<B(0, 0), B(0, 300), D(0, 4, ALL, TRUE)>>, <<A, B(0, 1), B(0, 2)>>}} \cup
  {[uri |-> U(ALL, ALL), data |-> d, format |-> "TLV", named |-> FALSE] :
     d \in {<<A, D(1, 0, ALL, <<"b">>)>>, <<B(0, 0), A, B(1, 0), B(1, 1)>>, <<B(0, 0), B(0, 1), B(1, 0)>>,
            <<A, D(256, 0, ALL, Times(10, "c")), B(256, 2)>>}}

Plain == [type |-> CONFIRMABLE, code |-> 3, id |-> 258, token |-> <<1, 255>>, options |-> <<>>]
Chains ==
  {<<>>, <<<<6, 0>>>>, <<<<17, 40>>, <<6, 1>>>>, <<<<15, <<"a">>>>, <<15, <<"b">>>>>>,
   <<<<258, 0>>, <<14, 65536>>>>, <<<<2000, Times(12, 111)>>>>, <<<<281, Times(13, 111)>>, <<600, Times(13, 111)>>, <<900, Times(14, 111)>>>>,
   <<<<280, Times(268, 111)>>>>, <<<<280, Times(269, 111)>>>>, <<<<14, 256>>, <<60, 255>>, <<28, 65535>>>>}
Headers == {[Plain EXCEPT !.options = o, !.token = t, !.type = y] :
              o \in Chains, t \in {<<>>, Times(8, 7)}, y \in {CONFIRMABLE, NON_CONFIRMABLE}}

MCExchanges ==
  {Plain @@ p : p \in Single \cup Multiple} \cup
  {h @@ [uri |-> u, data |-> <<>>, format |-> "TLV", named |-> FALSE] : h \in Headers, u \in {U(0, 9), U(ALL, ALL), Root}}

Upto(n, set) == UNION {[1..k -> set] : k \in 0..n}

MCDatagrams ==
  {<<h, 1, 0, 7>> \o t : h \in {64, 65, 80, 137}, t \in Upto(3, {0, 1, 13, 96, 97, 208, 209, 224, 240, 255})}
    \cup {<<64, 1, 0, 7>> \o t : t \in Upto(4, {224, 254, 242, 16, 1})}
    \cup Upto(4, {64, 72, 1})

MCPayloads ==
  {[uri |-> u, octets |-> o] : u \in {U(ALL, ALL), U(0, ALL), U(0, 6)},
                               o \in Upto(5, {0, 3, 6, 65, 131, 193}) \cup
                                     {<<5, 0, 131, 6, 65, 0, 9>>, <<5, 1, 131, 6, 65, 0, 9>>,
                                      <<5, 0, 131, 6, 193, 0, 9>>, <<3, 0, 193, 6, 9, 3, 1, 193, 6, 9>>,
                                      <<131, 6, 65, 0, 9, 193, 6, 9>>, <<131, 6, 65, 0, 9, 65, 1, 9>>}}

MCNumbers ==
  {t \in Upto(4, {"0", "1", "-", "+", ".", "e"}) :
     ~\E i \in 1..(Len(t) - 2) : t[i] = "e" /\ t[i + 1] = "1" /\ IsDigit(t[i + 2])}
    \cup {Decimal(n) : n \in {8388606, 8388607, 8388608, 9999999, 16777215, 16777216, 16777220}}

Link(ids, attributes) == [uri |-> Uri(ids), attributes |-> attributes]
MCLinkLists ==
  LET root == Link(<<ALL, ALL, ALL>>, <<<<"VERSION", <<"1", ".", "0">>>>>>)
      security == Link(<<0, 0, ALL>>, <<>>)
      server == Link(<<1, 0, ALL>>, <<<<"SSID", 123>>, <<"URI", <<"q", "u", "q">>>>>>)
      device == Link(<<3, ALL, ALL>>, <<<<"OBJECT_VERSION", <<"2">>>>, <<"PERIOD_MINIMUM", 10>>, <<"DIMENSION", 0>>>>)
      sensor(x) == Link(<<3303, 0, 5700>>, <<<<"LESS_THAN", x>>, <<"STEP", Float(FALSE, 1, <<>>)>>>>)
      floats == {Float(s, w, d) : s \in BOOLEAN, w \in {0, 10}, d \in {<<>>, <<"5">>, <<"2", "5">>}}
  IN  {<<root>>, <<server>>, <<root, security, server>>, <<device, security>>, <<security, device, server, device>>}
        \cup {<<sensor(x)>> : x \in floats} \cup {<<root, server, sensor(x), device>> : x \in floats}

MCServers ==
  {[scheme |-> s, host |-> h, port |-> p, path |-> a, query |-> q] :
     s \in {"coap", "coaps", "coapws", "coapsws", "coaptcp", "sms"},
     h \in {<<"h">>, <<"[", ":", ":", "1", "]">>},
     p \in {NULL, <<"1">>, <<"5", "6">>}, a \in {NULL, <<"/">>, <<"/", "p", "/", "r">>}, q \in {NULL, <<"q">>}}

MCRegistrations ==
  {[server |-> [path |-> p, query |-> q, lifetime |-> n, binding |-> b], name |-> m, update |-> u, location |-> l] :
     p \in {NULL, <<"/", "p">>, <<"/", "p", "/", "q">>}, q \in {NULL, <<"a">>, <<"a", "&", "b", "=">>},
     n \in {0, 10, 8388607}, b \in {{"U"}, {"U", "Q"}}, m \in {NULL, <<"e">>},
     u \in SUBSET {"lifetime", "binding", "objects"},
     l \in {<<<<>>>>, <<<<"r", "d">>, <<"5">>>>, <<<<"r">>, <<>>>>, <<<<>>, <<>>, <<"x">>>>}}

=============================================================================
