--------------------------- MODULE ObserveProofs ---------------------------
(***************************************************************************)
(* Proofs about Observe, for any servers, tokens, Instances, values,       *)
(* queries, periods and faults: what an observation keeps agrees with what *)
(* its Server wrote and was told, no pmax passes while select sleeps, and  *)
(* what is told is due.                                                    *)
(***************************************************************************)
EXTENDS Observe, ListProofs

-----------------------------------------------------------------------------
(* The inductive invariant                                                 *)

\* Attributes with their values: only a threshold may be negative.
AttributeSet ==
  {f \in UNION {[D -> Int] : D \in SUBSET Attributes} :
     \A a \in DOMAIN f : a \notin {"gt", "lt"} => f[a] >= 0}

AttributesLists == UNION {[D -> AttributeSet] : D \in SUBSET Uri}

ObservedUri == [inst : Instance, res : {"value", ALL}]

Observation ==
  [token : Token, uri : ObservedUri, update : BOOLEAN, attributes : AttributeSet,
   age : 0..MaxAge, lastValue : Values \cup {NULL}, told : Values \cup {NULL}]

\* The value an observation keeps is the one its Server was told.
Kept(o) ==
  /\ o \in Observation /\ o.uri \in Targets[o.token]
  /\ o.uri.res # ALL /\ o.told # NULL => o.lastValue = o.told

\* An observation goes by the attributes observe_updateObserve finds in the list,
\* unless the list is ahead of it.
Good(o, list, ahead) ==
  Kept(o) /\ (ahead \/ o.attributes = observe_updateObserve(list, o).attributes)

UniqueTokens(observed) ==
  \A j, k \in DOMAIN observed : observed[j].token = observed[k].token => j = k

GoodList(observed, list, ahead) ==
  /\ observed \in Seq(Observation) /\ UniqueTokens(observed)
  /\ \A k \in DOMAIN observed : Good(observed[k], list, ahead)

\* What is left of the sleep ends before each pmax does.
InTime(o, left) == KeepsPmax(o) => o.age + left <= o.attributes["pmax"]

SleepInv ==
  timeout > 0 /\ AllReadable =>
    \A s \in Server : \A k \in DOMAIN observedList[s] : InTime(observedList[s][k], timeout)

ListsInv ==
  /\ observedList \in [Server -> Seq(Observation)]
  /\ attributesList \in [Server -> AttributesLists]
  /\ \A s \in Server : GoodList(observedList[s], attributesList[s], s \in stale)
  /\ registered \subseteq Server /\ stale \subseteq Server
  /\ \A s \in Server \ registered : DOMAIN observedList[s] = {} /\ DOMAIN attributesList[s] = {}

DataInv ==
  /\ instance \in [Instance -> {"there", "failing", "absent"}]
  /\ value \in [Instance -> Values]
  /\ insideCallback \in BOOLEAN
  /\ timeout \in (-MaxAge)..MaxSleep

ObserveInv == ListsInv /\ DataInv /\ SleepInv

-----------------------------------------------------------------------------
(* Attributes                                                              *)

\* Membership without the union.
LEMMA AttributeSetIs ==
  \A f : f \in AttributeSet <=>
    /\ f = [a \in DOMAIN f |-> f[a]] /\ DOMAIN f \subseteq Attributes
    /\ \A a \in DOMAIN f : f[a] \in Int /\ (a \notin {"gt", "lt"} => f[a] >= 0)
<1>1. ASSUME NEW f, f \in AttributeSet
      PROVE  /\ f = [a \in DOMAIN f |-> f[a]] /\ DOMAIN f \subseteq Attributes
             /\ \A a \in DOMAIN f : f[a] \in Int /\ (a \notin {"gt", "lt"} => f[a] >= 0)
  <2>1. PICK D \in SUBSET Attributes : f \in [D -> Int]
    BY <1>1 DEF AttributeSet
  <2> QED
    BY <1>1, <2>1 DEF AttributeSet
<1>2. ASSUME NEW f, f = [a \in DOMAIN f |-> f[a]], DOMAIN f \subseteq Attributes,
             \A a \in DOMAIN f : f[a] \in Int /\ (a \notin {"gt", "lt"} => f[a] >= 0)
      PROVE  f \in AttributeSet
  <2>1. f \in [DOMAIN f -> Int]
    BY <1>2
  <2>2. f \in UNION {[D -> Int] : D \in SUBSET Attributes}
    BY <1>2, <2>1
  <2> QED
    BY <1>2, <2>2 DEF AttributeSet
<1> QED
  BY <1>1, <1>2

\* A function of its own domain, given by its values.
LEMMA MakesAttributes ==
  ASSUME NEW D, NEW f, f = [a \in D |-> f[a]], D \subseteq Attributes,
         \A a \in D : f[a] \in Int /\ (a \notin {"gt", "lt"} => f[a] >= 0)
  PROVE  f \in AttributeSet
<1>1. DOMAIN f = D
  BY Zenon
<1> QED
  BY <1>1, AttributeSetIs

LEMMA InheritType ==
  ASSUME NEW near \in AttributeSet, NEW far \in AttributeSet
  PROVE  Inherit(near, far) \in AttributeSet
<1> DEFINE D == DOMAIN near \cup DOMAIN far
<1>1. PICK f : f = Inherit(near, far)
  OBVIOUS
<1>2. f = [a \in D |-> IF a \in DOMAIN near THEN near[a] ELSE far[a]]
  BY <1>1 DEF Inherit
<1>3. ASSUME NEW a \in D
      PROVE  \/ f[a] = near[a] /\ a \in DOMAIN near
             \/ f[a] = far[a] /\ a \in DOMAIN far
  <2>1. f[a] = IF a \in DOMAIN near THEN near[a] ELSE far[a]
    BY <1>2
  <2> QED
    BY <2>1
<1>4. f = [a \in D |-> f[a]] /\ D \subseteq Attributes
  BY <1>2, AttributeSetIs
<1>5. \A a \in D : f[a] \in Int /\ (a \notin {"gt", "lt"} => f[a] >= 0)
  BY <1>3, AttributeSetIs
<1> QED
  BY <1>1, <1>4, <1>5, MakesAttributes

LEMMA RestrictType ==
  ASSUME NEW set \in AttributeSet, NEW D, D \subseteq DOMAIN set
  PROVE  [a \in D |-> set[a]] \in AttributeSet
<1>1. PICK f : f = [a \in D |-> set[a]]
  OBVIOUS
<1>2. f = [a \in D |-> f[a]] /\ \A a \in D : f[a] = set[a]
  BY <1>1
<1>3. D \subseteq Attributes /\ \A a \in D : f[a] \in Int /\ (a \notin {"gt", "lt"} => f[a] >= 0)
  BY <1>2, AttributeSetIs
<1> QED
  BY <1>1, <1>2, <1>3, MakesAttributes

LEMMA OnlyType ==
  ASSUME NEW set \in AttributeSet, NEW names
  PROVE  Only(set, names) \in AttributeSet /\ Without(set, names) \in AttributeSet
  BY RestrictType DEF Only, Without

LEMMA NoAttributeType == NoAttribute \in AttributeSet
<1>1. NoAttribute = [a \in {} |-> NoAttribute[a]]
  BY DEF NoAttribute
<1> QED
  BY <1>1, MakesAttributes

\* What a list says of one URI.
Level(list, v) == IF v \in DOMAIN list THEN list[v] ELSE NoAttribute

LEMMA ListsAre ==
  ASSUME NEW list \in AttributesLists
  PROVE  /\ DOMAIN list \subseteq Uri
         /\ \A u \in DOMAIN list : list[u] \in AttributeSet
         /\ \A u : Level(list, u) \in AttributeSet
<1>1. PICK D \in SUBSET Uri : list \in [D -> AttributeSet]
  BY DEF AttributesLists
<1> QED
  BY <1>1, NoAttributeType DEF Level

LEMMA MakesList ==
  ASSUME NEW D \in SUBSET Uri, NEW list, list = [u \in D |-> list[u]],
         \A u \in D : list[u] \in AttributeSet
  PROVE  list \in AttributesLists
<1>1. list \in [D -> AttributeSet]
  OBVIOUS
<1> QED
  BY <1>1 DEF AttributesLists

\* What attributesGet finds before it looks at the periods.
Found(list, u) ==
  Inherit(IF u.res = ALL THEN NoAttribute ELSE Level(list, u),
          Inherit(Level(list, [u EXCEPT !.res = ALL]), Level(list, [inst |-> ALL, res |-> ALL])))

\* pmax is ignored below pmin.
Sensible(found) ==
  IF {"pmin", "pmax"} \subseteq DOMAIN found /\ found["pmax"] < found["pmin"]
  THEN Without(found, {"pmax"}) ELSE found

LEMMA GetIs == \A list, u : attributesGet(list, u) = Sensible(Found(list, u))
  BY DEF attributesGet, Sensible, Found, Level

LEMMA FoundType ==
  ASSUME NEW list \in AttributesLists, NEW u
  PROVE  Found(list, u) \in AttributeSet
<1>1. /\ Level(list, u) \in AttributeSet
      /\ Level(list, [u EXCEPT !.res = ALL]) \in AttributeSet
      /\ Level(list, [inst |-> ALL, res |-> ALL]) \in AttributeSet
  BY ListsAre
<1>2. (IF u.res = ALL THEN NoAttribute ELSE Level(list, u)) \in AttributeSet
  BY <1>1, NoAttributeType
<1>3. Inherit(Level(list, [u EXCEPT !.res = ALL]), Level(list, [inst |-> ALL, res |-> ALL])) \in AttributeSet
  BY <1>1, InheritType
<1> QED
  BY <1>2, <1>3, InheritType DEF Found

LEMMA GetType ==
  ASSUME NEW list \in AttributesLists, NEW u
  PROVE  attributesGet(list, u) \in AttributeSet
<1>1. Sensible(Found(list, u)) \in {Found(list, u), Without(Found(list, u), {"pmax"})}
  BY DEF Sensible
<1> QED
  BY <1>1, GetIs, FoundType, OnlyType

\* The copy observe_updateObserve makes for a URI.
Copy(list, u) ==
  LET found == attributesGet(list, u) IN
  IF "pmin" \in DOMAIN found /\ found["pmin"] = 0 THEN Without(found, {"pmin"}) ELSE found

LEMMA UpdateIs ==
  \A list, o : observe_updateObserve(list, o) = [o EXCEPT !.attributes = Copy(list, o.uri)]
  BY DEF observe_updateObserve, Copy

LEMMA CopyType ==
  ASSUME NEW list \in AttributesLists, NEW u
  PROVE  Copy(list, u) \in AttributeSet
<1>1. Copy(list, u) \in {attributesGet(list, u), Without(attributesGet(list, u), {"pmin"})}
  BY DEF Copy
<1> QED
  BY <1>1, GetType, OnlyType

\* The copy depends on three levels of the list only.
LEMMA CopyDepends ==
  ASSUME NEW list, NEW other, NEW u,
         u.res = ALL \/ Level(list, u) = Level(other, u),
         Level(list, [u EXCEPT !.res = ALL]) = Level(other, [u EXCEPT !.res = ALL]),
         Level(list, [inst |-> ALL, res |-> ALL]) = Level(other, [inst |-> ALL, res |-> ALL])
  PROVE  Copy(list, u) = Copy(other, u)
<1>1. Found(list, u) = Found(other, u)
  BY DEF Found
<1>2. attributesGet(list, u) = attributesGet(other, u)
  BY <1>1, GetIs
<1> QED
  BY <1>2 DEF Copy

\* What a Write-Attributes sets: no period and no step is negative.
LEMMA RetrieveType ==
  ASSUME NEW query \in Queries, prv_attributesRetrieve(query.options) # NULL
  PROVE  prv_attributesRetrieve(query.options).set \in AttributeSet
<1> DEFINE options == query.options
           given == {o[1] : o \in Range(options)}
           set == {o \in Range(options) : o[2] # NULL}
           D == {o[1] : o \in set}
           f == [a \in D |-> (CHOOSE o \in set : o[1] = a)[2]]
           wrong == \/ Cardinality(given) < Len(options) \/ ~(given \subseteq Attributes)
                    \/ \E o \in set : o[1] \notin {"lt", "gt"} /\ o[2] < 0
<1>1. prv_attributesRetrieve(options)
        = IF wrong THEN NULL ELSE [set |-> f, clear |-> {o[1] : o \in Range(options) \ set}]
  BY DEF prv_attributesRetrieve
<1>2. ~wrong
  BY <1>1
<1>3. prv_attributesRetrieve(options).set = f
  <2> HIDE DEF wrong, f, set
  <2> QED
    BY <1>1, <1>2
<1>4. \A o \in set : o[2] \in Int
  <2>1. options \in Seq(STRING \X (Int \cup {NULL}))
    BY QueryAssumption
  <2>2. \A k \in DOMAIN options : options[k] \in STRING \X (Int \cup {NULL})
    BY <2>1
  <2> QED
    BY <2>2 DEF Range
<1>5. D \subseteq Attributes
  BY <1>2
<1>6. ASSUME NEW a \in D
      PROVE  f[a] \in Int /\ (a \notin {"gt", "lt"} => f[a] >= 0)
  <2>1. PICK o \in set : o[1] = a
    OBVIOUS
  <2> DEFINE c == CHOOSE x \in set : x[1] = a
  <2>2. c \in set /\ c[1] = a
    BY <2>1
  <2>3. f[a] = c[2]
    OBVIOUS
  <2>4. \A x \in set : x[1] \notin {"lt", "gt"} => ~(x[2] < 0)
    BY <1>2
  <2> HIDE DEF c, f, set
  <2> QED
    BY <1>4, <2>2, <2>3, <2>4
<1>7. f = [a \in D |-> f[a]]
  OBVIOUS
<1> HIDE DEF f, D
<1> QED
  BY <1>3, <1>5, <1>6, <1>7, MakesAttributes

\* What a write leaves at its URI.
LEMMA WriteType ==
  ASSUME NEW stored, stored = NULL \/ stored \in AttributeSet,
         NEW u, NEW write, write.set \in AttributeSet,
         NEW result, result = attributesWrite(stored, u, write)
  PROVE  result.stored = NULL \/ result.stored \in AttributeSet
<1> DEFINE cleared == IF stored = NULL THEN NoAttribute ELSE Without(stored, write.clear)
           merged == Inherit(write.set, Without(cleared, {"pmax"}))
           error == Refusal(u, merged)
<1>1. cleared \in AttributeSet
  BY NoAttributeType, OnlyType
<1>2. merged \in AttributeSet
  BY <1>1, OnlyType, InheritType
<1>3. Inherit(merged, cleared) \in AttributeSet
  BY <1>1, <1>2, InheritType
<1>4. result.stored \in {NULL, Inherit(merged, cleared), cleared}
  <2>1. result = IF stored # NULL /\ cleared = NoAttribute /\ write.set = NoAttribute
                 THEN [stored |-> NULL, error |-> NULL]
                 ELSE [stored |-> IF error = NULL THEN Inherit(merged, cleared)
                                  ELSE IF stored = NULL THEN NULL ELSE cleared,
                       error |-> error]
    BY DEF attributesWrite
  <2> HIDE DEF cleared, merged, error
  <2> QED
    BY <2>1
<1> HIDE DEF cleared, merged, error
<1> QED
  BY <1>1, <1>3, <1>4

\* The list with new at u, or without u.
Written(list, u, new) ==
  LET others == [v \in DOMAIN list \ {u} |-> list[v]] IN
  IF new = NULL THEN others
  ELSE [v \in DOMAIN others \cup {u} |-> IF v = u THEN new ELSE others[v]]

LEMMA WrittenType ==
  ASSUME NEW list \in AttributesLists, NEW u \in Uri, NEW new, new = NULL \/ new \in AttributeSet
  PROVE  /\ Written(list, u, new) \in AttributesLists
         /\ \A v : v # u => Level(Written(list, u, new), v) = Level(list, v)
<1> DEFINE E == DOMAIN list \ {u}
           others == [v \in E |-> list[v]]
<1>1. DOMAIN list \subseteq Uri /\ \A v \in DOMAIN list : list[v] \in AttributeSet
  BY ListsAre
<1>2. CASE new = NULL
  <2>1. PICK l : l = others
    OBVIOUS
  <2>2. Written(list, u, new) = l
    BY <1>2, <2>1 DEF Written
  <2>3. l = [v \in E |-> l[v]] /\ \A v \in E : l[v] = list[v]
    BY <2>1
  <2>4. l \in AttributesLists
    BY <1>1, <2>3, MakesList
  <2>5. \A v : v # u => Level(l, v) = Level(list, v)
    BY <2>1 DEF Level
  <2> QED
    BY <2>2, <2>4, <2>5
<1>3. CASE new # NULL
  <2>1. PICK l : l = [v \in E \cup {u} |-> IF v = u THEN new ELSE others[v]]
    OBVIOUS
  <2>2. Written(list, u, new) = l
    BY <1>3, <2>1 DEF Written
  <2>3. l = [v \in E \cup {u} |-> l[v]] /\ l[u] = new /\ \A v \in E : l[v] = list[v]
    BY <2>1
  <2>4. E \cup {u} \in SUBSET Uri /\ \A v \in E \cup {u} : l[v] \in AttributeSet
    BY <1>1, <1>3, <2>3
  <2>5. l \in AttributesLists
    BY <2>3, <2>4, MakesList
  <2>6. \A v : v # u => Level(l, v) = Level(list, v)
    BY <2>1 DEF Level
  <2> QED
    BY <2>2, <2>5, <2>6
<1> QED
  BY <1>2, <1>3

\* The copy for a URI that a write does not concern stays.
LEMMA CopyStays ==
  ASSUME NEW list \in AttributesLists, NEW u \in Uri, NEW new, new = NULL \/ new \in AttributeSet,
         NEW o \in Observation, ~Concerns(u, o)
  PROVE  Copy(Written(list, u, new), o.uri) = Copy(list, o.uri)
<1>1. o.uri \in ObservedUri
  BY DEF Observation
<1>2. o.uri.res = ALL \/ o.uri # u
  BY DEF Concerns
<1>3. [o.uri EXCEPT !.res = ALL] # u
  BY <1>1 DEF Concerns, ObservedUri
<1>4. [inst |-> ALL, res |-> ALL] # u
  BY DEF Concerns
<1>5. PICK l : l = Written(list, u, new)
  OBVIOUS
<1>6. \A v : v # u => Level(l, v) = Level(list, v)
  BY <1>5, WrittenType
<1>7. /\ o.uri.res = ALL \/ Level(l, o.uri) = Level(list, o.uri)
      /\ Level(l, [o.uri EXCEPT !.res = ALL]) = Level(list, [o.uri EXCEPT !.res = ALL])
      /\ Level(l, [inst |-> ALL, res |-> ALL]) = Level(list, [inst |-> ALL, res |-> ALL])
  BY <1>2, <1>3, <1>4, <1>6, Zenon
<1>8. Copy(l, o.uri) = Copy(list, o.uri)
  BY <1>7, CopyDepends, Zenon
<1> QED
  BY <1>5, <1>8

-----------------------------------------------------------------------------
(* The nearest level                                                       *)

LEMMA LeastOfThree ==
  ASSUME NEW W \in SUBSET (1..3)
  PROVE  /\ 1 \in W => Min(W) = 1
         /\ 1 \notin W /\ 2 \in W => Min(W) = 2
         /\ W = {3} => Min(W) = 3
<1>1. ASSUME NEW m \in W, \A y \in W : m <= y
      PROVE  Min(W) = m
  <2>1. Min(W) \in W /\ \A y \in W : Min(W) <= y
    BY <1>1 DEF Min
  <2>2. Min(W) <= m /\ m <= Min(W) /\ m \in Int /\ Min(W) \in Int
    <3>1. \A k \in W : k \in Int
      OBVIOUS
    <3>2. PICK c : c = Min(W)
      OBVIOUS
    <3>3. c \in W /\ c <= m /\ m <= c
      BY <1>1, <2>1, <3>2
    <3> QED
      BY <3>1, <3>2, <3>3
  <2> QED
    BY <2>2
<1>2. ASSUME 1 \in W PROVE Min(W) = 1
  <2>1. \A y \in W : 1 <= y
    OBVIOUS
  <2> QED
    BY <1>1, <1>2, <2>1
<1>3. ASSUME 1 \notin W, 2 \in W PROVE Min(W) = 2
  <2>1. \A y \in W : 2 <= y
    BY <1>3
  <2> QED
    BY <1>1, <1>3, <2>1
<1>4. ASSUME W = {3} PROVE Min(W) = 3
  <2>1. 3 \in W /\ \A y \in W : 3 <= y
    BY <1>4
  <2> QED
    BY <1>1, <2>1
<1> QED
  BY <1>2, <1>3, <1>4

\* attributesGet finds what is written at the nearest level.
LEMMA FoundIsNearest ==
  ASSUME NEW s, NEW u \in ObservedUri, NEW a
  PROVE  IF a \in DOMAIN Found(attributesList[s], u)
         THEN Nearest(s, u, a) = {Found(attributesList[s], u)[a]}
         ELSE Nearest(s, u, a) = {}
<1> DEFINE list == attributesList[s]
           near == [u EXCEPT !.res = ALL]
           far == [inst |-> ALL, res |-> ALL]
           levels == <<u, near, far>>
           W == {k \in DOMAIN levels :
                   levels[k] \in DOMAIN list /\ a \in DOMAIN list[levels[k]]}
           At1 == a \in DOMAIN Level(list, u)
           At2 == a \in DOMAIN Level(list, near)
           At3 == a \in DOMAIN Level(list, far)
           found == Found(list, u)
           inner == Inherit(Level(list, near), Level(list, far))
           own == IF u.res = ALL THEN NoAttribute ELSE Level(list, u)
<1>1. DOMAIN NoAttribute = {}
  BY DEF NoAttribute
<1>2. \A v : a \in DOMAIN Level(list, v) <=> v \in DOMAIN list /\ a \in DOMAIN list[v]
  BY <1>1 DEF Level
<1>3. \A v : a \in DOMAIN Level(list, v) => Level(list, v) = list[v]
  BY <1>1 DEF Level
<1>4. W \in SUBSET (1..3) /\ (1 \in W <=> At1) /\ (2 \in W <=> At2) /\ (3 \in W <=> At3)
  BY <1>2
<1>5. Nearest(s, u, a) = IF W = {} THEN {} ELSE {list[levels[Min(W)]][a]}
  BY DEF Nearest
<1>6. DOMAIN inner = DOMAIN Level(list, near) \cup DOMAIN Level(list, far)
      /\ (At2 => inner[a] = Level(list, near)[a])
      /\ (At3 /\ ~At2 => inner[a] = Level(list, far)[a])
  BY DEF Inherit
<1>7. /\ DOMAIN found = DOMAIN own \cup DOMAIN inner
      /\ a \in DOMAIN own => found[a] = own[a]
      /\ a \in DOMAIN inner \ DOMAIN own => found[a] = inner[a]
  <2>1. found = Inherit(own, inner)
    BY DEF Found
  <2> HIDE DEF own, inner, found
  <2> QED
    BY <2>1 DEF Inherit
<1>8. u.res = ALL => near = u
  BY DEF ObservedUri
<1>9. levels[1] = u /\ levels[2] = near /\ levels[3] = far
  OBVIOUS
<1> HIDE DEF inner, found, W, levels, near, far
<1>10. CASE At1
  <2>1. Nearest(s, u, a) = {Level(list, u)[a]}
    BY <1>3, <1>4, <1>5, <1>9, <1>10, LeastOfThree
  <2>2. a \in DOMAIN found /\ found[a] = Level(list, u)[a]
    <3>1. CASE u.res = ALL
      BY <1>1, <1>6, <1>7, <1>8, <1>10, <3>1
    <3>2. CASE u.res # ALL
      BY <1>7, <1>10, <3>2
    <3> QED
      BY <3>1, <3>2
  <2> QED
    BY <2>1, <2>2 DEF found
<1>11. CASE ~At1 /\ At2
  <2>1. Nearest(s, u, a) = {Level(list, near)[a]}
    BY <1>3, <1>4, <1>5, <1>9, <1>11, LeastOfThree
  <2>2. a \notin DOMAIN own
    BY <1>1, <1>11
  <2>3. a \in DOMAIN found /\ found[a] = Level(list, near)[a]
    BY <1>6, <1>7, <1>11, <2>2
  <2> QED
    BY <2>1, <2>3 DEF found
<1>12. CASE ~At1 /\ ~At2 /\ At3
  <2>1. W = {3}
    <3>1. 3 \in W /\ 1 \notin W /\ 2 \notin W /\ \A k \in W : k \in 1..3
      BY <1>4, <1>12
    <3>2. \A k \in W : k = 3
      BY <3>1
    <3> QED
      BY <3>1, <3>2
  <2>2. Nearest(s, u, a) = {Level(list, far)[a]}
    BY <1>3, <1>4, <1>5, <1>9, <1>12, <2>1, LeastOfThree
  <2>3. a \notin DOMAIN own
    BY <1>1, <1>12
  <2>4. a \in DOMAIN found /\ found[a] = Level(list, far)[a]
    BY <1>6, <1>7, <1>12, <2>3
  <2> QED
    BY <2>2, <2>4 DEF found
<1>13. CASE ~At1 /\ ~At2 /\ ~At3
  <2>1. W = {}
    BY <1>4, <1>13
  <2>2. Nearest(s, u, a) = {}
    BY <1>5, <2>1
  <2>3. a \notin DOMAIN own
    BY <1>1, <1>13
  <2>4. a \notin DOMAIN found
    BY <1>6, <1>7, <1>13, <2>3
  <2> QED
    BY <2>2, <2>4 DEF found
<1> QED
  BY <1>10, <1>11, <1>12, <1>13

\* The copy of an observation is what its Server wrote: each attribute it has is the
\* nearest one written, and each it has not was not written, is a pmin of zero or
\* a pmax below pmin.
LEMMA CopyIsWritten ==
  ASSUME NEW s \in Server, attributesList[s] \in AttributesLists,
         NEW u \in ObservedUri, NEW a \in Attributes
  PROVE  LET copy == Copy(attributesList[s], u)
             written == Nearest(s, u, a) IN
         IF a \in DOMAIN copy THEN written = {copy[a]}
         ELSE \/ written = {}
              \/ a = "pmin" /\ written = {0}
              \/ a = "pmax" /\ \E p \in Nearest(s, u, "pmin"), q \in written : q < p
<1> DEFINE found == Found(attributesList[s], u)
           get == Sensible(found)
           copy == Copy(attributesList[s], u)
<1>1. /\ IF a \in DOMAIN found THEN Nearest(s, u, a) = {found[a]} ELSE Nearest(s, u, a) = {}
      /\ "pmin" \in DOMAIN found => Nearest(s, u, "pmin") = {found["pmin"]}
  BY FoundIsNearest
<1>2. \/ get = found
      \/ /\ {"pmin", "pmax"} \subseteq DOMAIN found /\ found["pmax"] < found["pmin"]
         /\ DOMAIN get = DOMAIN found \ {"pmax"} /\ \A b \in DOMAIN get : get[b] = found[b]
  BY DEF Sensible, Without
<1>3. copy = IF "pmin" \in DOMAIN get /\ get["pmin"] = 0 THEN Without(get, {"pmin"}) ELSE get
  BY GetIs DEF Copy
<1>4. \/ copy = get
      \/ /\ "pmin" \in DOMAIN get /\ get["pmin"] = 0
         /\ DOMAIN copy = DOMAIN get \ {"pmin"} /\ \A b \in DOMAIN copy : copy[b] = get[b]
  <2> HIDE DEF get, copy
  <2> QED
    BY <1>3 DEF Without
<1> HIDE DEF found, get, copy
<1>5. CASE a \in DOMAIN copy
  <2>1. a \in DOMAIN found /\ copy[a] = found[a]
    BY <1>2, <1>4, <1>5
  <2> QED
    BY <1>1, <1>5, <2>1 DEF copy
<1>6. CASE a \notin DOMAIN copy
  <2>1. CASE a \notin DOMAIN found
    BY <1>1, <1>6, <2>1 DEF copy
  <2>2. CASE a \in DOMAIN found /\ a \notin DOMAIN get
    <3>1. a = "pmax" /\ "pmin" \in DOMAIN found /\ found["pmax"] < found["pmin"]
      BY <1>2, <2>2
    <3>2. Nearest(s, u, a) = {found["pmax"]} /\ Nearest(s, u, "pmin") = {found["pmin"]}
      BY <1>1, <2>2, <3>1
    <3> QED
      BY <1>6, <3>1, <3>2 DEF copy
  <2>3. CASE a \in DOMAIN found /\ a \in DOMAIN get
    <3>1. a = "pmin" /\ get["pmin"] = 0
      BY <1>4, <1>6, <2>3
    <3>2. found["pmin"] = 0
      BY <1>2, <2>3, <3>1
    <3>3. Nearest(s, u, a) = {0}
      BY <1>1, <2>3, <3>1, <3>2
    <3> QED
      BY <1>6, <3>1, <3>3 DEF copy
  <2> QED
    BY <2>1, <2>2, <2>3
<1> QED
  BY <1>5, <1>6

-----------------------------------------------------------------------------
(* One observation                                                         *)

LEMMA ReAttributed ==
  ASSUME NEW o, Kept(o), NEW f \in AttributeSet, NEW n, n = [o EXCEPT !.attributes = f]
  PROVE  /\ Kept(n) /\ n.attributes = f
         /\ n.token = o.token /\ n.uri = o.uri /\ n.update = o.update /\ n.age = o.age
         /\ n.lastValue = o.lastValue /\ n.told = o.told
<1>1. o \in Observation
  BY DEF Kept
<1>2. n \in Observation /\ n.attributes = f
      /\ n.token = o.token /\ n.uri = o.uri /\ n.update = o.update /\ n.age = o.age
      /\ n.lastValue = o.lastValue /\ n.told = o.told
  BY <1>1 DEF Observation
<1> QED
  BY <1>2 DEF Kept

LEMMA UpdateGood ==
  ASSUME NEW list \in AttributesLists, NEW o, Kept(o),
         NEW n, n = observe_updateObserve(list, o)
  PROVE  /\ Good(n, list, FALSE)
         /\ n.token = o.token /\ n.uri = o.uri /\ n.update = o.update /\ n.age = o.age
         /\ n.lastValue = o.lastValue /\ n.told = o.told
<1>1. n = [o EXCEPT !.attributes = Copy(list, o.uri)]
  BY UpdateIs
<1>2. Copy(list, o.uri) \in AttributeSet
  BY CopyType
<1>3. /\ Kept(n) /\ n.attributes = Copy(list, o.uri)
      /\ n.token = o.token /\ n.uri = o.uri /\ n.update = o.update /\ n.age = o.age
      /\ n.lastValue = o.lastValue /\ n.told = o.told
  BY <1>1, <1>2, ReAttributed
<1>4. observe_updateObserve(list, n).attributes = Copy(list, n.uri)
  <2>1. n \in Observation
    BY <1>3 DEF Kept
  <2>2. PICK c : c = Copy(list, n.uri)
    OBVIOUS
  <2>3. observe_updateObserve(list, n) = [n EXCEPT !.attributes = c]
    BY <2>2, UpdateIs
  <2>4. [n EXCEPT !.attributes = c].attributes = c
    BY <2>1 DEF Observation
  <2> QED
    BY <2>2, <2>3, <2>4
<1> QED
  BY <1>3, <1>4 DEF Good

\* A good observation is one of its copy.
LEMMA GoodIs ==
  ASSUME NEW o, NEW list, NEW ahead
  PROVE  Good(o, list, ahead) <=> Kept(o) /\ (ahead \/ o.attributes = Copy(list, o.uri))
<1>1. ASSUME Kept(o)
      PROVE  observe_updateObserve(list, o).attributes = Copy(list, o.uri)
  <2>1. o \in Observation
    BY <1>1 DEF Kept
  <2>2. PICK c : c = Copy(list, o.uri)
    OBVIOUS
  <2>3. observe_updateObserve(list, o) = [o EXCEPT !.attributes = c]
    BY <2>2, UpdateIs
  <2>4. [o EXCEPT !.attributes = c].attributes = c
    BY <2>1 DEF Observation
  <2> QED
    BY <2>2, <2>3, <2>4
<1> QED
  BY <1>1 DEF Good

\* A notification, whatever its allocations do.
LEMMA Sent ==
  ASSUME NEW o, Kept(o), value \in [Instance -> Values], NEW allocations,
         NEW n, n = prv_checkAndSendNotification(o, allocations)
  PROVE  /\ Kept(n) /\ n.attributes = o.attributes /\ n.token = o.token /\ n.uri = o.uri
         /\ n.told \in {Current(o), NULL} /\ n.age \in {0, o.age}
         /\ n.update = (o.update /\ allocations # "succeed")
<1>1. o \in Observation /\ o.uri \in ObservedUri
  BY DEF Kept, Observation
<1>2. Current(o) \in Values
  BY <1>1 DEF Current, ObservedUri
<1> DEFINE lastValue == IF o.uri.res = ALL THEN o.lastValue ELSE Current(o)
           age == IF allocations = "fail early" THEN o.age ELSE 0
           told == IF allocations = "succeed" THEN Current(o) ELSE NULL
           update == o.update /\ allocations # "succeed"
<1>3. n = [o EXCEPT !.lastValue = lastValue, !.age = age, !.told = told, !.update = update]
  BY DEF prv_checkAndSendNotification
<1>4. /\ lastValue \in Values \cup {NULL} /\ age \in 0..MaxAge /\ told \in Values \cup {NULL}
      /\ update \in BOOLEAN
  <2>1. o.lastValue \in Values \cup {NULL} /\ o.age \in 0..MaxAge /\ o.update \in BOOLEAN
    BY <1>1 DEF Observation
  <2>2. 0 \in 0..MaxAge
    BY TimeAssumption
  <2> QED
    BY <1>2, <2>1, <2>2
<1>5. /\ o.uri.res # ALL /\ told # NULL => lastValue = told
      /\ told \in {Current(o), NULL} /\ age \in {0, o.age}
  OBVIOUS
<1> HIDE DEF lastValue, age, told, update
<1>6. /\ n \in Observation
      /\ n.lastValue = lastValue /\ n.age = age /\ n.told = told /\ n.update = update
      /\ n.attributes = o.attributes /\ n.token = o.token /\ n.uri = o.uri
  BY <1>1, <1>3, <1>4 DEF Observation
<1> QED
  BY <1>5, <1>6 DEF Kept, update

\* A pmax that is kept is not below pmin.
LEMMA PmaxAfterPmin ==
  ASSUME NEW o \in Observation, PmaxElapsed(o)
  PROVE  PminElapsed(o)
<1>1. o.attributes \in AttributeSet /\ o.age \in Int
  BY TimeAssumption DEF Observation
<1>2. \A a \in DOMAIN o.attributes : o.attributes[a] \in Int
  BY <1>1, AttributeSetIs
<1> QED
  BY <1>1, <1>2 DEF PmaxElapsed, PminElapsed, KeepsPmax, Has

\* The change of an observation is only dropped when it is looked at.
LEMMA VisitedIs ==
  ASSUME NEW o, Kept(o), value \in [Instance -> Values], insideCallback \in BOOLEAN,
         NEW allocations, NEW n, n = Visited(o, allocations)
  PROVE  /\ Kept(n) /\ n.attributes = o.attributes /\ n.token = o.token /\ n.uri = o.uri
         /\ ToldOrUnwanted(o, n)
         /\ ~PminElapsed(o) => n.age = o.age /\ n.told = o.told
<1> DEFINE sent == prv_checkAndSendNotification(o, allocations)
<1>1. /\ Kept(sent) /\ sent.attributes = o.attributes /\ sent.token = o.token /\ sent.uri = o.uri
      /\ sent.told \in {Current(o), NULL} /\ sent.age \in {0, o.age}
      /\ sent.update = (o.update /\ allocations # "succeed")
  BY Sent
<1>2. o \in Observation
  BY DEF Kept
<1> HIDE DEF sent
<1>3. CASE Changed(o)
  <2>1. PICK m : m = IF PminElapsed(o) /\ Notable(o) THEN sent ELSE o
    OBVIOUS
  <2>2. n = [m EXCEPT !.update = FALSE]
    BY <1>3, <2>1 DEF Visited, sent
  <2>3. /\ Kept(m) /\ m.attributes = o.attributes /\ m.token = o.token /\ m.uri = o.uri
        /\ ~PminElapsed(o) => m.age = o.age /\ m.told = o.told
        /\ PminElapsed(o) /\ Notable(o) => m.told \in {Current(o), NULL}
    <3>1. CASE PminElapsed(o) /\ Notable(o)
      BY <1>1, <2>1, <3>1
    <3>2. CASE ~(PminElapsed(o) /\ Notable(o))
      BY <2>1, <3>2
    <3> QED
      BY <3>1, <3>2
  <2>4. m \in Observation
    BY <2>3 DEF Kept
  <2>5. /\ n \in Observation /\ n.attributes = m.attributes /\ n.token = m.token /\ n.uri = m.uri
        /\ n.age = m.age /\ n.told = m.told /\ n.lastValue = m.lastValue
    BY <2>2, <2>4 DEF Observation
  <2>6. Kept(n)
    BY <2>3, <2>5 DEF Kept
  <2>7. ToldOrUnwanted(o, n)
    BY <1>3, <2>3, <2>5 DEF ToldOrUnwanted, Changed
  <2> QED
    BY <2>3, <2>5, <2>6, <2>7
<1>4. CASE ~Changed(o) /\ PmaxElapsed(o)
  <2>1. n = sent
    BY <1>4 DEF Visited, sent
  <2>2. PminElapsed(o)
    BY <1>2, <1>4, PmaxAfterPmin
  <2>3. ToldOrUnwanted(o, n)
    BY <1>1, <2>1 DEF ToldOrUnwanted
  <2> QED
    BY <1>1, <2>1, <2>2, <2>3
<1>5. CASE ~Changed(o) /\ ~PmaxElapsed(o)
  <2>1. n = o
    BY <1>5 DEF Visited
  <2> QED
    BY <2>1 DEF ToldOrUnwanted
<1> QED
  BY <1>3, <1>4, <1>5

-----------------------------------------------------------------------------
(* One list                                                                *)

\* An observation that was flagged is flagged after, if it is still there.
StayFlagged(old, new) ==
  \A k \in DOMAIN old, j \in DOMAIN new :
    old[k].token = new[j].token /\ old[k].update => new[j].update

LEMMA ListIs ==
  ASSUME NEW observed, NEW list, NEW ahead, GoodList(observed, list, ahead)
  PROVE  /\ observed \in Seq(Observation) /\ Len(observed) \in Nat
         /\ DOMAIN observed = 1..Len(observed)
         /\ \A k \in DOMAIN observed : Good(observed[k], list, ahead) /\ Kept(observed[k])
         /\ \A j, k \in DOMAIN observed : observed[j].token = observed[k].token => j = k
  BY LenProperties DEF GoodList, UniqueTokens, Good

LEMMA EmptyGood ==
  \A list, ahead, old : GoodList(<< >>, list, ahead) /\ StayFlagged(old, << >>)
  BY DEF GoodList, UniqueTokens, StayFlagged

LEMMA SameFlagged ==
  ASSUME NEW observed, UniqueTokens(observed)
  PROVE  StayFlagged(observed, observed)
  BY DEF StayFlagged, UniqueTokens

\* Each observation changes in place.
LEMMA MapGood ==
  ASSUME NEW old, NEW list, NEW ahead, GoodList(old, list, ahead),
         NEW new, new = [k \in DOMAIN old |-> new[k]], NEW other, NEW behind,
         \A k \in DOMAIN old : Good(new[k], other, behind) /\ new[k].token = old[k].token
  PROVE  /\ GoodList(new, other, behind)
         /\ (\A k \in DOMAIN old : old[k].update => new[k].update) => StayFlagged(old, new)
<1>1. /\ Len(old) \in Nat /\ DOMAIN old = 1..Len(old)
      /\ \A j, k \in DOMAIN old : old[j].token = old[k].token => j = k
  BY ListIs
<1>2. DOMAIN new = DOMAIN old
  BY Zenon
<1>3. \A k \in DOMAIN old : new[k] \in Observation
  BY DEF Good, Kept
<1>4. new \in Seq(Observation)
  <2>1. new \in [1..Len(old) -> Observation]
    BY <1>1, <1>3
  <2> QED
    BY <1>1, <2>1, SeqDef
<1>5. UniqueTokens(new)
  BY <1>1, <1>2 DEF UniqueTokens
<1>6. ASSUME \A k \in DOMAIN old : old[k].update => new[k].update
      PROVE  StayFlagged(old, new)
  BY <1>1, <1>2, <1>6 DEF StayFlagged
<1> QED
  BY <1>2, <1>4, <1>5, <1>6 DEF GoodList

\* Each element of the new list is one of the old, each of them once.
LEMMA PartGood ==
  ASSUME NEW old, NEW list, NEW ahead, GoodList(old, list, ahead),
         NEW new \in Seq(Observation), NEW at, \A j \in DOMAIN new : at[j] \in DOMAIN old,
         \A j, k \in DOMAIN new : at[j] = at[k] => j = k,
         \A j \in DOMAIN new : new[j] = old[at[j]]
  PROVE  GoodList(new, list, ahead) /\ StayFlagged(old, new)
<1>1. /\ \A k \in DOMAIN old : Good(old[k], list, ahead)
      /\ \A j, k \in DOMAIN old : old[j].token = old[k].token => j = k
  BY ListIs
<1>2. UniqueTokens(new)
  BY <1>1 DEF UniqueTokens
<1>3. \A j \in DOMAIN new : Good(new[j], list, ahead)
  BY <1>1
<1>4. StayFlagged(old, new)
  BY <1>1 DEF StayFlagged
<1> QED
  BY <1>2, <1>3, <1>4 DEF GoodList

LEMMA SublistGood ==
  ASSUME NEW old, NEW list, NEW ahead, GoodList(old, list, ahead), NEW A \in SUBSET DOMAIN old
  PROVE  /\ GoodList(Sublist(old, A), list, ahead) /\ StayFlagged(old, Sublist(old, A))
         /\ DOMAIN old = {} => DOMAIN Sublist(old, A) = {}
<1>1. old \in Seq(Observation) /\ DOMAIN old = 1..Len(old) /\ Len(old) \in Nat
  BY ListIs
<1> DEFINE n == Cardinality(A)
<1>2. PICK new : new = Sublist(old, A)
  OBVIOUS
<1>3. /\ Sublist(old, A) \in Seq(Observation) /\ Len(Sublist(old, A)) = n /\ n \in Nat
      /\ \E at \in [1..n -> A] :
           /\ \A j, k \in 1..n : j < k => at[j] < at[k]
           /\ \A i \in A : \E j \in 1..n : at[j] = i
           /\ \A j \in 1..n : Sublist(old, A)[j] = old[at[j]]
  BY <1>1, SublistProperties
<1>4. PICK at \in [1..n -> A] :
        /\ new \in Seq(Observation) /\ Len(new) = n /\ n \in Nat
        /\ \A j, k \in 1..n : j < k => at[j] < at[k]
        /\ \A j \in 1..n : new[j] = old[at[j]]
  BY <1>2, <1>3
<1>5. DOMAIN new = 1..n
  BY <1>4, LenProperties
<1>6. \A j \in DOMAIN new : at[j] \in DOMAIN old /\ new[j] = old[at[j]]
  BY <1>4, <1>5
<1>7. ASSUME NEW j \in DOMAIN new, NEW k \in DOMAIN new, at[j] = at[k]
      PROVE  j = k
  <2>1. at[j] \in Nat /\ at[k] \in Nat
    BY <1>1, <1>6
  <2>2. ~(j < k) /\ ~(k < j)
    BY <1>4, <1>5, <1>7, <2>1
  <2> QED
    BY <1>4, <1>5, <2>2
<1>8. GoodList(new, list, ahead) /\ StayFlagged(old, new)
  BY <1>4, <1>6, <1>7, PartGood
<1>9. DOMAIN old = {} => DOMAIN new = {}
  BY <1>6
<1> QED
  BY <1>2, <1>8, <1>9

LEMMA TailGood ==
  ASSUME NEW old, NEW list, NEW ahead, GoodList(old, list, ahead), old # << >>
  PROVE  /\ GoodList(Tail(old), list, ahead)
         /\ \A j \in DOMAIN Tail(old) : j + 1 \in DOMAIN old /\ Tail(old)[j] = old[j + 1]
<1>1. old \in Seq(Observation) /\ DOMAIN old = 1..Len(old) /\ Len(old) \in Nat
  BY ListIs
<1>2. PICK new : new = Tail(old)
  OBVIOUS
<1>3. /\ new \in Seq(Observation) /\ Len(new) = Len(old) - 1
      /\ \A j \in 1..Len(old) - 1 : new[j] = old[j + 1]
  BY <1>1, <1>2, HeadTailProperties
<1>4. DOMAIN new = 1..Len(old) - 1 /\ Len(old) # 0
  BY <1>1, <1>3, LenProperties, EmptySeq
<1> DEFINE at == [j \in DOMAIN new |-> j + 1]
<1>5. \A j \in DOMAIN new : at[j] \in DOMAIN old /\ new[j] = old[at[j]]
  BY <1>1, <1>3, <1>4
<1>6. \A j, k \in DOMAIN new : at[j] = at[k] => j = k
  BY <1>1, <1>4
<1>7. \A j \in DOMAIN new : j + 1 \in DOMAIN old /\ new[j] = old[j + 1]
  BY <1>5
<1> HIDE DEF at
<1>8. GoodList(new, list, ahead)
  BY <1>3, <1>5, <1>6, PartGood
<1> QED
  BY <1>2, <1>7, <1>8

LEMMA ConsGood ==
  ASSUME NEW old, NEW list, NEW ahead, GoodList(old, list, ahead),
         NEW o, Good(o, list, ahead), \A k \in DOMAIN old : old[k].token # o.token
  PROVE  /\ GoodList(<<o>> \o old, list, ahead) /\ StayFlagged(old, <<o>> \o old)
         /\ <<o>> \o old # << >>
<1>1. old \in Seq(Observation) /\ DOMAIN old = 1..Len(old) /\ Len(old) \in Nat
  BY ListIs
<1>2. o \in Observation
  BY DEF Good, Kept
<1>3. PICK new : new = <<o>> \o old
  OBVIOUS
<1>4. /\ new \in Seq(Observation) /\ Len(new) = Len(old) + 1
      /\ \A j \in 1..Len(old) + 1 : new[j] = IF j = 1 THEN o ELSE old[j - 1]
  <2>1. <<o>> \in Seq(Observation) /\ Len(<<o>>) = 1 /\ <<o>>[1] = o
    BY <1>2
  <2>2. /\ new \in Seq(Observation) /\ Len(new) = 1 + Len(old)
        /\ \A j \in 1..1 + Len(old) : new[j] = IF j <= 1 THEN <<o>>[j] ELSE old[j - 1]
    BY <1>1, <1>3, <2>1, ConcatProperties
  <2> QED
    BY <1>1, <2>1, <2>2
<1>5. DOMAIN new = 1..Len(old) + 1
  BY <1>4, LenProperties
<1>6. \A j \in DOMAIN new : \/ j = 1 /\ new[j] = o
                            \/ j # 1 /\ j - 1 \in DOMAIN old /\ new[j] = old[j - 1]
  BY <1>1, <1>4, <1>5
<1>7. /\ \A k \in DOMAIN old : Good(old[k], list, ahead)
      /\ \A j, k \in DOMAIN old : old[j].token = old[k].token => j = k
  BY ListIs
<1>8. \A j \in DOMAIN new : Good(new[j], list, ahead)
  BY <1>6, <1>7
<1>9. UniqueTokens(new)
  <2> SUFFICES ASSUME NEW j \in DOMAIN new, NEW k \in DOMAIN new, new[j].token = new[k].token
               PROVE  j = k
    BY DEF UniqueTokens
  <2>1. CASE j = 1 \/ k = 1
    BY <1>6, <2>1
  <2>2. CASE j # 1 /\ k # 1
    <3>1. j - 1 = k - 1
      BY <1>6, <1>7, <2>2
    <3> QED
      BY <1>1, <1>5, <3>1
  <2> QED
    BY <2>1, <2>2
<1>10. StayFlagged(old, new)
  <2> SUFFICES ASSUME NEW k \in DOMAIN old, NEW j \in DOMAIN new,
                      old[k].token = new[j].token, old[k].update
               PROVE  new[j].update
    BY DEF StayFlagged
  <2> QED
    BY <1>6, <1>7
<1>11. new # << >>
  BY <1>1, <1>4
<1> QED
  BY <1>3, <1>4, <1>8, <1>9, <1>10, <1>11 DEF GoodList

-----------------------------------------------------------------------------
(* The steps that change the lists                                         *)

AllFlagged == \A s \in Server : StayFlagged(observedList[s], observedList'[s])

LEMMA OneServer ==
  ASSUME ListsInv, NEW s \in Server, s \in registered, NEW new,
         GoodList(new, attributesList[s], s \in stale), StayFlagged(observedList[s], new),
         observedList' = [observedList EXCEPT ![s] = new],
         UNCHANGED <<attributesList, registered, stale>>
  PROVE  ListsInv' /\ AllFlagged
<1>1. new \in Seq(Observation)
  BY DEF GoodList
<1>2. observedList \in [Server -> Seq(Observation)]
  BY DEF ListsInv
<1>3. /\ observedList' \in [Server -> Seq(Observation)] /\ observedList'[s] = new
      /\ \A r \in Server : r # s => observedList'[r] = observedList[r]
  BY <1>1, <1>2
<1>4. \A r \in Server : GoodList(observedList[r], attributesList[r], r \in stale)
  BY DEF ListsInv
<1>5. \A r \in Server : GoodList(observedList'[r], attributesList'[r], r \in stale')
  BY <1>3, <1>4
<1>6. \A r \in Server : StayFlagged(observedList[r], observedList'[r])
  BY <1>3, <1>4, SameFlagged DEF GoodList
<1> QED
  BY <1>3, <1>5, <1>6 DEF ListsInv, AllFlagged

LEMMA EachServer ==
  ASSUME ListsInv, NEW new, observedList' = [s \in Server |-> new[s]],
         \A s \in Server : GoodList(new[s], attributesList[s], s \in stale),
         \A s \in Server : DOMAIN observedList[s] = {} => DOMAIN new[s] = {},
         UNCHANGED <<attributesList, registered, stale>>
  PROVE  /\ ListsInv' /\ \A s \in Server : observedList'[s] = new[s]
         /\ (\A s \in Server : StayFlagged(observedList[s], new[s])) => AllFlagged
<1>1. \A s \in Server : observedList'[s] = new[s] /\ new[s] \in Seq(Observation)
  BY DEF GoodList
<1>2. observedList' \in [Server -> Seq(Observation)]
  BY <1>1
<1> QED
  BY <1>1, <1>2 DEF ListsInv, AllFlagged

LEMMA NoServer ==
  ASSUME ListsInv, UNCHANGED <<observedList, attributesList, stale>>,
         registered' \subseteq Server, registered \subseteq registered'
  PROVE  ListsInv' /\ AllFlagged
<1>1. \A s \in Server : UniqueTokens(observedList[s])
  BY DEF ListsInv, GoodList
<1>2. \A s \in Server : StayFlagged(observedList[s], observedList[s])
  BY <1>1, SameFlagged
<1> QED
  BY <1>2 DEF ListsInv, AllFlagged

\* An observation made by a request.
LEMMA RequestedGood ==
  ASSUME ListsInv, DataInv, NEW s \in Server, NEW t \in Token, NEW u \in Targets[t],
         NEW o, o = Requested(s, t, u)
  PROVE  /\ Good(o, attributesList[s], s \in stale) /\ o.token = t
         /\ (o.update <=> \E k \in Position(s, t) : observedList[s][k].update)
<1> DEFINE update == \E k \in Position(s, t) : observedList[s][k].update
           fresh == [token |-> t, uri |-> u, update |-> update, attributes |-> NoAttribute,
                     age |-> 0, lastValue |-> IF u.res = ALL THEN NULL ELSE value[u.inst],
                     told |-> value[u.inst]]
<1>1. u \in ObservedUri
  BY UriAssumption DEF ObservedUri
<1>2. value[u.inst] \in Values
  BY <1>1 DEF DataInv, ObservedUri
<1>3. 0 \in 0..MaxAge
  BY TimeAssumption
<1>4. update \in BOOLEAN
  OBVIOUS
<1>5. o = observe_updateObserve(attributesList[s], fresh)
  BY DEF Requested
<1>6. Kept(fresh) /\ fresh.token = t /\ fresh.update = update
  <2> HIDE DEF update
  <2>1. fresh \in Observation
    BY <1>1, <1>2, <1>3, <1>4, NoAttributeType DEF Observation
  <2>2. fresh.uri.res # ALL => fresh.lastValue = fresh.told
    OBVIOUS
  <2> HIDE DEF fresh
  <2>3. fresh.uri \in Targets[fresh.token] /\ fresh.token = t /\ fresh.update = update
    BY DEF fresh
  <2> QED
    BY <2>1, <2>2, <2>3 DEF Kept
<1> HIDE DEF fresh, update
<1>7. attributesList[s] \in AttributesLists
  BY DEF ListsInv
<1>8. Good(o, attributesList[s], FALSE) /\ o.token = t /\ o.update = update
  BY <1>5, <1>6, <1>7, UpdateGood
<1> QED
  BY <1>8 DEF Good, update

LEMMA ListedGood ==
  ASSUME ListsInv, DataInv, NEW s \in Server, NEW t \in Token, NEW u \in Targets[t],
         NEW new, new = Listed(s, t, u)
  PROVE  /\ GoodList(new, attributesList[s], s \in stale) /\ StayFlagged(observedList[s], new)
         /\ new # << >>
<1>1. PICK o : o = Requested(s, t, u)
  OBVIOUS
<1>2. /\ Good(o, attributesList[s], s \in stale) /\ o.token = t
      /\ (o.update <=> \E k \in Position(s, t) : observedList[s][k].update)
  BY <1>1, RequestedGood
<1>3. PICK old : old = observedList[s]
  OBVIOUS
<1>4. GoodList(old, attributesList[s], s \in stale)
  BY <1>3 DEF ListsInv
<1>5. \A k \in DOMAIN old : k \in Position(s, t) <=> old[k].token = t
  BY <1>3 DEF Position
<1>6. CASE Position(s, t) = {}
  <2>1. new = <<o>> \o old
    BY <1>1, <1>3, <1>6 DEF Listed
  <2>2. \A k \in DOMAIN old : old[k].token # o.token
    BY <1>2, <1>5, <1>6
  <2>3. /\ GoodList(<<o>> \o old, attributesList[s], s \in stale)
        /\ StayFlagged(old, <<o>> \o old) /\ <<o>> \o old # << >>
    BY <1>2, <1>4, <2>2, ConsGood
  <2> QED
    BY <1>3, <2>1, <2>3
<1>7. CASE Position(s, t) # {}
  <2>1. new = [k \in DOMAIN old |-> IF k \in Position(s, t) THEN o ELSE old[k]]
    BY <1>1, <1>3, <1>7 DEF Listed
  <2>2. new = [k \in DOMAIN old |-> new[k]]
    BY <2>1
  <2>3. \A k \in DOMAIN old : Good(old[k], attributesList[s], s \in stale)
    BY <1>4, ListIs
  <2>4. ASSUME NEW k \in DOMAIN old
        PROVE  /\ Good(new[k], attributesList[s], s \in stale) /\ new[k].token = old[k].token
               /\ old[k].update => new[k].update
    <3>1. CASE k \in Position(s, t)
      BY <1>2, <1>3, <1>5, <2>1, <3>1
    <3>2. CASE k \notin Position(s, t)
      BY <2>1, <2>3, <3>2
    <3> QED
      BY <3>1, <3>2
  <2>5. GoodList(new, attributesList[s], s \in stale) /\ StayFlagged(old, new)
    <3>1. /\ \A k \in DOMAIN old : Good(new[k], attributesList[s], s \in stale)
                                   /\ new[k].token = old[k].token
          /\ \A k \in DOMAIN old : old[k].update => new[k].update
      BY <2>4
    <3>2. PICK ahead : ahead = (s \in stale)
      OBVIOUS
    <3>3. PICK list : list = attributesList[s]
      OBVIOUS
    <3>4. /\ GoodList(old, list, ahead)
          /\ \A k \in DOMAIN old : Good(new[k], list, ahead) /\ new[k].token = old[k].token
      BY <1>4, <3>1, <3>2, <3>3
    <3>5. /\ GoodList(new, list, ahead)
          /\ (\A k \in DOMAIN old : old[k].update => new[k].update) => StayFlagged(old, new)
      BY <2>2, <3>4, MapGood
    <3> QED
      BY <3>1, <3>2, <3>3, <3>5
  <2>6. new # << >>
    <3>1. DOMAIN new = DOMAIN old
      BY <2>1
    <3>2. DOMAIN old # {}
      BY <1>3, <1>7 DEF Position
    <3>3. DOMAIN << >> = {}
      OBVIOUS
    <3> QED
      BY <3>1, <3>2, <3>3
  <2> QED
    BY <1>3, <2>5, <2>6
<1> QED
  BY <1>6, <1>7

LEMMA RemovedGood ==
  ASSUME ListsInv, NEW s \in Server, NEW t, NEW new, new = Removed(s, t)
  PROVE  GoodList(new, attributesList[s], s \in stale) /\ StayFlagged(observedList[s], new)
<1>1. GoodList(observedList[s], attributesList[s], s \in stale)
  BY DEF ListsInv
<1>2. PICK A : A = DOMAIN observedList[s] \ Position(s, t)
  OBVIOUS
<1>3. A \in SUBSET DOMAIN observedList[s] /\ new = Sublist(observedList[s], A)
  BY <1>2 DEF Removed
<1> QED
  BY <1>1, <1>3, SublistGood

LEMMA ObserveKeeps ==
  ASSUME ListsInv, DataInv, NEW s \in Server, NEW t \in Token, NEW u \in Targets[t],
         Observe(s, t, u)
  PROVE  ListsInv' /\ AllFlagged
<1>1. s \in registered /\ UNCHANGED <<attributesList, registered, stale>>
  BY DEF Observe
<1>2. PICK listed : listed = Listed(s, t, u)
  OBVIOUS
<1>3. /\ GoodList(listed, attributesList[s], s \in stale)
      /\ StayFlagged(observedList[s], listed) /\ listed # << >>
  BY <1>2, ListedGood
<1>4. PICK new : /\ observedList' = [observedList EXCEPT ![s] = new]
                 /\ new \in {listed, Removed(s, t), Tail(listed)}
  BY <1>2 DEF Observe, observe_handleRequest
<1>5. GoodList(new, attributesList[s], s \in stale) /\ StayFlagged(observedList[s], new)
  <2>1. CASE new = listed
    BY <1>3, <2>1
  <2>2. CASE new = Removed(s, t)
    BY <2>2, RemovedGood
  <2>3. CASE new = Tail(listed)
    <3>1. /\ GoodList(new, attributesList[s], s \in stale)
          /\ \A j \in DOMAIN new : j + 1 \in DOMAIN listed /\ new[j] = listed[j + 1]
      BY <1>3, <2>3, TailGood
    <3>2. StayFlagged(observedList[s], new)
      BY <1>3, <3>1 DEF StayFlagged
    <3> QED
      BY <3>1, <3>2
  <2> QED
    BY <1>4, <2>1, <2>2, <2>3
<1> QED
  BY <1>1, <1>4, <1>5, OneServer

LEMMA CancelKeeps ==
  ASSUME ListsInv, NEW s \in Server, NEW t, observe_cancel(s, t)
  PROVE  ListsInv' /\ AllFlagged
<1>1. PICK new : new = Removed(s, t)
  OBVIOUS
<1>2. GoodList(new, attributesList[s], s \in stale) /\ StayFlagged(observedList[s], new)
  BY <1>1, RemovedGood
<1>3. /\ s \in registered /\ observedList' = [observedList EXCEPT ![s] = new]
      /\ UNCHANGED <<attributesList, registered, stale>>
  BY <1>1 DEF observe_cancel
<1> QED
  BY <1>2, <1>3, OneServer

LEMMA OneServerWrites ==
  ASSUME ListsInv, NEW s \in Server, NEW new, NEW list \in AttributesLists,
         GoodList(new, list, s \in stale'), StayFlagged(observedList[s], new),
         observedList' = [observedList EXCEPT ![s] = new],
         attributesList' = [attributesList EXCEPT ![s] = list],
         stale' \subseteq Server, \A r \in Server : r # s => (r \in stale' <=> r \in stale),
         registered' \subseteq Server, \A r \in Server : r # s /\ r \in registered => r \in registered',
         s \in registered' \/ (DOMAIN new = {} /\ DOMAIN list = {})
  PROVE  ListsInv' /\ AllFlagged
<1>1. new \in Seq(Observation)
  BY DEF GoodList
<1>2. /\ observedList \in [Server -> Seq(Observation)]
      /\ attributesList \in [Server -> AttributesLists]
  BY DEF ListsInv
<1>3. /\ observedList' \in [Server -> Seq(Observation)] /\ observedList'[s] = new
      /\ \A r \in Server : r # s => observedList'[r] = observedList[r]
  BY <1>1, <1>2
<1>4. /\ attributesList' \in [Server -> AttributesLists] /\ attributesList'[s] = list
      /\ \A r \in Server : r # s => attributesList'[r] = attributesList[r]
  BY <1>2
<1>5. \A r \in Server : GoodList(observedList[r], attributesList[r], r \in stale)
  BY DEF ListsInv
<1>6. ASSUME NEW r \in Server
      PROVE  GoodList(observedList'[r], attributesList'[r], r \in stale')
  <2>1. CASE r = s
    BY <1>3, <1>4, <2>1
  <2>2. CASE r # s
    <3>1. r \in stale' <=> r \in stale
      BY <2>2
    <3>2. GoodList(observedList[r], attributesList[r], r \in stale')
      BY <1>5, <3>1 DEF GoodList, Good
    <3> QED
      BY <1>3, <1>4, <2>2, <3>2
  <2> QED
    BY <2>1, <2>2
<1>7. \A r \in Server : StayFlagged(observedList[r], observedList'[r])
  BY <1>3, <1>5, SameFlagged DEF GoodList
<1>8. \A r \in Server \ registered' : DOMAIN observedList'[r] = {} /\ DOMAIN attributesList'[r] = {}
  BY <1>3, <1>4 DEF ListsInv
<1> QED
  BY <1>3, <1>4, <1>6, <1>7, <1>8 DEF ListsInv, AllFlagged

\* observe_setParameters reaches every observation that a write concerns.
LEMMA SetParametersGood ==
  ASSUME ListsInv, NEW s \in Server, NEW u \in Uri,
         NEW stored, stored = NULL \/ stored \in AttributeSet,
         NEW list, list = Written(attributesList[s], u, stored),
         NEW new, new = observe_setParameters(s, u, list)
  PROVE  /\ GoodList(new, list, s \in stale) /\ StayFlagged(observedList[s], new)
         /\ \A k \in DOMAIN observedList[s] :
              Kept(new[k]) /\ new[k].token = observedList[s][k].token
              /\ new[k].update = observedList[s][k].update
<1>1. PICK ahead : ahead = (s \in stale)
  OBVIOUS
<1>2. PICK old : old = observedList[s]
  OBVIOUS
<1>3. PICK before : before = attributesList[s]
  OBVIOUS
<1>4. before \in AttributesLists /\ GoodList(old, before, ahead)
  BY <1>1, <1>2, <1>3 DEF ListsInv
<1>5. list \in AttributesLists
  BY <1>3, <1>4, WrittenType
<1>6. \A k \in DOMAIN old : Good(old[k], before, ahead) /\ Kept(old[k])
  BY <1>4, ListIs
<1>7. new = [k \in DOMAIN old |-> IF Concerns(u, old[k]) THEN observe_updateObserve(list, old[k])
                                  ELSE old[k]]
  BY <1>2 DEF observe_setParameters
<1>8. ASSUME NEW k \in DOMAIN old
      PROVE  /\ Good(new[k], list, ahead) /\ new[k].token = old[k].token
             /\ new[k].update = old[k].update
  <2>1. CASE Concerns(u, old[k])
    <3>1. new[k] = observe_updateObserve(list, old[k])
      BY <1>7, <2>1
    <3>2. /\ Good(new[k], list, FALSE) /\ new[k].token = old[k].token
          /\ new[k].update = old[k].update
      <4>1. PICK o, n : o = old[k] /\ n = new[k]
        OBVIOUS
      <4>2. Kept(o) /\ n = observe_updateObserve(list, o)
        BY <1>6, <3>1, <4>1
      <4>3. Good(n, list, FALSE) /\ n.token = o.token /\ n.update = o.update
        BY <1>5, <4>2, UpdateGood DEF Good
      <4> QED
        BY <4>1, <4>3
    <3> QED
      BY <3>2 DEF Good
  <2>2. CASE ~Concerns(u, old[k])
    <3>1. new[k] = old[k]
      BY <1>7, <2>2
    <3>2. Kept(old[k]) /\ (ahead \/ old[k].attributes = Copy(before, old[k].uri))
      BY <1>6, GoodIs
    <3>3. old[k] \in Observation
      BY <3>2 DEF Kept
    <3>4. Copy(list, old[k].uri) = Copy(before, old[k].uri)
      BY <1>3, <1>4, <2>2, <3>3, CopyStays
    <3>5. Good(old[k], list, ahead)
      BY <3>2, <3>4, GoodIs
    <3> QED
      BY <3>1, <3>5
  <2> QED
    BY <2>1, <2>2
<1>9. new = [k \in DOMAIN old |-> new[k]]
  BY <1>7
<1>10. /\ GoodList(new, list, ahead)
       /\ (\A k \in DOMAIN old : old[k].update => new[k].update) => StayFlagged(old, new)
  <2>1. \A k \in DOMAIN old : Good(new[k], list, ahead) /\ new[k].token = old[k].token
    BY <1>8
  <2> QED
    BY <1>4, <1>9, <2>1, MapGood
<1>11. \A k \in DOMAIN old : Kept(new[k])
  BY <1>8 DEF Good
<1> QED
  BY <1>1, <1>2, <1>8, <1>10, <1>11

\* When an allocation fails half way, the list is ahead of some observations.
LEMMA SetParametersFailsGood ==
  ASSUME ListsInv, NEW s \in Server, NEW u \in Uri,
         NEW stored, stored = NULL \/ stored \in AttributeSet,
         NEW list, list = Written(attributesList[s], u, stored),
         NEW left, left \in observe_setParametersFails(s, u, list)
  PROVE  GoodList(left, list, TRUE) /\ StayFlagged(observedList[s], left)
<1>1. PICK old : old = observedList[s]
  OBVIOUS
<1>2. PICK new : new = observe_setParameters(s, u, list)
  OBVIOUS
<1>3. PICK before, ahead : GoodList(old, before, ahead)
  BY <1>1 DEF ListsInv
<1>4. /\ \A k \in DOMAIN old : Kept(old[k])
      /\ \A k \in DOMAIN old : Kept(new[k]) /\ new[k].token = old[k].token
                               /\ new[k].update = old[k].update
  <2>1. \A k \in DOMAIN old : Kept(old[k])
    BY <1>3, ListIs
  <2> QED
    BY <1>1, <1>2, <2>1, SetParametersGood
<1>5. PICK f \in DOMAIN old :
         \E x \in Failed(list, old[f]) :
           left = [k \in DOMAIN old |-> IF k < f THEN new[k] ELSE IF k = f THEN x ELSE old[k]]
  BY <1>1, <1>2 DEF observe_setParametersFails
<1>6. PICK x \in Failed(list, old[f]) :
        left = [k \in DOMAIN old |-> IF k < f THEN new[k] ELSE IF k = f THEN x ELSE old[k]]
  BY <1>5
<1>7. Kept(x) /\ x.token = old[f].token /\ x.update = old[f].update
  <2>1. CASE x = old[f]
    BY <1>4, <2>1
  <2>2. CASE x # old[f]
    <3>1. PICK o : o = old[f]
      OBVIOUS
    <3>2. PICK n : n = observe_updateObserve(list, o)
      OBVIOUS
    <3>3. x = [o EXCEPT !.attributes = Only(n.attributes, Numeric)]
      BY <1>6, <2>2, <3>1, <3>2 DEF Failed
    <3>4. Kept(o)
      BY <1>4, <3>1
    <3>5. list \in AttributesLists
      <4>1. attributesList[s] \in AttributesLists
        BY DEF ListsInv
      <4> QED
        BY <4>1, WrittenType
    <3>6. n.attributes \in AttributeSet
      <4>1. Kept(n)
        BY <3>2, <3>4, <3>5, UpdateGood DEF Good
      <4> QED
        BY <4>1 DEF Kept, Observation
    <3>7. Only(n.attributes, Numeric) \in AttributeSet
      BY <3>6, OnlyType
    <3>8. Kept(x) /\ x.token = o.token /\ x.update = o.update
      BY <3>3, <3>4, <3>7, ReAttributed
    <3> QED
      BY <3>1, <3>8
  <2> QED
    BY <2>1, <2>2
<1>8. left = [k \in DOMAIN old |-> left[k]]
  BY <1>6
<1>9. ASSUME NEW k \in DOMAIN old
      PROVE  Kept(left[k]) /\ left[k].token = old[k].token /\ left[k].update = old[k].update
  <2>1. left[k] = IF k < f THEN new[k] ELSE IF k = f THEN x ELSE old[k]
    BY <1>6
  <2>2. CASE k < f
    BY <1>4, <2>1, <2>2
  <2>3. CASE ~(k < f) /\ k = f
    BY <1>7, <2>1, <2>3
  <2>4. CASE ~(k < f) /\ k # f
    BY <1>4, <2>1, <2>4
  <2> QED
    BY <2>2, <2>3, <2>4
<1>10. \A k \in DOMAIN old : Good(left[k], list, TRUE) /\ left[k].token = old[k].token
  BY <1>9 DEF Good
<1>11. /\ GoodList(left, list, TRUE)
       /\ (\A k \in DOMAIN old : old[k].update => left[k].update) => StayFlagged(old, left)
  BY <1>3, <1>8, <1>10, MapGood
<1> QED
  BY <1>1, <1>9, <1>11

LEMMA WriteAttributesKeeps ==
  ASSUME ListsInv, NEW s \in Server, NEW query \in Queries, WriteAttributes(s, query)
  PROVE  ListsInv' /\ AllFlagged
<1> DEFINE u == query.uri
           write == prv_attributesRetrieve(query.options)
           stored == IF u \in DOMAIN attributesList[s] THEN attributesList[s][u] ELSE NULL
<1>1. PICK result : result = attributesWrite(stored, u, write)
  OBVIOUS
<1>2. PICK list : list = Written(attributesList[s], u, result.stored)
  OBVIOUS
<1>3. /\ s \in registered /\ write # NULL /\ UNCHANGED registered
      /\ attributesList' = [attributesList EXCEPT ![s] = list]
      /\ \/ /\ UNCHANGED observedList
            /\ stale' = IF list = attributesList[s] THEN stale ELSE stale \cup {s}
         \/ /\ observedList' = [observedList EXCEPT ![s] = observe_setParameters(s, u, list)]
            /\ UNCHANGED stale
         \/ /\ \E left \in observe_setParametersFails(s, u, list) :
                 observedList' = [observedList EXCEPT ![s] = left]
            /\ stale' = stale \cup {s}
  <2> DEFINE r == attributesWrite(stored, u, write)
             others == [v \in DOMAIN attributesList[s] \ {u} |-> attributesList[s][v]]
             after == IF r.stored = NULL THEN others
                      ELSE [v \in DOMAIN others \cup {u} |-> IF v = u THEN r.stored ELSE others[v]]
  <2>1. after = list
    BY <1>1, <1>2 DEF Written
  <2>2. /\ s \in registered /\ write # NULL /\ UNCHANGED registered
        /\ attributesList' = [attributesList EXCEPT ![s] = after]
        /\ \/ /\ UNCHANGED observedList
              /\ stale' = IF after = attributesList[s] THEN stale ELSE stale \cup {s}
           \/ /\ observedList' = [observedList EXCEPT ![s] = observe_setParameters(s, u, after)]
              /\ UNCHANGED stale
           \/ /\ \E left \in observe_setParametersFails(s, u, after) :
                   observedList' = [observedList EXCEPT ![s] = left]
              /\ stale' = stale \cup {s}
    BY Zenon DEF WriteAttributes
  <2> HIDE DEF after, write, u, stored
  <2> QED
    BY <2>1, <2>2
<1>4. u \in Uri
  BY QueryAssumption
<1>5. attributesList[s] \in AttributesLists
  BY DEF ListsInv
<1>6. write.set \in AttributeSet
  BY <1>3, RetrieveType
<1>7. stored = NULL \/ stored \in AttributeSet
  BY <1>5, ListsAre
<1> HIDE DEF u, write, stored
<1>8. result.stored = NULL \/ result.stored \in AttributeSet
  BY <1>1, <1>6, <1>7, WriteType
<1>9. list \in AttributesLists
  BY <1>2, <1>4, <1>5, <1>8, WrittenType
<1>10. /\ GoodList(observedList[s], attributesList[s], s \in stale) /\ stale \subseteq Server
       /\ observedList \in [Server -> Seq(Observation)]
       /\ attributesList \in [Server -> AttributesLists] /\ registered \subseteq Server
  BY DEF ListsInv
<1>11. /\ registered' \subseteq Server /\ s \in registered'
       /\ \A r \in Server : r # s /\ r \in registered => r \in registered'
  BY <1>3, <1>10
<1>12. CASE /\ UNCHANGED observedList
            /\ stale' = IF list = attributesList[s] THEN stale ELSE stale \cup {s}
  <2>1. observedList' = [observedList EXCEPT ![s] = observedList[s]]
    BY <1>10, <1>12
  <2>2. StayFlagged(observedList[s], observedList[s])
    BY <1>10, SameFlagged DEF GoodList
  <2>3. stale' \subseteq Server /\ \A r \in Server : r # s => (r \in stale' <=> r \in stale)
    BY <1>10, <1>12
  <2>4. GoodList(observedList[s], list, s \in stale')
    <3>1. CASE list = attributesList[s]
      BY <1>10, <1>12, <3>1
    <3>2. CASE list # attributesList[s]
      <4>1. s \in stale'
        BY <1>12, <3>2
      <4> QED
        BY <1>10, <4>1 DEF GoodList, Good
    <3> QED
      BY <3>1, <3>2
  <2> QED
    BY <1>3, <1>9, <1>11, <2>1, <2>2, <2>3, <2>4, OneServerWrites
<1>13. CASE /\ observedList' = [observedList EXCEPT ![s] = observe_setParameters(s, u, list)]
            /\ UNCHANGED stale
  <2>1. PICK new : new = observe_setParameters(s, u, list)
    OBVIOUS
  <2>2. GoodList(new, list, s \in stale) /\ StayFlagged(observedList[s], new)
    BY <1>2, <1>4, <1>8, <2>1, SetParametersGood
  <2>3. GoodList(new, list, s \in stale')
    BY <1>13, <2>2
  <2>4. stale' \subseteq Server /\ \A r \in Server : r # s => (r \in stale' <=> r \in stale)
    BY <1>10, <1>13
  <2>5. observedList' = [observedList EXCEPT ![s] = new]
    BY <1>13, <2>1
  <2> QED
    BY <1>3, <1>9, <1>11, <2>2, <2>3, <2>4, <2>5, OneServerWrites
<1>14. CASE /\ \E left \in observe_setParametersFails(s, u, list) :
                 observedList' = [observedList EXCEPT ![s] = left]
            /\ stale' = stale \cup {s}
  <2>1. PICK left \in observe_setParametersFails(s, u, list) :
          observedList' = [observedList EXCEPT ![s] = left]
    BY <1>14
  <2>2. GoodList(left, list, TRUE) /\ StayFlagged(observedList[s], left)
    BY <1>2, <1>4, <1>8, SetParametersFailsGood
  <2>3. s \in stale'
    BY <1>14
  <2>4. GoodList(left, list, s \in stale')
    BY <2>2, <2>3 DEF GoodList, Good
  <2>5. stale' \subseteq Server /\ \A r \in Server : r # s => (r \in stale' <=> r \in stale)
    BY <1>10, <1>14
  <2> QED
    BY <1>3, <1>9, <1>11, <2>1, <2>2, <2>4, <2>5, OneServerWrites
<1> QED
  BY <1>3, <1>12, <1>13, <1>14

LEMMA DeleteKeeps ==
  ASSUME ListsInv, NEW i, DeleteInstance(i)
  PROVE  ListsInv' /\ AllFlagged
<1> DEFINE A(s) == {k \in DOMAIN observedList[s] : observedList[s][k].uri.inst # i}
<1>1. PICK new : new = [s \in Server |-> Sublist(observedList[s], A(s))]
  OBVIOUS
<1>2. /\ observedList' = [s \in Server |-> new[s]]
      /\ UNCHANGED <<attributesList, registered, stale>>
  BY <1>1 DEF DeleteInstance, observe_clear
<1>3. ASSUME NEW s \in Server
      PROVE  /\ GoodList(new[s], attributesList[s], s \in stale)
             /\ StayFlagged(observedList[s], new[s])
             /\ DOMAIN observedList[s] = {} => DOMAIN new[s] = {}
  <2>1. GoodList(observedList[s], attributesList[s], s \in stale)
    BY DEF ListsInv
  <2>2. PICK B : B = A(s)
    OBVIOUS
  <2>3. B \in SUBSET DOMAIN observedList[s] /\ new[s] = Sublist(observedList[s], B)
    BY <1>1, <2>2
  <2> QED
    BY <2>1, <2>3, SublistGood
<1>4. /\ \A s \in Server : GoodList(new[s], attributesList[s], s \in stale)
      /\ \A s \in Server : DOMAIN observedList[s] = {} => DOMAIN new[s] = {}
      /\ \A s \in Server : StayFlagged(observedList[s], new[s])
  BY <1>3
<1> QED
  BY <1>2, <1>4, EachServer

\* Every list changes in place.
LEMMA EachChanges ==
  ASSUME ListsInv, NEW change,
         observedList' = [s \in Server |-> [k \in DOMAIN observedList[s] |-> change[s][k]]],
         UNCHANGED <<attributesList, registered, stale>>,
         \A s \in Server : \A k \in DOMAIN observedList[s] :
           /\ Kept(change[s][k]) /\ change[s][k].token = observedList[s][k].token
           /\ change[s][k].uri = observedList[s][k].uri
           /\ change[s][k].attributes = observedList[s][k].attributes
  PROVE  /\ ListsInv'
         /\ \A s \in Server : DOMAIN observedList'[s] = DOMAIN observedList[s]
         /\ \A s \in Server : \A k \in DOMAIN observedList[s] : observedList'[s][k] = change[s][k]
         /\ (\A s \in Server : \A k \in DOMAIN observedList[s] :
               observedList[s][k].update => change[s][k].update) => AllFlagged
<1>1. PICK new : new = [s \in Server |-> [k \in DOMAIN observedList[s] |-> change[s][k]]]
  OBVIOUS
<1>2. \A s \in Server : new[s] = [k \in DOMAIN observedList[s] |-> change[s][k]]
  BY <1>1
<1>3. ASSUME NEW s \in Server
      PROVE  /\ GoodList(new[s], attributesList[s], s \in stale)
             /\ DOMAIN new[s] = DOMAIN observedList[s]
             /\ \A k \in DOMAIN observedList[s] : new[s][k] = change[s][k]
             /\ (\A k \in DOMAIN observedList[s] : observedList[s][k].update => change[s][k].update)
                  => StayFlagged(observedList[s], new[s])
  <2>1. PICK old : old = observedList[s]
    OBVIOUS
  <2>2. PICK list : list = attributesList[s]
    OBVIOUS
  <2>3. PICK ahead : ahead = (s \in stale)
    OBVIOUS
  <2>4. PICK l : l = new[s]
    OBVIOUS
  <2>5. GoodList(old, list, ahead)
    BY <2>1, <2>2, <2>3 DEF ListsInv
  <2>6. DOMAIN l = DOMAIN old /\ \A k \in DOMAIN old : l[k] = change[s][k]
    BY <1>2, <2>1, <2>4
  <2>7. l = [k \in DOMAIN old |-> l[k]]
    BY <1>2, <2>1, <2>4
  <2>8. \A k \in DOMAIN old : Good(l[k], list, ahead) /\ l[k].token = old[k].token
    <3>1. ASSUME NEW k \in DOMAIN old
          PROVE  Good(l[k], list, ahead) /\ l[k].token = old[k].token
      <4>1. Good(old[k], list, ahead)
        BY <2>5, ListIs
      <4>2. Kept(old[k]) /\ (ahead \/ old[k].attributes = Copy(list, old[k].uri))
        BY <4>1, GoodIs
      <4>3. /\ Kept(l[k]) /\ l[k].token = old[k].token /\ l[k].uri = old[k].uri
            /\ l[k].attributes = old[k].attributes
        BY <2>1, <2>6
      <4> QED
        BY <4>2, <4>3, GoodIs
    <3> QED
      BY <3>1
  <2>9. /\ GoodList(l, list, ahead)
        /\ (\A k \in DOMAIN old : old[k].update => l[k].update) => StayFlagged(old, l)
    BY <2>5, <2>7, <2>8, MapGood
  <2> QED
    BY <2>1, <2>2, <2>3, <2>4, <2>6, <2>9
<1>4. observedList' = [s \in Server |-> new[s]]
  BY <1>1, <1>2
<1>5. /\ ListsInv' /\ \A s \in Server : observedList'[s] = new[s]
      /\ (\A s \in Server : StayFlagged(observedList[s], new[s])) => AllFlagged
  <2>1. /\ \A s \in Server : GoodList(new[s], attributesList[s], s \in stale)
        /\ \A s \in Server : DOMAIN observedList[s] = {} => DOMAIN new[s] = {}
    BY <1>3
  <2> QED
    BY <1>4, <2>1, EachServer
<1> QED
  BY <1>3, <1>5

LEMMA CloseKeeps ==
  ASSUME ListsInv, NEW s \in Server, lwm2m_server_close(s)
  PROVE  ListsInv' /\ AllFlagged
<1>1. PICK list : list = [u \in {} |-> NoAttribute]
  OBVIOUS
<1>2. list = [u \in {} |-> list[u]]
  BY <1>1
<1>3. list \in AttributesLists
  BY <1>2, MakesList
<1>4. /\ observedList' = [observedList EXCEPT ![s] = << >>]
      /\ attributesList' = [attributesList EXCEPT ![s] = list]
      /\ stale' = stale \ {s} /\ registered' = registered \ {s}
  BY <1>1 DEF lwm2m_server_close
<1>5. stale \subseteq Server /\ registered \subseteq Server
  BY DEF ListsInv
<1>6. /\ stale' \subseteq Server /\ \A r \in Server : r # s => (r \in stale' <=> r \in stale)
      /\ registered' \subseteq Server
      /\ \A r \in Server : r # s /\ r \in registered => r \in registered'
  BY <1>4, <1>5
<1>7. GoodList(<< >>, list, s \in stale') /\ StayFlagged(observedList[s], << >>)
  BY DEF GoodList, UniqueTokens, StayFlagged
<1>8. DOMAIN << >> = {} /\ DOMAIN list = {}
  BY <1>1
<1> QED
  BY <1>3, <1>4, <1>6, <1>7, <1>8, OneServerWrites

LEMMA ResourceChangedKeeps ==
  ASSUME ListsInv, NEW i, NEW v, ResourceChanged(i, v)
  PROVE  ListsInv' /\ AllFlagged
<1>1. PICK change :
        change = [s \in Server |-> [k \in DOMAIN observedList[s] |->
          IF observedList[s][k].uri.inst = i
          THEN [observedList[s][k] EXCEPT !.update = TRUE] ELSE observedList[s][k]]]
  OBVIOUS
<1>2. observedList' = [s \in Server |-> [k \in DOMAIN observedList[s] |-> change[s][k]]]
      /\ UNCHANGED <<attributesList, registered, stale>>
  BY <1>1 DEF ResourceChanged, lwm2m_resource_value_changed
<1>3. ASSUME NEW s \in Server, NEW k \in DOMAIN observedList[s]
      PROVE  /\ Kept(change[s][k]) /\ change[s][k].token = observedList[s][k].token
             /\ change[s][k].uri = observedList[s][k].uri
             /\ change[s][k].attributes = observedList[s][k].attributes
             /\ observedList[s][k].update => change[s][k].update
  <2>1. PICK o : o = observedList[s][k]
    OBVIOUS
  <2>2. Kept(o)
    BY <2>1 DEF ListsInv, GoodList, Good
  <2>3. PICK n : n = change[s][k]
    OBVIOUS
  <2>4. n = IF o.uri.inst = i THEN [o EXCEPT !.update = TRUE] ELSE o
    BY <1>1, <2>1, <2>3
  <2>5. CASE o.uri.inst = i
    <3>1. n = [o EXCEPT !.update = TRUE]
      BY <2>4, <2>5
    <3>2. o \in Observation
      BY <2>2 DEF Kept
    <3>3. /\ n \in Observation /\ n.token = o.token /\ n.uri = o.uri /\ n.attributes = o.attributes
          /\ n.update = TRUE /\ n.told = o.told /\ n.lastValue = o.lastValue
      BY <3>1, <3>2 DEF Observation
    <3>4. Kept(n)
      BY <2>2, <3>3 DEF Kept
    <3> QED
      BY <2>1, <2>3, <3>3, <3>4
  <2>6. CASE o.uri.inst # i
    BY <2>1, <2>2, <2>3, <2>4, <2>6
  <2> QED
    BY <2>5, <2>6
<1>4. /\ \A s \in Server : \A k \in DOMAIN observedList[s] :
           /\ Kept(change[s][k]) /\ change[s][k].token = observedList[s][k].token
           /\ change[s][k].uri = observedList[s][k].uri
           /\ change[s][k].attributes = observedList[s][k].attributes
      /\ \A s \in Server : \A k \in DOMAIN observedList[s] :
           observedList[s][k].update => change[s][k].update
  BY <1>3
<1> QED
  BY <1>2, <1>4, EachChanges

\* The steps that interrupt select or come before it.
LEMMA AwakeKeeps ==
  ASSUME ListsInv, DataInv,
         \/ \E s \in Server :
              \/ \E t \in Token : observe_cancel(s, t) \/ \E u \in Targets[t] : Observe(s, t, u)
              \/ \E query \in Queries : WriteAttributes(s, query)
              \/ lwm2m_server_close(s)
              \/ Registers(s)
         \/ \E i \in Instance :
              \/ DeleteInstance(i)
              \/ objectRemoveInstance(i)
              \/ \E v \in Values : ResourceChanged(i, v)
              \/ \E x \in {"there", "failing"} : InstanceBecomes(i, x)
         \/ \E enter \in BOOLEAN : clientNotificationLock(enter)
  PROVE  ListsInv' /\ AllFlagged /\ timeout' = 0
<1>1. ASSUME NEW s \in Server,
             \/ \E t \in Token : observe_cancel(s, t) \/ \E u \in Targets[t] : Observe(s, t, u)
             \/ \E query \in Queries : WriteAttributes(s, query)
             \/ lwm2m_server_close(s)
      PROVE  ListsInv' /\ AllFlagged /\ timeout' = 0
  <2>1. ListsInv' /\ AllFlagged
    BY <1>1, CancelKeeps, ObserveKeeps, WriteAttributesKeeps, CloseKeeps
  <2>2. timeout' = 0
    BY <1>1 DEF observe_cancel, Observe, WriteAttributes, lwm2m_server_close, Awake
  <2> QED
    BY <2>1, <2>2
<1>2. ASSUME NEW s \in Server, Registers(s)
      PROVE  ListsInv' /\ AllFlagged /\ timeout' = 0
  <2>1. /\ UNCHANGED <<observedList, attributesList, stale>>
        /\ registered' \subseteq Server /\ registered \subseteq registered' /\ timeout' = 0
    BY <1>2 DEF Registers, ListsInv, Awake
  <2> QED
    BY <2>1, NoServer
<1>3. ASSUME NEW i \in Instance, \/ objectRemoveInstance(i)
                                 \/ \E x \in {"there", "failing"} : InstanceBecomes(i, x)
      PROVE  ListsInv' /\ AllFlagged /\ timeout' = 0
  <2>1. /\ UNCHANGED <<observedList, attributesList, stale>>
        /\ registered' \subseteq Server /\ registered \subseteq registered' /\ timeout' = 0
    BY <1>3 DEF objectRemoveInstance, InstanceBecomes, ListsInv, Awake
  <2> QED
    BY <2>1, NoServer
<1>4. ASSUME NEW i \in Instance, DeleteInstance(i) \/ \E v \in Values : ResourceChanged(i, v)
      PROVE  ListsInv' /\ AllFlagged /\ timeout' = 0
  <2>1. ListsInv' /\ AllFlagged
    BY <1>4, DeleteKeeps, ResourceChangedKeeps
  <2>2. timeout' = 0
    BY <1>4 DEF DeleteInstance, ResourceChanged, Awake
  <2> QED
    BY <2>1, <2>2
<1>5. ASSUME NEW enter \in BOOLEAN, clientNotificationLock(enter)
      PROVE  ListsInv' /\ AllFlagged /\ timeout' = 0
  <2>1. /\ UNCHANGED <<observedList, attributesList, stale>>
        /\ registered' \subseteq Server /\ registered \subseteq registered' /\ timeout' = 0
    BY <1>5 DEF clientNotificationLock, ListsInv, Awake
  <2> QED
    BY <2>1, NoServer
<1> QED
  BY <1>1, <1>2, <1>3, <1>4, <1>5

-----------------------------------------------------------------------------
(* Time, and the pass                                                      *)

LEMMA KeptIs ==
  ASSUME ListsInv, NEW s \in Server, NEW k \in DOMAIN observedList[s]
  PROVE  Kept(observedList[s][k]) /\ observedList[s][k] \in Observation
  BY DEF ListsInv, GoodList, Good, Kept

\* A pmax that is kept is a number.
LEMMA PmaxIs ==
  ASSUME NEW o \in Observation, KeepsPmax(o)
  PROVE  o.attributes["pmax"] \in Nat /\ o.age \in 0..MaxAge
<1>1. o.attributes \in AttributeSet /\ o.age \in 0..MaxAge
  BY DEF Observation
<1>2. "pmax" \in DOMAIN o.attributes
  BY DEF KeepsPmax, Has
<1>3. o.attributes["pmax"] \in Int /\ o.attributes["pmax"] >= 0
  BY <1>1, <1>2, AttributeSetIs
<1> QED
  BY <1>1, <1>3

LEMMA TickKeeps ==
  ASSUME ListsInv, DataInv, SleepInv, Tick
  PROVE  ListsInv' /\ AllFlagged /\ SleepInv' /\ timeout' \in (-MaxAge)..MaxSleep
<1>1. PICK change :
        change = [s \in Server |-> [k \in DOMAIN observedList[s] |->
          [observedList[s][k] EXCEPT !.age = Min({observedList[s][k].age + 1, MaxAge})]]]
  OBVIOUS
<1>2. /\ observedList' = [s \in Server |-> [k \in DOMAIN observedList[s] |-> change[s][k]]]
      /\ UNCHANGED <<attributesList, registered, stale>> /\ UNCHANGED instance
      /\ timeout > 0 /\ timeout' = timeout - 1
  BY <1>1 DEF Tick
<1>3. ASSUME NEW s \in Server, NEW k \in DOMAIN observedList[s]
      PROVE  /\ Kept(change[s][k]) /\ change[s][k].token = observedList[s][k].token
             /\ change[s][k].uri = observedList[s][k].uri
             /\ change[s][k].attributes = observedList[s][k].attributes
             /\ change[s][k].update = observedList[s][k].update
             /\ change[s][k].age <= observedList[s][k].age + 1
  <2>1. PICK o : o = observedList[s][k]
    OBVIOUS
  <2>2. Kept(o) /\ o \in Observation
    BY <2>1, KeptIs
  <2>3. PICK m : m = Min({o.age + 1, MaxAge})
    OBVIOUS
  <2>4. m \in 0..MaxAge /\ m <= o.age + 1
    <3>1. o.age \in 0..MaxAge /\ MaxAge \in Nat
      BY <2>2, TimeAssumption DEF Observation
    <3>2. PICK A : A = {o.age + 1, MaxAge}
      OBVIOUS
    <3>3. A \in SUBSET Int /\ A # {} /\ 0 \in Int /\ \A x \in A : 0 <= x
      BY <3>1, <3>2
    <3>4. Min(A) \in A /\ \A x \in A : Min(A) <= x
      BY <3>3, MinProperties
    <3>5. m \in {o.age + 1, MaxAge} /\ m <= o.age + 1 /\ m <= MaxAge
      BY <2>3, <3>2, <3>4
    <3> QED
      BY <3>1, <3>5
  <2>5. PICK n : n = change[s][k]
    OBVIOUS
  <2>6. n = [o EXCEPT !.age = m]
    BY <1>1, <2>1, <2>3, <2>5
  <2>7. /\ n \in Observation /\ n.token = o.token /\ n.uri = o.uri /\ n.attributes = o.attributes
        /\ n.update = o.update /\ n.told = o.told /\ n.lastValue = o.lastValue /\ n.age = m
    BY <2>2, <2>4, <2>6 DEF Observation
  <2>8. Kept(n)
    BY <2>2, <2>7 DEF Kept
  <2> QED
    BY <2>1, <2>4, <2>5, <2>7, <2>8
<1>4. /\ ListsInv' /\ AllFlagged
      /\ \A s \in Server : DOMAIN observedList'[s] = DOMAIN observedList[s]
      /\ \A s \in Server : \A k \in DOMAIN observedList[s] : observedList'[s][k] = change[s][k]
  <2>1. /\ \A s \in Server : \A k \in DOMAIN observedList[s] :
             /\ Kept(change[s][k]) /\ change[s][k].token = observedList[s][k].token
             /\ change[s][k].uri = observedList[s][k].uri
             /\ change[s][k].attributes = observedList[s][k].attributes
        /\ \A s \in Server : \A k \in DOMAIN observedList[s] :
             observedList[s][k].update => change[s][k].update
    BY <1>3
  <2> QED
    BY <1>2, <2>1, EachChanges
<1>5. timeout' \in (-MaxAge)..MaxSleep
  BY <1>2, TimeAssumption DEF DataInv
<1>6. SleepInv'
  <2> SUFFICES ASSUME timeout' > 0, AllReadable', NEW s \in Server, NEW k \in DOMAIN observedList'[s],
                      KeepsPmax(observedList'[s][k])
               PROVE  observedList'[s][k].age + timeout' <= observedList'[s][k].attributes["pmax"]
    BY DEF SleepInv, InTime
  <2>1. k \in DOMAIN observedList[s]
    BY <1>4
  <2>2. PICK o, n : o = observedList[s][k] /\ n = observedList'[s][k]
    OBVIOUS
  <2>3. /\ n.uri = o.uri /\ n.attributes = o.attributes /\ n.age <= o.age + 1
        /\ Kept(n) /\ Kept(o)
    BY <1>3, <1>4, <2>1, <2>2, KeptIs
  <2>4. AllReadable
    <3> SUFFICES ASSUME NEW r \in Server, NEW j \in DOMAIN observedList[r]
                 PROVE  Readable(observedList[r][j])
      BY DEF AllReadable, Observations
    <3>1. j \in DOMAIN observedList'[r] /\ observedList'[r][j].uri = observedList[r][j].uri
      BY <1>3, <1>4
    <3>2. instance'[observedList'[r][j].uri.inst] = "there"
      BY <3>1 DEF AllReadable, Observations, Readable
    <3> QED
      BY <1>2, <3>1, <3>2 DEF Readable
  <2>5. KeepsPmax(o)
    BY <2>2, <2>3 DEF KeepsPmax, Has
  <2>6. o.age + timeout <= o.attributes["pmax"]
    BY <1>2, <2>1, <2>2, <2>4, <2>5 DEF SleepInv, InTime
  <2>7. o.attributes["pmax"] \in Nat /\ o.age \in Int /\ n.age \in Int /\ timeout \in Int
    BY <2>2, <2>3, <2>5, PmaxIs, TimeAssumption DEF Kept, Observation, DataInv
  <2> QED
    BY <1>2, <2>2, <2>3, <2>6, <2>7
<1> QED
  BY <1>4, <1>5, <1>6

\* What a pass leaves of each observation, and the sleep it allows.
PassIs(left) ==
  /\ DOMAIN left = Reached
  /\ \A c \in Reached : \E allocations : left[c] = Visited(At(c), allocations)
  /\ observedList' = [s \in Server |-> [k \in DOMAIN observedList[s] |->
       IF <<s, k>> \in DOMAIN left THEN left[<<s, k>>] ELSE observedList[s][k]]]
  /\ timeout' = Min({MaxSleep} \cup {Sleep(o) : o \in {n \in Range(left) : KeepsPmax(n)}})

LEMMA StepIsPass ==
  ASSUME observe_step
  PROVE  /\ \E left : PassIs(left)
         /\ UNCHANGED <<attributesList, registered, instance, value, insideCallback, stale>>
<1>1. PICK left \in Passes :
        /\ observedList' = [s \in Server |-> [k \in DOMAIN observedList[s] |->
             IF <<s, k>> \in DOMAIN left THEN left[<<s, k>>] ELSE observedList[s][k]]]
        /\ timeout' = Min({MaxSleep} \cup {Sleep(o) : o \in {n \in Range(left) : KeepsPmax(n)}})
  BY DEF observe_step
<1>2. PICK reached, notified : reached = Reached /\ left \in Left(reached, notified)
  BY DEF Passes
<1>3. PICK allocations :
        left = [c \in reached |->
                  Visited(At(c), IF c \in notified THEN allocations[c] ELSE "succeed")]
  BY <1>2 DEF Left
<1>4. DOMAIN left = Reached /\ \A c \in Reached : \E a : left[c] = Visited(At(c), a)
  BY <1>2, <1>3
<1> QED
  BY <1>1, <1>4 DEF PassIs, observe_step

LEMMA CellsAre ==
  \A c : c \in Cells <=> \E s \in Server : \E k \in DOMAIN observedList[s] : c = <<s, k>>
  BY DEF Cells

\* An observation after the pass: visited, or as it was.
LEMMA PassChanges ==
  ASSUME ListsInv, DataInv, NEW left, PassIs(left),
         UNCHANGED <<attributesList, registered, instance, value, insideCallback, stale>>
  PROVE  /\ ListsInv'
         /\ \A s \in Server : DOMAIN observedList'[s] = DOMAIN observedList[s]
         /\ \A s \in Server : \A k \in DOMAIN observedList[s] :
              /\ \/ <<s, k>> \in Reached /\ observedList'[s][k] = left[<<s, k>>]
                 \/ <<s, k>> \notin Reached /\ observedList'[s][k] = observedList[s][k]
              /\ observedList'[s][k].token = observedList[s][k].token
              /\ observedList'[s][k].uri = observedList[s][k].uri
              /\ ToldOrUnwanted(observedList[s][k], observedList'[s][k])
              /\ ~PminElapsed(observedList[s][k]) =>
                   /\ observedList'[s][k].age = observedList[s][k].age
                   /\ observedList'[s][k].told = observedList[s][k].told
<1>1. PICK change :
        change = [s \in Server |-> [k \in DOMAIN observedList[s] |->
          IF <<s, k>> \in DOMAIN left THEN left[<<s, k>>] ELSE observedList[s][k]]]
  OBVIOUS
<1>2. observedList' = [s \in Server |-> [k \in DOMAIN observedList[s] |-> change[s][k]]]
  BY <1>1 DEF PassIs
<1>3. ASSUME NEW s \in Server, NEW k \in DOMAIN observedList[s]
      PROVE  /\ Kept(change[s][k])
             /\ change[s][k].token = observedList[s][k].token
             /\ change[s][k].uri = observedList[s][k].uri
             /\ change[s][k].attributes = observedList[s][k].attributes
             /\ \/ <<s, k>> \in Reached /\ change[s][k] = left[<<s, k>>]
                \/ <<s, k>> \notin Reached /\ change[s][k] = observedList[s][k]
             /\ ToldOrUnwanted(observedList[s][k], change[s][k])
             /\ ~PminElapsed(observedList[s][k]) =>
                  /\ change[s][k].age = observedList[s][k].age
                  /\ change[s][k].told = observedList[s][k].told
  <2>1. PICK o : o = observedList[s][k]
    OBVIOUS
  <2>2. PICK n : n = change[s][k]
    OBVIOUS
  <2>3. Kept(o)
    BY <2>1, KeptIs
  <2>4. n = IF <<s, k>> \in Reached THEN left[<<s, k>>] ELSE o
    BY <1>1, <2>1, <2>2 DEF PassIs
  <2>5. /\ Kept(n) /\ n.token = o.token /\ n.uri = o.uri /\ n.attributes = o.attributes
        /\ \/ <<s, k>> \in Reached /\ n = left[<<s, k>>]
           \/ <<s, k>> \notin Reached /\ n = o
        /\ ToldOrUnwanted(o, n)
        /\ ~PminElapsed(o) => n.age = o.age /\ n.told = o.told
    <3>1. CASE <<s, k>> \in Reached
      <4>1. PICK allocations : left[<<s, k>>] = Visited(At(<<s, k>>), allocations)
        BY <3>1 DEF PassIs
      <4>2. n = Visited(o, allocations)
        BY <2>1, <2>4, <3>1, <4>1 DEF At
      <4>3. value \in [Instance -> Values] /\ insideCallback \in BOOLEAN
        BY DEF DataInv
      <4>4. /\ Kept(n) /\ n.attributes = o.attributes /\ n.token = o.token /\ n.uri = o.uri
            /\ ToldOrUnwanted(o, n)
            /\ ~PminElapsed(o) => n.age = o.age /\ n.told = o.told
        BY <2>3, <4>2, <4>3, VisitedIs
      <4> QED
        BY <2>4, <3>1, <4>4
    <3>2. CASE <<s, k>> \notin Reached
      <4>1. n = o
        BY <2>4, <3>2
      <4> QED
        BY <2>3, <3>2, <4>1 DEF ToldOrUnwanted
    <3> QED
      BY <3>1, <3>2
  <2> QED
    BY <2>1, <2>2, <2>5
<1>4. /\ ListsInv'
      /\ \A s \in Server : DOMAIN observedList'[s] = DOMAIN observedList[s]
      /\ \A s \in Server : \A k \in DOMAIN observedList[s] : observedList'[s][k] = change[s][k]
  <2>1. \A s \in Server : \A k \in DOMAIN observedList[s] :
             /\ Kept(change[s][k]) /\ change[s][k].token = observedList[s][k].token
             /\ change[s][k].uri = observedList[s][k].uri
             /\ change[s][k].attributes = observedList[s][k].attributes
    BY <1>3
  <2> QED
    BY <1>2, <2>1, EachChanges
<1>5. ASSUME NEW s \in Server, NEW k \in DOMAIN observedList[s]
      PROVE  /\ \/ <<s, k>> \in Reached /\ observedList'[s][k] = left[<<s, k>>]
                \/ <<s, k>> \notin Reached /\ observedList'[s][k] = observedList[s][k]
             /\ observedList'[s][k].token = observedList[s][k].token
             /\ observedList'[s][k].uri = observedList[s][k].uri
             /\ ToldOrUnwanted(observedList[s][k], observedList'[s][k])
             /\ ~PminElapsed(observedList[s][k]) =>
                  /\ observedList'[s][k].age = observedList[s][k].age
                  /\ observedList'[s][k].told = observedList[s][k].told
  <2>1. observedList'[s][k] = change[s][k]
    BY <1>4
  <2> QED
    BY <1>3, <2>1
<1> QED
  BY <1>4, <1>5

\* select is not asked to sleep past a pmax.
LEMMA SleepIs ==
  ASSUME ListsInv, DataInv, NEW left, PassIs(left),
         \A c \in Reached : Kept(left[c])
  PROVE  /\ timeout' \in (-MaxAge)..MaxSleep
         /\ \A c \in Reached : InTime(left[c], timeout')
<1> DEFINE keeping == {n \in Range(left) : KeepsPmax(n)}
           A == {MaxSleep} \cup {Sleep(o) : o \in keeping}
<1>1. ASSUME NEW o \in keeping
      PROVE  o.attributes["pmax"] \in Nat /\ o.age \in 0..MaxAge /\ Sleep(o) = o.attributes["pmax"] - o.age
  <2>1. o \in Observation /\ KeepsPmax(o)
    BY DEF PassIs, Range, Kept
  <2> QED
    BY <2>1, PmaxIs DEF Sleep
<1>2. A \in SUBSET Int /\ A # {} /\ -MaxAge \in Int /\ \A x \in A : -MaxAge <= x
  <2>1. MaxSleep \in Nat /\ MaxAge \in Nat
    BY TimeAssumption
  <2>2. \A o \in keeping : Sleep(o) \in Int /\ -MaxAge <= Sleep(o)
    BY <1>1, <2>1
  <2> HIDE DEF keeping
  <2> QED
    BY <2>1, <2>2
<1>3. Min(A) \in A /\ \A x \in A : Min(A) <= x
  <2> HIDE DEF A
  <2> QED
    BY <1>2, MinProperties
<1>4. timeout' = Min(A)
  BY DEF PassIs
<1>5. timeout' \in Int /\ -MaxAge <= timeout' /\ timeout' <= MaxSleep
  BY <1>2, <1>3, <1>4
<1>6. ASSUME NEW c \in Reached, KeepsPmax(left[c])
      PROVE  left[c].age + timeout' <= left[c].attributes["pmax"]
  <2>1. PICK o : o = left[c]
    OBVIOUS
  <2>2. o \in keeping
    BY <1>6, <2>1 DEF PassIs, Range
  <2>3. timeout' <= Sleep(o)
    BY <1>3, <1>4, <2>2
  <2>4. o.attributes["pmax"] \in Nat /\ o.age \in 0..MaxAge /\ Sleep(o) = o.attributes["pmax"] - o.age
    BY <1>1, <2>2
  <2>5. MaxAge \in Nat
    BY TimeAssumption
  <2> QED
    BY <1>5, <2>1, <2>3, <2>4, <2>5
<1> QED
  BY <1>5, <1>6, TimeAssumption DEF InTime

LEMMA StepKeeps ==
  ASSUME ListsInv, DataInv, observe_step
  PROVE  /\ ListsInv' /\ SleepInv' /\ timeout' \in (-MaxAge)..MaxSleep
         /\ \A s \in Server : \A k \in DOMAIN observedList[s], j \in DOMAIN observedList'[s] :
              observedList[s][k].token = observedList'[s][j].token =>
                /\ ToldOrUnwanted(observedList[s][k], observedList'[s][j])
                /\ LaterThanPmin(observedList[s][k], observedList'[s][j])
<1>1. UNCHANGED <<attributesList, registered, instance, value, insideCallback, stale>>
  BY StepIsPass
<1>2. PICK left : PassIs(left)
  BY StepIsPass
<1>3. /\ ListsInv'
      /\ \A s \in Server : DOMAIN observedList'[s] = DOMAIN observedList[s]
      /\ \A s \in Server : \A k \in DOMAIN observedList[s] :
           /\ \/ <<s, k>> \in Reached /\ observedList'[s][k] = left[<<s, k>>]
              \/ <<s, k>> \notin Reached /\ observedList'[s][k] = observedList[s][k]
           /\ observedList'[s][k].token = observedList[s][k].token
           /\ observedList'[s][k].uri = observedList[s][k].uri
           /\ ToldOrUnwanted(observedList[s][k], observedList'[s][k])
           /\ ~PminElapsed(observedList[s][k]) =>
                /\ observedList'[s][k].age = observedList[s][k].age
                /\ observedList'[s][k].told = observedList[s][k].told
  BY <1>1, <1>2, PassChanges
<1>4. \A c \in Reached : Kept(left[c])
  <2> SUFFICES ASSUME NEW c \in Reached PROVE Kept(left[c])
    OBVIOUS
  <2>1. c \in Cells
    BY DEF Reached, Before
  <2>2. PICK s \in Server : \E k \in DOMAIN observedList[s] : c = <<s, k>>
    BY <2>1, CellsAre
  <2>3. PICK k \in DOMAIN observedList[s] : c = <<s, k>>
    BY <2>2
  <2>4. PICK allocations : left[c] = Visited(At(c), allocations)
    BY <1>2 DEF PassIs
  <2>5. At(c) = observedList[s][k]
    BY <2>3 DEF At
  <2>6. Kept(At(c))
    BY <2>5, KeptIs
  <2>7. value \in [Instance -> Values] /\ insideCallback \in BOOLEAN
    BY DEF DataInv
  <2> QED
    BY <2>4, <2>6, <2>7, VisitedIs
<1>5. timeout' \in (-MaxAge)..MaxSleep /\ \A c \in Reached : InTime(left[c], timeout')
  BY <1>2, <1>4, SleepIs
<1>6. SleepInv'
  <2> SUFFICES ASSUME AllReadable', NEW s \in Server, NEW k \in DOMAIN observedList'[s]
               PROVE  InTime(observedList'[s][k], timeout')
    BY DEF SleepInv
  <2>1. k \in DOMAIN observedList[s]
    BY <1>3
  <2>2. \A r \in Server : \A j \in DOMAIN observedList[r] : Readable(observedList[r][j])
    <3> SUFFICES ASSUME NEW r \in Server, NEW j \in DOMAIN observedList[r]
                 PROVE  Readable(observedList[r][j])
      OBVIOUS
    <3>1. j \in DOMAIN observedList'[r] /\ observedList'[r][j].uri = observedList[r][j].uri
      BY <1>3
    <3>2. instance'[observedList'[r][j].uri.inst] = "there"
      BY <3>1 DEF AllReadable, Observations, Readable
    <3> QED
      BY <1>1, <3>1, <3>2 DEF Readable
  <2>3. \A d \in Cells : ~EndsPass(At(d))
    <3> SUFFICES ASSUME NEW d \in Cells PROVE Readable(At(d))
      BY DEF EndsPass
    <3>1. PICK r \in Server : \E j \in DOMAIN observedList[r] : d = <<r, j>>
      BY CellsAre
    <3>2. PICK j \in DOMAIN observedList[r] : d = <<r, j>>
      BY <3>1
    <3> QED
      BY <2>2, <3>2 DEF At
  <2>4. <<s, k>> \in Reached
    <3>1. <<s, k>> \in Cells
      BY <2>1, CellsAre
    <3>2. {d \in Cells : EndsPass(At(d))} = {}
      BY <2>3
    <3> QED
      BY <3>1, <3>2 DEF Reached, Before
  <2> QED
    BY <1>3, <1>5, <2>1, <2>4
<1>7. ASSUME NEW s \in Server, NEW k \in DOMAIN observedList[s], NEW j \in DOMAIN observedList'[s],
             observedList[s][k].token = observedList'[s][j].token
      PROVE  /\ ToldOrUnwanted(observedList[s][k], observedList'[s][j])
             /\ LaterThanPmin(observedList[s][k], observedList'[s][j])
  <2>1. j \in DOMAIN observedList[s] /\ observedList'[s][j].token = observedList[s][j].token
    BY <1>3
  <2>2. j = k
    BY <1>7, <2>1 DEF ListsInv, GoodList, UniqueTokens
  <2>3. /\ ToldOrUnwanted(observedList[s][k], observedList'[s][k])
        /\ ~PminElapsed(observedList[s][k]) =>
             /\ observedList'[s][k].age = observedList[s][k].age
             /\ observedList'[s][k].told = observedList[s][k].told
    BY <1>3
  <2>4. observedList[s][k].age \in Int
    BY KeptIs, TimeAssumption DEF Observation
  <2> QED
    BY <2>2, <2>3, <2>4 DEF LaterThanPmin
<1> QED
  BY <1>3, <1>5, <1>6, <1>7

-----------------------------------------------------------------------------
(* The theorems                                                            *)

LEMMA InitObserve == Init => ObserveInv
<1> SUFFICES ASSUME Init PROVE ObserveInv
  OBVIOUS
<1>1. PICK empty : empty = [u \in {} |-> NoAttribute]
  OBVIOUS
<1>2. empty = [u \in {} |-> empty[u]]
  BY <1>1
<1>3. empty \in AttributesLists
  BY <1>2, MakesList
<1>4. attributesList \in [Server -> AttributesLists] /\ observedList \in [Server -> Seq(Observation)]
  BY <1>1, <1>3 DEF Init
<1>5. \A s \in Server : GoodList(observedList[s], attributesList[s], s \in stale)
  BY DEF Init, GoodList, UniqueTokens
<1>6. ListsInv
  BY <1>4, <1>5 DEF Init, ListsInv
<1>7. DataInv
  <2>1. instance \in [Instance -> {"there", "failing", "absent"}]
    BY DEF Init
  <2>2. value \in [Instance -> Values] /\ insideCallback \in BOOLEAN /\ timeout = 0
    BY DEF Init
  <2>3. 0 \in (-MaxAge)..MaxSleep
    BY TimeAssumption
  <2> QED
    BY <2>1, <2>2, <2>3 DEF DataInv
<1>8. SleepInv
  BY DEF Init, SleepInv
<1> QED
  BY <1>6, <1>7, <1>8 DEF ObserveInv

\* Whatever a step does: the invariant, and what NotificationsAreDue asks of it.
LEMMA NextObserve ==
  ASSUME ObserveInv, [Next]_vars
  PROVE  /\ ObserveInv'
         /\ Stays(ToldOrUnwanted) /\ Stays(LaterThanPmin)
<1> USE DEF ObserveInv
<1>1. CASE observe_step
  <2>1. DataInv'
    <3>1. UNCHANGED <<instance, value, insideCallback>>
      BY <1>1 DEF observe_step
    <3> QED
      BY <1>1, <3>1, StepKeeps DEF DataInv
  <2> QED
    BY <1>1, <2>1, StepKeeps DEF Stays
<1>2. ASSUME ~observe_step, AllFlagged
      PROVE  Stays(ToldOrUnwanted) /\ Stays(LaterThanPmin)
  BY <1>2 DEF Stays, AllFlagged, StayFlagged, ToldOrUnwanted, LaterThanPmin
<1>3. CASE Tick /\ ~observe_step
  <2>1. DataInv'
    <3>1. UNCHANGED <<instance, value, insideCallback>>
      BY <1>3 DEF Tick
    <3> QED
      BY <1>3, <3>1, TickKeeps DEF DataInv
  <2> QED
    BY <1>2, <1>3, <2>1, TickKeeps
<1>4. CASE UNCHANGED vars /\ ~observe_step
  <2>1. AllFlagged
    <3>1. \A s \in Server : StayFlagged(observedList[s], observedList[s])
      BY SameFlagged DEF ListsInv, GoodList
    <3> QED
      BY <1>4, <3>1 DEF AllFlagged, vars
  <2>2. ListsInv'
    BY <1>4 DEF ListsInv, vars
  <2>3. DataInv' /\ SleepInv'
    BY <1>4 DEF DataInv, SleepInv, vars, AllReadable, Observations, Readable
  <2> QED
    BY <1>2, <1>4, <2>1, <2>2, <2>3
<1>5. CASE /\ ~observe_step
           /\ \/ \E s \in Server :
                   \/ \E t \in Token : observe_cancel(s, t) \/ \E u \in Targets[t] : Observe(s, t, u)
                   \/ \E query \in Queries : WriteAttributes(s, query)
                   \/ lwm2m_server_close(s)
                   \/ Registers(s)
              \/ \E i \in Instance :
                   \/ DeleteInstance(i)
                   \/ objectRemoveInstance(i)
                   \/ \E v \in Values : ResourceChanged(i, v)
                   \/ \E x \in {"there", "failing"} : InstanceBecomes(i, x)
              \/ \E enter \in BOOLEAN : clientNotificationLock(enter)
  <2>1. ListsInv' /\ AllFlagged /\ timeout' = 0
    BY <1>5, AwakeKeeps
  <2>2. /\ instance' \in [Instance -> {"there", "failing", "absent"}]
        /\ value' \in [Instance -> Values] /\ insideCallback' \in BOOLEAN
    <3>1. ASSUME NEW s \in Server,
                 \/ \E t \in Token : observe_cancel(s, t) \/ \E u \in Targets[t] : Observe(s, t, u)
                 \/ \E query \in Queries : WriteAttributes(s, query)
                 \/ lwm2m_server_close(s)
                 \/ Registers(s)
          PROVE  UNCHANGED <<instance, value, insideCallback>>
      BY <3>1 DEF observe_cancel, Observe, WriteAttributes, lwm2m_server_close, Registers
    <3>2. ASSUME NEW i \in Instance,
                 \/ DeleteInstance(i)
                 \/ objectRemoveInstance(i)
                 \/ \E x \in {"there", "failing"} : InstanceBecomes(i, x)
          PROVE  /\ instance' \in [Instance -> {"there", "failing", "absent"}]
                 /\ UNCHANGED <<value, insideCallback>>
      BY <3>2 DEF DataInv, DeleteInstance, objectRemoveInstance, InstanceBecomes
    <3>3. ASSUME NEW i \in Instance, NEW v \in Values, ResourceChanged(i, v)
          PROVE  value' \in [Instance -> Values] /\ UNCHANGED <<instance, insideCallback>>
      BY <3>3 DEF DataInv, ResourceChanged
    <3>4. ASSUME NEW enter \in BOOLEAN, clientNotificationLock(enter)
          PROVE  insideCallback' \in BOOLEAN /\ UNCHANGED <<instance, value>>
      BY <3>4 DEF clientNotificationLock
    <3> QED
      BY <1>5, <3>1, <3>2, <3>3, <3>4 DEF DataInv
  <2>3. 0 \in (-MaxAge)..MaxSleep /\ ~(0 > 0)
    BY TimeAssumption
  <2>4. DataInv' /\ SleepInv'
    BY <2>1, <2>2, <2>3 DEF DataInv, SleepInv
  <2> QED
    BY <1>2, <1>5, <2>1, <2>4
<1> QED
  BY <1>1, <1>3, <1>4, <1>5 DEF Next

\* What makes the invariants inductive, in every state.
THEOREM AlwaysObserveInv == Spec => []ObserveInv
<1>1. ObserveInv /\ [Next]_vars => ObserveInv'
  BY NextObserve
<1> QED
  BY <1>1, InitObserve, PTL DEF Spec

\* The variables keep their types, a server that is not registered has nothing, and
\* no token is used twice.
THEOREM ObserveTypes == Spec => []TypeOK
<1>1. ASSUME ObserveInv PROVE TypeOK
  <2> USE <1>1 DEF ObserveInv
  <2>1. /\ DOMAIN observedList = Server /\ DOMAIN attributesList = Server
        /\ registered \subseteq Server /\ stale \subseteq Server
    BY DEF ListsInv
  <2>2. \A s \in Server : \A o \in Observations(s) : IsObservation(o)
    <3> SUFFICES ASSUME NEW s \in Server, NEW k \in DOMAIN observedList[s]
                 PROVE  IsObservation(observedList[s][k])
      BY DEF Observations
    <3>1. PICK o : o = observedList[s][k]
      OBVIOUS
    <3>2. Kept(o) /\ o \in Observation
      BY <3>1, KeptIs
    <3>3. DOMAIN o.attributes \subseteq Attributes /\ \A a \in DOMAIN o.attributes : o.attributes[a] \in Int
      <4>1. o.attributes \in AttributeSet
        BY <3>2 DEF Observation
      <4> QED
        BY <4>1, AttributeSetIs
    <3>4. /\ o.token \in Token /\ o.uri \in Targets[o.token] /\ o.update \in BOOLEAN
          /\ o.age \in 0..MaxAge /\ {o.lastValue, o.told} \subseteq Values \cup {NULL}
      BY <3>2 DEF Kept, Observation
    <3> QED
      BY <3>1, <3>3, <3>4 DEF IsObservation
  <2>3. \A s \in Server : \A u \in DOMAIN attributesList[s] :
          u \in Uri /\ DOMAIN attributesList[s][u] \subseteq Attributes
    <3> SUFFICES ASSUME NEW s \in Server, NEW u \in DOMAIN attributesList[s]
                 PROVE  u \in Uri /\ DOMAIN attributesList[s][u] \subseteq Attributes
      OBVIOUS
    <3>1. attributesList[s] \in AttributesLists
      BY DEF ListsInv
    <3>2. u \in Uri /\ attributesList[s][u] \in AttributeSet
      BY <3>1, ListsAre
    <3> QED
      BY <3>2, AttributeSetIs
  <2>4. \A s \in Server \ registered : observedList[s] = << >> /\ DOMAIN attributesList[s] = {}
    <3> SUFFICES ASSUME NEW s \in Server \ registered
                 PROVE  observedList[s] = << >> /\ DOMAIN attributesList[s] = {}
      OBVIOUS
    <3>1. /\ DOMAIN observedList[s] = {} /\ DOMAIN attributesList[s] = {}
          /\ observedList[s] \in Seq(Observation)
      BY DEF ListsInv
    <3>2. PICK n \in Nat : n = Len(observedList[s]) /\ 1..n = {}
      BY <3>1, LenProperties
    <3>3. Len(observedList[s]) = 0
      <4>1. 1 \notin 1..n
        BY <3>2, Zenon
      <4>2. PICK m \in Nat : m = n
        OBVIOUS
      <4>3. ~(1 <= m)
        BY <4>1, <4>2
      <4> QED
        BY <3>2, <4>2, <4>3
    <3> QED
      BY <3>1, <3>3, EmptySeq
  <2>5. \A s \in Server, t \in Token : Cardinality(Position(s, t)) <= 1
    <3> SUFFICES ASSUME NEW s \in Server, NEW t \in Token
                 PROVE  Cardinality(Position(s, t)) <= 1
      OBVIOUS
    <3>1. \A j, k \in Position(s, t) : j = k
      BY DEF ListsInv, GoodList, UniqueTokens, Position
    <3>2. CASE Position(s, t) = {}
      BY <3>2, FS_EmptySet
    <3>3. CASE Position(s, t) # {}
      <4>1. PICK k : Position(s, t) = {k}
        BY <3>1, <3>3
      <4> QED
        BY <4>1, FS_Singleton
    <3> QED
      BY <3>2, <3>3
  <2> QED
    BY <2>1, <2>2, <2>3, <2>4, <2>5 DEF TypeOK, DataInv
<1> QED
  BY <1>1, AlwaysObserveInv, PTL

\* An observation goes by the attributes its Server wrote, the nearest level first,
\* and compares with the value its Server was told.
THEOREM ObservationsAlwaysAgree == Spec => []ObservationsAgree
<1>1. ASSUME ObserveInv PROVE AttributesAreThoseWritten
  <2> USE <1>1 DEF ObserveInv
  <2> SUFFICES ASSUME NEW s \in Server \ stale, NEW o \in Observations(s), NEW a \in Attributes
               PROVE  LET written == Nearest(s, o.uri, a) IN
                      IF Has(o, a) THEN written = {o.attributes[a]}
                      ELSE \/ written = {}
                           \/ a = "pmin" /\ written = {0}
                           \/ a = "pmax" /\ \E p \in Nearest(s, o.uri, "pmin"), q \in written : q < p
    BY DEF AttributesAreThoseWritten
  <2>1. PICK k \in DOMAIN observedList[s] : o = observedList[s][k]
    BY DEF Observations
  <2>2. Good(o, attributesList[s], s \in stale) /\ s \notin stale
    BY <2>1 DEF ListsInv, GoodList
  <2>3. o.attributes = Copy(attributesList[s], o.uri) /\ Kept(o)
    BY <2>2, GoodIs
  <2>4. o.uri \in ObservedUri
    BY <2>3 DEF Kept, Observation
  <2>5. attributesList[s] \in AttributesLists
    BY DEF ListsInv
  <2>6. LET copy == Copy(attributesList[s], o.uri)
            written == Nearest(s, o.uri, a) IN
        IF a \in DOMAIN copy THEN written = {copy[a]}
        ELSE \/ written = {}
             \/ a = "pmin" /\ written = {0}
             \/ a = "pmax" /\ \E p \in Nearest(s, o.uri, "pmin"), q \in written : q < p
    BY <2>4, <2>5, CopyIsWritten
  <2> QED
    BY <2>1, <2>3, <2>6 DEF Has
<1>2. ASSUME ObserveInv PROVE LastValueWasTold
  BY <1>2, KeptIs DEF ObserveInv, LastValueWasTold, Observations, Kept
<1>3. ObserveInv => ObservationsAgree
  BY <1>1, <1>2 DEF ObservationsAgree
<1> QED
  BY <1>3, AlwaysObserveInv, PTL

\* No pmax passes while select sleeps.
THEOREM PmaxIsAlwaysKept == Spec => []PmaxIsKept
<1>1. ASSUME ObserveInv, timeout > 0, AllReadable, NEW s \in Server, NEW o \in Observations(s),
             KeepsPmax(o)
      PROVE  o.age < o.attributes["pmax"]
  <2>1. PICK k \in DOMAIN observedList[s] : o = observedList[s][k]
    BY DEF Observations
  <2>2. o.age + timeout <= o.attributes["pmax"]
    BY <1>1, <2>1 DEF ObserveInv, SleepInv, InTime
  <2>3. o \in Observation
    BY <1>1, <2>1, KeptIs DEF ObserveInv
  <2>4. o.attributes["pmax"] \in Nat /\ o.age \in 0..MaxAge /\ timeout \in Int
    BY <1>1, <2>3, PmaxIs, TimeAssumption DEF ObserveInv, DataInv
  <2>5. MaxAge \in Nat
    BY TimeAssumption
  <2> QED
    BY <1>1, <2>2, <2>4, <2>5
<1>2. ObserveInv => PmaxIsKept
  BY <1>1 DEF PmaxIsKept
<1> QED
  BY <1>2, AlwaysObserveInv, PTL

\* What is told is told when the attributes of the observation ask for it, and a
\* change is only dropped when they do not.
THEOREM NotificationsAreAlwaysDue == Spec => NotificationsAreDue
<1>1. ObserveInv /\ [Next]_vars => [Stays(ToldOrUnwanted) /\ Stays(LaterThanPmin)]_vars
  BY NextObserve
<1> QED
  BY <1>1, AlwaysObserveInv, PTL DEF Spec, NotificationsAreDue

=============================================================================
