-------------------------- MODULE ManagementProofs --------------------------
(***************************************************************************)
(* Proofs about the Objects of a Client and about what its Servers are     *)
(* told of them, for any Objects, calls, requests and bounds.              *)
(*                                                                         *)
(* The inductive invariant says what each list is: of Objects, of the      *)
(* Instances of an Object, of sensors.  None has two elements of the same  *)
(* identifier, which is what makes the first one found the one that is     *)
(* meant, and an Object takes an Instance of a Server only if it has a     *)
(* Resource that every Create must name.  With what the device, the        *)
(* sensors and the application hold it gives their types.                  *)
(***************************************************************************)
EXTENDS Management, ListProofs

-----------------------------------------------------------------------------
(* Lists without duplicates                                                *)

IsSequence(list) == list \in Seq(ToSet(list))
IsList(list) == IsSequence(list) /\ Distinct(list)

\* The identifier that stands for all of them.
LEMMA AllIs == ALL \in Nat /\ ALL > 0
BY DEF ALL, IOWA_LWM2M_ID_ALL

LEMMA AllIsNone == ALL \notin 0..(ALL - 1)
BY AllIs

\* A sequence is one of its own elements.
LEMMA OwnElements ==
  ASSUME NEW S, NEW list \in Seq(S)
  PROVE  IsSequence(list)
<1>1. Len(list) \in Nat /\ DOMAIN list = 1..Len(list)
  BY LenProperties
<1>2. list \in [1..Len(list) -> ToSet(list)]
  BY LenProperties, ElementOfSeq DEF ToSet
<1> QED
  BY <1>1, <1>2 DEF IsSequence

LEMMA SequenceIs ==
  ASSUME NEW list, IsSequence(list)
  PROVE  /\ Len(list) \in Nat /\ DOMAIN list = 1..Len(list)
         /\ \A i \in 1..Len(list) : list[i] \in ToSet(list)
         /\ \A e \in ToSet(list) : \E i \in 1..Len(list) : list[i] = e
<1>1. Len(list) \in Nat /\ DOMAIN list = 1..Len(list)
  BY LenProperties DEF IsSequence
<1> QED
  BY <1>1 DEF ToSet

LEMMA ListIs ==
  ASSUME NEW list, IsList(list)
  PROVE  /\ Len(list) \in Nat /\ DOMAIN list = 1..Len(list)
         /\ \A i \in 1..Len(list) : list[i] \in ToSet(list)
         /\ \A e \in ToSet(list) : \E i \in 1..Len(list) : list[i] = e
         /\ \A i, j \in 1..Len(list) : list[i] = list[j] => i = j
BY SequenceIs DEF IsList, Distinct

LEMMA EmptyList == IsList(<<>>) /\ ToSet(<<>>) = {} /\ Len(<<>>) = 0
  BY DEF IsList, IsSequence, Distinct, ToSet

LEMMA OneElement ==
  ASSUME NEW e
  PROVE  IsList(<<e>>) /\ ToSet(<<e>>) = {e} /\ Len(<<e>>) = 1
<1>1. DOMAIN <<e>> = 1..1 /\ <<e>>[1] = e /\ Len(<<e>>) = 1
  OBVIOUS
<1>2. 1..1 = {1}
  OBVIOUS
<1>3. ToSet(<<e>>) = {e}
  BY <1>1, <1>2 DEF ToSet
<1>4. <<e>> \in Seq({e})
  OBVIOUS
<1>5. Distinct(<<e>>)
  BY <1>1, <1>2 DEF Distinct
<1> QED
  BY <1>1, <1>3, <1>4, <1>5 DEF IsList, IsSequence

\* iowa_utils_list_add
LEMMA AddedFirst ==
  ASSUME NEW list, IsList(list), NEW e, e \notin ToSet(list)
  PROVE  /\ IsList(<<e>> \o list) /\ ToSet(<<e>> \o list) = ToSet(list) \cup {e}
         /\ Len(<<e>> \o list) = Len(list) + 1
<1> DEFINE S == ToSet(list) \cup {e}
<1>1. list \in Seq(S) /\ e \in S
  <2>1. Len(list) \in Nat /\ list \in [1..Len(list) -> ToSet(list)]
    BY LenProperties DEF IsList, IsSequence
  <2>2. list \in [1..Len(list) -> S]
    BY <2>1
  <2> QED
    BY <2>1, <2>2
<1> HIDE DEF S
<1>2. /\ <<e>> \o list \in Seq(S) /\ Len(<<e>> \o list) = Len(list) + 1
      /\ ToSet(<<e>> \o list) = ToSet(list) \cup {e}
      /\ Distinct(<<e>> \o list)
  BY <1>1, AddHeadProperties DEF IsList, IsSequence
<1> QED
  BY <1>2, OwnElements DEF IsList, IsSequence

\* The new Instance is the last one of its Object.
LEMMA AddedLast ==
  ASSUME NEW list, IsList(list), NEW e, e \notin ToSet(list)
  PROVE  IsList(Append(list, e)) /\ ToSet(Append(list, e)) = ToSet(list) \cup {e}
<1> DEFINE S == ToSet(list) \cup {e}
           longer == Append(list, e)
           n == Len(list)
<1>1. list \in Seq(S) /\ e \in S
  <2>1. Len(list) \in Nat /\ list \in [1..Len(list) -> ToSet(list)]
    BY LenProperties DEF IsList, IsSequence
  <2>2. list \in [1..Len(list) -> S]
    BY <2>1
  <2> QED
    BY <2>1, <2>2
<1> HIDE DEF S
<1>2. /\ longer \in Seq(S) /\ Len(longer) = n + 1
      /\ \A i \in 1..n : longer[i] = list[i]
      /\ longer[n + 1] = e
  BY <1>1, AppendProperties
<1>3. n \in Nat /\ DOMAIN longer = 1..(n + 1)
  BY <1>1, <1>2, LenProperties
<1> HIDE DEF longer, n
<1>4. DOMAIN list = 1..n
  BY <1>1, LenProperties DEF n
<1>5. \A i \in 1..(n + 1) : i \in 1..n \/ i = n + 1
  BY <1>3
<1>6. n + 1 \in 1..(n + 1) /\ 1..n \subseteq 1..(n + 1)
  BY <1>3
<1>7. ToSet(longer) = ToSet(list) \cup {e}
  BY <1>2, <1>3, <1>4, <1>5, <1>6 DEF ToSet
<1>8. Distinct(longer)
  BY <1>2, <1>3, <1>4, <1>5, <1>6 DEF Distinct, IsList, ToSet
<1> QED
  BY <1>2, <1>7, <1>8, OwnElements DEF IsList, IsSequence, longer

\* iowa_utils_list_remove
LEMMA Removed ==
  ASSUME NEW list, IsList(list), NEW i \in 1..Len(list)
  PROVE  /\ IsList(RemoveAt(list, i)) /\ ToSet(RemoveAt(list, i)) = ToSet(list) \ {list[i]}
         /\ Len(RemoveAt(list, i)) = Len(list) - 1
<1>1. RemoveFirst(list, list[i]) = RemoveAt(list, i)
  BY RemoveFirstAt DEF IsList, IsSequence
<1>2. /\ RemoveAt(list, i) \in Seq(ToSet(list)) /\ Distinct(RemoveAt(list, i))
      /\ ToSet(RemoveAt(list, i)) = ToSet(list) \ {list[i]}
  BY <1>1, RemoveFirstProperties DEF IsList, IsSequence
<1>3. Len(RemoveAt(list, i)) = Len(list) - 1
  BY RemoveAtProperties DEF IsList, IsSequence
<1> QED
  BY <1>2, <1>3, OwnElements DEF IsList, IsSequence

\* An element in the place of another.
With(list, i, e) == [list EXCEPT ![i] = e]

LEMMA Replaced ==
  ASSUME NEW list, IsList(list), NEW i \in 1..Len(list), NEW e, e \notin ToSet(list) \ {list[i]}
  PROVE  LET other == With(list, i, e) IN
         IsList(other) /\ ToSet(other) = (ToSet(list) \ {list[i]}) \cup {e} /\ Len(other) = Len(list)
<1> DEFINE other == With(list, i, e)
           n == Len(list)
           S == ToSet(list) \cup {e}
<1>1. n \in Nat /\ list \in [1..n -> ToSet(list)]
  BY LenProperties DEF IsList, IsSequence
<1>2. other \in [1..n -> S] /\ other[i] = e /\ \A j \in 1..n : j # i => other[j] = list[j]
  BY <1>1 DEF With
<1> HIDE DEF other
<1>3. other \in Seq(S) /\ DOMAIN other = 1..n
  BY <1>1, <1>2
<1>4. Len(other) = n
  BY <1>1, <1>3, LenProperties
<1>5. \A j, k \in 1..n : list[j] = list[k] => j = k
  BY ListIs
<1>6. Distinct(other)
  <2> SUFFICES ASSUME NEW j \in 1..n, NEW k \in 1..n, other[j] = other[k] PROVE j = k
    BY <1>3 DEF Distinct
  <2>1. \A m \in 1..n : m # i => list[m] \in ToSet(list) \ {list[i]}
    BY <1>1, <1>5
  <2> QED
    BY <1>2, <1>5, <2>1
<1>7. ToSet(other) = (ToSet(list) \ {list[i]}) \cup {e}
  <2>1. ASSUME NEW j \in 1..n PROVE other[j] \in (ToSet(list) \ {list[i]}) \cup {e}
    BY <1>1, <1>2, <1>5
  <2>2. ASSUME NEW x \in ToSet(list) \ {list[i]} PROVE x \in ToSet(other)
    <3>1. PICK j \in 1..n : list[j] = x
      BY ListIs
    <3>2. j # i /\ other[j] = x
      BY <1>2, <3>1
    <3> QED
      BY <1>3, <3>2 DEF ToSet
  <2>3. e \in ToSet(other)
    BY <1>2, <1>3 DEF ToSet
  <2>4. ToSet(other) \subseteq (ToSet(list) \ {list[i]}) \cup {e}
    BY <1>3, <2>1 DEF ToSet
  <2> QED
    BY <2>2, <2>3, <2>4
<1> QED
  BY <1>3, <1>4, <1>6, <1>7, OwnElements DEF IsList, IsSequence, other, n

\* What SelectInSeq gives is a place of the list, or 0.
LEMMA FirstOf ==
  ASSUME NEW n, NEW A \in SUBSET (1..n), n \in Nat
  PROVE  A # {} => Min(A) \in A
<1>1. \A x \in A : x \in Int /\ 0 <= x
  OBVIOUS
<1> QED
  BY <1>1, MinProperties

-----------------------------------------------------------------------------
(* Finding                                                                 *)

\* An Object is found where it is, and only there.
LEMMA ObjectIndexIs ==
  ASSUME NEW list, IsSequence(list), NEW id
  PROVE  \/ /\ ObjectIndex(list, id) = 0
            /\ \A o \in ToSet(list) : o.objID # id
         \/ /\ ObjectIndex(list, id) \in 1..Len(list)
            /\ ObjectOf(list, id) \in ToSet(list) /\ ObjectOf(list, id).objID = id
<1> DEFINE A == {i \in 1..Len(list) : list[i].objID = id}
<1>1. ObjectIndex(list, id) = IF A # {} THEN Min(A) ELSE 0
  BY DEF ObjectIndex, SelectInSeq
<1>2. A \in SUBSET (1..Len(list)) /\ Len(list) \in Nat
  BY SequenceIs
<1>3. A # {} => Min(A) \in A
  <2> HIDE DEF A
  <2> QED
    BY <1>2, FirstOf
<1>4. CASE A = {}
  <2>1. \A i \in 1..Len(list) : list[i].objID # id
    BY <1>4
  <2>2. \A o \in ToSet(list) : o.objID # id
    BY <2>1, SequenceIs
  <2> QED
    BY <1>1, <1>4, <2>2
<1>5. CASE A # {}
  <2>1. ObjectIndex(list, id) \in A
    BY <1>1, <1>3, <1>5
  <2> HIDE DEF A
  <2>2. ObjectIndex(list, id) \in 1..Len(list) /\ list[ObjectIndex(list, id)].objID = id
    BY <2>1 DEF A
  <2> QED
    BY <2>2, SequenceIs DEF ObjectOf
<1> QED
  BY <1>4, <1>5

\* So is a sensor.
LEMMA SensorIndexIs ==
  ASSUME NEW list, IsSequence(list), NEW id
  PROVE  LET index == SelectInSeq(list, LAMBDA s : s.id = id) IN
         \/ index = 0 /\ \A s \in ToSet(list) : s.id # id
         \/ index \in 1..Len(list) /\ list[index] \in ToSet(list) /\ list[index].id = id
<1> DEFINE A == {i \in 1..Len(list) : list[i].id = id}
           index == SelectInSeq(list, LAMBDA s : s.id = id)
<1>1. index = IF A # {} THEN Min(A) ELSE 0
  BY DEF SelectInSeq
<1>2. A \in SUBSET (1..Len(list)) /\ Len(list) \in Nat
  BY SequenceIs
<1>3. A # {} => Min(A) \in A
  <2> HIDE DEF A
  <2> QED
    BY <1>2, FirstOf
<1> HIDE DEF index
<1>4. CASE A = {}
  <2>1. \A i \in 1..Len(list) : list[i].id # id
    BY <1>4
  <2>2. \A s \in ToSet(list) : s.id # id
    BY <2>1, SequenceIs
  <2> QED
    BY <1>1, <1>4, <2>2 DEF index
<1>5. CASE A # {}
  <2>1. index \in A
    BY <1>1, <1>3, <1>5
  <2> HIDE DEF A
  <2>2. index \in 1..Len(list) /\ list[index].id = id
    BY <2>1 DEF A
  <2>3. list[index] \in ToSet(list)
    BY <2>2, SequenceIs
  <2> QED
    BY <2>2, <2>3 DEF index
<1> QED
  BY <1>4, <1>5

-----------------------------------------------------------------------------
(* An Object                                                               *)

IdentifiersOf(list) == {e.id : e \in ToSet(list)}

GoodObject(o) ==
  /\ DOMAIN o = {"objID", "type", "instanceCb", "resources", "instances"}
  /\ IsList(o.instances)
  /\ \A i, j \in ToSet(o.instances) : i.id = j.id => i = j
  /\ o.type = "single" => ~o.instanceCb /\ IdentifiersOf(o.instances) \subseteq {LWM2M_SINGLE_OBJECT_INSTANCE_ID}

LEMMA InstancesAre ==
  ASSUME NEW o
  PROVE  InstancesOf(o) = IdentifiersOf(o.instances)
BY DEF InstancesOf, IdentifiersOf, ToSet

\* An Object with other Instances.
LEMMA OtherInstances ==
  ASSUME NEW o, GoodObject(o), NEW list
  PROVE  LET p == [o EXCEPT !.instances = list] IN
         /\ DOMAIN p = DOMAIN o /\ p.instances = list
         /\ p.objID = o.objID /\ p.type = o.type /\ p.instanceCb = o.instanceCb /\ p.resources = o.resources
BY DEF GoodObject

\* An Instance is found where it is, unless the identifier is that of none.
LEMMA InstanceIndexIs ==
  ASSUME NEW o, GoodObject(o), NEW id
  PROVE  LET index == object_getInstanceIndex(o, id) IN
         \/ index = 0 /\ (id = ALL \/ id \notin IdentifiersOf(o.instances))
         \/ /\ index \in 1..Len(o.instances) /\ id # ALL
            /\ o.instances[index] \in ToSet(o.instances) /\ o.instances[index].id = id
<1> DEFINE list == o.instances
           index == SelectInSeq(list, LAMBDA s : s.id = id)
<1>1. IsList(list) /\ IsSequence(list) /\ Len(list) \in Nat
  BY ListIs DEF GoodObject, IsList
<1>2. CASE id = ALL
  BY <1>2 DEF object_getInstanceIndex
<1>3. CASE id # ALL /\ o.type = "single"
  <2>1. IdentifiersOf(list) \subseteq {LWM2M_SINGLE_OBJECT_INSTANCE_ID}
    BY <1>3 DEF GoodObject
  <2>2. CASE id = LWM2M_SINGLE_OBJECT_INSTANCE_ID /\ list # <<>>
    <3>1. Len(list) # 0
      BY <1>1, <2>2, EmptySeq DEF IsList, IsSequence
    <3>2. 1 \in 1..Len(list)
      BY <1>1, <3>1
    <3>3. list[1] \in ToSet(list)
      BY <1>1, <3>2, ListIs
    <3>4. list[1].id = id
      BY <2>1, <2>2, <3>3 DEF IdentifiersOf
    <3> QED
      BY <1>3, <2>2, <3>2, <3>3, <3>4 DEF object_getInstanceIndex
  <2>3. CASE ~(id = LWM2M_SINGLE_OBJECT_INSTANCE_ID /\ list # <<>>)
    <3>1. object_getInstanceIndex(o, id) = 0
      BY <1>3, <2>3 DEF object_getInstanceIndex
    <3>2. list = <<>> => IdentifiersOf(list) = {}
      BY EmptyList DEF IdentifiersOf
    <3>3. id \notin IdentifiersOf(list)
      BY <2>1, <2>3, <3>2
    <3> QED
      BY <3>1, <3>3
  <2> QED
    BY <2>2, <2>3
<1>4. CASE id # ALL /\ o.type # "single"
  <2>1. object_getInstanceIndex(o, id) = index
    BY <1>4 DEF object_getInstanceIndex
  <2>2. \/ index = 0 /\ \A s \in ToSet(list) : s.id # id
        \/ index \in 1..Len(list) /\ list[index] \in ToSet(list) /\ list[index].id = id
    BY <1>1, SensorIndexIs
  <2> HIDE DEF index
  <2> QED
    BY <1>4, <2>1, <2>2 DEF IdentifiersOf
<1> QED
  BY <1>2, <1>3, <1>4

\* An Instance more.
LEMMA InstanceAppended ==
  ASSUME NEW o, GoodObject(o), o.type # "single", NEW i, i.id \notin IdentifiersOf(o.instances)
  PROVE  LET p == [o EXCEPT !.instances = Append(@, i)] IN
         GoodObject(p) /\ p.objID = o.objID /\ p.type = o.type /\ p.resources = o.resources /\ p.instanceCb = o.instanceCb
         /\ IdentifiersOf(p.instances) = IdentifiersOf(o.instances) \cup {i.id}
<1> DEFINE p == [o EXCEPT !.instances = Append(@, i)]
<1>1. p = [o EXCEPT !.instances = Append(o.instances, i)]
  BY DEF GoodObject
<1>2. /\ DOMAIN p = DOMAIN o /\ p.instances = Append(o.instances, i)
      /\ p.objID = o.objID /\ p.type = o.type /\ p.instanceCb = o.instanceCb /\ p.resources = o.resources
  BY <1>1, OtherInstances
<1> HIDE DEF p
<1>3. i \notin ToSet(o.instances)
  BY DEF IdentifiersOf
<1>4. IsList(p.instances) /\ ToSet(p.instances) = ToSet(o.instances) \cup {i}
  BY <1>2, <1>3, AddedLast DEF GoodObject
<1>5. IdentifiersOf(p.instances) = IdentifiersOf(o.instances) \cup {i.id}
  BY <1>4 DEF IdentifiersOf
<1>6. \A j, k \in ToSet(p.instances) : j.id = k.id => j = k
  BY <1>4 DEF GoodObject, IdentifiersOf
<1> QED
  BY <1>2, <1>4, <1>5, <1>6 DEF GoodObject, p

\* An Instance less.
LEMMA InstanceTaken ==
  ASSUME NEW o, GoodObject(o), NEW index \in 1..Len(o.instances)
  PROVE  LET p == [o EXCEPT !.instances = RemoveAt(@, index)] IN
         GoodObject(p) /\ p.objID = o.objID /\ p.type = o.type /\ p.resources = o.resources /\ p.instanceCb = o.instanceCb
         /\ IdentifiersOf(p.instances) = IdentifiersOf(o.instances) \ {o.instances[index].id}
<1> DEFINE p == [o EXCEPT !.instances = RemoveAt(@, index)]
           e == o.instances[index]
<1>1. p = [o EXCEPT !.instances = RemoveAt(o.instances, index)]
  BY DEF GoodObject
<1>2. /\ DOMAIN p = DOMAIN o /\ p.instances = RemoveAt(o.instances, index)
      /\ p.objID = o.objID /\ p.type = o.type /\ p.instanceCb = o.instanceCb /\ p.resources = o.resources
  BY <1>1, OtherInstances
<1> HIDE DEF p
<1>3. IsList(p.instances) /\ ToSet(p.instances) = ToSet(o.instances) \ {e}
  BY <1>2, Removed DEF GoodObject
<1>4. e \in ToSet(o.instances)
  BY ListIs DEF GoodObject
<1>5. \A j, k \in ToSet(o.instances) : j.id = k.id => j = k
  BY DEF GoodObject
<1> HIDE DEF e
<1>6. IdentifiersOf(p.instances) = IdentifiersOf(o.instances) \ {e.id}
  BY <1>3, <1>4, <1>5 DEF IdentifiersOf
<1>7. \A j, k \in ToSet(p.instances) : j.id = k.id => j = k
  BY <1>3, <1>5
<1>8. o.type = "single" => ~o.instanceCb /\ IdentifiersOf(o.instances) \subseteq {LWM2M_SINGLE_OBJECT_INSTANCE_ID}
  BY DEF GoodObject
<1>9. DOMAIN o = {"objID", "type", "instanceCb", "resources", "instances"}
  BY DEF GoodObject
<1> QED
  BY <1>2, <1>3, <1>6, <1>7, <1>8, <1>9 DEF GoodObject, p, e

-----------------------------------------------------------------------------
(* What the Servers are told                                               *)

\* A list with an Object more, less or other is still one.
LEMMA SequenceAdded ==
  ASSUME NEW list, IsSequence(list), NEW e
  PROVE  IsSequence(<<e>> \o list)
<1> DEFINE S == ToSet(list) \cup {e}
<1>1. Len(list) \in Nat /\ list \in [1..Len(list) -> ToSet(list)]
  BY LenProperties DEF IsSequence
<1>2. list \in [1..Len(list) -> S] /\ e \in S
  BY <1>1
<1>3. list \in Seq(S)
  BY <1>1, <1>2
<1> HIDE DEF S
<1>4. <<e>> \o list \in Seq(S)
  BY <1>2, <1>3, AddHeadProperties
<1> QED
  BY <1>4, OwnElements

LEMMA SequenceTaken ==
  ASSUME NEW list, IsSequence(list), NEW i \in 1..Len(list)
  PROVE  IsSequence(RemoveAt(list, i))
<1>1. RemoveAt(list, i) \in Seq(ToSet(list))
  BY RemoveAtProperties DEF IsSequence
<1> QED
  BY <1>1, OwnElements

LEMMA SequenceOther ==
  ASSUME NEW list, IsSequence(list), NEW i, NEW e
  PROVE  IsSequence([list EXCEPT ![i] = e])
<1> DEFINE other == [list EXCEPT ![i] = e]
           S == ToSet(list) \cup {e}
<1>1. Len(list) \in Nat /\ list \in [1..Len(list) -> ToSet(list)]
  BY LenProperties DEF IsSequence
<1>2. other \in [1..Len(list) -> S]
  BY <1>1
<1>3. other \in Seq(S)
  BY <1>1, <1>2
<1> QED
  BY <1>3, OwnElements

\* An Object that stays as it is leaves the list as it is.
LEMMA SameObject ==
  ASSUME NEW list, IsSequence(list), NEW id, ObjectIndex(list, id) # 0
  PROVE  LET o == ObjectOf(list, id) IN [list EXCEPT ![ObjectIndex(list, o.objID)] = o] = list
<1> DEFINE i == ObjectIndex(list, id)
<1>1. i \in 1..Len(list) /\ list[i].objID = id
  BY ObjectIndexIs DEF ObjectOf
<1>2. Len(list) \in Nat /\ list \in [1..Len(list) -> ToSet(list)]
  BY LenProperties DEF IsSequence
<1> HIDE DEF i
<1>3. [list EXCEPT ![i] = list[i]] = list
  BY <1>1, <1>2
<1> QED
  BY <1>1, <1>3 DEF ObjectOf, i

Statuses == {"DISCONNECTED", "REGISTERING", "REGISTERED", "UPDATE_PENDING"}

GoodServer(s) ==
  /\ DOMAIN s = {"status", "update", "objects", "sends", "sent", "known"}
  /\ s.status \in Statuses
  /\ s.update \in BOOLEAN /\ s.objects \in BOOLEAN /\ s.sends \in BOOLEAN

\* The message that is on its way has the links if it has any, and the flag is
\* set otherwise; before lwm2m_step there is no Server to tell.
ToldInv ==
  /\ IsSequence(objectList)
  /\ state \in {"INITIAL", "DEVICE_MANAGEMENT"}
  /\ state = "INITIAL" => server.status = "DISCONNECTED"
  /\ GoodServer(server)
  /\ server.status = "REGISTERING" => server.sends
  /\ server.status = "REGISTERED" => ~server.sends
  /\ ServersAreToldOfObjects

LEMMA Flagged ==
  ASSUME NEW s, GoodServer(s), NEW flag
  PROVE  LET t == lwm2mUpdateRegistration(s, flag) IN
         /\ GoodServer(t) /\ t.status = s.status
         /\ t.sends = s.sends /\ t.sent = s.sent /\ t.known = s.known
         /\ ~t.objects => ~s.objects /\ (flag # "OBJECTS" \/ s.status = "DISCONNECTED")
<1> DEFINE raised == s.objects \/ flag = "OBJECTS"
           t == lwm2mUpdateRegistration(s, flag)
<1>1. CASE s.status = "DISCONNECTED"
  <2>1. t = s
    BY <1>1 DEF lwm2mUpdateRegistration
  <2> QED
    BY <1>1, <2>1
<1>2. CASE s.status # "DISCONNECTED"
  <2>1. t = [s EXCEPT !.update = TRUE, !.objects = raised]
    BY <1>2 DEF lwm2mUpdateRegistration, GoodServer, Statuses
  <2>2. raised \in BOOLEAN
    OBVIOUS
  <2>3. raised = (s.objects \/ flag = "OBJECTS")
    OBVIOUS
  <2> HIDE DEF raised, t
  <2>4. /\ DOMAIN t = DOMAIN s /\ t.objects = raised /\ t.status = s.status /\ t.update = TRUE
        /\ t.sends = s.sends /\ t.sent = s.sent /\ t.known = s.known
    BY <2>1 DEF GoodServer
  <2> QED
    BY <2>2, <2>3, <2>4 DEF GoodServer, t
<1> QED
  BY <1>1, <1>2

LEMMA NothingToTell ==
  ASSUME ToldInv, UNCHANGED <<objectList, state, server>>
  PROVE  ToldInv'
BY DEF ToldInv, ServersAreToldOfObjects, RegistrationPayload

\* The list of Objects changes, and the flag is set for a Server that has it.
LEMMA FlaggedIsTold ==
  ASSUME ToldInv, IsSequence(objectList'), UNCHANGED state,
         server' = lwm2mUpdateRegistration(server, "OBJECTS")
  PROVE  ToldInv'
<1>1. /\ GoodServer(server') /\ server'.status = server.status /\ server'.sends = server.sends
      /\ ~server'.objects => server.status = "DISCONNECTED"
  BY Flagged DEF ToldInv
<1> QED
  BY <1>1 DEF ToldInv, ServersAreToldOfObjects

LEMMA ListIsTold ==
  ASSUME ToldInv, NEW list, IsSequence(list), ListBecomes(list), UNCHANGED state
  PROVE  ToldInv'
<1>1. CASE state = "DEVICE_MANAGEMENT"
  <2>1. objectList' = list /\ server' = lwm2mUpdateRegistration(server, "OBJECTS")
    BY <1>1 DEF ListBecomes
  <2> QED
    BY <2>1, FlaggedIsTold
<1>2. CASE state # "DEVICE_MANAGEMENT"
  <2>1. objectList' = list /\ server' = server
    BY <1>2 DEF ListBecomes
  <2>2. server.status = "DISCONNECTED"
    BY <1>2 DEF ToldInv
  <2> QED
    BY <2>1, <2>2 DEF ToldInv, ServersAreToldOfObjects
<1> QED
  BY <1>1, <1>2

LEMMA AddedSequence ==
  ASSUME NEW list, IsSequence(list), NEW object, NEW fails
  PROVE  IsSequence(customObjectAdd(list, object, fails).list)
<1> DEFINE added == IF object.type = "single"
                    THEN [object EXCEPT !.instances = <<[id |-> LWM2M_SINGLE_OBJECT_INSTANCE_ID, resources |-> NULL]>>]
                    ELSE object
<1>1. IsSequence(<<added>> \o list)
  <2> HIDE DEF added
  <2> QED
    BY SequenceAdded
<1> QED
  BY <1>1 DEF customObjectAdd

LEMMA TakenSequence ==
  ASSUME NEW list, IsSequence(list), NEW id
  PROVE  IsSequence(customObjectRemove(list, id).list)
<1>1. CASE ObjectIndex(list, id) = 0
  BY <1>1 DEF customObjectRemove
<1>2. CASE ObjectIndex(list, id) # 0
  <2>1. ObjectIndex(list, id) \in 1..Len(list)
    BY <1>2, ObjectIndexIs
  <2> QED
    BY <1>2, <2>1, SequenceTaken DEF customObjectRemove
<1> QED
  BY <1>1, <1>2

LEMMA BecomesSequence ==
  ASSUME ToldInv, NEW object
  PROVE  IsSequence(ObjectBecomes(object))
BY SequenceOther DEF ObjectBecomes, ToldInv

LEMMA CustomIsTold ==
  ASSUME ToldInv, CustomAction
  PROVE  ToldInv'
<1>1. ASSUME NEW request \in AddRequests, iowa_client_add_custom_object(request) PROVE ToldInv'
  <2>1. PICK fails \in Fails :
          \/ UNCHANGED <<objectList, server>>
          \/ ListBecomes(customObjectAdd(objectList, NewObject(request), fails).list)
    BY <1>1, Zenon DEF iowa_client_add_custom_object
  <2>2. UNCHANGED state
    BY <1>1 DEF iowa_client_add_custom_object
  <2>3. IsSequence(customObjectAdd(objectList, NewObject(request), fails).list)
    BY AddedSequence DEF ToldInv
  <2> QED
    BY <2>1, <2>2, <2>3, NothingToTell, ListIsTold
<1>2. ASSUME NEW id, iowa_client_remove_custom_object(id) PROVE ToldInv'
  <2>1. \/ UNCHANGED <<objectList, server>>
        \/ ListBecomes(customObjectRemove(objectList, id).list)
    BY <1>2, Zenon DEF iowa_client_remove_custom_object
  <2>2. UNCHANGED state
    BY <1>2 DEF iowa_client_remove_custom_object
  <2>3. IsSequence(customObjectRemove(objectList, id).list)
    BY TakenSequence DEF ToldInv
  <2> QED
    BY <2>1, <2>2, <2>3, NothingToTell, ListIsTold
<1>3. ASSUME NEW id, InstanceCreated(id) PROVE ToldInv'
  <2>1. PICK fails \in Fails :
          \/ UNCHANGED <<objectList, server>>
          \/ ListBecomes(ObjectBecomes(objectAddInstance(CustomObject, id, <<>>, fails).object))
    BY <1>3, Zenon DEF InstanceCreated
  <2>2. UNCHANGED state
    BY <1>3 DEF InstanceCreated
  <2> QED
    BY <2>1, <2>2, BecomesSequence, NothingToTell, ListIsTold
<1>4. ASSUME NEW id, InstanceDeleted(id) PROVE ToldInv'
  <2>1. PICK fails \in Fails :
          \/ UNCHANGED <<objectList, server>>
          \/ ListBecomes(ObjectBecomes(prv_removeInstance(CustomObject, id, fails).object))
    BY <1>4, Zenon DEF InstanceDeleted
  <2>2. UNCHANGED state
    BY <1>4 DEF InstanceDeleted
  <2> QED
    BY <2>1, <2>2, BecomesSequence, NothingToTell, ListIsTold
<1>5. ASSUME NEW id, NEW resource, NEW resInstance, NEW value, ValueChanged(id, resource, resInstance, value)
      PROVE  ToldInv'
  BY <1>5, NothingToTell DEF ValueChanged
<1> QED
  BY <1>1, <1>2, <1>3, <1>4, <1>5, Zenon DEF CustomAction

LEMMA SensorSequence ==
  ASSUME ToldInv, NEW value, NEW objectFails, NEW instanceFails
  PROVE  IsSequence(SensorAdded(value, objectFails, instanceFails).list)
<1> DEFINE created == customObjectAdd(objectList, NewIpsoObject(uses.type), objectFails)
           list == IF ObjectIndex(objectList, uses.type) # 0 THEN objectList ELSE created.list
           resources == prv_getResourceList(uses.type, uses.range, uses.unit # NULL, uses.appType # NULL)
           added == objectAddInstance(ObjectOf(list, uses.type), NewSensorId(sensors), resources, instanceFails)
           other == [list EXCEPT ![ObjectIndex(list, uses.type)] = added.object]
<1>1. IsSequence(objectList) /\ IsSequence(created.list)
  BY AddedSequence DEF ToldInv
<1>2. IsSequence(list)
  BY <1>1
<1> HIDE DEF list, created, added
<1>3. IsSequence(other)
  BY <1>2, SequenceOther
<1> HIDE DEF other
<1>4. SensorAdded(value, objectFails, instanceFails).list \in {objectList, created.list, other}
  BY DEF SensorAdded, list, created, added, other, resources
<1> QED
  BY <1>1, <1>3, <1>4

LEMMA SensorIsTold ==
  ASSUME ToldInv, SensorAction
  PROVE  ToldInv'
<1>1. ASSUME NEW value, iowa_client_IPSO_add_sensor(value) PROVE ToldInv'
  <2>1. PICK objectFails \in Fails, instanceFails \in Fails :
          \/ UNCHANGED <<objectList, server>>
          \/ ListBecomes(SensorAdded(value, objectFails, instanceFails).list)
    BY <1>1, Zenon DEF iowa_client_IPSO_add_sensor
  <2>2. UNCHANGED state
    BY <1>1 DEF iowa_client_IPSO_add_sensor
  <2> QED
    BY <2>1, <2>2, SensorSequence, NothingToTell, ListIsTold
<1>2. ASSUME NEW id, iowa_client_IPSO_remove_sensor(id) PROVE ToldInv'
  <2> DEFINE object == ObjectOf(objectList, uses.type)
  <2>1. \/ UNCHANGED <<objectList, server>>
        \/ \E fails \in Fails : ListBecomes(ObjectBecomes(prv_removeInstance(object, id, fails).object))
        \/ ListBecomes(customObjectRemove(objectList, uses.type).list)
    BY <1>2, Zenon DEF iowa_client_IPSO_remove_sensor
  <2>2. UNCHANGED state
    BY <1>2 DEF iowa_client_IPSO_remove_sensor
  <2>3. IsSequence(customObjectRemove(objectList, uses.type).list)
    BY TakenSequence DEF ToldInv
  <2> QED
    BY <2>1, <2>2, <2>3, BecomesSequence, NothingToTell, ListIsTold
<1>3. ASSUME NEW id, NEW value, iowa_client_IPSO_update_value(id, value) PROVE ToldInv'
  BY <1>3, NothingToTell DEF iowa_client_IPSO_update_value
<1> QED
  BY <1>1, <1>2, <1>3, Zenon DEF SensorAction

\* A Create that is refused gives the Object back as it was.
LEMMA RefusedCreate ==
  ASSUME NEW object, NEW data, NEW accepts, NEW written, NEW fails,
         object_create(object, data, accepts, written, fails).code # CREATED
  PROVE  object_create(object, data, accepts, written, fails).object = object
<1> DEFINE adapted == prv_adaptCreatePayload(object, data)
           known == adapted.data
           added == prv_addInstance(object, AddedId(object, data, known), NULL, fails)
           result == prv_create(object, data, known, accepts, written, fails)
           goes == /\ object.instanceCb /\ object_getInstanceIndex(object, data[1].instance) = 0
                   /\ accepts = NO_ERROR /\ written = NO_ERROR
<1>1. added.object = object \/ added.code = NO_ERROR
  BY DEF prv_addInstance
<1>2. CASE adapted.code # NO_ERROR
  BY <1>2 DEF object_create
<1>3. CASE adapted.code = NO_ERROR
  <2>1. object_create(object, data, accepts, written, fails) = result
    BY <1>3 DEF object_create
  <2>2. CASE goes
    <3>1. result.object = added.object /\ (added.code = NO_ERROR => result.code = CREATED)
      BY <2>2 DEF prv_create
    <3> HIDE DEF added, result
    <3> QED
      BY <1>1, <2>1, <3>1
  <2>3. CASE ~goes
    <3>1. result.object = object
      BY <2>3 DEF prv_create
    <3> HIDE DEF result
    <3> QED
      BY <2>1, <3>1
  <2> QED
    BY <2>2, <2>3
<1> QED
  BY <1>2, <1>3

\* So does a Delete.
LEMMA RefusedDelete ==
  ASSUME NEW object, NEW id, NEW accepts, NEW fails,
         object_delete(object, id, accepts, fails).code # DELETED
  PROVE  object_delete(object, id, accepts, fails).object = object
<1>1. CASE ~object.instanceCb
  BY <1>1 DEF object_delete
<1>2. CASE object.instanceCb /\ object_getInstanceIndex(object, id) = 0
  BY <1>2 DEF object_delete
<1>3. CASE object.instanceCb /\ object_getInstanceIndex(object, id) # 0 /\ accepts # NO_ERROR
  BY <1>3 DEF object_delete
<1>4. CASE object.instanceCb /\ object_getInstanceIndex(object, id) # 0 /\ accepts = NO_ERROR
  BY <1>4 DEF object_delete
<1> QED
  BY <1>1, <1>2, <1>3, <1>4

\* A Server is told of an Object that changes; one that does not leaves the list.
LEMMA ObjectIsTold ==
  ASSUME ToldInv, NEW id, ObjectIndex(objectList, id) # 0, NEW object, NEW done \in BOOLEAN,
         ~done => object = ObjectOf(objectList, id),
         objectList' = ObjectBecomes(object), UNCHANGED state,
         server' = IF done THEN lwm2mUpdateRegistration(server, "OBJECTS") ELSE server
  PROVE  ToldInv'
<1>1. CASE done
  <2>1. server' = lwm2mUpdateRegistration(server, "OBJECTS")
    BY <1>1
  <2>2. IsSequence(objectList')
    BY BecomesSequence
  <2> QED
    BY <2>1, <2>2, FlaggedIsTold
<1>2. CASE ~done
  <2>1. ObjectBecomes(ObjectOf(objectList, id)) = objectList
    BY SameObject DEF ObjectBecomes, ToldInv
  <2>2. UNCHANGED <<objectList, state, server>>
    BY <1>2, <2>1
  <2> QED
    BY <2>2, NothingToTell
<1> QED
  BY <1>1, <1>2

LEMMA RequestIsTold ==
  ASSUME ToldInv, ServerAction
  PROVE  ToldInv'
<1>1. ASSUME NEW request, Refuse(request) PROVE ToldInv'
  BY <1>1, NothingToTell DEF Refuse
<1>2. ASSUME NEW request, Write(request) PROVE ToldInv'
  <2>1. UNCHANGED objectList
    BY <1>2, Zenon DEF Write
  <2>2. UNCHANGED <<state, server>>
    BY <1>2, Zenon DEF Write
  <2> QED
    BY <2>1, <2>2, NothingToTell
<1>3. ASSUME NEW request, Execute(request) PROVE ToldInv'
  <2>1. UNCHANGED objectList /\ UNCHANGED <<state, server>>
    BY <1>3, Zenon DEF Execute
  <2> QED
    BY <2>1, NothingToTell
<1>4. ASSUME NEW request, Create(request) PROVE ToldInv'
  <2> DEFINE id == request.uri.object
             created(accepts, written, fails) ==
               object_create(ObjectOf(objectList, id), request.data, accepts, written, fails)
  <2>1. UNCHANGED state
    BY <1>4 DEF Create
  <2>2. CASE ObjectIndex(objectList, id) = 0
    <3>1. UNCHANGED <<objectList, server>>
      BY <1>4, <2>2, Zenon DEF Create
    <3> QED
      BY <2>1, <3>1, NothingToTell
  <2>3. CASE ObjectIndex(objectList, id) # 0
    <3>1. PICK accepts \in {NO_ERROR, NOT_ACCEPTABLE}, written \in {NO_ERROR, BAD_REQUEST}, fails \in Fails :
            Created(created(accepts, written, fails))
      BY <1>4, <2>3, Zenon DEF Create, ObjectOf
    <3> DEFINE object == created(accepts, written, fails).object
               done == created(accepts, written, fails).code = CREATED
    <3>2. ~done => object = ObjectOf(objectList, id)
      BY RefusedCreate
    <3>3. done \in BOOLEAN /\ objectList' = ObjectBecomes(object)
          /\ server' = IF done THEN lwm2mUpdateRegistration(server, "OBJECTS") ELSE server
      BY <3>1, Zenon DEF Created
    <3> HIDE DEF object, done
    <3> QED
      BY <2>1, <2>3, <3>2, <3>3, ObjectIsTold
  <2> QED
    BY <2>2, <2>3
<1>5. ASSUME NEW request, Delete(request) PROVE ToldInv'
  <2> DEFINE id == request.uri.object
             deleted(accepts, fails) == object_delete(ObjectOf(objectList, id), request.uri.instance, accepts, fails)
  <2>1. UNCHANGED state
    BY <1>5 DEF Delete
  <2>2. CASE ObjectIndex(objectList, id) = 0
    <3>1. UNCHANGED <<objectList, server>>
      BY <1>5, <2>2, Zenon DEF Delete
    <3> QED
      BY <2>1, <3>1, NothingToTell
  <2>3. CASE ObjectIndex(objectList, id) # 0
    <3>1. PICK accepts \in {NO_ERROR, NOT_ACCEPTABLE}, fails \in Fails :
            /\ objectList' = ObjectBecomes(deleted(accepts, fails).object)
            /\ server' = IF deleted(accepts, fails).code = DELETED
                         THEN lwm2mUpdateRegistration(server, "OBJECTS") ELSE server
      BY <1>5, <2>3, Zenon DEF Delete, ObjectOf
    <3> DEFINE object == deleted(accepts, fails).object
               done == deleted(accepts, fails).code = DELETED
    <3>2. ~done => object = ObjectOf(objectList, id)
      BY RefusedDelete
    <3>3. done \in BOOLEAN /\ objectList' = ObjectBecomes(object)
          /\ server' = IF done THEN lwm2mUpdateRegistration(server, "OBJECTS") ELSE server
      BY <3>1
    <3> HIDE DEF object, done
    <3> QED
      BY <2>1, <2>3, <3>2, <3>3, ObjectIsTold
  <2> QED
    BY <2>2, <2>3
<1> QED
  BY <1>1, <1>2, <1>3, <1>4, <1>5, Zenon DEF ServerAction

\* A message that has the links if the flag was set tells the Server all.
LEMMA UpdateIsTold ==
  ASSUME ToldInv, server.status = "REGISTERED",
         NEW s, GoodServer(s), s.status = "UPDATE_PENDING", ~s.objects, s.known = server.known,
         s.sends = server.objects, server.objects => s.sent = RegistrationPayload,
         server' = s, UNCHANGED <<objectList, state>>
  PROVE  ToldInv'
<1>1. RegistrationPayload' = RegistrationPayload
  BY DEF RegistrationPayload
<1>2. ~server.objects => RegistrationPayload = server.known
  BY DEF ToldInv, ServersAreToldOfObjects
<1>3. state # "INITIAL"
  BY DEF ToldInv
<1> QED
  BY <1>1, <1>2, <1>3 DEF ToldInv, ServersAreToldOfObjects

LEMMA UpdatingIs ==
  ASSUME ToldInv
  PROVE  LET s == Updating(server) IN
         /\ GoodServer(s) /\ s.status = "UPDATE_PENDING" /\ ~s.objects /\ s.known = server.known
         /\ s.sends = server.objects /\ (server.objects => s.sent = RegistrationPayload)
<1> DEFINE payload == IF server.objects THEN RegistrationPayload ELSE {}
           s == [server EXCEPT !.status = "UPDATE_PENDING", !.objects = FALSE, !.sends = server.objects, !.sent = payload]
<1>1. Updating(server) = s
  BY DEF Updating
<1>2. server.objects => payload = RegistrationPayload
  OBVIOUS
<1> HIDE DEF payload
<1>3. "UPDATE_PENDING" \in Statuses
  BY DEF Statuses
<1>4. /\ DOMAIN s = DOMAIN server /\ s.status = "UPDATE_PENDING" /\ ~s.objects /\ s.known = server.known
      /\ s.sends = server.objects /\ s.sent = payload /\ s.objects = FALSE /\ s.update = server.update
  BY DEF ToldInv, GoodServer
<1> HIDE DEF s
<1> QED
  BY <1>1, <1>2, <1>3, <1>4 DEF ToldInv, GoodServer

LEMMA RegistrationIsTold ==
  ASSUME ToldInv, RegistrationAction
  PROVE  ToldInv'
<1>1. CASE lwm2m_step
  <2>1. state = "INITIAL" /\ state' = "DEVICE_MANAGEMENT" /\ UNCHANGED <<objectList, server>>
    BY <1>1 DEF lwm2m_step
  <2> QED
    BY <2>1 DEF ToldInv, ServersAreToldOfObjects
<1>2. CASE iowa_step_action
  BY <1>2, NothingToTell DEF iowa_step_action
<1>3. CASE Register
  <2> DEFINE s == [server EXCEPT !.status = "REGISTERING", !.sends = TRUE, !.sent = RegistrationPayload]
  <2>1. state = "DEVICE_MANAGEMENT" /\ server' = s /\ UNCHANGED <<objectList, state>>
    BY <1>3 DEF Register
  <2>2. "REGISTERING" \in Statuses
    BY DEF Statuses
  <2>3. /\ DOMAIN s = DOMAIN server /\ s.status = "REGISTERING" /\ s.objects = server.objects
        /\ s.sends = TRUE /\ s.sent = RegistrationPayload /\ s.update = server.update
    BY DEF ToldInv, GoodServer
  <2> HIDE DEF s
  <2>4. GoodServer(s)
    BY <2>2, <2>3 DEF GoodServer, ToldInv
  <2>5. RegistrationPayload' = RegistrationPayload
    BY <2>1 DEF RegistrationPayload
  <2> QED
    BY <2>1, <2>3, <2>4, <2>5 DEF ToldInv, ServersAreToldOfObjects
<1>4. CASE prv_handleRegistrationReply
  <2> DEFINE s == [server EXCEPT !.status = "REGISTERED", !.known = server.sent, !.sends = FALSE, !.sent = {}]
  <2>1. server.status = "REGISTERING" /\ server' = s /\ UNCHANGED <<objectList, state>>
    BY <1>4 DEF prv_handleRegistrationReply
  <2>2. "REGISTERED" \in Statuses
    BY DEF Statuses
  <2>3. /\ DOMAIN s = DOMAIN server /\ s.status = "REGISTERED" /\ s.objects = server.objects
        /\ s.sends = FALSE /\ s.known = server.sent /\ s.update = server.update
    BY DEF ToldInv, GoodServer
  <2> HIDE DEF s
  <2>4. GoodServer(s)
    BY <2>2, <2>3 DEF GoodServer, ToldInv
  <2>5. RegistrationPayload' = RegistrationPayload
    BY <2>1 DEF RegistrationPayload
  <2> QED
    BY <2>1, <2>3, <2>4, <2>5 DEF ToldInv, ServersAreToldOfObjects
<1>5. CASE StepUpdates
  <2> DEFINE u == Updating(server)
             s == [u EXCEPT !.update = FALSE]
  <2>1. server.status = "REGISTERED" /\ server' = s /\ UNCHANGED <<objectList, state>>
    BY <1>5 DEF StepUpdates
  <2>2. /\ GoodServer(u) /\ u.status = "UPDATE_PENDING" /\ ~u.objects /\ u.known = server.known
        /\ u.sends = server.objects /\ (server.objects => u.sent = RegistrationPayload)
    BY UpdatingIs
  <2> HIDE DEF u
  <2>3. /\ DOMAIN s = DOMAIN u /\ s.status = u.status /\ s.objects = u.objects /\ s.known = u.known
        /\ s.sends = u.sends /\ s.sent = u.sent /\ s.update = FALSE
    BY <2>2 DEF GoodServer
  <2> HIDE DEF s
  <2>4. GoodServer(s)
    BY <2>2, <2>3 DEF GoodServer
  <2> QED
    BY <2>1, <2>2, <2>3, <2>4, UpdateIsTold
<1>6. CASE prv_handleRegistrationUpdateReply
  <2>1. PICK received \in BOOLEAN, answered \in BOOLEAN :
          /\ answered => received
          /\ server' = [server EXCEPT !.status = "REGISTERED", !.sends = FALSE, !.sent = {},
                                      !.known = IF received /\ server.sends THEN server.sent ELSE @,
                                      !.objects = @ \/ (~answered /\ server.sends)]
    BY <1>6 DEF prv_handleRegistrationUpdateReply
  <2> DEFINE known == IF received /\ server.sends THEN server.sent ELSE server.known
             objects == server.objects \/ (~answered /\ server.sends)
             s == [server EXCEPT !.status = "REGISTERED", !.sends = FALSE, !.sent = {}, !.known = known, !.objects = objects]
  <2>2. server' = s
    BY <2>1 DEF ToldInv, GoodServer
  <2>3. server.status = "UPDATE_PENDING" /\ UNCHANGED <<objectList, state>>
    BY <1>6 DEF prv_handleRegistrationUpdateReply
  <2>4. objects \in BOOLEAN /\ (~objects => ~server.objects /\ (server.sends => answered))
    OBVIOUS
  <2>5. (received /\ server.sends => known = server.sent) /\ (~server.sends => known = server.known)
    OBVIOUS
  <2> HIDE DEF known, objects
  <2>6. "REGISTERED" \in Statuses
    BY DEF Statuses
  <2>7. /\ DOMAIN s = DOMAIN server /\ s.status = "REGISTERED" /\ s.objects = objects
        /\ s.sends = FALSE /\ s.known = known /\ s.update = server.update
    BY DEF ToldInv, GoodServer
  <2> HIDE DEF s
  <2>8. GoodServer(s)
    BY <2>4, <2>6, <2>7 DEF GoodServer, ToldInv
  <2>9. RegistrationPayload' = RegistrationPayload
    BY <2>3 DEF RegistrationPayload
  <2>10. ~objects => RegistrationPayload = known
    BY <2>1, <2>3, <2>4, <2>5 DEF ToldInv, ServersAreToldOfObjects
  <2> QED
    BY <2>2, <2>3, <2>7, <2>8, <2>9, <2>10 DEF ToldInv, ServersAreToldOfObjects
<1>7. CASE prv_handleClientUpdateTimer
  <2>1. server.status = "REGISTERED" /\ server' = Updating(server) /\ UNCHANGED <<objectList, state>>
    BY <1>7 DEF prv_handleClientUpdateTimer
  <2> QED
    BY <2>1, UpdatingIs, UpdateIsTold
<1>8. CASE registration_resetServersStatus
  <2>1. state' = "INITIAL" /\ server' = NoServer /\ UNCHANGED objectList
    BY <1>8 DEF registration_resetServersStatus
  <2>2. GoodServer(NoServer) /\ NoServer.status = "DISCONNECTED"
    BY DEF GoodServer, NoServer, Statuses
  <2> QED
    BY <2>1, <2>2 DEF ToldInv, ServersAreToldOfObjects
<1>9. CASE prv_sendHearbeat
  <2>1. server' = lwm2mUpdateRegistration(server, "NONE") /\ UNCHANGED <<objectList, state>>
    BY <1>9 DEF prv_sendHearbeat
  <2>2. /\ GoodServer(server') /\ server'.status = server.status
        /\ server'.sends = server.sends /\ server'.sent = server.sent /\ server'.known = server.known
        /\ ~server'.objects => ~server.objects
    BY <2>1, Flagged DEF ToldInv
  <2>3. RegistrationPayload' = RegistrationPayload
    BY <2>1 DEF RegistrationPayload
  <2> QED
    BY <2>1, <2>2, <2>3 DEF ToldInv, ServersAreToldOfObjects
<1> QED
  BY <1>1, <1>2, <1>3, <1>4, <1>5, <1>6, <1>7, <1>8, <1>9, Zenon DEF RegistrationAction

LEMMA DeviceIsTold ==
  ASSUME ToldInv, DeviceAction
  PROVE  ToldInv'
<1>1. ASSUME NEW update, DeviceUpdated(update) PROVE ToldInv'
  BY <1>1, NothingToTell DEF DeviceUpdated
<1> QED
  BY <1>1, Zenon DEF DeviceAction, iowa_client_device_update_battery, iowa_client_set_device_error_code,
       iowa_client_clear_device_error_code, iowa_client_add_device_power_source,
       iowa_client_remove_device_power_source, iowa_client_update_device_power_source,
       iowa_client_update_device_information, iowa_client_update_device_time_information

LEMMA InitTold == Init => ToldInv
<1> SUFFICES ASSUME Init PROVE ToldInv
  OBVIOUS
<1>1. IsSequence(objectList)
  BY EmptyList, AddedSequence DEF Init, IsList
<1>2. GoodServer(server) /\ server.status = "DISCONNECTED" /\ state = "INITIAL"
  BY DEF Init, GoodServer, NoServer, Statuses
<1> QED
  BY <1>1, <1>2 DEF ToldInv, ServersAreToldOfObjects

LEMMA NextTold == ToldInv /\ [Next]_vars => ToldInv'
<1> SUFFICES ASSUME ToldInv, [Next]_vars PROVE ToldInv'
  OBVIOUS
<1>1. CASE UNCHANGED vars
  BY <1>1, NothingToTell DEF vars
<1>2. ASSUME NEW enter, iowa_client_notification_lock(enter) PROVE ToldInv'
  BY <1>2, NothingToTell DEF iowa_client_notification_lock
<1> QED
  BY <1>1, <1>2, CustomIsTold, DeviceIsTold, SensorIsTold, RequestIsTold, RegistrationIsTold, Zenon DEF Next

\* The list of Objects a Server has is theirs, or is on its way, or is going to
\* be sent: for any Objects, any calls of the application, any requests and any
\* loss of the messages of the registration (lwm2mUpdateRegistration,
\* prv_updateRegistration, prv_handleRegistrationUpdateReply).
THEOREM ServersAreAlwaysTold == Spec => []ServersAreToldOfObjects
<1>1. ToldInv => ServersAreToldOfObjects
  BY DEF ToldInv
<1> QED
  BY <1>1, InitTold, NextTold, PTL DEF Spec

-----------------------------------------------------------------------------
(* The Objects and their owners                                            *)

\* Identifiers that differ are as many as what they identify.
LEMMA IdentifiersCount ==
  ASSUME NEW list, IsList(list), \A i, j \in ToSet(list) : i.id = j.id => i = j
  PROVE  /\ IsFiniteSet(IdentifiersOf(list)) /\ Cardinality(IdentifiersOf(list)) = Len(list)
         /\ Len(list) \in Nat
<1> DEFINE n == Len(list)
           S == IdentifiersOf(list)
           ids == [i \in 1..n |-> list[i].id]
<1>1. /\ n \in Nat /\ \A i \in 1..n : list[i] \in ToSet(list)
      /\ \A e \in ToSet(list) : \E i \in 1..n : list[i] = e
      /\ \A i, j \in 1..n : list[i] = list[j] => i = j
  BY ListIs
<1> HIDE DEF n
<1>2. \A i \in 1..n : list[i].id \in S
  BY <1>1 DEF IdentifiersOf
<1>3. S \subseteq {list[i].id : i \in 1..n}
  BY <1>1 DEF IdentifiersOf
<1> HIDE DEF S
<1>4. ids \in [1..n -> S]
  BY <1>2
<1>5. ids \in Seq(S)
  BY <1>1, <1>4
<1>6. DOMAIN ids = 1..n /\ \A i \in 1..n : ids[i] = list[i].id
  OBVIOUS
<1>7. Len(ids) = n
  BY <1>1, <1>5, <1>6, LenProperties
<1> HIDE DEF ids
<1>8. Distinct(ids)
  BY <1>1, <1>6 DEF Distinct
<1>9. ToSet(ids) = S
  BY <1>2, <1>3, <1>6 DEF ToSet
<1> QED
  BY <1>1, <1>5, <1>7, <1>8, <1>9, DistinctLength DEF S, n

\* Of one identifier more than there are, the smallest that is free.
LEMMA FreeIdentifier ==
  ASSUME NEW used, IsFiniteSet(used), NEW n \in Nat, Cardinality(used) <= n
  PROVE  \E id \in 0..n : id \notin used /\ 0..(id - 1) \subseteq used
<1> DEFINE free == {id \in 0..n : id \notin used}
<1>1. free # {}
  <2> SUFFICES ASSUME free = {} PROVE FALSE
    OBVIOUS
  <2>1. 0..n \subseteq used
    OBVIOUS
  <2>2. IsFiniteSet(0..n) /\ Cardinality(0..n) = n + 1
    <3>1. 0 \in Int /\ n \in Int /\ 0 <= n
      OBVIOUS
    <3>2. IsFiniteSet(0..n) /\ Cardinality(0..n) = IF 0 > n THEN 0 ELSE n - 0 + 1
      BY <3>1, FS_Interval
    <3> QED
      BY <3>1, <3>2
  <2>3. Cardinality(0..n) <= Cardinality(used)
    BY <2>1, FS_Subset
  <2>4. Cardinality(used) \in Nat
    BY FS_CardinalityType
  <2> QED
    BY <2>2, <2>3, <2>4
<1>2. free \subseteq Nat
  OBVIOUS
<1>3. PICK m \in free : \A k \in free : m <= k
  BY <1>1, <1>2, LeastNatural
<1>4. m \in 0..n /\ m \notin used
  OBVIOUS
<1>5. ASSUME NEW k \in 0..(m - 1) PROVE k \in used
  <2>1. k \in 0..n /\ ~(m <= k)
    BY <1>4
  <2> QED
    BY <1>3, <2>1
<1> QED
  BY <1>4, <1>5

GoodList(list) ==
  /\ IsList(list)
  /\ \A o, p \in ToSet(list) : o.objID = p.objID => o = p
  /\ \A o \in ToSet(list) : GoodObject(o)

\* An Object that may have one Instance has it.
AsAdded(object) ==
  IF object.type = "single"
  THEN [object EXCEPT !.instances = <<[id |-> LWM2M_SINGLE_OBJECT_INSTANCE_ID, resources |-> NULL]>>]
  ELSE object

LEMMA AsAddedIs ==
  ASSUME NEW object, GoodObject(object)
  PROVE  LET a == AsAdded(object) IN
         /\ GoodObject(a) /\ a.objID = object.objID /\ a.type = object.type
         /\ a.instanceCb = object.instanceCb /\ a.resources = object.resources
         /\ IdentifiersOf(a.instances) \subseteq {LWM2M_SINGLE_OBJECT_INSTANCE_ID} \cup IdentifiersOf(object.instances)
         /\ object.type # "single" => a = object
<1> DEFINE only == [id |-> LWM2M_SINGLE_OBJECT_INSTANCE_ID, resources |-> NULL]
           a == AsAdded(object)
<1>1. CASE object.type # "single"
  BY <1>1 DEF AsAdded
<1>2. CASE object.type = "single"
  <2>1. a = [object EXCEPT !.instances = <<only>>]
    BY <1>2 DEF AsAdded
  <2>2. only.id = LWM2M_SINGLE_OBJECT_INSTANCE_ID
    OBVIOUS
  <2> HIDE DEF only, a
  <2>3. /\ DOMAIN a = DOMAIN object /\ a.instances = <<only>>
        /\ a.objID = object.objID /\ a.type = object.type
        /\ a.instanceCb = object.instanceCb /\ a.resources = object.resources
    BY <2>1, OtherInstances
  <2>4. IsList(<<only>>) /\ ToSet(<<only>>) = {only}
    BY OneElement
  <2>5. IdentifiersOf(a.instances) = {LWM2M_SINGLE_OBJECT_INSTANCE_ID}
    BY <2>2, <2>3, <2>4 DEF IdentifiersOf
  <2>6. GoodObject(a)
    BY <1>2, <2>3, <2>4, <2>5 DEF GoodObject
  <2> QED
    BY <1>2, <2>3, <2>5, <2>6 DEF a
<1> QED
  BY <1>1, <1>2

\* An Object that is added is not there yet.
LEMMA ObjectAdded ==
  ASSUME NEW list, GoodList(list), NEW object, GoodObject(object), NEW fails,
         customObjectAdd(list, object, fails).code = NO_ERROR,
         NEW longer, longer = customObjectAdd(list, object, fails).list
  PROVE  /\ \A o \in ToSet(list) : o.objID # object.objID
         /\ GoodList(longer) /\ ToSet(longer) = ToSet(list) \cup {AsAdded(object)}
<1>1. PICK a : a = AsAdded(object)
  OBVIOUS
<1>2. /\ ObjectIndex(list, object.objID) = 0
      /\ longer = <<a>> \o list
  BY <1>1 DEF customObjectAdd, AsAdded, CONFLICT, INTERNAL_ERROR, NO_ERROR
<1>3. GoodObject(a) /\ a.objID = object.objID
  BY <1>1, AsAddedIs
<1>4. IsList(list) /\ IsSequence(list)
  BY DEF GoodList, IsList
<1>5. \A o \in ToSet(list) : o.objID # object.objID
  BY <1>2, <1>4, ObjectIndexIs, ListIs
<1>6. a \notin ToSet(list)
  BY <1>3, <1>5
<1>7. IsList(<<a>> \o list) /\ ToSet(<<a>> \o list) = ToSet(list) \cup {a}
  BY <1>4, <1>6, AddedFirst
<1>8. GoodList(longer)
  BY <1>2, <1>3, <1>5, <1>7 DEF GoodList
<1> QED
  BY <1>1, <1>2, <1>5, <1>7, <1>8

LEMMA ObjectNotAdded ==
  ASSUME NEW list, NEW object, NEW fails, customObjectAdd(list, object, fails).code # NO_ERROR
  PROVE  customObjectAdd(list, object, fails).list = list
BY DEF customObjectAdd

\* The Object that is removed is the one that was there.
LEMMA ObjectTaken ==
  ASSUME NEW list, GoodList(list), NEW id, customObjectRemove(list, id).code = NO_ERROR
  PROVE  LET shorter == customObjectRemove(list, id).list IN
         \E o \in ToSet(list) : o.objID = id /\ GoodList(shorter) /\ ToSet(shorter) = ToSet(list) \ {o}
<1> DEFINE i == ObjectIndex(list, id)
           shorter == RemoveAt(list, i)
<1>1. i # 0 /\ customObjectRemove(list, id).list = shorter
  BY DEF customObjectRemove, NO_ERROR, NOT_FOUND
<1>2. i \in 1..Len(list) /\ list[i] \in ToSet(list) /\ list[i].objID = id
  BY <1>1, ObjectIndexIs DEF GoodList, IsList, ObjectOf
<1>3. IsList(shorter) /\ ToSet(shorter) = ToSet(list) \ {list[i]}
  BY <1>2, Removed DEF GoodList
<1> HIDE DEF shorter
<1>4. GoodList(shorter)
  BY <1>3 DEF GoodList
<1> QED
  BY <1>1, <1>2, <1>3, <1>4

\* The Object that changes keeps its place.
LEMMA ObjectChanged ==
  ASSUME NEW list, GoodList(list), NEW o \in ToSet(list), NEW p, GoodObject(p), p.objID = o.objID
  PROVE  LET other == With(list, ObjectIndex(list, p.objID), p) IN
         GoodList(other) /\ ToSet(other) = (ToSet(list) \ {o}) \cup {p}
<1> DEFINE i == ObjectIndex(list, p.objID)
           other == With(list, i, p)
<1>1. i \in 1..Len(list) /\ list[i] \in ToSet(list) /\ list[i].objID = p.objID
  BY ObjectIndexIs DEF GoodList, IsList, ObjectOf
<1>2. list[i] = o
  BY <1>1 DEF GoodList
<1>3. p \notin ToSet(list) \ {o}
  BY DEF GoodList
<1> HIDE DEF i
<1>4. IsList(other) /\ ToSet(other) = (ToSet(list) \ {o}) \cup {p}
  <2>1. IsList(list) /\ p \notin ToSet(list) \ {list[i]}
    BY <1>2, <1>3 DEF GoodList
  <2>2. i \in 1..Len(list)
    BY <1>1
  <2>3. IsList(With(list, i, p)) /\ ToSet(With(list, i, p)) = (ToSet(list) \ {list[i]}) \cup {p}
    BY <2>1, <2>2, Replaced
  <2> QED
    BY <1>2, <2>3
<1> HIDE DEF other
<1>5. GoodList(other)
  <2>1. \A q, r \in ToSet(other) : q.objID = r.objID => q = r
    BY <1>4 DEF GoodList
  <2>2. \A q \in ToSet(other) : GoodObject(q)
    BY <1>4 DEF GoodList
  <2> QED
    BY <1>4, <2>1, <2>2 DEF GoodList
<1> QED
  BY <1>4, <1>5 DEF other, i

\* The Object of an identifier is the one of the list.
LEMMA ObjectOfIs ==
  ASSUME NEW list, GoodList(list), NEW id
  PROVE  /\ ObjectIndex(list, id) = 0 <=> \A o \in ToSet(list) : o.objID # id
         /\ ObjectIndex(list, id) # 0 => ObjectOf(list, id) \in ToSet(list) /\ ObjectOf(list, id).objID = id
         /\ \A o \in ToSet(list) : o.objID = id => ObjectOf(list, id) = o
<1>1. ObjectIndex(list, id) \in 1..Len(list) => ObjectIndex(list, id) # 0
  OBVIOUS
<1> QED
  BY <1>1, ObjectIndexIs DEF GoodList, IsList

-----------------------------------------------------------------------------
(* The Resources of an Object                                              *)

\* Identifiers, each once, of a set.
Within(ids, S) == IsList(ids) /\ ToSet(ids) \subseteq S

LEMMA Joined ==
  ASSUME NEW s, NEW t, NEW S, NEW T, Within(s, S), Within(t, T), S \cap T = {}
  PROVE  Within(s \o t, S \cup T)
<1> DEFINE all == ToSet(s) \cup ToSet(t)
           n == Len(s)
           m == Len(t)
           st == s \o t
<1>1. /\ n \in Nat /\ DOMAIN s = 1..n /\ \A i \in 1..n : s[i] \in ToSet(s)
      /\ \A i, j \in 1..n : s[i] = s[j] => i = j
  BY ListIs DEF Within
<1>2. /\ m \in Nat /\ DOMAIN t = 1..m /\ \A i \in 1..m : t[i] \in ToSet(t)
      /\ \A i, j \in 1..m : t[i] = t[j] => i = j
  BY ListIs DEF Within
<1>3. s \in Seq(all) /\ t \in Seq(all)
  <2>1. s \in [1..n -> ToSet(s)] /\ t \in [1..m -> ToSet(t)]
    BY LenProperties DEF Within, IsList, IsSequence
  <2>2. s \in [1..n -> all] /\ t \in [1..m -> all]
    BY <2>1
  <2> QED
    BY <1>1, <1>2, <2>2
<1> HIDE DEF all
<1>4. /\ st \in Seq(all) /\ Len(st) = n + m
      /\ \A i \in 1..(n + m) : st[i] = IF i <= n THEN s[i] ELSE t[i - n]
  BY <1>3, ConcatProperties
<1> HIDE DEF st, n, m
<1>5. DOMAIN st = 1..(n + m)
  BY <1>4, LenProperties
<1>6. ASSUME NEW i \in 1..(n + m)
      PROVE  \/ i \in 1..n /\ st[i] = s[i] /\ st[i] \in S
             \/ i \notin 1..n /\ i - n \in 1..m /\ st[i] = t[i - n] /\ st[i] \in T
  <2>1. i \in 1..n \/ (i \notin 1..n /\ i - n \in 1..m)
    BY <1>1, <1>2
  <2>2. CASE i \in 1..n
    BY <1>1, <1>4, <2>2 DEF Within
  <2>3. CASE i \notin 1..n /\ i - n \in 1..m
    <3>1. ~(i <= n)
      BY <1>1, <1>2, <2>3
    <3> QED
      BY <1>2, <1>4, <2>3, <3>1 DEF Within
  <2> QED
    BY <2>1, <2>2, <2>3
<1>7. ToSet(st) \subseteq S \cup T
  BY <1>5, <1>6 DEF ToSet
<1>8. ASSUME NEW i \in 1..(n + m), NEW j \in 1..(n + m), st[i] = st[j]
      PROVE  i = j
  <2>1. CASE i \in 1..n /\ j \in 1..n
    BY <1>1, <1>6, <1>8, <2>1
  <2>2. CASE i \notin 1..n /\ j \notin 1..n
    <3>1. i - n = j - n
      BY <1>2, <1>6, <1>8, <2>2
    <3> QED
      BY <1>1, <1>2, <3>1
  <2> QED
    BY <1>6, <1>8, <2>1, <2>2
<1>9. IsList(st)
  BY <1>4, <1>5, <1>8, OwnElements DEF IsList, Distinct
<1> QED
  BY <1>7, <1>9 DEF Within, st

\* What is there or not.
LEMMA Optional ==
  ASSUME NEW ids, NEW S, Within(ids, S), NEW b
  PROVE  Within(IF b THEN ids ELSE <<>>, S)
BY EmptyList DEF Within

LEMMA OneIdentifier ==
  ASSUME NEW a
  PROVE  Within(<<a>>, {a})
BY OneElement DEF Within

LEMMA TwoIdentifiers ==
  ASSUME NEW a, NEW b, a # b
  PROVE  Within(<<a, b>>, {a, b})
<1> DEFINE two == <<a, b>>
<1>1. two \in Seq({a, b}) /\ DOMAIN two = 1..2 /\ two[1] = a /\ two[2] = b
  OBVIOUS
<1>2. 1..2 = {1, 2}
  OBVIOUS
<1> HIDE DEF two
<1>3. Distinct(two)
  BY <1>1, <1>2 DEF Distinct
<1>4. ToSet(two) = {a, b}
  BY <1>1, <1>2 DEF ToSet
<1>5. IsSequence(two)
  BY <1>1, OwnElements
<1> QED
  BY <1>3, <1>4, <1>5 DEF Within, IsList, two

LEMMA ThreeIdentifiers ==
  ASSUME NEW a, NEW b, NEW c, a # b /\ a # c /\ b # c
  PROVE  Within(<<a, b, c>>, {a, b, c})
<1> DEFINE three == <<a, b, c>>
<1>1. three \in Seq({a, b, c}) /\ DOMAIN three = 1..3 /\ three[1] = a /\ three[2] = b /\ three[3] = c
  OBVIOUS
<1>2. 1..3 = {1, 2, 3}
  OBVIOUS
<1> HIDE DEF three
<1>3. Distinct(three)
  BY <1>1, <1>2 DEF Distinct
<1>4. ToSet(three) = {a, b, c}
  BY <1>1, <1>2 DEF ToSet
<1>5. IsSequence(three)
  BY <1>1, OwnElements
<1> QED
  BY <1>3, <1>4, <1>5 DEF Within, IsList, three

\* Whatever the options, a Resource of the device has one descriptor.
LEMMA DeviceIdsAre ==
  ASSUME NEW options
  PROVE  Within(DeviceIds(options), 0..22)
<1> DEFINE of(option, ids) == IF option \in options THEN ids ELSE <<>>
           l0 == <<ID.REBOOT, ID.ERROR_CODE, ID.BINDING>>
           l1 == l0 \o of("deviceType", <<ID.TYPE>>)
           l2 == l1 \o of("firmwareVersion", <<ID.FIRMWARE_VERSION>>)
           l3 == l2 \o of("hardwareVersion", <<ID.HARDWARE_VERSION>>)
           l4 == l3 \o of("manufacturer", <<ID.MANUFACTURER>>)
           l5 == l4 \o of("modelNumber", <<ID.MODEL_NUMBER>>)
           l6 == l5 \o of("serialNumber", <<ID.SERIAL_NUMBER>>)
           l7 == l6 \o of("softwareVersion", <<ID.SOFTWARE_VERSION>>)
           l8 == l7 \o of("BATTERY", <<ID.BATTERY_LEVEL, ID.BATTERY_STATUS>>)
           l9 == l8 \o of("POWER_SOURCE", <<ID.AVAILABLE_POWER_SRC, ID.POWER_SRC_VOLTAGE, ID.POWER_SRC_CURRENT>>)
           l10 == l9 \o of("RESET_ERROR", <<ID.RESET_ERROR>>)
           l11 == l10 \o of("CURRENT_TIME", <<ID.CURRENT_TIME>>)
           l12 == l11 \o of("UTC_OFFSET", <<ID.UTC_OFFSET>>)
           l13 == l12 \o of("TIMEZONE", <<ID.TIME_ZONE>>)
           l14 == l13 \o of("factoryResetCallback", <<ID.FACTORY_RESET>>)
           l15 == l14 \o of("memoryTotal", <<ID.MEMORY_TOTAL>>)
           l16 == l15 \o of("MEMORY_FREE", <<ID.MEMORY_FREE>>)
           l17 == l16 \o of("EXTERNAL_INFO", <<ID.EXT_DEV_INFO>>)
<1>1. /\ ID.REBOOT = 4 /\ ID.ERROR_CODE = 11 /\ ID.BINDING = 16 /\ ID.TYPE = 17
      /\ ID.FIRMWARE_VERSION = 3 /\ ID.HARDWARE_VERSION = 18 /\ ID.MANUFACTURER = 0 /\ ID.MODEL_NUMBER = 1
      /\ ID.SERIAL_NUMBER = 2 /\ ID.SOFTWARE_VERSION = 19 /\ ID.BATTERY_LEVEL = 9 /\ ID.BATTERY_STATUS = 20
      /\ ID.AVAILABLE_POWER_SRC = 6 /\ ID.POWER_SRC_VOLTAGE = 7 /\ ID.POWER_SRC_CURRENT = 8 /\ ID.RESET_ERROR = 12
      /\ ID.CURRENT_TIME = 13 /\ ID.UTC_OFFSET = 14 /\ ID.TIME_ZONE = 15 /\ ID.FACTORY_RESET = 5
      /\ ID.MEMORY_TOTAL = 21 /\ ID.MEMORY_FREE = 10 /\ ID.EXT_DEV_INFO = 22
  BY DEF ID
<1>2. DeviceIds(options) = l17
  BY Zenon DEF DeviceIds
<1>3. Within(l0, {4, 11, 16})
  <2>1. ID.REBOOT # ID.ERROR_CODE /\ ID.REBOOT # ID.BINDING /\ ID.ERROR_CODE # ID.BINDING
    BY <1>1
  <2>2. Within(<<ID.REBOOT, ID.ERROR_CODE, ID.BINDING>>, {ID.REBOOT, ID.ERROR_CODE, ID.BINDING})
    BY <2>1, ThreeIdentifiers, Zenon
  <2> QED
    BY <1>1, <2>2
<1> HIDE DEF l0
<1>4. Within(l1, {4, 11, 16} \cup {17})
  <2>1. Within(<<ID.TYPE>>, {17})
    BY <1>1, OneIdentifier
  <2>2. Within(of("deviceType", <<ID.TYPE>>), {17})
    BY <2>1, Optional
  <2> HIDE DEF of
  <2> QED
    BY <1>3, <2>2, Joined
<1> HIDE DEF l1
<1>5. Within(l2, {4, 11, 16, 17} \cup {3})
  <2>1. Within(<<ID.FIRMWARE_VERSION>>, {3})
    BY <1>1, OneIdentifier
  <2>2. Within(of("firmwareVersion", <<ID.FIRMWARE_VERSION>>), {3})
    BY <2>1, Optional
  <2> HIDE DEF of
  <2> QED
    BY <1>4, <2>2, Joined
<1> HIDE DEF l2
<1>6. Within(l3, {4, 11, 16, 17, 3} \cup {18})
  <2>1. Within(<<ID.HARDWARE_VERSION>>, {18})
    BY <1>1, OneIdentifier
  <2>2. Within(of("hardwareVersion", <<ID.HARDWARE_VERSION>>), {18})
    BY <2>1, Optional
  <2> HIDE DEF of
  <2> QED
    BY <1>5, <2>2, Joined
<1> HIDE DEF l3
<1>7. Within(l4, {4, 11, 16, 17, 3, 18} \cup {0})
  <2>1. Within(<<ID.MANUFACTURER>>, {0})
    BY <1>1, OneIdentifier
  <2>2. Within(of("manufacturer", <<ID.MANUFACTURER>>), {0})
    BY <2>1, Optional
  <2> HIDE DEF of
  <2> QED
    BY <1>6, <2>2, Joined
<1> HIDE DEF l4
<1>8. Within(l5, {4, 11, 16, 17, 3, 18, 0} \cup {1})
  <2>1. Within(<<ID.MODEL_NUMBER>>, {1})
    BY <1>1, OneIdentifier
  <2>2. Within(of("modelNumber", <<ID.MODEL_NUMBER>>), {1})
    BY <2>1, Optional
  <2> HIDE DEF of
  <2> QED
    BY <1>7, <2>2, Joined
<1> HIDE DEF l5
<1>9. Within(l6, {4, 11, 16, 17, 3, 18, 0, 1} \cup {2})
  <2>1. Within(<<ID.SERIAL_NUMBER>>, {2})
    BY <1>1, OneIdentifier
  <2>2. Within(of("serialNumber", <<ID.SERIAL_NUMBER>>), {2})
    BY <2>1, Optional
  <2> HIDE DEF of
  <2> QED
    BY <1>8, <2>2, Joined
<1> HIDE DEF l6
<1>10. Within(l7, {4, 11, 16, 17, 3, 18, 0, 1, 2} \cup {19})
  <2>1. Within(<<ID.SOFTWARE_VERSION>>, {19})
    BY <1>1, OneIdentifier
  <2>2. Within(of("softwareVersion", <<ID.SOFTWARE_VERSION>>), {19})
    BY <2>1, Optional
  <2> HIDE DEF of
  <2> QED
    BY <1>9, <2>2, Joined
<1> HIDE DEF l7
<1>11. Within(l8, {4, 11, 16, 17, 3, 18, 0, 1, 2, 19} \cup {9, 20})
  <2>1. Within(<<ID.BATTERY_LEVEL, ID.BATTERY_STATUS>>, {9, 20})
    <3>1. ID.BATTERY_LEVEL # ID.BATTERY_STATUS
      BY <1>1
    <3>2. Within(<<ID.BATTERY_LEVEL, ID.BATTERY_STATUS>>, {ID.BATTERY_LEVEL, ID.BATTERY_STATUS})
      BY <3>1, TwoIdentifiers, Zenon
    <3> QED
      BY <1>1, <3>2
  <2>2. Within(of("BATTERY", <<ID.BATTERY_LEVEL, ID.BATTERY_STATUS>>), {9, 20})
    BY <2>1, Optional
  <2> HIDE DEF of
  <2> QED
    BY <1>10, <2>2, Joined
<1> HIDE DEF l8
<1>12. Within(l9, {4, 11, 16, 17, 3, 18, 0, 1, 2, 19, 9, 20} \cup {6, 7, 8})
  <2>1. Within(<<ID.AVAILABLE_POWER_SRC, ID.POWER_SRC_VOLTAGE, ID.POWER_SRC_CURRENT>>, {6, 7, 8})
    <3>1. /\ ID.AVAILABLE_POWER_SRC # ID.POWER_SRC_VOLTAGE /\ ID.AVAILABLE_POWER_SRC # ID.POWER_SRC_CURRENT
          /\ ID.POWER_SRC_VOLTAGE # ID.POWER_SRC_CURRENT
      BY <1>1
    <3>2. Within(<<ID.AVAILABLE_POWER_SRC, ID.POWER_SRC_VOLTAGE, ID.POWER_SRC_CURRENT>>,
                 {ID.AVAILABLE_POWER_SRC, ID.POWER_SRC_VOLTAGE, ID.POWER_SRC_CURRENT})
      BY <3>1, ThreeIdentifiers, Zenon
    <3> QED
      BY <1>1, <3>2
  <2>2. Within(of("POWER_SOURCE", <<ID.AVAILABLE_POWER_SRC, ID.POWER_SRC_VOLTAGE, ID.POWER_SRC_CURRENT>>), {6, 7, 8})
    BY <2>1, Optional
  <2> HIDE DEF of
  <2> QED
    BY <1>11, <2>2, Joined
<1> HIDE DEF l9
<1>13. Within(l10, {4, 11, 16, 17, 3, 18, 0, 1, 2, 19, 9, 20, 6, 7, 8} \cup {12})
  <2>1. Within(<<ID.RESET_ERROR>>, {12})
    BY <1>1, OneIdentifier
  <2>2. Within(of("RESET_ERROR", <<ID.RESET_ERROR>>), {12})
    BY <2>1, Optional
  <2> HIDE DEF of
  <2> QED
    BY <1>12, <2>2, Joined
<1> HIDE DEF l10
<1>14. Within(l11, {4, 11, 16, 17, 3, 18, 0, 1, 2, 19, 9, 20, 6, 7, 8, 12} \cup {13})
  <2>1. Within(<<ID.CURRENT_TIME>>, {13})
    BY <1>1, OneIdentifier
  <2>2. Within(of("CURRENT_TIME", <<ID.CURRENT_TIME>>), {13})
    BY <2>1, Optional
  <2> HIDE DEF of
  <2> QED
    BY <1>13, <2>2, Joined
<1> HIDE DEF l11
<1>15. Within(l12, {4, 11, 16, 17, 3, 18, 0, 1, 2, 19, 9, 20, 6, 7, 8, 12, 13} \cup {14})
  <2>1. Within(<<ID.UTC_OFFSET>>, {14})
    BY <1>1, OneIdentifier
  <2>2. Within(of("UTC_OFFSET", <<ID.UTC_OFFSET>>), {14})
    BY <2>1, Optional
  <2> HIDE DEF of
  <2> QED
    BY <1>14, <2>2, Joined
<1> HIDE DEF l12
<1>16. Within(l13, {4, 11, 16, 17, 3, 18, 0, 1, 2, 19, 9, 20, 6, 7, 8, 12, 13, 14} \cup {15})
  <2>1. Within(<<ID.TIME_ZONE>>, {15})
    BY <1>1, OneIdentifier
  <2>2. Within(of("TIMEZONE", <<ID.TIME_ZONE>>), {15})
    BY <2>1, Optional
  <2> HIDE DEF of
  <2> QED
    BY <1>15, <2>2, Joined
<1> HIDE DEF l13
<1>17. Within(l14, {4, 11, 16, 17, 3, 18, 0, 1, 2, 19, 9, 20, 6, 7, 8, 12, 13, 14, 15} \cup {5})
  <2>1. Within(<<ID.FACTORY_RESET>>, {5})
    BY <1>1, OneIdentifier
  <2>2. Within(of("factoryResetCallback", <<ID.FACTORY_RESET>>), {5})
    BY <2>1, Optional
  <2> HIDE DEF of
  <2> QED
    BY <1>16, <2>2, Joined
<1> HIDE DEF l14
<1>18. Within(l15, {4, 11, 16, 17, 3, 18, 0, 1, 2, 19, 9, 20, 6, 7, 8, 12, 13, 14, 15, 5} \cup {21})
  <2>1. Within(<<ID.MEMORY_TOTAL>>, {21})
    BY <1>1, OneIdentifier
  <2>2. Within(of("memoryTotal", <<ID.MEMORY_TOTAL>>), {21})
    BY <2>1, Optional
  <2> HIDE DEF of
  <2> QED
    BY <1>17, <2>2, Joined
<1> HIDE DEF l15
<1>19. Within(l16, {4, 11, 16, 17, 3, 18, 0, 1, 2, 19, 9, 20, 6, 7, 8, 12, 13, 14, 15, 5, 21} \cup {10})
  <2>1. Within(<<ID.MEMORY_FREE>>, {10})
    BY <1>1, OneIdentifier
  <2>2. Within(of("MEMORY_FREE", <<ID.MEMORY_FREE>>), {10})
    BY <2>1, Optional
  <2> HIDE DEF of
  <2> QED
    BY <1>18, <2>2, Joined
<1> HIDE DEF l16
<1>20. Within(l17, {4, 11, 16, 17, 3, 18, 0, 1, 2, 19, 9, 20, 6, 7, 8, 12, 13, 14, 15, 5, 21, 10} \cup {22})
  <2>1. Within(<<ID.EXT_DEV_INFO>>, {22})
    BY <1>1, OneIdentifier
  <2>2. Within(of("EXTERNAL_INFO", <<ID.EXT_DEV_INFO>>), {22})
    BY <2>1, Optional
  <2> HIDE DEF of
  <2> QED
    BY <1>19, <2>2, Joined
<1> HIDE DEF l17
<1> QED
  BY <1>2, <1>20 DEF Within

LEMMA FourIdentifiers ==
  ASSUME NEW a, NEW b, NEW c, NEW d, a # b /\ a # c /\ b # c, d \notin {a, b, c}
  PROVE  Within(<<a, b, c, d>>, {a, b, c, d})
<1> DEFINE four == <<a, b, c, d>>
<1>1. /\ four \in Seq({a, b, c, d}) /\ DOMAIN four = 1..4
      /\ four[1] = a /\ four[2] = b /\ four[3] = c /\ four[4] = d
  OBVIOUS
<1>2. 1..4 = {1, 2, 3, 4}
  OBVIOUS
<1> HIDE DEF four
<1>3. Distinct(four)
  BY <1>1, <1>2 DEF Distinct
<1>4. ToSet(four) = {a, b, c, d}
  BY <1>1, <1>2 DEF ToSet
<1>5. IsSequence(four)
  BY <1>1, OwnElements
<1> QED
  BY <1>3, <1>4, <1>5 DEF Within, IsList, four

IpsoIds(type, ids) ==
  /\ Within(ids, Nat)
  /\ prv_getResourceDesc(type) = [i \in DOMAIN ids |-> IpsoDescriptor(ids[i])]

\* So has one of a sensor.
LEMMA IpsoIdsAre ==
  ASSUME NEW type
  PROVE  \E ids : IpsoIds(type, ids)
<1> DEFINE analog == <<RSC.ANALOG_INPUT_CURRENT_VALUE>> \o MinAndMax \o MinAndMaxRange \o <<RSC.APPLICATION_TYPE>>
           energy == <<RSC.SENSOR_VALUE, RSC.RESET_CUMULATIVE_ENERGY, RSC.SENSOR_UNITS, RSC.APPLICATION_TYPE>>
           direction == <<RSC.COMPASS_DIRECTION, RSC.APPLICATION_TYPE>> \o MinAndMax
           digital == DigitalState \o <<RSC.APPLICATION_TYPE>>
           presence == DigitalState \o <<RSC.SENSOR_TYPE, RSC.DIGITAL_INPUT_COUNTER_RESET>>
           own == IF type \in NoApplicationType THEN <<>> ELSE <<RSC.APPLICATION_TYPE>>
           other == <<RSC.SENSOR_VALUE>> \o MinAndMax \o <<RSC.SENSOR_UNITS>> \o MinAndMaxRange \o own
           ids == CASE type = IPSO.ANALOG_INPUT -> analog
                    [] type = IPSO.ENERGY -> energy
                    [] type = IPSO.DIRECTION -> direction
                    [] type \in Digital -> digital
                    [] type = IPSO.PRESENCE -> presence
                    [] OTHER -> other
<1>1. prv_getResourceDesc(type) = [i \in DOMAIN ids |-> IpsoDescriptor(ids[i])]
  BY Zenon DEF prv_getResourceDesc
<1>2. ids \in {analog, energy, direction, digital, presence, other}
  <2> HIDE DEF analog, energy, direction, digital, presence, other
  <2> QED
    OBVIOUS
<1> HIDE DEF ids
<1>3. /\ RSC.DIGITAL_INPUT_STATE = 5500 /\ RSC.DIGITAL_INPUT_COUNTER = 5501 /\ RSC.DIGITAL_INPUT_COUNTER_RESET = 5505
      /\ RSC.ANALOG_INPUT_CURRENT_VALUE = 5600 /\ RSC.MIN_MEASURED_VALUE = 5601 /\ RSC.MAX_MEASURED_VALUE = 5602
      /\ RSC.MIN_RANGE_VALUE = 5603 /\ RSC.MAX_RANGE_VALUE = 5604 /\ RSC.RESET_MIN_AND_MAX_MEASURED_VALUES = 5605
      /\ RSC.SENSOR_VALUE = 5700 /\ RSC.SENSOR_UNITS = 5701 /\ RSC.COMPASS_DIRECTION = 5705
      /\ RSC.APPLICATION_TYPE = 5750 /\ RSC.SENSOR_TYPE = 5751 /\ RSC.RESET_CUMULATIVE_ENERGY = 5822
  BY DEF RSC
<1>4. Within(MinAndMax, {5601, 5602, 5605})
  BY <1>3, ThreeIdentifiers DEF MinAndMax
<1>5. Within(MinAndMaxRange, {5603, 5604})
  BY <1>3, TwoIdentifiers DEF MinAndMaxRange
<1>6. Within(DigitalState, {5500, 5501})
  BY <1>3, TwoIdentifiers DEF DigitalState
<1>7. /\ Within(<<RSC.ANALOG_INPUT_CURRENT_VALUE>>, {5600}) /\ Within(<<RSC.APPLICATION_TYPE>>, {5750})
      /\ Within(<<RSC.SENSOR_VALUE>>, {5700}) /\ Within(<<RSC.SENSOR_UNITS>>, {5701})
  BY <1>3, OneIdentifier
<1>8. Within(analog, Nat)
  <2>1. Within(<<RSC.ANALOG_INPUT_CURRENT_VALUE>> \o MinAndMax, {5600} \cup {5601, 5602, 5605})
    BY <1>4, <1>7, Joined
  <2>2. Within(<<RSC.ANALOG_INPUT_CURRENT_VALUE>> \o MinAndMax \o MinAndMaxRange, {5600, 5601, 5602, 5605} \cup {5603, 5604})
    BY <1>5, <2>1, Joined
  <2>3. Within(analog, {5600, 5601, 5602, 5605, 5603, 5604} \cup {5750})
    BY <1>7, <2>2, Joined
  <2> QED
    BY <2>3 DEF Within
<1>9. Within(energy, Nat)
  <2>1. /\ RSC.SENSOR_VALUE # RSC.RESET_CUMULATIVE_ENERGY /\ RSC.SENSOR_VALUE # RSC.SENSOR_UNITS
        /\ RSC.RESET_CUMULATIVE_ENERGY # RSC.SENSOR_UNITS
    BY <1>3
  <2>2. RSC.APPLICATION_TYPE \notin {RSC.SENSOR_VALUE, RSC.RESET_CUMULATIVE_ENERGY, RSC.SENSOR_UNITS}
    BY <1>3
  <2>3. Within(energy, {RSC.SENSOR_VALUE, RSC.RESET_CUMULATIVE_ENERGY, RSC.SENSOR_UNITS, RSC.APPLICATION_TYPE})
    BY <2>1, <2>2, FourIdentifiers, Zenon
  <2> QED
    BY <1>3, <2>3 DEF Within
<1>10. Within(direction, Nat)
  <2>1. Within(<<RSC.COMPASS_DIRECTION, RSC.APPLICATION_TYPE>>, {5705, 5750})
    BY <1>3, TwoIdentifiers
  <2>2. Within(direction, {5705, 5750} \cup {5601, 5602, 5605})
    BY <1>4, <2>1, Joined
  <2> QED
    BY <2>2 DEF Within
<1>11. Within(digital, Nat)
  <2>1. Within(digital, {5500, 5501} \cup {5750})
    BY <1>6, <1>7, Joined
  <2> QED
    BY <2>1 DEF Within
<1>12. Within(presence, Nat)
  <2>1. Within(<<RSC.SENSOR_TYPE, RSC.DIGITAL_INPUT_COUNTER_RESET>>, {5751, 5505})
    BY <1>3, TwoIdentifiers
  <2>2. Within(presence, {5500, 5501} \cup {5751, 5505})
    BY <1>6, <2>1, Joined
  <2> QED
    BY <2>2 DEF Within
<1>13. Within(other, Nat)
  <2>1. Within(<<RSC.SENSOR_VALUE>> \o MinAndMax, {5700} \cup {5601, 5602, 5605})
    BY <1>4, <1>7, Joined
  <2>2. Within(<<RSC.SENSOR_VALUE>> \o MinAndMax \o <<RSC.SENSOR_UNITS>>, {5700, 5601, 5602, 5605} \cup {5701})
    BY <1>7, <2>1, Joined
  <2>3. Within(<<RSC.SENSOR_VALUE>> \o MinAndMax \o <<RSC.SENSOR_UNITS>> \o MinAndMaxRange,
               {5700, 5601, 5602, 5605, 5701} \cup {5603, 5604})
    BY <1>5, <2>2, Joined
  <2>4. Within(own, {5750})
    <3>1. Within(<<>>, {5750})
      BY EmptyList DEF Within
    <3> QED
      BY <1>7, <3>1
  <2> HIDE DEF own
  <2>5. Within(other, {5700, 5601, 5602, 5605, 5701, 5603, 5604} \cup {5750})
    BY <2>3, <2>4, Joined
  <2> QED
    BY <2>5 DEF Within
<1> HIDE DEF analog, energy, direction, digital, presence, other
<1>14. Within(ids, Nat)
  BY <1>2, <1>8, <1>9, <1>10, <1>11, <1>12, <1>13
<1>15. IpsoIds(type, ids)
  BY <1>1, <1>14 DEF IpsoIds
<1> QED
  BY <1>15

\* A descriptor of each Resource, and one only.
Described(resources) ==
  /\ IsSequence(resources)
  /\ \A i, j \in DOMAIN resources : resources[i].id = resources[j].id => i = j

LEMMA DescribedBy ==
  ASSUME NEW ids, IsList(ids), NEW resources, resources = [i \in DOMAIN ids |-> resources[i]],
         \A i \in DOMAIN ids : resources[i].id = ids[i]
  PROVE  Described(resources)
<1> DEFINE S == {resources[i] : i \in DOMAIN ids}
<1>1. /\ Len(ids) \in Nat /\ DOMAIN ids = 1..Len(ids)
      /\ \A i, j \in 1..Len(ids) : ids[i] = ids[j] => i = j
  BY ListIs
<1>2. resources \in [1..Len(ids) -> S] /\ DOMAIN resources = DOMAIN ids
  BY <1>1
<1>3. resources \in Seq(S)
  <2> HIDE DEF S
  <2> QED
    BY <1>1, <1>2
<1>4. IsSequence(resources)
  BY <1>3, OwnElements
<1> QED
  BY <1>1, <1>2, <1>4 DEF Described

LEMMA DeviceDescribed ==
  ASSUME NEW options
  PROVE  Described(DeviceResources(options))
<1> DEFINE ids == DeviceIds(options)
           resources == [i \in DOMAIN ids |-> DeviceDescriptor(ids[i])]
<1>1. IsList(ids)
  BY DeviceIdsAre DEF Within
<1>2. \A i \in DOMAIN ids : resources[i].id = ids[i]
  BY DEF DeviceDescriptor
<1>3. resources = [i \in DOMAIN ids |-> resources[i]]
  OBVIOUS
<1>4. DeviceResources(options) = resources
  BY DEF DeviceResources
<1> HIDE DEF ids, resources
<1> QED
  BY <1>1, <1>2, <1>3, <1>4, DescribedBy

LEMMA IpsoDescribed ==
  ASSUME NEW type
  PROVE  Described(prv_getResourceDesc(type))
<1>1. PICK ids : IpsoIds(type, ids)
  BY IpsoIdsAre
<1> DEFINE resources == [i \in DOMAIN ids |-> IpsoDescriptor(ids[i])]
<1>2. IsList(ids) /\ prv_getResourceDesc(type) = resources
  BY <1>1 DEF IpsoIds, Within
<1>3. \A i \in DOMAIN ids : resources[i].id = ids[i]
  BY DEF IpsoDescriptor
<1>4. resources = [i \in DOMAIN ids |-> resources[i]]
  OBVIOUS
<1> HIDE DEF resources
<1> QED
  BY <1>2, <1>3, <1>4, DescribedBy

LEMMA CustomIsNotDevice == CustomId # IOWA_LWM2M_DEVICE_OBJECT_ID
  BY ManagementAssumption DEF ManagementAssumption, Reserved

-----------------------------------------------------------------------------
(* The Objects and what their owners have                                  *)

Types == {"single", "multiple", "advanced"}

Fit(o) ==
  /\ GoodObject(o) /\ o.type \in Types /\ Described(o.resources)
  /\ IdentifiersOf(o.instances) \subseteq 0..(ALL - 1)
  /\ o.instanceCb => o.objID = CustomId /\ Needs(o.resources)

\* The sensors have their Instances, in the case u, and the Resources of the
\* device are those of its options.
Belongs(u, o, list) ==
  /\ u.kind = "sensors" /\ o.objID = u.type => o.type = "advanced" /\ IdentifiersOf(list) \subseteq IdentifiersOf(o.instances)
  /\ o.objID = IOWA_LWM2M_DEVICE_OBJECT_ID => o.resources = DeviceResources(u.options)

GoodSensor(s) == DOMAIN s = {"id", "value", "min", "max", "unit", "appType", "range"}

GoodSensors(list) ==
  /\ IsList(list)
  /\ \A s, t \in ToSet(list) : s.id = t.id => s = t
  /\ \A s \in ToSet(list) : GoodSensor(s)

OwnedBy(u, objects, values, list) ==
  /\ GoodList(objects)
  /\ \A o \in ToSet(objects) : Fit(o) /\ Belongs(u, o, list)
  /\ (\A o \in ToSet(objects) : o.objID # CustomId) => values = <<>>
  /\ u.kind = "sensors" => GoodSensors(list) /\ ((\A o \in ToSet(objects) : o.objID # u.type) => list = <<>>)

OwnedInv == uses \in Cases /\ OwnedBy(uses, objectList, app, sensors)

LEMMA OwnedAdded ==
  ASSUME NEW u, NEW objects, NEW values, NEW list, OwnedBy(u, objects, values, list),
         NEW a, Fit(a), \A o \in ToSet(objects) : o.objID # a.objID,
         NEW longer, GoodList(longer), ToSet(longer) = ToSet(objects) \cup {a},
         NEW other, Belongs(u, a, list), a.objID # CustomId => other = values
  PROVE  OwnedBy(u, longer, other, list)
<1>1. ASSUME NEW o \in ToSet(longer) PROVE Fit(o) /\ Belongs(u, o, list)
  <2>1. CASE o = a
    BY <2>1
  <2>2. CASE o \in ToSet(objects)
    <3>1. Fit(o) /\ Belongs(u, o, list) /\ o.objID # a.objID
      BY <2>2 DEF OwnedBy
    <3> QED
      BY <3>1 DEF Belongs
  <2> QED
    BY <2>1, <2>2
<1>2. (\A o \in ToSet(longer) : o.objID # CustomId) => other = values /\ \A o \in ToSet(objects) : o.objID # CustomId
  OBVIOUS
<1>3. (\A o \in ToSet(longer) : o.objID # u.type) => \A o \in ToSet(objects) : o.objID # u.type
  OBVIOUS
<1> QED
  BY <1>1, <1>2, <1>3 DEF OwnedBy

LEMMA OwnedTaken ==
  ASSUME NEW u, NEW objects, NEW values, NEW list, OwnedBy(u, objects, values, list),
         NEW o \in ToSet(objects), NEW shorter, GoodList(shorter), ToSet(shorter) = ToSet(objects) \ {o},
         NEW v, v = IF o.objID = CustomId THEN <<>> ELSE values,
         NEW l, u.kind = "sensors" => l = IF o.objID = u.type THEN <<>> ELSE list
  PROVE  OwnedBy(u, shorter, v, l)
<1>1. ASSUME NEW p \in ToSet(shorter) PROVE Fit(p) /\ Belongs(u, p, l)
  <2>1. Fit(p) /\ Belongs(u, p, list) /\ p.objID # o.objID
    BY DEF OwnedBy, GoodList
  <2> QED
    BY <2>1 DEF Belongs
<1>2. ASSUME \A p \in ToSet(shorter) : p.objID # CustomId PROVE v = <<>>
  <2>1. CASE o.objID = CustomId
    BY <2>1
  <2>2. CASE o.objID # CustomId
    <3>1. \A p \in ToSet(objects) : p.objID # CustomId
      BY <1>2, <2>2
    <3> QED
      BY <2>2, <3>1 DEF OwnedBy
  <2> QED
    BY <2>1, <2>2
<1>3. ASSUME u.kind = "sensors"
      PROVE  GoodSensors(l) /\ ((\A p \in ToSet(shorter) : p.objID # u.type) => l = <<>>)
  <2>1. CASE o.objID = u.type
    <3>1. l = <<>>
      BY <1>3, <2>1
    <3>2. GoodSensors(<<>>)
      BY EmptyList DEF GoodSensors
    <3> QED
      BY <3>1, <3>2
  <2>2. CASE o.objID # u.type
    <3>1. l = list
      BY <1>3, <2>2
    <3>2. ASSUME \A p \in ToSet(shorter) : p.objID # u.type PROVE \A p \in ToSet(objects) : p.objID # u.type
      BY <2>2, <3>2
    <3> QED
      BY <1>3, <3>1, <3>2 DEF OwnedBy
  <2> QED
    BY <2>1, <2>2
<1> QED
  BY <1>1, <1>2, <1>3 DEF OwnedBy

LEMMA OwnedChanged ==
  ASSUME NEW u, NEW objects, NEW values, NEW list, OwnedBy(u, objects, values, list),
         NEW o \in ToSet(objects), NEW p, Fit(p), p.objID = o.objID,
         NEW v, NEW l, Belongs(u, p, l), o.objID # CustomId => v = values,
         u.kind = "sensors" => GoodSensors(l) /\ (o.objID # u.type => l = list)
  PROVE  OwnedBy(u, With(objects, ObjectIndex(objects, p.objID), p), v, l)
<1> DEFINE other == With(objects, ObjectIndex(objects, p.objID), p)
<1>1. GoodList(other) /\ ToSet(other) = (ToSet(objects) \ {o}) \cup {p}
  BY ObjectChanged DEF OwnedBy, Fit
<1> HIDE DEF other
<1>2. ASSUME NEW q \in ToSet(other) PROVE Fit(q) /\ Belongs(u, q, l)
  <2>1. CASE q = p
    BY <2>1
  <2>2. CASE q # p
    <3>1. q \in ToSet(objects) /\ q # o
      BY <1>1, <2>2
    <3>2. Fit(q) /\ Belongs(u, q, list) /\ q.objID # o.objID
      BY <3>1 DEF OwnedBy, GoodList
    <3> QED
      BY <3>2 DEF Belongs
  <2> QED
    BY <2>1, <2>2
<1>3. p \in ToSet(other)
  BY <1>1
<1>4. (\A q \in ToSet(other) : q.objID # CustomId) => v = <<>>
  <2> SUFFICES ASSUME \A q \in ToSet(other) : q.objID # CustomId PROVE v = <<>>
    OBVIOUS
  <2>1. o.objID # CustomId
    BY <1>3
  <2>2. \A q \in ToSet(objects) : q.objID # CustomId
    BY <1>1, <2>1
  <2> QED
    BY <2>1, <2>2 DEF OwnedBy
<1>5. ASSUME u.kind = "sensors", \A q \in ToSet(other) : q.objID # u.type PROVE l = <<>>
  <2>1. o.objID # u.type
    BY <1>3, <1>5
  <2>2. \A q \in ToSet(objects) : q.objID # u.type
    BY <1>1, <1>5, <2>1
  <2> QED
    BY <1>5, <2>1, <2>2 DEF OwnedBy
<1>6. OwnedBy(u, other, v, l)
  BY <1>1, <1>2, <1>4, <1>5 DEF OwnedBy
<1> QED
  BY <1>6 DEF other

\* What the owners have changes, but not of which Instances.
LEMMA OwnedSame ==
  ASSUME NEW u, NEW objects, NEW values, NEW list, OwnedBy(u, objects, values, list),
         NEW v, v = values \/ \E o \in ToSet(objects) : o.objID = CustomId,
         NEW l, u.kind = "sensors" => /\ GoodSensors(l) /\ IdentifiersOf(l) = IdentifiersOf(list)
                                      /\ list = <<>> => l = <<>>
  PROVE  OwnedBy(u, objects, v, l)
<1>1. ASSUME NEW o \in ToSet(objects) PROVE Fit(o) /\ Belongs(u, o, l)
  BY DEF OwnedBy, Belongs
<1>2. (\A o \in ToSet(objects) : o.objID # CustomId) => v = <<>>
  BY DEF OwnedBy
<1> QED
  BY <1>1, <1>2 DEF OwnedBy

-----------------------------------------------------------------------------
(* The Instances of an Object                                              *)

\* p is the Object o with an Instance more.
OneMore(o, p, id) ==
  /\ id \notin IdentifiersOf(o.instances)
  /\ Fit(p) /\ p.objID = o.objID /\ p.type = o.type /\ p.resources = o.resources
  /\ IdentifiersOf(p.instances) = IdentifiersOf(o.instances) \cup {id}

LEMMA AddedInstance ==
  ASSUME NEW o, Fit(o), o.type # "single", NEW id \in 0..(ALL - 1), NEW resources, NEW fails,
         NEW added, added = prv_addInstance(o, id, resources, fails)
  PROVE  \/ added.code = NO_ERROR /\ OneMore(o, added.object, id)
         \/ added.code # NO_ERROR /\ added.object = o
<1> DEFINE i == [id |-> id, resources |-> resources]
           p == [o EXCEPT !.instances = Append(@, i)]
<1>1. CASE object_getInstanceIndex(o, id) # 0 \/ fails
  BY <1>1 DEF prv_addInstance, NO_ERROR, NOT_ACCEPTABLE, INTERNAL_ERROR
<1>2. CASE object_getInstanceIndex(o, id) = 0 /\ ~fails
  <2>1. added.code = NO_ERROR /\ added.object = p
    BY <1>2 DEF prv_addInstance
  <2>2. id # ALL
    BY AllIsNone
  <2>3. object_getInstanceIndex(o, id) \notin 1..Len(o.instances)
    BY <1>2
  <2>4. id \notin IdentifiersOf(o.instances)
    BY <2>2, <2>3, InstanceIndexIs DEF Fit
  <2>5. i.id = id
    OBVIOUS
  <2> HIDE DEF i
  <2>6. /\ GoodObject(p) /\ p.objID = o.objID /\ p.type = o.type /\ p.resources = o.resources
        /\ p.instanceCb = o.instanceCb
        /\ IdentifiersOf(p.instances) = IdentifiersOf(o.instances) \cup {id}
    BY <2>4, <2>5, InstanceAppended DEF Fit
  <2> HIDE DEF p
  <2>7. Fit(p)
    BY <2>6 DEF Fit
  <2> QED
    BY <2>1, <2>4, <2>6, <2>7 DEF OneMore
<1> QED
  BY <1>1, <1>2

LEMMA NotAdded ==
  ASSUME NEW o, Fit(o), NEW id, id \notin IdentifiersOf(o.instances), NEW resources
  PROVE  LET added == prv_addInstance(o, id, resources, TRUE) IN added.code = INTERNAL_ERROR /\ added.object = o
<1>1. object_getInstanceIndex(o, id) = 0
  BY InstanceIndexIs DEF Fit, IdentifiersOf
<1> QED
  BY <1>1 DEF prv_addInstance

LEMMA AddedWithMemory ==
  ASSUME NEW o, Fit(o), NEW id, id \notin IdentifiersOf(o.instances), NEW resources, NEW fails, ~fails
  PROVE  prv_addInstance(o, id, resources, fails).code = NO_ERROR
<1>1. object_getInstanceIndex(o, id) = 0
  BY InstanceIndexIs DEF Fit, IdentifiersOf
<1> QED
  BY <1>1 DEF prv_addInstance

LEMMA RemovedInstance ==
  ASSUME NEW o, Fit(o), NEW id \in 0..(ALL - 1), NEW fails,
         NEW removed, removed = prv_removeInstance(o, id, fails)
  PROVE  \/ /\ removed.code = NO_ERROR /\ id \in IdentifiersOf(o.instances)
            /\ Fit(removed.object) /\ removed.object.objID = o.objID
            /\ removed.object.type = o.type /\ removed.object.resources = o.resources
            /\ IdentifiersOf(removed.object.instances) = IdentifiersOf(o.instances) \ {id}
         \/ /\ removed.code # NO_ERROR /\ removed.object = o
            /\ id \in IdentifiersOf(o.instances) => removed.code = INTERNAL_ERROR /\ Len(o.instances) > 1
<1> DEFINE index == object_getInstanceIndex(o, id)
           torn == fails /\ Len(o.instances) > 1
           p == [o EXCEPT !.instances = RemoveAt(@, index)]
<1>1. id # ALL
  BY AllIsNone
<1>2. \/ index = 0 /\ id \notin IdentifiersOf(o.instances)
      \/ /\ index \in 1..Len(o.instances) /\ index # 0
         /\ o.instances[index] \in ToSet(o.instances) /\ o.instances[index].id = id
  BY <1>1, InstanceIndexIs DEF Fit
<1>3. CASE index = 0
  <2>1. removed.code # NO_ERROR /\ removed.object = o
    BY <1>1, <1>3 DEF prv_removeInstance, NO_ERROR, NOT_FOUND
  <2> QED
    BY <1>2, <1>3, <2>1
<1>4. CASE index # 0 /\ torn
  <2>1. removed.code = INTERNAL_ERROR /\ removed.object = o
    BY <1>1, <1>4 DEF prv_removeInstance
  <2>2. removed.code # NO_ERROR
    BY <2>1 DEF INTERNAL_ERROR, NO_ERROR
  <2>3. Len(o.instances) > 1
    BY <1>4
  <2> QED
    BY <2>1, <2>2, <2>3, Zenon
<1>5. CASE index # 0 /\ ~torn
  <2>1. removed.code = NO_ERROR /\ removed.object = p
    BY <1>1, <1>5 DEF prv_removeInstance
  <2>2. index \in 1..Len(o.instances) /\ o.instances[index].id = id /\ GoodObject(o)
    BY <1>2, <1>5 DEF Fit
  <2> HIDE DEF index
  <2>3. /\ GoodObject(p) /\ p.objID = o.objID /\ p.type = o.type /\ p.resources = o.resources
        /\ p.instanceCb = o.instanceCb
        /\ IdentifiersOf(p.instances) = IdentifiersOf(o.instances) \ {o.instances[index].id}
    BY <2>2, InstanceTaken
  <2>4. id \in IdentifiersOf(o.instances)
    BY <1>2, <1>5 DEF IdentifiersOf
  <2> HIDE DEF p
  <2>5. Fit(p)
    BY <2>2, <2>3 DEF Fit
  <2> QED
    BY <2>1, <2>2, <2>4, <2>5, <2>3
<1> QED
  BY <1>3, <1>4, <1>5

\* prv_getNewInstanceId
LEMMA NewInstance ==
  ASSUME NEW o, Fit(o), Len(o.instances) < ALL
  PROVE  prv_getNewInstanceId(o) \in 0..(ALL - 1) /\ prv_getNewInstanceId(o) \notin IdentifiersOf(o.instances)
<1> DEFINE used == IdentifiersOf(o.instances)
           n == Len(o.instances)
           Free(id) == /\ \A i \in DOMAIN o.instances : o.instances[i].id # id
                       /\ \A lower \in 0..(id - 1) : \E i \in DOMAIN o.instances : o.instances[i].id = lower
<1>1. IsFiniteSet(used) /\ Cardinality(used) = n /\ n \in Nat
  BY IdentifiersCount DEF Fit, GoodObject
<1>2. used = {o.instances[i].id : i \in DOMAIN o.instances}
  BY DEF IdentifiersOf, ToSet
<1> HIDE DEF used, n
<1>3. PICK id \in 0..n : id \notin used /\ 0..(id - 1) \subseteq used
  BY <1>1, FreeIdentifier
<1>4. Free(id)
  BY <1>2, <1>3
<1>5. prv_getNewInstanceId(o) = CHOOSE m \in 0..n : Free(m)
  BY DEF prv_getNewInstanceId, n
<1>6. prv_getNewInstanceId(o) \in 0..n /\ Free(prv_getNewInstanceId(o))
  <2> HIDE DEF Free
  <2> QED
    BY <1>3, <1>4, <1>5
<1>7. prv_getNewInstanceId(o) \notin used
  BY <1>2, <1>6
<1>8. n <= ALL - 1 /\ ALL \in Nat
  BY <1>1, AllIs DEF n
<1> HIDE DEF Free
<1>9. prv_getNewInstanceId(o) \in 0..(ALL - 1)
  BY <1>1, <1>6, <1>8
<1> QED
  BY <1>7, <1>9 DEF used

\* What is kept of the data of a Create is not nothing.
LEMMA NamesOne ==
  ASSUME NEW o, Needs(o.resources), NEW data, prv_adaptCreatePayload(o, data).code = NO_ERROR
  PROVE  prv_adaptCreatePayload(o, data).data # <<>>
<1> DEFINE known == SelectSeq(data, LAMBDA d : prv_getResourceIndex(o, 0, d.resource) # 0)
           check(d) == prv_checkDataConsistency(d, ResourceOf(o, d.resource))
           error == FirstError([i \in DOMAIN known |-> check(known[i])])
           missing == \E r \in Range(o.resources) :
                        r.mandatory /\ ~IS_RSC_EXECUTABLE(r) /\ \A i \in DOMAIN known : known[i].resource # r.id
           one == \A i \in DOMAIN data : data[i].instance = data[1].instance
<1> HIDE DEF known
<1>1. prv_adaptCreatePayload(o, data) =
        CASE ~one -> [code |-> BAD_REQUEST, data |-> <<>>]
          [] one /\ error # NO_ERROR -> [code |-> error, data |-> <<>>]
          [] one /\ error = NO_ERROR /\ missing -> [code |-> BAD_REQUEST, data |-> <<>>]
          [] OTHER -> [code |-> NO_ERROR, data |-> known]
  BY Zenon DEF prv_adaptCreatePayload, known
<1>2. missing \/ known # <<>>
  <2> SUFFICES ASSUME known = <<>> PROVE missing
    OBVIOUS
  <2>1. DOMAIN known = {}
    OBVIOUS
  <2> QED
    BY <2>1 DEF Needs
<1> HIDE DEF error, missing, one
<1>3. BAD_REQUEST # NO_ERROR
  BY DEF BAD_REQUEST, NO_ERROR
<1> QED
  BY <1>1, <1>2, <1>3

\* An identifier of 16 bits is of one Instance, or of all.
LEMMA Named ==
  ASSUME NEW id \in Ids, id # ALL
  PROVE  id \in 0..(ALL - 1)
<1>1. ALL \in Nat
  BY AllIs
<1>2. id \in 0..ALL
  BY DEF Ids
<1> QED
  BY <1>1, <1>2

CreateCall(id) == [operation |-> "CREATE", instance |-> id]
DeleteCall(id) == [operation |-> "DELETE", instance |-> id]

\* A Create adds one Instance that was not there, and the application is told of it.
Creates(o, c, id) ==
  /\ o.instanceCb /\ id \notin IdentifiersOf(o.instances) /\ c.calls = <<CreateCall(id)>> /\ c.code = CREATED
  /\ Fit(c.object) /\ c.object.objID = o.objID /\ c.object.resources = o.resources
  /\ IdentifiersOf(c.object.instances) = IdentifiersOf(o.instances) \cup {id}

\* Or it adds none, and the application is told to undo the one it was told of.
Undoes(o, c, id) ==
  /\ o.instanceCb /\ id \notin IdentifiersOf(o.instances) /\ c.calls = <<CreateCall(id), DeleteCall(id)>>
  /\ c.object = o

\* Or it adds none for lack of memory, and the application is not told.
LeavesOne(o, c, id) ==
  /\ o.instanceCb /\ id \notin IdentifiersOf(o.instances) /\ c.calls = <<CreateCall(id)>> /\ c.code = INTERNAL_ERROR
  /\ c.object = o

\* Or it is refused before.
Outcome(o, c) ==
  \/ \E id : Creates(o, c, id) \/ Undoes(o, c, id) \/ LeavesOne(o, c, id)
  \/ c.calls = <<>> /\ c.object = o

NamesId(data) == data[1].instance \in Ids
HasRoom(o) == Len(o.instances) < ALL

LEMMA CreateIs ==
  ASSUME NEW o, Fit(o), HasRoom(o), NEW data, NamesId(data), NEW accepts, NEW written, NEW fails \in BOOLEAN,
         NEW c, c = object_create(o, data, accepts, written, fails)
  PROVE  Outcome(o, c)
<1> DEFINE adapted == prv_adaptCreatePayload(o, data)
           known == adapted.data
           id == NewId(o, data)
           added == prv_addInstance(o, AddedId(o, data, known), NULL, fails)
           result == prv_create(o, data, known, accepts, written, fails)
           goes == o.instanceCb /\ object_getInstanceIndex(o, data[1].instance) = 0 /\ accepts = NO_ERROR
<1>1. CASE adapted.code # NO_ERROR
  BY <1>1 DEF object_create, Outcome
<1>2. CASE adapted.code = NO_ERROR
  <2>1. c = result
    BY <1>2 DEF object_create
  <2>2. CASE ~goes
    <3>1. result.object = o
      BY <2>2 DEF prv_create
    <3>2. result.calls = <<>>
      BY <2>2 DEF prv_create
    <3> HIDE DEF result
    <3> QED
      BY <2>1, <3>1, <3>2 DEF Outcome
  <2>3. CASE goes
    <3>1. Needs(o.resources) /\ o.type # "single"
      BY <2>3 DEF Fit, GoodObject
    <3>2. known # <<>>
      BY <1>2, <3>1, NamesOne
    <3>3. AddedId(o, data, known) = id
      BY <3>2 DEF AddedId
    <3>4. id \in 0..(ALL - 1) /\ id \notin IdentifiersOf(o.instances)
      <4>1. CASE data[1].instance = ALL
        <5>1. id = prv_getNewInstanceId(o)
          BY <4>1 DEF NewId
        <5> HIDE DEF id
        <5> QED
          BY <5>1, NewInstance DEF HasRoom
      <4>2. CASE data[1].instance # ALL
        <5>1. id = data[1].instance
          BY <4>2 DEF NewId
        <5>2. id \in 0..(ALL - 1)
          BY <4>2, <5>1, Named DEF NamesId
        <5>3. object_getInstanceIndex(o, id) = 0
          BY <2>3, <5>1
        <5> HIDE DEF id
        <5>4. object_getInstanceIndex(o, id) \notin 1..Len(o.instances) /\ id # ALL
          BY <4>2, <5>1, <5>3
        <5>5. id \notin IdentifiersOf(o.instances)
          BY <5>4, InstanceIndexIs DEF Fit
        <5> QED
          BY <5>2, <5>5
      <4> QED
        BY <4>1, <4>2
    <3>5. CASE written # NO_ERROR
      <4>1. c.object = o /\ c.calls = CreateUndone(id, AddedId(o, data, known))
        <5>1. result.object = o
          BY <2>3, <3>5 DEF prv_create
        <5>2. result.calls = CreateUndone(id, AddedId(o, data, known))
          BY <2>3, <3>5 DEF prv_create
        <5> HIDE DEF result
        <5> QED
          BY <2>1, <5>1, <5>2
      <4>2. c.calls = <<CreateCall(id), DeleteCall(id)>>
        BY <3>3, <4>1 DEF CreateUndone, CreateCall, DeleteCall
      <4> HIDE DEF id
      <4>3. Undoes(o, c, id)
        BY <2>3, <3>4, <4>1, <4>2 DEF Undoes
      <4> QED
        BY <4>3 DEF Outcome
    <3>6. CASE written = NO_ERROR
      <4>1. /\ c.object = added.object /\ c.calls = <<CreateCall(id)>>
            /\ c.code = IF added.code = NO_ERROR THEN CREATED ELSE added.code
        <5>1. result.object = added.object /\ result.code = IF added.code = NO_ERROR THEN CREATED ELSE added.code
          BY <2>3, <3>6 DEF prv_create
        <5>2. result.calls = <<CreateCall(id)>>
          BY <2>3, <3>6 DEF prv_create, CreateCall
        <5> HIDE DEF result
        <5> QED
          BY <2>1, <5>1, <5>2
      <4>2. added = prv_addInstance(o, id, NULL, fails)
        BY <3>3
      <4> HIDE DEF id, added
      <4>3. CASE ~fails
        <5>1. added.code = NO_ERROR
          BY <3>4, <4>2, <4>3, AddedWithMemory
        <5>2. OneMore(o, added.object, id)
          BY <3>1, <3>4, <4>2, <5>1, AddedInstance
        <5>3. Creates(o, c, id)
          BY <2>3, <3>4, <4>1, <5>1, <5>2 DEF Creates, OneMore
        <5> QED
          BY <5>3 DEF Outcome
      <4>4. CASE fails
        <5>1. added.code = INTERNAL_ERROR /\ added.object = o
          <6>1. fails = TRUE
            BY <4>4
          <6> QED
            BY <3>4, <4>2, <6>1, NotAdded
        <5>2. INTERNAL_ERROR # NO_ERROR
          BY DEF INTERNAL_ERROR, NO_ERROR
        <5>3. LeavesOne(o, c, id)
          BY <2>3, <3>4, <4>1, <5>1, <5>2 DEF LeavesOne
        <5> QED
          BY <5>3 DEF Outcome
      <4> QED
        BY <4>3, <4>4
    <3> QED
      BY <3>5, <3>6
  <2> QED
    BY <2>2, <2>3
<1> QED
  BY <1>1, <1>2

\* A Delete that is done takes the Instance, or leaves it for lack of memory.
LEMMA DeleteIs ==
  ASSUME NEW o, Fit(o), NEW id, NEW accepts \in {NO_ERROR, NOT_ACCEPTABLE}, NEW fails,
         NEW d, d = object_delete(o, id, accepts, fails)
  PROVE  \/ /\ d.code = DELETED /\ o.instanceCb /\ id \in IdentifiersOf(o.instances)
            /\ Fit(d.object) /\ d.object.objID = o.objID /\ d.object.resources = o.resources
            /\ \/ IdentifiersOf(d.object.instances) = IdentifiersOf(o.instances) \ {id}
               \/ d.object = o /\ Len(o.instances) > 1
         \/ d.code # DELETED /\ d.object = o
<1> DEFINE index == object_getInstanceIndex(o, id)
           goes == o.instanceCb /\ index # 0 /\ accepts = NO_ERROR
<1>1. CASE d.code # DELETED
  BY <1>1, RefusedDelete
<1>2. CASE d.code = DELETED /\ goes
  <2>1. id \in IdentifiersOf(o.instances)
    BY <1>2, InstanceIndexIs DEF Fit, IdentifiersOf
  <2>2. id \in 0..(ALL - 1)
    BY <2>1 DEF Fit
  <2> PICK removed : removed = prv_removeInstance(o, id, fails)
    OBVIOUS
  <2>3. d.object = removed.object
    BY <1>2 DEF object_delete
  <2>4. /\ Fit(removed.object) /\ removed.object.objID = o.objID /\ removed.object.resources = o.resources
        /\ \/ IdentifiersOf(removed.object.instances) = IdentifiersOf(o.instances) \ {id}
           \/ removed.object = o /\ Len(o.instances) > 1
    BY <2>1, <2>2, RemovedInstance
  <2> QED
    BY <1>2, <2>1, <2>3, <2>4
<1>3. CASE d.code = DELETED /\ ~goes /\ ~o.instanceCb
  BY <1>3 DEF object_delete, METHOD_NOT_ALLOWED, DELETED
<1>4. CASE d.code = DELETED /\ ~goes /\ o.instanceCb /\ index = 0
  BY <1>4 DEF object_delete, NOT_FOUND, DELETED
<1>5. CASE d.code = DELETED /\ ~goes /\ o.instanceCb /\ index # 0
  <2>1. accepts # NO_ERROR /\ d.code = accepts
    BY <1>5 DEF object_delete
  <2>2. accepts = NOT_ACCEPTABLE
    BY <2>1
  <2>3. NOT_ACCEPTABLE # DELETED
    BY DEF NOT_ACCEPTABLE, DELETED
  <2> QED
    BY <1>5, <2>1, <2>2, <2>3
<1> QED
  BY <1>1, <1>2, <1>3, <1>4, <1>5

-----------------------------------------------------------------------------
(* The Instances an Object has and those its owner has                     *)

\* What a step does with the two.
Agrees == Torn' \subseteq Torn \/ Tears

LEMMA ReportIs ==
  ASSUME NEW operation, NEW code, NEW told, Report(operation, code, told)
  PROVE  out'.operation = operation /\ out'.code = code
BY DEF Report, Reported

LEMMA OwnedIs ==
  /\ Owned = IF UsesSensors THEN IdentifiersOf(sensors) ELSE DOMAIN app
  /\ Owned' = IF UsesSensors' THEN IdentifiersOf(sensors') ELSE DOMAIN app'
BY DEF Owned, IdentifiersOf, ToSet

LEMMA HeldIn ==
  ASSUME NEW list, GoodList(list), NEW id, NEW x
  PROVE  LET instances == IF ObjectIndex(list, id) = 0 THEN {} ELSE InstancesOf(ObjectOf(list, id)) IN
         x \in instances <=> \E o \in ToSet(list) : o.objID = id /\ x \in IdentifiersOf(o.instances)
<1>1. CASE ObjectIndex(list, id) = 0
  BY <1>1, ObjectOfIs
<1>2. CASE ObjectIndex(list, id) # 0
  <2>1. ObjectOf(list, id) \in ToSet(list) /\ ObjectOf(list, id).objID = id
    BY <1>2, ObjectOfIs
  <2>2. \A o \in ToSet(list) : o.objID = id => ObjectOf(list, id) = o
    BY ObjectOfIs
  <2> QED
    BY <1>2, <2>1, <2>2, InstancesAre
<1> QED
  BY <1>1, <1>2

LEMMA HeldIs ==
  /\ OwnedInv => \A x : x \in Held <=> \E o \in ToSet(objectList) : o.objID = OwnedObject /\ x \in IdentifiersOf(o.instances)
  /\ OwnedInv' => \A x : x \in Held' <=>
                    \E o \in ToSet(objectList') : o.objID = OwnedObject' /\ x \in IdentifiersOf(o.instances)
BY HeldIn DEF Held, OwnedInv, OwnedBy

LEMMA BothSame ==
  ASSUME Held' = Held, Owned' = Owned
  PROVE  Agrees
BY DEF Agrees, Torn

LEMMA BothMore ==
  ASSUME NEW id, Held' = Held \cup {id}, Owned' = Owned \cup {id}
  PROVE  Agrees
BY DEF Agrees, Torn

LEMMA BothLess ==
  ASSUME NEW id, Held' = Held \ {id}, Owned' = Owned \ {id}
  PROVE  Agrees
BY DEF Agrees, Torn

LEMMA BothEqual ==
  ASSUME Held' = Owned'
  PROVE  Agrees
BY DEF Agrees, Torn

\* The owner loses an Instance that stays, or has one that is not there.
LEMMA OwnerAlone ==
  ASSUME UNCHANGED objectList, Held' = Held, NEW id,
         \/ id \in Held /\ Owned' = Owned \ {id}
         \/ id \notin Held /\ Owned' = Owned \cup {id},
         \/ out'.code = INTERNAL_ERROR /\ out'.operation \in {"create", "sensor"}
         \/ out'.code = DELETED /\ out'.operation = "delete" /\ Cardinality(Held) > 1
  PROVE  Agrees
<1>1. id \in Torn' /\ Torn' = Torn \cup {id}
  BY DEF Torn
<1> QED
  BY <1>1 DEF Agrees, Tears

\* An Instance the Object has not may go from its owner.
LEMMA OwnerRid ==
  ASSUME Held' = Held, NEW id, id \notin Held, Owned' = Owned \ {id}
  PROVE  Agrees
BY DEF Agrees, Torn

-----------------------------------------------------------------------------
(* The application and its Object                                          *)

\* What the owners have of the Instances does not change.
LEMMA NothingOwned ==
  ASSUME OwnedInv, UNCHANGED <<uses, objectList>>, DOMAIN app' = DOMAIN app,
         app' = app \/ \E o \in ToSet(objectList) : o.objID = CustomId,
         \/ UNCHANGED sensors
         \/ ~UsesSensors
         \/ /\ GoodSensors(sensors') /\ IdentifiersOf(sensors') = IdentifiersOf(sensors)
            /\ sensors = <<>> => sensors' = <<>>
  PROVE  OwnedInv' /\ Agrees
<1>1. OwnedBy(uses, objectList, app, sensors)
  BY DEF OwnedInv
<1>2. uses.kind = "sensors" => /\ GoodSensors(sensors') /\ IdentifiersOf(sensors') = IdentifiersOf(sensors)
                               /\ sensors = <<>> => sensors' = <<>>
  BY <1>1 DEF OwnedBy, UsesSensors
<1>3. OwnedBy(uses, objectList, app', sensors')
  BY <1>1, <1>2, OwnedSame
<1>4. Held' = Held
  BY DEF Held, OwnedObject, UsesSensors
<1>5. Owned' = Owned
  BY OwnedIs DEF UsesSensors
<1> QED
  BY <1>3, <1>4, <1>5, BothSame DEF OwnedInv

LEMMA AllUnchanged ==
  ASSUME OwnedInv, UNCHANGED <<uses, objectList, app, sensors>>
  PROVE  OwnedInv' /\ Agrees
<1>1. Held' = Held
  BY DEF Held, OwnedObject, UsesSensors
<1>2. Owned' = Owned
  BY DEF Owned, UsesSensors
<1> QED
  BY <1>1, <1>2, BothSame DEF OwnedInv

\* An Object that becomes another one, and what the application has with it.
LEMMA ChangeOwned ==
  ASSUME OwnedInv, UNCHANGED uses, NEW o \in ToSet(objectList), NEW p, Fit(p), p.objID = o.objID,
         objectList' = ObjectBecomes(p), Belongs(uses, p, sensors'),
         o.objID # CustomId => UNCHANGED app,
         UsesSensors => GoodSensors(sensors') /\ (o.objID # uses.type => UNCHANGED sensors)
  PROVE  /\ OwnedInv'
         /\ o.objID # OwnedObject => Held' = Held
         /\ o.objID = OwnedObject => Held = IdentifiersOf(o.instances) /\ Held' = IdentifiersOf(p.instances)
<1>1. OwnedBy(uses, objectList, app, sensors)
  BY DEF OwnedInv
<1>2. uses.kind = "sensors" => GoodSensors(sensors') /\ (o.objID # uses.type => sensors' = sensors)
  BY DEF UsesSensors
<1>3. OwnedBy(uses, With(objectList, ObjectIndex(objectList, p.objID), p), app', sensors')
  BY <1>1, <1>2, OwnedChanged
<1>4. objectList' = With(objectList, ObjectIndex(objectList, p.objID), p)
  BY DEF ObjectBecomes, With
<1>5. OwnedInv'
  BY <1>3, <1>4 DEF OwnedInv
<1>6. ToSet(objectList') = (ToSet(objectList) \ {o}) \cup {p}
  BY <1>1, <1>4, ObjectChanged DEF OwnedBy, Fit
<1>7. OwnedObject' = OwnedObject
  BY DEF OwnedObject, UsesSensors
<1>8. CASE o.objID # OwnedObject
  <2>1. \A x : x \in Held' <=> x \in Held
    BY <1>5, <1>6, <1>7, <1>8, HeldIs
  <2> QED
    BY <1>5, <1>8, <2>1
<1>9. CASE o.objID = OwnedObject
  <2>1. \A q \in ToSet(objectList) : q.objID = OwnedObject => q = o
    BY <1>1, <1>9 DEF OwnedBy, GoodList
  <2>2. \A x : x \in Held <=> x \in IdentifiersOf(o.instances)
    BY <1>9, <2>1, HeldIs
  <2>3. \A x : x \in Held' <=> x \in IdentifiersOf(p.instances)
    BY <1>5, <1>6, <1>7, <1>9, <2>1, HeldIs
  <2> QED
    BY <1>5, <1>9, <2>2, <2>3
<1> QED
  BY <1>8, <1>9

\* The new Object has the Instances of the request, or the one of an Object that may have one.
LEMMA NewObjectIs ==
  ASSUME NEW request, request.instanceIDs \in Seq(Ids), IsInjective(request.instanceIDs),
         request.instanceCb \in BOOLEAN
  PROVE  LET o == NewObject(request) IN
         /\ GoodObject(o) /\ o.objID = request.objectID /\ o.resources = request.resources
         /\ o.instanceCb = request.instanceCb /\ o.type \in Types
         /\ IdentifiersOf(o.instances) = ToSet(request.instanceIDs)
<1> DEFINE ids == request.instanceIDs
           instances == [i \in DOMAIN ids |-> [id |-> ids[i], resources |-> NULL]]
           type == IF ids = <<>> /\ ~request.instanceCb THEN "single" ELSE "multiple"
           o == [objID |-> request.objectID, resources |-> request.resources, instanceCb |-> request.instanceCb,
                 type |-> type, instances |-> instances]
           S == {[id |-> ids[i], resources |-> NULL] : i \in DOMAIN ids}
<1>1. Len(ids) \in Nat /\ DOMAIN ids = 1..Len(ids)
  BY LenProperties
<1>2. /\ instances \in [1..Len(ids) -> S] /\ DOMAIN instances = DOMAIN ids
      /\ \A i \in DOMAIN ids : instances[i].id = ids[i]
  BY <1>1
<1>3. NewObject(request) = o
  BY Zenon DEF NewObject
<1> HIDE DEF S, instances
<1>4. instances \in Seq(S)
  <2>1. Len(ids) \in Nat
    BY <1>1
  <2>2. instances \in [1..Len(ids) -> S]
    BY <1>2
  <2> HIDE DEF ids
  <2> QED
    BY <2>1, <2>2
<1>5. \A i, j \in DOMAIN ids : ids[i] = ids[j] => i = j
  BY DEF IsInjective
<1>6. Distinct(instances)
  BY <1>2, <1>5 DEF Distinct
<1>7. IsList(instances)
  BY <1>4, <1>6, OwnElements DEF IsList
<1>8. \A i, j \in ToSet(instances) : i.id = j.id => i = j
  BY <1>2, <1>5 DEF ToSet
<1>9. IdentifiersOf(instances) = ToSet(ids)
  BY <1>2 DEF IdentifiersOf, ToSet
<1>10. type = "single" => ~request.instanceCb /\ ToSet(ids) = {}
  <2>1. ids = <<>> => ToSet(ids) = {}
    BY EmptyList
  <2> QED
    BY <2>1
<1>11. type \in Types
  BY DEF Types
<1> HIDE DEF ids, type
<1>12. /\ DOMAIN o = {"objID", "type", "instanceCb", "resources", "instances"}
       /\ o.objID = request.objectID /\ o.resources = request.resources /\ o.type = type
       /\ o.instanceCb = request.instanceCb /\ o.instances = instances
  OBVIOUS
<1> HIDE DEF o
<1>13. GoodObject(o)
  BY <1>7, <1>8, <1>9, <1>10, <1>12 DEF GoodObject
<1> QED
  BY <1>3, <1>9, <1>12, <1>13, <1>11 DEF ids

LEMMA FromValues ==
  ASSUME NEW id, NEW v, NEW values
  PROVE  /\ DOMAIN Holding(values, id, v) = DOMAIN values \cup {id}
         /\ DOMAIN Restrict(values, DOMAIN values \ {id}) = DOMAIN values \ {id}
BY DEF Holding, Restrict

LEMMA AddCheckIs ==
  ASSUME NEW request \in AddRequests, AddCheck(request) = NO_ERROR
  PROVE  /\ request.objectID = CustomId /\ ToSet(request.instanceIDs) \subseteq 0..(ALL - 1)
         /\ \A i, j \in DOMAIN request.resources : request.resources[i].id = request.resources[j].id => i = j
<1> DEFINE ids == [i \in DOMAIN request.resources |-> request.resources[i].id]
           illFormed(r) == r.id = ALL \/ r.operations = {} \/ (r.type = "UNDEFINED" /\ r.operations # {"EXECUTE"})
           bad == \/ ids = <<>> \/ Contains(request.instanceIDs, ALL)
                  \/ (\E r \in Range(request.resources) : illFormed(r)) \/ ~IsInjective(ids)
           checked == CheckObjectId(request.objectID)
<1>1. AddCheck(request) = CASE checked # NO_ERROR -> checked
                            [] checked = NO_ERROR /\ bad -> NOT_ACCEPTABLE
                            [] OTHER -> NO_ERROR
  BY Zenon DEF AddCheck
<1>2. bad \in BOOLEAN /\ (Contains(request.instanceIDs, ALL) => bad) /\ (~IsInjective(ids) => bad)
  OBVIOUS
<1> HIDE DEF bad, checked
<1>3. NOT_ACCEPTABLE # NO_ERROR /\ FORBIDDEN # NO_ERROR
  BY DEF NOT_ACCEPTABLE, NO_ERROR, FORBIDDEN
<1>4. checked = NO_ERROR /\ ~bad
  BY <1>1, <1>2, <1>3
<1>5. request.objectID \notin Reserved /\ request.objectID # ALL
  BY <1>3, <1>4 DEF CheckObjectId, checked
<1>6. request.objectID \in {CustomId, ALL} \cup Reserved /\ request.instanceIDs \in Seq(Ids)
  BY ManagementAssumption DEF ManagementAssumption
<1>7. ASSUME NEW id \in ToSet(request.instanceIDs) PROVE id \in 0..(ALL - 1)
  <2>1. PICK i \in DOMAIN request.instanceIDs : request.instanceIDs[i] = id
    BY DEF ToSet
  <2>2. i \in 1..Len(request.instanceIDs) /\ id \in Ids
    BY <1>6, <2>1, LenProperties, ElementOfSeq
  <2>3. id # ALL
    BY <1>2, <1>4, <2>1, <2>2 DEF Contains
  <2> QED
    BY <2>2, <2>3, Named
<1>8. \A i, j \in DOMAIN request.resources : request.resources[i].id = request.resources[j].id => i = j
  <2>1. IsInjective(ids)
    BY <1>2, <1>4
  <2> QED
    BY <2>1 DEF IsInjective
<1> QED
  BY <1>5, <1>6, <1>7, <1>8

LEMMA SingleIsNamed == LWM2M_SINGLE_OBJECT_INSTANCE_ID \in 0..(ALL - 1)
<1>1. LWM2M_SINGLE_OBJECT_INSTANCE_ID = 0 /\ ALL \in Nat /\ ALL > 0
  BY AllIs DEF LWM2M_SINGLE_OBJECT_INSTANCE_ID
<1> QED
  BY <1>1

LEMMA AddOwned ==
  ASSUME Contract, OwnedInv, NEW request \in AddRequests, iowa_client_add_custom_object(request)
  PROVE  OwnedInv' /\ Agrees
<1> DEFINE new == NewObject(request)
<1>1. uses.kind = "custom" /\ UNCHANGED <<uses, sensors>>
  BY DEF iowa_client_add_custom_object
<1>2. PICK fails \in Fails :
        \/ UNCHANGED <<objectList, server, app>>
        \/ /\ AddCheck(request) = NO_ERROR /\ customObjectAdd(objectList, new, fails).code = NO_ERROR
           /\ ListBecomes(customObjectAdd(objectList, new, fails).list)
           /\ app' = [id \in {ObjectOf(customObjectAdd(objectList, new, fails).list, CustomId).instances[i].id :
                                i \in DOMAIN ObjectOf(customObjectAdd(objectList, new, fails).list, CustomId).instances} |->
                        NewValues(request.resources)]
  BY Zenon DEF iowa_client_add_custom_object
<1>3. CASE UNCHANGED <<objectList, server, app>>
  BY <1>1, <1>3, AllUnchanged
<1>4. CASE ~UNCHANGED <<objectList, server, app>>
  <2> DEFINE longer == customObjectAdd(objectList, new, fails).list
             ids == {ObjectOf(longer, CustomId).instances[i].id : i \in DOMAIN ObjectOf(longer, CustomId).instances}
  <2>1. /\ AddCheck(request) = NO_ERROR /\ customObjectAdd(objectList, new, fails).code = NO_ERROR
        /\ objectList' = longer /\ app' = [id \in ids |-> NewValues(request.resources)]
    BY <1>2, <1>4 DEF ListBecomes
  <2>2. request.objectID = CustomId /\ ToSet(request.instanceIDs) \subseteq 0..(ALL - 1)
    BY <2>1, AddCheckIs
  <2>3. request.instanceIDs \in Seq(Ids) /\ request.instanceCb \in BOOLEAN
    BY ManagementAssumption DEF ManagementAssumption
  <2>4. IsInjective(request.instanceIDs) /\ (request.instanceCb => Needs(request.resources))
    BY DEF Contract
  <2>5. /\ GoodObject(new) /\ new.objID = CustomId /\ new.resources = request.resources
        /\ new.instanceCb = request.instanceCb /\ new.type \in Types
        /\ IdentifiersOf(new.instances) \subseteq 0..(ALL - 1)
    BY <2>2, <2>3, <2>4, NewObjectIs
  <2>6. OwnedBy(uses, objectList, app, sensors) /\ GoodList(objectList)
    BY DEF OwnedInv, OwnedBy
  <2> HIDE DEF new
  <2> HIDE DEF longer
  <2> DEFINE a == AsAdded(new)
  <2>7. /\ GoodObject(a) /\ a.objID = new.objID /\ a.type = new.type
        /\ a.instanceCb = new.instanceCb /\ a.resources = new.resources
        /\ IdentifiersOf(a.instances) \subseteq {LWM2M_SINGLE_OBJECT_INSTANCE_ID} \cup IdentifiersOf(new.instances)
    BY <2>5, AsAddedIs
  <2>8. /\ \A o \in ToSet(objectList) : o.objID # new.objID
        /\ GoodList(longer) /\ ToSet(longer) = ToSet(objectList) \cup {a}
    <3>1. customObjectAdd(objectList, new, fails).code = NO_ERROR /\ longer = customObjectAdd(objectList, new, fails).list
      BY <2>1 DEF longer
    <3> QED
      BY <2>5, <2>6, <3>1, ObjectAdded
  <2> HIDE DEF a
  <2>9. Fit(a)
    <3>1. Described(request.resources)
      <4>1. request.resources \in Seq(ToSet(request.resources))
        BY ManagementAssumption DEF ManagementAssumption
      <4> QED
        BY <2>1, <4>1, AddCheckIs DEF Described, IsSequence
    <3> QED
      BY <2>4, <2>5, <2>7, <3>1, SingleIsNamed DEF Fit
  <2>10. a.objID = CustomId /\ ObjectOf(longer, CustomId) = a
    BY <2>5, <2>7, <2>8, ObjectOfIs
  <2>11. DOMAIN app' = IdentifiersOf(a.instances)
    BY <2>1, <2>10 DEF IdentifiersOf, ToSet
  <2>12. Belongs(uses, a, sensors)
    BY <1>1, <2>10, CustomIsNotDevice DEF Belongs
  <2>13. OwnedBy(uses, longer, app', sensors)
    BY <2>6, <2>7, <2>9, <2>10, <2>12, <2>8, OwnedAdded
  <2>14. OwnedInv'
    BY <1>1, <2>1, <2>13 DEF OwnedInv
  <2>15. ~UsesSensors' /\ OwnedObject' = CustomId
    BY <1>1 DEF UsesSensors, OwnedObject
  <2>16. \A x : x \in Held' <=> x \in IdentifiersOf(a.instances)
    <3>1. \A o \in ToSet(objectList') : o.objID = CustomId <=> o = a
      BY <2>1, <2>5, <2>8, <2>10
    <3>2. a \in ToSet(objectList')
      BY <2>1, <2>8
    <3>3. \A x : x \in Held' <=> \E o \in ToSet(objectList') : o.objID = CustomId /\ x \in IdentifiersOf(o.instances)
      BY <2>14, <2>15, HeldIs
    <3> QED
      BY <3>1, <3>2, <3>3, Zenon
  <2>17. Held' = Owned'
    BY <2>11, <2>15, <2>16, OwnedIs
  <2> QED
    BY <2>14, <2>17, BothEqual
<1> QED
  BY <1>3, <1>4

LEMMA RemoveOwned ==
  ASSUME OwnedInv, NEW id \in {CustomId} \cup Reserved \cup {ALL}, iowa_client_remove_custom_object(id)
  PROVE  OwnedInv' /\ Agrees
<1>1. uses.kind = "custom" /\ UNCHANGED <<uses, sensors>>
  BY DEF iowa_client_remove_custom_object
<1>2. \/ UNCHANGED <<objectList, server, app>>
      \/ /\ CheckObjectId(id) = NO_ERROR /\ customObjectRemove(objectList, id).code = NO_ERROR
         /\ ListBecomes(customObjectRemove(objectList, id).list) /\ app' = <<>>
  BY Zenon DEF iowa_client_remove_custom_object
<1>3. CASE UNCHANGED <<objectList, server, app>>
  BY <1>1, <1>3, AllUnchanged
<1>4. CASE ~UNCHANGED <<objectList, server, app>>
  <2> DEFINE shorter == customObjectRemove(objectList, id).list
  <2>1. /\ CheckObjectId(id) = NO_ERROR /\ customObjectRemove(objectList, id).code = NO_ERROR
        /\ objectList' = shorter /\ app' = <<>>
    BY <1>2, <1>4 DEF ListBecomes
  <2>2. id = CustomId
    BY <2>1 DEF CheckObjectId, NO_ERROR, FORBIDDEN, NOT_ACCEPTABLE
  <2>3. OwnedBy(uses, objectList, app, sensors) /\ GoodList(objectList)
    BY DEF OwnedInv, OwnedBy
  <2>4. PICK o \in ToSet(objectList) : o.objID = id /\ GoodList(shorter) /\ ToSet(shorter) = ToSet(objectList) \ {o}
    BY <2>1, <2>3, ObjectTaken
  <2> HIDE DEF shorter
  <2>5. app' = IF o.objID = CustomId THEN <<>> ELSE app
    BY <2>1, <2>2, <2>4
  <2>6. OwnedBy(uses, shorter, app', sensors)
    BY <1>1, <2>3, <2>4, <2>5, OwnedTaken
  <2>7. OwnedInv'
    BY <1>1, <2>1, <2>6 DEF OwnedInv
  <2>8. ~UsesSensors' /\ OwnedObject' = CustomId
    BY <1>1 DEF UsesSensors, OwnedObject
  <2>9. \A p \in ToSet(objectList') : p.objID # CustomId
    BY <2>1, <2>2, <2>3, <2>4 DEF GoodList
  <2>10. \A x : x \notin Held'
    BY <2>7, <2>8, <2>9, HeldIs
  <2>11. Held' = Owned'
    BY <2>1, <2>8, <2>10, OwnedIs
  <2> QED
    BY <2>7, <2>11, BothEqual
<1> QED
  BY <1>3, <1>4

LEMMA CustomIs ==
  ASSUME OwnedInv, HasCustom
  PROVE  /\ CustomObject \in ToSet(objectList) /\ CustomObject.objID = CustomId
         /\ Fit(CustomObject)
<1>1. CustomObject \in ToSet(objectList) /\ CustomObject.objID = CustomId
  BY ObjectOfIs DEF OwnedInv, OwnedBy, HasCustom, CustomObject
<1>2. Fit(CustomObject)
  BY <1>1 DEF OwnedInv, OwnedBy
<1> QED
  BY <1>1, <1>2

LEMMA InstanceIsNamed ==
  ASSUME Contract, NEW id \in InstanceIds
  PROVE  id \in 0..(ALL - 1)
<1>1. id \in Ids
  BY ManagementAssumption DEF ManagementAssumption
<1>2. id # ALL
  BY DEF Contract
<1> QED
  BY <1>1, <1>2, Named

LEMMA CreatedOwned ==
  ASSUME Contract, OwnedInv, NEW id \in InstanceIds, InstanceCreated(id)
  PROVE  OwnedInv' /\ Agrees
<1> DEFINE o == CustomObject
<1>1. uses.kind = "custom" /\ HasCustom /\ UNCHANGED <<uses, sensors>>
  BY DEF InstanceCreated
<1>2. PICK fails \in Fails :
        \/ UNCHANGED <<objectList, server, app>>
        \/ /\ objectAddInstance(o, id, <<>>, fails).code = NO_ERROR
           /\ ListBecomes(ObjectBecomes(objectAddInstance(o, id, <<>>, fails).object))
           /\ app' = Holding(app, id, NewValues(o.resources))
  BY Zenon DEF InstanceCreated
<1>3. CASE UNCHANGED <<objectList, server, app>>
  BY <1>1, <1>3, AllUnchanged
<1>4. CASE ~UNCHANGED <<objectList, server, app>>
  <2>1. PICK added : added = objectAddInstance(o, id, <<>>, fails)
    OBVIOUS
  <2>2. /\ added.code = NO_ERROR /\ objectList' = ObjectBecomes(added.object)
        /\ app' = Holding(app, id, NewValues(o.resources))
    BY <1>2, <1>4, <2>1 DEF ListBecomes
  <2>3. o \in ToSet(objectList) /\ o.objID = CustomId /\ Fit(o)
    BY <1>1, CustomIs
  <2> HIDE DEF o
  <2>4. o.type = "multiple" /\ added = prv_addInstance(o, id, NULL, fails)
    BY <2>1, <2>2, <2>3 DEF objectAddInstance, Fit, Types, METHOD_NOT_ALLOWED, NOT_ACCEPTABLE, NO_ERROR
  <2>5. id \in 0..(ALL - 1) /\ fails \in BOOLEAN /\ o.type # "single"
    BY <2>4, InstanceIsNamed DEF Fails
  <2>6. /\ Fit(added.object) /\ added.object.objID = o.objID
        /\ IdentifiersOf(added.object.instances) = IdentifiersOf(o.instances) \cup {id}
    <3>1. added.code = NO_ERROR /\ id \in 0..(ALL - 1)
      BY <2>2, <2>5
    <3>2. OneMore(o, added.object, id)
      BY <2>3, <2>4, <2>5, <3>1, AddedInstance
    <3> QED
      BY <3>2 DEF OneMore
  <2>7. DOMAIN app' = DOMAIN app \cup {id}
    BY <2>2, FromValues
  <2>8. Belongs(uses, added.object, sensors')
    BY <1>1, <2>3, <2>6, CustomIsNotDevice DEF Belongs
  <2>9. ~UsesSensors /\ ~UsesSensors' /\ OwnedObject = CustomId
    BY <1>1 DEF UsesSensors, OwnedObject
  <2>10. OwnedInv' /\ Held = IdentifiersOf(o.instances) /\ Held' = IdentifiersOf(added.object.instances)
    BY <1>1, <2>2, <2>3, <2>6, <2>8, <2>9, ChangeOwned
  <2>11. Held' = Held \cup {id} /\ Owned' = Owned \cup {id}
    BY <2>6, <2>7, <2>9, <2>10, OwnedIs
  <2> QED
    BY <2>10, <2>11, BothMore
<1> QED
  BY <1>3, <1>4

LEMMA DeletedOwned ==
  ASSUME Contract, OwnedInv, NEW id \in InstanceIds, InstanceDeleted(id)
  PROVE  OwnedInv' /\ Agrees
<1> DEFINE o == CustomObject
<1>1. uses.kind = "custom" /\ HasCustom /\ UNCHANGED <<uses, sensors>>
  BY DEF InstanceDeleted
<1>2. PICK fails, removed :
        /\ removed = prv_removeInstance(o, id, fails)
        /\ \/ UNCHANGED <<objectList, server, app>>
           \/ /\ removed.code = NO_ERROR /\ ListBecomes(ObjectBecomes(removed.object))
              /\ app' = Restrict(app, DOMAIN app \ {id})
  BY Zenon DEF InstanceDeleted
<1>3. \/ UNCHANGED <<objectList, server, app>>
      \/ /\ removed.code = NO_ERROR /\ ListBecomes(ObjectBecomes(removed.object))
         /\ app' = Restrict(app, DOMAIN app \ {id})
  BY <1>2
<1>4. CASE UNCHANGED <<objectList, server, app>>
  BY <1>1, <1>4, AllUnchanged
<1>5. CASE ~UNCHANGED <<objectList, server, app>>
  <2>1. /\ removed.code = NO_ERROR /\ objectList' = ObjectBecomes(removed.object)
        /\ app' = Restrict(app, DOMAIN app \ {id})
    BY <1>3, <1>5 DEF ListBecomes
  <2>2. o \in ToSet(objectList) /\ o.objID = CustomId /\ Fit(o)
    BY <1>1, CustomIs
  <2> HIDE DEF o
  <2>3. id \in 0..(ALL - 1)
    BY InstanceIsNamed
  <2>4. /\ Fit(removed.object) /\ removed.object.objID = o.objID
        /\ IdentifiersOf(removed.object.instances) = IdentifiersOf(o.instances) \ {id}
    BY <1>2, <2>1, <2>2, <2>3, RemovedInstance
  <2>5. DOMAIN app' = DOMAIN app \ {id}
    BY <2>1, FromValues
  <2>6. Belongs(uses, removed.object, sensors')
    BY <1>1, <2>2, <2>4, CustomIsNotDevice DEF Belongs
  <2>7. ~UsesSensors /\ ~UsesSensors' /\ OwnedObject = CustomId
    BY <1>1 DEF UsesSensors, OwnedObject
  <2>8. OwnedInv' /\ Held = IdentifiersOf(o.instances) /\ Held' = IdentifiersOf(removed.object.instances)
    BY <1>1, <2>1, <2>2, <2>4, <2>6, <2>7, ChangeOwned
  <2>9. Held' = Held \ {id} /\ Owned' = Owned \ {id}
    BY <2>4, <2>5, <2>7, <2>8, OwnedIs
  <2> QED
    BY <2>8, <2>9, BothLess
<1> QED
  BY <1>4, <1>5

LEMMA CustomOwned ==
  ASSUME Contract, OwnedInv, CustomAction
  PROVE  OwnedInv' /\ Agrees
<1>1. ASSUME NEW id, NEW resource, NEW resInstance, NEW value, ValueChanged(id, resource, resInstance, value)
      PROVE  OwnedInv' /\ Agrees
  <2>1. /\ HasCustom /\ app' = [app EXCEPT ![id][resource][resInstance] = value]
        /\ UNCHANGED <<uses, objectList, sensors>>
    BY <1>1 DEF ValueChanged
  <2>2. DOMAIN app' = DOMAIN app
    BY <2>1
  <2>3. \E o \in ToSet(objectList) : o.objID = CustomId
    BY <2>1, CustomIs
  <2> QED
    BY <2>1, <2>2, <2>3, NothingOwned
<1> QED
  BY <1>1, AddOwned, RemoveOwned, CreatedOwned, DeletedOwned, Zenon DEF CustomAction

-----------------------------------------------------------------------------
(* The application and its sensors                                         *)

\* A sensor in the place of itself.
LEMMA SensorChanged ==
  ASSUME NEW list, GoodSensors(list), NEW index, index = 0 \/ index \in 1..Len(list),
         NEW s, index # 0 => GoodSensor(s) /\ s.id = list[index].id
  PROVE  /\ GoodSensors(With(list, index, s)) /\ IdentifiersOf(With(list, index, s)) = IdentifiersOf(list)
         /\ list = <<>> => With(list, index, s) = <<>>
<1>1. IsList(list) /\ Len(list) \in Nat /\ list \in [1..Len(list) -> ToSet(list)]
  BY LenProperties DEF GoodSensors, IsList, IsSequence
<1>2. CASE index = 0
  <2>1. 0 \notin 1..Len(list)
    BY <1>1
  <2>2. With(list, index, s) = list
    BY <1>1, <1>2, <2>1 DEF With
  <2> QED
    BY <2>2
<1>3. CASE index # 0
  <2> DEFINE other == With(list, index, s)
  <2>1. index \in 1..Len(list) /\ list[index] \in ToSet(list)
    BY <1>3, ListIs DEF GoodSensors
  <2>2. GoodSensor(s) /\ s.id = list[index].id
    BY <1>3
  <2>3. \A t, w \in ToSet(list) : t.id = w.id => t = w
    BY DEF GoodSensors
  <2>4. s \notin ToSet(list) \ {list[index]}
    BY <2>1, <2>2, <2>3
  <2>5. IsList(other) /\ ToSet(other) = (ToSet(list) \ {list[index]}) \cup {s}
    BY <1>1, <2>1, <2>4, Replaced
  <2> HIDE DEF other
  <2>6. GoodSensors(other)
    BY <2>1, <2>2, <2>3, <2>5 DEF GoodSensors
  <2>7. IdentifiersOf(other) = IdentifiersOf(list)
    BY <2>1, <2>2, <2>5 DEF IdentifiersOf
  <2>8. list # <<>>
    BY <2>1, EmptyList
  <2> QED
    BY <2>6, <2>7, <2>8 DEF other
<1> QED
  BY <1>2, <1>3

\* The data have a value for the resource of an Instance; t is the sensor s with
\* another application type.
HasDatum(data, id, resource) == \E n \in DOMAIN data : data[n].instance = id /\ data[n].resource = resource
Retyped(s, t) == \E value : t = [s EXCEPT !.appType = value]

\* What a write does to a sensor: nothing, or another application type.
LEMMA WrittenSensor ==
  ASSUME NEW list, NEW data, NEW written, written = IpsoWrite(list, data).sensors, NEW i \in DOMAIN list
  PROVE  \/ written[i] = list[i]
         \/ HasDatum(data, list[i].id, RSC.APPLICATION_TYPE) /\ Retyped(list[i], written[i])
<1> DEFINE of(id) == {n \in DOMAIN data : data[n].instance = id /\ data[n].resource = RSC.APPLICATION_TYPE}
           other == [j \in DOMAIN list |->
                       IF of(list[j].id) = {} THEN list[j]
                       ELSE [list[j] EXCEPT !.appType = data[Max(of(list[j].id))].value]]
           t == written[i]
<1>1. written = other
  BY DEF IpsoWrite
<1>2. t = IF of(list[i].id) = {} THEN list[i] ELSE [list[i] EXCEPT !.appType = data[Max(of(list[i].id))].value]
  BY <1>1
<1>3. CASE of(list[i].id) = {}
  BY <1>2, <1>3
<1>4. CASE of(list[i].id) # {}
  <2>1. HasDatum(data, list[i].id, RSC.APPLICATION_TYPE)
    BY <1>4 DEF HasDatum
  <2>2. t = [list[i] EXCEPT !.appType = data[Max(of(list[i].id))].value]
    BY <1>2, <1>4
  <2> QED
    BY <2>1, <2>2 DEF Retyped
<1> QED
  BY <1>3, <1>4

LEMMA WriteSensors ==
  ASSUME NEW list, GoodSensors(list), NEW data, NEW other, other = IpsoWrite(list, data).sensors
  PROVE  /\ GoodSensors(other) /\ IdentifiersOf(other) = IdentifiersOf(list)
         /\ list = <<>> => other = <<>>
         /\ Len(other) = Len(list) /\ DOMAIN other = 1..Len(list) /\ \A i \in 1..Len(list) : other[i].id = list[i].id
<1>1. /\ IsList(list) /\ Len(list) \in Nat /\ DOMAIN list = 1..Len(list)
      /\ \A i \in 1..Len(list) : list[i] \in ToSet(list) /\ GoodSensor(list[i])
      /\ \A i, j \in 1..Len(list) : list[i].id = list[j].id => i = j
  <2>1. IsList(list)
    BY DEF GoodSensors
  <2> QED
    BY <2>1, ListIs DEF GoodSensors
<1>2. DOMAIN other = DOMAIN list /\ other = [i \in DOMAIN list |-> other[i]]
  BY DEF IpsoWrite
<1>3. ASSUME NEW i \in 1..Len(list) PROVE GoodSensor(other[i]) /\ other[i].id = list[i].id
  <2>1. i \in DOMAIN list /\ GoodSensor(list[i])
    BY <1>1
  <2>2. other[i] = list[i] \/ Retyped(list[i], other[i])
    BY <2>1, WrittenSensor
  <2>3. CASE other[i] = list[i]
    BY <2>1, <2>3
  <2>4. ASSUME NEW value, other[i] = [list[i] EXCEPT !.appType = value] PROVE GoodSensor(other[i]) /\ other[i].id = list[i].id
    BY <2>1, <2>4 DEF GoodSensor
  <2> QED
    BY <2>2, <2>3, <2>4 DEF Retyped
<1>4. other \in [1..Len(list) -> ToSet(other)]
  BY <1>1, <1>2 DEF ToSet
<1>5. other \in Seq(ToSet(other)) /\ Len(other) = Len(list)
  BY <1>1, <1>4
<1>6. \A i, j \in 1..Len(list) : other[i].id = other[j].id => i = j
  BY <1>1, <1>3
<1>7. IsList(other)
  <2>1. Distinct(other)
    BY <1>1, <1>2, <1>6 DEF Distinct
  <2> QED
    BY <1>5, <2>1 DEF IsList, IsSequence
<1>8. \A s \in ToSet(other) : \E i \in 1..Len(list) : other[i] = s
  BY <1>1, <1>2 DEF ToSet
<1>9. GoodSensors(other)
  BY <1>3, <1>6, <1>7, <1>8 DEF GoodSensors
<1>10. IdentifiersOf(other) = IdentifiersOf(list)
  <2>1. \A x : x \in IdentifiersOf(other) <=> \E i \in 1..Len(list) : other[i].id = x
    BY <1>1, <1>2 DEF IdentifiersOf, ToSet
  <2>2. \A x : x \in IdentifiersOf(list) <=> \E i \in 1..Len(list) : list[i].id = x
    BY <1>1 DEF IdentifiersOf, ToSet
  <2>3. \A x : x \in IdentifiersOf(other) <=> x \in IdentifiersOf(list)
    BY <1>3, <2>1, <2>2
  <2> QED
    BY <2>3
<1>11. ASSUME list = <<>> PROVE other = <<>>
  <2>1. Len(other) = 0
    BY <1>5, <1>11
  <2> QED
    BY <1>5, <2>1
<1> QED
  BY <1>1, <1>2, <1>3, <1>5, <1>9, <1>10, <1>11

LEMMA ExecuteSensor ==
  ASSUME NEW s, GoodSensor(s), NEW resource, NEW argument
  PROVE  LET t == IpsoExecute(s, resource, argument).sensor IN GoodSensor(t) /\ t.id = s.id
<1> DEFINE t == IpsoExecute(s, resource, argument).sensor
<1>1. \/ t = s
      \/ t = [s EXCEPT !.min = s.value, !.max = s.value]
      \/ t = [s EXCEPT !.value = 0]
      \/ t = [s EXCEPT !.max = 0]
  BY DEF IpsoExecute
<1> HIDE DEF t
<1>2. GoodSensor(t) /\ t.id = s.id
  BY <1>1 DEF GoodSensor
<1> QED
  BY <1>2 DEF t

LEMMA UpdateSensor ==
  ASSUME NEW s, GoodSensor(s), NEW resources, NEW value
  PROVE  LET t == prv_updateResourceValues(s, resources, value).sensor IN GoodSensor(t) /\ t.id = s.id
<1> DEFINE t == prv_updateResourceValues(s, resources, value).sensor
           has(id) == Contains(resources, id)
           lower == has(RSC.MIN_MEASURED_VALUE) /\ value < s.min
           higher == ~lower /\ has(RSC.MAX_MEASURED_VALUE) /\ value > s.max
           low == IF lower THEN value ELSE s.min
           high == IF higher THEN value ELSE s.max
           more == [s EXCEPT !.max = @ + 1]
           spread == [s EXCEPT !.min = low, !.max = high]
<1>1. CASE value = s.value
  <2>1. t = [s EXCEPT !.value = value]
    BY <1>1 DEF prv_updateResourceValues
  <2> QED
    BY <2>1 DEF GoodSensor
<1>2. CASE value # s.value /\ has(RSC.DIGITAL_INPUT_STATE)
  <2>1. CASE has(RSC.DIGITAL_INPUT_COUNTER) /\ value > s.value
    <3>1. t = [more EXCEPT !.value = value]
      BY <1>2, <2>1 DEF prv_updateResourceValues
    <3> QED
      BY <3>1 DEF GoodSensor
  <2>2. CASE ~(has(RSC.DIGITAL_INPUT_COUNTER) /\ value > s.value)
    <3>1. t = [s EXCEPT !.value = value]
      BY <1>2, <2>2 DEF prv_updateResourceValues
    <3> QED
      BY <3>1 DEF GoodSensor
  <2> QED
    BY <2>1, <2>2
<1>3. CASE value # s.value /\ ~has(RSC.DIGITAL_INPUT_STATE)
  <2>1. t = [spread EXCEPT !.value = value]
    BY <1>3 DEF prv_updateResourceValues
  <2> HIDE DEF low, high, t
  <2>2. GoodSensor(t) /\ t.id = s.id
    BY <2>1 DEF GoodSensor
  <2> QED
    BY <2>2 DEF t
<1> QED
  BY <1>1, <1>2, <1>3

\* listNew16bitsId
LEMMA NewSensorIs ==
  ASSUME NEW list, GoodSensors(list)
  PROVE  NewSensorId(list) \in 0..Len(list) /\ NewSensorId(list) \notin IdentifiersOf(list)
<1> DEFINE used == {list[i].id : i \in DOMAIN list}
           Free(id) == id \notin used /\ 0..(id - 1) \subseteq used
<1>1. used = IdentifiersOf(list)
  BY DEF IdentifiersOf, ToSet
<1>2. IsFiniteSet(used) /\ Cardinality(used) = Len(list) /\ Len(list) \in Nat
  BY <1>1, IdentifiersCount DEF GoodSensors
<1>3. NewSensorId(list) = CHOOSE id \in 0..Len(list) : Free(id)
  BY DEF NewSensorId
<1> HIDE DEF used
<1>4. PICK id \in 0..Len(list) : Free(id)
  BY <1>2, FreeIdentifier
<1>5. NewSensorId(list) \in 0..Len(list) /\ Free(NewSensorId(list))
  <2> HIDE DEF Free
  <2> QED
    BY <1>3, <1>4
<1> QED
  BY <1>1, <1>5

LEMMA SensorFound ==
  ASSUME GoodSensors(sensors), NEW id
  PROVE  \/ SensorIndex(id) = 0 /\ id \notin IdentifiersOf(sensors)
         \/ /\ SensorIndex(id) # 0 /\ SensorIndex(id) \in 1..Len(sensors)
            /\ sensors[SensorIndex(id)] \in ToSet(sensors) /\ sensors[SensorIndex(id)].id = id
            /\ GoodSensor(sensors[SensorIndex(id)])
<1> DEFINE index == SelectInSeq(sensors, LAMBDA s : s.id = id)
<1>1. IsSequence(sensors)
  BY DEF GoodSensors, IsList
<1>2. \/ index = 0 /\ \A s \in ToSet(sensors) : s.id # id
      \/ index \in 1..Len(sensors) /\ sensors[index] \in ToSet(sensors) /\ sensors[index].id = id
  BY <1>1, SensorIndexIs
<1>3. SensorIndex(id) = index
  BY DEF SensorIndex
<1> HIDE DEF index
<1>4. Len(sensors) \in Nat
  BY <1>1, SequenceIs
<1> QED
  BY <1>2, <1>3, <1>4 DEF GoodSensors, IdentifiersOf

LEMMA UpdatedOwned ==
  ASSUME OwnedInv, NEW id, NEW value, iowa_client_IPSO_update_value(id, value)
  PROVE  OwnedInv' /\ Agrees
<1> DEFINE index == SensorIndex(id)
           object == ObjectOf(objectList, uses.type)
           resources == object.instances[object_getInstanceIndex(object, id)].resources
           update == prv_updateResourceValues(sensors[index], resources, value)
<1>1. UsesSensors /\ UNCHANGED <<uses, objectList, app>>
  BY DEF iowa_client_IPSO_update_value
<1>2. GoodSensors(sensors)
  BY <1>1 DEF OwnedInv, OwnedBy, UsesSensors
<1>3. UNCHANGED sensors \/ (index # 0 /\ sensors' = With(sensors, index, update.sensor))
  BY Zenon DEF iowa_client_IPSO_update_value, With
<1>4. CASE UNCHANGED sensors
  BY <1>1, <1>4, AllUnchanged
<1>5. CASE index # 0 /\ sensors' = With(sensors, index, update.sensor)
  <2>1. index \in 1..Len(sensors) /\ GoodSensor(sensors[index])
    BY <1>2, <1>5, SensorFound
  <2> HIDE DEF index, resources
  <2>2. GoodSensor(update.sensor) /\ update.sensor.id = sensors[index].id
    BY <2>1, UpdateSensor
  <2> HIDE DEF update
  <2>3. /\ GoodSensors(sensors') /\ IdentifiersOf(sensors') = IdentifiersOf(sensors)
        /\ sensors = <<>> => sensors' = <<>>
    BY <1>2, <1>5, <2>1, <2>2, SensorChanged
  <2> QED
    BY <1>1, <2>3, NothingOwned
<1> QED
  BY <1>3, <1>4, <1>5

\* The Object of the sensors.
LEMMA SensorObjectIs ==
  ASSUME OwnedInv, UsesSensors
  PROVE  /\ GoodSensors(sensors) /\ uses.type # CustomId /\ uses.type \notin Reserved /\ uses.number \in Ids
         /\ uses.type # IOWA_LWM2M_DEVICE_OBJECT_ID
         /\ ObjectIndex(objectList, uses.type) = 0 => sensors = <<>>
         /\ ObjectIndex(objectList, uses.type) # 0 =>
              LET o == ObjectOf(objectList, uses.type) IN
              /\ o \in ToSet(objectList) /\ o.objID = uses.type /\ Fit(o) /\ o.type = "advanced"
              /\ IdentifiersOf(sensors) \subseteq IdentifiersOf(o.instances)
<1>1. GoodSensors(sensors) /\ GoodList(objectList)
  BY DEF OwnedInv, OwnedBy, UsesSensors
<1>2. uses.type # CustomId /\ uses.type \notin Reserved /\ uses.number \in Ids
  BY ManagementAssumption DEF ManagementAssumption, OwnedInv, UsesSensors
<1>3. /\ ObjectIndex(objectList, uses.type) = 0 => sensors = <<>>
      /\ uses.type # IOWA_LWM2M_DEVICE_OBJECT_ID
  BY <1>1, <1>2, ObjectOfIs DEF OwnedInv, OwnedBy, UsesSensors, Reserved
<1>4. ASSUME ObjectIndex(objectList, uses.type) # 0, NEW o, o = ObjectOf(objectList, uses.type)
      PROVE  /\ o \in ToSet(objectList) /\ o.objID = uses.type /\ Fit(o) /\ o.type = "advanced"
             /\ IdentifiersOf(sensors) \subseteq IdentifiersOf(o.instances)
  <2>1. o \in ToSet(objectList) /\ o.objID = uses.type
    BY <1>1, <1>4, ObjectOfIs
  <2> QED
    BY <2>1 DEF OwnedInv, OwnedBy, Belongs, UsesSensors
<1> QED
  BY <1>1, <1>2, <1>3, <1>4

LEMMA NoElement ==
  ASSUME NEW list, IsSequence(list), ToSet(list) = {}
  PROVE  list = <<>>
<1>1. Len(list) \in Nat /\ \A i \in 1..Len(list) : list[i] \in {}
  BY SequenceIs
<1>2. Len(list) = 0
  BY <1>1
<1> QED
  BY <1>2, LenProperties DEF IsSequence

LEMMA NamedSensor ==
  ASSUME OwnedInv, UsesSensors, NEW id, id \in 0..(uses.number - 1)
  PROVE  id \in 0..(ALL - 1)
<1>1. uses.number \in 0..ALL
  BY SensorObjectIs DEF Ids
<1>2. ALL \in Nat
  BY AllIs
<1> QED
  BY <1>1, <1>2

LEMMA OnlyOne ==
  ASSUME NEW n \in Nat, NEW i \in 1..n, ~(n > 1)
  PROVE  n = 1 /\ i = 1
OBVIOUS

LEMMA SensorRemovedOwned ==
  ASSUME OwnedInv, NEW id, UsesSensors, id \in 0..(uses.number - 1), iowa_client_IPSO_remove_sensor(id)
  PROVE  OwnedInv' /\ Agrees
<1> DEFINE index == SensorIndex(id)
           o == ObjectOf(objectList, uses.type)
           shorter == customObjectRemove(objectList, uses.type).list
<1>1. UNCHANGED <<uses, app>>
  BY DEF iowa_client_IPSO_remove_sensor
<1>2. \/ UNCHANGED <<objectList, sensors>>
      \/ /\ ObjectIndex(objectList, uses.type) # 0 /\ index # 0 /\ sensors' = RemoveAt(sensors, index)
         /\ IF Len(sensors) > 1
            THEN \E fails \in Fails :
                   /\ IF prv_removeInstance(o, id, fails).code = NO_ERROR
                      THEN ListBecomes(ObjectBecomes(prv_removeInstance(o, id, fails).object))
                      ELSE UNCHANGED <<objectList, server>>
                   /\ Report("sensor", prv_removeInstance(o, id, fails).code, {})
            ELSE ListBecomes(shorter)
  BY Zenon DEF iowa_client_IPSO_remove_sensor
<1>3. PICK fails, removed :
        /\ removed = prv_removeInstance(o, id, fails)
        /\ \/ UNCHANGED <<objectList, sensors>>
           \/ /\ ObjectIndex(objectList, uses.type) # 0 /\ index # 0 /\ sensors' = RemoveAt(sensors, index)
              /\ IF Len(sensors) > 1
                 THEN /\ IF removed.code = NO_ERROR THEN objectList' = ObjectBecomes(removed.object)
                         ELSE UNCHANGED objectList
                      /\ out'.operation = "sensor" /\ out'.code = removed.code
                 ELSE objectList' = shorter
  <2>1. CASE UNCHANGED <<objectList, sensors>>
    BY <2>1
  <2>2. CASE ~UNCHANGED <<objectList, sensors>> /\ Len(sensors) > 1
    <3>1. /\ ObjectIndex(objectList, uses.type) # 0 /\ index # 0 /\ sensors' = RemoveAt(sensors, index)
          /\ \E fails \in Fails :
                   /\ IF prv_removeInstance(o, id, fails).code = NO_ERROR
                      THEN ListBecomes(ObjectBecomes(prv_removeInstance(o, id, fails).object))
                      ELSE UNCHANGED <<objectList, server>>
                   /\ Report("sensor", prv_removeInstance(o, id, fails).code, {})
      BY <1>2, <2>2, Zenon
    <3>2. PICK fails, removed :
            /\ fails \in Fails
            /\ removed = prv_removeInstance(o, id, fails)
            /\ IF removed.code = NO_ERROR THEN ListBecomes(ObjectBecomes(removed.object))
               ELSE UNCHANGED <<objectList, server>>
            /\ Report("sensor", removed.code, {})
      BY <3>1, Zenon
    <3>3. out'.operation = "sensor" /\ out'.code = removed.code
      BY <3>2, ReportIs
    <3>4. IF removed.code = NO_ERROR THEN objectList' = ObjectBecomes(removed.object) ELSE UNCHANGED objectList
      BY <3>2 DEF ListBecomes
    <3> HIDE DEF o, index, shorter
    <3> QED
      BY <2>2, <3>1, <3>2, <3>3, <3>4
  <2>3. CASE ~UNCHANGED <<objectList, sensors>> /\ ~(Len(sensors) > 1)
    <3>1. /\ ObjectIndex(objectList, uses.type) # 0 /\ index # 0 /\ sensors' = RemoveAt(sensors, index)
          /\ ListBecomes(shorter)
      BY <1>2, <2>3, Zenon
    <3> HIDE DEF o, index, shorter
    <3> QED
      BY <2>3, <3>1 DEF ListBecomes
  <2> QED
    BY <2>1, <2>2, <2>3
<1>4. CASE UNCHANGED <<objectList, sensors>>
  BY <1>1, <1>4, AllUnchanged
<1>5. CASE ~UNCHANGED <<objectList, sensors>>
  <2>1. /\ ObjectIndex(objectList, uses.type) # 0 /\ index # 0 /\ sensors' = RemoveAt(sensors, index)
        /\ Len(sensors) > 1 =>
             /\ removed.code = NO_ERROR => objectList' = ObjectBecomes(removed.object)
             /\ removed.code # NO_ERROR => UNCHANGED objectList
             /\ out'.operation = "sensor" /\ out'.code = removed.code
        /\ ~(Len(sensors) > 1) => objectList' = shorter
    BY <1>3, <1>5
  <2>2. /\ GoodSensors(sensors) /\ uses.type # CustomId /\ uses.type # IOWA_LWM2M_DEVICE_OBJECT_ID
        /\ o \in ToSet(objectList) /\ o.objID = uses.type /\ Fit(o) /\ o.type = "advanced"
        /\ IdentifiersOf(sensors) \subseteq IdentifiersOf(o.instances)
    BY <2>1, SensorObjectIs
  <2>3. index \in 1..Len(sensors) /\ sensors[index] \in ToSet(sensors) /\ sensors[index].id = id
    BY <2>1, <2>2, SensorFound
  <2>4. IsList(sensors) /\ IsList(sensors') /\ ToSet(sensors') = ToSet(sensors) \ {sensors[index]}
    <3>1. IsList(sensors)
      BY <2>2 DEF GoodSensors
    <3> QED
      BY <2>1, <2>3, <3>1, Removed
  <2>5. GoodSensors(sensors') /\ IdentifiersOf(sensors') = IdentifiersOf(sensors) \ {id}
    BY <2>2, <2>3, <2>4 DEF GoodSensors, IdentifiersOf
  <2>6. id \in IdentifiersOf(sensors) /\ id \in 0..(ALL - 1)
    BY <2>3, NamedSensor DEF IdentifiersOf
  <2> HIDE DEF o, index, shorter
  <2>7. UsesSensors' /\ OwnedObject = uses.type /\ OwnedObject' = OwnedObject /\ Owned' = Owned \ {id}
    BY <1>1, <2>5, OwnedIs DEF UsesSensors, OwnedObject
  <2>8. CASE Len(sensors) > 1
    <3>1. Fit(o) /\ id \in 0..(ALL - 1) /\ id \in IdentifiersOf(o.instances)
      BY <2>2, <2>6
    <3>2. \/ /\ removed.code = NO_ERROR
             /\ Fit(removed.object) /\ removed.object.objID = o.objID /\ removed.object.type = o.type
             /\ IdentifiersOf(removed.object.instances) = IdentifiersOf(o.instances) \ {id}
          \/ removed.code # NO_ERROR /\ removed.object = o /\ removed.code = INTERNAL_ERROR
      BY <1>3, <3>1, RemovedInstance DEF o
    <3>3. CASE removed.code = NO_ERROR
      <4>1. Belongs(uses, removed.object, sensors')
        BY <2>2, <2>5, <3>2, <3>3 DEF Belongs
      <4>2. objectList' = ObjectBecomes(removed.object)
        BY <2>1, <2>8, <3>3
      <4>3. OwnedInv' /\ Held = IdentifiersOf(o.instances) /\ Held' = IdentifiersOf(removed.object.instances)
        BY <1>1, <2>2, <2>5, <2>7, <3>2, <3>3, <4>1, <4>2, ChangeOwned
      <4> QED
        BY <2>7, <3>2, <3>3, <4>3, BothLess
    <3>4. CASE removed.code # NO_ERROR
      <4>1. UNCHANGED objectList /\ objectList' = ObjectBecomes(o)
        <5>1. IsSequence(objectList) /\ ObjectIndex(objectList, uses.type) # 0
          BY <2>1 DEF OwnedInv, OwnedBy, GoodList, IsList
        <5>2. [objectList EXCEPT ![ObjectIndex(objectList, o.objID)] = o] = objectList
          BY <5>1, SameObject DEF o
        <5> QED
          BY <2>1, <2>8, <3>4, <5>2 DEF ObjectBecomes
      <4>2. Belongs(uses, o, sensors')
        BY <2>2, <2>5 DEF Belongs
      <4>3. OwnedInv' /\ Held = IdentifiersOf(o.instances) /\ Held' = IdentifiersOf(o.instances)
        BY <1>1, <2>2, <2>5, <2>7, <4>1, <4>2, ChangeOwned
      <4>4. out'.code = INTERNAL_ERROR /\ out'.operation \in {"create", "sensor"}
        BY <2>1, <2>8, <3>2, <3>4
      <4>5. id \in Held /\ Held' = Held
        BY <3>1, <4>3
      <4> QED
        BY <2>7, <4>1, <4>3, <4>4, <4>5, OwnerAlone
    <3> QED
      BY <3>3, <3>4
  <2>9. CASE ~(Len(sensors) > 1)
    <3>1. Len(sensors) = 1 /\ index = 1
      <4>1. Len(sensors) \in Nat
        BY <2>4, ListIs
      <4>2. index \in 1..Len(sensors)
        BY <2>3
      <4> QED
        BY <2>9, <4>1, <4>2, OnlyOne
    <3>2. ToSet(sensors) = {sensors[index]}
      <4>1. \A s \in ToSet(sensors) : \E i \in 1..1 : sensors[i] = s
        BY <2>4, <3>1, ListIs
      <4>2. \A i \in 1..1 : i = 1
        OBVIOUS
      <4> QED
        BY <2>3, <3>1, <4>1, <4>2
    <3>3. sensors' = <<>>
      BY <2>4, <3>2, NoElement DEF IsList
    <3>4. customObjectRemove(objectList, uses.type).code = NO_ERROR
      BY <2>1 DEF customObjectRemove
    <3>5. GoodList(objectList) /\ OwnedBy(uses, objectList, app, sensors)
      BY DEF OwnedInv, OwnedBy
    <3>6. PICK p \in ToSet(objectList) : p.objID = uses.type /\ GoodList(shorter) /\ ToSet(shorter) = ToSet(objectList) \ {p}
      BY <3>4, <3>5, ObjectTaken DEF shorter
    <3>7. app' = IF p.objID = CustomId THEN <<>> ELSE app
      BY <1>1, <2>2, <3>6
    <3>8. sensors' = IF p.objID = uses.type THEN <<>> ELSE sensors
      BY <3>3, <3>6
    <3>9. OwnedBy(uses, shorter, app', sensors')
      BY <3>5, <3>6, <3>7, <3>8, OwnedTaken
    <3>10. objectList' = shorter
      BY <2>1, <2>9
    <3>11. OwnedInv'
      BY <1>1, <3>9, <3>10 DEF OwnedInv
    <3>12. \A q \in ToSet(objectList') : q.objID # uses.type
      BY <3>5, <3>6, <3>10 DEF GoodList
    <3>13. \A x : x \notin Held'
      BY <2>7, <3>11, <3>12, HeldIs
    <3>14. \A x : x \notin Owned'
      <4>1. IdentifiersOf(sensors') = {}
        BY <3>3, EmptyList DEF IdentifiersOf
      <4> QED
        BY <2>7, <4>1, OwnedIs
    <3>15. Held' = Owned'
      BY <3>13, <3>14
    <3> QED
      BY <3>11, <3>15, BothEqual
  <2> QED
    BY <2>8, <2>9
<1> QED
  BY <1>4, <1>5

LEMMA IpsoObjectIs ==
  ASSUME NEW type
  PROVE  LET o == NewIpsoObject(type) IN
         /\ GoodObject(o) /\ o.objID = type /\ o.type = "advanced" /\ ~o.instanceCb
         /\ IdentifiersOf(o.instances) = {} /\ AsAdded(o) = o /\ Described(o.resources)
<1> DEFINE o == NewIpsoObject(type)
<1>1. /\ DOMAIN o = {"objID", "type", "instanceCb", "resources", "instances"}
      /\ o.objID = type /\ o.type = "advanced" /\ o.instanceCb = FALSE /\ o.instances = <<>>
      /\ o.resources = prv_getResourceDesc(type)
  BY DEF NewIpsoObject
<1> HIDE DEF o
<1>2. IdentifiersOf(o.instances) = {}
  BY <1>1, EmptyList DEF IdentifiersOf
<1>3. GoodObject(o)
  BY <1>1, EmptyList DEF GoodObject
<1>4. AsAdded(o) = o
  BY <1>1 DEF AsAdded
<1>5. Described(o.resources)
  BY <1>1, IpsoDescribed
<1> QED
  BY <1>1, <1>2, <1>3, <1>4, <1>5 DEF o

\* The Object comes with its first sensor, whether the sensor is added or not.
LEMMA SensorObjectAdded ==
  ASSUME OwnedInv, UsesSensors, NEW fails, NEW list,
         \/ ObjectIndex(objectList, uses.type) # 0 /\ list = objectList
         \/ /\ customObjectAdd(objectList, NewIpsoObject(uses.type), fails).code = NO_ERROR
            /\ list = customObjectAdd(objectList, NewIpsoObject(uses.type), fails).list
  PROVE  /\ OwnedBy(uses, list, app, sensors)
         /\ LET o == ObjectOf(list, uses.type) IN
            /\ o \in ToSet(list) /\ o.objID = uses.type /\ Fit(o) /\ o.type = "advanced"
            /\ IdentifiersOf(sensors) \subseteq IdentifiersOf(o.instances) /\ Held = IdentifiersOf(o.instances)
<1>1. OwnedBy(uses, objectList, app, sensors)
  BY DEF OwnedInv
<1>2. OwnedObject = uses.type
  BY DEF OwnedObject
<1>3. CASE ObjectIndex(objectList, uses.type) # 0 /\ list = objectList
  <2>1. Held = IdentifiersOf(ObjectOf(list, uses.type).instances)
    BY <1>3, <1>2, InstancesAre DEF Held
  <2> QED
    BY <1>1, <1>3, <2>1, SensorObjectIs
<1>4. CASE /\ customObjectAdd(objectList, NewIpsoObject(uses.type), fails).code = NO_ERROR
           /\ list = customObjectAdd(objectList, NewIpsoObject(uses.type), fails).list
  <2>1. PICK o : o = NewIpsoObject(uses.type)
    OBVIOUS
  <2>2. /\ GoodObject(o) /\ o.objID = uses.type /\ o.type = "advanced" /\ ~o.instanceCb
        /\ IdentifiersOf(o.instances) = {} /\ AsAdded(o) = o /\ Described(o.resources)
    BY <2>1, IpsoObjectIs
  <2>3. GoodList(objectList)
    BY <1>1 DEF OwnedBy
  <2>4. customObjectAdd(objectList, o, fails).code = NO_ERROR /\ list = customObjectAdd(objectList, o, fails).list
    BY <1>4, <2>1
  <2>5. /\ \A p \in ToSet(objectList) : p.objID # uses.type
        /\ GoodList(list) /\ ToSet(list) = ToSet(objectList) \cup {o}
    BY <2>2, <2>3, <2>4, ObjectAdded
  <2>6. sensors = <<>> /\ uses.type # CustomId /\ uses.type # IOWA_LWM2M_DEVICE_OBJECT_ID
    BY <2>3, <2>5, ObjectOfIs, SensorObjectIs
  <2>7. IdentifiersOf(sensors) = {}
    BY <2>6, EmptyList DEF IdentifiersOf
  <2>8. Fit(o)
    BY <2>2 DEF Fit, Types
  <2>9. Belongs(uses, o, sensors)
    BY <2>2, <2>6, <2>7 DEF Belongs
  <2>10. OwnedBy(uses, list, app, sensors)
    BY <1>1, <2>2, <2>5, <2>8, <2>9, OwnedAdded
  <2>11. ObjectOf(list, uses.type) = o
    BY <2>2, <2>5, ObjectOfIs
  <2>12. Held = {}
    <3>1. ObjectIndex(objectList, uses.type) = 0
      BY <2>3, <2>5, ObjectOfIs
    <3> QED
      BY <1>2, <3>1 DEF Held
  <2> QED
    BY <2>2, <2>5, <2>7, <2>8, <2>10, <2>11, <2>12
<1> QED
  BY <1>3, <1>4

\* What add_sensor does: nothing, or it adds an Instance to the Object, or not.
LEMMA SensorAddedIs ==
  ASSUME NEW value, NEW objectFails, NEW instanceFails,
         NEW added, added = SensorAdded(value, objectFails, instanceFails)
  PROVE  \/ added.code # NO_ERROR /\ added.list = objectList
         \/ \E list, resources, result :
              /\ \/ ObjectIndex(objectList, uses.type) # 0 /\ list = objectList
                 \/ /\ customObjectAdd(objectList, NewIpsoObject(uses.type), objectFails).code = NO_ERROR
                    /\ list = customObjectAdd(objectList, NewIpsoObject(uses.type), objectFails).list
              /\ result = objectAddInstance(ObjectOf(list, uses.type), NewSensorId(sensors), resources, instanceFails)
              /\ added.code = result.code
              /\ added.list = With(list, ObjectIndex(list, uses.type), result.object)
<1> DEFINE checked == prv_checkResourceValue(uses.type, value)
           present == ObjectIndex(objectList, uses.type) # 0
           created == customObjectAdd(objectList, NewIpsoObject(uses.type), objectFails)
           list == IF present THEN objectList ELSE created.list
           resources == prv_getResourceList(uses.type, uses.range, uses.unit # NULL, uses.appType # NULL)
           result == objectAddInstance(ObjectOf(list, uses.type), NewSensorId(sensors), resources, instanceFails)
<1>1. added = IF checked # NO_ERROR THEN [code |-> checked, list |-> objectList]
              ELSE IF ~present /\ created.code # NO_ERROR THEN created
              ELSE [code |-> result.code, list |-> With(list, ObjectIndex(list, uses.type), result.object)]
  BY Zenon DEF SensorAdded, With
<1>2. created.code # NO_ERROR => created.list = objectList
  BY ObjectNotAdded
<1>3. /\ present => list = objectList
      /\ ~present => list = created.list
  OBVIOUS
<1> HIDE DEF checked, created, list, resources, result
<1>4. CASE checked # NO_ERROR
  BY <1>1, <1>4
<1>5. CASE checked = NO_ERROR /\ ~present /\ created.code # NO_ERROR
  BY <1>1, <1>2, <1>5
<1>6. CASE checked = NO_ERROR /\ (present \/ created.code = NO_ERROR)
  <2>1. added.code = result.code /\ added.list = With(list, ObjectIndex(list, uses.type), result.object)
    BY <1>1, <1>6
  <2>2. \/ present /\ list = objectList
        \/ created.code = NO_ERROR /\ list = created.list
    BY <1>3, <1>6
  <2> QED
    BY <2>1, <2>2 DEF result, created
<1> QED
  BY <1>4, <1>5, <1>6

\* The new sensor is the head of the list.
LEMMA SensorFirst ==
  ASSUME NEW list, GoodSensors(list), NEW id, id \notin IdentifiersOf(list),
         NEW value, NEW unit, NEW appType, NEW range
  PROVE  LET longer == <<NewSensor(id, value, unit, appType, range)>> \o list IN
         GoodSensors(longer) /\ IdentifiersOf(longer) = IdentifiersOf(list) \cup {id}
<1> DEFINE s == NewSensor(id, value, unit, appType, range)
           longer == <<s>> \o list
<1>1. GoodSensor(s) /\ s.id = id
  BY DEF NewSensor, GoodSensor
<1> HIDE DEF s
<1>2. s \notin ToSet(list) /\ \A t \in ToSet(list) : t.id # s.id
  BY <1>1 DEF IdentifiersOf
<1>3. IsList(longer) /\ ToSet(longer) = ToSet(list) \cup {s}
  BY <1>2, AddedFirst DEF GoodSensors
<1> HIDE DEF longer
<1>4. GoodSensors(longer)
  BY <1>1, <1>2, <1>3 DEF GoodSensors
<1>5. IdentifiersOf(longer) = IdentifiersOf(list) \cup {id}
  BY <1>1, <1>3 DEF IdentifiersOf
<1> QED
  BY <1>4, <1>5 DEF longer, s

\* A sensor more has an identifier of its own, of an Instance.
LEMMA NextSensorIs ==
  ASSUME OwnedInv, UsesSensors, Len(sensors) < uses.number
  PROVE  NewSensorId(sensors) \in 0..(ALL - 1) /\ NewSensorId(sensors) \notin IdentifiersOf(sensors)
<1> DEFINE id == NewSensorId(sensors)
<1>1. GoodSensors(sensors)
  BY SensorObjectIs
<1>2. id \in 0..Len(sensors) /\ id \notin IdentifiersOf(sensors)
  BY <1>1, NewSensorIs
<1> HIDE DEF id
<1>3. Len(sensors) \in Nat /\ uses.number \in Nat
  <2>1. uses.number \in 0..ALL
    BY SensorObjectIs DEF Ids
  <2>2. IsList(sensors)
    BY <1>1 DEF GoodSensors
  <2> QED
    BY <2>1, <2>2, ListIs
<1>4. id \in 0..(uses.number - 1)
  BY <1>2, <1>3
<1> QED
  BY <1>2, <1>4, NamedSensor DEF id

LEMMA SensorAddedOwned ==
  ASSUME OwnedInv, NEW value, iowa_client_IPSO_add_sensor(value)
  PROVE  OwnedInv' /\ Agrees
<1> DEFINE id == NewSensorId(sensors)
           longer == <<NewSensor(id, value, uses.unit, uses.appType, uses.range)>> \o sensors
<1>1. UsesSensors /\ Len(sensors) < uses.number /\ UNCHANGED <<uses, app>>
  BY DEF iowa_client_IPSO_add_sensor
<1>2. PICK objectFails \in Fails, instanceFails \in Fails :
        /\ IF SensorAdded(value, objectFails, instanceFails).list = objectList THEN UNCHANGED <<objectList, server>>
           ELSE ListBecomes(SensorAdded(value, objectFails, instanceFails).list)
        /\ IF SensorAdded(value, objectFails, instanceFails).code # NO_ERROR THEN UNCHANGED <<sensors, seen>>
           ELSE sensors' = longer
  BY Zenon DEF iowa_client_IPSO_add_sensor
<1>3. PICK added : added = SensorAdded(value, objectFails, instanceFails)
  OBVIOUS
<1>4. /\ objectList' = added.list
      /\ sensors' = IF added.code # NO_ERROR THEN sensors ELSE longer
  BY <1>2, <1>3 DEF ListBecomes
<1>5. GoodSensors(sensors) /\ uses.type # CustomId /\ uses.type # IOWA_LWM2M_DEVICE_OBJECT_ID
  BY <1>1, SensorObjectIs
<1>6. id \in 0..(ALL - 1) /\ id \notin IdentifiersOf(sensors)
  BY <1>1, NextSensorIs
<1>7. GoodSensors(longer) /\ IdentifiersOf(longer) = IdentifiersOf(sensors) \cup {id}
  BY <1>5, <1>6, SensorFirst
<1> HIDE DEF longer, id
<1>8. CASE added.code # NO_ERROR /\ added.list = objectList
  <2>1. UNCHANGED <<uses, objectList, app, sensors>>
    BY <1>1, <1>4, <1>8
  <2> QED
    BY <2>1, AllUnchanged
<1>9. CASE ~(added.code # NO_ERROR /\ added.list = objectList)
  <2>1. PICK list, resources, result :
          /\ \/ ObjectIndex(objectList, uses.type) # 0 /\ list = objectList
             \/ /\ customObjectAdd(objectList, NewIpsoObject(uses.type), objectFails).code = NO_ERROR
                /\ list = customObjectAdd(objectList, NewIpsoObject(uses.type), objectFails).list
          /\ result = objectAddInstance(ObjectOf(list, uses.type), id, resources, instanceFails)
          /\ added.code = result.code
          /\ added.list = With(list, ObjectIndex(list, uses.type), result.object)
    BY <1>3, <1>9, SensorAddedIs DEF id
  <2>2. PICK o : o = ObjectOf(list, uses.type)
    OBVIOUS
  <2>3. /\ OwnedBy(uses, list, app, sensors) /\ o \in ToSet(list) /\ o.objID = uses.type /\ Fit(o) /\ o.type = "advanced"
        /\ IdentifiersOf(sensors) \subseteq IdentifiersOf(o.instances) /\ Held = IdentifiersOf(o.instances)
    BY <1>1, <2>1, <2>2, SensorObjectAdded
  <2>4. result = objectAddInstance(o, id, resources, instanceFails)
    BY <2>1, <2>2
  <2>5. \/ result.code # NO_ERROR /\ result.object = o
        \/ result.code = NO_ERROR /\ OneMore(o, result.object, id)
    <3>1. CASE resources = <<>>
      BY <2>3, <2>4, <3>1 DEF objectAddInstance, NOT_ACCEPTABLE, NO_ERROR
    <3>2. CASE resources # <<>>
      <4>1. result = prv_addInstance(o, id, resources, instanceFails)
        BY <2>3, <2>4, <3>2 DEF objectAddInstance
      <4>2. instanceFails \in BOOLEAN /\ o.type # "single"
        BY <2>3 DEF Fails
      <4> QED
        BY <1>6, <2>3, <4>1, <4>2, AddedInstance
    <3> QED
      BY <3>1, <3>2
  <2>6. PICK p : p = result.object
    OBVIOUS
  <2>7. /\ Fit(p) /\ p.objID = o.objID /\ p.type = "advanced"
        /\ GoodSensors(sensors') /\ IdentifiersOf(sensors') \subseteq IdentifiersOf(p.instances)
        /\ \/ IdentifiersOf(p.instances) = IdentifiersOf(o.instances) /\ IdentifiersOf(sensors') = IdentifiersOf(sensors)
           \/ /\ IdentifiersOf(p.instances) = IdentifiersOf(o.instances) \cup {id}
              /\ IdentifiersOf(sensors') = IdentifiersOf(sensors) \cup {id}
    <3>1. CASE result.code # NO_ERROR /\ result.object = o
      <4>1. sensors' = sensors
        BY <1>4, <2>1, <3>1
      <4> QED
        BY <1>5, <2>3, <2>6, <3>1, <4>1
    <3>2. CASE result.code = NO_ERROR /\ OneMore(o, result.object, id)
      <4>1. sensors' = longer
        BY <1>4, <2>1, <3>2
      <4>2. /\ Fit(p) /\ p.objID = o.objID /\ p.type = o.type
            /\ IdentifiersOf(p.instances) = IdentifiersOf(o.instances) \cup {id}
        BY <2>6, <3>2 DEF OneMore
      <4> QED
        BY <1>7, <2>3, <4>1, <4>2
    <3> QED
      BY <2>5, <3>1, <3>2
  <2>8. Belongs(uses, p, sensors')
    BY <1>5, <2>3, <2>7 DEF Belongs
  <2>9. objectList' = With(list, ObjectIndex(list, p.objID), p)
    BY <1>4, <2>1, <2>3, <2>6, <2>7
  <2>10. OwnedBy(uses, With(list, ObjectIndex(list, p.objID), p), app, sensors')
    BY <2>3, <2>7, <2>8, OwnedChanged
  <2>11. OwnedInv'
    BY <1>1, <2>9, <2>10 DEF OwnedInv
  <2>12. UsesSensors' /\ OwnedObject' = uses.type
    BY <1>1 DEF UsesSensors, OwnedObject
  <2>13. Held' = IdentifiersOf(p.instances)
    <3>1. ToSet(objectList') = (ToSet(list) \ {o}) \cup {p}
      BY <2>3, <2>7, <2>9, ObjectChanged DEF OwnedBy, Fit
    <3>2. \A q \in ToSet(objectList') : q.objID = uses.type <=> q = p
      BY <2>3, <2>7, <3>1 DEF OwnedBy, GoodList
    <3>3. p \in ToSet(objectList')
      BY <3>1
    <3>4. \A x : x \in Held' <=> \E q \in ToSet(objectList') : q.objID = uses.type /\ x \in IdentifiersOf(q.instances)
      BY <2>11, <2>12, HeldIs
    <3>5. \A x : x \in Held' <=> x \in IdentifiersOf(p.instances)
      BY <3>2, <3>3, <3>4, Zenon
    <3> QED
      BY <3>5
  <2>14. Owned = IdentifiersOf(sensors) /\ Owned' = IdentifiersOf(sensors')
    BY <1>1, <2>12, OwnedIs
  <2>15. \/ Held' = Held /\ Owned' = Owned
         \/ Held' = Held \cup {id} /\ Owned' = Owned \cup {id}
    BY <2>3, <2>7, <2>13, <2>14
  <2> QED
    BY <2>11, <2>15, BothSame, BothMore
<1> QED
  BY <1>8, <1>9

LEMMA SensorOwned ==
  ASSUME OwnedInv, SensorAction
  PROVE  OwnedInv' /\ Agrees
BY SensorAddedOwned, SensorRemovedOwned, UpdatedOwned, Zenon DEF SensorAction

-----------------------------------------------------------------------------
(* The requests of a Server                                                *)

LEMMA NoValues ==
  ASSUME NEW values, NEW data, DOMAIN values = {}
  PROVE  AppWritten(values, data) = <<>>
BY DEF AppWritten

LEMMA WrittenDomain ==
  ASSUME NEW values, NEW data
  PROVE  DOMAIN AppWritten(values, data) = DOMAIN values
BY DEF AppWritten

LEMMA EmptiedDomain ==
  ASSUME NEW values, NEW datum
  PROVE  DOMAIN AppEmptied(values, datum) = DOMAIN values
BY DEF AppEmptied

\* The values once the multiple Resource of a write is emptied, if it is.
EmptiedBy(data, isPartial) ==
  IF Empties(data, isPartial) /\ data[1].instance \in DOMAIN app THEN AppEmptied(app, data[1]) ELSE app

LEMMA WriteIs ==
  ASSUME NEW request, NEW isPartial, NEW refuses, NEW w, w = Written(request, isPartial, refuses)
  PROVE  LET data == request.data
             written == IpsoWrite(sensors, data) IN
         \/ /\ request.uri.object = CustomId
            /\ \/ w.code = BAD_REQUEST /\ w.app = EmptiedBy(data, isPartial)
               \/ w.code = NO_ERROR /\ w.app = AppWritten(EmptiedBy(data, isPartial), data)
            /\ w.device = device /\ w.sensors = sensors
         \/ /\ request.uri.object = IOWA_LWM2M_DEVICE_OBJECT_ID
            /\ w.code = DeviceWrite(device, data).code /\ w.device = DeviceWrite(device, data).device
            /\ w.app = app /\ w.sensors = sensors
         \/ /\ request.uri.object \notin {CustomId, IOWA_LWM2M_DEVICE_OBJECT_ID}
            /\ w.code = written.code /\ w.sensors = written.sensors
            /\ w.app = app /\ w.device = device
<1> DEFINE data == request.data
           written == IpsoWrite(sensors, data)
           emptied == EmptiedBy(data, isPartial)
           same == [code |-> NO_ERROR, app |-> app, device |-> device, sensors |-> sensors]
           codeC == IF refuses THEN BAD_REQUEST ELSE NO_ERROR
           appC == IF refuses THEN emptied ELSE AppWritten(emptied, data)
           codeD == DeviceWrite(device, data).code
           deviceD == DeviceWrite(device, data).device
           sensorsS == written.sensors
<1>1. (codeC = BAD_REQUEST /\ appC = emptied) \/ (codeC = NO_ERROR /\ appC = AppWritten(emptied, data))
  OBVIOUS
<1>2. w = CASE request.uri.object = CustomId -> [same EXCEPT !.code = codeC, !.app = appC]
            [] request.uri.object = IOWA_LWM2M_DEVICE_OBJECT_ID -> [same EXCEPT !.code = codeD, !.device = deviceD]
            [] OTHER -> [same EXCEPT !.code = written.code, !.sensors = sensorsS]
  BY Zenon DEF Written, EmptiedBy
<1> HIDE DEF data, written, emptied, codeC, appC, codeD, deviceD, sensorsS
<1>3. CASE request.uri.object = CustomId
  <2>1. w = [same EXCEPT !.code = codeC, !.app = appC]
    BY <1>2, <1>3, CustomIsNotDevice
  <2>2. w.code = codeC /\ w.app = appC /\ w.device = device /\ w.sensors = sensors
    BY <2>1
  <2>3. (w.code = BAD_REQUEST /\ w.app = emptied) \/ (w.code = NO_ERROR /\ w.app = AppWritten(emptied, data))
    BY <1>1, <2>2
  <2> QED
    BY <1>3, <2>2, <2>3 DEF emptied, data
<1>4. CASE request.uri.object = IOWA_LWM2M_DEVICE_OBJECT_ID
  <2>1. w = [same EXCEPT !.code = codeD, !.device = deviceD]
    BY <1>2, <1>4, CustomIsNotDevice
  <2>2. w.code = codeD /\ w.device = deviceD /\ w.app = app /\ w.sensors = sensors
    BY <2>1
  <2> QED
    BY <1>4, <2>2 DEF codeD, deviceD, data
<1>5. CASE request.uri.object \notin {CustomId, IOWA_LWM2M_DEVICE_OBJECT_ID}
  <2>1. w = [same EXCEPT !.code = written.code, !.sensors = sensorsS]
    BY <1>2, <1>5
  <2>2. w.code = written.code /\ w.sensors = sensorsS /\ w.app = app /\ w.device = device
    BY <2>1
  <2> QED
    BY <1>5, <2>2 DEF sensorsS, written, data
<1> QED
  BY <1>3, <1>4, <1>5

\* Of a sensor a request executes a Resource of.
LEMMA SensorTouched ==
  ASSUME OwnedInv, UsesSensors, NEW id, NEW s,
         sensors' = With(sensors, SensorIndex(id), s),
         SensorIndex(id) # 0 => GoodSensor(s) /\ s.id = sensors[SensorIndex(id)].id
  PROVE  /\ GoodSensors(sensors') /\ IdentifiersOf(sensors') = IdentifiersOf(sensors)
         /\ sensors = <<>> => sensors' = <<>>
<1>1. GoodSensors(sensors)
  BY SensorObjectIs
<1>2. SensorIndex(id) = 0 \/ SensorIndex(id) \in 1..Len(sensors)
  BY <1>1, SensorFound
<1> QED
  BY <1>1, <1>2, SensorChanged

LEMMA WriteOwned ==
  ASSUME OwnedInv, NEW request, Write(request)
  PROVE  OwnedInv' /\ Agrees
<1> DEFINE data == request.data
           written == IpsoWrite(sensors, data)
           checked == IF data # <<>> /\ ObjectIndex(objectList, request.uri.object) = 0 THEN NOT_FOUND
                      ELSE object_checkWritePayload(ObjectOf(objectList, request.uri.object), data)
<1>1. UNCHANGED uses
  BY Zenon DEF Write
<1>2. UNCHANGED objectList
  BY Zenon DEF Write
<1>3. \/ UNCHANGED <<app, sensors>>
      \/ \E isPartial, refuses :
           /\ checked = NO_ERROR
           /\ app' = Written(request, isPartial, refuses).app /\ sensors' = Written(request, isPartial, refuses).sensors
  BY Zenon DEF Write
<1>4. CASE UNCHANGED <<app, sensors>>
  BY <1>1, <1>2, <1>4, AllUnchanged
<1>5. CASE ~UNCHANGED <<app, sensors>>
  <2>1. PICK isPartial, refuses, w :
          /\ w = Written(request, isPartial, refuses)
          /\ checked = NO_ERROR /\ app' = w.app /\ sensors' = w.sensors
    BY <1>3, <1>5
  <2>2. ObjectIndex(objectList, request.uri.object) # 0
    <3>1. NOT_FOUND # NO_ERROR /\ BAD_REQUEST # NO_ERROR
      BY DEF NOT_FOUND, NO_ERROR, BAD_REQUEST
    <3>2. data # <<>>
      BY <2>1, <3>1 DEF object_checkWritePayload
    <3> QED
      BY <2>1, <3>1, <3>2
  <2>3. /\ DOMAIN app' = DOMAIN app /\ (request.uri.object # CustomId => app' = app)
        /\ sensors' = sensors \/ sensors' = written.sensors
    BY <2>1, WriteIs, EmptiedDomain, WrittenDomain DEF EmptiedBy
  <2>4. app' = app \/ \E o \in ToSet(objectList) : o.objID = CustomId
    BY <2>2, <2>3, ObjectOfIs DEF OwnedInv, OwnedBy
  <2>5. \/ UNCHANGED sensors \/ ~UsesSensors
        \/ /\ GoodSensors(sensors') /\ IdentifiersOf(sensors') = IdentifiersOf(sensors)
           /\ sensors = <<>> => sensors' = <<>>
    <3> SUFFICES ASSUME UsesSensors, sensors' = written.sensors
                 PROVE  /\ GoodSensors(sensors') /\ IdentifiersOf(sensors') = IdentifiersOf(sensors)
                        /\ sensors = <<>> => sensors' = <<>>
      BY <2>3
    <3> QED
      BY SensorObjectIs, WriteSensors
  <2> QED
    BY <1>1, <1>2, <2>3, <2>4, <2>5, NothingOwned
<1> QED
  BY <1>4, <1>5

LEMMA ExecutionIs ==
  ASSUME NEW request, NEW e, e = Executed(request)
  PROVE  LET uri == request.uri
             index == SensorIndex(uri.instance)
             ofDevice == DeviceExecute(device, uri.resource, request.argument)
             ofSensor == IpsoExecute(sensors[index], uri.resource, request.argument) IN
         \/ /\ uri.object = CustomId
            /\ e.code = NO_ERROR /\ e.device = device /\ e.sensors = sensors /\ e.action = {} /\ e.told = {}
         \/ /\ uri.object = IOWA_LWM2M_DEVICE_OBJECT_ID
            /\ e.code = ofDevice.code /\ e.device = ofDevice.device /\ e.sensors = sensors
            /\ e.action = ofDevice.action /\ e.told = ofDevice.told
         \/ /\ uri.object \notin {CustomId, IOWA_LWM2M_DEVICE_OBJECT_ID}
            /\ e.code = ofSensor.code /\ e.device = device /\ e.sensors = With(sensors, index, ofSensor.sensor)
            /\ e.action = {} /\ e.told = ofSensor.told
<1> DEFINE uri == request.uri
           index == SensorIndex(uri.instance)
           ofSensor == IpsoExecute(sensors[index], uri.resource, request.argument)
           ofDevice == DeviceExecute(device, uri.resource, request.argument)
           same == [code |-> NO_ERROR, device |-> device, sensors |-> sensors, told |-> {}, action |-> {}]
           byDevice == [same EXCEPT !.code = ofDevice.code, !.device = ofDevice.device, !.told = ofDevice.told,
                                    !.action = ofDevice.action]
           sensorsS == With(sensors, index, ofSensor.sensor)
           bySensor == [same EXCEPT !.code = ofSensor.code, !.told = ofSensor.told, !.sensors = sensorsS]
<1>1. e = CASE uri.object = CustomId -> same
            [] uri.object = IOWA_LWM2M_DEVICE_OBJECT_ID -> byDevice
            [] OTHER -> bySensor
  BY Zenon DEF Executed, With
<1> HIDE DEF uri, index, ofSensor, ofDevice, sensorsS
<1>2. CASE uri.object = CustomId
  <2>1. e = same
    <3> HIDE DEF same, byDevice, bySensor
    <3> QED
      BY <1>1, <1>2, CustomIsNotDevice
  <2> QED
    BY <1>2, <2>1 DEF uri
<1>3. CASE uri.object = IOWA_LWM2M_DEVICE_OBJECT_ID
  <2>1. e = byDevice
    <3> HIDE DEF same, byDevice, bySensor
    <3> QED
      BY <1>1, <1>3, CustomIsNotDevice
  <2>2. /\ e.code = ofDevice.code /\ e.device = ofDevice.device /\ e.sensors = sensors /\ e.action = ofDevice.action
        /\ e.told = ofDevice.told
    BY <2>1
  <2> QED
    BY <1>3, <2>2 DEF ofDevice, uri
<1>4. CASE uri.object \notin {CustomId, IOWA_LWM2M_DEVICE_OBJECT_ID}
  <2>1. e = bySensor
    <3> HIDE DEF same, byDevice, bySensor
    <3> QED
      BY <1>1, <1>4
  <2>2. /\ e.code = ofSensor.code /\ e.device = device /\ e.sensors = sensorsS /\ e.action = {}
        /\ e.told = ofSensor.told
    BY <2>1
  <2> QED
    BY <1>4, <2>2 DEF sensorsS, ofSensor, index, uri
<1> QED
  BY <1>2, <1>3, <1>4 DEF uri

LEMMA ExecuteOwned ==
  ASSUME OwnedInv, NEW request, Execute(request)
  PROVE  OwnedInv' /\ Agrees
<1> DEFINE id == request.uri.instance
           executed == IpsoExecute(sensors[SensorIndex(id)], request.uri.resource, request.argument)
<1>1. UNCHANGED <<uses, app>>
  BY Zenon DEF Execute
<1>2. UNCHANGED objectList
  BY Zenon DEF Execute
<1>3. UNCHANGED sensors \/ sensors' = Executed(request).sensors
  BY Zenon DEF Execute
<1>4. PICK e : e = Executed(request)
  OBVIOUS
<1>5. sensors' = sensors \/ sensors' = With(sensors, SensorIndex(id), executed.sensor)
  BY <1>3, <1>4, ExecutionIs
<1>6. \/ UNCHANGED sensors \/ ~UsesSensors
      \/ /\ GoodSensors(sensors') /\ IdentifiersOf(sensors') = IdentifiersOf(sensors)
         /\ sensors = <<>> => sensors' = <<>>
  <2> SUFFICES ASSUME UsesSensors, sensors' = With(sensors, SensorIndex(id), executed.sensor)
               PROVE  /\ GoodSensors(sensors') /\ IdentifiersOf(sensors') = IdentifiersOf(sensors)
                      /\ sensors = <<>> => sensors' = <<>>
    BY <1>5
  <2>1. SensorIndex(id) # 0 => GoodSensor(executed.sensor) /\ executed.sensor.id = sensors[SensorIndex(id)].id
    BY SensorObjectIs, SensorFound, ExecuteSensor
  <2> HIDE DEF executed, id
  <2> QED
    BY <2>1, SensorTouched
<1> QED
  BY <1>1, <1>2, <1>6, NothingOwned

LEMMA DeleteOwned ==
  ASSUME OwnedInv, NEW request, Delete(request)
  PROVE  OwnedInv' /\ Agrees
<1> DEFINE o == ObjectOf(objectList, request.uri.object)
           id == request.uri.instance
<1>1. UNCHANGED <<uses, sensors>>
  BY Zenon DEF Delete
<1>2. \/ UNCHANGED <<objectList, app>>
      \/ /\ ObjectIndex(objectList, request.uri.object) # 0
         /\ \E accepts \in {NO_ERROR, NOT_ACCEPTABLE}, fails \in Fails :
              /\ objectList' = ObjectBecomes(object_delete(o, id, accepts, fails).object)
              /\ app' = IF object_delete(o, id, accepts, fails).code = DELETED THEN Restrict(app, DOMAIN app \ {id}) ELSE app
              /\ Report("delete", object_delete(o, id, accepts, fails).code, {})
  BY Zenon DEF Delete, ObjectOf
<1>3. CASE UNCHANGED <<objectList, app>>
  BY <1>1, <1>3, AllUnchanged
<1>4. CASE ~UNCHANGED <<objectList, app>>
  <2>1. PICK accepts, fails, d :
          /\ accepts \in {NO_ERROR, NOT_ACCEPTABLE} /\ fails \in Fails
          /\ d = object_delete(o, id, accepts, fails)
          /\ ObjectIndex(objectList, request.uri.object) # 0
          /\ objectList' = ObjectBecomes(d.object)
          /\ app' = IF d.code = DELETED THEN Restrict(app, DOMAIN app \ {id}) ELSE app
          /\ out'.operation = "delete" /\ out'.code = d.code
    <3>1. PICK accepts, fails, d :
            /\ accepts \in {NO_ERROR, NOT_ACCEPTABLE} /\ fails \in Fails
            /\ d = object_delete(o, id, accepts, fails)
            /\ ObjectIndex(objectList, request.uri.object) # 0
            /\ objectList' = ObjectBecomes(d.object)
            /\ app' = IF d.code = DELETED THEN Restrict(app, DOMAIN app \ {id}) ELSE app
            /\ Report("delete", d.code, {})
      BY <1>2, <1>4, Zenon
    <3>2. out'.operation = "delete" /\ out'.code = d.code
      BY <3>1, ReportIs
    <3> QED
      BY <3>1, <3>2, Zenon
  <2>2. accepts \in {NO_ERROR, NOT_ACCEPTABLE} /\ d = object_delete(o, id, accepts, fails)
    BY <2>1
  <2>3. o \in ToSet(objectList) /\ o.objID = request.uri.object
    BY <2>1, ObjectOfIs DEF OwnedInv, OwnedBy
  <2>4. Fit(o) /\ Belongs(uses, o, sensors)
    BY <2>3 DEF OwnedInv, OwnedBy
  <2>5. ObjectBecomes(o) = objectList
    BY <2>1, SameObject DEF OwnedInv, OwnedBy, GoodList, IsList, ObjectBecomes
  <2> HIDE DEF o, id
  <2>6. UsesSensors => GoodSensors(sensors') /\ uses.type # CustomId
    BY <1>1, SensorObjectIs
  <2>7. CASE d.code = DELETED
    <3>1. /\ o.instanceCb /\ Fit(d.object) /\ d.object.objID = o.objID /\ id \in IdentifiersOf(o.instances)
          /\ \/ IdentifiersOf(d.object.instances) = IdentifiersOf(o.instances) \ {id}
             \/ d.object = o /\ Len(o.instances) > 1
      BY <2>2, <2>4, <2>7, DeleteIs
    <3>2. o.objID = CustomId
      BY <2>4, <3>1 DEF Fit
    <3>3. DOMAIN app' = DOMAIN app \ {id}
      BY <2>1, <2>7, FromValues
    <3>4. Belongs(uses, d.object, sensors')
      BY <2>6, <3>1, <3>2, CustomIsNotDevice DEF Belongs, UsesSensors
    <3>5. /\ OwnedInv'
          /\ o.objID # OwnedObject => Held' = Held
          /\ o.objID = OwnedObject => Held = IdentifiersOf(o.instances) /\ Held' = IdentifiersOf(d.object.instances)
      BY <1>1, <2>1, <2>3, <2>6, <3>1, <3>2, <3>4, ChangeOwned
    <3>6. CASE UsesSensors
      <4>1. o.objID # OwnedObject
        BY <2>6, <3>2, <3>6 DEF OwnedObject
      <4>2. Owned' = Owned
        BY <1>1, <3>6, OwnedIs DEF UsesSensors
      <4> QED
        BY <3>5, <4>1, <4>2, BothSame
    <3>7. CASE ~UsesSensors
      <4>1. o.objID = OwnedObject /\ Owned' = Owned \ {id}
        BY <1>1, <3>2, <3>3, <3>7, OwnedIs DEF OwnedObject, UsesSensors
      <4>2. CASE IdentifiersOf(d.object.instances) = IdentifiersOf(o.instances) \ {id}
        BY <3>5, <4>1, <4>2, BothLess
      <4>3. CASE d.object = o /\ Len(o.instances) > 1
        <5>1. Cardinality(Held) > 1
          <6>1. IsList(o.instances) /\ \A i, j \in ToSet(o.instances) : i.id = j.id => i = j
            BY <2>4 DEF Fit, GoodObject
          <6> QED
            BY <3>5, <4>1, <4>3, <6>1, IdentifiersCount
        <5>2. UNCHANGED objectList
          BY <2>1, <2>5, <4>3
        <5>3. Held' = Held /\ id \in Held
          BY <3>1, <3>5, <4>1, <4>3
        <5> QED
          BY <2>1, <2>7, <3>5, <4>1, <5>1, <5>2, <5>3, OwnerAlone
      <4> QED
        BY <3>1, <4>2, <4>3
    <3> QED
      BY <3>5, <3>6, <3>7
  <2>8. CASE d.code # DELETED
    <3>1. d.object = o
      BY <2>2, <2>8, RefusedDelete
    <3>2. app' = app
      BY <2>1, <2>8
    <3>3. UNCHANGED objectList
      BY <2>1, <2>5, <3>1
    <3> QED
      BY <1>1, <3>2, <3>3, AllUnchanged
  <2> QED
    BY <2>7, <2>8
<1> QED
  BY <1>3, <1>4

\* A Create has data.
LEMMA CreateHasData ==
  ASSUME NEW request, Operation(request).name = "create"
  PROVE  request.data # <<>>
<1> SUFFICES ASSUME request.data = <<>> PROVE FALSE
  OBVIOUS
<1> DEFINE refused(code) == [name |-> "refused", code |-> code]
           operation(name) == [name |-> name, code |-> NO_ERROR]
           ofInstance == request.uri.instance # ALL
           ofResource == request.uri.resource # ALL
           observes == request.observe # NULL
           link == request.accept = "link"
           multiple == IsMultiple(request.uri)
           get == IF link /\ observes THEN refused(BAD_REQUEST) ELSE operation(IF link THEN "discover" ELSE "read")
           post == IF observes \/ ~ofInstance THEN refused(BAD_REQUEST)
                   ELSE operation(IF ~ofInstance THEN "create" ELSE IF ~ofResource \/ multiple THEN "write" ELSE "execute")
           put == IF observes \/ (IF request.query THEN FALSE ELSE ~ofInstance) THEN refused(BAD_REQUEST)
                  ELSE operation(IF request.query THEN "attributes" ELSE "replace")
           delete == IF observes \/ ~ofInstance \/ ofResource THEN refused(BAD_REQUEST) ELSE operation("delete")
<1>1. Operation(request) \in {refused(UNAUTHORIZED), operation("ignored"), refused(BAD_REQUEST),
                              refused(UNSUPPORTED_CONTENT_FORMAT), refused(NOT_IMPLEMENTED), get, post, put, delete}
  BY DEF Operation
<1>2. get.name # "create" /\ post.name # "create" /\ put.name # "create" /\ delete.name # "create"
  OBVIOUS
<1>3. \A code : refused(code).name # "create"
  OBVIOUS
<1>4. operation("ignored").name # "create"
  OBVIOUS
<1> HIDE DEF get, post, put, delete, refused, operation
<1> QED
  BY <1>1, <1>2, <1>3, <1>4

LEMMA ToldDomain ==
  ASSUME NEW values, NEW id
  PROVE  /\ AppToldOf(values, <<>>) = values
         /\ DOMAIN AppToldOf(values, <<CreateCall(id)>>) = DOMAIN values \cup {id}
         /\ DOMAIN AppToldOf(values, <<CreateCall(id), DeleteCall(id)>>) = DOMAIN values \ {id}
<1> DEFINE new == NewValues(CustomObject.resources)
           more == Holding(values, id, new)
<1>1. AppToldOf(values, <<>>) = values
  BY DEF AppToldOf
<1>2. AppToldOf(values, <<CreateCall(id)>>) = AppCreated(values, CreateCall(id))
  BY DEF AppToldOf
<1>3. AppToldOf(values, <<CreateCall(id), DeleteCall(id)>>) = AppCreated(AppCreated(values, CreateCall(id)), DeleteCall(id))
  BY DEF AppToldOf
<1>4. AppCreated(values, CreateCall(id)) = more
  BY DEF AppCreated, CreateCall
<1> HIDE DEF more
<1>5. AppCreated(more, DeleteCall(id)) = Restrict(more, DOMAIN more \ {id})
  BY DEF AppCreated, DeleteCall
<1>6. DOMAIN more = DOMAIN values \cup {id}
  BY FromValues DEF more
<1>7. DOMAIN Restrict(more, DOMAIN more \ {id}) = DOMAIN more \ {id}
  BY FromValues
<1> QED
  BY <1>1, <1>2, <1>3, <1>4, <1>5, <1>6, <1>7

LEMMA CreateNamesIds ==
  ASSUME OwnedInv, NEW request \in uses.requests, Operation(request).name = "create"
  PROVE  request.data[1].instance \in Ids
<1>1. request.data \in Seq(ToSet(request.data)) /\ \A datum \in ToSet(request.data) : datum.instance \in Ids
  BY ManagementAssumption DEF ManagementAssumption, OwnedInv
<1>2. request.data # <<>>
  BY CreateHasData
<1>3. request.data[1] \in ToSet(request.data)
  BY <1>1, <1>2 DEF ToSet
<1> QED
  BY <1>1, <1>3

Made(o, c, data) ==
  \E accepts \in {NO_ERROR, NOT_ACCEPTABLE}, written \in {NO_ERROR, BAD_REQUEST}, fails \in Fails :
    c = object_create(o, data, accepts, written, fails)

\* What a Create does: to no Object, or to the one it finds.
CreateOf(o, c, request) ==
  /\ ObjectIndex(objectList, request.uri.object) # 0 /\ o = ObjectOf(objectList, request.uri.object)
  /\ o \in ToSet(objectList) /\ o.objID = request.uri.object /\ Fit(o) /\ Belongs(uses, o, sensors)
  /\ ObjectBecomes(o) = objectList /\ Outcome(o, c) /\ Made(o, c, request.data)
  /\ objectList' = ObjectBecomes(c.object)
  /\ app' = IF Len(c.calls) = 1 THEN AppWritten(AppToldOf(app, c.calls), c.data) ELSE AppToldOf(app, c.calls)
  /\ c.code # CREATED => server' = server
  /\ Report("create", c.code, {})

LEMMA CreateDoes ==
  ASSUME OwnedInv, NEW request \in uses.requests, Create(request)
  PROVE  \/ UNCHANGED <<objectList, app, server>>
         \/ \E o, c : CreateOf(o, c, request)
<1> DEFINE o == ObjectOf(objectList, request.uri.object)
           data == request.data
<1>1. CASE ObjectIndex(objectList, request.uri.object) = 0
  BY <1>1, Zenon DEF Create
<1>2. CASE ObjectIndex(objectList, request.uri.object) # 0
  <2>1. Len(o.instances) < MaxInstances
    BY <1>2, Zenon DEF Create, ObjectOf
  <2>2. PICK accepts \in {NO_ERROR, NOT_ACCEPTABLE}, written \in {NO_ERROR, BAD_REQUEST}, fails \in Fails :
           Created(object_create(o, data, accepts, written, fails))
    BY <1>2, Zenon DEF Create, ObjectOf
  <2>3. PICK c : c = object_create(o, data, accepts, written, fails)
    OBVIOUS
  <2>4. Created(c)
    BY <2>2, <2>3
  <2>5. /\ objectList' = ObjectBecomes(c.object)
        /\ app' = IF Len(c.calls) = 1 THEN AppWritten(AppToldOf(app, c.calls), c.data) ELSE AppToldOf(app, c.calls)
        /\ c.code # CREATED => server' = server
        /\ Report("create", c.code, {})
    BY <2>4, Zenon DEF Created
  <2>6. o \in ToSet(objectList) /\ o.objID = request.uri.object /\ IsSequence(objectList)
    BY <1>2, ObjectOfIs DEF OwnedInv, OwnedBy, GoodList, IsList
  <2>7. Fit(o) /\ Belongs(uses, o, sensors)
    BY <2>6 DEF OwnedInv, OwnedBy
  <2>8. HasRoom(o)
    <3>1. Len(o.instances) \in Nat
      BY <2>7, ListIs DEF Fit, GoodObject
    <3>2. MaxInstances \in 0..ALL
      BY ManagementAssumption DEF ManagementAssumption, Ids
    <3>3. ALL \in Nat
      BY AllIs
    <3> HIDE DEF o
    <3> QED
      BY <2>1, <3>1, <3>2, <3>3 DEF HasRoom
  <2>9. NamesId(data)
    BY CreateNamesIds DEF Create, NamesId
  <2>10. ObjectBecomes(o) = objectList
    BY <1>2, <2>6, SameObject DEF ObjectBecomes
  <2> HIDE DEF data
  <2>11. Outcome(o, c)
    <3>1. fails \in BOOLEAN
      BY DEF Fails
    <3> HIDE DEF o
    <3> QED
      BY <2>3, <2>7, <2>8, <2>9, <3>1, CreateIs
  <2>12. Made(o, c, request.data)
    BY <2>3 DEF Made, data
  <2>13. CreateOf(o, c, request)
    BY <1>2, <2>5, <2>6, <2>7, <2>10, <2>11, <2>12, Zenon DEF CreateOf
  <2> QED
    BY <2>13
<1> QED
  BY <1>1, <1>2

LEMMA CreateOwned ==
  ASSUME OwnedInv, NEW request \in uses.requests, Create(request)
  PROVE  OwnedInv' /\ Agrees
<1>1. UNCHANGED <<uses, sensors>>
  BY Zenon DEF Create
<1>2. CASE UNCHANGED <<objectList, app>>
  BY <1>1, <1>2, AllUnchanged
<1>3. ASSUME NEW o, NEW c, CreateOf(o, c, request) PROVE OwnedInv' /\ Agrees
  <2>1. /\ objectList' = ObjectBecomes(c.object)
        /\ app' = IF Len(c.calls) = 1 THEN AppWritten(AppToldOf(app, c.calls), c.data) ELSE AppToldOf(app, c.calls)
        /\ o \in ToSet(objectList) /\ o.objID = request.uri.object
    BY <1>3, Zenon DEF CreateOf
  <2>2. Fit(o) /\ Belongs(uses, o, sensors) /\ ObjectBecomes(o) = objectList
    BY <1>3, Zenon DEF CreateOf
  <2>3. out'.operation = "create" /\ out'.code = c.code
    BY <1>3, Zenon DEF CreateOf, Report, Reported
  <2>4. DOMAIN app' = DOMAIN AppToldOf(app, c.calls)
    BY <2>1, WrittenDomain
  <2>5. UsesSensors => GoodSensors(sensors') /\ uses.type # CustomId
    BY <1>1, SensorObjectIs
  <2>6. o.instanceCb => o.objID = CustomId
    BY <2>2 DEF Fit
  <2>7. (\E id : Creates(o, c, id) \/ Undoes(o, c, id) \/ LeavesOne(o, c, id)) \/ (c.calls = <<>> /\ c.object = o)
    BY <1>3, Zenon DEF CreateOf, Outcome
  \* Of the Object of the sensors the application has none.
  <2>8. UsesSensors /\ o.instanceCb => o.objID # OwnedObject /\ Owned' = Owned
    BY <1>1, <2>5, <2>6, OwnedIs DEF OwnedObject, UsesSensors
  <2>9. ~UsesSensors /\ o.instanceCb => o.objID = OwnedObject /\ Owned = DOMAIN app /\ Owned' = DOMAIN app'
    BY <1>1, <2>6, OwnedIs DEF OwnedObject, UsesSensors
  <2>10. ASSUME NEW id, Creates(o, c, id)
         PROVE  OwnedInv' /\ Agrees
    <3>1. /\ o.instanceCb /\ c.calls = <<CreateCall(id)>> /\ Fit(c.object) /\ c.object.objID = o.objID
          /\ IdentifiersOf(c.object.instances) = IdentifiersOf(o.instances) \cup {id}
      BY <2>10 DEF Creates
    <3>2. DOMAIN app' = DOMAIN app \cup {id}
      BY <2>4, <3>1, ToldDomain
    <3>3. Belongs(uses, c.object, sensors')
      BY <2>5, <2>6, <3>1, CustomIsNotDevice DEF Belongs, UsesSensors
    <3>4. /\ OwnedInv'
          /\ o.objID # OwnedObject => Held' = Held
          /\ o.objID = OwnedObject => Held = IdentifiersOf(o.instances) /\ Held' = IdentifiersOf(c.object.instances)
      BY <1>1, <2>1, <2>5, <2>6, <3>1, <3>3, ChangeOwned
    <3>5. CASE UsesSensors
      BY <2>8, <3>1, <3>4, <3>5, BothSame
    <3>6. CASE ~UsesSensors
      <4>1. Held' = Held \cup {id} /\ Owned' = Owned \cup {id}
        BY <2>9, <3>1, <3>2, <3>4, <3>6
      <4> QED
        BY <3>4, <4>1, BothMore
    <3> QED
      BY <3>5, <3>6
  \* Of an Object that stays as it is.
  <2>11. ASSUME o.instanceCb, c.object = o
         PROVE  /\ OwnedInv' /\ Held' = Held /\ UNCHANGED objectList
                /\ ~UsesSensors => Held = IdentifiersOf(o.instances)
    <3>1. UNCHANGED objectList
      BY <2>1, <2>2, <2>11
    <3>2. /\ OwnedInv'
          /\ o.objID # OwnedObject => Held' = Held
          /\ o.objID = OwnedObject => Held = IdentifiersOf(o.instances) /\ Held' = IdentifiersOf(o.instances)
      <4>1. Belongs(uses, o, sensors')
        BY <1>1, <2>2
      <4> QED
        BY <1>1, <2>1, <2>2, <2>5, <2>6, <2>11, <4>1, ChangeOwned
    <3> QED
      BY <2>9, <2>11, <3>1, <3>2
  <2>12. ASSUME NEW id, Undoes(o, c, id)
         PROVE  OwnedInv' /\ Agrees
    <3>1. /\ o.instanceCb /\ id \notin IdentifiersOf(o.instances) /\ c.calls = <<CreateCall(id), DeleteCall(id)>>
          /\ c.object = o
      BY <2>12 DEF Undoes
    <3>2. DOMAIN app' = DOMAIN app \ {id}
      BY <2>4, <3>1, ToldDomain
    <3>3. CASE UsesSensors
      BY <2>8, <2>11, <3>1, <3>3, BothSame
    <3>4. CASE ~UsesSensors
      <4>1. Held' = Held /\ id \notin Held /\ Owned' = Owned \ {id}
        BY <2>9, <2>11, <3>1, <3>2, <3>4
      <4> QED
        BY <2>11, <3>1, <4>1, OwnerRid
    <3> QED
      BY <3>3, <3>4
  <2>13. ASSUME NEW id, LeavesOne(o, c, id)
         PROVE  OwnedInv' /\ Agrees
    <3>1. /\ o.instanceCb /\ id \notin IdentifiersOf(o.instances) /\ c.calls = <<CreateCall(id)>>
          /\ c.object = o /\ c.code = INTERNAL_ERROR
      BY <2>13 DEF LeavesOne
    <3>2. DOMAIN app' = DOMAIN app \cup {id}
      BY <2>4, <3>1, ToldDomain
    <3>3. CASE UsesSensors
      BY <2>8, <2>11, <3>1, <3>3, BothSame
    <3>4. CASE ~UsesSensors
      <4>1. Held' = Held /\ id \notin Held /\ Owned' = Owned \cup {id} /\ UNCHANGED objectList
        BY <2>9, <2>11, <3>1, <3>2, <3>4
      <4>2. out'.code = INTERNAL_ERROR /\ out'.operation \in {"create", "sensor"}
        BY <2>3, <3>1
      <4> QED
        BY <2>11, <3>1, <4>1, <4>2, OwnerAlone
    <3> QED
      BY <3>3, <3>4
  <2>14. ASSUME c.calls = <<>>, c.object = o
         PROVE  OwnedInv' /\ Agrees
    <3>1. Len(c.calls) # 1
      BY <2>14
    <3>2. app' = app
      BY <2>1, <2>14, <3>1, ToldDomain
    <3>3. UNCHANGED objectList
      BY <2>1, <2>2, <2>14
    <3> QED
      BY <1>1, <3>2, <3>3, AllUnchanged
  <2> QED
    BY <2>7, <2>10, <2>12, <2>13, <2>14
<1> QED
  BY <1>2, <1>3, CreateDoes

LEMMA RequestOwned ==
  ASSUME OwnedInv, ServerAction
  PROVE  OwnedInv' /\ Agrees
<1>1. ASSUME NEW request, Refuse(request) PROVE OwnedInv' /\ Agrees
  <2>1. UNCHANGED <<uses, objectList, app, sensors>>
    BY <1>1, Zenon DEF Refuse
  <2> QED
    BY <2>1, AllUnchanged
<1> QED
  BY <1>1, WriteOwned, ExecuteOwned, CreateOwned, DeleteOwned, Zenon DEF ServerAction

-----------------------------------------------------------------------------
(* The Instances of the Objects                                            *)

LEMMA DeviceOwned ==
  ASSUME OwnedInv, DeviceAction
  PROVE  OwnedInv' /\ Agrees
<1>1. ASSUME NEW update, DeviceUpdated(update) PROVE OwnedInv' /\ Agrees
  BY <1>1, AllUnchanged DEF DeviceUpdated
<1> QED
  BY <1>1, Zenon DEF DeviceAction, iowa_client_device_update_battery, iowa_client_set_device_error_code,
       iowa_client_clear_device_error_code, iowa_client_add_device_power_source, iowa_client_remove_device_power_source,
       iowa_client_update_device_power_source, iowa_client_update_device_information,
       iowa_client_update_device_time_information

LEMMA RegistrationOwned ==
  ASSUME OwnedInv, RegistrationAction \/ \E enter \in BOOLEAN : iowa_client_notification_lock(enter)
  PROVE  OwnedInv' /\ Agrees
<1>1. UNCHANGED <<uses, objectList, app, sensors>>
  <2>1. CASE RegistrationAction
    <3>1. lwm2m_step => UNCHANGED <<uses, objectList, app, sensors>>
      BY DEF lwm2m_step
    <3>2. iowa_step_action => UNCHANGED <<uses, objectList, app, sensors>>
      BY DEF iowa_step_action
    <3>3. Register => UNCHANGED <<uses, objectList, app, sensors>>
      BY DEF Register
    <3>4. prv_handleRegistrationReply => UNCHANGED <<uses, objectList, app, sensors>>
      BY DEF prv_handleRegistrationReply
    <3>5. StepUpdates => UNCHANGED <<uses, objectList, app, sensors>>
      BY DEF StepUpdates
    <3>6. prv_handleRegistrationUpdateReply => UNCHANGED <<uses, objectList, app, sensors>>
      BY DEF prv_handleRegistrationUpdateReply
    <3>7. prv_handleClientUpdateTimer => UNCHANGED <<uses, objectList, app, sensors>>
      BY DEF prv_handleClientUpdateTimer
    <3>8. registration_resetServersStatus => UNCHANGED <<uses, objectList, app, sensors>>
      BY DEF registration_resetServersStatus
    <3>9. prv_sendHearbeat => UNCHANGED <<uses, objectList, app, sensors>>
      BY DEF prv_sendHearbeat
    <3> QED
      BY <2>1, <3>1, <3>2, <3>3, <3>4, <3>5, <3>6, <3>7, <3>8, <3>9, Zenon DEF RegistrationAction
  <2>2. ASSUME NEW enter, iowa_client_notification_lock(enter) PROVE UNCHANGED <<uses, objectList, app, sensors>>
    BY <2>2 DEF iowa_client_notification_lock
  <2> QED
    BY <2>1, <2>2
<1> QED
  BY <1>1, AllUnchanged

\* The device is there from the start.
LEMMA InitOwned == Init => OwnedInv
<1> SUFFICES ASSUME Init PROVE OwnedInv
  OBVIOUS
<1>1. PICK d : d = NewDeviceObject(uses.options)
  OBVIOUS
<1>2. uses \in Cases /\ objectList = customObjectAdd(<<>>, d, FALSE).list /\ app = <<>> /\ sensors = <<>>
  BY <1>1 DEF Init
<1>3. /\ DOMAIN d = {"objID", "type", "instanceCb", "resources", "instances"}
      /\ d.objID = IOWA_LWM2M_DEVICE_OBJECT_ID /\ d.type = "single" /\ d.instanceCb = FALSE /\ d.instances = <<>>
      /\ d.resources = DeviceResources(uses.options)
  BY <1>1 DEF NewDeviceObject
<1>4. GoodObject(d) /\ IdentifiersOf(d.instances) = {}
  BY <1>3, EmptyList DEF GoodObject, IdentifiersOf
<1>5. GoodList(<<>>)
  BY EmptyList DEF GoodList
<1>6. customObjectAdd(<<>>, d, FALSE).code = NO_ERROR
  <2>1. IsSequence(<<>>) /\ ToSet(<<>>) = {} /\ Len(<<>>) = 0
    BY EmptyList DEF IsList
  <2>2. ObjectIndex(<<>>, d.objID) \notin 1..0
    OBVIOUS
  <2>3. ObjectIndex(<<>>, d.objID) = 0
    BY <2>1, <2>2, ObjectIndexIs
  <2> QED
    BY <2>3 DEF customObjectAdd
<1>7. PICK a : a = AsAdded(d)
  OBVIOUS
<1>8. GoodList(objectList) /\ ToSet(objectList) = {a}
  <2>1. GoodList(objectList) /\ ToSet(objectList) = ToSet(<<>>) \cup {AsAdded(d)}
    <3>1. PICK none, fails : none = <<>> /\ fails = FALSE
      OBVIOUS
    <3>2. GoodList(none) /\ customObjectAdd(none, d, fails).code = NO_ERROR
      BY <1>5, <1>6, <3>1
    <3>3. objectList = customObjectAdd(none, d, fails).list
      BY <1>2, <3>1
    <3>4. GoodList(objectList) /\ ToSet(objectList) = ToSet(none) \cup {AsAdded(d)}
      BY <1>4, <3>2, <3>3, ObjectAdded
    <3> QED
      BY <3>1, <3>4
  <2> QED
    BY <1>7, <2>1, EmptyList
<1>9. /\ GoodObject(a) /\ a.objID = IOWA_LWM2M_DEVICE_OBJECT_ID /\ a.type = "single" /\ ~a.instanceCb
      /\ a.resources = DeviceResources(uses.options)
      /\ IdentifiersOf(a.instances) \subseteq {LWM2M_SINGLE_OBJECT_INSTANCE_ID}
  BY <1>3, <1>4, <1>7, AsAddedIs
<1>10. IdentifiersOf(a.instances) \subseteq 0..(ALL - 1)
  BY <1>9, SingleIsNamed
<1>11. Fit(a)
  BY <1>9, <1>10, DeviceDescribed DEF Fit, Types
<1>12. /\ IOWA_LWM2M_DEVICE_OBJECT_ID # CustomId
       /\ uses.kind = "sensors" => uses.type # IOWA_LWM2M_DEVICE_OBJECT_ID
  BY <1>2, ManagementAssumption DEF ManagementAssumption, Reserved
<1>13. Belongs(uses, a, sensors)
  BY <1>9, <1>12 DEF Belongs
<1>14. GoodSensors(<<>>)
  BY EmptyList DEF GoodSensors
<1>15. OwnedBy(uses, objectList, app, sensors)
  BY <1>2, <1>8, <1>11, <1>13, <1>14 DEF OwnedBy
<1> QED
  BY <1>2, <1>15 DEF OwnedInv

LEMMA NextOwned ==
  ASSUME Contract
  PROVE  OwnedInv /\ [Next]_vars => OwnedInv' /\ Agrees
<1> SUFFICES ASSUME OwnedInv, [Next]_vars PROVE OwnedInv' /\ Agrees
  OBVIOUS
<1>1. CASE Next
  BY <1>1, CustomOwned, DeviceOwned, SensorOwned, RequestOwned, RegistrationOwned, Zenon DEF Next
<1>2. CASE UNCHANGED vars
  BY <1>2, AllUnchanged DEF vars
<1> QED
  BY <1>1, <1>2

LEMMA OwnedAreNamed == OwnedInv => InstancesAreNamed /\ InstancesAreOnce
<1> SUFFICES ASSUME OwnedInv PROVE InstancesAreNamed /\ InstancesAreOnce
  OBVIOUS
<1>1. Range(objectList) = ToSet(objectList)
  BY DEF Range, ToSet
<1>2. ASSUME NEW o \in ToSet(objectList)
      PROVE  Fit(o) /\ InstancesOf(o) = IdentifiersOf(o.instances)
  BY InstancesAre DEF OwnedInv, OwnedBy
<1>3. InstancesAreNamed
  BY <1>1, <1>2, AllIsNone DEF InstancesAreNamed, Fit
<1>4. ASSUME NEW o \in ToSet(objectList) PROVE Cardinality(InstancesOf(o)) = Len(o.instances)
  <2>1. IsList(o.instances) /\ \A i, j \in ToSet(o.instances) : i.id = j.id => i = j
    BY <1>2 DEF Fit, GoodObject
  <2>2. Cardinality(IdentifiersOf(o.instances)) = Len(o.instances)
    BY <2>1, IdentifiersCount
  <2> QED
    BY <1>2, <2>2
<1> QED
  BY <1>1, <1>3, <1>4 DEF InstancesAreOnce

\* The Instances of an Object are those its owner has, whatever the application
\* and the Servers create and delete, in whatever order, and where memory fails:
\* the two come to differ by the calls of Tears only, and by one Instance each.
\* None is twice there, and none has the identifier that stands for no Instance.
THEOREM InstancesAlwaysAgree == ASSUME Contract PROVE Spec => InstancesAgree
<1>1. Init => OwnedInv
  BY InitOwned
<1>2. OwnedInv /\ [Next]_vars => OwnedInv' /\ Agrees
  BY NextOwned
<1>3. OwnedInv' => InstancesAreNamed' /\ InstancesAreOnce'
  BY OwnedAreNamed, PTL
<1>4. OwnedInv /\ [Next]_vars => [/\ InstancesAreNamed' /\ InstancesAreOnce'
                                  /\ Torn' \subseteq Torn \/ Tears]_vars
  BY <1>2, <1>3 DEF Agrees
<1> QED
  BY <1>1, <1>2, <1>4, PTL DEF Spec, InstancesAgree

-----------------------------------------------------------------------------
(* What each operation leaves as it is                                     *)

Requests == {"refused", "write", "replace", "execute", "create", "delete"}

LEMMA CustomFrame ==
  ASSUME CustomAction
  PROVE  UNCHANGED <<uses, device, sensors, seen, action, state, locked, held>> /\ out'.operation \notin Requests
<1>1. ASSUME NEW request, iowa_client_add_custom_object(request)
      PROVE  /\ UNCHANGED <<uses, device, sensors, seen, action, state, locked, held>>
             /\ \E code, told : Report("add", code, told)
  BY <1>1, Zenon DEF iowa_client_add_custom_object
<1>2. ASSUME NEW id, iowa_client_remove_custom_object(id)
      PROVE  /\ UNCHANGED <<uses, device, sensors, seen, action, state, locked, held>>
             /\ \E code, told : Report("remove", code, told)
  BY <1>2, Zenon DEF iowa_client_remove_custom_object
<1>3. ASSUME NEW id, InstanceCreated(id) \/ InstanceDeleted(id)
      PROVE  /\ UNCHANGED <<uses, device, sensors, seen, action, state, locked, held>>
             /\ \E code, told : Report("instance", code, told)
  <2>1. CASE InstanceCreated(id)
    BY <2>1, Zenon DEF InstanceCreated
  <2>2. CASE InstanceDeleted(id)
    BY <2>2, Zenon DEF InstanceDeleted
  <2> QED
    BY <1>3, <2>1, <2>2
<1>4. ASSUME NEW id, NEW resource, NEW resInstance, NEW value, ValueChanged(id, resource, resInstance, value)
      PROVE  /\ UNCHANGED <<uses, device, sensors, seen, action, state, locked, held>>
             /\ \E code, told : Report("changed", code, told)
  BY <1>4, Zenon DEF ValueChanged
<1>5. /\ UNCHANGED <<uses, device, sensors, seen, action, state, locked, held>>
      /\ \E code, told : \/ Report("add", code, told) \/ Report("remove", code, told)
                         \/ Report("instance", code, told) \/ Report("changed", code, told)
  BY <1>1, <1>2, <1>3, <1>4, Zenon DEF CustomAction
<1>6. out'.operation \in {"add", "remove", "instance", "changed"}
  BY <1>5, ReportIs
<1> QED
  BY <1>5, <1>6 DEF Requests

LEMMA DeviceFrame ==
  ASSUME NEW update, DeviceUpdated(update)
  PROVE  /\ UNCHANGED <<uses, objectList, app, sensors, seen, action, state, server, held>> /\ device' = update.device
         /\ locked' = (locked /\ update.code # NO_ERROR)
         /\ out'.operation \notin Requests
<1>1. /\ UNCHANGED <<uses, objectList, app, sensors, seen, action, state, server, held>> /\ device' = update.device
      /\ OwnLock(update.code = NO_ERROR)
      /\ Report("device", update.code,
            {Uri(IOWA_LWM2M_DEVICE_OBJECT_ID, LWM2M_SINGLE_OBJECT_INSTANCE_ID, id) : id \in update.told})
  BY Zenon DEF DeviceUpdated
<1>2. out'.operation = "device"
  BY <1>1, ReportIs
<1>3. locked' = (locked /\ update.code # NO_ERROR)
  BY <1>1 DEF OwnLock
<1> QED
  BY <1>1, <1>2, <1>3 DEF Requests

LEMMA SensorFrame ==
  ASSUME SensorAction
  PROVE  /\ UsesSensors /\ UNCHANGED <<uses, app, device, action, state, held>> /\ locked' \in {locked, FALSE}
         /\ out'.operation \notin Requests
<1>1. ASSUME NEW value, iowa_client_IPSO_add_sensor(value)
      PROVE  /\ UsesSensors /\ UNCHANGED <<uses, app, device, action, state, held>> /\ UNCHANGED locked
             /\ \E code, told : Report("sensor", code, told)
  BY <1>1, Zenon DEF iowa_client_IPSO_add_sensor
<1>2. ASSUME NEW id, iowa_client_IPSO_remove_sensor(id)
      PROVE  /\ UsesSensors /\ UNCHANGED <<uses, app, device, action, state, held>> /\ UNCHANGED locked
             /\ \E code, told : Report("sensor", code, told)
  BY <1>2, Zenon DEF iowa_client_IPSO_remove_sensor
<1>3. ASSUME NEW id, NEW value, iowa_client_IPSO_update_value(id, value)
      PROVE  /\ UsesSensors /\ UNCHANGED <<uses, app, device, action, state, held>> /\ (UNCHANGED locked \/ OwnLock(TRUE))
             /\ \E code, told : Report("sensor", code, told)
  BY <1>3, Zenon DEF iowa_client_IPSO_update_value
<1>4. /\ UsesSensors /\ UNCHANGED <<uses, app, device, action, state, held>> /\ (UNCHANGED locked \/ OwnLock(TRUE))
      /\ \E code, told : Report("sensor", code, told)
  BY <1>1, <1>2, <1>3, Zenon DEF SensorAction
<1>5. out'.operation = "sensor"
  BY <1>4, ReportIs
<1>6. OwnLock(TRUE) => locked' = FALSE
  BY DEF OwnLock
<1> QED
  BY <1>4, <1>5, <1>6 DEF Requests

LEMMA RegistrationFrame ==
  ASSUME RegistrationAction
  PROVE  /\ UNCHANGED <<uses, objectList, app, device, sensors, seen, locked, held>>
         /\ action' \in {action, {}} /\ out'.operation \notin Requests
<1> DEFINE Frame == UNCHANGED <<uses, objectList, app, device, sensors, seen, locked, held>> /\ action' \in {action, {}}
           Told(name) == \E code, told : Report(name, code, told)
<1>1. lwm2m_step => Frame /\ Told("step")
  BY Zenon DEF lwm2m_step
<1>2. iowa_step_action => Frame /\ Told("step")
  BY Zenon DEF iowa_step_action
<1>3. Register => Frame /\ Told("step")
  BY Zenon DEF Register
<1>4. prv_handleRegistrationReply => Frame /\ Told("step")
  BY Zenon DEF prv_handleRegistrationReply
<1>5. StepUpdates => Frame /\ Told("update")
  BY Zenon DEF StepUpdates
<1>6. prv_handleRegistrationUpdateReply => Frame /\ Told("step")
  BY Zenon DEF prv_handleRegistrationUpdateReply
<1>7. prv_handleClientUpdateTimer => Frame /\ Told("update")
  BY Zenon DEF prv_handleClientUpdateTimer
<1>8. registration_resetServersStatus => Frame /\ Told("step")
  BY Zenon DEF registration_resetServersStatus
<1>9. prv_sendHearbeat => Frame /\ Told("heartbeat")
  BY Zenon DEF prv_sendHearbeat
<1> HIDE DEF Frame, Told
<1>10. Frame /\ (Told("step") \/ Told("update") \/ Told("heartbeat"))
  BY <1>1, <1>2, <1>3, <1>4, <1>5, <1>6, <1>7, <1>8, <1>9, Zenon DEF RegistrationAction
<1>11. out'.operation \in {"step", "update", "heartbeat"}
  BY <1>10, ReportIs DEF Told
<1> QED
  BY <1>10, <1>11 DEF Frame, Requests

LEMMA LockFrame ==
  ASSUME NEW enter \in BOOLEAN, iowa_client_notification_lock(enter)
  PROVE  /\ UNCHANGED <<uses, objectList, app, device, sensors, seen, action, state, server>>
         /\ locked' = enter /\ held' = enter /\ out'.operation \notin Requests
<1>1. /\ UNCHANGED <<uses, objectList, app, device, sensors, seen, action, state, server>>
      /\ locked' = enter /\ held' = enter /\ Report("lock", NO_ERROR, {})
  BY Zenon DEF iowa_client_notification_lock
<1>2. out'.operation = "lock"
  BY <1>1, ReportIs
<1> QED
  BY <1>1, <1>2 DEF Requests

LEMMA RefuseFrame ==
  ASSUME NEW request, Refuse(request)
  PROVE  UNCHANGED <<uses, objectList, app, device, sensors, seen, action, state, server, locked, held>>
BY Zenon DEF Refuse

LEMMA WriteFrame ==
  ASSUME NEW request, Write(request)
  PROVE  UNCHANGED <<uses, objectList, seen, action, state, server, held>> /\ locked' \in {locked, FALSE}
<1>1. UNCHANGED <<uses, objectList, seen, action, state, server, held>> /\ (UNCHANGED locked \/ \E tells \in BOOLEAN : OwnLock(tells))
  BY Zenon DEF Write
<1>2. ASSUME NEW tells \in BOOLEAN, OwnLock(tells) PROVE locked' = (locked /\ ~tells)
  BY <1>2, Zenon DEF OwnLock
<1> QED
  BY <1>1, <1>2

LEMMA ExecuteFrame ==
  ASSUME NEW request, Execute(request)
  PROVE  UNCHANGED <<uses, objectList, app, state, server, locked, held>>
BY Zenon DEF Execute

LEMMA CreateFrame ==
  ASSUME NEW request, Create(request) \/ Delete(request)
  PROVE  UNCHANGED <<uses, device, sensors, seen, action, state, locked, held>>
<1>1. CASE Create(request)
  BY <1>1, Zenon DEF Create
<1>2. CASE Delete(request)
  BY <1>2, Zenon DEF Delete
<1> QED
  BY <1>1, <1>2

-----------------------------------------------------------------------------
(* The device                                                              *)

GoodDevice(d) ==
  /\ DOMAIN d = {"options", "values", "buffers", "errors", "sources"} /\ DOMAIN d.values = DeviceSingle
  /\ d.errors \subseteq 1..32
  /\ IsSequence(d.sources) /\ Len(d.sources) <= MaxSources

LEMMA StoredIs ==
  ASSUME NEW d, GoodDevice(d), NEW values
  PROVE  GoodDevice(Stored(d, values))
<1> DEFINE f == [id \in DOMAIN d.values |-> IF id \in DOMAIN values THEN values[id] ELSE d.values[id]]
<1>1. Stored(d, values) = [d EXCEPT !.values = f]
  BY DEF Stored, GoodDevice
<1>2. DOMAIN f = DeviceSingle
  BY DEF GoodDevice
<1> HIDE DEF f
<1> QED
  BY <1>1, <1>2 DEF GoodDevice

LEMMA ValuesStored ==
  ASSUME NEW d, GoodDevice(d), NEW values, NEW u,
         \/ \E code : u = Refused(d, code)
         \/ \E told : u = Updated(Stored(d, values), told)
  PROVE  GoodDevice(u.device)
BY StoredIs DEF Refused, Updated

LEMMA BatteryIs ==
  ASSUME NEW d, GoodDevice(d), NEW level, NEW status
  PROVE  GoodDevice(update_battery(d, level, status).device)
<1> DEFINE values == (ID.BATTERY_LEVEL :> level) @@ (ID.BATTERY_STATUS :> status)
<1>1. \/ \E code : update_battery(d, level, status) = Refused(d, code)
      \/ \E told : update_battery(d, level, status) = Updated(Stored(d, values), told)
  BY Zenon DEF update_battery
<1> QED
  BY <1>1, ValuesStored

LEMMA InformationIs ==
  ASSUME NEW d, GoodDevice(d), NEW info
  PROVE  GoodDevice(update_device_information(d, info).device)
<1> DEFINE f(b) == [id \in DeviceText |-> IF id \in DOMAIN info.buffers THEN info.buffers[id] ELSE b[id]]
           u == update_device_information(d, info)
<1>1. PICK e : e = Stored(d, info.values)
  OBVIOUS
<1>2. u.device = [e EXCEPT !.buffers = f(@)]
  BY <1>1 DEF update_device_information, Updated
<1>3. GoodDevice(e)
  BY <1>1, StoredIs
<1> HIDE DEF f, u
<1>4. GoodDevice(u.device)
  BY <1>2, <1>3 DEF GoodDevice
<1> QED
  BY <1>4 DEF u

LEMMA TimeInformationIs ==
  ASSUME NEW d, GoodDevice(d), NEW info
  PROVE  GoodDevice(update_device_time_information(d, info).device)
<1>1. \/ \E code : update_device_time_information(d, info) = Refused(d, code)
      \/ \E known, told : update_device_time_information(d, info) = Updated(Stored(d, known), told)
  BY Zenon DEF update_device_time_information
<1> QED
  BY <1>1, ValuesStored

LEMMA ErrorSet ==
  ASSUME NEW d, GoodDevice(d), NEW code \in ErrorCodes
  PROVE  GoodDevice(set_error_code(d, code).device)
<1> DEFINE errors == IF code = 0 THEN {} ELSE d.errors \cup {code}
           u == set_error_code(d, code)
<1>1. code \in Nat
  BY ManagementAssumption DEF ManagementAssumption
<1>2. \/ \E c : u = Refused(d, c)
      \/ code <= 32 /\ u = Updated([d EXCEPT !.errors = errors], {ID.ERROR_CODE})
  BY <1>1 DEF set_error_code, GoodDevice
<1>3. code <= 32 => errors \in SUBSET (1..32)
  <2>1. d.errors \in SUBSET (1..32)
    BY DEF GoodDevice
  <2>2. code <= 32 /\ code # 0 => code \in 1..32
    BY <1>1
  <2> QED
    BY <2>1, <2>2
<1> HIDE DEF errors, u
<1>4. \/ u.device = d
      \/ code <= 32 /\ u.device = [d EXCEPT !.errors = errors]
  BY <1>2 DEF Refused, Updated
<1>5. GoodDevice(u.device)
  BY <1>3, <1>4 DEF GoodDevice
<1> QED
  BY <1>5 DEF u

LEMMA ErrorCleared ==
  ASSUME NEW d, GoodDevice(d), NEW code
  PROVE  GoodDevice(clear_error_code(d, code).device)
<1> DEFINE errors == d.errors \ {code}
           u == clear_error_code(d, code)
<1>1. \/ \E c : u = Refused(d, c)
      \/ u = Updated([d EXCEPT !.errors = errors], {ID.ERROR_CODE})
  BY DEF clear_error_code, GoodDevice
<1>2. errors \in SUBSET (1..32)
  BY DEF GoodDevice
<1> HIDE DEF errors, u
<1>3. u.device = d \/ u.device = [d EXCEPT !.errors = errors]
  BY <1>1 DEF Refused, Updated
<1>4. GoodDevice(u.device)
  BY <1>2, <1>3 DEF GoodDevice
<1> QED
  BY <1>4 DEF u

LEMMA SourceFound ==
  ASSUME NEW d, GoodDevice(d), NEW id
  PROVE  SourceOf(d, id) = 0 \/ SourceOf(d, id) \in 1..Len(d.sources)
<1>1. PICK list : list = d.sources
  OBVIOUS
<1> DEFINE index == SelectInSeq(list, LAMBDA s : s.id = id)
<1>2. IsSequence(list)
  BY <1>1 DEF GoodDevice
<1>3. \/ index = 0 /\ \A s \in ToSet(list) : s.id # id
      \/ index \in 1..Len(list) /\ list[index] \in ToSet(list) /\ list[index].id = id
  BY <1>2, SensorIndexIs
<1>4. SourceOf(d, id) = index
  BY <1>1 DEF SourceOf
<1> HIDE DEF index
<1> QED
  BY <1>1, <1>3, <1>4

LEMMA SourceAdded ==
  ASSUME NEW d, GoodDevice(d), Len(d.sources) < MaxSources,
         NEW type, NEW voltage, NEW current, NEW fails
  PROVE  GoodDevice(add_power_source(d, type, voltage, current, fails).device)
<1> DEFINE source == [id |-> NewSourceId(d), type |-> type, voltage |-> voltage, current |-> current]
           list == <<source>> \o d.sources
           u == add_power_source(d, type, voltage, current, fails)
<1>1. \/ \E c : u = Refused(d, c)
      \/ u = Updated([d EXCEPT !.sources = list], PowerSource)
  BY DEF add_power_source, GoodDevice
<1> HIDE DEF source, u
<1>2. IsSequence(list) /\ Len(list) = Len(d.sources) + 1
  <2>1. d.sources \in Seq(ToSet(d.sources) \cup {source})
    BY DEF GoodDevice, IsSequence
  <2>2. list \in Seq(ToSet(d.sources) \cup {source}) /\ Len(list) = Len(d.sources) + 1
    BY <2>1, AddHeadProperties
  <2> QED
    BY <2>2, OwnElements
<1> HIDE DEF list
<1>3. Len(list) <= MaxSources
  <2>1. MaxSources \in Nat /\ Len(d.sources) \in Nat
    BY ManagementAssumption, SequenceIs DEF ManagementAssumption, GoodDevice
  <2> QED
    BY <1>2, <2>1
<1>4. u.device = d \/ u.device = [d EXCEPT !.sources = list]
  BY <1>1 DEF Refused, Updated
<1>5. GoodDevice(u.device)
  BY <1>2, <1>3, <1>4 DEF GoodDevice
<1> QED
  BY <1>5 DEF u

LEMMA SourceRemoved ==
  ASSUME NEW d, GoodDevice(d), NEW id
  PROVE  GoodDevice(remove_power_source(d, id).device)
<1> DEFINE list == RemoveAt(d.sources, SourceOf(d, id))
           u == remove_power_source(d, id)
<1>1. \/ \E c : u = Refused(d, c)
      \/ SourceOf(d, id) # 0 /\ u = Updated([d EXCEPT !.sources = list], PowerSource)
  BY DEF remove_power_source, GoodDevice
<1>2. ASSUME SourceOf(d, id) # 0 PROVE IsSequence(list) /\ Len(list) <= MaxSources
  <2>1. SourceOf(d, id) \in 1..Len(d.sources) /\ d.sources \in Seq(ToSet(d.sources))
    BY <1>2, SourceFound DEF GoodDevice, IsSequence
  <2>2. list \in Seq(ToSet(d.sources)) /\ Len(list) = Len(d.sources) - 1
    BY <2>1, RemoveAtProperties
  <2>3. MaxSources \in Nat /\ Len(d.sources) \in Nat /\ Len(d.sources) <= MaxSources
    BY ManagementAssumption, SequenceIs DEF ManagementAssumption, GoodDevice
  <2> HIDE DEF list
  <2> QED
    BY <2>2, <2>3, OwnElements
<1> HIDE DEF list, u
<1>3. u.device = d \/ (SourceOf(d, id) # 0 /\ u.device = [d EXCEPT !.sources = list])
  BY <1>1 DEF Refused, Updated
<1>4. GoodDevice(u.device)
  BY <1>2, <1>3 DEF GoodDevice
<1> QED
  BY <1>4 DEF u

LEMMA SourceUpdated ==
  ASSUME NEW d, GoodDevice(d), NEW id, NEW voltage, NEW current
  PROVE  GoodDevice(update_power_source(d, id, voltage, current).device)
<1> DEFINE index == SourceOf(d, id)
           e == [d EXCEPT !.sources[index].voltage = voltage, !.sources[index].current = current]
           u == update_power_source(d, id, voltage, current)
<1>1. \/ \E c : u = Refused(d, c)
      \/ index # 0 /\ \E told : u = Updated(e, told)
  BY Zenon DEF update_power_source
<1>2. ASSUME index # 0 PROVE GoodDevice(e)
  <2> DEFINE s == [[d.sources[index] EXCEPT !.voltage = voltage] EXCEPT !.current = current]
             list == [d.sources EXCEPT ![index] = s]
             S == ToSet(d.sources) \cup {s}
  <2>1. index \in 1..Len(d.sources) /\ d.sources \in [1..Len(d.sources) -> ToSet(d.sources)] /\ Len(d.sources) \in Nat
    BY <1>2, SourceFound, LenProperties DEF GoodDevice, IsSequence
  <2> HIDE DEF index
  <2>2. e = [d EXCEPT !.sources = list]
    BY <2>1 DEF GoodDevice
  <2> HIDE DEF s
  <2>3. list \in [1..Len(d.sources) -> S]
    BY <2>1
  <2>4. list \in Seq(S) /\ Len(list) = Len(d.sources)
    <3> HIDE DEF list, S
    <3>1. list \in Seq(S) /\ DOMAIN list = 1..Len(d.sources)
      BY <2>1, <2>3
    <3> QED
      BY <2>1, <3>1, LenProperties
  <2>5. IsSequence(list)
    BY <2>4, OwnElements
  <2> HIDE DEF list, e
  <2> QED
    BY <2>2, <2>4, <2>5 DEF GoodDevice
<1> HIDE DEF e, index, u
<1>3. u.device = d \/ (index # 0 /\ u.device = e)
  BY <1>1 DEF Refused, Updated
<1>4. GoodDevice(u.device)
  BY <1>2, <1>3
<1> QED
  BY <1>4 DEF u

LEMMA WriteDevice ==
  ASSUME NEW d, GoodDevice(d), NEW data
  PROVE  GoodDevice(DeviceWrite(d, data).device)
<1> DEFINE of(id) == {n \in DOMAIN data : data[n].resource = id /\ ~TimeRefused(data[n])}
           f == [id \in DOMAIN d.values |-> IF of(id) = {} THEN d.values[id] ELSE data[Max(of(id))].value]
<1>1. DeviceWrite(d, data).device = [d EXCEPT !.values = f]
  BY DEF DeviceWrite, GoodDevice
<1>2. DOMAIN f = DeviceSingle
  BY DEF GoodDevice
<1> HIDE DEF f
<1>3. PICK e : e = [d EXCEPT !.values = f]
  OBVIOUS
<1>4. GoodDevice(e)
  BY <1>2, <1>3 DEF GoodDevice
<1> QED
  BY <1>1, <1>3, <1>4

LEMMA ExecuteDevice ==
  ASSUME NEW d, GoodDevice(d), NEW resource, NEW argument
  PROVE  LET e == DeviceExecute(d, resource, argument) IN
         GoodDevice(e.device) /\ e.action \subseteq {"REBOOT", "FACTORY_RESET"}
<1> DEFINE e == DeviceExecute(d, resource, argument)
<1>1. /\ e.device = d \/ e.device = [d EXCEPT !.errors = {}]
      /\ e.action \in {{}, {"REBOOT"}, {"FACTORY_RESET"}}
  BY DEF DeviceExecute
<1> HIDE DEF e
<1>2. GoodDevice(e.device)
  BY <1>1 DEF GoodDevice
<1>3. e.action \subseteq {"REBOOT", "FACTORY_RESET"}
  BY <1>1
<1> QED
  BY <1>2, <1>3 DEF e

\* Whatever the application updates.
LEMMA DeviceStays ==
  ASSUME GoodDevice(device), DeviceAction
  PROVE  GoodDevice(device') /\ \E update : DeviceUpdated(update)
<1> DEFINE Good == \E update : DeviceUpdated(update) /\ GoodDevice(update.device)
<1>1. iowa_client_device_update_battery => Good
  BY BatteryIs, Zenon DEF iowa_client_device_update_battery
<1>2. iowa_client_set_device_error_code => Good
  BY ErrorSet, Zenon DEF iowa_client_set_device_error_code
<1>3. iowa_client_clear_device_error_code => Good
  BY ErrorCleared, Zenon DEF iowa_client_clear_device_error_code
<1>4. iowa_client_add_device_power_source => Good
  BY SourceAdded, Zenon DEF iowa_client_add_device_power_source
<1>5. iowa_client_remove_device_power_source => Good
  BY SourceRemoved, Zenon DEF iowa_client_remove_device_power_source
<1>6. iowa_client_update_device_power_source => Good
  BY SourceUpdated, Zenon DEF iowa_client_update_device_power_source
<1>7. iowa_client_update_device_information => Good
  BY InformationIs, Zenon DEF iowa_client_update_device_information
<1>8. iowa_client_update_device_time_information => Good
  BY TimeInformationIs, Zenon DEF iowa_client_update_device_time_information
<1>9. Good
  BY <1>1, <1>2, <1>3, <1>4, <1>5, <1>6, <1>7, <1>8, Zenon DEF DeviceAction
<1>10. PICK update : DeviceUpdated(update) /\ GoodDevice(update.device)
  BY <1>9
<1> QED
  BY <1>10, DeviceFrame

-----------------------------------------------------------------------------
(* The values of the application                                           *)

FunctionOf(f) == f = [x \in DOMAIN f |-> f[x]]
GoodInstance(f) == FunctionOf(f) /\ \A r \in DOMAIN f : FunctionOf(f[r])
GoodApp(values) == FunctionOf(values) /\ \A i \in DOMAIN values : GoodInstance(values[i])

LEMMA NoAppIs == GoodApp(<<>>)
  BY DEF GoodApp, FunctionOf

LEMMA HoldingIs ==
  ASSUME NEW values, GoodApp(values), NEW id, NEW new, GoodInstance(new)
  PROVE  GoodApp(Holding(values, id, new))
BY DEF GoodApp, FunctionOf, Holding

LEMMA RestrictedIs ==
  ASSUME NEW values, GoodApp(values), NEW S \in SUBSET DOMAIN values
  PROVE  GoodApp(Restrict(values, S))
BY DEF GoodApp, FunctionOf, Restrict

LEMMA AppWrittenIs ==
  ASSUME NEW values, NEW data
  PROVE  GoodApp(AppWritten(values, data))
BY DEF GoodApp, GoodInstance, FunctionOf, AppWritten

LEMMA AppEmptiedIs ==
  ASSUME NEW values, GoodApp(values), NEW datum
  PROVE  GoodApp(AppEmptied(values, datum))
<1> DEFINE f == [values[datum.instance] EXCEPT ![datum.resource] = <<>>]
<1>1. datum.instance \in DOMAIN values => GoodInstance(f)
  <2>1. FunctionOf(f)
    BY DEF FunctionOf
  <2>2. datum.instance \in DOMAIN values => \A r \in DOMAIN f : FunctionOf(f[r])
    BY DEF GoodApp, GoodInstance, FunctionOf
  <2> QED
    BY <2>1, <2>2 DEF GoodInstance
<1>2. AppEmptied(values, datum) = [values EXCEPT ![datum.instance] = f]
  BY DEF AppEmptied
<1> HIDE DEF f
<1> QED
  BY <1>1, <1>2 DEF GoodApp, FunctionOf

LEMMA NewValuesAre ==
  ASSUME NEW resources
  PROVE  GoodInstance(NewValues(resources))
<1> DEFINE v == CHOOSE v \in Values : TRUE
<1>1. FunctionOf(<<>>) /\ FunctionOf([all \in {ALL} |-> v])
  BY DEF FunctionOf
<1> HIDE DEF v
<1>2. FunctionOf(NewValues(resources))
  BY DEF FunctionOf, NewValues
<1>3. \A r \in DOMAIN NewValues(resources) : NewValues(resources)[r] \in {<<>>, [all \in {ALL} |-> v]}
  BY DEF NewValues, v
<1> QED
  BY <1>1, <1>2, <1>3 DEF GoodInstance

LEMMA AppToldIs ==
  ASSUME NEW values, GoodApp(values), NEW id
  PROVE  /\ GoodApp(AppToldOf(values, <<CreateCall(id)>>))
         /\ GoodApp(AppToldOf(values, <<CreateCall(id), DeleteCall(id)>>))
         /\ id \notin DOMAIN values => AppToldOf(values, <<CreateCall(id), DeleteCall(id)>>) = values
<1> DEFINE new == NewValues(CustomObject.resources)
           more == Holding(values, id, new)
<1>1. AppToldOf(values, <<CreateCall(id)>>) = AppCreated(values, CreateCall(id))
  BY DEF AppToldOf
<1>2. AppToldOf(values, <<CreateCall(id), DeleteCall(id)>>) = AppCreated(AppCreated(values, CreateCall(id)), DeleteCall(id))
  BY DEF AppToldOf
<1>3. AppCreated(values, CreateCall(id)) = more
  BY DEF AppCreated, CreateCall
<1> HIDE DEF more
<1>4. AppCreated(more, DeleteCall(id)) = Restrict(more, DOMAIN more \ {id})
  BY DEF AppCreated, DeleteCall
<1>5. GoodApp(more)
  BY HoldingIs, NewValuesAre DEF more
<1>6. GoodApp(Restrict(more, DOMAIN more \ {id}))
  BY <1>5, RestrictedIs
<1>7. ASSUME id \notin DOMAIN values PROVE Restrict(more, DOMAIN more \ {id}) = values
  <2> HIDE DEF new
  <2>1. DOMAIN more \ {id} = DOMAIN values /\ \A i \in DOMAIN values : more[i] = values[i]
    BY <1>7 DEF more, Holding
  <2>2. Restrict(more, DOMAIN more \ {id}) = [i \in DOMAIN values |-> values[i]]
    BY <2>1 DEF Restrict
  <2> QED
    BY <2>2 DEF GoodApp, FunctionOf
<1> QED
  BY <1>1, <1>2, <1>3, <1>4, <1>5, <1>6, <1>7

LEMMA CustomApp ==
  ASSUME GoodApp(app), CustomAction
  PROVE  GoodApp(app')
<1>1. ASSUME NEW request, iowa_client_add_custom_object(request) PROVE GoodApp(app')
  <2>1. app' = app \/ \E ids : app' = [id \in ids |-> NewValues(request.resources)]
    BY <1>1, Zenon DEF iowa_client_add_custom_object
  <2>2. ASSUME NEW ids, app' = [id \in ids |-> NewValues(request.resources)] PROVE GoodApp(app')
    <3> DEFINE new == NewValues(request.resources)
    <3>1. GoodInstance(new)
      BY NewValuesAre
    <3> HIDE DEF new
    <3>2. app' = [id \in ids |-> new]
      BY <2>2 DEF new
    <3>3. DOMAIN app' = ids /\ \A id \in ids : app'[id] = new
      BY <3>2
    <3>4. FunctionOf(app')
      BY <3>2 DEF FunctionOf
    <3> QED
      BY <3>1, <3>3, <3>4 DEF GoodApp
  <2> QED
    BY <2>1, <2>2
<1>2. ASSUME NEW id, iowa_client_remove_custom_object(id) PROVE GoodApp(app')
  <2>1. app' = app \/ app' = <<>>
    BY <1>2, Zenon DEF iowa_client_remove_custom_object
  <2> QED
    BY <2>1, NoAppIs
<1>3. ASSUME NEW id, InstanceCreated(id) PROVE GoodApp(app')
  <2>1. app' = app \/ app' = Holding(app, id, NewValues(CustomObject.resources))
    BY <1>3, Zenon DEF InstanceCreated
  <2> QED
    BY <2>1, HoldingIs, NewValuesAre
<1>4. ASSUME NEW id, InstanceDeleted(id) PROVE GoodApp(app')
  <2>1. app' = app \/ app' = Restrict(app, DOMAIN app \ {id})
    BY <1>4, Zenon DEF InstanceDeleted
  <2> QED
    BY <2>1, RestrictedIs
<1>5. ASSUME NEW id, NEW resource, NEW resInstance, NEW value, ValueChanged(id, resource, resInstance, value)
      PROVE  GoodApp(app')
  <2> DEFINE f == [app[id] EXCEPT ![resource] = [@ EXCEPT ![resInstance] = value]]
  <2>1. app' = [app EXCEPT ![id] = f] /\ id \in DOMAIN app
    BY <1>5 DEF ValueChanged
  <2>2. GoodInstance(f)
    BY <2>1 DEF GoodApp, GoodInstance, FunctionOf
  <2> HIDE DEF f
  <2> QED
    BY <2>1, <2>2 DEF GoodApp, FunctionOf
<1> QED
  BY <1>1, <1>2, <1>3, <1>4, <1>5, Zenon DEF CustomAction

-----------------------------------------------------------------------------
(* The type of the state                                                   *)

Flags == {"REBOOT", "FACTORY_RESET"}

\* What each owner holds: the application its values, the device its own, a
\* sensor the values it had.
HeldInv ==
  /\ UsesSensors \/ sensors = <<>>
  /\ DOMAIN seen = IdentifiersOf(sensors)
  /\ GoodDevice(device) /\ GoodApp(app)
  /\ action \subseteq Flags
  /\ locked \in BOOLEAN /\ held \in BOOLEAN

TypeInv == OwnedInv /\ ToldInv /\ HeldInv

LEMMA SensorsAre ==
  ASSUME OwnedInv, HeldInv
  PROVE  GoodSensors(sensors)
<1>1. GoodSensors(<<>>)
  BY EmptyList DEF GoodSensors
<1>2. UsesSensors => GoodSensors(sensors)
  BY SensorObjectIs
<1> QED
  BY <1>1, <1>2 DEF HeldInv

\* A sensor that is written, executed or updated keeps its identifier.
LEMMA SensorKept ==
  ASSUME OwnedInv, HeldInv, NEW id, NEW s,
         SensorIndex(id) # 0 => GoodSensor(s) /\ s.id = sensors[SensorIndex(id)].id,
         NEW list, list = With(sensors, SensorIndex(id), s)
  PROVE  IdentifiersOf(list) = IdentifiersOf(sensors) /\ (sensors = <<>> => list = <<>>)
<1>1. GoodSensors(sensors)
  BY SensorsAre
<1>2. SensorIndex(id) = 0 \/ SensorIndex(id) \in 1..Len(sensors)
  BY <1>1, SensorFound
<1> QED
  BY <1>1, <1>2, SensorChanged

LEMMA SensorHeld ==
  ASSUME TypeInv, SensorAction
  PROVE  HeldInv'
<1>1. UsesSensors /\ UNCHANGED <<uses, app, device, action, held>> /\ locked' \in {locked, FALSE}
  BY SensorFrame
<1>2. GoodSensors(sensors)
  BY SensorsAre DEF TypeInv
<1>3. ASSUME NEW value, iowa_client_IPSO_add_sensor(value) PROVE DOMAIN seen' = IdentifiersOf(sensors')
  <2> DEFINE id == NewSensorId(sensors)
             longer == <<NewSensor(id, value, uses.unit, uses.appType, uses.range)>> \o sensors
  <2>1. UNCHANGED <<sensors, seen>> \/ (sensors' = longer /\ \E new : seen' = Holding(seen, id, new))
    BY <1>3, Zenon DEF iowa_client_IPSO_add_sensor
  <2>2. id \notin IdentifiersOf(sensors)
    BY <1>2, NewSensorIs
  <2> HIDE DEF id
  <2>3. IdentifiersOf(longer) = IdentifiersOf(sensors) \cup {id}
    BY <1>2, <2>2, SensorFirst
  <2> HIDE DEF longer
  <2>4. \A new : DOMAIN Holding(seen, id, new) = DOMAIN seen \cup {id}
    BY FromValues
  <2> QED
    BY <2>1, <2>3, <2>4 DEF TypeInv, HeldInv
<1>4. ASSUME NEW id, iowa_client_IPSO_remove_sensor(id) PROVE DOMAIN seen' = IdentifiersOf(sensors')
  <2> DEFINE index == SensorIndex(id)
  <2>1. \/ UNCHANGED <<sensors, seen>>
        \/ index # 0 /\ sensors' = RemoveAt(sensors, index) /\ seen' = Restrict(seen, DOMAIN seen \ {id})
    BY <1>4, Zenon DEF iowa_client_IPSO_remove_sensor
  <2>2. ASSUME index # 0, sensors' = RemoveAt(sensors, index) PROVE IdentifiersOf(sensors') = IdentifiersOf(sensors) \ {id}
    <3>1. index \in 1..Len(sensors) /\ sensors[index] \in ToSet(sensors) /\ sensors[index].id = id
      BY <1>2, <2>2, SensorFound
    <3>2. ToSet(sensors') = ToSet(sensors) \ {sensors[index]}
      <4>1. IsList(sensors)
        BY <1>2 DEF GoodSensors
      <4> QED
        BY <2>2, <3>1, <4>1, Removed
    <3> HIDE DEF index
    <3> QED
      BY <1>2, <3>1, <3>2 DEF GoodSensors, IdentifiersOf
  <2> HIDE DEF index
  <2>3. DOMAIN Restrict(seen, DOMAIN seen \ {id}) = DOMAIN seen \ {id}
    BY FromValues
  <2> QED
    BY <2>1, <2>2, <2>3 DEF TypeInv, HeldInv
<1>5. ASSUME NEW id, NEW value, iowa_client_IPSO_update_value(id, value) PROVE DOMAIN seen' = IdentifiersOf(sensors')
  <2> DEFINE index == SensorIndex(id)
             object == ObjectOf(objectList, uses.type)
             resources == object.instances[object_getInstanceIndex(object, id)].resources
             update == prv_updateResourceValues(sensors[index], resources, value)
  <2>1. \/ UNCHANGED <<sensors, seen>>
        \/ /\ index # 0 /\ sensors' = With(sensors, index, update.sensor)
           /\ seen' = seen \/ seen' = [seen EXCEPT ![id] = Append(@, value)]
    BY <1>5, Zenon DEF iowa_client_IPSO_update_value, With
  <2>2. index # 0 => GoodSensor(sensors[index])
    BY <1>2, SensorFound
  <2> HIDE DEF resources
  <2>3. index # 0 => GoodSensor(update.sensor) /\ update.sensor.id = sensors[index].id
    BY <2>2, UpdateSensor
  <2> HIDE DEF update
  <2>4. sensors' = With(sensors, index, update.sensor) => IdentifiersOf(sensors') = IdentifiersOf(sensors)
    BY <2>3, SensorKept DEF TypeInv
  <2>5. DOMAIN [seen EXCEPT ![id] = Append(@, value)] = DOMAIN seen
    OBVIOUS
  <2> HIDE DEF index
  <2> QED
    BY <2>1, <2>4, <2>5 DEF TypeInv, HeldInv
<1>6. DOMAIN seen' = IdentifiersOf(sensors')
  BY <1>3, <1>4, <1>5, Zenon DEF SensorAction
<1> QED
  BY <1>1, <1>6 DEF TypeInv, HeldInv, UsesSensors

LEMMA WriteHeld ==
  ASSUME TypeInv, NEW request, Write(request)
  PROVE  HeldInv'
<1> DEFINE data == request.data
           written == IpsoWrite(sensors, data).sensors
<1>1. UNCHANGED <<uses, seen, action, held>> /\ locked' \in {locked, FALSE}
  BY WriteFrame
<1>2. \/ UNCHANGED <<app, device, sensors>>
      \/ \E isPartial, refuses, w : /\ w = Written(request, isPartial, refuses)
                                    /\ app' = w.app /\ device' = w.device /\ sensors' = w.sensors
  BY Zenon DEF Write
<1>3. CASE UNCHANGED <<app, device, sensors>>
  BY <1>1, <1>3 DEF TypeInv, HeldInv, UsesSensors
<1>4. ASSUME NEW isPartial, NEW refuses, NEW w, w = Written(request, isPartial, refuses),
             app' = w.app, device' = w.device, sensors' = w.sensors
      PROVE  HeldInv'
  <2>1. GoodApp(EmptiedBy(data, isPartial))
    BY AppEmptiedIs DEF TypeInv, HeldInv, EmptiedBy
  <2>2. /\ w.app = app \/ w.app = EmptiedBy(data, isPartial) \/ w.app = AppWritten(EmptiedBy(data, isPartial), data)
        /\ w.device = device \/ w.device = DeviceWrite(device, data).device
        /\ w.sensors = sensors \/ w.sensors = written
    BY <1>4, WriteIs
  <2>3. GoodApp(w.app)
    BY <2>1, <2>2, AppWrittenIs DEF TypeInv, HeldInv
  <2>4. GoodDevice(w.device)
    BY <2>2, WriteDevice DEF TypeInv, HeldInv
  <2>5. IdentifiersOf(written) = IdentifiersOf(sensors) /\ (sensors = <<>> => written = <<>>)
    <3>1. GoodSensors(sensors)
      BY SensorsAre DEF TypeInv
    <3> QED
      BY <3>1, WriteSensors
  <2> HIDE DEF written, data
  <2>6. IdentifiersOf(w.sensors) = IdentifiersOf(sensors) /\ (sensors = <<>> => w.sensors = <<>>)
    BY <2>2, <2>5
  <2> QED
    BY <1>1, <1>4, <2>3, <2>4, <2>6 DEF TypeInv, HeldInv, UsesSensors
<1> QED
  BY <1>2, <1>3, <1>4

LEMMA ExecuteHeld ==
  ASSUME TypeInv, NEW request, Execute(request)
  PROVE  HeldInv'
<1> DEFINE id == request.uri.instance
           ofDevice == DeviceExecute(device, request.uri.resource, request.argument)
           ofSensor == IpsoExecute(sensors[SensorIndex(id)], request.uri.resource, request.argument)
<1>1. UNCHANGED <<uses, app, locked, held>>
  BY ExecuteFrame
<1>2. \/ UNCHANGED <<device, sensors, seen, action>>
      \/ \E e : /\ e = Executed(request)
                /\ device' = e.device /\ sensors' = e.sensors /\ action' = action \cup e.action
                /\ seen' = seen \/ \E new : seen' = [seen EXCEPT ![id] = new]
  BY Zenon DEF Execute
<1>3. CASE UNCHANGED <<device, sensors, seen, action>>
  BY <1>1, <1>3 DEF TypeInv, HeldInv, UsesSensors
<1>4. ASSUME NEW e, e = Executed(request),
             device' = e.device, sensors' = e.sensors, action' = action \cup e.action,
             seen' = seen \/ \E new : seen' = [seen EXCEPT ![id] = new]
      PROVE  HeldInv'
  <2>1. /\ e.device = device \/ e.device = ofDevice.device
        /\ e.sensors = sensors \/ e.sensors = With(sensors, SensorIndex(id), ofSensor.sensor)
        /\ e.action = {} \/ e.action = ofDevice.action
    BY <1>4, ExecutionIs
  <2>2. GoodDevice(e.device) /\ e.action \subseteq Flags
    BY <2>1, ExecuteDevice DEF TypeInv, HeldInv, Flags
  <2>3. SensorIndex(id) # 0 => GoodSensor(ofSensor.sensor) /\ ofSensor.sensor.id = sensors[SensorIndex(id)].id
    <3>1. GoodSensors(sensors)
      BY SensorsAre DEF TypeInv
    <3> QED
      BY <3>1, SensorFound, ExecuteSensor
  <2>4. DOMAIN seen' = DOMAIN seen
    BY <1>4
  <2> HIDE DEF ofSensor, ofDevice, id
  <2>5. IdentifiersOf(e.sensors) = IdentifiersOf(sensors) /\ (sensors = <<>> => e.sensors = <<>>)
    BY <2>1, <2>3, SensorKept DEF TypeInv
  <2> QED
    BY <1>1, <1>4, <2>2, <2>4, <2>5 DEF TypeInv, HeldInv, UsesSensors
<1> QED
  BY <1>2, <1>3, <1>4

LEMMA CreateHeld ==
  ASSUME TypeInv, NEW request \in uses.requests, Create(request)
  PROVE  HeldInv'
<1>1. UNCHANGED <<uses, device, sensors, seen, action, locked, held>>
  BY CreateFrame
<1>2. GoodApp(app')
  <2>1. CASE UNCHANGED app
    BY <2>1 DEF TypeInv, HeldInv
  <2>2. ASSUME NEW o, NEW c, CreateOf(o, c, request) PROVE GoodApp(app')
    <3>1. /\ Outcome(o, c)
          /\ app' = AppWritten(AppToldOf(app, c.calls), c.data) \/ app' = AppToldOf(app, c.calls)
      BY <2>2, Zenon DEF CreateOf
    <3>2. \/ c.calls = <<>>
          \/ \E id : c.calls = <<CreateCall(id)>> \/ c.calls = <<CreateCall(id), DeleteCall(id)>>
      BY <3>1 DEF Outcome, Creates, Undoes, LeavesOne
    <3>3. GoodApp(AppToldOf(app, c.calls))
      BY <3>2, ToldDomain, AppToldIs DEF TypeInv, HeldInv
    <3> QED
      BY <3>1, <3>3, AppWrittenIs
  <2> QED
    BY <2>1, <2>2, CreateDoes DEF TypeInv
<1> QED
  BY <1>1, <1>2 DEF TypeInv, HeldInv, UsesSensors

LEMMA DeleteHeld ==
  ASSUME TypeInv, NEW request, Delete(request)
  PROVE  HeldInv'
<1>1. UNCHANGED <<uses, device, sensors, seen, action, locked, held>>
  BY CreateFrame
<1>2. app' = app \/ app' = Restrict(app, DOMAIN app \ {request.uri.instance})
  BY Zenon DEF Delete
<1>3. GoodApp(app')
  BY <1>2, RestrictedIs DEF TypeInv, HeldInv
<1> QED
  BY <1>1, <1>3 DEF TypeInv, HeldInv, UsesSensors

LEMMA InitHeld == Init => HeldInv
<1> SUFFICES ASSUME Init PROVE HeldInv
  OBVIOUS
<1>1. /\ device = NewDevice(uses.options, [id \in DeviceSingle |-> 0]) /\ app = <<>> /\ sensors = <<>> /\ seen = <<>>
      /\ action = {} /\ locked = FALSE /\ held = FALSE
  BY DEF Init
<1>2. GoodDevice(device)
  <2>1. MaxSources \in Nat
    BY ManagementAssumption DEF ManagementAssumption
  <2>2. IsSequence(<<>>) /\ Len(<<>>) = 0
    BY EmptyList DEF IsList
  <2> QED
    BY <1>1, <2>1, <2>2 DEF GoodDevice, NewDevice
<1>3. DOMAIN seen = IdentifiersOf(sensors)
  BY <1>1, EmptyList DEF IdentifiersOf
<1> QED
  BY <1>1, <1>2, <1>3, NoAppIs DEF HeldInv

LEMMA NextHeld == TypeInv /\ [Next]_vars => HeldInv'
<1> SUFFICES ASSUME TypeInv, [Next]_vars PROVE HeldInv'
  OBVIOUS
<1>1. CASE CustomAction
  <2>1. UNCHANGED <<uses, device, sensors, seen, action, locked, held>>
    BY <1>1, CustomFrame
  <2>2. GoodApp(app')
    BY <1>1, CustomApp DEF TypeInv, HeldInv
  <2> QED
    BY <2>1, <2>2 DEF TypeInv, HeldInv, UsesSensors
<1>2. CASE DeviceAction
  <2>1. GoodDevice(device') /\ \E update : DeviceUpdated(update)
    BY <1>2, DeviceStays DEF TypeInv, HeldInv
  <2>2. PICK update : DeviceUpdated(update)
    BY <2>1
  <2>3. UNCHANGED <<uses, app, sensors, seen, action, held>> /\ locked' = (locked /\ update.code # NO_ERROR)
    BY <2>2, DeviceFrame
  <2>4. locked' \in BOOLEAN
    BY <2>3
  <2> QED
    BY <2>1, <2>3, <2>4 DEF TypeInv, HeldInv, UsesSensors
<1>3. CASE SensorAction
  BY <1>3, SensorHeld
<1>4. CASE ServerAction
  <2>1. ASSUME NEW request, Refuse(request) PROVE HeldInv'
    BY <2>1, RefuseFrame DEF TypeInv, HeldInv, UsesSensors
  <2> QED
    BY <1>4, <2>1, WriteHeld, ExecuteHeld, CreateHeld, DeleteHeld, Zenon DEF ServerAction
<1>5. CASE RegistrationAction
  <2>1. UNCHANGED <<uses, app, device, sensors, seen, locked, held>> /\ action' \in {action, {}}
    BY <1>5, RegistrationFrame
  <2> QED
    BY <2>1 DEF TypeInv, HeldInv, UsesSensors
<1>6. ASSUME NEW enter \in BOOLEAN, iowa_client_notification_lock(enter) PROVE HeldInv'
  <2>1. UNCHANGED <<uses, app, device, sensors, seen, action>> /\ locked' = enter /\ held' = enter
    BY <1>6, LockFrame
  <2> QED
    BY <2>1 DEF TypeInv, HeldInv, UsesSensors
<1>7. CASE UNCHANGED vars
  BY <1>7 DEF vars, TypeInv, HeldInv, UsesSensors
<1> QED
  BY <1>1, <1>2, <1>3, <1>4, <1>5, <1>6, <1>7, Zenon DEF Next

LEMMA InitTyped == Init => TypeInv
  BY InitOwned, InitTold, InitHeld DEF TypeInv

LEMMA NextTyped ==
  ASSUME Contract
  PROVE  TypeInv /\ [Next]_vars => TypeInv'
BY NextOwned, NextTold, NextHeld DEF TypeInv

LEMMA TypeInvIsType == TypeInv => TypeOK
<1> SUFFICES ASSUME TypeInv PROVE TypeOK
  OBVIOUS
<1>1. GoodList(objectList) /\ Range(objectList) = ToSet(objectList)
  BY DEF TypeInv, OwnedInv, OwnedBy, Range, ToSet
<1>2. IsInjective([i \in DOMAIN objectList |-> objectList[i].objID])
  <2>1. \A i, j \in DOMAIN objectList : objectList[i].objID = objectList[j].objID => i = j
    <3>1. IsList(objectList) /\ \A o, p \in ToSet(objectList) : o.objID = p.objID => o = p
      BY <1>1 DEF GoodList
    <3> QED
      BY <3>1, ListIs
  <2> QED
    BY <2>1 DEF IsInjective
<1>3. ASSUME NEW o \in ToSet(objectList)
      PROVE  /\ o.type \in {"single", "multiple", "advanced"} /\ InstancesOf(o) \subseteq 0..(ALL - 1)
             /\ IsInjective([i \in DOMAIN o.resources |-> o.resources[i].id])
  <2>1. Fit(o) /\ InstancesOf(o) = IdentifiersOf(o.instances)
    BY InstancesAre DEF TypeInv, OwnedInv, OwnedBy
  <2>2. o.type \in {"single", "multiple", "advanced"} /\ InstancesOf(o) \subseteq 0..(ALL - 1)
    BY <2>1 DEF Fit, Types
  <2>3. \A i, j \in DOMAIN o.resources : o.resources[i].id = o.resources[j].id => i = j
    BY <2>1 DEF Fit, Described
  <2>4. IsInjective([i \in DOMAIN o.resources |-> o.resources[i].id])
    BY <2>3 DEF IsInjective
  <2> QED
    BY <2>2, <2>4
<1>4. DOMAIN seen = {sensors[i].id : i \in DOMAIN sensors}
  BY DEF TypeInv, HeldInv, IdentifiersOf, ToSet
<1>5. device.errors \subseteq 1..32 /\ Len(device.sources) <= MaxSources /\ action \subseteq {"REBOOT", "FACTORY_RESET"}
      /\ locked \in BOOLEAN /\ held \in BOOLEAN
  BY DEF TypeInv, HeldInv, GoodDevice, Flags
<1>6. /\ state \in {"INITIAL", "DEVICE_MANAGEMENT"}
      /\ server.status \in {"DISCONNECTED", "REGISTERING", "REGISTERED", "UPDATE_PENDING"}
      /\ server.update \in BOOLEAN /\ server.objects \in BOOLEAN
  BY DEF TypeInv, ToldInv, GoodServer, Statuses
<1> QED
  BY <1>1, <1>2, <1>3, <1>4, <1>5, <1>6 DEF TypeOK

\* The Objects of the list have each their own identifier and their Resources
\* too, no Instance has the one that stands for all, the device has the error
\* codes there are, and each sensor has its own values, whatever the
\* application and the Servers do (prv_customObjectAdd, prv_create,
\* objectDeviceInit, prv_ipsoObjectCallback).
THEOREM StateHasItsType == ASSUME Contract PROVE Spec => []TypeOK
<1>1. Init => TypeInv
  BY InitTyped
<1>2. TypeInv /\ [Next]_vars => TypeInv'
  BY NextTyped
<1>3. TypeInv => TypeOK
  BY TypeInvIsType
<1> QED
  BY <1>1, <1>2, <1>3, PTL DEF Spec

-----------------------------------------------------------------------------
(* What a write changes                                                    *)

\* No datum of a payload that is let through has an error.
LEMMA FirstErrorIs ==
  ASSUME NEW codes, IsSequence(codes), FirstError(codes) = NO_ERROR
  PROVE  \A i \in DOMAIN codes : codes[i] = NO_ERROR
<1> DEFINE A == {i \in 1..Len(codes) : codes[i] # NO_ERROR}
           index == SelectInSeq(codes, LAMBDA c : c # NO_ERROR)
<1>1. index = IF A # {} THEN Min(A) ELSE 0
  BY DEF SelectInSeq
<1>2. A \in SUBSET (1..Len(codes)) /\ Len(codes) \in Nat /\ DOMAIN codes = 1..Len(codes)
  BY SequenceIs
<1>3. A # {} => Min(A) \in A
  <2> HIDE DEF A
  <2> QED
    BY <1>2, FirstOf
<1>4. IF index = 0 THEN TRUE ELSE codes[index] = NO_ERROR
  BY DEF FirstError
<1> HIDE DEF index
<1>5. A # {} => index \in A
  <2> HIDE DEF A
  <2> QED
    BY <1>1, <1>3
<1>6. A = {}
  <2>1. \A i \in A : i # 0 /\ codes[i] # NO_ERROR
    BY <1>2
  <2> HIDE DEF A
  <2> QED
    BY <1>4, <1>5, <2>1
<1> QED
  BY <1>2, <1>6

LEMMA ResourceIndexIs ==
  ASSUME NEW o, IsSequence(o.resources), NEW instIndex, NEW id, NEW index,
         index = prv_getResourceIndex(o, instIndex, id), index # 0
  PROVE  index \in DOMAIN o.resources /\ o.resources[index].id = id
<1>1. PICK list : list = o.resources
  OBVIOUS
<1> DEFINE place == SelectInSeq(list, LAMBDA s : s.id = id)
<1>2. index = place
  BY <1>1 DEF prv_getResourceIndex
<1>3. IsSequence(list)
  BY <1>1
<1>4. \/ place = 0 /\ \A s \in ToSet(list) : s.id # id
      \/ place \in 1..Len(list) /\ list[place] \in ToSet(list) /\ list[place].id = id
  BY <1>3, SensorIndexIs
<1> HIDE DEF place
<1>5. DOMAIN list = 1..Len(list)
  BY <1>3, SequenceIs
<1> QED
  BY <1>1, <1>2, <1>4, <1>5

\* What a write names in an Object can be written.
LEMMA PayloadIs ==
  ASSUME NEW o, IsSequence(o.resources), NEW data, IsSequence(data),
         object_checkWritePayload(o, data) = NO_ERROR, NEW n \in DOMAIN data
  PROVE  /\ \E index \in DOMAIN o.resources :
              o.resources[index].id = data[n].resource /\ IS_RSC_WRITABLE(o.resources[index])
         /\ object_getInstanceIndex(o, data[n].instance) # 0
<1> DEFINE inst(datum) == object_getInstanceIndex(o, datum.instance)
           place(datum) == prv_getResourceIndex(o, inst(datum), datum.resource)
           check(datum) == IF inst(datum) = 0 \/ place(datum) = 0 THEN NOT_FOUND
                           ELSE IF ~IS_RSC_WRITABLE(o.resources[place(datum)]) THEN METHOD_NOT_ALLOWED
                           ELSE prv_checkDataConsistency(datum, o.resources[place(datum)])
           codes == [i \in DOMAIN data |-> check(data[i])]
<1>1. BAD_REQUEST # NO_ERROR /\ NOT_FOUND # NO_ERROR /\ METHOD_NOT_ALLOWED # NO_ERROR
  BY DEF BAD_REQUEST, NOT_FOUND, METHOD_NOT_ALLOWED, NO_ERROR
<1>2. FirstError(codes) = NO_ERROR
  BY <1>1, Zenon DEF object_checkWritePayload
<1>3. \A datum : check(datum) = NO_ERROR =>
        inst(datum) # 0 /\ place(datum) # 0 /\ IS_RSC_WRITABLE(o.resources[place(datum)])
  BY <1>1, Zenon
<1> HIDE DEF check
<1>4. IsSequence(codes) /\ DOMAIN codes = DOMAIN data
  <2> DEFINE S == {check(data[i]) : i \in DOMAIN data}
  <2>1. Len(data) \in Nat /\ DOMAIN data = 1..Len(data)
    BY SequenceIs
  <2>2. codes \in [1..Len(data) -> S]
    BY <2>1
  <2>3. codes \in Seq(S)
    <3> HIDE DEF S, codes
    <3> QED
      BY <2>1, <2>2
  <2> HIDE DEF S
  <2> QED
    BY <2>3, OwnElements
<1>5. check(data[n]) = NO_ERROR
  <2>1. codes[n] = check(data[n])
    OBVIOUS
  <2> HIDE DEF codes
  <2> QED
    BY <1>2, <1>4, <2>1, FirstErrorIs
<1>6. inst(data[n]) # 0 /\ place(data[n]) # 0 /\ IS_RSC_WRITABLE(o.resources[place(data[n])])
  BY <1>3, <1>5
<1>7. PICK index : index = place(data[n])
  OBVIOUS
<1>8. index \in DOMAIN o.resources /\ o.resources[index].id = data[n].resource
  BY <1>6, <1>7, ResourceIndexIs
<1> HIDE DEF place
<1> QED
  BY <1>6, <1>7, <1>8

LEMMA DeviceWritableIs ==
  ASSUME NEW options, NEW index \in DOMAIN DeviceResources(options),
         IS_RSC_WRITABLE(DeviceResources(options)[index])
  PROVE  DeviceResources(options)[index].id \in DeviceWritable
<1> DEFINE ids == DeviceIds(options)
<1>1. DeviceResources(options) = [i \in DOMAIN ids |-> DeviceDescriptor(ids[i])]
  BY DEF DeviceResources
<1> HIDE DEF ids
<1>2. DeviceResources(options)[index] = DeviceDescriptor(ids[index])
  BY <1>1
<1>3. \A id : /\ DeviceDescriptor(id).id = id
              /\ "WRITE" \in DeviceDescriptor(id).operations => id \in DeviceWritable
  BY DEF DeviceDescriptor
<1> QED
  BY <1>2, <1>3 DEF IS_RSC_WRITABLE

\* A write to the device changes what can be written only.
LEMMA DeviceWriteIs ==
  ASSUME NEW d, GoodDevice(d), NEW data, \A n \in DOMAIN data : data[n].resource \in DeviceWritable,
         NEW e, e = DeviceWrite(d, data).device
  PROVE  /\ \A id \in DeviceSingle : e.values[id] # d.values[id] => id \in DeviceWritable
         /\ e = [d EXCEPT !.values = e.values]
<1> DEFINE of(id) == {n \in DOMAIN data : data[n].resource = id /\ ~TimeRefused(data[n])}
           f == [id \in DOMAIN d.values |-> IF of(id) = {} THEN d.values[id] ELSE data[Max(of(id))].value]
<1>1. e = [d EXCEPT !.values = f]
  BY DEF DeviceWrite, GoodDevice
<1>2. \A id : of(id) # {} => id \in DeviceWritable
  OBVIOUS
<1>3. \A id \in DeviceSingle : of(id) = {} => f[id] = d.values[id]
  BY DEF GoodDevice
<1> HIDE DEF f, of
<1>4. e.values = f
  BY <1>1 DEF GoodDevice
<1> QED
  BY <1>1, <1>2, <1>3, <1>4

LEMMA DeviceCode ==
  ASSUME NEW d, NEW data
  PROVE  DeviceWrite(d, data).code \in {NO_ERROR, BAD_REQUEST}
BY DEF DeviceWrite

LEMMA SameSensor ==
  ASSUME OwnedInv, HeldInv, NEW id
  PROVE  With(sensors, SensorIndex(id), sensors[SensorIndex(id)]) = sensors
<1>1. GoodSensors(sensors)
  BY SensorsAre
<1>2. sensors \in [1..Len(sensors) -> ToSet(sensors)]
  BY <1>1, LenProperties DEF GoodSensors, IsList, IsSequence
<1> QED
  BY <1>2 DEF With

\* The values once a Resource is emptied: no others, or those without it.
LEMMA EmptiedIs ==
  ASSUME GoodApp(app), NEW datum
  PROVE  \/ AppEmptied(app, datum) = app
         \/ \E i \in DOMAIN app : \E r \in DOMAIN app[i] : AppEmptied(app, datum) = [app EXCEPT ![i][r] = <<>>]
<1> DEFINE i == datum.instance
           r == datum.resource
<1>1. AppEmptied(app, datum) = [app EXCEPT ![i][r] = <<>>]
  BY DEF AppEmptied
<1>2. CASE i \notin DOMAIN app
  <2>1. [app EXCEPT ![i][r] = <<>>] = app
    BY <1>2 DEF GoodApp, FunctionOf
  <2> QED
    BY <1>1, <2>1
<1>3. CASE i \in DOMAIN app /\ r \notin DOMAIN app[i]
  <2>1. [app[i] EXCEPT ![r] = <<>>] = app[i]
    BY <1>3 DEF GoodApp, GoodInstance, FunctionOf
  <2>2. [app EXCEPT ![i] = app[i]] = app
    BY <1>3 DEF GoodApp, FunctionOf
  <2>3. [app EXCEPT ![i][r] = <<>>] = [app EXCEPT ![i] = [app[i] EXCEPT ![r] = <<>>]]
    OBVIOUS
  <2> QED
    BY <1>1, <2>1, <2>2, <2>3
<1>4. CASE i \in DOMAIN app /\ r \in DOMAIN app[i]
  BY <1>1, <1>4
<1> QED
  BY <1>2, <1>3, <1>4
=============================================================================
