---------------------------- MODULE ChangeProofs ----------------------------
(***************************************************************************)
(* Proofs that a value that changes is told, that a sensor measures the    *)
(* values it had and that a refused request changes nothing, for any       *)
(* Objects, calls, requests, faults and bounds, with the exceptions that   *)
(* the properties name.                                                    *)
(*                                                                         *)
(* To be told, a Resource must be found in its Object and readable there:  *)
(* the inductive invariant says which Resources each Instance has, its     *)
(* own for a sensor and those of the Object for the others, that the       *)
(* device stays, and that its sources have each their own identifier.      *)
(* With it, the counter and the extremes of each sensor are an invariant,  *)
(* and a write to a sensor that its Object lets through is accepted.       *)
(***************************************************************************)
EXTENDS ManagementProofs

Device == IOWA_LWM2M_DEVICE_OBJECT_ID

-----------------------------------------------------------------------------
(* The Resources of an Instance                                            *)

\* Every Instance of the Object has the Resources R, NULL for those of the Object.
Uniform(o, R) == \A i \in ToSet(o.instances) : i.resources = R

LEMMA UniformAdded ==
  ASSUME NEW o, Fit(o), NEW R, Uniform(o, R), NEW id, NEW fails,
         NEW added, added = prv_addInstance(o, id, R, fails)
  PROVE  Uniform(added.object, R)
<1> DEFINE i == [id |-> id, resources |-> R]
           p == [o EXCEPT !.instances = Append(@, i)]
<1>1. CASE object_getInstanceIndex(o, id) # 0 \/ fails
  BY <1>1 DEF prv_addInstance
<1>2. CASE object_getInstanceIndex(o, id) = 0 /\ ~fails
  <2>1. added.object = p
    BY <1>2 DEF prv_addInstance
  <2>2. object_getInstanceIndex(o, id) \notin 1..Len(o.instances)
    BY <1>2
  <2>3. id = ALL \/ id \notin IdentifiersOf(o.instances)
    BY <2>2, InstanceIndexIs DEF Fit
  <2>4. ALL \notin 0..(ALL - 1)
    BY AllIsNone
  <2>5. i.id = id /\ i.resources = R
    OBVIOUS
  <2> HIDE DEF i
  <2>6. i \notin ToSet(o.instances)
    BY <2>3, <2>4, <2>5 DEF Fit, IdentifiersOf
  <2>7. ToSet(Append(o.instances, i)) = ToSet(o.instances) \cup {i}
    BY <2>6, AddedLast DEF Fit, GoodObject
  <2>8. p.instances = Append(o.instances, i)
    BY DEF Fit, GoodObject
  <2> HIDE DEF p
  <2> QED
    BY <2>1, <2>5, <2>7, <2>8 DEF Uniform
<1> QED
  BY <1>1, <1>2

LEMMA UniformRemoved ==
  ASSUME NEW o, Fit(o), NEW R, Uniform(o, R), NEW id, id # ALL, NEW fails,
         NEW removed, removed = prv_removeInstance(o, id, fails)
  PROVE  Uniform(removed.object, R)
<1> DEFINE index == object_getInstanceIndex(o, id)
           p == [o EXCEPT !.instances = RemoveAt(@, index)]
<1>1. CASE index = 0 \/ removed.object = o
  BY <1>1 DEF prv_removeInstance
<1>2. CASE index # 0 /\ removed.object # o
  <2>1. removed.object = p
    BY <1>2 DEF prv_removeInstance
  <2>2. index \in 1..Len(o.instances)
    BY <1>2, InstanceIndexIs DEF Fit
  <2> HIDE DEF index
  <2>3. ToSet(RemoveAt(o.instances, index)) \subseteq ToSet(o.instances)
    BY <2>2, Removed DEF Fit, GoodObject
  <2>4. p.instances = RemoveAt(o.instances, index)
    BY DEF Fit, GoodObject
  <2> HIDE DEF p
  <2> QED
    BY <2>1, <2>3, <2>4 DEF Uniform
<1> QED
  BY <1>1, <1>2

LEMMA UniformCreated ==
  ASSUME NEW o, Fit(o), Uniform(o, NULL), NEW data, NEW accepts, NEW written, NEW fails,
         NEW c, c = object_create(o, data, accepts, written, fails)
  PROVE  Uniform(c.object, NULL)
<1>1. CASE c.code # CREATED
  BY <1>1, RefusedCreate
<1>2. CASE c.code = CREATED
  <2>1. c.object = o \/ \E id : c.object = prv_addInstance(o, id, NULL, fails).object
    <3> DEFINE known == prv_adaptCreatePayload(o, data).data
               result == prv_create(o, data, known, accepts, written, fails)
    <3>1. c.object = o \/ c = result
      BY DEF object_create
    <3>2. result.object = o \/ result.object = prv_addInstance(o, AddedId(o, data, known), NULL, fails).object
      BY DEF prv_create
    <3> HIDE DEF result
    <3> QED
      BY <3>1, <3>2
  <2>2. ASSUME NEW id, c.object = prv_addInstance(o, id, NULL, fails).object PROVE Uniform(c.object, NULL)
    <3>1. PICK added, R : R = NULL /\ added = prv_addInstance(o, id, R, fails)
      OBVIOUS
    <3>2. Uniform(added.object, R)
      BY <3>1, UniformAdded
    <3> QED
      BY <2>2, <3>1, <3>2
  <2> QED
    BY <2>1, <2>2
<1> QED
  BY <1>1, <1>2

LEMMA UniformDeleted ==
  ASSUME NEW o, Fit(o), NEW R, Uniform(o, R), NEW id, NEW accepts, NEW fails,
         NEW d, d = object_delete(o, id, accepts, fails)
  PROVE  Uniform(d.object, R)
<1>1. CASE d.code # DELETED
  BY <1>1, RefusedDelete
<1>2. CASE d.object = o
  BY <1>2
<1>3. CASE d.object # o
  <2>1. object_getInstanceIndex(o, id) # 0 /\ d.object = prv_removeInstance(o, id, fails).object
    BY <1>3 DEF object_delete
  <2>2. id # ALL
    BY <2>1 DEF object_getInstanceIndex
  <2>3. PICK removed : removed = prv_removeInstance(o, id, fails)
    OBVIOUS
  <2> QED
    BY <2>1, <2>2, <2>3, UniformRemoved
<1> QED
  BY <1>2, <1>3

-----------------------------------------------------------------------------
(* The Objects and their Resources                                         *)

\* The Resources of its own an Instance of the Object id has, in the case u.
Own(u, id) ==
  IF u.kind = "sensors" /\ id = u.type
  THEN prv_getResourceList(u.type, u.range, u.unit # NULL, u.appType # NULL) ELSE NULL

Shaped(u, o) ==
  /\ o.objID \in {Device, IF u.kind = "sensors" THEN u.type ELSE CustomId}
  /\ Uniform(o, Own(u, o.objID))
  /\ o.objID = Device => IdentifiersOf(o.instances) = {LWM2M_SINGLE_OBJECT_INSTANCE_ID} /\ o.type = "single"
  /\ u.kind = "sensors" /\ o.objID = u.type => o.resources = prv_getResourceDesc(u.type)

ShapedList(u, list) ==
  /\ \A o \in ToSet(list) : Shaped(u, o)
  /\ \E o \in ToSet(list) : o.objID = Device

ShapedInv == ShapedList(uses, objectList)

LEMMA ShapedAdded ==
  ASSUME NEW u, NEW list, ShapedList(u, list), NEW a, Shaped(u, a),
         NEW longer, ToSet(longer) = ToSet(list) \cup {a}
  PROVE  ShapedList(u, longer)
BY DEF ShapedList

LEMMA ShapedTaken ==
  ASSUME NEW u, NEW list, ShapedList(u, list), NEW o, o.objID # Device,
         NEW shorter, ToSet(shorter) = ToSet(list) \ {o}
  PROVE  ShapedList(u, shorter)
BY DEF ShapedList

LEMMA ShapedChanged ==
  ASSUME NEW u, NEW list, GoodList(list), ShapedList(u, list), NEW o \in ToSet(list), NEW p, GoodObject(p),
         p.objID = o.objID, Shaped(u, p)
  PROVE  ShapedList(u, With(list, ObjectIndex(list, p.objID), p))
<1>1. ToSet(With(list, ObjectIndex(list, p.objID), p)) = (ToSet(list) \ {o}) \cup {p}
  BY ObjectChanged
<1> QED
  BY <1>1 DEF ShapedList

\* An Object that becomes another one.
LEMMA ChangeShaped ==
  ASSUME OwnedInv, ShapedInv, UNCHANGED uses, NEW o \in ToSet(objectList), NEW p, Fit(p), p.objID = o.objID,
         Shaped(uses, p), objectList' = ObjectBecomes(p)
  PROVE  ShapedInv'
<1>1. ShapedList(uses, With(objectList, ObjectIndex(objectList, p.objID), p))
  BY ShapedChanged DEF ShapedInv, OwnedInv, OwnedBy, Fit
<1>2. objectList' = With(objectList, ObjectIndex(objectList, p.objID), p)
  BY DEF ObjectBecomes, With
<1> QED
  BY <1>1, <1>2 DEF ShapedInv

LEMMA SameShape ==
  ASSUME ShapedInv, UNCHANGED <<uses, objectList>>
  PROVE  ShapedInv'
BY DEF ShapedInv

\* The application's own Object is neither the device nor that of the sensors.
LEMMA CustomHasNone ==
  ASSUME OwnedInv
  PROVE  /\ Own(uses, CustomId) = NULL /\ CustomId # Device
         /\ uses.kind = "sensors" => uses.type # CustomId /\ uses.type # Device
         /\ \A o : Shaped(uses, o) /\ o.objID = CustomId => Uniform(o, NULL)
         /\ \A o : Shaped(uses, o) /\ o.objID = CustomId => uses.kind # "sensors"
         /\ \A o : Uniform(o, NULL) /\ o.objID = CustomId /\ uses.kind # "sensors" => Shaped(uses, o)
<1>1. /\ CustomId # Device
      /\ uses.kind = "sensors" => uses.type # CustomId /\ uses.type # Device
  BY CustomIsNotDevice, SensorObjectIs DEF Device, UsesSensors
<1>2. Own(uses, CustomId) = NULL
  BY <1>1 DEF Own
<1> QED
  BY <1>1, <1>2 DEF Shaped

LEMMA NewIsUniform ==
  ASSUME NEW request, GoodObject(NewObject(request))
  PROVE  Uniform(AsAdded(NewObject(request)), NULL)
<1>1. PICK o : o = NewObject(request)
  OBVIOUS
<1>2. o.instances = [i \in DOMAIN request.instanceIDs |-> [id |-> request.instanceIDs[i], resources |-> NULL]]
  BY <1>1 DEF NewObject
<1>3. Uniform(o, NULL)
  <2>1. \A i \in DOMAIN o.instances : o.instances[i].resources = NULL
    BY <1>2
  <2> QED
    BY <2>1 DEF Uniform, ToSet
<1>4. AsAdded(o) = o \/ AsAdded(o) = [o EXCEPT !.instances = <<[id |-> LWM2M_SINGLE_OBJECT_INSTANCE_ID, resources |-> NULL]>>]
  BY DEF AsAdded
<1>5. PICK i : i = [id |-> LWM2M_SINGLE_OBJECT_INSTANCE_ID, resources |-> NULL]
  OBVIOUS
<1>6. PICK a : a = [o EXCEPT !.instances = <<i>>]
  OBVIOUS
<1>7. a.instances = <<i>>
  BY <1>1, <1>6 DEF GoodObject
<1>8. ToSet(a.instances) = {i}
  BY <1>7, OneElement
<1>9. Uniform(a, NULL)
  BY <1>5, <1>8 DEF Uniform
<1> QED
  BY <1>1, <1>3, <1>4, <1>5, <1>6, <1>9

LEMMA AddShaped ==
  ASSUME Contract, OwnedInv, ShapedInv, NEW request \in AddRequests, iowa_client_add_custom_object(request)
  PROVE  ShapedInv'
<1> DEFINE new == NewObject(request)
           a == AsAdded(new)
<1>1. UNCHANGED uses /\ uses.kind # "sensors"
  BY DEF iowa_client_add_custom_object
<1>2. PICK fails \in Fails :
        \/ UNCHANGED <<objectList, server, app>>
        \/ /\ AddCheck(request) = NO_ERROR /\ customObjectAdd(objectList, new, fails).code = NO_ERROR
           /\ ListBecomes(customObjectAdd(objectList, new, fails).list)
  BY Zenon DEF iowa_client_add_custom_object
<1>3. CASE UNCHANGED objectList
  BY <1>1, <1>3, SameShape
<1>4. CASE ~UNCHANGED objectList
  <2>1. /\ AddCheck(request) = NO_ERROR /\ customObjectAdd(objectList, new, fails).code = NO_ERROR
        /\ objectList' = customObjectAdd(objectList, new, fails).list
    BY <1>2, <1>4 DEF ListBecomes
  <2>2. request.objectID = CustomId
    BY <2>1, AddCheckIs
  <2>3. /\ request.instanceIDs \in Seq(Ids) /\ request.instanceCb \in BOOLEAN
        /\ IsInjective(request.instanceIDs)
    BY ManagementAssumption DEF ManagementAssumption, Contract
  <2>4. GoodObject(new) /\ new.objID = CustomId
    BY <2>2, <2>3, NewObjectIs
  <2>5. Uniform(a, NULL)
    BY <2>4, NewIsUniform
  <2> HIDE DEF new
  <2>6. GoodObject(a) /\ a.objID = CustomId
    BY <2>4, AsAddedIs
  <2>7. ToSet(objectList') = ToSet(objectList) \cup {a}
    <3>1. PICK longer : longer = customObjectAdd(objectList, new, fails).list
      OBVIOUS
    <3>2. ToSet(longer) = ToSet(objectList) \cup {a}
      BY <2>1, <2>4, <3>1, ObjectAdded DEF OwnedInv, OwnedBy
    <3> QED
      BY <2>1, <3>1, <3>2
  <2> HIDE DEF a
  <2>8. Shaped(uses, a)
    BY <1>1, <2>5, <2>6, CustomHasNone
  <2>9. ShapedList(uses, objectList')
    BY <2>7, <2>8, ShapedAdded DEF ShapedInv
  <2> QED
    BY <1>1, <2>9 DEF ShapedInv
<1> QED
  BY <1>3, <1>4

LEMMA RemoveShaped ==
  ASSUME OwnedInv, ShapedInv, NEW id \in {CustomId} \cup Reserved \cup {ALL}, iowa_client_remove_custom_object(id)
  PROVE  ShapedInv'
<1> DEFINE shorter == customObjectRemove(objectList, id).list
<1>1. UNCHANGED uses
  BY DEF iowa_client_remove_custom_object
<1>2. \/ UNCHANGED <<objectList, server, app>>
      \/ /\ CheckObjectId(id) = NO_ERROR /\ customObjectRemove(objectList, id).code = NO_ERROR
         /\ ListBecomes(shorter)
  BY Zenon DEF iowa_client_remove_custom_object
<1>3. CASE UNCHANGED objectList
  BY <1>1, <1>3, SameShape
<1>4. CASE ~UNCHANGED objectList
  <2>1. /\ CheckObjectId(id) = NO_ERROR /\ customObjectRemove(objectList, id).code = NO_ERROR
        /\ objectList' = shorter
    BY <1>2, <1>4 DEF ListBecomes
  <2>2. id = CustomId
    BY <2>1 DEF CheckObjectId, NO_ERROR, FORBIDDEN, NOT_ACCEPTABLE
  <2>3. PICK o \in ToSet(objectList) : o.objID = id /\ ToSet(shorter) = ToSet(objectList) \ {o}
    BY <2>1, ObjectTaken DEF OwnedInv, OwnedBy
  <2> HIDE DEF shorter
  <2>4. o.objID # Device
    BY <2>2, <2>3, CustomHasNone
  <2>5. ShapedList(uses, shorter)
    BY <2>3, <2>4, ShapedTaken DEF ShapedInv
  <2> QED
    BY <1>1, <2>1, <2>5 DEF ShapedInv
<1> QED
  BY <1>3, <1>4

LEMMA CreatedShaped ==
  ASSUME Contract, OwnedInv, ShapedInv, NEW id \in InstanceIds, InstanceCreated(id)
  PROVE  ShapedInv'
<1> DEFINE o == CustomObject
<1>1. HasCustom /\ UNCHANGED uses /\ uses.kind # "sensors"
  BY DEF InstanceCreated
<1>2. PICK fails \in Fails :
        \/ UNCHANGED <<objectList, server, app>>
        \/ /\ objectAddInstance(o, id, <<>>, fails).code = NO_ERROR
           /\ ListBecomes(ObjectBecomes(objectAddInstance(o, id, <<>>, fails).object))
  BY Zenon DEF InstanceCreated
<1>3. CASE UNCHANGED objectList
  BY <1>1, <1>3, SameShape
<1>4. CASE ~UNCHANGED objectList
  <2>1. PICK added : added = objectAddInstance(o, id, <<>>, fails)
    OBVIOUS
  <2>2. added.code = NO_ERROR /\ objectList' = ObjectBecomes(added.object)
    BY <1>2, <1>4, <2>1 DEF ListBecomes
  <2>3. o \in ToSet(objectList) /\ o.objID = CustomId /\ Fit(o)
    BY <1>1, CustomIs
  <2>4. Uniform(o, NULL)
    BY <2>3, CustomHasNone DEF ShapedInv, ShapedList
  <2> HIDE DEF o
  <2>5. added = prv_addInstance(o, id, NULL, fails) /\ o.type # "single"
    BY <2>1, <2>2, <2>3 DEF objectAddInstance, Fit, Types, METHOD_NOT_ALLOWED, NOT_ACCEPTABLE, NO_ERROR
  <2>6. Uniform(added.object, NULL)
    BY <2>3, <2>4, <2>5, UniformAdded
  <2>7. Fit(added.object) /\ added.object.objID = o.objID
    <3>1. id \in 0..(ALL - 1) /\ fails \in BOOLEAN
      BY InstanceIsNamed DEF Fails
    <3>2. OneMore(o, added.object, id)
      BY <2>2, <2>3, <2>5, <3>1, AddedInstance
    <3> QED
      BY <3>2 DEF OneMore
  <2>8. Shaped(uses, added.object)
    BY <1>1, <2>3, <2>6, <2>7, CustomHasNone
  <2> QED
    BY <1>1, <2>2, <2>3, <2>7, <2>8, ChangeShaped
<1> QED
  BY <1>3, <1>4

LEMMA DeletedShaped ==
  ASSUME Contract, OwnedInv, ShapedInv, NEW id \in InstanceIds, InstanceDeleted(id)
  PROVE  ShapedInv'
<1> DEFINE o == CustomObject
<1>1. HasCustom /\ UNCHANGED uses /\ uses.kind # "sensors"
  BY DEF InstanceDeleted
<1>2. PICK fails, removed :
        /\ removed = prv_removeInstance(o, id, fails)
        /\ \/ UNCHANGED <<objectList, server, app>>
           \/ removed.code = NO_ERROR /\ ListBecomes(ObjectBecomes(removed.object))
  BY Zenon DEF InstanceDeleted
<1>3. \/ UNCHANGED <<objectList, server, app>>
      \/ removed.code = NO_ERROR /\ ListBecomes(ObjectBecomes(removed.object))
  BY <1>2
<1>4. CASE UNCHANGED objectList
  BY <1>1, <1>4, SameShape
<1>5. CASE ~UNCHANGED objectList
  <2>1. removed.code = NO_ERROR /\ objectList' = ObjectBecomes(removed.object)
    BY <1>3, <1>5 DEF ListBecomes
  <2>2. o \in ToSet(objectList) /\ o.objID = CustomId /\ Fit(o)
    BY <1>1, CustomIs
  <2>3. Uniform(o, NULL)
    BY <2>2, CustomHasNone DEF ShapedInv, ShapedList
  <2>4. id \in 0..(ALL - 1) /\ id # ALL
    BY InstanceIsNamed DEF Contract
  <2> HIDE DEF o
  <2>5. Fit(removed.object) /\ removed.object.objID = o.objID
    BY <1>2, <2>1, <2>2, <2>4, RemovedInstance
  <2>6. Uniform(removed.object, NULL)
    BY <1>2, <2>2, <2>3, <2>4, UniformRemoved
  <2>7. Shaped(uses, removed.object)
    BY <1>1, <2>2, <2>5, <2>6, CustomHasNone
  <2> QED
    BY <1>1, <2>1, <2>2, <2>5, <2>7, ChangeShaped
<1> QED
  BY <1>4, <1>5

LEMMA CustomShaped ==
  ASSUME Contract, OwnedInv, ShapedInv, CustomAction
  PROVE  ShapedInv'
<1>1. ASSUME NEW id, NEW resource, NEW resInstance, NEW value, ValueChanged(id, resource, resInstance, value)
      PROVE  ShapedInv'
  BY <1>1, SameShape DEF ValueChanged
<1> QED
  BY <1>1, AddShaped, RemoveShaped, CreatedShaped, DeletedShaped, Zenon DEF CustomAction

\* A Server creates and deletes Instances of the application's own Object only.
LEMMA CreateShaped ==
  ASSUME OwnedInv, ShapedInv, NEW request \in uses.requests, Create(request)
  PROVE  ShapedInv'
<1>1. UNCHANGED uses
  BY CreateFrame
<1>2. CASE UNCHANGED objectList
  BY <1>1, <1>2, SameShape
<1>3. ASSUME NEW o, NEW c, CreateOf(o, c, request) PROVE ShapedInv'
  <2>1. o \in ToSet(objectList) /\ Fit(o) /\ ObjectBecomes(o) = objectList /\ objectList' = ObjectBecomes(c.object)
    BY <1>3, Zenon DEF CreateOf
  <2>2. CASE c.object = o
    BY <1>1, <2>1, <2>2, SameShape
  <2>3. CASE c.object # o
    <3>1. PICK id : Creates(o, c, id)
      BY <1>3, <2>3, Zenon DEF CreateOf, Outcome, Undoes, LeavesOne
    <3>2. o.objID = CustomId /\ Fit(c.object) /\ c.object.objID = o.objID
      BY <2>1, <3>1 DEF Creates, Fit
    <3>3. Uniform(o, NULL) /\ uses.kind # "sensors"
      BY <2>1, <3>2, CustomHasNone DEF ShapedInv, ShapedList
    <3>4. Uniform(c.object, NULL)
      <4>1. Made(o, c, request.data)
        BY <1>3, Zenon DEF CreateOf
      <4>2. PICK accepts, written, fails : c = object_create(o, request.data, accepts, written, fails)
        BY <4>1 DEF Made
      <4> QED
        BY <2>1, <3>3, <4>2, UniformCreated
    <3>5. Shaped(uses, c.object)
      BY <3>2, <3>3, <3>4, CustomHasNone
    <3> QED
      BY <1>1, <2>1, <3>2, <3>5, ChangeShaped
  <2> QED
    BY <2>2, <2>3
<1> QED
  BY <1>2, <1>3, CreateDoes

LEMMA DeleteShaped ==
  ASSUME OwnedInv, ShapedInv, NEW request, Delete(request)
  PROVE  ShapedInv'
<1> DEFINE o == ObjectOf(objectList, request.uri.object)
           id == request.uri.instance
<1>1. UNCHANGED uses
  BY CreateFrame
<1>2. \/ UNCHANGED <<objectList, app>>
      \/ /\ ObjectIndex(objectList, request.uri.object) # 0
         /\ \E accepts \in {NO_ERROR, NOT_ACCEPTABLE}, fails \in Fails :
              objectList' = ObjectBecomes(object_delete(o, id, accepts, fails).object)
  BY Zenon DEF Delete, ObjectOf
<1>3. CASE UNCHANGED objectList
  BY <1>1, <1>3, SameShape
<1>4. CASE ~UNCHANGED objectList
  <2>1. PICK accepts \in {NO_ERROR, NOT_ACCEPTABLE}, fails \in Fails :
          /\ ObjectIndex(objectList, request.uri.object) # 0
          /\ objectList' = ObjectBecomes(object_delete(o, id, accepts, fails).object)
    BY <1>2, <1>4
  <2>2. PICK d : d = object_delete(o, id, accepts, fails)
    OBVIOUS
  <2>3. o \in ToSet(objectList) /\ o.objID = request.uri.object
    BY <2>1, ObjectOfIs DEF OwnedInv, OwnedBy
  <2>4. Fit(o)
    BY <2>3 DEF OwnedInv, OwnedBy
  <2>5. ObjectBecomes(o) = objectList
    BY <2>1, <2>3, SameObject DEF ObjectBecomes, OwnedInv, OwnedBy, GoodList, IsList
  <2> HIDE DEF o, id
  <2>6. d.object # o
    BY <1>4, <2>1, <2>2, <2>5
  <2>7. o.instanceCb /\ Fit(d.object) /\ d.object.objID = o.objID
    <3>1. d.code = DELETED
      BY <2>2, <2>6, RefusedDelete
    <3> QED
      BY <2>2, <2>4, <3>1, DeleteIs
  <2>8. o.objID = CustomId
    BY <2>4, <2>7 DEF Fit
  <2>9. Uniform(o, NULL) /\ uses.kind # "sensors"
    BY <2>3, <2>8, CustomHasNone DEF ShapedInv, ShapedList
  <2>10. Uniform(d.object, NULL)
    BY <2>2, <2>4, <2>9, UniformDeleted
  <2>11. Shaped(uses, d.object)
    BY <2>7, <2>8, <2>9, <2>10, CustomHasNone
  <2> QED
    BY <1>1, <2>1, <2>2, <2>3, <2>7, <2>11, ChangeShaped
<1> QED
  BY <1>3, <1>4

-----------------------------------------------------------------------------
(* The Object of the sensors                                               *)

LEMMA SensorsHaveTheirOwn ==
  ASSUME OwnedInv, UsesSensors
  PROVE  /\ Own(uses, uses.type) = SensorHas /\ uses.type # CustomId /\ uses.type # Device
         /\ \A o : Shaped(uses, o) /\ o.objID = uses.type =>
              Uniform(o, SensorHas) /\ o.resources = prv_getResourceDesc(uses.type)
         /\ \A o : /\ Uniform(o, SensorHas) /\ o.resources = prv_getResourceDesc(uses.type) /\ o.objID = uses.type
                   => Shaped(uses, o)
<1>1. Own(uses, uses.type) = SensorHas
  BY DEF Own, SensorHas, UsesSensors
<1>2. uses.type # CustomId /\ uses.type # Device
  BY SensorObjectIs DEF Device
<1> QED
  BY <1>1, <1>2 DEF Shaped, UsesSensors

LEMMA NewIpsoShaped ==
  ASSUME OwnedInv, UsesSensors, NEW o, o = NewIpsoObject(uses.type)
  PROVE  Shaped(uses, o)
<1>1. o.objID = uses.type /\ o.resources = prv_getResourceDesc(uses.type) /\ o.instances = <<>>
  BY DEF NewIpsoObject
<1>2. Uniform(o, SensorHas)
  BY <1>1, EmptyList DEF Uniform
<1> QED
  BY <1>1, <1>2, SensorsHaveTheirOwn

\* What add_sensor does to the list of Objects: nothing, or an Object of the
\* sensors becomes another one, after it is added if it was not there.
LEMMA SensorAddedHas ==
  ASSUME NEW value, NEW objectFails, NEW instanceFails,
         NEW added, added = SensorAdded(value, objectFails, instanceFails)
  PROVE  \/ added.list = objectList
         \/ \E list, result :
              /\ \/ ObjectIndex(objectList, uses.type) # 0 /\ list = objectList
                 \/ /\ customObjectAdd(objectList, NewIpsoObject(uses.type), objectFails).code = NO_ERROR
                    /\ list = customObjectAdd(objectList, NewIpsoObject(uses.type), objectFails).list
              /\ result = objectAddInstance(ObjectOf(list, uses.type), NewSensorId(sensors), SensorHas, instanceFails)
              /\ added.list = With(list, ObjectIndex(list, uses.type), result.object)
<1> DEFINE checked == prv_checkResourceValue(uses.type, value)
           present == ObjectIndex(objectList, uses.type) # 0
           created == customObjectAdd(objectList, NewIpsoObject(uses.type), objectFails)
           list == IF present THEN objectList ELSE created.list
           result == objectAddInstance(ObjectOf(list, uses.type), NewSensorId(sensors), SensorHas, instanceFails)
<1>1. added = IF checked # NO_ERROR THEN [code |-> checked, list |-> objectList]
              ELSE IF ~present /\ created.code # NO_ERROR THEN created
              ELSE [code |-> result.code, list |-> With(list, ObjectIndex(list, uses.type), result.object)]
  BY Zenon DEF SensorAdded, With, SensorHas
<1>2. created.code # NO_ERROR => created.list = objectList
  BY ObjectNotAdded
<1>3. /\ present => list = objectList
      /\ ~present => list = created.list
  OBVIOUS
<1> HIDE DEF checked, created, list, result
<1>4. CASE checked # NO_ERROR
  BY <1>1, <1>4
<1>5. CASE checked = NO_ERROR /\ ~present /\ created.code # NO_ERROR
  BY <1>1, <1>2, <1>5
<1>6. CASE checked = NO_ERROR /\ (present \/ created.code = NO_ERROR)
  <2>1. added.list = With(list, ObjectIndex(list, uses.type), result.object)
    BY <1>1, <1>6
  <2>2. \/ present /\ list = objectList
        \/ created.code = NO_ERROR /\ list = created.list
    BY <1>3, <1>6
  <2> QED
    BY <2>1, <2>2 DEF result, created
<1> QED
  BY <1>4, <1>5, <1>6

LEMMA SensorAddedShaped ==
  ASSUME OwnedInv, ShapedInv, NEW value, iowa_client_IPSO_add_sensor(value)
  PROVE  ShapedInv'
<1>1. UsesSensors /\ Len(sensors) < uses.number /\ UNCHANGED uses
  BY DEF iowa_client_IPSO_add_sensor
<1>2. PICK objectFails \in Fails, instanceFails \in Fails :
        IF SensorAdded(value, objectFails, instanceFails).list = objectList THEN UNCHANGED <<objectList, server>>
        ELSE ListBecomes(SensorAdded(value, objectFails, instanceFails).list)
  BY Zenon DEF iowa_client_IPSO_add_sensor
<1>3. PICK added : added = SensorAdded(value, objectFails, instanceFails)
  OBVIOUS
<1>4. objectList' = added.list
  BY <1>2, <1>3 DEF ListBecomes
<1>5. CASE added.list = objectList
  BY <1>1, <1>4, <1>5, SameShape
<1>6. CASE added.list # objectList
  <2>1. PICK list, result :
          /\ \/ ObjectIndex(objectList, uses.type) # 0 /\ list = objectList
             \/ /\ customObjectAdd(objectList, NewIpsoObject(uses.type), objectFails).code = NO_ERROR
                /\ list = customObjectAdd(objectList, NewIpsoObject(uses.type), objectFails).list
          /\ result = objectAddInstance(ObjectOf(list, uses.type), NewSensorId(sensors), SensorHas, instanceFails)
          /\ added.list = With(list, ObjectIndex(list, uses.type), result.object)
    BY <1>3, <1>6, SensorAddedHas
  <2>2. PICK o : o = ObjectOf(list, uses.type)
    OBVIOUS
  <2>3. /\ OwnedBy(uses, list, app, sensors) /\ o \in ToSet(list) /\ o.objID = uses.type /\ Fit(o) /\ o.type = "advanced"
    BY <1>1, <2>1, <2>2, SensorObjectAdded
  <2>4. ShapedList(uses, list)
    <3>1. CASE list = objectList
      BY <3>1 DEF ShapedInv
    <3>2. CASE list # objectList
      <4>1. PICK new : new = NewIpsoObject(uses.type)
        OBVIOUS
      <4>2. GoodObject(new) /\ AsAdded(new) = new
        BY <4>1, IpsoObjectIs
      <4>3. customObjectAdd(objectList, new, objectFails).code = NO_ERROR /\ list = customObjectAdd(objectList, new, objectFails).list
        BY <2>1, <3>2, <4>1
      <4>4. ToSet(list) = ToSet(objectList) \cup {new}
        BY <4>2, <4>3, ObjectAdded DEF OwnedInv, OwnedBy
      <4>5. Shaped(uses, new)
        BY <1>1, <4>1, NewIpsoShaped
      <4> QED
        BY <4>4, <4>5, ShapedAdded DEF ShapedInv
    <3> QED
      BY <3>1, <3>2
  <2>5. result = objectAddInstance(o, NewSensorId(sensors), SensorHas, instanceFails)
    BY <2>1, <2>2
  <2>6. Uniform(o, SensorHas) /\ o.resources = prv_getResourceDesc(uses.type)
    BY <1>1, <2>3, <2>4, SensorsHaveTheirOwn DEF ShapedList
  <2>7. PICK p : p = result.object
    OBVIOUS
  <2>8. CASE p = o
    <3>1. added.list = With(list, ObjectIndex(list, p.objID), p)
      BY <2>1, <2>3, <2>7, <2>8
    <3>2. ShapedList(uses, With(list, ObjectIndex(list, p.objID), p))
      BY <2>3, <2>4, <2>8, ShapedChanged DEF OwnedBy, Fit, ShapedList
    <3> QED
      BY <1>1, <1>4, <3>1, <3>2 DEF ShapedInv
  <2>9. CASE p # o
    <3>1. result = prv_addInstance(o, NewSensorId(sensors), SensorHas, instanceFails)
      BY <2>3, <2>5, <2>7, <2>9 DEF objectAddInstance
    <3>2. Uniform(p, SensorHas)
      BY <2>3, <2>6, <2>7, <3>1, UniformAdded
    <3>3. GoodObject(p) /\ p.objID = o.objID /\ p.resources = o.resources
      <4>1. PICK i : i = [id |-> NewSensorId(sensors), resources |-> SensorHas]
        OBVIOUS
      <4>2. p = [o EXCEPT !.instances = Append(@, i)]
        BY <2>7, <2>9, <3>1, <4>1 DEF prv_addInstance
      <4>3. object_getInstanceIndex(o, i.id) = 0 /\ i.id # ALL
        <5>1. object_getInstanceIndex(o, i.id) = 0
          BY <2>7, <2>9, <3>1, <4>1 DEF prv_addInstance
        <5>2. i.id \in 0..(ALL - 1)
          BY <1>1, <4>1, NextSensorIs
        <5> QED
          BY <5>1, <5>2, AllIsNone
      <4>4. i.id \notin IdentifiersOf(o.instances)
        BY <2>3, <4>3, InstanceIndexIs DEF Fit
      <4> QED
        BY <2>3, <4>2, <4>4, InstanceAppended DEF Fit
    <3>4. Shaped(uses, p)
      BY <1>1, <2>3, <2>6, <3>2, <3>3, SensorsHaveTheirOwn
    <3>5. ShapedList(uses, With(list, ObjectIndex(list, p.objID), p))
      BY <2>3, <2>4, <3>3, <3>4, ShapedChanged DEF OwnedBy
    <3>6. added.list = With(list, ObjectIndex(list, p.objID), p)
      BY <2>1, <2>3, <2>7, <3>3
    <3> QED
      BY <1>1, <1>4, <3>5, <3>6 DEF ShapedInv
  <2> QED
    BY <2>8, <2>9
<1> QED
  BY <1>5, <1>6

LEMMA SensorRemovedShaped ==
  ASSUME OwnedInv, ShapedInv, NEW id, UsesSensors, id \in 0..(uses.number - 1), iowa_client_IPSO_remove_sensor(id)
  PROVE  ShapedInv'
<1> DEFINE o == ObjectOf(objectList, uses.type)
           shorter == customObjectRemove(objectList, uses.type).list
<1>1. UNCHANGED uses
  BY DEF iowa_client_IPSO_remove_sensor
<1>2. PICK fails, removed :
        /\ removed = prv_removeInstance(ObjectOf(objectList, uses.type), id, fails)
        /\ \/ UNCHANGED objectList
           \/ /\ ObjectIndex(objectList, uses.type) # 0 /\ SensorIndex(id) # 0
              /\ \/ removed.code = NO_ERROR /\ ListBecomes(ObjectBecomes(removed.object))
                 \/ ListBecomes(shorter)
  BY Zenon DEF iowa_client_IPSO_remove_sensor
<1>3. removed = prv_removeInstance(o, id, fails)
  BY <1>2
<1>6. \/ UNCHANGED objectList
      \/ /\ ObjectIndex(objectList, uses.type) # 0 /\ SensorIndex(id) # 0
         /\ \/ removed.code = NO_ERROR /\ ListBecomes(ObjectBecomes(removed.object))
            \/ ListBecomes(shorter)
  BY <1>2
<1>4. CASE UNCHANGED objectList
  BY <1>1, <1>4, SameShape
<1>5. CASE ~UNCHANGED objectList
  <2>1. /\ ObjectIndex(objectList, uses.type) # 0 /\ SensorIndex(id) # 0
        /\ (removed.code = NO_ERROR /\ objectList' = ObjectBecomes(removed.object)) \/ objectList' = shorter
    BY <1>5, <1>6 DEF ListBecomes
  <2>2. /\ GoodSensors(sensors) /\ uses.type # Device
        /\ o \in ToSet(objectList) /\ o.objID = uses.type /\ Fit(o)
        /\ IdentifiersOf(sensors) \subseteq IdentifiersOf(o.instances)
    BY <2>1, SensorObjectIs DEF Device
  <2>3. id \in IdentifiersOf(o.instances)
    BY <2>1, <2>2, SensorFound DEF IdentifiersOf
  <2> HIDE DEF o, shorter
  <2>4. CASE removed.code = NO_ERROR /\ objectList' = ObjectBecomes(removed.object)
    <3>1. id \in 0..(ALL - 1) /\ id # ALL
      <4>1. ALL \notin 0..(ALL - 1)
        BY AllIsNone
      <4> QED
        BY <4>1, NamedSensor
    <3>3. Fit(removed.object) /\ removed.object.objID = o.objID /\ removed.object.resources = o.resources
      BY <1>3, <2>2, <2>3, <2>4, <3>1, RemovedInstance
    <3>4. Uniform(o, SensorHas) /\ o.resources = prv_getResourceDesc(uses.type)
      BY <2>2, SensorsHaveTheirOwn DEF ShapedInv, ShapedList
    <3>5. Uniform(removed.object, SensorHas)
      BY <1>3, <2>2, <3>1, <3>4, UniformRemoved
    <3>6. Shaped(uses, removed.object)
      BY <2>2, <3>3, <3>4, <3>5, SensorsHaveTheirOwn
    <3> QED
      BY <1>1, <2>2, <2>4, <3>3, <3>6, ChangeShaped
  <2>5. CASE objectList' = shorter
    <3>1. customObjectRemove(objectList, uses.type).code = NO_ERROR
      BY <2>1 DEF customObjectRemove
    <3>2. PICK p \in ToSet(objectList) : p.objID = uses.type /\ ToSet(shorter) = ToSet(objectList) \ {p}
      BY <3>1, ObjectTaken DEF shorter, OwnedInv, OwnedBy
    <3>3. ShapedList(uses, shorter)
      BY <2>2, <3>2, ShapedTaken DEF ShapedInv
    <3> QED
      BY <1>1, <2>5, <3>3 DEF ShapedInv
  <2> QED
    BY <2>1, <2>4, <2>5
<1> QED
  BY <1>4, <1>5

LEMMA SensorShaped ==
  ASSUME OwnedInv, ShapedInv, SensorAction
  PROVE  ShapedInv'
<1>1. ASSUME NEW id, NEW value, iowa_client_IPSO_update_value(id, value) PROVE ShapedInv'
  BY <1>1, SameShape DEF iowa_client_IPSO_update_value
<1> QED
  BY <1>1, SensorAddedShaped, SensorRemovedShaped, Zenon DEF SensorAction

-----------------------------------------------------------------------------
(* The invariant of the Objects                                            *)

LEMMA InitShaped == Init => ShapedInv
<1> SUFFICES ASSUME Init PROVE ShapedInv
  OBVIOUS
<1>1. PICK d : d = NewDeviceObject(uses.options)
  OBVIOUS
<1>2. uses \in Cases /\ objectList = customObjectAdd(<<>>, d, FALSE).list
  BY <1>1 DEF Init
<1>3. /\ DOMAIN d = {"objID", "type", "instanceCb", "resources", "instances"}
      /\ d.objID = Device /\ d.type = "single" /\ d.instanceCb = FALSE /\ d.instances = <<>>
  BY <1>1 DEF NewDeviceObject, Device
<1>4. GoodObject(d)
  BY <1>3, EmptyList DEF GoodObject, IdentifiersOf
<1>5. PICK i : i = [id |-> LWM2M_SINGLE_OBJECT_INSTANCE_ID, resources |-> NULL]
  OBVIOUS
<1>6. PICK a : a = [d EXCEPT !.instances = <<i>>]
  OBVIOUS
<1>7. a = AsAdded(d)
  BY <1>3, <1>5, <1>6 DEF AsAdded
<1>8. a.instances = <<i>> /\ a.objID = Device /\ a.type = "single"
  BY <1>3, <1>6
<1>9. i.id = LWM2M_SINGLE_OBJECT_INSTANCE_ID /\ i.resources = NULL
  BY <1>5
<1>10. ToSet(a.instances) = {i}
  BY <1>8, OneElement
<1>11. IdentifiersOf(a.instances) = {LWM2M_SINGLE_OBJECT_INSTANCE_ID} /\ Uniform(a, NULL)
  BY <1>9, <1>10 DEF IdentifiersOf, Uniform
<1>12. uses.kind = "sensors" => uses.type # Device
  BY <1>2, ManagementAssumption DEF ManagementAssumption, Reserved, Device
<1>13. Shaped(uses, a)
  BY <1>8, <1>11, <1>12 DEF Shaped, Own
<1>14. ToSet(objectList) = {a}
  <2>1. PICK none, fails : none = <<>> /\ fails = FALSE
    OBVIOUS
  <2>2. IsSequence(none) /\ ToSet(none) = {} /\ Len(none) = 0 /\ IsList(none)
    BY <2>1, EmptyList DEF IsList
  <2>3. ObjectIndex(none, d.objID) \notin 1..0
    OBVIOUS
  <2>4. ObjectIndex(none, d.objID) = 0
    BY <2>2, <2>3, ObjectIndexIs
  <2>5. customObjectAdd(none, d, fails).code = NO_ERROR
    BY <2>1, <2>4 DEF customObjectAdd
  <2>6. GoodList(none)
    BY <2>2 DEF GoodList
  <2>7. objectList = customObjectAdd(none, d, fails).list
    BY <1>2, <2>1
  <2>8. ToSet(objectList) = ToSet(none) \cup {AsAdded(d)}
    BY <1>4, <2>5, <2>6, <2>7, ObjectAdded
  <2> QED
    BY <1>7, <2>2, <2>8
<1> QED
  BY <1>8, <1>13, <1>14 DEF ShapedInv, ShapedList

LEMMA NextShaped ==
  ASSUME Contract
  PROVE  OwnedInv /\ ShapedInv /\ [Next]_vars => ShapedInv'
<1> SUFFICES ASSUME OwnedInv, ShapedInv, [Next]_vars PROVE ShapedInv'
  OBVIOUS
<1>1. CASE UNCHANGED vars
  BY <1>1, SameShape DEF vars
<1>2. CASE DeviceAction
  <2>1. ASSUME NEW update, DeviceUpdated(update) PROVE ShapedInv'
    BY <2>1, SameShape, DeviceFrame
  <2> QED
    BY <1>2, <2>1, Zenon DEF DeviceAction, iowa_client_device_update_battery, iowa_client_set_device_error_code,
         iowa_client_clear_device_error_code, iowa_client_add_device_power_source, iowa_client_remove_device_power_source,
         iowa_client_update_device_power_source, iowa_client_update_device_information,
         iowa_client_update_device_time_information
<1>3. CASE ServerAction
  <2>1. ASSUME NEW request, Refuse(request) \/ Write(request) \/ Execute(request) PROVE ShapedInv'
    BY <2>1, SameShape, RefuseFrame, WriteFrame, ExecuteFrame
  <2> QED
    BY <1>3, <2>1, CreateShaped, DeleteShaped, Zenon DEF ServerAction
<1>4. CASE RegistrationAction
  BY <1>4, SameShape, RegistrationFrame
<1>5. ASSUME NEW enter \in BOOLEAN, iowa_client_notification_lock(enter) PROVE ShapedInv'
  BY <1>5, SameShape, LockFrame
<1> QED
  BY <1>1, <1>2, <1>3, <1>4, <1>5, CustomShaped, SensorShaped, Zenon DEF Next

-----------------------------------------------------------------------------
(* The device: what an operation changes, and what it tells                *)

\* Each power source has its own identifier.
NamedSources(list) ==
  /\ IsList(list)
  /\ \A s, t \in ToSet(list) : s.id = t.id => s = t
  /\ \A s \in ToSet(list) : DOMAIN s = {"id", "type", "voltage", "current"}

SourcesAre(d) == NamedSources(d.sources) /\ (d.sources # <<>> => "POWER_SOURCE" \in d.options)

\* The Resources told are those that differ in d and e.
SourcesTold(list, other, told) ==
  \A s \in ToSet(list), t \in ToSet(other) :
    s.id = t.id => /\ s.type # t.type => ID.AVAILABLE_POWER_SRC \in told
                   /\ s.voltage # t.voltage => ID.POWER_SRC_VOLTAGE \in told
                   /\ s.current # t.current => ID.POWER_SRC_CURRENT \in told

DeviceTold(d, e, told) ==
  /\ \A id \in DeviceSingle : e.values[id] # d.values[id] => id \in told
  /\ e.errors # d.errors => ID.ERROR_CODE \in told
  /\ SourcesTold(d.sources, e.sources, told)

\* What an operation gives, u, of the device d.
Tells(d, u) == u.device.options = d.options /\ SourcesAre(u.device) /\ DeviceTold(d, u.device, u.told)

\* The texts that stay in their buffers, where the application may change them,
\* and what an operation gives that does not tell of these.
Unmoved(d, e) == {id \in DeviceText : e.buffers[id] = d.buffers[id]}
TellsMoved(d, u) ==
  /\ u.device.options = d.options /\ SourcesAre(u.device)
  /\ DeviceTold(d, u.device, u.told \cup Unmoved(d, u.device))

LEMMA MoreTold ==
  ASSUME NEW d, NEW e, NEW told, DeviceTold(d, e, told), NEW more, told \subseteq more
  PROVE  DeviceTold(d, e, more)
BY DEF DeviceTold, SourcesTold

LEMMA TellsMore ==
  ASSUME NEW d, NEW u, Tells(d, u)
  PROVE  TellsMoved(d, u)
BY MoreTold DEF Tells, TellsMoved

LEMMA SourcesStay ==
  ASSUME NEW d, SourcesAre(d), NEW u, u.device.options = d.options, u.device.sources = d.sources,
         \A id \in DeviceSingle : u.device.values[id] # d.values[id] => id \in u.told,
         u.device.errors # d.errors => ID.ERROR_CODE \in u.told
  PROVE  Tells(d, u)
<1>1. SourcesTold(d.sources, u.device.sources, u.told)
  BY DEF SourcesTold, SourcesAre, NamedSources
<1> QED
  BY <1>1 DEF Tells, SourcesAre, DeviceTold

LEMMA RefusalTells ==
  ASSUME NEW d, SourcesAre(d), NEW code
  PROVE  Tells(d, Refused(d, code))
BY SourcesStay DEF Refused

LEMMA StoreTells ==
  ASSUME NEW d, GoodDevice(d), SourcesAre(d), NEW values, NEW told, Differ(d, values) \subseteq told
  PROVE  Tells(d, Updated(Stored(d, values), told))
<1> DEFINE f == [id \in DOMAIN d.values |-> IF id \in DOMAIN values THEN values[id] ELSE d.values[id]]
           e == [d EXCEPT !.values = f]
<1>1. Updated(Stored(d, values), told) = [code |-> NO_ERROR, device |-> e, told |-> told]
  BY DEF Updated, Stored, GoodDevice
<1>2. \A id \in DeviceSingle : f[id] # d.values[id] => id \in told
  BY DEF GoodDevice, Differ
<1> HIDE DEF f
<1>3. e.values = f /\ e.options = d.options /\ e.sources = d.sources /\ e.errors = d.errors
  BY DEF GoodDevice
<1> HIDE DEF e
<1>4. PICK u : u = [code |-> NO_ERROR, device |-> e, told |-> told]
  OBVIOUS
<1>5. u.device = e /\ u.told = told
  BY <1>4
<1>6. Tells(d, u)
  BY <1>2, <1>3, <1>5, SourcesStay
<1> QED
  BY <1>1, <1>4, <1>6

LEMMA BatteryTells ==
  ASSUME NEW d, GoodDevice(d), SourcesAre(d), NEW level, NEW status
  PROVE  Tells(d, update_battery(d, level, status))
<1> DEFINE values == (ID.BATTERY_LEVEL :> level) @@ (ID.BATTERY_STATUS :> status)
<1>1. \/ \E code : update_battery(d, level, status) = Refused(d, code)
      \/ update_battery(d, level, status) = Updated(Stored(d, values), Differ(d, values))
  BY Zenon DEF update_battery
<1>2. Tells(d, Updated(Stored(d, values), Differ(d, values)))
  BY StoreTells
<1> QED
  BY <1>1, <1>2, RefusalTells

LEMMA InformationTells ==
  ASSUME NEW d, GoodDevice(d), SourcesAre(d), NEW info, DOMAIN info.values \subseteq DeviceText \cup DeviceMemory
  PROVE  TellsMoved(d, update_device_information(d, info))
<1>1. PICK moved : moved = {id \in DOMAIN info.buffers \cap DeviceText : d.buffers[id] # info.buffers[id]}
  OBVIOUS
<1>2. PICK told : told = moved \cup (DOMAIN info.values \cap DeviceMemory)
  OBVIOUS
<1>3. PICK f : f = [id \in DeviceSingle |-> IF id \in DOMAIN info.values THEN info.values[id] ELSE d.values[id]]
  OBVIOUS
<1>4. PICK b : b = [id \in DeviceText |-> IF id \in DOMAIN info.buffers THEN info.buffers[id] ELSE d.buffers[id]]
  OBVIOUS
<1>5. PICK e : e = [[d EXCEPT !.values = f] EXCEPT !.buffers = b]
  OBVIOUS
<1>6. PICK u : u = [code |-> NO_ERROR, device |-> e, told |-> told]
  OBVIOUS
<1>7. update_device_information(d, info) = u
  BY <1>1, <1>2, <1>3, <1>4, <1>5, <1>6 DEF update_device_information, Updated, Stored, GoodDevice
<1>8. e.values = f /\ e.buffers = b /\ e.options = d.options /\ e.sources = d.sources /\ e.errors = d.errors
  BY <1>5 DEF GoodDevice
<1>9. \A id \in DeviceSingle : f[id] # d.values[id] => id \in told \cup Unmoved(d, e)
  <2>1. SUFFICES ASSUME NEW id \in DOMAIN info.values, id \notin DeviceMemory, id \notin moved PROVE id \in Unmoved(d, e)
    BY <1>2, <1>3
  <2>2. id \in DeviceText
    BY <2>1
  <2>3. b[id] = d.buffers[id]
    BY <1>1, <1>4, <2>1, <2>2
  <2> QED
    BY <1>8, <2>2, <2>3 DEF Unmoved
<1>10. PICK more : more = told \cup Unmoved(d, e)
  OBVIOUS
<1>11. PICK v : v = [device |-> e, told |-> more]
  OBVIOUS
<1>12. v.device = e /\ v.told = more /\ u.device = e /\ u.told = told
  BY <1>6, <1>11
<1>13. Tells(d, v)
  BY <1>8, <1>9, <1>10, <1>12, SourcesStay
<1> QED
  BY <1>7, <1>10, <1>12, <1>13 DEF Tells, TellsMoved

LEMMA TimeInformationTells ==
  ASSUME NEW d, GoodDevice(d), SourcesAre(d), NEW info
  PROVE  Tells(d, update_device_time_information(d, info))
<1>1. \/ \E code : update_device_time_information(d, info) = Refused(d, code)
      \/ \E known : update_device_time_information(d, info)
                      = Updated(Stored(d, known), Differ(d, known) \cup (DOMAIN known \cap {ID.UTC_OFFSET, ID.TIME_ZONE}))
  BY Zenon DEF update_device_time_information
<1>2. ASSUME NEW known
      PROVE  Tells(d, Updated(Stored(d, known), Differ(d, known) \cup (DOMAIN known \cap {ID.UTC_OFFSET, ID.TIME_ZONE})))
  <2> DEFINE told == Differ(d, known) \cup (DOMAIN known \cap {ID.UTC_OFFSET, ID.TIME_ZONE})
  <2>1. Differ(d, known) \subseteq told
    OBVIOUS
  <2> HIDE DEF told
  <2>2. Tells(d, Updated(Stored(d, known), told))
    BY <2>1, StoreTells
  <2> QED
    BY <2>2 DEF told
<1> QED
  BY <1>1, <1>2, RefusalTells

LEMMA ErrorsTell ==
  ASSUME NEW d, GoodDevice(d), SourcesAre(d), NEW errors
  PROVE  Tells(d, Updated([d EXCEPT !.errors = errors], {ID.ERROR_CODE}))
<1>1. PICK e : e = [d EXCEPT !.errors = errors]
  OBVIOUS
<1>2. e.values = d.values /\ e.options = d.options /\ e.sources = d.sources
  BY <1>1 DEF GoodDevice
<1>3. PICK u : u = Updated(e, {ID.ERROR_CODE})
  OBVIOUS
<1>4. u.device = e /\ u.told = {ID.ERROR_CODE}
  BY <1>3 DEF Updated
<1>5. Tells(d, u)
  BY <1>2, <1>4, SourcesStay
<1> QED
  BY <1>1, <1>3, <1>5

LEMMA ErrorSetTells ==
  ASSUME NEW d, GoodDevice(d), SourcesAre(d), NEW code \in ErrorCodes
  PROVE  Tells(d, set_error_code(d, code))
<1> DEFINE errors == IF code = 0 THEN {} ELSE d.errors \cup {code}
           u == set_error_code(d, code)
<1>1. code \in Nat
  BY ManagementAssumption DEF ManagementAssumption
<1>2. \/ \E c : u = Refused(d, c)
      \/ u = Updated([d EXCEPT !.errors = errors], {ID.ERROR_CODE})
  BY <1>1 DEF set_error_code, GoodDevice
<1> HIDE DEF errors, u
<1>3. Tells(d, u)
  BY <1>2, RefusalTells, ErrorsTell
<1> QED
  BY <1>3 DEF u

LEMMA ErrorClearedTells ==
  ASSUME NEW d, GoodDevice(d), SourcesAre(d), NEW code
  PROVE  Tells(d, clear_error_code(d, code))
<1> DEFINE errors == d.errors \ {code}
           u == clear_error_code(d, code)
<1>1. \/ \E c : u = Refused(d, c)
      \/ u = Updated([d EXCEPT !.errors = errors], {ID.ERROR_CODE})
  BY DEF clear_error_code, GoodDevice
<1> HIDE DEF errors, u
<1>2. Tells(d, u)
  BY <1>1, RefusalTells, ErrorsTell
<1> QED
  BY <1>2 DEF u

\* Of other sources: what they tell, and what they are.
LEMMA SourcesTell ==
  ASSUME NEW d, GoodDevice(d), "POWER_SOURCE" \in d.options, NEW list, NamedSources(list), NEW told,
         SourcesTold(d.sources, list, told)
  PROVE  Tells(d, Updated([d EXCEPT !.sources = list], told))
<1>1. PICK e : e = [d EXCEPT !.sources = list]
  OBVIOUS
<1>2. e.values = d.values /\ e.options = d.options /\ e.sources = list /\ e.errors = d.errors
  BY <1>1 DEF GoodDevice
<1>3. PICK u : u = Updated(e, told)
  OBVIOUS
<1>4. u.device = e /\ u.told = told
  BY <1>3 DEF Updated
<1>5. Tells(d, u)
  BY <1>2, <1>4 DEF Tells, SourcesAre, DeviceTold
<1> QED
  BY <1>1, <1>3, <1>5

\* A source is found where it is.
LEMMA SourceIs ==
  ASSUME NEW d, IsList(d.sources), NEW id
  PROVE  \/ SourceOf(d, id) = 0 /\ \A s \in ToSet(d.sources) : s.id # id
         \/ /\ SourceOf(d, id) \in 1..Len(d.sources) /\ d.sources[SourceOf(d, id)] \in ToSet(d.sources)
            /\ d.sources[SourceOf(d, id)].id = id
<1>1. PICK list : list = d.sources
  OBVIOUS
<1> DEFINE index == SelectInSeq(list, LAMBDA s : s.id = id)
<1>2. IsSequence(list)
  BY <1>1 DEF IsList
<1>3. \/ index = 0 /\ \A s \in ToSet(list) : s.id # id
      \/ index \in 1..Len(list) /\ list[index] \in ToSet(list) /\ list[index].id = id
  BY <1>2, SensorIndexIs
<1>4. SourceOf(d, id) = index
  BY <1>1 DEF SourceOf
<1> HIDE DEF index
<1> QED
  BY <1>1, <1>3, <1>4

LEMMA SourceAddedTells ==
  ASSUME NEW d, GoodDevice(d), SourcesAre(d), NEW type, NEW voltage, NEW current, NEW fails
  PROVE  Tells(d, add_power_source(d, type, voltage, current, fails))
<1>1. PICK id : id = NewSourceId(d)
  OBVIOUS
<1>2. PICK s : s = [id |-> id, type |-> type, voltage |-> voltage, current |-> current]
  OBVIOUS
<1>3. PICK list : list = <<s>> \o d.sources
  OBVIOUS
<1>4. PICK u : u = add_power_source(d, type, voltage, current, fails)
  OBVIOUS
<1>5. \/ \E c : u = Refused(d, c)
      \/ "POWER_SOURCE" \in d.options /\ u = Updated([d EXCEPT !.sources = list], PowerSource)
  BY <1>1, <1>2, <1>3, <1>4 DEF add_power_source, GoodDevice
<1>6. \A t \in ToSet(d.sources) : t.id # id
  <2>1. PICK used : used = IdentifiersOf(d.sources)
    OBVIOUS
  <2>2. IsFiniteSet(used) /\ Cardinality(used) = Len(d.sources) /\ Len(d.sources) \in Nat
    BY <2>1, IdentifiersCount DEF SourcesAre, NamedSources
  <2>3. PICK free \in 0..Len(d.sources) : free \notin used /\ 0..(free - 1) \subseteq used
    BY <2>2, FreeIdentifier
  <2>4. \A n : SourceOf(d, n) = 0 <=> n \notin used
    <3>1. ASSUME NEW n PROVE SourceOf(d, n) = 0 <=> n \notin used
      <4>1. SourceOf(d, n) \in 1..Len(d.sources) => SourceOf(d, n) # 0
        BY <2>2
      <4> QED
        BY <2>1, <4>1, SourceIs DEF SourcesAre, NamedSources, IdentifiersOf
    <3> QED
      BY <3>1
  <2>5. SourceOf(d, free) = 0 /\ \A lower \in 0..(free - 1) : SourceOf(d, lower) # 0
    BY <2>3, <2>4
  <2>6. SourceOf(d, id) = 0
    BY <1>1, <2>5, Zenon DEF NewSourceId
  <2> QED
    BY <2>1, <2>4, <2>6 DEF IdentifiersOf
<1>7. s.id = id /\ DOMAIN s = {"id", "type", "voltage", "current"}
  BY <1>2
<1>8. s \notin ToSet(d.sources)
  BY <1>6, <1>7
<1>9. IsList(list) /\ ToSet(list) = ToSet(d.sources) \cup {s}
  BY <1>3, <1>8, AddedFirst DEF SourcesAre, NamedSources
<1>10. NamedSources(list)
  BY <1>6, <1>7, <1>9 DEF NamedSources, SourcesAre
<1>11. SourcesTold(d.sources, list, PowerSource)
  BY <1>6, <1>7, <1>9 DEF SourcesTold, SourcesAre, NamedSources
<1>12. Tells(d, u)
  BY <1>5, <1>10, <1>11, RefusalTells, SourcesTell
<1> QED
  BY <1>4, <1>12

LEMMA SourceRemovedTells ==
  ASSUME NEW d, GoodDevice(d), SourcesAre(d), NEW id
  PROVE  Tells(d, remove_power_source(d, id))
<1>1. PICK index : index = SourceOf(d, id)
  OBVIOUS
<1>2. PICK list : list = RemoveAt(d.sources, index)
  OBVIOUS
<1>3. PICK u : u = remove_power_source(d, id)
  OBVIOUS
<1>4. \/ \E c : u = Refused(d, c)
      \/ /\ index # 0 /\ "POWER_SOURCE" \in d.options
         /\ u = Updated([d EXCEPT !.sources = list], PowerSource)
  BY <1>1, <1>2, <1>3 DEF remove_power_source, GoodDevice
<1>5. ASSUME index # 0 PROVE NamedSources(list) /\ SourcesTold(d.sources, list, PowerSource)
  <2>1. index \in 1..Len(d.sources)
    BY <1>1, <1>5, SourceIs DEF SourcesAre, NamedSources
  <2>2. IsList(list) /\ ToSet(list) = ToSet(d.sources) \ {d.sources[index]}
    BY <1>2, <2>1, Removed DEF SourcesAre, NamedSources
  <2> QED
    BY <2>2 DEF NamedSources, SourcesTold, SourcesAre
<1>6. Tells(d, u)
  BY <1>4, <1>5, RefusalTells, SourcesTell
<1> QED
  BY <1>3, <1>6

LEMMA SourceUpdatedTells ==
  ASSUME NEW d, GoodDevice(d), SourcesAre(d), NEW id, NEW voltage, NEW current
  PROVE  Tells(d, update_power_source(d, id, voltage, current))
<1>1. PICK index : index = SourceOf(d, id)
  OBVIOUS
<1>2. PICK old : old = d.sources[index]
  OBVIOUS
<1>3. PICK s : s = [[old EXCEPT !.voltage = voltage] EXCEPT !.current = current]
  OBVIOUS
<1>4. PICK e : e = [d EXCEPT !.sources[index].voltage = voltage, !.sources[index].current = current]
  OBVIOUS
<1>5. PICK told : told = (IF old.voltage # voltage THEN {ID.POWER_SRC_VOLTAGE} ELSE {})
                           \cup (IF old.current # current THEN {ID.POWER_SRC_CURRENT} ELSE {})
  OBVIOUS
<1>6. PICK u : u = update_power_source(d, id, voltage, current)
  OBVIOUS
<1>7. \/ \E c : u = Refused(d, c)
      \/ index # 0 /\ "POWER_SOURCE" \in d.options /\ u = Updated(e, told)
  BY <1>1, <1>2, <1>4, <1>5, <1>6, Zenon DEF update_power_source
<1>8. ASSUME index # 0, "POWER_SOURCE" \in d.options PROVE Tells(d, Updated(e, told))
  <2>1. PICK list : list = With(d.sources, index, s)
    OBVIOUS
  <2>2. /\ index \in 1..Len(d.sources) /\ old \in ToSet(d.sources) /\ old.id = id
        /\ DOMAIN old = {"id", "type", "voltage", "current"}
    BY <1>1, <1>2, <1>8, SourceIs DEF SourcesAre, NamedSources
  <2>3. DOMAIN d.sources = 1..Len(d.sources)
    BY ListIs DEF SourcesAre, NamedSources
  <2>4. e = [d EXCEPT !.sources = list]
    BY <1>2, <1>3, <1>4, <2>1, <2>2, <2>3 DEF GoodDevice, With
  <2>5. /\ DOMAIN s = DOMAIN old /\ s.id = id /\ s.type = old.type
        /\ s.voltage = voltage /\ s.current = current
    BY <1>3, <2>2
  <2>6. s \notin ToSet(d.sources) \ {d.sources[index]}
    BY <1>2, <2>2, <2>5 DEF SourcesAre, NamedSources
  <2>7. IsList(list) /\ ToSet(list) = (ToSet(d.sources) \ {old}) \cup {s}
    BY <1>2, <2>1, <2>2, <2>6, Replaced DEF SourcesAre, NamedSources
  <2>8. NamedSources(list)
    BY <2>2, <2>5, <2>7 DEF SourcesAre, NamedSources
  <2>9. SourcesTold(d.sources, list, told)
    <3>1. /\ old.voltage # voltage => ID.POWER_SRC_VOLTAGE \in told
          /\ old.current # current => ID.POWER_SRC_CURRENT \in told
      BY <1>5
    <3> QED
      BY <2>2, <2>5, <2>7, <3>1 DEF SourcesTold, SourcesAre, NamedSources
  <2> QED
    BY <1>8, <2>4, <2>8, <2>9, SourcesTell
<1>9. Tells(d, u)
  BY <1>7, <1>8, RefusalTells
<1> QED
  BY <1>6, <1>9

LEMMA WriteTells ==
  ASSUME NEW d, GoodDevice(d), SourcesAre(d), NEW data, NEW told, \A n \in DOMAIN data : data[n].resource \in told,
         NEW e, e = DeviceWrite(d, data).device
  PROVE  e.options = d.options /\ SourcesAre(e) /\ DeviceTold(d, e, told)
<1> DEFINE of(id) == {n \in DOMAIN data : data[n].resource = id /\ ~TimeRefused(data[n])}
           f == [id \in DOMAIN d.values |-> IF of(id) = {} THEN d.values[id] ELSE data[Max(of(id))].value]
<1>1. \A id \in DeviceSingle : f[id] # d.values[id] => id \in told
  BY DEF GoodDevice
<1>2. e = [d EXCEPT !.values = f]
  BY DEF DeviceWrite, GoodDevice
<1> HIDE DEF f
<1>3. e.values = f /\ e.options = d.options /\ e.sources = d.sources /\ e.errors = d.errors
  BY <1>2 DEF GoodDevice
<1>4. PICK u : u = [device |-> e, told |-> told]
  OBVIOUS
<1>5. u.device = e /\ u.told = told
  BY <1>4
<1>6. Tells(d, u)
  BY <1>1, <1>3, <1>5, SourcesStay
<1> QED
  BY <1>5, <1>6 DEF Tells

LEMMA ExecuteTells ==
  ASSUME NEW d, GoodDevice(d), SourcesAre(d), NEW resource, NEW argument
  PROVE  Tells(d, DeviceExecute(d, resource, argument))
<1>1. PICK e : e = [d EXCEPT !.errors = {}]
  OBVIOUS
<1>2. PICK u : u = DeviceExecute(d, resource, argument)
  OBVIOUS
<1>3. \/ u.device = d
      \/ u.device = e /\ u.told = IF d.errors # {} THEN {ID.ERROR_CODE} ELSE {}
  BY <1>1, <1>2 DEF DeviceExecute
<1>4. e.values = d.values /\ e.options = d.options /\ e.sources = d.sources /\ e.errors = {}
  BY <1>1 DEF GoodDevice
<1>5. Tells(d, u)
  BY <1>3, <1>4, SourcesStay
<1> QED
  BY <1>2, <1>5

\* The device has the options it was configured with, and its sources.
PowerInv == device.options = uses.options /\ SourcesAre(device)

\* What an operation of the application on the device tells.
LEMMA DeviceTells ==
  ASSUME OwnedInv, GoodDevice(device), PowerInv, DeviceAction
  PROVE  \E update : DeviceUpdated(update) /\ TellsMoved(device, update)
<1>0. SourcesAre(device)
  BY DEF PowerInv
<1>1. ASSUME iowa_client_device_update_battery PROVE \E u : DeviceUpdated(u) /\ TellsMoved(device, u)
  BY <1>0, <1>1, BatteryTells, TellsMore, Zenon DEF iowa_client_device_update_battery
<1>2. ASSUME iowa_client_set_device_error_code PROVE \E u : DeviceUpdated(u) /\ TellsMoved(device, u)
  BY <1>0, <1>2, ErrorSetTells, TellsMore, Zenon DEF iowa_client_set_device_error_code
<1>3. ASSUME iowa_client_clear_device_error_code PROVE \E u : DeviceUpdated(u) /\ TellsMoved(device, u)
  BY <1>0, <1>3, ErrorClearedTells, TellsMore, Zenon DEF iowa_client_clear_device_error_code
<1>4. ASSUME iowa_client_add_device_power_source PROVE \E u : DeviceUpdated(u) /\ TellsMoved(device, u)
  BY <1>0, <1>4, SourceAddedTells, TellsMore, Zenon DEF iowa_client_add_device_power_source
<1>5. ASSUME iowa_client_remove_device_power_source PROVE \E u : DeviceUpdated(u) /\ TellsMoved(device, u)
  BY <1>0, <1>5, SourceRemovedTells, TellsMore, Zenon DEF iowa_client_remove_device_power_source
<1>6. ASSUME iowa_client_update_device_power_source PROVE \E u : DeviceUpdated(u) /\ TellsMoved(device, u)
  BY <1>0, <1>6, SourceUpdatedTells, TellsMore, Zenon DEF iowa_client_update_device_power_source
<1>7. ASSUME iowa_client_update_device_information PROVE \E u : DeviceUpdated(u) /\ TellsMoved(device, u)
  <2>1. PICK info \in uses.infos : DeviceUpdated(update_device_information(device, info))
    BY <1>7 DEF iowa_client_update_device_information
  <2>2. uses \in Cases /\ uses.kind = "device"
    BY <1>7 DEF iowa_client_update_device_information, UpdatesDevice, OwnedInv
  <2>3. DOMAIN info.values \subseteq DeviceText \cup DeviceMemory
    BY <2>2, ManagementAssumption DEF ManagementAssumption
  <2>4. TellsMoved(device, update_device_information(device, info))
    BY <1>0, <2>3, InformationTells
  <2> QED
    BY <2>1, <2>4
<1>8. ASSUME iowa_client_update_device_time_information PROVE \E u : DeviceUpdated(u) /\ TellsMoved(device, u)
  BY <1>0, <1>8, TimeInformationTells, TellsMore, Zenon DEF iowa_client_update_device_time_information
<1> QED
  BY <1>1, <1>2, <1>3, <1>4, <1>5, <1>6, <1>7, <1>8, Zenon DEF DeviceAction

LEMMA InitPowered == Init => PowerInv
<1> SUFFICES ASSUME Init PROVE PowerInv
  OBVIOUS
<1>1. device.options = uses.options /\ device.sources = <<>>
  BY DEF Init, NewDevice
<1>2. NamedSources(<<>>)
  BY EmptyList DEF NamedSources
<1> QED
  BY <1>1, <1>2 DEF PowerInv, SourcesAre

\* A request changes the device by a write or an execution.
LEMMA WritePowered ==
  ASSUME TypeInv, PowerInv, NEW request, Write(request)
  PROVE  PowerInv'
<1>1. GoodDevice(device) /\ UNCHANGED uses
  BY WriteFrame DEF TypeInv, HeldInv
<1>2. UNCHANGED device \/ device' = DeviceWrite(device, request.data).device
  <2>1. \/ UNCHANGED device
        \/ \E refuses, name : device' = Written(request, name, refuses).device
    BY Zenon DEF Write
  <2>2. ASSUME NEW refuses, NEW name PROVE Written(request, name, refuses).device \in {device, DeviceWrite(device, request.data).device}
    BY WriteIs
  <2> QED
    BY <2>1, <2>2
<1>3. PICK told : told = {request.data[n].resource : n \in DOMAIN request.data}
  OBVIOUS
<1>4. \A n \in DOMAIN request.data : request.data[n].resource \in told
  BY <1>3
<1>5. PICK e : e = DeviceWrite(device, request.data).device
  OBVIOUS
<1>6. e.options = device.options /\ SourcesAre(e)
  BY <1>1, <1>4, <1>5, WriteTells DEF PowerInv
<1> QED
  BY <1>1, <1>2, <1>5, <1>6 DEF PowerInv

LEMMA ExecutePowered ==
  ASSUME TypeInv, PowerInv, NEW request, Execute(request)
  PROVE  PowerInv'
<1>1. GoodDevice(device) /\ UNCHANGED uses
  BY ExecuteFrame DEF TypeInv, HeldInv
<1>2. PICK e : e = Executed(request)
  OBVIOUS
<1>3. UNCHANGED device \/ device' = e.device
  BY <1>2, Zenon DEF Execute
<1>4. PICK d : d = DeviceExecute(device, request.uri.resource, request.argument)
  OBVIOUS
<1>5. e.device \in {device, d.device}
  BY <1>2, <1>4, ExecutionIs
<1>6. Tells(device, d)
  BY <1>1, <1>4, ExecuteTells DEF PowerInv
<1> QED
  BY <1>1, <1>3, <1>5, <1>6 DEF PowerInv, Tells

LEMMA NextPowered == TypeInv /\ PowerInv /\ [Next]_vars => PowerInv'
<1> SUFFICES ASSUME TypeInv, PowerInv, [Next]_vars PROVE PowerInv'
  OBVIOUS
<1>0. ASSUME UNCHANGED <<uses, device>> PROVE PowerInv'
  BY <1>0 DEF PowerInv
<1>1. CASE UNCHANGED vars
  BY <1>0, <1>1 DEF vars
<1>2. CASE DeviceAction
  <2>1. PICK update : DeviceUpdated(update) /\ TellsMoved(device, update)
    BY <1>2, DeviceTells DEF TypeInv, HeldInv
  <2> QED
    BY <2>1, DeviceFrame DEF PowerInv, TellsMoved
<1>3. CASE ServerAction
  <2>1. ASSUME NEW request, Refuse(request) \/ Create(request) \/ Delete(request) PROVE PowerInv'
    BY <1>0, <2>1, RefuseFrame, CreateFrame
  <2> QED
    BY <1>3, <2>1, WritePowered, ExecutePowered, Zenon DEF ServerAction
<1>4. CASE RegistrationAction
  BY <1>0, <1>4, RegistrationFrame
<1>5. ASSUME NEW enter \in BOOLEAN, iowa_client_notification_lock(enter) PROVE PowerInv'
  BY <1>0, <1>5, LockFrame
<1>6. CASE CustomAction
  BY <1>0, <1>6, CustomFrame
<1>7. CASE SensorAction
  BY <1>0, <1>7, SensorFrame
<1> QED
  BY <1>1, <1>2, <1>3, <1>4, <1>5, <1>6, <1>7, Zenon DEF Next

ChangeInv == TypeInv /\ ShapedInv /\ PowerInv

-----------------------------------------------------------------------------
(* What a step tells                                                       *)

\* The Resources told are those whose value differs: of the Instances S of the
\* application,
AppTold(S, values, others, told) ==
  \A i \in S \cap DOMAIN values \cap DOMAIN others : \A r \in DOMAIN values[i] \cap DOMAIN others[i] :
    \A ri \in DOMAIN values[i][r] \cap DOMAIN others[i][r] :
      others[i][r][ri] # values[i][r][ri] => Uri(CustomId, i, r) \in told

\* of the sensors,
SensorsTold(list, others, told) ==
  \A s \in ToSet(list), t \in ToSet(others), r \in ToSet(SensorHas) \ IpsoExecutable :
    s.id = t.id /\ IpsoRead(s, r) # IpsoRead(t, r) => Uri(uses.type, s.id, r) \in told

\* and of the device.
OfDevice(told) == {id \in Nat : Uri(Device, LWM2M_SINGLE_OBJECT_INSTANCE_ID, id) \in told}

AppCovered(told) == HasCustom /\ HasCustom' => AppTold(InstancesOf(CustomObject), app, app', told)
DeviceCovered(operation, told) ==
  DeviceTold(device, device', OfDevice(told) \cup IF operation = "device" THEN Unmoved(device, device') ELSE {})
SensorsCovered(operation, told) ==
  UsesSensors => SensorsTold(sensors, sensors', told) \/ (uses.type = IPSO.ENERGY /\ operation = "execute")

\* A step tells of all that it changes, or is refused.
StepTells ==
  \E operation, code, told :
    /\ Report(operation, code, told)
    /\ code >= BAD_REQUEST \/ (AppCovered(told) /\ DeviceCovered(operation, told) /\ SensorsCovered(operation, told))

\* What stays needs not be told.
LEMMA SameIsCovered ==
  ASSUME ChangeInv, NEW told, NEW operation
  PROVE  /\ UNCHANGED app => AppCovered(told)
         /\ UNCHANGED device => DeviceCovered(operation, told)
         /\ UNCHANGED sensors => SensorsCovered(operation, told)
<1>1. UNCHANGED app => AppCovered(told)
  BY DEF AppCovered, AppTold
<1>2. UNCHANGED device => DeviceCovered(operation, told)
  BY DEF DeviceCovered, DeviceTold, SourcesTold, ChangeInv, PowerInv, SourcesAre, NamedSources
<1>3. GoodSensors(sensors)
  BY SensorsAre DEF ChangeInv, TypeInv
<1>4. UNCHANGED sensors => SensorsCovered(operation, told)
  BY <1>3 DEF SensorsCovered, SensorsTold, GoodSensors
<1> QED
  BY <1>1, <1>2, <1>4

LEMMA NothingChanges ==
  ASSUME ChangeInv, UNCHANGED <<app, device, sensors>>, NEW operation, NEW code, NEW told, Report(operation, code, told)
  PROVE  StepTells
BY SameIsCovered DEF StepTells

LEMMA RegistrationTells ==
  ASSUME ChangeInv, RegistrationAction \/ \E enter \in BOOLEAN : iowa_client_notification_lock(enter)
  PROVE  StepTells
<1>1. UNCHANGED <<app, device, sensors>>
  BY RegistrationFrame, LockFrame
<1>2. ASSUME RegistrationAction PROVE \E operation, code, told : Report(operation, code, told)
  BY <1>2, Zenon DEF RegistrationAction, lwm2m_step, iowa_step_action, Register, prv_handleRegistrationReply,
       StepUpdates, prv_handleRegistrationUpdateReply, prv_handleClientUpdateTimer,
       registration_resetServersStatus, prv_sendHearbeat
<1>3. ASSUME NEW enter, iowa_client_notification_lock(enter) PROVE \E operation, code, told : Report(operation, code, told)
  BY <1>3, Zenon DEF iowa_client_notification_lock
<1> QED
  BY <1>1, <1>2, <1>3, NothingChanges

LEMMA DeviceIdentifiers ==
  /\ DeviceSingle \subseteq Nat /\ ID.ERROR_CODE \in Nat
  /\ ID.AVAILABLE_POWER_SRC \in Nat /\ ID.POWER_SRC_VOLTAGE \in Nat /\ ID.POWER_SRC_CURRENT \in Nat
BY DEF DeviceSingle, ID, Range

LEMMA DeviceStepTells ==
  ASSUME ChangeInv, DeviceAction
  PROVE  StepTells
<1>1. PICK u : DeviceUpdated(u) /\ TellsMoved(device, u)
  BY DeviceTells DEF ChangeInv, TypeInv, HeldInv
<1>2. PICK told : told = {Uri(Device, LWM2M_SINGLE_OBJECT_INSTANCE_ID, id) : id \in u.told}
  OBVIOUS
<1>3. Report("device", u.code, told) /\ device' = u.device
  BY <1>1, <1>2, Zenon DEF DeviceUpdated, Device
<1>4. UNCHANGED <<app, sensors>>
  BY <1>1, DeviceFrame
<1>5. PICK quiet : quiet = Unmoved(device, device')
  OBVIOUS
<1>6. DeviceTold(device, device', u.told \cup quiet)
  BY <1>1, <1>3, <1>5 DEF TellsMoved
<1>7. u.told \cap Nat \subseteq OfDevice(told)
  BY <1>2 DEF OfDevice
<1>8. DeviceTold(device, device', OfDevice(told) \cup quiet)
  BY <1>6, <1>7, DeviceIdentifiers DEF DeviceTold, SourcesTold
<1>9. DeviceCovered("device", told)
  BY <1>5, <1>8 DEF DeviceCovered
<1> QED
  BY <1>3, <1>4, <1>9, SameIsCovered DEF StepTells

-----------------------------------------------------------------------------
(* The application's own Object                                            *)

LEMMA AddTells ==
  ASSUME ChangeInv, NEW request \in AddRequests, iowa_client_add_custom_object(request)
  PROVE  StepTells
<1>1. UNCHANGED <<device, sensors>>
  BY Zenon DEF iowa_client_add_custom_object
<1>2. PICK fails, added : /\ added = customObjectAdd(objectList, NewObject(request), fails)
                          /\ \/ UNCHANGED app
                             \/ added.code = NO_ERROR /\ AddCheck(request) = NO_ERROR
                          /\ \E code : Report("add", code, {})
  BY Zenon DEF iowa_client_add_custom_object
<1>3. CASE UNCHANGED app
  BY <1>1, <1>2, <1>3, NothingChanges
<1>4. CASE added.code = NO_ERROR /\ AddCheck(request) = NO_ERROR
  <2>1. ObjectIndex(objectList, request.objectID) = 0
    <3>1. PICK object : object = NewObject(request)
      OBVIOUS
    <3>2. object.objID = request.objectID
      BY <3>1 DEF NewObject
    <3>3. added = customObjectAdd(objectList, object, fails)
      BY <1>2, <3>1
    <3> QED
      BY <1>4, <3>2, <3>3 DEF customObjectAdd, CONFLICT, NO_ERROR
  <2>2. request.objectID = CustomId
    BY <1>4, AddCheckIs
  <2>3. ~HasCustom
    BY <2>1, <2>2 DEF HasCustom
  <2>4. AppCovered({})
    BY <2>3 DEF AppCovered
  <2> QED
    BY <1>1, <1>2, <2>4, SameIsCovered DEF StepTells
<1> QED
  BY <1>2, <1>3, <1>4

LEMMA RemoveTells ==
  ASSUME ChangeInv, NEW id, iowa_client_remove_custom_object(id)
  PROVE  StepTells
<1>1. UNCHANGED <<device, sensors>>
  BY Zenon DEF iowa_client_remove_custom_object
<1>2. (UNCHANGED app \/ app' = <<>>) /\ \E code : Report("remove", code, {})
  BY Zenon DEF iowa_client_remove_custom_object
<1>3. app' = <<>> => AppCovered({})
  BY DEF AppCovered, AppTold
<1> QED
  BY <1>1, <1>2, <1>3, SameIsCovered DEF StepTells

\* An Instance the Object had not changes no value of those it has, and so does
\* one less.
LEMMA HoldingTells ==
  ASSUME NEW S, NEW values, NEW id, id \notin S, NEW new, NEW told
  PROVE  AppTold(S, values, Holding(values, id, new), told)
BY DEF AppTold, Holding

LEMMA RestrictTells ==
  ASSUME NEW S, NEW values, NEW gone, NEW told
  PROVE  AppTold(S, values, Restrict(values, DOMAIN values \ gone), told)
BY DEF AppTold, Restrict

LEMMA CreatedTells ==
  ASSUME Contract, ChangeInv, NEW id \in InstanceIds, InstanceCreated(id)
  PROVE  StepTells
<1>1. UNCHANGED <<device, sensors>> /\ HasCustom
  BY Zenon DEF InstanceCreated
<1>2. PICK fails, added : /\ added = objectAddInstance(CustomObject, id, <<>>, fails)
                          /\ \/ UNCHANGED app
                             \/ added.code = NO_ERROR /\ app' = Holding(app, id, NewValues(CustomObject.resources))
                          /\ \E code : Report("instance", code, {})
  BY Zenon DEF InstanceCreated
<1>3. CASE UNCHANGED app
  BY <1>1, <1>2, <1>3, NothingChanges
<1>4. CASE added.code = NO_ERROR /\ app' = Holding(app, id, NewValues(CustomObject.resources))
  <2>1. Fit(CustomObject) /\ IdentifiersOf(CustomObject.instances) = InstancesOf(CustomObject)
    BY <1>1, CustomIs, InstancesAre DEF ChangeInv, TypeInv
  <2>2. CustomObject.type # "single" /\ added = prv_addInstance(CustomObject, id, NULL, fails)
    BY <1>2, <1>4, <2>1 DEF objectAddInstance, Fit, Types, METHOD_NOT_ALLOWED, NOT_ACCEPTABLE, NO_ERROR
  <2>3. PICK o : o = CustomObject
    OBVIOUS
  <2>4. id \notin InstancesOf(CustomObject)
    BY <1>4, <2>1, <2>2, <2>3, InstanceIsNamed, AddedInstance DEF OneMore
  <2>5. AppTold(InstancesOf(CustomObject), app, app', {})
    BY <1>4, <2>4, HoldingTells
  <2> QED
    BY <1>1, <1>2, <2>5, SameIsCovered DEF StepTells, AppCovered
<1> QED
  BY <1>2, <1>3, <1>4

LEMMA DeletedTells ==
  ASSUME ChangeInv, NEW id, InstanceDeleted(id)
  PROVE  StepTells
<1>1. UNCHANGED <<device, sensors>>
  BY Zenon DEF InstanceDeleted
<1>2. (UNCHANGED app \/ app' = Restrict(app, DOMAIN app \ {id})) /\ \E code : Report("instance", code, {})
  BY Zenon DEF InstanceDeleted
<1>3. AppTold(InstancesOf(CustomObject), app, Restrict(app, DOMAIN app \ {id}), {})
  BY RestrictTells
<1>4. app' = Restrict(app, DOMAIN app \ {id}) => AppCovered({})
  BY <1>3, Zenon DEF AppCovered
<1> QED
  BY <1>1, <1>2, <1>4, SameIsCovered DEF StepTells

LEMMA ValueTells ==
  ASSUME ChangeInv, NEW id, NEW resource, NEW resInstance, NEW value, ValueChanged(id, resource, resInstance, value)
  PROVE  StepTells
<1>1. UNCHANGED <<device, sensors>>
  BY DEF ValueChanged
<1>2. PICK told : told = {Uri(CustomId, id, resource)}
  OBVIOUS
<1>3. Report("changed", NO_ERROR, told)
  BY <1>2 DEF ValueChanged
<1>4. app' = [app EXCEPT ![id][resource][resInstance] = value]
  BY DEF ValueChanged
<1>5. \A S : AppTold(S, app, app', told)
  BY <1>2, <1>4 DEF AppTold
<1> QED
  BY <1>1, <1>3, <1>5, SameIsCovered DEF StepTells, AppCovered

LEMMA CustomTells ==
  ASSUME Contract, ChangeInv, CustomAction
  PROVE  StepTells
BY AddTells, RemoveTells, CreatedTells, DeletedTells, ValueTells, Zenon DEF CustomAction

-----------------------------------------------------------------------------
(* The requests of the Servers about it                                    *)

\* A write leaves the Resources its data do not name.
LEMMA NotWritten ==
  ASSUME NEW values, NEW data, NEW i \in DOMAIN values, NEW r \in DOMAIN values[i],
         \A n \in DOMAIN data : ~(data[n].instance = i /\ data[n].resource = r),
         NEW others, others = AppWritten(values, data)
  PROVE  /\ DOMAIN others = DOMAIN values /\ DOMAIN others[i] = DOMAIN values[i]
         /\ DOMAIN others[i][r] = DOMAIN values[i][r]
         /\ \A ri \in DOMAIN values[i][r] : others[i][r][ri] = values[i][r][ri]
<1> DEFINE of(j, s) == {n \in DOMAIN data : data[n].instance = j /\ data[n].resource = s}
           named(j, s) == {data[n].resInstance : n \in of(j, s)}
           new(j, s) == [ri \in DOMAIN values[j][s] \cup named(j, s) |->
                           IF ri \in named(j, s) THEN data[Max({n \in of(j, s) : data[n].resInstance = ri})].value
                           ELSE values[j][s][ri]]
<1>1. others = [j \in DOMAIN values |-> [s \in DOMAIN values[j] |-> new(j, s)]]
  BY Zenon DEF AppWritten
<1>2. of(i, r) = {}
  OBVIOUS
<1>3. named(i, r) = {}
  BY <1>2
<1>4. DOMAIN new(i, r) = DOMAIN values[i][r] /\ \A ri \in DOMAIN values[i][r] : new(i, r)[ri] = values[i][r][ri]
  BY <1>3
<1> HIDE DEF new
<1> QED
  BY <1>1, <1>4

\* To empty one leaves the others.
LEMMA NotEmptied ==
  ASSUME NEW values, NEW datum, NEW i \in DOMAIN values, NEW r \in DOMAIN values[i],
         ~(datum.instance = i /\ datum.resource = r),
         NEW others, others = AppEmptied(values, datum)
  PROVE  DOMAIN others = DOMAIN values /\ DOMAIN others[i] = DOMAIN values[i] /\ others[i][r] = values[i][r]
BY DEF AppEmptied

LEMMA DataTell ==
  ASSUME NEW data, IsSequence(data), data # <<>>, \A n \in DOMAIN data : data[n].object = CustomId,
         NEW isPartial, NEW others, others = AppWritten(EmptiedBy(data, isPartial), data)
  PROVE  \A S : AppTold(S, app, others, UrisOf(data))
<1>1. PICK base : base = EmptiedBy(data, isPartial)
  OBVIOUS
<1>2. SUFFICES ASSUME NEW i \in DOMAIN app \cap DOMAIN others, NEW r \in DOMAIN app[i] \cap DOMAIN others[i],
                      NEW ri \in DOMAIN app[i][r] \cap DOMAIN others[i][r],
                      Uri(CustomId, i, r) \notin UrisOf(data)
               PROVE  others[i][r][ri] = app[i][r][ri]
  BY DEF AppTold
<1>3. \A n \in DOMAIN data : ~(data[n].instance = i /\ data[n].resource = r)
  BY <1>2 DEF UrisOf
<1>4. 1 \in DOMAIN data
  BY DEF IsSequence
<1>5. i \in DOMAIN base /\ r \in DOMAIN base[i] /\ base[i][r] = app[i][r]
  BY <1>1, <1>3, <1>4, NotEmptied DEF EmptiedBy
<1> QED
  BY <1>1, <1>3, <1>5, NotWritten

\* The data of a Create are those of its new Instance.
LEMMA MadeIs ==
  ASSUME NEW o, NEW c, NEW data, Made(o, c, data), NEW id, c.calls = <<CreateCall(id)>>
  PROVE  \A n \in DOMAIN c.data : c.data[n].instance = id
<1>1. PICK accepts, written, fails : c = object_create(o, data, accepts, written, fails)
  BY DEF Made
<1>2. PICK adapted : adapted = prv_adaptCreatePayload(o, data)
  OBVIOUS
<1>3. CASE adapted.code # NO_ERROR
  BY <1>1, <1>2, <1>3 DEF object_create
<1>4. CASE adapted.code = NO_ERROR
  <2>1. PICK known : known = adapted.data
    OBVIOUS
  <2>2. c = prv_create(o, data, known, accepts, written, fails)
    BY <1>1, <1>2, <1>4, <2>1 DEF object_create
  <2>3. PICK new : new = NewId(o, data)
    OBVIOUS
  <2>4. PICK named : named = [i \in DOMAIN known |-> Moved(known[i], new)]
    OBVIOUS
  <2>5. c.data = named /\ c.calls \in {<<>>, <<CreateCall(new)>>, CreateUndone(new, AddedId(o, data, known))}
    BY <2>2, <2>3, <2>4 DEF prv_create, CreateCall
  <2>6. c.calls = <<CreateCall(new)>>
    BY <2>5 DEF CreateUndone
  <2>7. new = id
    BY <2>6 DEF CreateCall
  <2>8. \A n \in DOMAIN named : named[n].instance = new
    BY <2>4 DEF Moved
  <2> QED
    BY <2>5, <2>7, <2>8
<1> QED
  BY <1>3, <1>4

\* A Create changes no value of the Instances the Object has.
LEMMA CreateLeaves ==
  ASSUME NEW o, NEW c, NEW request, CreateOf(o, c, request), NEW S, S = IdentifiersOf(o.instances)
  PROVE  AppTold(S, app, app', {}) /\ (o.objID # CustomId => app' = app)
<1>1. /\ Fit(o) /\ Outcome(o, c) /\ Made(o, c, request.data)
      /\ app' = IF Len(c.calls) = 1 THEN AppWritten(AppToldOf(app, c.calls), c.data) ELSE AppToldOf(app, c.calls)
  BY Zenon DEF CreateOf
<1>2. PICK called : called = AppToldOf(app, c.calls)
  OBVIOUS
<1>3. CASE c.calls = <<>>
  <2>1. called = app
    BY <1>2, <1>3, ToldDomain
  <2>2. app' = app
    BY <1>1, <1>2, <1>3, <2>1
  <2> QED
    BY <2>2 DEF AppTold
<1>4. ASSUME NEW id, id \notin S, c.calls = <<CreateCall(id)>> PROVE AppTold(S, app, app', {})
  <2>1. called = Holding(app, id, NewValues(CustomObject.resources))
    BY <1>2, <1>4 DEF AppToldOf, AppCreated, CreateCall
  <2>2. PICK others : others = AppWritten(called, c.data)
    OBVIOUS
  <2>3. app' = others
    BY <1>1, <1>2, <1>4, <2>2
  <2>4. \A n \in DOMAIN c.data : c.data[n].instance = id
    BY <1>1, <1>4, MadeIs
  <2>5. SUFFICES ASSUME NEW i \in S \cap DOMAIN app, NEW r \in DOMAIN app[i], NEW ri \in DOMAIN app[i][r]
                 PROVE  others[i][r][ri] = app[i][r][ri]
    BY <2>3 DEF AppTold
  <2>6. i \in DOMAIN called /\ called[i] = app[i] /\ r \in DOMAIN called[i] /\ ri \in DOMAIN called[i][r]
    BY <1>4, <2>1 DEF Holding
  <2>7. \A n \in DOMAIN c.data : ~(c.data[n].instance = i /\ c.data[n].resource = r)
    BY <1>4, <2>4
  <2> QED
    BY <2>2, <2>6, <2>7, NotWritten
<1>5. ASSUME NEW id, id \notin S, c.calls = <<CreateCall(id), DeleteCall(id)>> PROVE AppTold(S, app, app', {})
  <2>1. PICK new : new = Holding(app, id, NewValues(CustomObject.resources))
    OBVIOUS
  <2>2. called = Restrict(new, DOMAIN new \ {id})
    <3>1. PICK first : first = CreateCall(id)
      OBVIOUS
    <3>2. PICK then : then = DeleteCall(id)
      OBVIOUS
    <3>3. first.operation = "CREATE" /\ first.instance = id /\ then.operation = "DELETE" /\ then.instance = id
      BY <3>1, <3>2 DEF CreateCall, DeleteCall
    <3>4. AppCreated(app, first) = new
      BY <2>1, <3>3 DEF AppCreated
    <3>5. AppCreated(new, then) = Restrict(new, DOMAIN new \ {id})
      BY <3>3 DEF AppCreated
    <3>6. called = AppToldOf(app, <<first, then>>)
      BY <1>2, <1>5, <3>1, <3>2
    <3> QED
      BY <3>4, <3>5, <3>6 DEF AppToldOf
  <2>3. \A i \in S \cap DOMAIN app : called[i] = app[i]
    BY <1>5, <2>1, <2>2 DEF Holding, Restrict
  <2>4. app' = called
    BY <1>1, <1>2, <1>5
  <2> QED
    BY <2>3, <2>4 DEF AppTold
<1>6. \/ c.calls = <<>>
      \/ o.instanceCb /\ \E id : id \notin S /\ c.calls \in {<<CreateCall(id)>>, <<CreateCall(id), DeleteCall(id)>>}
  BY <1>1 DEF Outcome, Creates, Undoes, LeavesOne
<1>7. o.instanceCb => o.objID = CustomId
  BY <1>1 DEF Fit
<1>8. c.calls = <<>> => app' = app
  <2>1. SUFFICES ASSUME c.calls = <<>> PROVE app' = app
    OBVIOUS
  <2>2. app' = AppToldOf(app, <<>>)
    BY <1>1, <2>1
  <2> QED
    BY <2>2, ToldDomain
<1> QED
  BY <1>3, <1>4, <1>5, <1>6, <1>7, <1>8

LEMMA CreateTells ==
  ASSUME ChangeInv, NEW request \in uses.requests, Create(request)
  PROVE  StepTells
<1>1. UNCHANGED <<device, sensors>>
  BY CreateFrame
<1>2. \E code : Report("create", code, {})
  BY Zenon DEF Create, Created
<1>3. CASE UNCHANGED app
  BY <1>1, <1>2, <1>3, NothingChanges
<1>4. ASSUME NEW o, NEW c, CreateOf(o, c, request), ~UNCHANGED app PROVE AppCovered({})
  <2>1. o = ObjectOf(objectList, request.uri.object) /\ o.objID = request.uri.object
    BY <1>4, Zenon DEF CreateOf
  <2>2. PICK S : S = IdentifiersOf(o.instances)
    OBVIOUS
  <2>3. AppTold(S, app, app', {}) /\ o.objID = CustomId
    BY <1>4, <2>2, CreateLeaves
  <2>4. o = CustomObject
    BY <2>1, <2>3 DEF CustomObject
  <2>5. S = InstancesOf(CustomObject)
    BY <2>2, <2>4, InstancesAre
  <2> QED
    BY <2>3, <2>5 DEF AppCovered
<1> QED
  BY <1>1, <1>2, <1>3, <1>4, CreateDoes, SameIsCovered DEF ChangeInv, TypeInv, StepTells

LEMMA DeleteTells ==
  ASSUME ChangeInv, NEW request, Delete(request)
  PROVE  StepTells
<1>1. UNCHANGED <<device, sensors>>
  BY CreateFrame
<1>2. /\ UNCHANGED app \/ app' = Restrict(app, DOMAIN app \ {request.uri.instance})
      /\ \E code : Report("delete", code, {})
  BY Zenon DEF Delete
<1>3. AppTold(InstancesOf(CustomObject), app, Restrict(app, DOMAIN app \ {request.uri.instance}), {})
  BY RestrictTells
<1>4. app' = Restrict(app, DOMAIN app \ {request.uri.instance}) => AppCovered({})
  BY <1>3, Zenon DEF AppCovered
<1> QED
  BY <1>1, <1>2, <1>4, SameIsCovered DEF StepTells

-----------------------------------------------------------------------------
(* The Resources of a sensor, by the type of its Object                    *)

Exactly(ids, S) == IsSequence(ids) /\ ToSet(ids) = S
Some(ids, S) == IsSequence(ids) /\ ToSet(ids) \subseteq S

LEMMA TwoSequences ==
  ASSUME NEW s, NEW t, IsSequence(s), IsSequence(t)
  PROVE  IsSequence(s \o t) /\ ToSet(s \o t) = ToSet(s) \cup ToSet(t)
<1> DEFINE S == ToSet(s) \cup ToSet(t)
<1>1. s \in Seq(S) /\ t \in Seq(S)
  BY DEF IsSequence
<1>2. PICK u : u = s \o t
  OBVIOUS
<1>3. /\ u \in Seq(S) /\ Len(u) = Len(s) + Len(t)
      /\ \A i \in 1..Len(u) : u[i] = IF i <= Len(s) THEN s[i] ELSE t[i - Len(s)]
  <2> HIDE DEF S
  <2> QED
    BY <1>1, <1>2, ConcatProperties
<1>4. IsSequence(u)
  BY <1>3, OwnElements
<1>5. /\ Len(s) \in Nat /\ Len(t) \in Nat
      /\ \A i \in 1..Len(s) : s[i] \in ToSet(s)
      /\ \A e \in ToSet(s) : \E i \in 1..Len(s) : s[i] = e
      /\ \A i \in 1..Len(t) : t[i] \in ToSet(t)
      /\ \A e \in ToSet(t) : \E i \in 1..Len(t) : t[i] = e
  BY SequenceIs
<1>6. /\ \A i \in 1..Len(u) : u[i] \in ToSet(u)
      /\ \A e \in ToSet(u) : \E i \in 1..Len(u) : u[i] = e
  BY <1>4, SequenceIs
<1>7. ToSet(s) \subseteq ToSet(u)
  <2>1. \A i \in 1..Len(s) : i \in 1..Len(u) /\ u[i] = s[i]
    BY <1>3, <1>5
  <2> QED
    BY <1>5, <1>6, <2>1
<1>8. ToSet(t) \subseteq ToSet(u)
  <2>1. \A i \in 1..Len(t) : i + Len(s) \in 1..Len(u) /\ u[i + Len(s)] = t[i]
    BY <1>3, <1>5
  <2> QED
    BY <1>5, <1>6, <2>1
<1>9. ToSet(u) \subseteq S
  <2>1. \A i \in 1..Len(u) : u[i] \in S
    <3> SUFFICES ASSUME NEW i \in 1..Len(u) PROVE u[i] \in S
      OBVIOUS
    <3>1. CASE i <= Len(s)
      BY <1>3, <1>5, <3>1
    <3>2. CASE ~(i <= Len(s))
      <4>1. i - Len(s) \in 1..Len(t)
        BY <1>3, <1>5, <3>2
      <4> QED
        BY <1>3, <1>5, <3>2, <4>1
    <3> QED
      BY <3>1, <3>2
  <2> QED
    BY <1>6, <2>1
<1> QED
  BY <1>2, <1>4, <1>7, <1>8, <1>9

LEMMA JoinedExactly ==
  ASSUME NEW s, NEW t, NEW S, NEW T, Exactly(s, S), Exactly(t, T)
  PROVE  Exactly(s \o t, S \cup T)
BY TwoSequences DEF Exactly

LEMMA JoinedSome ==
  ASSUME NEW s, NEW t, NEW S, Some(s, S), Some(t, S)
  PROVE  Some(s \o t, S)
BY TwoSequences DEF Some

LEMMA OptionalSome ==
  ASSUME NEW ids, NEW S, Some(ids, S), NEW b
  PROVE  Some(IF b THEN ids ELSE <<>>, S)
<1>1. Some(<<>>, S)
  BY EmptyList DEF Some, IsList
<1> QED
  BY <1>1

LEMMA OneExactly ==
  ASSUME NEW a
  PROVE  Exactly(<<a>>, {a})
BY OneElement DEF Exactly, IsList

LEMMA TwoExactly ==
  ASSUME NEW a, NEW b
  PROVE  Exactly(<<a, b>>, {a, b})
<1> DEFINE two == <<a, b>>
<1>1. two \in Seq({a, b}) /\ DOMAIN two = 1..2 /\ two[1] = a /\ two[2] = b
  OBVIOUS
<1>2. 1..2 = {1, 2}
  OBVIOUS
<1> HIDE DEF two
<1>3. ToSet(two) = {a, b}
  BY <1>1, <1>2 DEF ToSet
<1>4. IsSequence(two)
  BY <1>1, OwnElements
<1> QED
  BY <1>3, <1>4 DEF Exactly, two

LEMMA ThreeExactly ==
  ASSUME NEW a, NEW b, NEW c
  PROVE  Exactly(<<a, b, c>>, {a, b, c})
<1> DEFINE three == <<a, b, c>>
<1>1. three \in Seq({a, b, c}) /\ DOMAIN three = 1..3 /\ three[1] = a /\ three[2] = b /\ three[3] = c
  OBVIOUS
<1>2. 1..3 = {1, 2, 3}
  OBVIOUS
<1> HIDE DEF three
<1>3. ToSet(three) = {a, b, c}
  BY <1>1, <1>2 DEF ToSet
<1>4. IsSequence(three)
  BY <1>1, OwnElements
<1> QED
  BY <1>3, <1>4 DEF Exactly, three

LEMMA FourExactly ==
  ASSUME NEW a, NEW b, NEW c, NEW d
  PROVE  Exactly(<<a, b, c, d>>, {a, b, c, d})
<1> DEFINE four == <<a, b, c, d>>
<1>1. four \in Seq({a, b, c, d}) /\ DOMAIN four = 1..4 /\ four[1] = a /\ four[2] = b /\ four[3] = c /\ four[4] = d
  OBVIOUS
<1>2. 1..4 = {1, 2, 3, 4}
  OBVIOUS
<1> HIDE DEF four
<1>3. ToSet(four) = {a, b, c, d}
  BY <1>1, <1>2 DEF ToSet
<1>4. IsSequence(four)
  BY <1>1, OwnElements
<1> QED
  BY <1>3, <1>4 DEF Exactly, four

MeasuredFamily == {RSC.MIN_MEASURED_VALUE, RSC.MAX_MEASURED_VALUE, RSC.RESET_MIN_AND_MAX_MEASURED_VALUES}
RangeFamily == {RSC.MIN_RANGE_VALUE, RSC.MAX_RANGE_VALUE}
DigitalFamily == {RSC.DIGITAL_INPUT_STATE, RSC.DIGITAL_INPUT_COUNTER}

Family(type) ==
  CASE type = IPSO.ANALOG_INPUT ->
         {RSC.ANALOG_INPUT_CURRENT_VALUE} \cup MeasuredFamily \cup RangeFamily \cup {RSC.APPLICATION_TYPE}
    [] type = IPSO.ENERGY -> {RSC.SENSOR_VALUE, RSC.RESET_CUMULATIVE_ENERGY, RSC.SENSOR_UNITS, RSC.APPLICATION_TYPE}
    [] type = IPSO.DIRECTION -> {RSC.COMPASS_DIRECTION, RSC.APPLICATION_TYPE} \cup MeasuredFamily
    [] type \in Digital -> DigitalFamily \cup {RSC.APPLICATION_TYPE}
    [] type = IPSO.PRESENCE -> DigitalFamily \cup {RSC.SENSOR_TYPE, RSC.DIGITAL_INPUT_COUNTER_RESET}
    [] OTHER -> {RSC.SENSOR_VALUE} \cup MeasuredFamily \cup {RSC.SENSOR_UNITS} \cup RangeFamily
                  \cup (IF type \in NoApplicationType THEN {} ELSE {RSC.APPLICATION_TYPE})

LEMMA Families == /\ Exactly(MinAndMax, MeasuredFamily) /\ Exactly(MinAndMaxRange, RangeFamily)
                  /\ Exactly(DigitalState, DigitalFamily)
BY TwoExactly, ThreeExactly, Zenon DEF MinAndMax, MeasuredFamily, MinAndMaxRange, RangeFamily, DigitalState, DigitalFamily

\* The descriptors of the Object are those of its family.
LEMMA FamilyDescribed ==
  ASSUME NEW type, NEW resources, resources = prv_getResourceDesc(type)
  PROVE  /\ \A id \in Family(type) : \E n \in DOMAIN resources : resources[n] = IpsoDescriptor(id)
         /\ \A n \in DOMAIN resources : resources[n].id \in Family(type)
<1> DEFINE analog == <<RSC.ANALOG_INPUT_CURRENT_VALUE>> \o MinAndMax \o MinAndMaxRange \o <<RSC.APPLICATION_TYPE>>
           energy == <<RSC.SENSOR_VALUE, RSC.RESET_CUMULATIVE_ENERGY, RSC.SENSOR_UNITS, RSC.APPLICATION_TYPE>>
           direction == <<RSC.COMPASS_DIRECTION, RSC.APPLICATION_TYPE>> \o MinAndMax
           digital == DigitalState \o <<RSC.APPLICATION_TYPE>>
           presence == DigitalState \o <<RSC.SENSOR_TYPE, RSC.DIGITAL_INPUT_COUNTER_RESET>>
           own == IF type \in NoApplicationType THEN <<>> ELSE <<RSC.APPLICATION_TYPE>>
           other == <<RSC.SENSOR_VALUE>> \o MinAndMax \o <<RSC.SENSOR_UNITS>> \o MinAndMaxRange \o own
           ids == CASE type = IPSO.ANALOG_INPUT -> analog
                    [] type = IPSO.ENERGY -> energy
                    [] type = IPSO.DIRECTION -> direction
                    [] type \in Digital -> digital
                    [] type = IPSO.PRESENCE -> presence
                    [] OTHER -> other
<1>1. resources = [i \in DOMAIN ids |-> IpsoDescriptor(ids[i])]
  BY Zenon DEF prv_getResourceDesc
<1>2. Exactly(analog, {RSC.ANALOG_INPUT_CURRENT_VALUE} \cup MeasuredFamily \cup RangeFamily \cup {RSC.APPLICATION_TYPE})
  BY Families, OneExactly, JoinedExactly
<1>3. Exactly(energy, {RSC.SENSOR_VALUE, RSC.RESET_CUMULATIVE_ENERGY, RSC.SENSOR_UNITS, RSC.APPLICATION_TYPE})
  BY FourExactly, Zenon
<1>4. Exactly(direction, {RSC.COMPASS_DIRECTION, RSC.APPLICATION_TYPE} \cup MeasuredFamily)
  BY Families, TwoExactly, JoinedExactly
<1>5. Exactly(digital, DigitalFamily \cup {RSC.APPLICATION_TYPE})
  BY Families, OneExactly, JoinedExactly
<1>6. Exactly(presence, DigitalFamily \cup {RSC.SENSOR_TYPE, RSC.DIGITAL_INPUT_COUNTER_RESET})
  BY Families, TwoExactly, JoinedExactly
<1>7. Exactly(own, IF type \in NoApplicationType THEN {} ELSE {RSC.APPLICATION_TYPE})
  BY EmptyList, OneExactly DEF Exactly, IsList
<1> HIDE DEF own
<1>8. Exactly(other, {RSC.SENSOR_VALUE} \cup MeasuredFamily \cup {RSC.SENSOR_UNITS} \cup RangeFamily
                       \cup (IF type \in NoApplicationType THEN {} ELSE {RSC.APPLICATION_TYPE}))
  BY <1>7, Families, OneExactly, JoinedExactly
<1> HIDE DEF analog, energy, direction, digital, presence, other
<1>9. Exactly(ids, Family(type))
  BY <1>2, <1>3, <1>4, <1>5, <1>6, <1>8 DEF Family
<1>10. PICK list : list = ids
  OBVIOUS
<1> HIDE DEF ids
<1>11. /\ DOMAIN list = 1..Len(list) /\ \A n \in 1..Len(list) : list[n] \in Family(type)
       /\ \A id \in Family(type) : \E n \in 1..Len(list) : list[n] = id
  BY <1>9, <1>10, SequenceIs DEF Exactly
<1>12. \A id : IpsoDescriptor(id).id = id
  BY DEF IpsoDescriptor
<1> QED
  BY <1>1, <1>10, <1>11, <1>12

\* A sensor has some of them.
LEMMA FamilyHas ==
  ASSUME NEW type, NEW r, NEW u, NEW a
  PROVE  Some(prv_getResourceList(type, r, u, a), Family(type))
<1> DEFINE with(b, ids) == IF b THEN ids ELSE <<>>
           units == with(u, <<RSC.SENSOR_UNITS>>)
           app_ == with(a, <<RSC.APPLICATION_TYPE>>)
           kind_ == with(a, <<RSC.SENSOR_TYPE>>)
           own == with(type \notin NoApplicationType /\ a, <<RSC.APPLICATION_TYPE>>)
           bounds == with(r, MinAndMaxRange)
           reset == <<RSC.DIGITAL_INPUT_COUNTER_RESET>>
           first == <<RSC.SENSOR_VALUE, RSC.RESET_CUMULATIVE_ENERGY>>
           analog == <<RSC.ANALOG_INPUT_CURRENT_VALUE>> \o MinAndMax \o app_ \o bounds
           energy == first \o units \o app_
           direction == <<RSC.COMPASS_DIRECTION>> \o app_ \o MinAndMax
           digital == DigitalState \o app_
           presence == DigitalState \o kind_ \o reset
           other == <<RSC.SENSOR_VALUE>> \o MinAndMax \o units \o own \o bounds
           F == Family(type)
<1>1. prv_getResourceList(type, r, u, a) =
        CASE type = IPSO.ANALOG_INPUT -> analog
          [] type = IPSO.ENERGY -> energy
          [] type = IPSO.DIRECTION -> direction
          [] type \in Digital -> digital
          [] type = IPSO.PRESENCE -> presence
          [] OTHER -> other
  BY Zenon DEF prv_getResourceList
<1>2. ASSUME NEW S, RSC.SENSOR_UNITS \in S PROVE Some(units, S)
  BY <1>2, OneExactly, OptionalSome DEF Exactly, Some
<1>3. ASSUME NEW S, RSC.APPLICATION_TYPE \in S PROVE Some(app_, S)
  BY <1>3, OneExactly, OptionalSome DEF Exactly, Some
<1>4. ASSUME NEW S, RSC.SENSOR_TYPE \in S PROVE Some(kind_, S)
  BY <1>4, OneExactly, OptionalSome DEF Exactly, Some
<1>5. ASSUME NEW S, type \notin NoApplicationType => RSC.APPLICATION_TYPE \in S PROVE Some(own, S)
  <2>1. Some(<<>>, S)
    BY EmptyList DEF Some, IsList
  <2>2. RSC.APPLICATION_TYPE \in S => Some(<<RSC.APPLICATION_TYPE>>, S)
    BY OneExactly DEF Exactly, Some
  <2> QED
    BY <1>5, <2>1, <2>2
<1>6. ASSUME NEW S, RangeFamily \subseteq S PROVE Some(bounds, S)
  BY <1>6, Families, OptionalSome DEF Exactly, Some
<1>7. ASSUME NEW S, MeasuredFamily \subseteq S PROVE Some(MinAndMax, S)
  BY <1>7, Families DEF Exactly, Some
<1>8. ASSUME NEW S, DigitalFamily \subseteq S PROVE Some(DigitalState, S)
  BY <1>8, Families DEF Exactly, Some
<1>9. ASSUME NEW S, NEW e \in S PROVE Some(<<e>>, S)
  BY OneExactly DEF Exactly, Some
<1>10. ASSUME NEW S, NEW e \in S, NEW f \in S PROVE Some(<<e, f>>, S)
  BY TwoExactly DEF Exactly, Some
<1> HIDE DEF units, app_, kind_, own, bounds
<1>11. ASSUME type = IPSO.ANALOG_INPUT PROVE Some(analog, F)
  <2>1. F = {RSC.ANALOG_INPUT_CURRENT_VALUE} \cup MeasuredFamily \cup RangeFamily \cup {RSC.APPLICATION_TYPE}
    BY <1>11 DEF Family, IPSO, Digital
  <2> HIDE DEF F
  <2>2. Some(<<RSC.ANALOG_INPUT_CURRENT_VALUE>>, F) /\ Some(MinAndMax, F) /\ Some(app_, F) /\ Some(bounds, F)
    BY <1>3, <1>6, <1>7, <1>9, <2>1
  <2> QED
    BY <2>2, JoinedSome
<1>12. ASSUME type = IPSO.ENERGY PROVE Some(energy, F)
  <2>1. F = {RSC.SENSOR_VALUE, RSC.RESET_CUMULATIVE_ENERGY, RSC.SENSOR_UNITS, RSC.APPLICATION_TYPE}
    BY <1>12 DEF Family, IPSO, Digital
  <2> HIDE DEF F
  <2>2. Some(first, F) /\ Some(units, F) /\ Some(app_, F)
    BY <1>2, <1>3, <1>10, <2>1
  <2> HIDE DEF first
  <2> QED
    BY <2>2, JoinedSome
<1>13. ASSUME type = IPSO.DIRECTION PROVE Some(direction, F)
  <2>1. F = {RSC.COMPASS_DIRECTION, RSC.APPLICATION_TYPE} \cup MeasuredFamily
    BY <1>13 DEF Family, IPSO, Digital
  <2> HIDE DEF F
  <2>2. Some(<<RSC.COMPASS_DIRECTION>>, F) /\ Some(app_, F) /\ Some(MinAndMax, F)
    BY <1>3, <1>7, <1>9, <2>1
  <2> QED
    BY <2>2, JoinedSome
<1>14. ASSUME type \in Digital PROVE Some(digital, F)
  <2>1. F = DigitalFamily \cup {RSC.APPLICATION_TYPE}
    BY <1>14 DEF Family, IPSO, Digital
  <2> HIDE DEF F
  <2>2. Some(DigitalState, F) /\ Some(app_, F)
    BY <1>3, <1>8, <2>1
  <2> QED
    BY <2>2, JoinedSome
<1>15. ASSUME type = IPSO.PRESENCE PROVE Some(presence, F)
  <2>1. F = DigitalFamily \cup {RSC.SENSOR_TYPE, RSC.DIGITAL_INPUT_COUNTER_RESET}
    BY <1>15 DEF Family, IPSO, Digital
  <2> HIDE DEF F
  <2>2. Some(DigitalState, F) /\ Some(kind_, F) /\ Some(reset, F)
    BY <1>4, <1>8, <1>9, <2>1
  <2> HIDE DEF reset
  <2> QED
    BY <2>2, JoinedSome
<1>16. ASSUME type \notin {IPSO.ANALOG_INPUT, IPSO.ENERGY, IPSO.DIRECTION, IPSO.PRESENCE} \cup Digital PROVE Some(other, F)
  <2>1. F = {RSC.SENSOR_VALUE} \cup MeasuredFamily \cup {RSC.SENSOR_UNITS} \cup RangeFamily
              \cup (IF type \in NoApplicationType THEN {} ELSE {RSC.APPLICATION_TYPE})
    BY <1>16 DEF Family
  <2> HIDE DEF F
  <2>2. Some(<<RSC.SENSOR_VALUE>>, F) /\ Some(MinAndMax, F) /\ Some(units, F) /\ Some(own, F) /\ Some(bounds, F)
    BY <1>2, <1>5, <1>6, <1>7, <1>9, <2>1
  <2> QED
    BY <2>2, JoinedSome
<1> HIDE DEF analog, energy, direction, digital, presence, other, F
<1>17. Some(prv_getResourceList(type, r, u, a), F)
  BY <1>1, <1>11, <1>12, <1>13, <1>14, <1>15, <1>16
<1> QED
  BY <1>17 DEF F

\* What the Resources of a type exclude.
LEMMA FamilyIs ==
  ASSUME NEW type, NEW F, F = Family(type)
  PROVE  /\ RSC.APPLICATION_TYPE \in F => RSC.SENSOR_TYPE \notin F
         /\ RSC.RESET_MIN_AND_MAX_MEASURED_VALUES \in F => RSC.DIGITAL_INPUT_COUNTER \notin F
         /\ RSC.DIGITAL_INPUT_COUNTER \in F => RSC.MAX_MEASURED_VALUE \notin F
         /\ RSC.DIGITAL_INPUT_COUNTER_RESET \in F => RSC.MAX_MEASURED_VALUE \notin F
         /\ RSC.RESET_CUMULATIVE_ENERGY \in F => type = IPSO.ENERGY
         /\ RSC.COMPASS_DIRECTION \in F => RSC.ANALOG_INPUT_CURRENT_VALUE \notin F /\ RSC.SENSOR_VALUE \notin F
         /\ RSC.ANALOG_INPUT_CURRENT_VALUE \in F => RSC.SENSOR_VALUE \notin F
         /\ RSC.DIGITAL_INPUT_STATE \in F =>
              F \cap {RSC.SENSOR_VALUE, RSC.ANALOG_INPUT_CURRENT_VALUE, RSC.COMPASS_DIRECTION,
                      RSC.MIN_MEASURED_VALUE, RSC.MAX_MEASURED_VALUE} = {}
<1>1. \/ F = {RSC.ANALOG_INPUT_CURRENT_VALUE} \cup MeasuredFamily \cup RangeFamily \cup {RSC.APPLICATION_TYPE}
      \/ /\ type = IPSO.ENERGY
         /\ F = {RSC.SENSOR_VALUE, RSC.RESET_CUMULATIVE_ENERGY, RSC.SENSOR_UNITS, RSC.APPLICATION_TYPE}
      \/ F = {RSC.COMPASS_DIRECTION, RSC.APPLICATION_TYPE} \cup MeasuredFamily
      \/ F = DigitalFamily \cup {RSC.APPLICATION_TYPE}
      \/ F = DigitalFamily \cup {RSC.SENSOR_TYPE, RSC.DIGITAL_INPUT_COUNTER_RESET}
      \/ F \subseteq {RSC.SENSOR_VALUE} \cup MeasuredFamily \cup {RSC.SENSOR_UNITS} \cup RangeFamily \cup {RSC.APPLICATION_TYPE}
  BY DEF Family
<1>2. /\ RSC.DIGITAL_INPUT_STATE = 5500 /\ RSC.DIGITAL_INPUT_COUNTER = 5501 /\ RSC.DIGITAL_INPUT_COUNTER_RESET = 5505
      /\ RSC.ANALOG_INPUT_CURRENT_VALUE = 5600 /\ RSC.MIN_MEASURED_VALUE = 5601 /\ RSC.MAX_MEASURED_VALUE = 5602
      /\ RSC.MIN_RANGE_VALUE = 5603 /\ RSC.MAX_RANGE_VALUE = 5604 /\ RSC.RESET_MIN_AND_MAX_MEASURED_VALUES = 5605
      /\ RSC.SENSOR_VALUE = 5700 /\ RSC.SENSOR_UNITS = 5701 /\ RSC.COMPASS_DIRECTION = 5705
      /\ RSC.APPLICATION_TYPE = 5750 /\ RSC.SENSOR_TYPE = 5751 /\ RSC.RESET_CUMULATIVE_ENERGY = 5822
  BY DEF RSC
<1> QED
  BY <1>1, <1>2 DEF MeasuredFamily, RangeFamily, DigitalFamily

-----------------------------------------------------------------------------
(* The steps of the sensors                                                *)

ValueIdentifiers == {RSC.SENSOR_VALUE, RSC.ANALOG_INPUT_CURRENT_VALUE, RSC.COMPASS_DIRECTION}

\* What a sensor gives of each of its Resources.
LEMMA ReadsAre ==
  ASSUME NEW s, NEW t, NEW r, IpsoRead(s, r) # IpsoRead(t, r)
  PROVE  \/ r \in ValueIdentifiers \cup {RSC.DIGITAL_INPUT_STATE} /\ s.value # t.value
         \/ r = RSC.MIN_MEASURED_VALUE /\ s.min # t.min
         \/ r \in {RSC.MAX_MEASURED_VALUE, RSC.DIGITAL_INPUT_COUNTER} /\ s.max # t.max
         \/ r = RSC.SENSOR_UNITS /\ s.unit # t.unit
         \/ r \in {RSC.APPLICATION_TYPE, RSC.SENSOR_TYPE} /\ s.appType # t.appType
<1>1. /\ RSC.DIGITAL_INPUT_STATE = 5500 /\ RSC.DIGITAL_INPUT_COUNTER = 5501
      /\ RSC.ANALOG_INPUT_CURRENT_VALUE = 5600 /\ RSC.MIN_MEASURED_VALUE = 5601 /\ RSC.MAX_MEASURED_VALUE = 5602
      /\ RSC.SENSOR_VALUE = 5700 /\ RSC.SENSOR_UNITS = 5701 /\ RSC.COMPASS_DIRECTION = 5705
      /\ RSC.APPLICATION_TYPE = 5750 /\ RSC.SENSOR_TYPE = 5751
  BY DEF RSC
<1>2. CASE r \in ValueIdentifiers
  <2>1. IpsoRead(s, r) = s.value /\ IpsoRead(t, r) = t.value
    BY <1>1, <1>2 DEF IpsoRead, ValueIdentifiers
  <2> QED
    BY <1>2, <2>1
<1>3. CASE r = RSC.DIGITAL_INPUT_STATE
  <2>1. /\ IpsoRead(s, r) = IF s.value # 0 THEN 1 ELSE 0
        /\ IpsoRead(t, r) = IF t.value # 0 THEN 1 ELSE 0
    BY <1>1, <1>3 DEF IpsoRead
  <2> QED
    BY <1>3, <2>1
<1>4. CASE r = RSC.MIN_MEASURED_VALUE
  <2>1. IpsoRead(s, r) = s.min /\ IpsoRead(t, r) = t.min
    BY <1>1, <1>4 DEF IpsoRead
  <2> QED
    BY <1>4, <2>1
<1>5. CASE r \in {RSC.MAX_MEASURED_VALUE, RSC.DIGITAL_INPUT_COUNTER}
  <2>1. IpsoRead(s, r) = s.max /\ IpsoRead(t, r) = t.max
    BY <1>1, <1>5 DEF IpsoRead
  <2> QED
    BY <1>5, <2>1
<1>6. CASE r = RSC.SENSOR_UNITS
  <2>1. IpsoRead(s, r) = s.unit /\ IpsoRead(t, r) = t.unit
    BY <1>1, <1>6 DEF IpsoRead
  <2> QED
    BY <1>6, <2>1
<1>7. CASE r \in {RSC.APPLICATION_TYPE, RSC.SENSOR_TYPE}
  <2>1. IpsoRead(s, r) = s.appType /\ IpsoRead(t, r) = t.appType
    BY <1>1, <1>7 DEF IpsoRead
  <2> QED
    BY <1>7, <2>1
<1>8. CASE r \notin ValueIdentifiers \cup {RSC.DIGITAL_INPUT_STATE, RSC.MIN_MEASURED_VALUE, RSC.MAX_MEASURED_VALUE,
             RSC.DIGITAL_INPUT_COUNTER, RSC.SENSOR_UNITS, RSC.APPLICATION_TYPE, RSC.SENSOR_TYPE}
  <2>1. IpsoRead(s, r) = 0 /\ IpsoRead(t, r) = 0
    BY <1>8 DEF IpsoRead, ValueIdentifiers
  <2> QED
    BY <2>1
<1> QED
  BY <1>2, <1>3, <1>4, <1>5, <1>6, <1>7, <1>8

\* What an update tells: nothing changes; the value of a digital sensor does,
\* and its counter if it has one; or another value does, and its extremes.
LEMMA UpdateIs ==
  ASSUME NEW s, GoodSensor(s), NEW H, IsSequence(H), NEW value, NEW u, u = prv_updateResourceValues(s, H, value)
  PROVE  /\ u.sensor.unit = s.unit /\ u.sensor.appType = s.appType
         /\ \/ u.sensor.value = s.value /\ u.sensor.min = s.min /\ u.sensor.max = s.max
            \/ /\ RSC.DIGITAL_INPUT_STATE \in ToSet(H) \cap u.told /\ u.sensor.min = s.min
               /\ u.sensor.max = s.max \/ RSC.DIGITAL_INPUT_COUNTER \in ToSet(H) \cap u.told
            \/ /\ RSC.DIGITAL_INPUT_STATE \notin ToSet(H) /\ ValueResource(H) \in u.told
               /\ u.sensor.min = s.min \/ RSC.MIN_MEASURED_VALUE \in u.told
               /\ u.sensor.max = s.max \/ RSC.MAX_MEASURED_VALUE \in ToSet(H) \cap u.told
<1> DEFINE has(id) == Contains(H, id)
           lower == has(RSC.MIN_MEASURED_VALUE) /\ value < s.min
           higher == ~lower /\ has(RSC.MAX_MEASURED_VALUE) /\ value > s.max
           low == IF lower THEN value ELSE s.min
           high == IF higher THEN value ELSE s.max
           more == [s EXCEPT !.max = @ + 1]
           spread == [s EXCEPT !.min = low, !.max = high]
           told == {ValueResource(H)} \cup (IF lower THEN {RSC.MIN_MEASURED_VALUE} ELSE {})
                     \cup (IF higher THEN {RSC.MAX_MEASURED_VALUE} ELSE {})
<1>0. \A x : has(x) <=> x \in ToSet(H)
  BY SequenceIs DEF Contains
<1>1. CASE value = s.value
  <2>1. u.sensor = [s EXCEPT !.value = value]
    BY <1>1 DEF prv_updateResourceValues
  <2> QED
    BY <1>1, <2>1 DEF GoodSensor
<1>2. CASE value # s.value /\ has(RSC.DIGITAL_INPUT_STATE)
  <2>1. CASE has(RSC.DIGITAL_INPUT_COUNTER) /\ value > s.value
    <3>1. u.sensor = [more EXCEPT !.value = value]
      BY <1>2, <2>1 DEF prv_updateResourceValues
    <3>2. u.told = {RSC.DIGITAL_INPUT_STATE, RSC.DIGITAL_INPUT_COUNTER}
      BY <1>2, <2>1 DEF prv_updateResourceValues
    <3>3. u.sensor.unit = s.unit /\ u.sensor.appType = s.appType /\ u.sensor.min = s.min
      BY <3>1 DEF GoodSensor
    <3> QED
      BY <1>0, <1>2, <2>1, <3>2, <3>3
  <2>2. CASE ~(has(RSC.DIGITAL_INPUT_COUNTER) /\ value > s.value)
    <3>1. u.sensor = [s EXCEPT !.value = value]
      BY <1>2, <2>2 DEF prv_updateResourceValues
    <3>2. u.told = {RSC.DIGITAL_INPUT_STATE}
      BY <1>2, <2>2 DEF prv_updateResourceValues
    <3>3. u.sensor.unit = s.unit /\ u.sensor.appType = s.appType /\ u.sensor.min = s.min /\ u.sensor.max = s.max
      BY <3>1 DEF GoodSensor
    <3> QED
      BY <1>0, <1>2, <3>2, <3>3
  <2> QED
    BY <2>1, <2>2
<1>3. CASE value # s.value /\ ~has(RSC.DIGITAL_INPUT_STATE)
  <2>1. u.sensor = [spread EXCEPT !.value = value]
    BY <1>3 DEF prv_updateResourceValues
  <2>2. u.told = told
    BY <1>3 DEF prv_updateResourceValues
  <2>3. /\ u.sensor.unit = s.unit /\ u.sensor.appType = s.appType /\ u.sensor.min = low /\ u.sensor.max = high
    BY <2>1 DEF GoodSensor
  <2>4. low = s.min \/ lower
    OBVIOUS
  <2>5. high = s.max \/ higher
    OBVIOUS
  <2>6. ValueResource(H) \in told /\ (lower => RSC.MIN_MEASURED_VALUE \in told) /\ (higher => RSC.MAX_MEASURED_VALUE \in told)
    OBVIOUS
  <2>7. higher => RSC.MAX_MEASURED_VALUE \in ToSet(H)
    BY <1>0
  <2>8. RSC.DIGITAL_INPUT_STATE \notin ToSet(H)
    BY <1>0, <1>3
  <2> HIDE DEF low, high, lower, higher, told
  <2> QED
    BY <2>2, <2>3, <2>4, <2>5, <2>6, <2>7, <2>8
<1> QED
  BY <1>1, <1>2, <1>3

LEMMA UpdateTells ==
  ASSUME NEW s, GoodSensor(s), NEW H, NEW type, Some(H, Family(type)), NEW value,
         NEW u, u = prv_updateResourceValues(s, H, value), NEW r \in ToSet(H), IpsoRead(s, r) # IpsoRead(u.sensor, r)
  PROVE  r \in u.told
<1>1. PICK F : F = Family(type)
  OBVIOUS
<1>2. IsSequence(H) /\ ToSet(H) \subseteq F
  BY <1>1 DEF Some
<1>3. /\ RSC.DIGITAL_INPUT_COUNTER \in F => RSC.MAX_MEASURED_VALUE \notin F
      /\ RSC.COMPASS_DIRECTION \in F => RSC.ANALOG_INPUT_CURRENT_VALUE \notin F /\ RSC.SENSOR_VALUE \notin F
      /\ RSC.ANALOG_INPUT_CURRENT_VALUE \in F => RSC.SENSOR_VALUE \notin F
      /\ RSC.DIGITAL_INPUT_STATE \in F =>
           F \cap {RSC.SENSOR_VALUE, RSC.ANALOG_INPUT_CURRENT_VALUE, RSC.COMPASS_DIRECTION,
                   RSC.MIN_MEASURED_VALUE, RSC.MAX_MEASURED_VALUE} = {}
  BY <1>1, FamilyIs
<1>4. \A x : Contains(H, x) <=> x \in ToSet(H)
  BY <1>2, SequenceIs DEF Contains
<1>5. r \in ValueIdentifiers => ValueResource(H) = r
  BY <1>2, <1>3, <1>4 DEF ValueIdentifiers, ValueResource
<1>6. PICK t : t = u.sensor
  OBVIOUS
<1>7. /\ t.unit = s.unit /\ t.appType = s.appType
      /\ \/ t.value = s.value /\ t.min = s.min /\ t.max = s.max
         \/ /\ RSC.DIGITAL_INPUT_STATE \in ToSet(H) \cap u.told /\ t.min = s.min
            /\ t.max = s.max \/ RSC.DIGITAL_INPUT_COUNTER \in ToSet(H) \cap u.told
         \/ /\ RSC.DIGITAL_INPUT_STATE \notin ToSet(H) /\ ValueResource(H) \in u.told
            /\ t.min = s.min \/ RSC.MIN_MEASURED_VALUE \in u.told
            /\ t.max = s.max \/ RSC.MAX_MEASURED_VALUE \in ToSet(H) \cap u.told
  BY <1>2, <1>6, UpdateIs
<1>8. \/ r \in ValueIdentifiers \cup {RSC.DIGITAL_INPUT_STATE} /\ s.value # t.value
      \/ r = RSC.MIN_MEASURED_VALUE /\ s.min # t.min
      \/ r \in {RSC.MAX_MEASURED_VALUE, RSC.DIGITAL_INPUT_COUNTER} /\ s.max # t.max
  BY <1>6, <1>7, ReadsAre
<1>9. r \in F
  BY <1>2
<1> QED
  BY <1>2, <1>3, <1>5, <1>7, <1>8, <1>9 DEF ValueIdentifiers

\* The reset of the energy apart, an execution tells of what it changes.
LEMMA ResetTells ==
  ASSUME NEW s, GoodSensor(s), NEW H, NEW type, Some(H, Family(type)), type # IPSO.ENERGY,
         NEW resource \in Family(type), NEW argument, NEW e, e = IpsoExecute(s, resource, argument),
         NEW r \in ToSet(H), IpsoRead(s, r) # IpsoRead(e.sensor, r)
  PROVE  r \in e.told
<1>1. PICK F : F = Family(type)
  OBVIOUS
<1>2. r \in F /\ resource \in F
  BY <1>1 DEF Some
<1>3. /\ RSC.RESET_MIN_AND_MAX_MEASURED_VALUES \in F => RSC.DIGITAL_INPUT_COUNTER \notin F
      /\ RSC.DIGITAL_INPUT_COUNTER_RESET \in F => RSC.MAX_MEASURED_VALUE \notin F
      /\ RSC.RESET_CUMULATIVE_ENERGY \notin F
  BY <1>1, FamilyIs
<1>4. PICK t : t = e.sensor
  OBVIOUS
<1>5. \/ t = s
      \/ /\ resource = RSC.RESET_MIN_AND_MAX_MEASURED_VALUES /\ t = [s EXCEPT !.min = s.value, !.max = s.value]
         /\ e.told = {RSC.MIN_MEASURED_VALUE, RSC.MAX_MEASURED_VALUE}
      \/ resource = RSC.RESET_CUMULATIVE_ENERGY
      \/ /\ resource = RSC.DIGITAL_INPUT_COUNTER_RESET /\ t = [s EXCEPT !.max = 0]
         /\ e.told = {RSC.DIGITAL_INPUT_COUNTER}
  BY <1>4 DEF IpsoExecute
<1>6. /\ t.unit = s.unit /\ t.appType = s.appType /\ t.value = s.value
      /\ \/ t.min = s.min /\ t.max = s.max
         \/ /\ resource = RSC.RESET_MIN_AND_MAX_MEASURED_VALUES
            /\ e.told = {RSC.MIN_MEASURED_VALUE, RSC.MAX_MEASURED_VALUE}
         \/ /\ resource = RSC.DIGITAL_INPUT_COUNTER_RESET /\ t.min = s.min /\ e.told = {RSC.DIGITAL_INPUT_COUNTER}
  BY <1>2, <1>3, <1>5 DEF GoodSensor
<1>7. \/ r = RSC.MIN_MEASURED_VALUE /\ s.min # t.min
      \/ r \in {RSC.MAX_MEASURED_VALUE, RSC.DIGITAL_INPUT_COUNTER} /\ s.max # t.max
  BY <1>4, <1>6, ReadsAre
<1> QED
  BY <1>2, <1>3, <1>6, <1>7

\* What is written of a sensor is its application type.
LEMMA TypeTells ==
  ASSUME NEW s, GoodSensor(s), NEW H, NEW type, Some(H, Family(type)), RSC.APPLICATION_TYPE \in Family(type),
         NEW t, Retyped(s, t), NEW r \in ToSet(H), IpsoRead(s, r) # IpsoRead(t, r)
  PROVE  r = RSC.APPLICATION_TYPE
<1>1. PICK F : F = Family(type)
  OBVIOUS
<1>2. r \in F /\ RSC.APPLICATION_TYPE \in F
  BY <1>1 DEF Some
<1>3. RSC.SENSOR_TYPE \notin F
  BY <1>1, <1>2, FamilyIs
<1>4. PICK value : t = [s EXCEPT !.appType = value]
  BY DEF Retyped
<1>5. t.unit = s.unit /\ t.value = s.value /\ t.min = s.min /\ t.max = s.max
  BY <1>4 DEF GoodSensor
<1>6. r \in {RSC.APPLICATION_TYPE, RSC.SENSOR_TYPE}
  BY <1>5, ReadsAre
<1> QED
  BY <1>2, <1>3, <1>6

\* A sensor that stays as it is, or that is new, needs not be told;
LEMMA OwnOrNew ==
  ASSUME NEW list, GoodSensors(list), NEW others, NEW told,
         \A t \in ToSet(others) : t \in ToSet(list) \/ t.id \notin IdentifiersOf(list)
  PROVE  SensorsTold(list, others, told)
BY DEF SensorsTold, GoodSensors, IdentifiersOf

\* of one that changes the Resources are told that do.
LEMMA OneIsTold ==
  ASSUME NEW list, GoodSensors(list), NEW index \in 1..Len(list), NEW t, t.id = list[index].id, NEW told,
         \A r \in ToSet(SensorHas) \ IpsoExecutable :
           IpsoRead(list[index], r) # IpsoRead(t, r) => Uri(uses.type, t.id, r) \in told
  PROVE  SensorsTold(list, With(list, index, t), told)
<1>1. IsList(list) /\ list[index] \in ToSet(list)
  BY ListIs DEF GoodSensors
<1>2. t \notin ToSet(list) \ {list[index]}
  BY <1>1 DEF GoodSensors
<1>3. PICK others : others = With(list, index, t)
  OBVIOUS
<1>4. ToSet(others) = (ToSet(list) \ {list[index]}) \cup {t}
  BY <1>1, <1>2, <1>3, Replaced
<1> QED
  BY <1>1, <1>3, <1>4 DEF SensorsTold, GoodSensors

\* The Resources of a sensor are those of its Instance.
LEMMA InstanceHas ==
  ASSUME ChangeInv, UsesSensors, NEW id \in IdentifiersOf(sensors), NEW o, o = ObjectOf(objectList, uses.type)
  PROVE  /\ o.instances[object_getInstanceIndex(o, id)].resources = SensorHas /\ object_getInstanceIndex(o, id) # 0
         /\ o \in ToSet(objectList) /\ o.objID = uses.type /\ Fit(o) /\ o.resources = prv_getResourceDesc(uses.type)
<1>0. OwnedInv
  BY DEF ChangeInv, TypeInv
<1>1. sensors # <<>>
  BY EmptyList DEF IdentifiersOf
<1>2.   /\ o \in ToSet(objectList) /\ o.objID = uses.type /\ Fit(o)
      /\ IdentifiersOf(sensors) \subseteq IdentifiersOf(o.instances)
  BY <1>0, <1>1, SensorObjectIs
<1>3. id # ALL
  <2>1. ALL \notin 0..(ALL - 1)
    BY AllIsNone
  <2> QED
    BY <1>2, <2>1 DEF Fit
<1>4. Uniform(o, SensorHas) /\ o.resources = prv_getResourceDesc(uses.type)
  BY <1>0, <1>2, SensorsHaveTheirOwn DEF ChangeInv, ShapedInv, ShapedList
<1>5. GoodObject(o)
  BY <1>2 DEF Fit
<1>6. PICK index : index = object_getInstanceIndex(o, id)
  OBVIOUS
<1>7. index \in 1..Len(o.instances) /\ o.instances[index] \in ToSet(o.instances)
  BY <1>2, <1>3, <1>5, <1>6, InstanceIndexIs
<1>8. index # 0
  BY <1>7
<1> QED
  BY <1>2, <1>4, <1>6, <1>7, <1>8 DEF Uniform

LEMMA SensorIsNew ==
  ASSUME ChangeInv, NEW value, iowa_client_IPSO_add_sensor(value)
  PROVE  StepTells
<1> DEFINE longer == <<NewSensor(NewSensorId(sensors), value, uses.unit, uses.appType, uses.range)>> \o sensors
<1>1. UNCHANGED <<app, device>>
  BY DEF iowa_client_IPSO_add_sensor
<1>2. PICK objectFails \in Fails, instanceFails \in Fails :
        /\ IF SensorAdded(value, objectFails, instanceFails).code # NO_ERROR THEN UNCHANGED <<sensors, seen>>
           ELSE sensors' = longer
        /\ Report("sensor", SensorAdded(value, objectFails, instanceFails).code, {})
  BY Zenon DEF iowa_client_IPSO_add_sensor
<1>3. PICK code : code = SensorAdded(value, objectFails, instanceFails).code
  OBVIOUS
<1>4. Report("sensor", code, {}) /\ (UNCHANGED sensors \/ sensors' = longer)
  BY <1>2, <1>3
<1>5. GoodSensors(sensors)
  BY SensorsAre DEF ChangeInv, TypeInv
<1>6. PICK new : new = NewSensor(NewSensorId(sensors), value, uses.unit, uses.appType, uses.range)
  OBVIOUS
<1>7. new.id \notin IdentifiersOf(sensors)
  <2>1. new.id = NewSensorId(sensors)
    BY <1>6 DEF NewSensor
  <2> QED
    BY <1>5, <2>1, NewSensorIs
<1>8. IsList(sensors) /\ new \notin ToSet(sensors)
  BY <1>5, <1>7 DEF GoodSensors, IdentifiersOf
<1>9. ToSet(<<new>> \o sensors) = ToSet(sensors) \cup {new}
  BY <1>8, AddedFirst
<1>10. longer = <<new>> \o sensors
  BY <1>6
<1> HIDE DEF longer
<1>11. CASE sensors' = longer
  <2>1. SensorsTold(sensors, sensors', {})
    BY <1>5, <1>7, <1>9, <1>10, <1>11, OwnOrNew
  <2> QED
    BY <1>1, <1>4, <2>1, SameIsCovered DEF StepTells, SensorsCovered
<1> QED
  BY <1>1, <1>4, <1>11, NothingChanges

LEMMA SensorIsGone ==
  ASSUME ChangeInv, UsesSensors, NEW id, iowa_client_IPSO_remove_sensor(id)
  PROVE  StepTells
<1>1. UNCHANGED <<app, device>>
  BY DEF iowa_client_IPSO_remove_sensor
<1>2. \E code : /\ Report("sensor", code, {})
                /\ UNCHANGED sensors \/ (SensorIndex(id) # 0 /\ sensors' = RemoveAt(sensors, SensorIndex(id)))
  BY Zenon DEF iowa_client_IPSO_remove_sensor
<1>3. PICK code : /\ Report("sensor", code, {})
                  /\ UNCHANGED sensors \/ (SensorIndex(id) # 0 /\ sensors' = RemoveAt(sensors, SensorIndex(id)))
  BY <1>2
<1>4. GoodSensors(sensors)
  BY SensorsAre DEF ChangeInv, TypeInv
<1>5. CASE SensorIndex(id) # 0 /\ sensors' = RemoveAt(sensors, SensorIndex(id))
  <2>1. SensorIndex(id) \in 1..Len(sensors)
    BY <1>4, <1>5, SensorFound
  <2>2. IsList(sensors)
    BY <1>4 DEF GoodSensors
  <2>3. ToSet(sensors') \subseteq ToSet(sensors)
    BY <1>5, <2>1, <2>2, Removed
  <2>4. SensorsTold(sensors, sensors', {})
    BY <1>4, <2>3, OwnOrNew
  <2> QED
    BY <1>1, <1>3, <2>4, SameIsCovered DEF StepTells, SensorsCovered
<1> QED
  BY <1>1, <1>3, <1>5, NothingChanges

LEMMA SensorChanges ==
  ASSUME ChangeInv, NEW id, NEW value, iowa_client_IPSO_update_value(id, value)
  PROVE  StepTells
<1> DEFINE index == SensorIndex(id)
           object == ObjectOf(objectList, uses.type)
           resources == object.instances[object_getInstanceIndex(object, id)].resources
           update == prv_updateResourceValues(sensors[index], resources, value)
           told == {Uri(uses.type, id, r) : r \in update.told}
<1>1. UsesSensors /\ UNCHANGED <<app, device>>
  BY DEF iowa_client_IPSO_update_value
<1>2. \/ UNCHANGED sensors /\ \E code : Report("sensor", code, {})
      \/ index # 0 /\ sensors' = With(sensors, index, update.sensor) /\ Report("sensor", NO_ERROR, told)
  BY Zenon DEF iowa_client_IPSO_update_value, With
<1>3. CASE UNCHANGED sensors /\ \E code : Report("sensor", code, {})
  BY <1>1, <1>3, NothingChanges
<1>4. CASE index # 0 /\ sensors' = With(sensors, index, update.sensor) /\ Report("sensor", NO_ERROR, told)
  <2>1. GoodSensors(sensors)
    BY SensorsAre DEF ChangeInv, TypeInv
  <2>2. /\ index \in 1..Len(sensors) /\ GoodSensor(sensors[index]) /\ sensors[index].id = id
        /\ sensors[index] \in ToSet(sensors)
    BY <1>4, <2>1, SensorFound
  <2>3. id \in IdentifiersOf(sensors)
    BY <2>2 DEF IdentifiersOf
  <2>4. resources = SensorHas
    BY <1>1, <2>3, InstanceHas
  <2>5. PICK u : u = update
    OBVIOUS
  <2>6. PICK s : s = sensors[index]
    OBVIOUS
  <2>7. u = prv_updateResourceValues(s, SensorHas, value)
    BY <2>4, <2>5, <2>6
  <2>8. u.sensor.id = s.id
    BY <2>2, <2>6, <2>7, UpdateSensor
  <2>9. Some(SensorHas, Family(uses.type))
    BY FamilyHas DEF SensorHas
  <2> HIDE DEF index, update
  <2>10. ASSUME NEW r \in ToSet(SensorHas) \ IpsoExecutable, IpsoRead(s, r) # IpsoRead(u.sensor, r)
         PROVE  Uri(uses.type, u.sensor.id, r) \in told
    <3>1. r \in u.told
      BY <2>2, <2>6, <2>7, <2>9, <2>10, UpdateTells
    <3> QED
      BY <2>2, <2>5, <2>6, <2>8, <3>1
  <2> HIDE DEF told
  <2>11. SensorsTold(sensors, sensors', told)
    BY <1>4, <2>1, <2>2, <2>5, <2>6, <2>8, <2>10, OneIsTold
  <2> QED
    BY <1>1, <1>4, <2>11, SameIsCovered DEF StepTells, SensorsCovered
<1> QED
  BY <1>2, <1>3, <1>4

LEMMA SensorTells ==
  ASSUME ChangeInv, SensorAction
  PROVE  StepTells
BY SensorIsNew, SensorIsGone, SensorChanges, Zenon DEF SensorAction

-----------------------------------------------------------------------------
(* The requests of a Server                                                *)

\* The Object a request is about has its shape.
LEMMA NamedObjectIs ==
  ASSUME ChangeInv, NEW id, ObjectIndex(objectList, id) # 0, NEW o, o = ObjectOf(objectList, id)
  PROVE  /\ o \in ToSet(objectList) /\ o.objID = id /\ Fit(o) /\ Belongs(uses, o, sensors) /\ Shaped(uses, o)
<1>1. GoodList(objectList) /\ \A p \in ToSet(objectList) : Fit(p) /\ Belongs(uses, p, sensors)
  BY DEF ChangeInv, TypeInv, OwnedInv, OwnedBy
<1>2. o \in ToSet(objectList) /\ o.objID = id
  BY <1>1, ObjectOfIs
<1> QED
  BY <1>1, <1>2 DEF ChangeInv, ShapedInv, ShapedList

\* Neither the application's Object nor the device: it is that of the sensors.
LEMMA OtherObjectIs ==
  ASSUME ChangeInv, NEW id, id \notin {CustomId, Device}, ObjectIndex(objectList, id) # 0,
         NEW o, o = ObjectOf(objectList, id)
  PROVE  UsesSensors /\ id = uses.type /\ o.resources = prv_getResourceDesc(uses.type)
<1>1. o.objID = id /\ Belongs(uses, o, sensors) /\ Shaped(uses, o)
  BY NamedObjectIs
<1> QED
  BY <1>1 DEF Shaped, Belongs, UsesSensors

\* The device has one Instance.
LEMMA DeviceObjectIs ==
  ASSUME ChangeInv, ObjectIndex(objectList, Device) # 0, NEW o, o = ObjectOf(objectList, Device)
  PROVE  /\ Fit(o) /\ o.resources = DeviceResources(uses.options)
         /\ \A id : object_getInstanceIndex(o, id) # 0 => id = LWM2M_SINGLE_OBJECT_INSTANCE_ID
<1>1. o.objID = Device /\ Fit(o) /\ Belongs(uses, o, sensors) /\ Shaped(uses, o)
  BY NamedObjectIs
<1>2. IdentifiersOf(o.instances) = {LWM2M_SINGLE_OBJECT_INSTANCE_ID}
  BY <1>1 DEF Shaped
<1>3. ASSUME NEW id, object_getInstanceIndex(o, id) # 0 PROVE id = LWM2M_SINGLE_OBJECT_INSTANCE_ID
  <2>1. PICK index : index = object_getInstanceIndex(o, id)
    OBVIOUS
  <2>2. GoodObject(o)
    BY <1>1 DEF Fit
  <2>3. o.instances[index] \in ToSet(o.instances) /\ o.instances[index].id = id
    BY <1>3, <2>1, <2>2, InstanceIndexIs
  <2>4. id \in IdentifiersOf(o.instances)
    BY <2>3 DEF IdentifiersOf
  <2> QED
    BY <1>2, <2>4
<1> QED
  BY <1>1, <1>3 DEF Belongs, Device

LEMMA RefuseTells ==
  ASSUME ChangeInv, NEW request, Refuse(request)
  PROVE  StepTells
<1>1. UNCHANGED <<app, device, sensors>>
  BY RefuseFrame
<1>2. \E code : Report("refused", code, {})
  BY Zenon DEF Refuse
<1> QED
  BY <1>1, <1>2, NothingChanges

LEMMA WriteStepTells ==
  ASSUME ChangeInv, NEW request \in uses.requests, Write(request)
  PROVE  StepTells
<1> DEFINE data == request.data
           name == Operation(request).name
           o == ObjectOf(objectList, request.uri.object)
           checked == IF data # <<>> /\ ObjectIndex(objectList, request.uri.object) = 0 THEN NOT_FOUND
                      ELSE object_checkWritePayload(o, data)
<1>1. \/ UNCHANGED <<app, device, sensors>> /\ Report(name, checked, {})
      \/ \E refuses, w : /\ w = Written(request, name = "write", refuses) /\ checked = NO_ERROR
                         /\ app' = w.app /\ device' = w.device /\ sensors' = w.sensors
                         /\ Report(name, IF w.code = NO_ERROR THEN CHANGED ELSE w.code,
                                   IF w.code = NO_ERROR THEN UrisOf(data) ELSE {})
  BY Zenon DEF Write
<1>2. CASE UNCHANGED <<app, device, sensors>> /\ Report(name, checked, {})
  BY <1>2, NothingChanges
<1>3. ASSUME NEW refuses, NEW w, w = Written(request, name = "write", refuses), checked = NO_ERROR,
             app' = w.app, device' = w.device, sensors' = w.sensors,
             Report(name, IF w.code = NO_ERROR THEN CHANGED ELSE w.code, IF w.code = NO_ERROR THEN UrisOf(data) ELSE {})
      PROVE  StepTells
  <2>1. NOT_FOUND # NO_ERROR /\ BAD_REQUEST # NO_ERROR
    BY DEF NOT_FOUND, BAD_REQUEST, NO_ERROR
  <2>2. data # <<>>
    BY <1>3, <2>1 DEF object_checkWritePayload
  <2>3. ObjectIndex(objectList, request.uri.object) # 0 /\ object_checkWritePayload(o, data) = NO_ERROR
    BY <1>3, <2>1, <2>2
  <2>4. IsSequence(data) /\ \A datum \in ToSet(data) : datum.object = request.uri.object
    BY ManagementAssumption DEF ManagementAssumption, ChangeInv, TypeInv, OwnedInv, IsSequence
  <2>5. PICK isPartial : isPartial = (name = "write")
    OBVIOUS
  <2>6. PICK code, told : /\ code = IF w.code = NO_ERROR THEN CHANGED ELSE w.code
                          /\ told = IF w.code = NO_ERROR THEN UrisOf(data) ELSE {}
    OBVIOUS
  <2>7. Report(name, code, told)
    BY <1>3, <2>6
  <2>8. w.code = BAD_REQUEST => StepTells
    <3>1. w.code = BAD_REQUEST => code >= BAD_REQUEST
      <4>1. BAD_REQUEST \in Nat
        BY DEF BAD_REQUEST
      <4> QED
        BY <2>1, <2>6, <4>1
    <3> QED
      BY <2>7, <3>1 DEF StepTells
  <2>9. 1 \in DOMAIN data /\ \A n \in DOMAIN data : data[n].object = request.uri.object
    <3> HIDE DEF data
    <3>1. Len(data) \in Nat /\ DOMAIN data = 1..Len(data) /\ \A n \in 1..Len(data) : data[n] \in ToSet(data)
      BY <2>4, SequenceIs
    <3>2. Len(data) # 0
      <4>1. Len(data) = 0 => ToSet(data) = {}
        BY <3>1 DEF ToSet
      <4> QED
        BY <2>2, <2>4, <4>1, NoElement
    <3> QED
      BY <2>4, <3>1, <3>2
  <2>10. PICK p : p = o
    OBVIOUS
  <2>11. Fit(p) /\ IsSequence(p.resources)
    BY <2>3, <2>10, NamedObjectIs DEF Fit, Described
  <2>12. ASSUME NEW n \in DOMAIN data
         PROVE  /\ \E i \in DOMAIN p.resources : p.resources[i].id = data[n].resource
                /\ object_getInstanceIndex(p, data[n].instance) # 0
    <3> HIDE DEF data
    <3> QED
      BY <2>3, <2>4, <2>10, <2>11, <2>12, PayloadIs
  <2>13. w = Written(request, isPartial, refuses)
    BY <1>3, <2>5
  <2> HIDE DEF name
  <2>14. \/ /\ request.uri.object = CustomId
            /\ \/ w.code = BAD_REQUEST
               \/ w.code = NO_ERROR /\ w.app = AppWritten(EmptiedBy(data, isPartial), data)
            /\ w.device = device /\ w.sensors = sensors
         \/ /\ request.uri.object = Device
            /\ w.code = DeviceWrite(device, data).code /\ w.device = DeviceWrite(device, data).device
            /\ w.app = app /\ w.sensors = sensors
         \/ /\ request.uri.object \notin {CustomId, Device}
            /\ w.code = IpsoWrite(sensors, data).code /\ w.sensors = IpsoWrite(sensors, data).sensors
            /\ w.app = app /\ w.device = device
    BY <2>13, WriteIs DEF Device
  <2> HIDE DEF checked
  <2>15. CASE /\ request.uri.object = CustomId
              /\ \/ w.code = BAD_REQUEST
                 \/ w.code = NO_ERROR /\ w.app = AppWritten(EmptiedBy(data, isPartial), data)
              /\ w.device = device /\ w.sensors = sensors
    <3>1. CASE w.code = NO_ERROR /\ w.app = AppWritten(EmptiedBy(data, isPartial), data)
      <4>1. \A n \in DOMAIN data : data[n].object = CustomId
        BY <2>9, <2>15
      <4> HIDE DEF data
      <4>2. \A S : AppTold(S, app, app', UrisOf(data))
        BY <1>3, <2>2, <2>4, <3>1, <4>1, DataTell
      <4>3. told = UrisOf(data)
        BY <2>6, <3>1
      <4> QED
        BY <1>3, <2>7, <2>15, <4>2, <4>3, SameIsCovered DEF StepTells, AppCovered
    <3> QED
      BY <2>8, <2>15, <3>1
  <2>16. CASE /\ request.uri.object = Device
              /\ w.code = DeviceWrite(device, data).code /\ w.device = DeviceWrite(device, data).device
              /\ w.app = app /\ w.sensors = sensors
    <3>1. CASE w.code = NO_ERROR
      <4>1. told = UrisOf(data)
        BY <2>6, <3>1
      <4>2. o = ObjectOf(objectList, Device) /\ ObjectIndex(objectList, Device) # 0
        BY <2>3, <2>16
      <4>3. p.resources = DeviceResources(uses.options)
        BY <2>10, <4>2, DeviceObjectIs
      <4>4. \A n \in DOMAIN data : data[n].instance = LWM2M_SINGLE_OBJECT_INSTANCE_ID
        BY <2>10, <2>12, <4>2, DeviceObjectIs
      <4>5. ASSUME NEW n \in DOMAIN data PROVE data[n].resource \in OfDevice(told)
        <5>1. Uri(Device, LWM2M_SINGLE_OBJECT_INSTANCE_ID, data[n].resource) \in told
          BY <2>9, <2>16, <4>1, <4>4 DEF UrisOf
        <5>2. data[n].resource \in Nat
          <6>1. PICK i \in DOMAIN p.resources : p.resources[i].id = data[n].resource
            BY <2>12
          <6>2. i \in DOMAIN DeviceIds(uses.options) /\ p.resources[i].id = DeviceIds(uses.options)[i]
            BY <4>3, <6>1 DEF DeviceResources, DeviceDescriptor
          <6>3. IsList(DeviceIds(uses.options)) /\ ToSet(DeviceIds(uses.options)) \subseteq Nat
            BY DeviceIdsAre DEF Within
          <6>4. PICK ids : ids = DeviceIds(uses.options)
            OBVIOUS
          <6>5. ids[i] \in ToSet(ids)
            BY <6>2, <6>3, <6>4, ListIs
          <6> QED
            BY <6>1, <6>2, <6>3, <6>4, <6>5
        <5> QED
          BY <5>1, <5>2 DEF OfDevice
      <4>6. GoodDevice(device) /\ SourcesAre(device)
        BY DEF ChangeInv, TypeInv, HeldInv, PowerInv
      <4>7. DeviceTold(device, device', OfDevice(told))
        <5> HIDE DEF data
        <5> QED
          BY <1>3, <2>16, <4>5, <4>6, WriteTells
      <4>8. DeviceCovered(name, told)
        BY <4>7, MoreTold DEF DeviceCovered
      <4> QED
        BY <1>3, <2>7, <2>16, <4>8, SameIsCovered DEF StepTells
    <3>2. CASE w.code = BAD_REQUEST
      BY <2>8, <3>2
    <3>3. w.code \in {NO_ERROR, BAD_REQUEST}
      BY <2>16, DeviceCode
    <3> QED
      BY <3>1, <3>2, <3>3
  <2>17. CASE /\ request.uri.object \notin {CustomId, Device}
              /\ w.code = IpsoWrite(sensors, data).code /\ w.sensors = IpsoWrite(sensors, data).sensors
              /\ w.app = app /\ w.device = device
    <3>1. UsesSensors /\ request.uri.object = uses.type /\ p.resources = prv_getResourceDesc(uses.type)
      BY <2>3, <2>10, <2>17, OtherObjectIs
    <3>2. GoodSensors(sensors)
      BY SensorsAre DEF ChangeInv, TypeInv
    <3>3. PICK written : written = IpsoWrite(sensors, data).sensors
      OBVIOUS
    <3>4. /\ IsList(sensors) /\ GoodSensors(written) /\ DOMAIN written = 1..Len(sensors)
          /\ \A i \in 1..Len(sensors) : written[i].id = sensors[i].id
      BY <3>2, <3>3, WriteSensors DEF GoodSensors
    <3>5. Some(SensorHas, Family(uses.type))
      BY FamilyHas DEF SensorHas
    <3>6. \A n \in DOMAIN data : data[n].resource \in Family(uses.type)
      <4>1. \A n \in DOMAIN p.resources : p.resources[n].id \in Family(uses.type)
        BY <3>1, FamilyDescribed
      <4> QED
        BY <2>12, <4>1
    <3>7. CASE w.code = NO_ERROR
      <4>1. told = UrisOf(data)
        BY <2>6, <3>7
      <4>2. ASSUME NEW i \in 1..Len(sensors), NEW r \in ToSet(SensorHas) \ IpsoExecutable,
                   IpsoRead(sensors[i], r) # IpsoRead(written[i], r)
            PROVE  Uri(uses.type, sensors[i].id, r) \in told
        <5> HIDE DEF data
        <5>1. i \in DOMAIN sensors /\ GoodSensor(sensors[i])
          BY <3>2, <3>4, ListIs DEF GoodSensors
        <5>2. HasDatum(data, sensors[i].id, RSC.APPLICATION_TYPE) /\ Retyped(sensors[i], written[i])
          BY <3>3, <4>2, <5>1, WrittenSensor
        <5>3. PICK n \in DOMAIN data : data[n].instance = sensors[i].id /\ data[n].resource = RSC.APPLICATION_TYPE
          BY <5>2 DEF HasDatum
        <5>4. RSC.APPLICATION_TYPE \in Family(uses.type)
          BY <3>6, <5>3
        <5>5. r = RSC.APPLICATION_TYPE
          BY <3>5, <4>2, <5>1, <5>2, <5>4, TypeTells
        <5>6. data[n].object = uses.type
          BY <2>9, <3>1
        <5> QED
          BY <4>1, <5>3, <5>5, <5>6 DEF UrisOf
      <4>3. SensorsTold(sensors, written, told)
        <5>1. ASSUME NEW s \in ToSet(sensors), NEW t \in ToSet(written), s.id = t.id
              PROVE  \E i \in 1..Len(sensors) : s = sensors[i] /\ t = written[i]
          <6>1. PICK i \in 1..Len(sensors) : s = sensors[i]
            BY <3>4, ListIs DEF ToSet
          <6>2. PICK j \in 1..Len(sensors) : t = written[j]
            BY <3>4 DEF ToSet
          <6>3. sensors[j].id = sensors[i].id /\ sensors[j] \in ToSet(sensors)
            BY <3>4, <5>1, <6>1, <6>2, ListIs
          <6>4. sensors[i] = sensors[j]
            BY <3>2, <6>1, <6>3 DEF GoodSensors
          <6>5. i = j
            BY <3>4, <6>4, ListIs DEF IsList, Distinct
          <6> QED
            BY <6>1, <6>2, <6>5
        <5> QED
          BY <4>2, <5>1 DEF SensorsTold
      <4>4. sensors' = written
        BY <1>3, <2>17, <3>3
      <4>5. SensorsCovered(name, told)
        BY <4>3, <4>4 DEF SensorsCovered
      <4> QED
        BY <1>3, <2>7, <2>17, <4>5, SameIsCovered DEF StepTells
    <3>8. CASE w.code # NO_ERROR
      <4>1. code = w.code /\ w.code = METHOD_NOT_ALLOWED
        BY <2>6, <2>17, <3>8 DEF IpsoWrite
      <4>2. code >= BAD_REQUEST
        BY <4>1 DEF METHOD_NOT_ALLOWED, BAD_REQUEST
      <4> QED
        BY <2>7, <4>2 DEF StepTells
    <3> QED
      BY <3>7, <3>8
  <2> QED
    BY <2>14, <2>15, <2>16, <2>17
<1> QED
  BY <1>1, <1>2, <1>3

\* What is executed is a Resource of an Instance.
LEMMA ExecuteNamesOne ==
  ASSUME NEW request, Operation(request).name = "execute"
  PROVE  request.uri.instance # ALL /\ request.uri.resource # ALL
<1> SUFFICES ASSUME request.uri.instance = ALL \/ request.uri.resource = ALL PROVE FALSE
  OBVIOUS
<1> DEFINE refused(code) == [name |-> "refused", code |-> code]
           operation(name) == [name |-> name, code |-> NO_ERROR]
           ofInstance == request.uri.instance # ALL
           ofResource == request.uri.resource # ALL
           observes == request.observe # NULL
           link == request.accept = "link"
           multiple == IsMultiple(request.uri)
           empty == request.data = <<>>
           get == IF ~empty \/ (link /\ observes) THEN refused(BAD_REQUEST) ELSE operation(IF link THEN "discover" ELSE "read")
           post == IF observes \/ (~ofInstance /\ empty) THEN refused(BAD_REQUEST)
                   ELSE operation(IF ~ofInstance THEN "create" ELSE IF ~ofResource \/ multiple THEN "write" ELSE "execute")
           put == IF observes \/ (IF request.query THEN ~empty ELSE ~ofInstance) THEN refused(BAD_REQUEST)
                  ELSE operation(IF request.query THEN "attributes" ELSE "replace")
           delete == IF observes \/ ~empty \/ ~ofInstance \/ ofResource THEN refused(BAD_REQUEST) ELSE operation("delete")
<1>1. Operation(request) \in {refused(UNAUTHORIZED), operation("ignored"), refused(BAD_REQUEST),
                              refused(UNSUPPORTED_CONTENT_FORMAT), refused(NOT_IMPLEMENTED), get, post, put, delete}
  BY DEF Operation
<1>2. get.name # "execute" /\ post.name # "execute" /\ put.name # "execute" /\ delete.name # "execute"
  OBVIOUS
<1>3. \A code : refused(code).name # "execute"
  OBVIOUS
<1>4. operation("ignored").name # "execute"
  OBVIOUS
<1> HIDE DEF get, post, put, delete, refused, operation
<1> QED
  BY <1>1, <1>2, <1>3, <1>4

\* and it is found.
LEMMA ExecutedIsThere ==
  ASSUME ChangeInv, NEW uri, uri.instance # ALL, uri.resource # ALL,
         object_execute(objectList, uri, NO_ERROR) = CHANGED,
         NEW o, o = ObjectOf(objectList, uri.object)
  PROVE  /\ ObjectIndex(objectList, uri.object) # 0 /\ object_getInstanceIndex(o, uri.instance) # 0
         /\ \E n \in DOMAIN o.resources : o.resources[n].id = uri.resource
<1>1. NOT_FOUND # CHANGED /\ METHOD_NOT_ALLOWED # CHANGED /\ NOT_FOUND # NO_ERROR
  BY DEF NOT_FOUND, METHOD_NOT_ALLOWED, CHANGED, NO_ERROR
<1>2. object_find(objectList, uri) = NO_ERROR
  BY <1>1, Zenon DEF object_execute
<1>3. /\ ObjectIndex(objectList, uri.object) # 0 /\ object_getInstanceIndex(o, uri.instance) # 0
      /\ prv_getResourceIndex(o, object_getInstanceIndex(o, uri.instance), uri.resource) # 0
  BY <1>1, <1>2 DEF object_find, ObjectOf
<1>4. IsSequence(o.resources)
  BY <1>3, NamedObjectIs DEF Fit, Described
<1> QED
  BY <1>3, <1>4, ResourceIndexIs

LEMMA ExecuteStepTells ==
  ASSUME ChangeInv, NEW request, Execute(request)
  PROVE  StepTells
<1> DEFINE uri == request.uri
           index == SensorIndex(uri.instance)
           o == ObjectOf(objectList, uri.object)
           ofDevice == DeviceExecute(device, uri.resource, request.argument)
           ofSensor == IpsoExecute(sensors[index], uri.resource, request.argument)
<1>1. UNCHANGED app
  BY ExecuteFrame
<1>2. \/ UNCHANGED <<device, sensors>> /\ \E code : Report("execute", code, {})
      \/ \E e : /\ e = Executed(request) /\ object_execute(objectList, uri, NO_ERROR) = CHANGED
                /\ HasSensor(uri.object, uri.instance) /\ device' = e.device /\ sensors' = e.sensors
                /\ Report("execute", object_execute(objectList, uri, e.code),
                          {Uri(uri.object, uri.instance, r) : r \in e.told})
  BY Zenon DEF Execute
<1>3. CASE UNCHANGED <<device, sensors>> /\ \E code : Report("execute", code, {})
  BY <1>1, <1>3, NothingChanges
<1>4. ASSUME NEW e, e = Executed(request), object_execute(objectList, uri, NO_ERROR) = CHANGED,
             HasSensor(uri.object, uri.instance), device' = e.device, sensors' = e.sensors,
             Report("execute", object_execute(objectList, uri, e.code), {Uri(uri.object, uri.instance, r) : r \in e.told})
      PROVE  StepTells
  <2>1. PICK code, told : /\ code = object_execute(objectList, uri, e.code)
                          /\ told = {Uri(uri.object, uri.instance, r) : r \in e.told}
    OBVIOUS
  <2>2. Report("execute", code, told)
    BY <1>4, <2>1
  <2>3. \/ uri.object = CustomId /\ e.device = device /\ e.sensors = sensors
        \/ /\ uri.object = Device
           /\ e.code = ofDevice.code /\ e.device = ofDevice.device /\ e.sensors = sensors /\ e.told = ofDevice.told
        \/ /\ uri.object \notin {CustomId, Device}
           /\ e.code = ofSensor.code /\ e.device = device /\ e.sensors = With(sensors, index, ofSensor.sensor)
           /\ e.told = ofSensor.told
    BY <1>4, ExecutionIs DEF Device
  <2>4. uri.instance # ALL /\ uri.resource # ALL
    <3>1. Operation(request).name = "execute"
      BY Zenon DEF Execute
    <3> QED
      BY <3>1, ExecuteNamesOne
  <2>5. PICK p : p = o
    OBVIOUS
  <2>6. /\ ObjectIndex(objectList, uri.object) # 0 /\ object_getInstanceIndex(p, uri.instance) # 0
        /\ \E n \in DOMAIN p.resources : p.resources[n].id = uri.resource
    BY <1>4, <2>4, <2>5, ExecutedIsThere
  <2>7. Fit(p)
    BY <2>5, <2>6, NamedObjectIs
  <2>8. CASE uri.object = CustomId /\ e.device = device /\ e.sensors = sensors
    BY <1>1, <1>4, <2>2, <2>8, NothingChanges
  <2>9. CASE /\ uri.object = Device
             /\ e.code = ofDevice.code /\ e.device = ofDevice.device /\ e.sensors = sensors /\ e.told = ofDevice.told
    <3>1. uri.instance = LWM2M_SINGLE_OBJECT_INSTANCE_ID
      BY <2>5, <2>6, <2>9, DeviceObjectIs
    <3>2. GoodDevice(device) /\ SourcesAre(device)
      BY DEF ChangeInv, TypeInv, HeldInv, PowerInv
    <3>3. Tells(device, ofDevice)
      BY <3>2, ExecuteTells
    <3> HIDE DEF ofDevice
    <3>4. DeviceTold(device, device', e.told)
      BY <1>4, <2>9, <3>3 DEF Tells
    <3>5. e.told \cap Nat \subseteq OfDevice(told)
      BY <2>1, <2>9, <3>1 DEF OfDevice
    <3>6. DeviceTold(device, device', OfDevice(told))
      BY <3>4, <3>5, DeviceIdentifiers DEF DeviceTold, SourcesTold
    <3>7. DeviceCovered("execute", told)
      BY <3>6, MoreTold DEF DeviceCovered
    <3> QED
      BY <1>1, <1>4, <2>2, <2>9, <3>7, SameIsCovered DEF StepTells
  <2>10. CASE /\ uri.object \notin {CustomId, Device}
              /\ e.code = ofSensor.code /\ e.device = device /\ e.sensors = With(sensors, index, ofSensor.sensor)
              /\ e.told = ofSensor.told
    <3>1. UsesSensors /\ uri.object = uses.type /\ p.resources = prv_getResourceDesc(uses.type)
      BY <2>5, <2>6, <2>10, OtherObjectIs
    <3>2. GoodSensors(sensors)
      BY SensorsAre DEF ChangeInv, TypeInv
    <3>3. index # 0
      BY <1>4, <3>1 DEF HasSensor
    <3>4. /\ index \in 1..Len(sensors) /\ GoodSensor(sensors[index]) /\ sensors[index].id = uri.instance
      BY <3>2, <3>3, SensorFound
    <3>5. PICK s, t : s = sensors[index] /\ t = ofSensor
      OBVIOUS
    <3>6. t = IpsoExecute(s, uri.resource, request.argument)
      BY <3>5
    <3>7. t.sensor.id = s.id
      BY <3>4, <3>5, <3>6, ExecuteSensor
    <3>8. Some(SensorHas, Family(uses.type))
      BY FamilyHas DEF SensorHas
    <3>9. uri.resource \in Family(uses.type)
      <4>1. \A n \in DOMAIN p.resources : p.resources[n].id \in Family(uses.type)
        BY <3>1, FamilyDescribed
      <4> QED
        BY <2>6, <4>1
    <3> HIDE DEF index, ofSensor, uri
    <3>10. CASE uses.type # IPSO.ENERGY
      <4>1. ASSUME NEW r \in ToSet(SensorHas) \ IpsoExecutable, IpsoRead(s, r) # IpsoRead(t.sensor, r)
            PROVE  Uri(uses.type, t.sensor.id, r) \in told
        <5>1. r \in t.told
          BY <3>4, <3>5, <3>6, <3>8, <3>9, <3>10, <4>1, ResetTells
        <5>2. Uri(uri.object, uri.instance, r) \in told
          BY <2>1, <2>10, <3>5, <5>1
        <5> QED
          BY <3>1, <3>4, <3>5, <3>7, <5>2
      <4>2. SensorsTold(sensors, sensors', told)
        BY <1>4, <2>10, <3>2, <3>4, <3>5, <3>7, <4>1, OneIsTold
      <4> QED
        BY <1>1, <1>4, <2>2, <2>10, <4>2, SameIsCovered DEF StepTells, SensorsCovered
    <3>11. CASE uses.type = IPSO.ENERGY
      BY <1>1, <1>4, <2>2, <2>10, <3>11, SameIsCovered DEF StepTells, SensorsCovered
    <3> QED
      BY <3>10, <3>11
  <2> QED
    BY <2>3, <2>8, <2>9, <2>10
<1> QED
  BY <1>2, <1>3, <1>4

LEMMA NextTells ==
  ASSUME Contract, ChangeInv, Next
  PROVE  StepTells
<1>1. ASSUME ServerAction PROVE StepTells
  BY <1>1, RefuseTells, WriteStepTells, ExecuteStepTells, CreateTells, DeleteTells, Zenon DEF ServerAction
<1>2. ASSUME NEW enter \in BOOLEAN, iowa_client_notification_lock(enter) PROVE StepTells
  BY <1>2, RegistrationTells
<1> QED
  BY <1>1, <1>2, CustomTells, DeviceStepTells, SensorTells, RegistrationTells, Zenon DEF Next

-----------------------------------------------------------------------------
(* What can be read can be told: the Object and the Instance are there, and *)
(* the Resource is described as readable.                                   *)

Holds(s, S) == IsSequence(s) /\ S \subseteq ToSet(s)

LEMMA JoinedHolds ==
  ASSUME NEW s, NEW S, Holds(s, S), NEW t, NEW T, Holds(t, T)
  PROVE  Holds(s \o t, S \cup T)
BY TwoSequences DEF Holds

LEMMA LongerHolds ==
  ASSUME NEW s, NEW S, Holds(s, S), NEW t, Holds(t, {})
  PROVE  Holds(s \o t, S)
BY TwoSequences DEF Holds

LEMMA OptionalHolds ==
  ASSUME NEW t, NEW T, Holds(t, T), NEW b
  PROVE  Holds(IF b THEN t ELSE <<>>, {})
BY EmptyList DEF Holds, IsList

LEMMA ExactlyHolds ==
  ASSUME NEW t, NEW T, Exactly(t, T)
  PROVE  Holds(t, T)
BY DEF Holds, Exactly

\* A device always has its errors, and its power sources when it was asked to.
LEMMA DeviceIdsHold ==
  ASSUME NEW options, NEW S, S = {ID.ERROR_CODE} \cup (IF "POWER_SOURCE" \in options THEN PowerSource ELSE {})
  PROVE  Holds(DeviceIds(options), S)
<1> DEFINE of(option, ids) == IF option \in options THEN ids ELSE <<>>
           l0 == <<ID.REBOOT, ID.ERROR_CODE, ID.BINDING>>
           l1 == l0 \o of("deviceType", <<ID.TYPE>>)
           l2 == l1 \o of("firmwareVersion", <<ID.FIRMWARE_VERSION>>)
           l3 == l2 \o of("hardwareVersion", <<ID.HARDWARE_VERSION>>)
           l4 == l3 \o of("manufacturer", <<ID.MANUFACTURER>>)
           l5 == l4 \o of("modelNumber", <<ID.MODEL_NUMBER>>)
           l6 == l5 \o of("serialNumber", <<ID.SERIAL_NUMBER>>)
           l7 == l6 \o of("softwareVersion", <<ID.SOFTWARE_VERSION>>)
           l8 == l7 \o of("BATTERY", <<ID.BATTERY_LEVEL, ID.BATTERY_STATUS>>)
           l9 == l8 \o of("POWER_SOURCE", <<ID.AVAILABLE_POWER_SRC, ID.POWER_SRC_VOLTAGE, ID.POWER_SRC_CURRENT>>)
           l10 == l9 \o of("RESET_ERROR", <<ID.RESET_ERROR>>)
           l11 == l10 \o of("CURRENT_TIME", <<ID.CURRENT_TIME>>)
           l12 == l11 \o of("UTC_OFFSET", <<ID.UTC_OFFSET>>)
           l13 == l12 \o of("TIMEZONE", <<ID.TIME_ZONE>>)
           l14 == l13 \o of("factoryResetCallback", <<ID.FACTORY_RESET>>)
           l15 == l14 \o of("memoryTotal", <<ID.MEMORY_TOTAL>>)
           l16 == l15 \o of("MEMORY_FREE", <<ID.MEMORY_FREE>>)
           l17 == l16 \o of("EXTERNAL_INFO", <<ID.EXT_DEV_INFO>>)
<1>1. DeviceIds(options) = l17
  BY Zenon DEF DeviceIds
<1>2. Holds(l0, {ID.ERROR_CODE})
  <2>1. Holds(l0, {ID.REBOOT, ID.ERROR_CODE, ID.BINDING})
    BY ThreeExactly, ExactlyHolds, Zenon
  <2> HIDE DEF l0
  <2> QED
    BY <2>1 DEF Holds
<1> HIDE DEF l0
<1>3. Holds(l1, {ID.ERROR_CODE})
  <2>1. Holds(<<ID.TYPE>>, {ID.TYPE})
    BY OneExactly, ExactlyHolds, Zenon
  <2>2. Holds(of("deviceType", <<ID.TYPE>>), {})
    BY <2>1, OptionalHolds
  <2> HIDE DEF of
  <2> QED
    BY <1>2, <2>2, LongerHolds
<1> HIDE DEF l1
<1>4. Holds(l2, {ID.ERROR_CODE})
  <2>1. Holds(<<ID.FIRMWARE_VERSION>>, {ID.FIRMWARE_VERSION})
    BY OneExactly, ExactlyHolds, Zenon
  <2>2. Holds(of("firmwareVersion", <<ID.FIRMWARE_VERSION>>), {})
    BY <2>1, OptionalHolds
  <2> HIDE DEF of
  <2> QED
    BY <1>3, <2>2, LongerHolds
<1> HIDE DEF l2
<1>5. Holds(l3, {ID.ERROR_CODE})
  <2>1. Holds(<<ID.HARDWARE_VERSION>>, {ID.HARDWARE_VERSION})
    BY OneExactly, ExactlyHolds, Zenon
  <2>2. Holds(of("hardwareVersion", <<ID.HARDWARE_VERSION>>), {})
    BY <2>1, OptionalHolds
  <2> HIDE DEF of
  <2> QED
    BY <1>4, <2>2, LongerHolds
<1> HIDE DEF l3
<1>6. Holds(l4, {ID.ERROR_CODE})
  <2>1. Holds(<<ID.MANUFACTURER>>, {ID.MANUFACTURER})
    BY OneExactly, ExactlyHolds, Zenon
  <2>2. Holds(of("manufacturer", <<ID.MANUFACTURER>>), {})
    BY <2>1, OptionalHolds
  <2> HIDE DEF of
  <2> QED
    BY <1>5, <2>2, LongerHolds
<1> HIDE DEF l4
<1>7. Holds(l5, {ID.ERROR_CODE})
  <2>1. Holds(<<ID.MODEL_NUMBER>>, {ID.MODEL_NUMBER})
    BY OneExactly, ExactlyHolds, Zenon
  <2>2. Holds(of("modelNumber", <<ID.MODEL_NUMBER>>), {})
    BY <2>1, OptionalHolds
  <2> HIDE DEF of
  <2> QED
    BY <1>6, <2>2, LongerHolds
<1> HIDE DEF l5
<1>8. Holds(l6, {ID.ERROR_CODE})
  <2>1. Holds(<<ID.SERIAL_NUMBER>>, {ID.SERIAL_NUMBER})
    BY OneExactly, ExactlyHolds, Zenon
  <2>2. Holds(of("serialNumber", <<ID.SERIAL_NUMBER>>), {})
    BY <2>1, OptionalHolds
  <2> HIDE DEF of
  <2> QED
    BY <1>7, <2>2, LongerHolds
<1> HIDE DEF l6
<1>9. Holds(l7, {ID.ERROR_CODE})
  <2>1. Holds(<<ID.SOFTWARE_VERSION>>, {ID.SOFTWARE_VERSION})
    BY OneExactly, ExactlyHolds, Zenon
  <2>2. Holds(of("softwareVersion", <<ID.SOFTWARE_VERSION>>), {})
    BY <2>1, OptionalHolds
  <2> HIDE DEF of
  <2> QED
    BY <1>8, <2>2, LongerHolds
<1> HIDE DEF l7
<1>10. Holds(l8, {ID.ERROR_CODE})
  <2>1. Holds(<<ID.BATTERY_LEVEL, ID.BATTERY_STATUS>>, {ID.BATTERY_LEVEL, ID.BATTERY_STATUS})
    BY TwoExactly, ExactlyHolds, Zenon
  <2>2. Holds(of("BATTERY", <<ID.BATTERY_LEVEL, ID.BATTERY_STATUS>>), {})
    BY <2>1, OptionalHolds
  <2> HIDE DEF of
  <2> QED
    BY <1>9, <2>2, LongerHolds
<1> HIDE DEF l8
<1>11. Holds(l9, S)
  <2> DEFINE T == IF "POWER_SOURCE" \in options THEN PowerSource ELSE {}
  <2>1. Holds(<<ID.AVAILABLE_POWER_SRC, ID.POWER_SRC_VOLTAGE, ID.POWER_SRC_CURRENT>>, PowerSource)
    BY ThreeExactly, ExactlyHolds, Zenon DEF PowerSource
  <2>2. Holds(of("POWER_SOURCE", <<ID.AVAILABLE_POWER_SRC, ID.POWER_SRC_VOLTAGE, ID.POWER_SRC_CURRENT>>), T)
    BY <2>1, EmptyList DEF Holds, IsList
  <2>3. S = {ID.ERROR_CODE} \cup T
    OBVIOUS
  <2> HIDE DEF of, T
  <2> QED
    BY <1>10, <2>2, <2>3, JoinedHolds
<1> HIDE DEF l9
<1>12. Holds(l10, S)
  <2>1. Holds(<<ID.RESET_ERROR>>, {ID.RESET_ERROR})
    BY OneExactly, ExactlyHolds, Zenon
  <2>2. Holds(of("RESET_ERROR", <<ID.RESET_ERROR>>), {})
    BY <2>1, OptionalHolds
  <2> HIDE DEF of
  <2> QED
    BY <1>11, <2>2, LongerHolds
<1> HIDE DEF l10
<1>13. Holds(l11, S)
  <2>1. Holds(<<ID.CURRENT_TIME>>, {ID.CURRENT_TIME})
    BY OneExactly, ExactlyHolds, Zenon
  <2>2. Holds(of("CURRENT_TIME", <<ID.CURRENT_TIME>>), {})
    BY <2>1, OptionalHolds
  <2> HIDE DEF of
  <2> QED
    BY <1>12, <2>2, LongerHolds
<1> HIDE DEF l11
<1>14. Holds(l12, S)
  <2>1. Holds(<<ID.UTC_OFFSET>>, {ID.UTC_OFFSET})
    BY OneExactly, ExactlyHolds, Zenon
  <2>2. Holds(of("UTC_OFFSET", <<ID.UTC_OFFSET>>), {})
    BY <2>1, OptionalHolds
  <2> HIDE DEF of
  <2> QED
    BY <1>13, <2>2, LongerHolds
<1> HIDE DEF l12
<1>15. Holds(l13, S)
  <2>1. Holds(<<ID.TIME_ZONE>>, {ID.TIME_ZONE})
    BY OneExactly, ExactlyHolds, Zenon
  <2>2. Holds(of("TIMEZONE", <<ID.TIME_ZONE>>), {})
    BY <2>1, OptionalHolds
  <2> HIDE DEF of
  <2> QED
    BY <1>14, <2>2, LongerHolds
<1> HIDE DEF l13
<1>16. Holds(l14, S)
  <2>1. Holds(<<ID.FACTORY_RESET>>, {ID.FACTORY_RESET})
    BY OneExactly, ExactlyHolds, Zenon
  <2>2. Holds(of("factoryResetCallback", <<ID.FACTORY_RESET>>), {})
    BY <2>1, OptionalHolds
  <2> HIDE DEF of
  <2> QED
    BY <1>15, <2>2, LongerHolds
<1> HIDE DEF l14
<1>17. Holds(l15, S)
  <2>1. Holds(<<ID.MEMORY_TOTAL>>, {ID.MEMORY_TOTAL})
    BY OneExactly, ExactlyHolds, Zenon
  <2>2. Holds(of("memoryTotal", <<ID.MEMORY_TOTAL>>), {})
    BY <2>1, OptionalHolds
  <2> HIDE DEF of
  <2> QED
    BY <1>16, <2>2, LongerHolds
<1> HIDE DEF l15
<1>18. Holds(l16, S)
  <2>1. Holds(<<ID.MEMORY_FREE>>, {ID.MEMORY_FREE})
    BY OneExactly, ExactlyHolds, Zenon
  <2>2. Holds(of("MEMORY_FREE", <<ID.MEMORY_FREE>>), {})
    BY <2>1, OptionalHolds
  <2> HIDE DEF of
  <2> QED
    BY <1>17, <2>2, LongerHolds
<1> HIDE DEF l16
<1>19. Holds(l17, S)
  <2>1. Holds(<<ID.EXT_DEV_INFO>>, {ID.EXT_DEV_INFO})
    BY OneExactly, ExactlyHolds, Zenon
  <2>2. Holds(of("EXTERNAL_INFO", <<ID.EXT_DEV_INFO>>), {})
    BY <2>1, OptionalHolds
  <2> HIDE DEF of
  <2> QED
    BY <1>18, <2>2, LongerHolds
<1> HIDE DEF l17
<1> QED
  BY <1>1, <1>19

\* A Resource that an Object describes is found, and once.
LEMMA DescribedIs ==
  ASSUME NEW o, Described(o.resources), NEW n \in DOMAIN o.resources, NEW r, r = o.resources[n].id
  PROVE  prv_getResourceIndex(o, 0, r) # 0 /\ ResourceOf(o, r) = o.resources[n]
<1>1. PICK list : list = o.resources
  OBVIOUS
<1>2. IsSequence(list) /\ \A i, j \in DOMAIN list : list[i].id = list[j].id => i = j
  BY <1>1 DEF Described
<1>3. PICK id : id = r
  OBVIOUS
<1> DEFINE index == SelectInSeq(list, LAMBDA s : s.id = id)
<1>4. \/ index = 0 /\ \A s \in ToSet(list) : s.id # id
      \/ index \in 1..Len(list) /\ list[index] \in ToSet(list) /\ list[index].id = id
  BY <1>2, SensorIndexIs
<1>5. index = prv_getResourceIndex(o, 0, r) /\ ResourceOf(o, r) = list[index]
  BY <1>1, <1>3 DEF ResourceOf, prv_getResourceIndex
<1> HIDE DEF index
<1>6. DOMAIN list = 1..Len(list) /\ list[n] \in ToSet(list) /\ Len(list) \in Nat
  BY <1>1, <1>2, SequenceIs
<1>7. index # 0 /\ index = n
  BY <1>1, <1>2, <1>3, <1>4, <1>6
<1> QED
  BY <1>1, <1>5, <1>7

\* What an Instance that is there has and can be read is let through.
LEMMA CanBeRead ==
  ASSUME NEW list, GoodList(list), NEW o \in ToSet(list), Fit(o), NEW i \in IdentifiersOf(o.instances),
         NEW R, Uniform(o, R), NEW n \in DOMAIN o.resources, IS_RSC_READABLE(o.resources[n]),
         NEW r, r = o.resources[n].id, R = NULL \/ (IsSequence(R) /\ r \in ToSet(R)),
         NEW uri, uri = Uri(o.objID, i, r)
  PROVE  object_checkReadable(list, uri) = CONTENT
<1>1. uri.object = o.objID /\ uri.instance = i /\ uri.resource = r
  BY DEF Uri
<1>2. ObjectOf(list, o.objID) = o /\ ObjectIndex(list, o.objID) # 0
  BY ObjectOfIs
<1>3. prv_getResourceIndex(o, 0, r) # 0 /\ ResourceOf(o, r) = o.resources[n]
  <2>1. Described(o.resources)
    BY DEF Fit
  <2> QED
    BY <2>1, DescribedIs
<1> DEFINE index == object_getInstanceIndex(o, i)
<1>4. i # ALL
  <2>1. i \in 0..(ALL - 1)
    BY DEF Fit
  <2>2. ALL \in Nat
    BY AllIs
  <2> QED
    BY <2>1, <2>2
<1>5. index # 0 /\ o.instances[index] \in ToSet(o.instances)
  <2>1. GoodObject(o)
    BY DEF Fit
  <2> QED
    BY <1>4, <2>1, InstanceIndexIs
<1>6. o.instances[index].resources = R
  BY <1>5 DEF Uniform
<1> HIDE DEF index
<1>7. Has(o.instances[index], r)
  <2>1. CASE R = NULL
    BY <1>6, <2>1 DEF Has
  <2>2. CASE IsSequence(R) /\ r \in ToSet(R)
    <3>1. Contains(R, r)
      BY <2>2, SequenceIs DEF Contains
    <3> QED
      BY <1>6, <3>1 DEF Has
  <2> QED
    BY <2>1, <2>2
<1>8. prv_getResourceIndex(o, index, r) = prv_getResourceIndex(o, 0, r)
  BY <1>7 DEF prv_getResourceIndex
<1>9. object_find(list, uri) = NO_ERROR
  BY <1>1, <1>2, <1>3, <1>5, <1>8 DEF object_find, ObjectOf, index
<1> QED
  BY <1>1, <1>2, <1>3, <1>9 DEF object_checkReadable

-----------------------------------------------------------------------------
(* What can be read, whatever the state, and where each value comes from:   *)
(* its URI alone says it.                                                   *)

AppReadings(object, values) ==
  LET readable == {r.id : r \in {r \in Range(object.resources) : IS_RSC_READABLE(r)}}
      of(i, r) == {<<[Uri(CustomId, i, r) EXCEPT !.resInstance = ri], values[i][r][ri]>> : ri \in DOMAIN values[i][r]}
  IN  UNION {UNION {of(i, r) : r \in DOMAIN values[i] \cap readable} : i \in DOMAIN values \cap InstancesOf(object)}

ErrorReadings(errors) ==
  IF errors = {} THEN {<<DeviceUri(ID.ERROR_CODE, 0), 0>>}
  ELSE {<<DeviceUri(ID.ERROR_CODE, n - 1), InOrder(errors)[n]>> : n \in 1..Cardinality(errors)}

SourceReadings(s) ==
  {<<DeviceUri(ID.AVAILABLE_POWER_SRC, s.id), s.type>>, <<DeviceUri(ID.POWER_SRC_VOLTAGE, s.id), s.voltage>>,
   <<DeviceUri(ID.POWER_SRC_CURRENT, s.id), s.current>>}

DeviceReadings(d) ==
  {<<DeviceUri(id, ALL), d.values[id]>> : id \in Range(DeviceIds(d.options)) \cap DeviceSingle}
    \cup ErrorReadings(d.errors)
    \cup UNION {SourceReadings(s) : s \in Range(d.sources)}

HasOf(u) == prv_getResourceList(u.type, u.range, u.unit # NULL, u.appType # NULL)

IpsoReadings(u, list) ==
  {<<Uri(u.type, p[1].id, p[2]), IpsoRead(p[1], p[2])>> : p \in Range(list) \X (Range(HasOf(u)) \ IpsoExecutable)}

ReadingsOf(u, objects, values, d, list) ==
  (IF ObjectIndex(objects, CustomId) # 0 THEN AppReadings(ObjectOf(objects, CustomId), values) ELSE {})
    \cup DeviceReadings(d)
    \cup (IF u.kind = "sensors" THEN IpsoReadings(u, list) ELSE {})

LEMMA ReadingsAre == /\ Readings = ReadingsOf(uses, objectList, app, device, sensors)
                     /\ Readings' = ReadingsOf(uses', objectList', app', device', sensors')
<1>1. AppValues = AppReadings(CustomObject, app) /\ AppValues' = AppReadings(CustomObject', app')
  BY Zenon DEF AppValues, AppReadings
<1>2. DeviceValues = DeviceReadings(device) /\ DeviceValues' = DeviceReadings(device')
  BY Zenon DEF DeviceValues, DeviceReadings, ErrorReadings, SourceReadings
<1>3. SensorReadings = IpsoReadings(uses, sensors) /\ SensorReadings' = IpsoReadings(uses', sensors')
  BY Zenon DEF SensorReadings, IpsoReadings, HasOf, SensorHas
<1> QED
  BY <1>1, <1>2, <1>3, Zenon DEF Readings, ReadingsOf, HasCustom, CustomObject, UsesSensors

AppReading(object, values, w) ==
  /\ w[1].object = CustomId /\ w[1].instance \in DOMAIN values \cap InstancesOf(object)
  /\ w[1].resource \in DOMAIN values[w[1].instance]
  /\ w[1].resInstance \in DOMAIN values[w[1].instance][w[1].resource]
  /\ w[2] = values[w[1].instance][w[1].resource][w[1].resInstance]
  /\ \E n \in DOMAIN object.resources : object.resources[n].id = w[1].resource /\ IS_RSC_READABLE(object.resources[n])

DeviceReading(d, w) ==
  /\ w[1].object = Device /\ w[1].instance = LWM2M_SINGLE_OBJECT_INSTANCE_ID
  /\ \/ w[1].resource \in ToSet(DeviceIds(d.options)) \cap DeviceSingle /\ w[2] = d.values[w[1].resource]
     \/ w[1].resource = ID.ERROR_CODE /\ w[2] = prv_getErrorValue(d.errors, w[1].resInstance)
     \/ \E s \in ToSet(d.sources) :
          /\ s.id = w[1].resInstance
          /\ \/ w[1].resource = ID.AVAILABLE_POWER_SRC /\ w[2] = s.type
             \/ w[1].resource = ID.POWER_SRC_VOLTAGE /\ w[2] = s.voltage
             \/ w[1].resource = ID.POWER_SRC_CURRENT /\ w[2] = s.current

IpsoReading(u, list, w) ==
  /\ w[1].object = u.type /\ w[1].resource \in ToSet(HasOf(u)) \ IpsoExecutable
  /\ \E s \in ToSet(list) : s.id = w[1].instance /\ w[2] = IpsoRead(s, w[1].resource)

LEMMA AppReadingIs ==
  ASSUME NEW object, NEW values, NEW w \in AppReadings(object, values)
  PROVE  AppReading(object, values, w)
<1>1. PICK i, r, ri :
        /\ i \in DOMAIN values \cap InstancesOf(object) /\ r \in DOMAIN values[i] /\ ri \in DOMAIN values[i][r]
        /\ w = <<[Uri(CustomId, i, r) EXCEPT !.resInstance = ri], values[i][r][ri]>>
        /\ r \in {x.id : x \in {x \in Range(object.resources) : IS_RSC_READABLE(x)}}
  BY DEF AppReadings
<1>2. w[2] = values[i][r][ri] /\ w[1] = [Uri(CustomId, i, r) EXCEPT !.resInstance = ri]
  BY <1>1
<1>3. w[1].object = CustomId /\ w[1].instance = i /\ w[1].resource = r /\ w[1].resInstance = ri
  BY <1>2 DEF Uri
<1>4. \E n \in DOMAIN object.resources : object.resources[n].id = r /\ IS_RSC_READABLE(object.resources[n])
  BY <1>1 DEF Range
<1> QED
  BY <1>1, <1>2, <1>3, <1>4 DEF AppReading

LEMMA DeviceUriIs ==
  ASSUME NEW id, NEW ri
  PROVE  /\ DeviceUri(id, ri).object = Device /\ DeviceUri(id, ri).instance = LWM2M_SINGLE_OBJECT_INSTANCE_ID
         /\ DeviceUri(id, ri).resource = id /\ DeviceUri(id, ri).resInstance = ri
BY DEF DeviceUri, Uri, Device, LWM2M_SINGLE_OBJECT_INSTANCE_ID

LEMMA ErrorReadingIs ==
  ASSUME NEW errors, NEW w \in ErrorReadings(errors)
  PROVE  \E ri : w = <<DeviceUri(ID.ERROR_CODE, ri), prv_getErrorValue(errors, ri)>>
<1>1. CASE errors = {}
  BY <1>1 DEF ErrorReadings, prv_getErrorValue
<1>2. CASE errors # {}
  <2>1. PICK n \in 1..Cardinality(errors) : w = <<DeviceUri(ID.ERROR_CODE, n - 1), InOrder(errors)[n]>>
    BY <1>2 DEF ErrorReadings
  <2>2. PICK ri : ri = n - 1
    OBVIOUS
  <2>3. ri + 1 = n
    BY <2>1, <2>2
  <2>4. prv_getErrorValue(errors, ri) = InOrder(errors)[ri + 1]
    BY <1>2 DEF prv_getErrorValue
  <2> QED
    BY <2>1, <2>2, <2>3, <2>4
<1> QED
  BY <1>1, <1>2

LEMMA DeviceReadingIs ==
  ASSUME NEW d, NEW w \in DeviceReadings(d)
  PROVE  DeviceReading(d, w)
<1>1. CASE \E id \in Range(DeviceIds(d.options)) \cap DeviceSingle : w = <<DeviceUri(id, ALL), d.values[id]>>
  <2>1. PICK id \in Range(DeviceIds(d.options)) \cap DeviceSingle : w = <<DeviceUri(id, ALL), d.values[id]>>
    BY <1>1
  <2>2. w[1] = DeviceUri(id, ALL) /\ w[2] = d.values[id] /\ id \in ToSet(DeviceIds(d.options))
    BY <2>1 DEF Range, ToSet
  <2> QED
    BY <2>1, <2>2, DeviceUriIs DEF DeviceReading
<1>2. CASE w \in ErrorReadings(d.errors)
  <2>1. PICK ri : w = <<DeviceUri(ID.ERROR_CODE, ri), prv_getErrorValue(d.errors, ri)>>
    BY <1>2, ErrorReadingIs
  <2>2. w[1] = DeviceUri(ID.ERROR_CODE, ri) /\ w[2] = prv_getErrorValue(d.errors, ri)
    BY <2>1
  <2> QED
    BY <2>2, DeviceUriIs DEF DeviceReading
<1>3. ASSUME NEW s \in Range(d.sources), w \in SourceReadings(s)
      PROVE  DeviceReading(d, w)
  <2>1. s \in ToSet(d.sources)
    BY DEF Range, ToSet
  <2>2. \/ w = <<DeviceUri(ID.AVAILABLE_POWER_SRC, s.id), s.type>>
        \/ w = <<DeviceUri(ID.POWER_SRC_VOLTAGE, s.id), s.voltage>>
        \/ w = <<DeviceUri(ID.POWER_SRC_CURRENT, s.id), s.current>>
    BY <1>3 DEF SourceReadings
  <2>3. \/ w[1] = DeviceUri(ID.AVAILABLE_POWER_SRC, s.id) /\ w[2] = s.type
        \/ w[1] = DeviceUri(ID.POWER_SRC_VOLTAGE, s.id) /\ w[2] = s.voltage
        \/ w[1] = DeviceUri(ID.POWER_SRC_CURRENT, s.id) /\ w[2] = s.current
    BY <2>2
  <2> QED
    BY <2>1, <2>3, DeviceUriIs DEF DeviceReading
<1> QED
  BY <1>1, <1>2, <1>3 DEF DeviceReadings

LEMMA IpsoReadingIs ==
  ASSUME NEW u, NEW list, NEW w \in IpsoReadings(u, list)
  PROVE  IpsoReading(u, list, w)
<1>1. PICK p \in Range(list) \X (Range(HasOf(u)) \ IpsoExecutable) :
        w = <<Uri(u.type, p[1].id, p[2]), IpsoRead(p[1], p[2])>>
  BY DEF IpsoReadings
<1>2. w[1] = Uri(u.type, p[1].id, p[2]) /\ w[2] = IpsoRead(p[1], p[2])
  BY <1>1
<1>3. p[1] \in ToSet(list) /\ p[2] \in ToSet(HasOf(u)) \ IpsoExecutable
  BY DEF Range, ToSet
<1>4. w[1].object = u.type /\ w[1].instance = p[1].id /\ w[1].resource = p[2]
  BY <1>2 DEF Uri
<1> QED
  BY <1>2, <1>3, <1>4 DEF IpsoReading

LEMMA ReadingIs ==
  ASSUME NEW u, NEW objects, NEW values, NEW d, NEW list, NEW w \in ReadingsOf(u, objects, values, d, list)
  PROVE  \/ ObjectIndex(objects, CustomId) # 0 /\ AppReading(ObjectOf(objects, CustomId), values, w)
         \/ DeviceReading(d, w)
         \/ u.kind = "sensors" /\ IpsoReading(u, list, w)
BY AppReadingIs, DeviceReadingIs, IpsoReadingIs DEF ReadingsOf

Whole(u, objects, values, d, list) ==
  /\ u \in Cases /\ OwnedBy(u, objects, values, list) /\ ShapedList(u, objects)
  /\ d.options = u.options /\ SourcesAre(d)

LEMMA ChangeIsWhole == /\ ChangeInv => Whole(uses, objectList, app, device, sensors)
                       /\ ChangeInv' => Whole(uses', objectList', app', device', sensors')
BY Zenon DEF ChangeInv, TypeInv, OwnedInv, ShapedInv, PowerInv, Whole

LEMMA TypesAre ==
  ASSUME NEW u \in Cases
  PROVE  /\ CustomId # Device
         /\ u.kind = "sensors" => u.type # CustomId /\ u.type # Device
BY ManagementAssumption DEF ManagementAssumption, Reserved, Device

LEMMA AppCanBeRead ==
  ASSUME NEW u, NEW objects, NEW values, NEW d, NEW list, Whole(u, objects, values, d, list),
         ObjectIndex(objects, CustomId) # 0, NEW w, AppReading(ObjectOf(objects, CustomId), values, w)
  PROVE  object_checkReadable(objects, Uri(w[1].object, w[1].instance, w[1].resource)) = CONTENT
<1>1. PICK o : o = ObjectOf(objects, CustomId)
  OBVIOUS
<1>2. GoodList(objects)
  BY DEF Whole, OwnedBy
<1>3. o \in ToSet(objects) /\ o.objID = CustomId
  BY <1>1, <1>2, ObjectOfIs
<1>4. Fit(o) /\ InstancesOf(o) = IdentifiersOf(o.instances)
  BY <1>3, InstancesAre DEF Whole, OwnedBy
<1>5. Uniform(o, NULL)
  BY <1>3, TypesAre DEF Whole, ShapedList, Shaped, Own
<1>6. /\ w[1].object = CustomId /\ w[1].instance \in InstancesOf(o)
      /\ \E n \in DOMAIN o.resources : o.resources[n].id = w[1].resource /\ IS_RSC_READABLE(o.resources[n])
  BY <1>1 DEF AppReading
<1>7. PICK n \in DOMAIN o.resources : o.resources[n].id = w[1].resource /\ IS_RSC_READABLE(o.resources[n])
  BY <1>6
<1> QED
  BY <1>2, <1>3, <1>4, <1>5, <1>6, <1>7, CanBeRead

LEMMA DeviceIsReadable ==
  ASSUME NEW id, id \in DeviceSingle \cup PowerSource \cup {ID.ERROR_CODE}
  PROVE  DeviceDescriptor(id).id = id /\ IS_RSC_READABLE(DeviceDescriptor(id))
<1>1. id \notin DeviceExecutable
  <2>1. CASE id \in DeviceSingle
    BY <2>1 DEF DeviceSingle
  <2>2. CASE id \in PowerSource \cup {ID.ERROR_CODE}
    BY <2>2 DEF PowerSource, DeviceExecutable, ID
  <2> QED
    BY <2>1, <2>2
<1> QED
  BY <1>1 DEF DeviceDescriptor, IS_RSC_READABLE

LEMMA DeviceHasIt ==
  ASSUME NEW d, SourcesAre(d), NEW w, DeviceReading(d, w)
  PROVE  w[1].resource \in ToSet(DeviceIds(d.options)) \cap (DeviceSingle \cup PowerSource \cup {ID.ERROR_CODE})
<1> DEFINE S == {ID.ERROR_CODE} \cup (IF "POWER_SOURCE" \in d.options THEN PowerSource ELSE {})
<1>1. S \subseteq ToSet(DeviceIds(d.options))
  <2>1. Holds(DeviceIds(d.options), S)
    BY DeviceIdsHold
  <2> QED
    BY <2>1 DEF Holds
<1>2. CASE w[1].resource \in ToSet(DeviceIds(d.options)) \cap DeviceSingle
  BY <1>2
<1>3. CASE w[1].resource = ID.ERROR_CODE
  BY <1>1, <1>3
<1>4. ASSUME NEW s \in ToSet(d.sources), w[1].resource \in PowerSource
      PROVE  w[1].resource \in ToSet(DeviceIds(d.options))
  <2>1. d.sources # <<>>
    BY EmptyList
  <2>2. "POWER_SOURCE" \in d.options
    BY <2>1 DEF SourcesAre
  <2> QED
    BY <1>1, <1>4, <2>2
<1> HIDE DEF S
<1> QED
  BY <1>2, <1>3, <1>4 DEF DeviceReading, PowerSource

LEMMA DeviceCanBeRead ==
  ASSUME NEW u, NEW objects, NEW values, NEW d, NEW list, Whole(u, objects, values, d, list),
         NEW w, DeviceReading(d, w)
  PROVE  object_checkReadable(objects, Uri(w[1].object, w[1].instance, w[1].resource)) = CONTENT
<1>1. GoodList(objects) /\ SourcesAre(d)
  BY DEF Whole, OwnedBy
<1>2. PICK o \in ToSet(objects) : o.objID = Device
  BY DEF Whole, ShapedList
<1>3. Fit(o) /\ o.resources = DeviceResources(d.options)
  BY <1>2 DEF Whole, OwnedBy, Belongs, Device
<1>4. Uniform(o, NULL) /\ IdentifiersOf(o.instances) = {LWM2M_SINGLE_OBJECT_INSTANCE_ID}
  BY <1>2, TypesAre DEF Whole, ShapedList, Shaped, Own
<1>5. w[1].resource \in ToSet(DeviceIds(d.options)) \cap (DeviceSingle \cup PowerSource \cup {ID.ERROR_CODE})
  BY <1>1, DeviceHasIt
<1>6. w[1].object = Device /\ w[1].instance = LWM2M_SINGLE_OBJECT_INSTANCE_ID
  BY DEF DeviceReading
<1>7. PICK n \in DOMAIN DeviceIds(d.options) : DeviceIds(d.options)[n] = w[1].resource
  BY <1>5 DEF ToSet
<1>8. n \in DOMAIN o.resources /\ o.resources[n] = DeviceDescriptor(w[1].resource)
  BY <1>3, <1>7 DEF DeviceResources
<1>9. o.resources[n].id = w[1].resource /\ IS_RSC_READABLE(o.resources[n])
  BY <1>5, <1>8, DeviceIsReadable
<1> QED
  BY <1>1, <1>2, <1>3, <1>4, <1>6, <1>8, <1>9, CanBeRead

LEMMA IpsoCanBeRead ==
  ASSUME NEW u, NEW objects, NEW values, NEW d, NEW list, Whole(u, objects, values, d, list),
         u.kind = "sensors", NEW w, IpsoReading(u, list, w)
  PROVE  object_checkReadable(objects, Uri(w[1].object, w[1].instance, w[1].resource)) = CONTENT
<1>1. GoodList(objects)
  BY DEF Whole, OwnedBy
<1>2. w[1].object = u.type /\ w[1].resource \in ToSet(HasOf(u)) \ IpsoExecutable /\ w[1].instance \in IdentifiersOf(list)
  BY DEF IpsoReading, IdentifiersOf
<1>3. list # <<>>
  BY <1>2, EmptyList DEF IdentifiersOf
<1>4. PICK o \in ToSet(objects) : o.objID = u.type
  BY <1>3 DEF Whole, OwnedBy
<1>5. Fit(o) /\ IdentifiersOf(list) \subseteq IdentifiersOf(o.instances)
  BY <1>4 DEF Whole, OwnedBy, Belongs
<1>6. Uniform(o, HasOf(u)) /\ o.resources = prv_getResourceDesc(u.type)
  BY <1>4 DEF Whole, ShapedList, Shaped, Own, HasOf
<1>7. Some(HasOf(u), Family(u.type))
  BY FamilyHas DEF HasOf
<1>8. PICK n \in DOMAIN o.resources : o.resources[n] = IpsoDescriptor(w[1].resource)
  BY <1>2, <1>6, <1>7, FamilyDescribed DEF Some
<1>9. o.resources[n].id = w[1].resource /\ IS_RSC_READABLE(o.resources[n])
  BY <1>2, <1>8 DEF IpsoDescriptor, IS_RSC_READABLE
<1>10. IsSequence(HasOf(u)) /\ w[1].resource \in ToSet(HasOf(u))
  BY <1>2, <1>7 DEF Some
<1> QED
  BY <1>1, <1>2, <1>4, <1>5, <1>6, <1>9, <1>10, CanBeRead

LEMMA ReadingCanBeRead ==
  ASSUME NEW u, NEW objects, NEW values, NEW d, NEW list, Whole(u, objects, values, d, list),
         NEW w \in ReadingsOf(u, objects, values, d, list)
  PROVE  object_checkReadable(objects, Uri(w[1].object, w[1].instance, w[1].resource)) = CONTENT
<1>1. CASE ObjectIndex(objects, CustomId) # 0 /\ AppReading(ObjectOf(objects, CustomId), values, w)
  BY <1>1, AppCanBeRead
<1>2. CASE DeviceReading(d, w)
  BY <1>2, DeviceCanBeRead
<1>3. CASE u.kind = "sensors" /\ IpsoReading(u, list, w)
  BY <1>3, IpsoCanBeRead
<1> QED
  BY <1>1, <1>2, <1>3, ReadingIs

-----------------------------------------------------------------------------
(* The change of a value that is read.                                      *)

LEMMA DeviceKinds ==
  /\ ID.ERROR_CODE \notin DeviceSingle /\ ID.AVAILABLE_POWER_SRC \notin DeviceSingle
  /\ ID.POWER_SRC_VOLTAGE \notin DeviceSingle /\ ID.POWER_SRC_CURRENT \notin DeviceSingle
  /\ ID.ERROR_CODE # ID.AVAILABLE_POWER_SRC /\ ID.ERROR_CODE # ID.POWER_SRC_VOLTAGE
  /\ ID.ERROR_CODE # ID.POWER_SRC_CURRENT /\ ID.AVAILABLE_POWER_SRC # ID.POWER_SRC_VOLTAGE
  /\ ID.AVAILABLE_POWER_SRC # ID.POWER_SRC_CURRENT /\ ID.POWER_SRC_VOLTAGE # ID.POWER_SRC_CURRENT
<1>1. /\ ID.ERROR_CODE = 11 /\ ID.AVAILABLE_POWER_SRC = 6 /\ ID.POWER_SRC_VOLTAGE = 7 /\ ID.POWER_SRC_CURRENT = 8
  BY DEF ID
<1>2. PowerSource \cup {ID.ERROR_CODE} \subseteq DeviceMultiple
  BY DEF DeviceMultiple
<1> QED
  BY <1>1, <1>2 DEF DeviceSingle, PowerSource

LEMMA DeviceReadingTold ==
  ASSUME NEW d, NEW e, NEW told, DeviceTold(d, e, told), NEW v, DeviceReading(d, v), NEW w, DeviceReading(e, w),
         v[1] = w[1], v[2] # w[2]
  PROVE  w[1].resource \in told
<1> DEFINE r == w[1].resource
           ri == w[1].resInstance
<1>1. CASE r \in DeviceSingle
  <2>1. v[2] = d.values[r] /\ w[2] = e.values[r]
    BY <1>1, DeviceKinds DEF DeviceReading
  <2> QED
    BY <1>1, <2>1 DEF DeviceTold
<1>2. CASE r = ID.ERROR_CODE
  <2>1. v[2] = prv_getErrorValue(d.errors, ri) /\ w[2] = prv_getErrorValue(e.errors, ri)
    BY <1>2, DeviceKinds DEF DeviceReading
  <2>2. e.errors # d.errors
    BY <2>1
  <2> QED
    BY <1>2, <2>2 DEF DeviceTold
<1>3. CASE r \notin DeviceSingle /\ r # ID.ERROR_CODE
  <2>1. PICK s \in ToSet(d.sources) :
          /\ s.id = ri
          /\ \/ r = ID.AVAILABLE_POWER_SRC /\ v[2] = s.type
             \/ r = ID.POWER_SRC_VOLTAGE /\ v[2] = s.voltage
             \/ r = ID.POWER_SRC_CURRENT /\ v[2] = s.current
    BY <1>3 DEF DeviceReading
  <2>2. PICK t \in ToSet(e.sources) :
          /\ t.id = ri
          /\ \/ r = ID.AVAILABLE_POWER_SRC /\ w[2] = t.type
             \/ r = ID.POWER_SRC_VOLTAGE /\ w[2] = t.voltage
             \/ r = ID.POWER_SRC_CURRENT /\ w[2] = t.current
    BY <1>3 DEF DeviceReading
  <2> HIDE DEF r, ri
  <2>3. /\ s.type # t.type => ID.AVAILABLE_POWER_SRC \in told
        /\ s.voltage # t.voltage => ID.POWER_SRC_VOLTAGE \in told
        /\ s.current # t.current => ID.POWER_SRC_CURRENT \in told
    BY <2>1, <2>2 DEF DeviceTold, SourcesTold
  <2>4. r \in told
    BY <2>1, <2>2, <2>3, DeviceKinds
  <2> QED
    BY <2>4 DEF r
<1> QED
  BY <1>1, <1>2, <1>3

\* The case is chosen once.
LEMMA UsesStay ==
  ASSUME ChangeInv, Next
  PROVE  UNCHANGED uses
<1>1. ASSUME DeviceAction PROVE UNCHANGED uses
  <2>1. PICK update : DeviceUpdated(update)
    BY <1>1, DeviceTells DEF ChangeInv, TypeInv, HeldInv
  <2> QED
    BY <2>1, DeviceFrame
<1>2. ASSUME ServerAction PROVE UNCHANGED uses
  <2>1. ASSUME NEW request, Refuse(request) PROVE UNCHANGED uses
    BY <2>1, RefuseFrame
  <2>2. ASSUME NEW request, Write(request) PROVE UNCHANGED uses
    BY <2>2, WriteFrame
  <2>3. ASSUME NEW request, Execute(request) PROVE UNCHANGED uses
    BY <2>3, ExecuteFrame
  <2>4. ASSUME NEW request, Create(request) \/ Delete(request) PROVE UNCHANGED uses
    BY <2>4, CreateFrame
  <2> QED
    BY <1>2, <2>1, <2>2, <2>3, <2>4, Zenon DEF ServerAction
<1>3. ASSUME NEW enter \in BOOLEAN, iowa_client_notification_lock(enter) PROVE UNCHANGED uses
  BY <1>3, LockFrame
<1>4. ASSUME CustomAction PROVE UNCHANGED uses
  BY <1>4, CustomFrame
<1>5. ASSUME SensorAction PROVE UNCHANGED uses
  BY <1>5, SensorFrame
<1>6. ASSUME RegistrationAction PROVE UNCHANGED uses
  BY <1>6, RegistrationFrame
<1> QED
  BY <1>1, <1>2, <1>3, <1>4, <1>5, <1>6, Zenon DEF Next

\* The Resource of a value that changes is among those the step tells.
LEMMA CoveredIsTold ==
  ASSUME ChangeInv, UNCHANGED uses, NEW operation, NEW told,
         AppCovered(told), DeviceCovered(operation, told), SensorsCovered(operation, told),
         NEW v \in Readings, NEW w \in Readings', v[1] = w[1], v[2] # w[2]
  PROVE  \/ Uri(w[1].object, w[1].instance, w[1].resource) \in told
         \/ w[1].object = IPSO.ENERGY /\ operation = "execute"
         \/ /\ w[1].object = Device /\ operation = "device"
            /\ w[1].resource \in Unmoved(device, device')
<1>1. \/ HasCustom /\ AppReading(CustomObject, app, v)
      \/ DeviceReading(device, v)
      \/ UsesSensors /\ IpsoReading(uses, sensors, v)
  <2>1. v \in ReadingsOf(uses, objectList, app, device, sensors)
    BY ReadingsAre
  <2> QED
    BY <2>1, ReadingIs DEF HasCustom, CustomObject, UsesSensors
<1>2. \/ HasCustom' /\ AppReading(CustomObject', app', w)
      \/ DeviceReading(device', w)
      \/ UsesSensors /\ IpsoReading(uses, sensors', w)
  <2>1. w \in ReadingsOf(uses, objectList', app', device', sensors')
    BY ReadingsAre
  <2> QED
    BY <2>1, ReadingIs DEF HasCustom, CustomObject, UsesSensors
<1>3. CustomId # Device /\ (UsesSensors => uses.type # CustomId /\ uses.type # Device)
  BY TypesAre DEF ChangeInv, TypeInv, OwnedInv, UsesSensors
<1>4. /\ \A object, values, x : AppReading(object, values, x) => x[1].object = CustomId
      /\ \A d, x : DeviceReading(d, x) => x[1].object = Device
      /\ \A u, list, x : IpsoReading(u, list, x) => x[1].object = u.type
  BY DEF AppReading, DeviceReading, IpsoReading
<1>5. CASE w[1].object = CustomId
  <2>1. HasCustom /\ AppReading(CustomObject, app, v) /\ HasCustom' /\ AppReading(CustomObject', app', w)
    BY <1>1, <1>2, <1>3, <1>4, <1>5
  <2>2. AppTold(InstancesOf(CustomObject), app, app', told)
    BY <2>1 DEF AppCovered
  <2> QED
    BY <1>5, <2>1, <2>2 DEF AppReading, AppTold
<1>6. CASE w[1].object = Device
  <2>1. DeviceReading(device, v) /\ DeviceReading(device', w)
    BY <1>1, <1>2, <1>3, <1>4, <1>6
  <2>2. w[1].resource \in OfDevice(told) \cup IF operation = "device" THEN Unmoved(device, device') ELSE {}
    BY <2>1, DeviceReadingTold DEF DeviceCovered
  <2>3. w[1].instance = LWM2M_SINGLE_OBJECT_INSTANCE_ID
    BY <2>1 DEF DeviceReading
  <2> QED
    BY <1>6, <2>2, <2>3 DEF OfDevice
<1>7. CASE w[1].object \notin {CustomId, Device}
  <2>1. UsesSensors /\ IpsoReading(uses, sensors, v) /\ IpsoReading(uses, sensors', w)
    BY <1>1, <1>2, <1>4, <1>7
  <2>2. w[1].object = uses.type /\ w[1].resource \in ToSet(SensorHas) \ IpsoExecutable
    BY <2>1 DEF IpsoReading, HasOf, SensorHas
  <2>3. PICK s \in ToSet(sensors) : s.id = w[1].instance /\ v[2] = IpsoRead(s, w[1].resource)
    BY <2>1 DEF IpsoReading
  <2>4. PICK t \in ToSet(sensors') : t.id = w[1].instance /\ w[2] = IpsoRead(t, w[1].resource)
    BY <2>1 DEF IpsoReading
  <2>5. SensorsTold(sensors, sensors', told) \/ (uses.type = IPSO.ENERGY /\ operation = "execute")
    BY <2>1 DEF SensorsCovered
  <2> QED
    BY <2>2, <2>3, <2>4, <2>5 DEF SensorsTold
<1> QED
  BY <1>5, <1>6, <1>7

LEMMA NextIsTold ==
  ASSUME Contract, ChangeInv, ChangeInv', Next, NEW v \in Readings, NEW w \in Readings', v[1] = w[1], v[2] # w[2]
  PROVE  \/ Uri(v[1].object, v[1].instance, v[1].resource) \in out'.told
         \/ v[1].object = IPSO.ENERGY /\ out'.operation = "execute"
         \/ ChangedInPlace(v[1])
         \/ out'.code >= BAD_REQUEST
<1>1. PICK operation, code, told :
        /\ Report(operation, code, told)
        /\ code >= BAD_REQUEST \/ (AppCovered(told) /\ DeviceCovered(operation, told) /\ SensorsCovered(operation, told))
  BY NextTells DEF StepTells
<1>2. out'.operation = operation /\ out'.code = code /\ out'.told = ResourceChanged(objectList', told)
  BY <1>1 DEF Report, Reported
<1>3. object_checkReadable(objectList', Uri(w[1].object, w[1].instance, w[1].resource)) = CONTENT
  <2>1. Whole(uses', objectList', app', device', sensors')
    BY ChangeIsWhole
  <2>2. w \in ReadingsOf(uses', objectList', app', device', sensors')
    BY ReadingsAre
  <2> QED
    BY <2>1, <2>2, ReadingCanBeRead
<1>4. CASE code >= BAD_REQUEST
  BY <1>2, <1>4
<1>5. CASE AppCovered(told) /\ DeviceCovered(operation, told) /\ SensorsCovered(operation, told)
  <2>1. \/ Uri(w[1].object, w[1].instance, w[1].resource) \in told
        \/ w[1].object = IPSO.ENERGY /\ operation = "execute"
        \/ /\ w[1].object = Device /\ operation = "device"
           /\ w[1].resource \in Unmoved(device, device')
    BY <1>5, UsesStay, CoveredIsTold
  <2> QED
    BY <1>2, <1>3, <2>1 DEF ResourceChanged, ChangedInPlace, Unmoved, Device
<1> QED
  BY <1>1, <1>4, <1>5

\* A value that a Server can read and that changes is told, whoever changed it
\* and whatever else changed with it, so that the observations of it are looked
\* at, but in three cases: a text of the device that the application changed in
\* its buffer, whose address is the only thing iowa_client_update_device_
\* information compares; an energy that a Server resets; and what a write did
\* before it is refused (customObjectResourceChanged and all its callers).
THEOREM ChangesAreTold == ASSUME Contract PROVE Spec => ChangeIsTold
<1>1. Init => ChangeInv
  BY InitTyped, InitShaped, InitPowered DEF ChangeInv
<1>2. ChangeInv /\ [Next]_vars => ChangeInv'
  BY NextTyped, NextShaped, NextPowered DEF ChangeInv, TypeInv
<1>3. ChangeInv /\ ChangeInv' /\ [Next]_vars =>
        [\A v \in Readings, w \in Readings' :
           v[1] = w[1] /\ v[2] # w[2] =>
             \/ Uri(v[1].object, v[1].instance, v[1].resource) \in out'.told
             \/ v[1].object = IPSO.ENERGY /\ out'.operation = "execute"
             \/ ChangedInPlace(v[1])
             \/ out'.code >= BAD_REQUEST]_vars
  BY NextIsTold, Zenon
<1> QED
  BY <1>1, <1>2, <1>3, PTL DEF Spec, ChangeIsTold

-----------------------------------------------------------------------------
(* The measures of a sensor: its counter and its extremes are those of the *)
(* values it had.                                                          *)

\* Where the values rise.
Rises(values) == {i \in 2..Len(values) : values[i - 1] < values[i]}

\* H: the Resources of the sensor s; values: those it had since it was added or
\* reset.
Measures(H, s, values) ==
  /\ values \in Seq(Int) /\ values # <<>> /\ s.value = values[Len(values)]
  /\ s.min \in Int /\ s.max \in Int
  /\ RSC.DIGITAL_INPUT_COUNTER \in H => s.max = Cardinality(Rises(values))
  /\ RSC.MIN_MEASURED_VALUE \in H => s.min \in ToSet(values) /\ \A v \in ToSet(values) : s.min <= v
  /\ RSC.MAX_MEASURED_VALUE \in H => s.max \in ToSet(values) /\ \A v \in ToSet(values) : v <= s.max

LEMMA OneMoreValue ==
  ASSUME NEW values \in Seq(Int), values # <<>>, NEW v \in Int, NEW longer, longer = Append(values, v)
  PROVE  /\ longer \in Seq(Int) /\ longer # <<>> /\ longer[Len(longer)] = v
         /\ ToSet(longer) = ToSet(values) \cup {v}
         /\ values[Len(values)] \in Int /\ Len(values) \in Nat
         /\ Rises(longer) = IF values[Len(values)] < v THEN Rises(values) \cup {Len(values) + 1} ELSE Rises(values)
         /\ IsFiniteSet(Rises(values)) /\ Len(values) + 1 \notin Rises(values)
<1> DEFINE n == Len(values)
<1>1. n \in Nat /\ n >= 1 /\ DOMAIN values = 1..n /\ \A i \in 1..n : values[i] \in Int
  OBVIOUS
<1>2. /\ longer \in Seq(Int) /\ Len(longer) = n + 1 /\ DOMAIN longer = 1..(n + 1)
      /\ longer[n + 1] = v /\ \A i \in 1..n : longer[i] = values[i]
  OBVIOUS
<1>3. longer # <<>>
  BY <1>1, <1>2
<1> HIDE DEF n
<1>4. ToSet(longer) = ToSet(values) \cup {v}
  BY <1>1, <1>2 DEF ToSet
<1>5. Rises(values) = {i \in 2..n : values[i - 1] < values[i]}
  BY DEF Rises, n
<1>6. Rises(longer) = {i \in 2..(n + 1) : longer[i - 1] < longer[i]}
  BY <1>2 DEF Rises
<1>7. \A i \in 2..n : longer[i - 1] = values[i - 1] /\ longer[i] = values[i]
  BY <1>1, <1>2
<1>8. n + 1 \in 2..(n + 1) /\ longer[(n + 1) - 1] = values[n]
  BY <1>1, <1>2
<1>9. 2..(n + 1) = (2..n) \cup {n + 1} /\ n + 1 \notin 2..n
  BY <1>1
<1>10. Rises(longer) = IF values[n] < v THEN Rises(values) \cup {n + 1} ELSE Rises(values)
  BY <1>2, <1>5, <1>6, <1>7, <1>8, <1>9
<1>11. IsFiniteSet(Rises(values))
  <2>1. IsFiniteSet(2..n)
    BY <1>1, FS_Interval
  <2> QED
    BY <1>5, <2>1, FS_Subset
<1> QED
  BY <1>1, <1>2, <1>3, <1>4, <1>5, <1>9, <1>10, <1>11 DEF n

\* The measures are those of the fields they are kept in.
LEMMA SameMeasures ==
  ASSUME NEW H, NEW s, NEW values, Measures(H, s, values),
         NEW t, t.value = s.value, t.min = s.min, t.max = s.max
  PROVE  Measures(H, t, values)
BY DEF Measures

LEMMA FamilyMeasures ==
  ASSUME NEW type, NEW F, F = Family(type)
  PROVE  /\ RSC.DIGITAL_INPUT_COUNTER \in F <=> type \in Digital \cup {IPSO.PRESENCE}
         /\ RSC.DIGITAL_INPUT_COUNTER \in F \/ RSC.DIGITAL_INPUT_COUNTER_RESET \in F \/ RSC.RESET_CUMULATIVE_ENERGY \in F
              => RSC.MIN_MEASURED_VALUE \notin F /\ RSC.MAX_MEASURED_VALUE \notin F
         /\ RSC.RESET_MIN_AND_MAX_MEASURED_VALUES \in F \/ RSC.RESET_CUMULATIVE_ENERGY \in F
              => RSC.DIGITAL_INPUT_COUNTER \notin F
<1>1. /\ IPSO.ANALOG_INPUT = 3202 /\ IPSO.ENERGY = 3331 /\ IPSO.DIRECTION = 3332 /\ IPSO.PRESENCE = 3302
      /\ Digital = {3200, 3347, 3342}
  BY DEF IPSO, Digital
<1>2. \/ /\ type \notin Digital \cup {IPSO.PRESENCE}
         /\ \/ F = {RSC.ANALOG_INPUT_CURRENT_VALUE} \cup MeasuredFamily \cup RangeFamily \cup {RSC.APPLICATION_TYPE}
            \/ F = {RSC.SENSOR_VALUE, RSC.RESET_CUMULATIVE_ENERGY, RSC.SENSOR_UNITS, RSC.APPLICATION_TYPE}
            \/ F = {RSC.COMPASS_DIRECTION, RSC.APPLICATION_TYPE} \cup MeasuredFamily
            \/ F \subseteq {RSC.SENSOR_VALUE} \cup MeasuredFamily \cup {RSC.SENSOR_UNITS} \cup RangeFamily
                             \cup {RSC.APPLICATION_TYPE}
      \/ /\ type \in Digital \cup {IPSO.PRESENCE}
         /\ \/ F = DigitalFamily \cup {RSC.APPLICATION_TYPE}
            \/ F = DigitalFamily \cup {RSC.SENSOR_TYPE, RSC.DIGITAL_INPUT_COUNTER_RESET}
  BY <1>1 DEF Family
<1>3. /\ RSC.DIGITAL_INPUT_STATE = 5500 /\ RSC.DIGITAL_INPUT_COUNTER = 5501 /\ RSC.DIGITAL_INPUT_COUNTER_RESET = 5505
      /\ RSC.ANALOG_INPUT_CURRENT_VALUE = 5600 /\ RSC.MIN_MEASURED_VALUE = 5601 /\ RSC.MAX_MEASURED_VALUE = 5602
      /\ RSC.MIN_RANGE_VALUE = 5603 /\ RSC.MAX_RANGE_VALUE = 5604 /\ RSC.RESET_MIN_AND_MAX_MEASURED_VALUES = 5605
      /\ RSC.SENSOR_VALUE = 5700 /\ RSC.SENSOR_UNITS = 5701 /\ RSC.COMPASS_DIRECTION = 5705
      /\ RSC.APPLICATION_TYPE = 5750 /\ RSC.SENSOR_TYPE = 5751 /\ RSC.RESET_CUMULATIVE_ENERGY = 5822
  BY DEF RSC
<1> QED
  BY <1>2, <1>3 DEF MeasuredFamily, RangeFamily, DigitalFamily

\* A sensor that counts has a state.
LEMMA CountersHaveStates ==
  ASSUME NEW type, NEW r, NEW u, NEW a, RSC.DIGITAL_INPUT_COUNTER \in Family(type)
  PROVE  RSC.DIGITAL_INPUT_STATE \in ToSet(prv_getResourceList(type, r, u, a))
<1> DEFINE with(b, ids) == IF b THEN ids ELSE <<>>
           named == with(a, <<RSC.APPLICATION_TYPE>>)
           kind == with(a, <<RSC.SENSOR_TYPE>>)
           reset == <<RSC.DIGITAL_INPUT_COUNTER_RESET>>
           units == with(u, <<RSC.SENSOR_UNITS>>)
           bounds == with(r, MinAndMaxRange)
           analog == <<RSC.ANALOG_INPUT_CURRENT_VALUE>> \o MinAndMax \o named \o bounds
           energy == <<RSC.SENSOR_VALUE, RSC.RESET_CUMULATIVE_ENERGY>> \o units \o named
           direction == <<RSC.COMPASS_DIRECTION>> \o named \o MinAndMax
           other == <<RSC.SENSOR_VALUE>> \o MinAndMax \o units
                      \o with(type \notin NoApplicationType /\ a, <<RSC.APPLICATION_TYPE>>) \o bounds
           digital == DigitalState \o named
           presence == DigitalState \o kind \o reset
<1>1. /\ IPSO.ANALOG_INPUT = 3202 /\ IPSO.ENERGY = 3331 /\ IPSO.DIRECTION = 3332 /\ IPSO.PRESENCE = 3302
      /\ Digital = {3200, 3347, 3342}
  BY DEF IPSO, Digital
<1>2. type \in Digital \cup {IPSO.PRESENCE}
  BY FamilyMeasures
<1>3. prv_getResourceList(type, r, u, a) \in {digital, presence}
  <2>1. prv_getResourceList(type, r, u, a) =
          CASE type = IPSO.ANALOG_INPUT -> analog
            [] type = IPSO.ENERGY -> energy
            [] type = IPSO.DIRECTION -> direction
            [] type \in Digital -> digital
            [] type = IPSO.PRESENCE -> presence
            [] OTHER -> other
    BY Zenon DEF prv_getResourceList
  <2> HIDE DEF analog, energy, direction, other, digital, presence
  <2> QED
    BY <1>1, <1>2, <2>1
<1>4. Holds(named, {}) /\ Holds(kind, {}) /\ Holds(reset, {RSC.DIGITAL_INPUT_COUNTER_RESET})
  BY OneExactly, ExactlyHolds, OptionalHolds
<1>5. Holds(DigitalState, DigitalFamily)
  BY Families, ExactlyHolds
<1> HIDE DEF named, kind, reset
<1>6. Holds(DigitalState \o named, DigitalFamily)
  BY <1>4, <1>5, LongerHolds
<1>7. Holds(DigitalState \o kind \o reset, DigitalFamily \cup {RSC.DIGITAL_INPUT_COUNTER_RESET})
  BY <1>4, <1>5, LongerHolds, JoinedHolds
<1> QED
  BY <1>3, <1>6, <1>7 DEF Holds, DigitalFamily, digital, presence

LEMMA NewMeasures ==
  ASSUME NEW type, NEW H, H \subseteq Family(type), NEW value \in Int, prv_checkResourceValue(type, value) = NO_ERROR,
         NEW s, s.value = value, s.min = value, s.max = value,
         NEW values, values = IF type \in Digital \cup {IPSO.PRESENCE} THEN <<0, value>> ELSE <<value>>
  PROVE  Measures(H, s, values)
<1>1. CASE type \in Digital \cup {IPSO.PRESENCE}
  <2>1. value \in {0, 1}
    BY <1>1 DEF prv_checkResourceValue, NOT_ACCEPTABLE, NO_ERROR
  <2>2. PICK zero : zero = <<0>>
    OBVIOUS
  <2>3. /\ zero \in Seq(Int) /\ zero # <<>> /\ Len(zero) = 1 /\ zero[Len(zero)] = 0
        /\ values = Append(zero, value)
    BY <1>1, <2>2
  <2>4. /\ values \in Seq(Int) /\ values # <<>> /\ values[Len(values)] = value
        /\ Rises(values) = IF 0 < value THEN Rises(zero) \cup {2} ELSE Rises(zero)
    <3>1. PICK longer : longer = Append(zero, value)
      OBVIOUS
    <3>2. /\ longer \in Seq(Int) /\ longer # <<>> /\ longer[Len(longer)] = value
          /\ Rises(longer) = IF zero[Len(zero)] < value THEN Rises(zero) \cup {Len(zero) + 1} ELSE Rises(zero)
      BY <2>3, <3>1, OneMoreValue
    <3> QED
      <4>1. longer = values
        BY <2>3, <3>1
      <4>2. zero[Len(zero)] = 0 /\ Len(zero) + 1 = 2
        BY <2>3
      <4> QED
        BY <3>2, <4>1, <4>2
  <2>5. Rises(zero) = {}
    BY <2>3 DEF Rises
  <2>6. Cardinality({}) = 0 /\ Cardinality({2}) = 1
    BY FS_EmptySet, FS_Singleton
  <2>7. s.max = Cardinality(Rises(values))
    BY <2>1, <2>4, <2>5, <2>6
  <2>8. RSC.MIN_MEASURED_VALUE \notin H /\ RSC.MAX_MEASURED_VALUE \notin H
    BY <1>1, FamilyMeasures
  <2> QED
    BY <2>4, <2>7, <2>8 DEF Measures
<1>2. CASE type \notin Digital \cup {IPSO.PRESENCE}
  <2>1. values = <<value>>
    BY <1>2
  <2>2. values \in Seq(Int) /\ values # <<>> /\ Len(values) = 1 /\ values[1] = value /\ ToSet(values) = {value}
    BY <2>1, OneElement
  <2>3. RSC.DIGITAL_INPUT_COUNTER \notin H
    BY <1>2, FamilyMeasures
  <2> QED
    BY <2>2, <2>3 DEF Measures
<1> QED
  BY <1>1, <1>2

\* What becomes of the measures with another value (prv_updateResourceValues).
LEMMA UpdateMeasures ==
  ASSUME NEW s, GoodSensor(s), NEW H, IsSequence(H), NEW type, ToSet(H) \subseteq Family(type),
         RSC.DIGITAL_INPUT_COUNTER \in Family(type) => RSC.DIGITAL_INPUT_STATE \in ToSet(H),
         NEW values, Measures(ToSet(H), s, values), NEW value \in Int,
         NEW u, u = prv_updateResourceValues(s, H, value),
         NEW longer, longer = IF value = s.value THEN values ELSE Append(values, value)
  PROVE  Measures(ToSet(H), u.sensor, longer)
<1> DEFINE C == RSC.DIGITAL_INPUT_COUNTER
           Min_ == RSC.MIN_MEASURED_VALUE
           Max_ == RSC.MAX_MEASURED_VALUE
           S == RSC.DIGITAL_INPUT_STATE
           lower == Min_ \in ToSet(H) /\ value < s.min
           higher == ~lower /\ Max_ \in ToSet(H) /\ value > s.max
<1>1. CASE value = s.value
  <2>1. u.sensor.value = s.value /\ u.sensor.min = s.min /\ u.sensor.max = s.max
    BY <1>1 DEF prv_updateResourceValues, GoodSensor
  <2> QED
    BY <1>1, <2>1, SameMeasures
<1>2. CASE value # s.value
  <2>1. /\ values \in Seq(Int) /\ values # <<>> /\ s.value = values[Len(values)] /\ s.min \in Int /\ s.max \in Int
    BY DEF Measures
  <2>2. longer = Append(values, value)
    BY <1>2
  <2>3. /\ longer \in Seq(Int) /\ longer # <<>> /\ longer[Len(longer)] = value
        /\ ToSet(longer) = ToSet(values) \cup {value}
        /\ Rises(longer) = IF s.value < value THEN Rises(values) \cup {Len(values) + 1} ELSE Rises(values)
        /\ IsFiniteSet(Rises(values)) /\ Len(values) + 1 \notin Rises(values) /\ s.value \in Int
    BY <2>1, <2>2, OneMoreValue
  <2>4. Cardinality(Rises(longer)) = IF s.value < value THEN Cardinality(Rises(values)) + 1 ELSE Cardinality(Rises(values))
    BY <2>3, FS_AddElement
  <2>5. \A id : Contains(H, id) <=> id \in ToSet(H)
    <3>1. DOMAIN H = 1..Len(H)
      BY SequenceIs
    <3> QED
      BY <3>1 DEF Contains, ToSet
  <2>6. u.sensor.value = value
    BY <1>2 DEF prv_updateResourceValues, GoodSensor
  <2>7. CASE S \in ToSet(H)
    <3>1. Min_ \notin ToSet(H) /\ Max_ \notin ToSet(H)
      <4>1. S \in Family(type) => Min_ \notin Family(type) /\ Max_ \notin Family(type)
        BY FamilyIs
      <4> QED
        BY <2>7, <4>1
    <3>2. /\ u.sensor.min = s.min
          /\ u.sensor.max = IF C \in ToSet(H) /\ s.value < value THEN s.max + 1 ELSE s.max
      BY <1>2, <2>3, <2>5, <2>7 DEF prv_updateResourceValues, GoodSensor
    <3>3. C \in ToSet(H) => s.max = Cardinality(Rises(values))
      BY DEF Measures
    <3>4. C \in ToSet(H) => u.sensor.max = Cardinality(Rises(longer))
      BY <2>4, <3>2, <3>3
    <3>5. u.sensor.min \in Int /\ u.sensor.max \in Int
      BY <2>1, <3>2
    <3> QED
      BY <2>3, <2>6, <3>1, <3>4, <3>5 DEF Measures
  <2>8. CASE S \notin ToSet(H)
    <3>1. C \notin ToSet(H)
      BY <2>8
    <3>2. /\ u.sensor.min = IF lower THEN value ELSE s.min
          /\ u.sensor.max = IF higher THEN value ELSE s.max
      BY <1>2, <2>5, <2>8 DEF prv_updateResourceValues, GoodSensor
    <3>3. /\ Min_ \in ToSet(H) => s.min \in ToSet(values) /\ \A v \in ToSet(values) : s.min <= v
          /\ Max_ \in ToSet(H) => s.max \in ToSet(values) /\ \A v \in ToSet(values) : v <= s.max
      BY DEF Measures
    <3>4. \A v \in ToSet(values) : v \in Int
      BY <2>1 DEF ToSet
    <3>5. u.sensor.min \in Int /\ u.sensor.max \in Int
      BY <2>1, <3>2
    <3>6. Min_ \in ToSet(H) => u.sensor.min \in ToSet(longer) /\ \A v \in ToSet(longer) : u.sensor.min <= v
      BY <2>1, <2>3, <3>2, <3>3, <3>4
    <3>7. Max_ \in ToSet(H) => u.sensor.max \in ToSet(longer) /\ \A v \in ToSet(longer) : v <= u.sensor.max
      <4>1. lower /\ Max_ \in ToSet(H) => value <= s.max
        <5>1. s.value \in ToSet(values)
          BY <2>1 DEF ToSet
        <5>2. Max_ \in ToSet(H) /\ Min_ \in ToSet(H) => s.min <= s.value /\ s.value <= s.max
          BY <3>3, <5>1
        <5> QED
          BY <2>1, <2>3, <5>2
      <4> QED
        BY <2>1, <2>3, <3>2, <3>3, <3>4, <4>1
    <3> QED
      BY <2>3, <2>6, <3>1, <3>5, <3>6, <3>7 DEF Measures
  <2> QED
    BY <2>7, <2>8
<1> QED
  BY <1>1, <1>2

\* A reset starts again from the value there is, and what cannot be executed
\* changes nothing.
LEMMA ResetMeasures ==
  ASSUME NEW s, GoodSensor(s), NEW type, NEW H, H \subseteq Family(type), NEW resource \in Family(type), NEW argument,
         NEW values, Measures(H, s, values), NEW e, e = IpsoExecute(s, resource, argument)
  PROVE  /\ e.code = NO_ERROR => resource \in IpsoExecutable /\ Measures(H, e.sensor, <<e.sensor.value>>)
         /\ e.code # NO_ERROR => e.sensor = s
<1>1. \/ e.code # NO_ERROR /\ e.sensor = s
      \/ /\ resource = RSC.RESET_MIN_AND_MAX_MEASURED_VALUES
         /\ e.code = NO_ERROR /\ e.sensor.value = s.value /\ e.sensor.min = s.value /\ e.sensor.max = s.value
      \/ /\ resource = RSC.RESET_CUMULATIVE_ENERGY
         /\ e.code = NO_ERROR /\ e.sensor.value = 0 /\ e.sensor.min = s.min /\ e.sensor.max = s.max
      \/ /\ resource = RSC.DIGITAL_INPUT_COUNTER_RESET
         /\ e.code = NO_ERROR /\ e.sensor.value = s.value /\ e.sensor.min = s.min /\ e.sensor.max = 0
  BY DEF IpsoExecute, GoodSensor, NO_ERROR, BAD_REQUEST, METHOD_NOT_ALLOWED
<1>2. CASE e.code = NO_ERROR
  <2>1. s.value \in Int /\ s.min \in Int /\ s.max \in Int
    <3>1. values \in Seq(Int) /\ values # <<>> /\ s.value = values[Len(values)] /\ s.min \in Int /\ s.max \in Int
      BY DEF Measures
    <3> QED
      BY <3>1, OneMoreValue
  <2>2. PICK v : v = e.sensor.value
    OBVIOUS
  <2>3. v \in Int /\ e.sensor.min \in Int /\ e.sensor.max \in Int /\ resource \in IpsoExecutable
    BY <1>1, <1>2, <2>1, <2>2 DEF IpsoExecutable
  <2>4. PICK one : one = <<v>>
    OBVIOUS
  <2>5. one \in Seq(Int) /\ one # <<>> /\ Len(one) = 1 /\ one[1] = v /\ ToSet(one) = {v}
    BY <2>3, <2>4, OneElement
  <2>6. Cardinality(Rises(one)) = 0
    <3>1. Rises(one) = {}
      BY <2>5 DEF Rises
    <3> QED
      BY <3>1, FS_EmptySet
  <2>7. RSC.DIGITAL_INPUT_COUNTER \in H => e.sensor.max = 0
    BY <1>1, <1>2, FamilyMeasures
  <2>8. RSC.MIN_MEASURED_VALUE \in H => e.sensor.min = v
    BY <1>1, <1>2, <2>2, FamilyMeasures
  <2>9. RSC.MAX_MEASURED_VALUE \in H => e.sensor.max = v
    BY <1>1, <1>2, <2>2, FamilyMeasures
  <2>10. Measures(H, e.sensor, one)
    BY <2>2, <2>3, <2>5, <2>6, <2>7, <2>8, <2>9 DEF Measures
  <2> QED
    BY <1>2, <2>2, <2>3, <2>4, <2>10
<1> QED
  BY <1>1, <1>2

-----------------------------------------------------------------------------
(* The measures of all of them                                             *)

Measured(H, list, values) == \A s \in ToSet(list) : Measures(H, s, values[s.id])

MeasuredInv == UsesSensors => Measured(ToSet(SensorHas), sensors, seen)

LEMMA OneIsMeasured ==
  ASSUME NEW list, GoodSensors(list), NEW index \in 1..Len(list), NEW H, NEW values, Measured(H, list, values),
         NEW t, t.id = list[index].id, NEW others, Measures(H, t, others[t.id]),
         \A s \in ToSet(list) : s.id # t.id => others[s.id] = values[s.id]
  PROVE  Measured(H, With(list, index, t), others)
<1>1. IsList(list) /\ list[index] \in ToSet(list)
  BY ListIs DEF GoodSensors
<1>2. t \notin ToSet(list) \ {list[index]}
  BY <1>1 DEF GoodSensors
<1>3. PICK longer : longer = With(list, index, t)
  OBVIOUS
<1>4. ToSet(longer) = (ToSet(list) \ {list[index]}) \cup {t}
  BY <1>1, <1>2, <1>3, Replaced
<1> QED
  BY <1>1, <1>3, <1>4 DEF Measured, GoodSensors

LEMMA StillMeasured ==
  ASSUME UNCHANGED uses, UsesSensors => Measured(ToSet(SensorHas), sensors', seen')
  PROVE  MeasuredInv'
BY DEF MeasuredInv, UsesSensors, SensorHas

LEMMA SameSensors ==
  ASSUME MeasuredInv, UNCHANGED <<uses, sensors, seen>>
  PROVE  MeasuredInv'
BY DEF MeasuredInv, UsesSensors, SensorHas

\* What the sensors of a case have.
LEMMA SensorsHave ==
  /\ IsSequence(SensorHas) /\ ToSet(SensorHas) \subseteq Family(uses.type)
  /\ RSC.DIGITAL_INPUT_COUNTER \in Family(uses.type) => RSC.DIGITAL_INPUT_STATE \in ToSet(SensorHas)
BY FamilyHas, CountersHaveStates DEF SensorHas, Some

LEMMA AddMeasured ==
  ASSUME ChangeInv, MeasuredInv, UsesSensors, NEW value \in uses.values, iowa_client_IPSO_add_sensor(value)
  PROVE  MeasuredInv'
<1> DEFINE id == NewSensorId(sensors)
           first == NewSensor(id, value, uses.unit, uses.appType, uses.range)
           values == IF uses.type \in Digital \cup {IPSO.PRESENCE} THEN <<0, value>> ELSE <<value>>
<1>1. UNCHANGED uses
  BY DEF iowa_client_IPSO_add_sensor
<1>2. \/ UNCHANGED <<sensors, seen>>
      \/ \E objectFails, instanceFails : /\ SensorAdded(value, objectFails, instanceFails).code = NO_ERROR
                                         /\ sensors' = <<first>> \o sensors /\ seen' = Holding(seen, id, values)
  BY Zenon DEF iowa_client_IPSO_add_sensor
<1>3. CASE UNCHANGED <<sensors, seen>>
  BY <1>1, <1>3, SameSensors
<1>4. ASSUME NEW objectFails, NEW instanceFails, SensorAdded(value, objectFails, instanceFails).code = NO_ERROR,
             sensors' = <<first>> \o sensors, seen' = Holding(seen, id, values)
      PROVE  MeasuredInv'
  <2>1. GoodSensors(sensors) /\ DOMAIN seen = IdentifiersOf(sensors) /\ uses \in Cases
    BY SensorsAre DEF ChangeInv, TypeInv, HeldInv, OwnedInv
  <2>2. value \in Int
    BY <2>1, ManagementAssumption DEF ManagementAssumption, UsesSensors
  <2>3. prv_checkResourceValue(uses.type, value) = NO_ERROR
    BY <1>4 DEF SensorAdded
  <2>4. id \notin IdentifiersOf(sensors)
    BY <2>1, NewSensorIs
  <2>5. PICK s, had : s = first /\ had = values
    OBVIOUS
  <2>6. s.id = id /\ s.value = value /\ s.min = value /\ s.max = value
    BY <2>5 DEF NewSensor
  <2>7. Measures(ToSet(SensorHas), s, had)
    BY <2>2, <2>3, <2>5, <2>6, SensorsHave, NewMeasures
  <2> HIDE DEF id, first, values
  <2>8. ToSet(<<s>> \o sensors) = ToSet(sensors) \cup {s}
    <3>1. IsList(sensors) /\ s \notin ToSet(sensors)
      BY <2>1, <2>4, <2>6 DEF GoodSensors, IdentifiersOf
    <3> QED
      BY <3>1, AddedFirst
  <2>9. /\ seen'[id] = had
        /\ \A t \in ToSet(sensors) : t.id # id /\ seen'[t.id] = seen[t.id]
    BY <1>4, <2>1, <2>4, <2>5 DEF Holding, IdentifiersOf
  <2>10. Measured(ToSet(SensorHas), sensors, seen)
    BY DEF MeasuredInv
  <2>11. Measured(ToSet(SensorHas), sensors', seen')
    BY <1>4, <2>5, <2>6, <2>7, <2>8, <2>9, <2>10 DEF Measured
  <2> QED
    BY <1>1, <2>11, StillMeasured
<1> QED
  BY <1>2, <1>3, <1>4

LEMMA RemoveMeasured ==
  ASSUME ChangeInv, MeasuredInv, NEW id, iowa_client_IPSO_remove_sensor(id)
  PROVE  MeasuredInv'
<1>1. UNCHANGED uses /\ UsesSensors
  BY DEF iowa_client_IPSO_remove_sensor
<1>2. \/ UNCHANGED <<sensors, seen>>
      \/ /\ SensorIndex(id) # 0 /\ sensors' = RemoveAt(sensors, SensorIndex(id))
         /\ seen' = Restrict(seen, DOMAIN seen \ {id})
  BY Zenon DEF iowa_client_IPSO_remove_sensor
<1>3. CASE UNCHANGED <<sensors, seen>>
  BY <1>1, <1>3, SameSensors
<1>4. CASE /\ SensorIndex(id) # 0 /\ sensors' = RemoveAt(sensors, SensorIndex(id))
           /\ seen' = Restrict(seen, DOMAIN seen \ {id})
  <2>1. GoodSensors(sensors) /\ DOMAIN seen = IdentifiersOf(sensors) /\ IsList(sensors)
    BY SensorsAre DEF ChangeInv, TypeInv, HeldInv, GoodSensors
  <2>2. PICK index : index = SensorIndex(id)
    OBVIOUS
  <2>3. index \in 1..Len(sensors) /\ sensors[index] \in ToSet(sensors) /\ sensors[index].id = id
    BY <1>4, <2>1, <2>2, SensorFound
  <2>4. ToSet(sensors') = ToSet(sensors) \ {sensors[index]}
    BY <1>4, <2>1, <2>2, <2>3, Removed
  <2>5. \A s \in ToSet(sensors') : s \in ToSet(sensors) /\ s.id # id
    BY <2>1, <2>3, <2>4 DEF GoodSensors
  <2>6. \A k \in DOMAIN seen \ {id} : seen'[k] = seen[k]
    BY <1>4 DEF Restrict
  <2>7. \A s \in ToSet(sensors') : seen'[s.id] = seen[s.id]
    BY <2>1, <2>5, <2>6 DEF IdentifiersOf
  <2>8. Measured(ToSet(SensorHas), sensors, seen)
    BY <1>1 DEF MeasuredInv
  <2>9. Measured(ToSet(SensorHas), sensors', seen')
    BY <2>5, <2>7, <2>8 DEF Measured
  <2> QED
    BY <1>1, <2>9, StillMeasured
<1> QED
  BY <1>2, <1>3, <1>4

LEMMA UpdateMeasured ==
  ASSUME ChangeInv, MeasuredInv, UsesSensors, NEW id, NEW value \in uses.values, iowa_client_IPSO_update_value(id, value)
  PROVE  MeasuredInv'
<1> DEFINE index == SensorIndex(id)
           object == ObjectOf(objectList, uses.type)
           resources == object.instances[object_getInstanceIndex(object, id)].resources
           update == prv_updateResourceValues(sensors[index], resources, value)
<1>1. UNCHANGED uses
  BY DEF iowa_client_IPSO_update_value
<1>2. \/ UNCHANGED <<sensors, seen>>
      \/ /\ index # 0 /\ sensors' = With(sensors, index, update.sensor)
         /\ seen' = IF value = sensors[index].value THEN seen ELSE [seen EXCEPT ![id] = Append(@, value)]
  BY Zenon DEF iowa_client_IPSO_update_value, With
<1>3. CASE UNCHANGED <<sensors, seen>>
  BY <1>1, <1>3, SameSensors
<1>4. CASE /\ index # 0 /\ sensors' = With(sensors, index, update.sensor)
           /\ seen' = IF value = sensors[index].value THEN seen ELSE [seen EXCEPT ![id] = Append(@, value)]
  <2>1. GoodSensors(sensors) /\ DOMAIN seen = IdentifiersOf(sensors) /\ uses \in Cases
    BY SensorsAre DEF ChangeInv, TypeInv, HeldInv, OwnedInv
  <2>2. value \in Int
    BY <2>1, ManagementAssumption DEF ManagementAssumption, UsesSensors
  <2>3. /\ index \in 1..Len(sensors) /\ GoodSensor(sensors[index]) /\ sensors[index].id = id
        /\ sensors[index] \in ToSet(sensors)
    BY <1>4, <2>1, SensorFound
  <2>4. id \in IdentifiersOf(sensors)
    BY <2>3 DEF IdentifiersOf
  <2>5. resources = SensorHas
    BY <2>4, InstanceHas
  <2>6. PICK s, u : s = sensors[index] /\ u = update
    OBVIOUS
  <2>7. u = prv_updateResourceValues(s, SensorHas, value)
    BY <2>5, <2>6
  <2>8. u.sensor.id = id
    BY <2>3, <2>6, <2>7, UpdateSensor
  <2>9. Measured(ToSet(SensorHas), sensors, seen)
    BY DEF MeasuredInv
  <2>10. PICK had : had = seen[id]
    OBVIOUS
  <2>11. PICK longer : longer = IF value = s.value THEN had ELSE Append(had, value)
    OBVIOUS
  <2> HIDE DEF index, update
  <2>12. Measures(ToSet(SensorHas), s, had)
    BY <2>3, <2>6, <2>9, <2>10 DEF Measured
  <2>13. Measures(ToSet(SensorHas), u.sensor, longer)
    BY <2>2, <2>3, <2>6, <2>7, <2>11, <2>12, SensorsHave, UpdateMeasures
  <2>14. seen'[id] = longer /\ \A k \in DOMAIN seen : k # id => seen'[k] = seen[k]
    BY <1>4, <2>1, <2>4, <2>6, <2>10, <2>11
  <2>15. \A t \in ToSet(sensors) : t.id # id => seen'[t.id] = seen[t.id]
    BY <2>1, <2>14 DEF IdentifiersOf
  <2>16. Measured(ToSet(SensorHas), With(sensors, index, u.sensor), seen')
    BY <2>1, <2>3, <2>8, <2>9, <2>13, <2>14, <2>15, OneIsMeasured
  <2> QED
    BY <1>1, <1>4, <2>6, <2>16, StillMeasured
<1> QED
  BY <1>2, <1>3, <1>4

\* None of the Resources of the device resets a sensor.
LEMMA DeviceResetsNone ==
  ASSUME NEW options, NEW n \in DOMAIN DeviceResources(options)
  PROVE  DeviceResources(options)[n].id \notin IpsoExecutable
<1>1. PICK ids : ids = DeviceIds(options)
  OBVIOUS
<1>2. IsList(ids) /\ ToSet(ids) \subseteq 0..22
  BY <1>1, DeviceIdsAre DEF Within
<1>3. n \in DOMAIN ids /\ DeviceResources(options)[n].id = ids[n]
  BY <1>1 DEF DeviceResources, DeviceDescriptor
<1>4. ids[n] \in ToSet(ids)
  BY <1>2, <1>3, ListIs
<1>5. IpsoExecutable = {5505, 5605, 5822}
  BY DEF IpsoExecutable, RSC
<1> QED
  BY <1>2, <1>3, <1>4, <1>5

\* The sensor of an Instance that a Server names.
LEMMA SensorIsThere ==
  ASSUME ChangeInv, NEW type, type \notin {CustomId, Device}, ObjectIndex(objectList, type) # 0,
         NEW id, HasSensor(type, id)
  PROVE  /\ UsesSensors /\ type = uses.type
         /\ SensorIndex(id) \in 1..Len(sensors) /\ GoodSensor(sensors[SensorIndex(id)])
         /\ sensors[SensorIndex(id)] \in ToSet(sensors) /\ sensors[SensorIndex(id)].id = id
<1>1. UsesSensors /\ type = uses.type
  BY OtherObjectIs
<1>2. GoodSensors(sensors)
  BY SensorsAre DEF ChangeInv, TypeInv
<1>3. SensorIndex(id) # 0
  BY <1>1 DEF HasSensor
<1> QED
  BY <1>1, <1>2, <1>3, SensorFound

LEMMA ExecuteMeasured ==
  ASSUME ChangeInv, MeasuredInv, NEW request, Execute(request)
  PROVE  MeasuredInv'
<1> DEFINE uri == request.uri
           index == SensorIndex(uri.instance)
           o == ObjectOf(objectList, uri.object)
           ofSensor == IpsoExecute(sensors[index], uri.resource, request.argument)
<1>1. UNCHANGED uses
  BY ExecuteFrame
<1>2. \/ UNCHANGED <<sensors, seen>>
      \/ \E e : /\ e = Executed(request) /\ object_execute(objectList, uri, NO_ERROR) = CHANGED
                /\ HasSensor(uri.object, uri.instance) /\ sensors' = e.sensors
                /\ seen' = IF uri.resource \in IpsoExecutable /\ e.code = NO_ERROR
                           THEN [seen EXCEPT ![uri.instance] = <<e.sensors[index].value>>] ELSE seen
  BY Zenon DEF Execute
<1>3. CASE UNCHANGED <<sensors, seen>>
  BY <1>1, <1>3, SameSensors
<1>4. ASSUME UsesSensors,
             NEW e, e = Executed(request), object_execute(objectList, uri, NO_ERROR) = CHANGED,
             HasSensor(uri.object, uri.instance), sensors' = e.sensors,
             seen' = IF uri.resource \in IpsoExecutable /\ e.code = NO_ERROR
                     THEN [seen EXCEPT ![uri.instance] = <<e.sensors[index].value>>] ELSE seen
      PROVE  MeasuredInv'
  <2>1. \/ uri.object = CustomId /\ e.sensors = sensors
        \/ uri.object = Device /\ e.sensors = sensors
        \/ /\ uri.object \notin {CustomId, Device}
           /\ e.code = ofSensor.code /\ e.sensors = With(sensors, index, ofSensor.sensor)
    BY <1>4, ExecutionIs DEF Device
  <2>2. uri.instance # ALL /\ uri.resource # ALL
    <3>1. Operation(request).name = "execute"
      BY Zenon DEF Execute
    <3> QED
      BY <3>1, ExecuteNamesOne
  <2>3. PICK p : p = o
    OBVIOUS
  <2>4. /\ ObjectIndex(objectList, uri.object) # 0 /\ object_getInstanceIndex(p, uri.instance) # 0
        /\ \E n \in DOMAIN p.resources : p.resources[n].id = uri.resource
    BY <1>4, <2>2, <2>3, ExecutedIsThere
  <2>5. OwnedInv /\ uses.kind = "sensors"
    BY <1>4 DEF ChangeInv, TypeInv, UsesSensors
  <2>6. uri.object # CustomId
    <3>1. p.objID = uri.object /\ Shaped(uses, p)
      BY <2>3, <2>4, NamedObjectIs
    <3> QED
      BY <2>5, <3>1, CustomHasNone
  <2>7. CASE uri.object = Device /\ e.sensors = sensors
    <3>1. p = ObjectOf(objectList, Device) /\ ObjectIndex(objectList, Device) # 0
      BY <2>3, <2>4, <2>7
    <3>2. p.resources = DeviceResources(uses.options)
      BY <3>1, DeviceObjectIs
    <3>3. uri.resource \notin IpsoExecutable
      BY <2>4, <3>2, DeviceResetsNone
    <3> QED
      BY <1>1, <1>4, <2>7, <3>3, SameSensors
  <2>8. CASE /\ uri.object \notin {CustomId, Device}
             /\ e.code = ofSensor.code /\ e.sensors = With(sensors, index, ofSensor.sensor)
    <3>1. /\ uri.object = uses.type /\ index \in 1..Len(sensors) /\ GoodSensor(sensors[index])
          /\ sensors[index] \in ToSet(sensors) /\ sensors[index].id = uri.instance
      BY <1>4, <2>3, <2>4, <2>8, SensorIsThere
    <3>2. GoodSensors(sensors) /\ DOMAIN seen = IdentifiersOf(sensors)
      BY SensorsAre DEF ChangeInv, TypeInv, HeldInv
    <3>3. uri.resource \in Family(uses.type)
      <4>1. p.resources = prv_getResourceDesc(uses.type)
        BY <2>3, <2>4, <2>8, <3>1, OtherObjectIs
      <4>2. \A n \in DOMAIN p.resources : p.resources[n].id \in Family(uses.type)
        BY <4>1, FamilyDescribed
      <4> QED
        BY <2>4, <4>2
    <3>4. PICK s, t : s = sensors[index] /\ t = ofSensor
      OBVIOUS
    <3>5. t = IpsoExecute(s, uri.resource, request.argument)
      BY <3>4
    <3>6. t.sensor.id = s.id
      BY <3>1, <3>4, <3>5, ExecuteSensor
    <3>7. Measured(ToSet(SensorHas), sensors, seen)
      BY <1>4 DEF MeasuredInv
    <3> HIDE DEF index, ofSensor, uri
    <3>8. Measures(ToSet(SensorHas), s, seen[s.id])
      BY <3>1, <3>4, <3>7 DEF Measured
    <3>9. PICK had : had = seen[s.id]
      OBVIOUS
    <3>10. /\ t.code = NO_ERROR => /\ request.uri.resource \in IpsoExecutable
                                   /\ Measures(ToSet(SensorHas), t.sensor, <<t.sensor.value>>)
           /\ t.code # NO_ERROR => t.sensor = s
      BY <3>1, <3>3, <3>4, <3>5, <3>8, SensorsHave, ResetMeasures DEF uri
    <3>11. sensors' = With(sensors, index, t.sensor)
      BY <1>4, <2>8, <3>4
    <3>12. e.sensors[index] = t.sensor
      <4>1. index \in DOMAIN sensors
        BY <3>1, <3>2, ListIs DEF GoodSensors
      <4> QED
        BY <2>8, <3>4, <4>1 DEF With
    <3>13. s.id \in DOMAIN seen
      BY <3>1, <3>2, <3>4 DEF IdentifiersOf
    <3>14. /\ Measures(ToSet(SensorHas), t.sensor, seen'[t.sensor.id])
           /\ \A k \in DOMAIN seen : k # t.sensor.id => seen'[k] = seen[k]
      <4>1. CASE t.code = NO_ERROR
        <5>1. seen' = [seen EXCEPT ![s.id] = <<t.sensor.value>>]
          BY <1>4, <2>8, <3>1, <3>4, <3>10, <3>12, <4>1 DEF uri
        <5>2. seen'[s.id] = <<t.sensor.value>> /\ \A k \in DOMAIN seen : k # s.id => seen'[k] = seen[k]
          BY <3>13, <5>1
        <5> QED
          BY <3>6, <3>10, <4>1, <5>2
      <4>2. CASE t.code # NO_ERROR
        <5>1. seen' = seen
          BY <1>4, <2>8, <3>4, <4>2
        <5> QED
          BY <3>6, <3>8, <3>10, <4>2, <5>1
      <4> QED
        BY <4>1, <4>2
    <3>15. \A r \in ToSet(sensors) : r.id # t.sensor.id => seen'[r.id] = seen[r.id]
      BY <3>2, <3>14 DEF IdentifiersOf
    <3>16. Measured(ToSet(SensorHas), With(sensors, index, t.sensor), seen')
      BY <3>1, <3>2, <3>4, <3>6, <3>7, <3>14, <3>15, OneIsMeasured
    <3> QED
      BY <1>1, <3>11, <3>16, StillMeasured
  <2> QED
    BY <2>1, <2>6, <2>7, <2>8
<1>5. ~UsesSensors => MeasuredInv'
  BY <1>1, StillMeasured
<1> QED
  BY <1>2, <1>3, <1>4, <1>5

\* A write only changes the application type.
LEMMA WriteMeasured ==
  ASSUME ChangeInv, MeasuredInv, NEW request \in uses.requests, Write(request)
  PROVE  MeasuredInv'
<1>1. UNCHANGED <<uses, seen>>
  BY WriteFrame
<1>2. \/ UNCHANGED sensors
      \/ \E isPartial, refuses : sensors' = Written(request, isPartial, refuses).sensors
  BY Zenon DEF Write
<1>3. CASE UNCHANGED sensors
  BY <1>1, <1>3, SameSensors
<1>4. ASSUME UsesSensors, NEW written, written = IpsoWrite(sensors, request.data).sensors, sensors' = written
      PROVE  MeasuredInv'
  <2>1. GoodSensors(sensors) /\ IsList(sensors)
    BY SensorsAre DEF ChangeInv, TypeInv, GoodSensors
  <2>2. DOMAIN written = 1..Len(sensors) /\ \A i \in 1..Len(sensors) : written[i].id = sensors[i].id
    BY <1>4, <2>1, WriteSensors
  <2>3. Measured(ToSet(SensorHas), sensors, seen)
    BY <1>4 DEF MeasuredInv
  <2>4. ASSUME NEW t \in ToSet(written) PROVE Measures(ToSet(SensorHas), t, seen[t.id])
    <3>1. PICK i \in 1..Len(sensors) : t = written[i]
      BY <2>2 DEF ToSet
    <3>2. PICK s : s = sensors[i]
      OBVIOUS
    <3>3. i \in DOMAIN sensors /\ s \in ToSet(sensors) /\ t.id = s.id /\ GoodSensor(s)
      BY <2>1, <2>2, <3>1, <3>2, ListIs DEF GoodSensors
    <3>4. Measures(ToSet(SensorHas), s, seen[s.id])
      BY <2>3, <3>3 DEF Measured
    <3>5. t = s \/ Retyped(s, t)
      BY <1>4, <3>1, <3>2, <3>3, WrittenSensor
    <3>6. t.value = s.value /\ t.min = s.min /\ t.max = s.max
      BY <3>3, <3>5 DEF Retyped, GoodSensor
    <3> QED
      BY <3>3, <3>4, <3>6, SameMeasures
  <2>5. Measured(ToSet(SensorHas), sensors', seen')
    BY <1>1, <1>4, <2>4 DEF Measured
  <2> QED
    BY <1>1, <2>5, StillMeasured
<1>5. ~UsesSensors => MeasuredInv'
  BY <1>1, StillMeasured
<1>6. ASSUME NEW isPartial, NEW refuses, sensors' = Written(request, isPartial, refuses).sensors
      PROVE  sensors' = sensors \/ sensors' = IpsoWrite(sensors, request.data).sensors
  BY <1>6, WriteIs
<1> QED
  BY <1>2, <1>3, <1>4, <1>5, <1>6

LEMMA InitMeasured == Init => MeasuredInv
BY EmptyList DEF Init, MeasuredInv, Measured

LEMMA NextMeasured ==
  ASSUME ChangeInv, MeasuredInv, [Next]_vars
  PROVE  MeasuredInv'
<1>1. ASSUME SensorAction PROVE MeasuredInv'
  BY <1>1, AddMeasured, RemoveMeasured, UpdateMeasured, Zenon DEF SensorAction
<1>2. ASSUME ServerAction PROVE MeasuredInv'
  <2>1. ASSUME NEW request, Refuse(request) \/ Create(request) \/ Delete(request) PROVE MeasuredInv'
    BY <2>1, RefuseFrame, CreateFrame, SameSensors
  <2> QED
    BY <1>2, <2>1, WriteMeasured, ExecuteMeasured, Zenon DEF ServerAction
<1>3. ASSUME CustomAction \/ RegistrationAction PROVE MeasuredInv'
  BY <1>3, CustomFrame, RegistrationFrame, SameSensors
<1>4. ASSUME DeviceAction PROVE MeasuredInv'
  <2>1. PICK update : DeviceUpdated(update)
    BY <1>4, DeviceTells DEF ChangeInv, TypeInv, HeldInv
  <2> QED
    BY <2>1, DeviceFrame, SameSensors
<1>5. ASSUME NEW enter \in BOOLEAN, iowa_client_notification_lock(enter) PROVE MeasuredInv'
  BY <1>5, LockFrame, SameSensors
<1>6. ASSUME UNCHANGED vars PROVE MeasuredInv'
  BY <1>6, SameSensors DEF vars
<1> QED
  BY <1>1, <1>2, <1>3, <1>4, <1>5, <1>6, Zenon DEF Next

\* The counter of a digital sensor is the number of times its value rose, and
\* the lowest and the highest measures of the others are those of the values they
\* had, since they were added or reset: whatever is added, updated, removed,
\* written or reset in between.
THEOREM MeasuresAreBounded == ASSUME Contract PROVE Spec => []MeasuredBounds
<1>1. Init => ChangeInv /\ MeasuredInv
  BY InitTyped, InitShaped, InitPowered, InitMeasured DEF ChangeInv
<1>2. ChangeInv /\ MeasuredInv /\ [Next]_vars => ChangeInv' /\ MeasuredInv'
  BY NextTyped, NextShaped, NextPowered, NextMeasured DEF ChangeInv, TypeInv
<1>3. MeasuredInv => MeasuredBounds
  <2>1. ASSUME NEW values, NEW H, NEW s, Measures(H, s, values)
        PROVE  LET rises == {i \in 2..Len(values) : values[i - 1] < values[i]} IN
               /\ RSC.DIGITAL_INPUT_COUNTER \in H => s.max = Cardinality(rises)
               /\ RSC.MIN_MEASURED_VALUE \in H => s.min \in Range(values) /\ \A v \in Range(values) : s.min <= v
               /\ RSC.MAX_MEASURED_VALUE \in H => s.max \in Range(values) /\ \A v \in Range(values) : v <= s.max
               /\ s.value = values[Len(values)]
    BY <2>1, Zenon DEF Measures, Rises, ToSet, Range
  <2>2. ToSet(sensors) = Range(sensors) /\ ToSet(SensorHas) = Range(SensorHas)
    BY DEF ToSet, Range
  <2>3. ASSUME MeasuredInv, UsesSensors, NEW s \in Range(sensors)
        PROVE  Measures(Range(SensorHas), s, seen[s.id])
    BY <2>2, <2>3, Zenon DEF MeasuredInv, Measured
  <2> QED
    BY <2>1, <2>3, Zenon DEF MeasuredBounds
<1> QED
  BY <1>1, <1>2, <1>3, PTL DEF Spec

-----------------------------------------------------------------------------
(* What a refused request changes                                          *)

\* A step that refuses a request leaves everything as it is, but for what is
\* said before it refuses.
Kept ==
  /\ UNCHANGED <<objectList, sensors, action, server>>
  /\ UNCHANGED app \/ Emptied \/ LeftOver
  /\ UNCHANGED device \/ TimeLeftOut

RefusalKeeps == out'.operation \in Requests /\ out'.code >= BAD_REQUEST => Kept

LEMMA WriteKeeps ==
  ASSUME ChangeInv, NEW request \in uses.requests, Write(request)
  PROVE  RefusalKeeps
<1> SUFFICES ASSUME out'.code >= BAD_REQUEST PROVE Kept
  BY DEF RefusalKeeps
<1> DEFINE data == request.data
           name == Operation(request).name
           o == ObjectOf(objectList, request.uri.object)
           checked == IF data # <<>> /\ ObjectIndex(objectList, request.uri.object) = 0 THEN NOT_FOUND
                      ELSE object_checkWritePayload(o, data)
<1>1. UNCHANGED <<uses, objectList, action, server>>
  BY WriteFrame
<1>2. \/ UNCHANGED <<app, device, sensors>>
      \/ \E refuses, w : /\ w = Written(request, name = "write", refuses) /\ checked = NO_ERROR
                         /\ app' = w.app /\ device' = w.device /\ sensors' = w.sensors
                         /\ \E told : Report(name, IF w.code = NO_ERROR THEN CHANGED ELSE w.code, told)
  BY Zenon DEF Write
<1>3. CASE UNCHANGED <<app, device, sensors>>
  BY <1>1, <1>3 DEF Kept
<1>4. ASSUME NEW refuses, NEW w, w = Written(request, name = "write", refuses), checked = NO_ERROR,
             app' = w.app, device' = w.device, sensors' = w.sensors,
             \E told : Report(name, IF w.code = NO_ERROR THEN CHANGED ELSE w.code, told)
      PROVE  Kept
  <2>1. out'.operation = name /\ out'.code = IF w.code = NO_ERROR THEN CHANGED ELSE w.code
    BY <1>4, ReportIs
  <2>2. w.code # NO_ERROR /\ out'.code = w.code
    BY <2>1 DEF CHANGED, BAD_REQUEST
  <2>3. name \in {"write", "replace"}
    BY Zenon DEF Write
  <2>4. PICK isPartial : isPartial = (name = "write")
    OBVIOUS
  <2>5. w = Written(request, isPartial, refuses)
    BY <1>4, <2>4
  <2> HIDE DEF name
  <2>6. \/ w.app = EmptiedBy(data, isPartial) /\ w.device = device /\ w.sensors = sensors
        \/ /\ request.uri.object = IOWA_LWM2M_DEVICE_OBJECT_ID
           /\ w.code = DeviceWrite(device, data).code /\ w.device = DeviceWrite(device, data).device
           /\ w.app = app /\ w.sensors = sensors
        \/ /\ request.uri.object \notin {CustomId, Device}
           /\ w.code = IpsoWrite(sensors, data).code /\ w.app = app /\ w.device = device
    BY <2>2, <2>5, WriteIs DEF Device
  <2>7. NOT_FOUND # NO_ERROR /\ BAD_REQUEST # NO_ERROR
    BY DEF NOT_FOUND, BAD_REQUEST, NO_ERROR
  <2>8. ObjectIndex(objectList, request.uri.object) # 0 /\ object_checkWritePayload(o, data) = NO_ERROR
    <3>1. data # <<>>
      BY <1>4, <2>7 DEF object_checkWritePayload
    <3> QED
      BY <1>4, <2>7, <3>1
  <2>9. Described(o.resources)
    BY <2>8, NamedObjectIs DEF Fit
  <2>10. IsSequence(o.resources) /\ IsSequence(data)
    <3>1. IsSequence(o.resources)
      BY <2>9 DEF Described
    <3>2. IsSequence(data)
      BY ManagementAssumption DEF ManagementAssumption, ChangeInv, TypeInv, OwnedInv, IsSequence
    <3> QED
      BY <3>1, <3>2
  <2>11. \A n \in DOMAIN data : \E index \in DOMAIN o.resources :
           o.resources[index].id = data[n].resource /\ IS_RSC_WRITABLE(o.resources[index])
    <3> HIDE DEF o, data
    <3> QED
      BY <2>8, <2>10, PayloadIs
  <2>12. CASE w.app = EmptiedBy(data, isPartial) /\ w.device = device /\ w.sensors = sensors
    <3>1. app' = app \/ (~isPartial /\ app' = AppEmptied(app, data[1]))
      BY <1>4, <2>12 DEF EmptiedBy, Empties
    <3>2. ~isPartial => out'.operation = "replace"
      BY <2>1, <2>3, <2>4
    <3>3. app' = app \/ Emptied
      BY <3>1, <3>2, EmptiedIs DEF Emptied, ChangeInv, TypeInv, HeldInv
    <3> QED
      BY <1>1, <1>4, <2>12, <3>3 DEF Kept
  <2>13. CASE /\ request.uri.object = IOWA_LWM2M_DEVICE_OBJECT_ID
             /\ w.code = DeviceWrite(device, data).code /\ w.device = DeviceWrite(device, data).device
             /\ w.app = app /\ w.sensors = sensors
    <3>1. o \in ToSet(objectList) /\ o.objID = IOWA_LWM2M_DEVICE_OBJECT_ID
      BY <2>13, <2>8, ObjectOfIs DEF ChangeInv, TypeInv, OwnedInv, OwnedBy
    <3>2. o.resources = DeviceResources(uses.options)
      BY <3>1 DEF ChangeInv, TypeInv, OwnedInv, OwnedBy, Belongs
    <3>3. ASSUME NEW n \in DOMAIN data PROVE data[n].resource \in DeviceWritable
      BY <2>11, <3>2, <3>3, DeviceWritableIs
    <3>4. TimeLeftOut
      <4> HIDE DEF data
      <4>1. /\ \A r \in DeviceSingle : device'.values[r] # device.values[r] => r \in DeviceWritable
            /\ device' = [device EXCEPT !.values = device'.values]
        BY <1>4, <2>13, <3>3, DeviceWriteIs DEF ChangeInv, TypeInv, HeldInv
      <4>2. out'.operation \in {"write", "replace"} /\ out'.code = BAD_REQUEST
        BY <2>1, <2>2, <2>3, <2>13, DeviceCode
      <4> QED
        BY <4>1, <4>2 DEF TimeLeftOut
    <3> QED
      BY <1>1, <1>4, <2>13, <3>4 DEF Kept
  <2>14. CASE /\ request.uri.object \notin {CustomId, Device}
             /\ w.code = IpsoWrite(sensors, data).code /\ w.app = app /\ w.device = device
    <3>1. UsesSensors /\ o.resources = prv_getResourceDesc(uses.type)
      BY <2>14, <2>8, OtherObjectIs
    <3>2. ASSUME NEW n \in DOMAIN data PROVE data[n].resource = RSC.APPLICATION_TYPE
      <4> HIDE DEF o, data
      <4>1. PICK index \in DOMAIN o.resources :
              o.resources[index].id = data[n].resource /\ IS_RSC_WRITABLE(o.resources[index])
        BY <2>11, <3>2
      <4>2. PICK known \in DOMAIN o.resources : o.resources[known] = IpsoDescriptor(o.resources[index].id)
        BY <3>1, <4>1, FamilyDescribed
      <4>3. o.resources[known] = o.resources[index]
        <5>1. Described(o.resources)
          BY <2>9
        <5> QED
          BY <4>1, <4>2, <5>1 DEF Described, IpsoDescriptor
      <4> QED
        BY <4>1, <4>2, <4>3 DEF IpsoDescriptor, IS_RSC_WRITABLE
    <3>3. w.code = NO_ERROR
      BY <2>14, <3>2 DEF IpsoWrite
    <3> QED
      BY <2>2, <3>3
  <2> QED
    BY <2>6, <2>12, <2>13, <2>14
<1> QED
  BY <1>2, <1>3, <1>4

LEMMA DeviceRefuses ==
  ASSUME NEW d, NEW resource, NEW argument, NEW e, e = DeviceExecute(d, resource, argument), e.code # NO_ERROR
  PROVE  e.device = d /\ e.action = {}
BY DEF DeviceExecute

LEMMA SensorRefuses ==
  ASSUME NEW s, NEW resource, NEW argument, NEW e, e = IpsoExecute(s, resource, argument), e.code # NO_ERROR
  PROVE  e.sensor = s
BY DEF IpsoExecute

LEMMA ExecuteKeeps ==
  ASSUME TypeInv, NEW request, Execute(request)
  PROVE  RefusalKeeps
<1> SUFFICES ASSUME out'.code >= BAD_REQUEST PROVE Kept
  BY DEF RefusalKeeps
<1> DEFINE id == request.uri.instance
           ofDevice == DeviceExecute(device, request.uri.resource, request.argument)
           ofSensor == IpsoExecute(sensors[SensorIndex(id)], request.uri.resource, request.argument)
<1>1. UNCHANGED <<objectList, app, server>>
  BY ExecuteFrame
<1>2. \/ UNCHANGED <<device, sensors, action>>
      \/ \E e : /\ e = Executed(request) /\ object_execute(objectList, request.uri, NO_ERROR) = CHANGED
                /\ device' = e.device /\ sensors' = e.sensors /\ action' = action \cup e.action
                /\ \E told : Report("execute", object_execute(objectList, request.uri, e.code), told)
  BY Zenon DEF Execute
<1>3. CASE UNCHANGED <<device, sensors, action>>
  BY <1>1, <1>3 DEF Kept
<1>4. ASSUME NEW e, e = Executed(request), object_execute(objectList, request.uri, NO_ERROR) = CHANGED,
             device' = e.device, sensors' = e.sensors, action' = action \cup e.action,
             \E told : Report("execute", object_execute(objectList, request.uri, e.code), told)
      PROVE  Kept
  <2>1. out'.code = object_execute(objectList, request.uri, e.code)
    BY <1>4, ReportIs
  <2>2. e.code # NO_ERROR
    <3>1. CHANGED < BAD_REQUEST
      BY DEF CHANGED, BAD_REQUEST
    <3>2. CHANGED \in Nat /\ BAD_REQUEST \in Nat
      BY DEF CHANGED, BAD_REQUEST
    <3> QED
      BY <1>4, <2>1, <3>1, <3>2
  <2>3. \/ e.code = NO_ERROR /\ e.device = device /\ e.sensors = sensors /\ e.action = {}
        \/ e.code = ofDevice.code /\ e.device = ofDevice.device /\ e.sensors = sensors /\ e.action = ofDevice.action
        \/ /\ e.code = ofSensor.code /\ e.device = device /\ e.sensors = With(sensors, SensorIndex(id), ofSensor.sensor)
           /\ e.action = {}
    BY <1>4, ExecutionIs
  <2>4. ofDevice.code # NO_ERROR => ofDevice.device = device /\ ofDevice.action = {}
    BY DeviceRefuses
  <2>5. ofSensor.code # NO_ERROR => ofSensor.sensor = sensors[SensorIndex(id)]
    BY SensorRefuses
  <2>6. With(sensors, SensorIndex(id), sensors[SensorIndex(id)]) = sensors
    BY SameSensor DEF TypeInv
  <2> HIDE DEF ofDevice, ofSensor, id
  <2>7. e.device = device /\ e.sensors = sensors /\ e.action = {}
    BY <2>2, <2>3, <2>4, <2>5, <2>6
  <2> QED
    BY <1>1, <1>4, <2>7 DEF Kept
<1> QED
  BY <1>2, <1>3, <1>4

\* What the application keeps of an Instance it has accepted and is told to undo.
LEMMA UndoneIs ==
  ASSUME NEW values, NEW id, NEW more, more = Holding(values, id, NewValues(CustomObject.resources))
  PROVE  AppToldOf(values, <<CreateCall(id), DeleteCall(id)>>) = Restrict(more, DOMAIN more \ {id})
<1>1. PICK first, then : first = CreateCall(id) /\ then = DeleteCall(id)
  OBVIOUS
<1>2. first.operation = "CREATE" /\ first.instance = id /\ then.operation = "DELETE" /\ then.instance = id
  BY <1>1 DEF CreateCall, DeleteCall
<1>3. AppCreated(values, first) = more
  BY <1>2 DEF AppCreated
<1>4. AppCreated(more, then) = Restrict(more, DOMAIN more \ {id})
  BY <1>2 DEF AppCreated
<1>5. AppToldOf(values, <<first, then>>) = Restrict(more, DOMAIN more \ {id})
  BY <1>3, <1>4 DEF AppToldOf
<1> QED
  BY <1>1, <1>5

LEMMA WrittenShaped ==
  ASSUME NEW values, NEW data, NEW others, others = AppWritten(values, data), NEW i \in DOMAIN values
  PROVE  /\ DOMAIN others[i] = DOMAIN values[i] /\ FunctionOf(others[i])
         /\ \A r \in DOMAIN values[i] : FunctionOf(others[i][r])
<1> DEFINE of(j, s) == {n \in DOMAIN data : data[n].instance = j /\ data[n].resource = s}
           named(j, s) == {data[n].resInstance : n \in of(j, s)}
           new(j, s) == [ri \in DOMAIN values[j][s] \cup named(j, s) |->
                           IF ri \in named(j, s) THEN data[Max({n \in of(j, s) : data[n].resInstance = ri})].value
                           ELSE values[j][s][ri]]
<1>1. others = [j \in DOMAIN values |-> [s \in DOMAIN values[j] |-> new(j, s)]]
  BY Zenon DEF AppWritten
<1>2. \A s : FunctionOf(new(i, s))
  BY DEF FunctionOf
<1> HIDE DEF new
<1>3. others[i] = [s \in DOMAIN values[i] |-> new(i, s)]
  BY <1>1
<1> QED
  BY <1>2, <1>3 DEF FunctionOf

\* The data of a new Instance change no other one.
LEMMA OthersStay ==
  ASSUME NEW values, GoodApp(values), NEW id, NEW new, NEW data, \A n \in DOMAIN data : data[n].instance = id,
         NEW others, others = AppWritten(Holding(values, id, new), data)
  PROVE  id \in DOMAIN others /\ Restrict(others, DOMAIN others \ {id}) = Restrict(values, DOMAIN values \ {id})
<1>1. PICK more : more = Holding(values, id, new)
  OBVIOUS
<1>2. DOMAIN more = DOMAIN values \cup {id} /\ \A i \in DOMAIN values \ {id} : more[i] = values[i]
  BY <1>1 DEF Holding
<1>3. DOMAIN others = DOMAIN more
  BY <1>1, WrittenDomain
<1>4. ASSUME NEW i \in DOMAIN values \ {id} PROVE others[i] = values[i]
  <2>1. i \in DOMAIN more /\ more[i] = values[i]
    BY <1>2
  <2>2. \A r : \A n \in DOMAIN data : ~(data[n].instance = i /\ data[n].resource = r)
    OBVIOUS
  <2>3. FunctionOf(values[i]) /\ \A r \in DOMAIN values[i] : FunctionOf(values[i][r])
    BY DEF GoodApp, GoodInstance
  <2>4. others = AppWritten(more, data)
    BY <1>1
  <2>5. DOMAIN others[i] = DOMAIN values[i] /\ FunctionOf(others[i])
        /\ \A r \in DOMAIN values[i] : FunctionOf(others[i][r])
    BY <2>1, <2>4, WrittenShaped
  <2>6. ASSUME NEW r \in DOMAIN values[i] PROVE others[i][r] = values[i][r]
    <3>1. /\ DOMAIN others[i][r] = DOMAIN values[i][r]
          /\ \A ri \in DOMAIN values[i][r] : others[i][r][ri] = values[i][r][ri]
      BY <2>1, <2>2, <2>4, NotWritten
    <3> QED
      BY <2>3, <2>5, <3>1 DEF FunctionOf
  <2> QED
    BY <2>3, <2>5, <2>6 DEF FunctionOf
<1> QED
  BY <1>2, <1>3, <1>4 DEF Restrict

LEMMA CreateKeeps ==
  ASSUME TypeInv, NEW request \in uses.requests, Create(request)
  PROVE  RefusalKeeps
<1> SUFFICES ASSUME out'.code >= BAD_REQUEST PROVE Kept
  BY DEF RefusalKeeps
<1>1. UNCHANGED <<device, sensors, action>>
  BY CreateFrame
<1>2. CASE UNCHANGED <<objectList, app, server>>
  BY <1>1, <1>2 DEF Kept
<1>3. ASSUME NEW o, NEW c, CreateOf(o, c, request) PROVE Kept
  <2>1. /\ o \in ToSet(objectList) /\ o = ObjectOf(objectList, request.uri.object) /\ o.objID = request.uri.object
        /\ ObjectIndex(objectList, request.uri.object) # 0
        /\ ObjectBecomes(o) = objectList /\ Outcome(o, c) /\ Made(o, c, request.data)
        /\ objectList' = ObjectBecomes(c.object)
        /\ app' = IF Len(c.calls) = 1 THEN AppWritten(AppToldOf(app, c.calls), c.data) ELSE AppToldOf(app, c.calls)
        /\ c.code # CREATED => server' = server
        /\ Report("create", c.code, {})
    BY <1>3, Zenon DEF CreateOf
  <2>2. out'.operation = "create" /\ out'.code = c.code
    BY <2>1, ReportIs
  <2>3. c.code # CREATED
    BY <2>2 DEF CREATED, BAD_REQUEST
  <2>4. c.object = o
    BY <2>1, <2>3 DEF Outcome, Creates, Undoes, LeavesOne
  <2>5. UNCHANGED <<objectList, server>>
    BY <2>1, <2>3, <2>4
  <2>6. CASE app' = app
    BY <1>1, <2>5, <2>6 DEF Kept
  <2>7. CASE app' # app
    <3>1. o.objID = CustomId
      BY <1>3, <2>7, CreateLeaves
    <3>2. HasCustom /\ o = CustomObject /\ InstancesOf(CustomObject) = IdentifiersOf(o.instances)
      BY <2>1, <3>1, InstancesAre DEF HasCustom, CustomObject
    <3>3. GoodApp(app)
      BY DEF TypeInv, HeldInv
    <3>4. c.calls # <<>>
      <4>1. SUFFICES ASSUME c.calls = <<>> PROVE FALSE
        OBVIOUS
      <4>2. app' = AppToldOf(app, <<>>)
        BY <2>1, <4>1
      <4> QED
        BY <2>7, <4>2, ToldDomain
    <3>5. ASSUME NEW id, Undoes(o, c, id) PROVE LeftOver
      <4>1. id \notin InstancesOf(CustomObject) /\ c.calls = <<CreateCall(id), DeleteCall(id)>>
        BY <3>2, <3>5 DEF Undoes
      <4>2. app' = AppToldOf(app, <<CreateCall(id), DeleteCall(id)>>)
        BY <2>1, <4>1
      <4>3. id \in DOMAIN app
        BY <2>7, <3>3, <4>2, AppToldIs
      <4>4. PICK more : more = Holding(app, id, NewValues(CustomObject.resources))
        OBVIOUS
      <4>5. app' = Restrict(more, DOMAIN more \ {id})
        BY <4>2, <4>4, UndoneIs
      <4>6. DOMAIN more = DOMAIN app \cup {id} /\ \A i \in DOMAIN app \ {id} : more[i] = app[i]
        BY <4>4 DEF Holding
      <4>7. DOMAIN app' = DOMAIN app \ {id} /\ \A i \in DOMAIN app \ {id} : app'[i] = app[i]
        BY <4>5, <4>6 DEF Restrict
      <4>8. Restrict(app', DOMAIN app' \ {id}) = Restrict(app, DOMAIN app \ {id})
        BY <4>7 DEF Restrict
      <4> QED
        BY <2>2, <3>2, <4>1, <4>3, <4>8 DEF LeftOver
    <3>6. ASSUME NEW id, LeavesOne(o, c, id) PROVE LeftOver
      <4>1. id \notin InstancesOf(CustomObject) /\ c.calls = <<CreateCall(id)>> /\ c.code = INTERNAL_ERROR
        BY <3>2, <3>6 DEF LeavesOne
      <4>2. \A n \in DOMAIN c.data : c.data[n].instance = id
        BY <2>1, <4>1, MadeIs
      <4>3. AppToldOf(app, c.calls) = Holding(app, id, NewValues(CustomObject.resources))
        BY <4>1 DEF AppToldOf, AppCreated, CreateCall
      <4>4. app' = AppWritten(Holding(app, id, NewValues(CustomObject.resources)), c.data)
        BY <2>1, <4>1, <4>3
      <4>5. id \in DOMAIN app' /\ Restrict(app', DOMAIN app' \ {id}) = Restrict(app, DOMAIN app \ {id})
        BY <3>3, <4>2, <4>4, OthersStay
      <4> QED
        BY <2>2, <3>2, <4>1, <4>5 DEF LeftOver
    <3>7. (\E id : Undoes(o, c, id)) \/ (\E id : LeavesOne(o, c, id))
      BY <2>1, <2>3, <3>4 DEF Outcome, Creates
    <3> QED
      BY <1>1, <2>5, <3>5, <3>6, <3>7 DEF Kept
  <2> QED
    BY <2>6, <2>7
<1> QED
  BY <1>2, <1>3, CreateDoes DEF TypeInv

LEMMA DeleteKeeps ==
  ASSUME TypeInv, NEW request, Delete(request)
  PROVE  RefusalKeeps
<1> SUFFICES ASSUME out'.code >= BAD_REQUEST PROVE Kept
  BY DEF RefusalKeeps
<1> DEFINE o == ObjectOf(objectList, request.uri.object)
           id == request.uri.instance
<1>1. UNCHANGED <<device, sensors, action>>
  BY CreateFrame
<1>2. \/ UNCHANGED <<objectList, app, server>>
      \/ \E accepts \in {NO_ERROR, NOT_ACCEPTABLE} : \E fails, d :
           /\ ObjectIndex(objectList, request.uri.object) # 0
           /\ d = object_delete(o, id, accepts, fails)
           /\ objectList' = ObjectBecomes(d.object)
           /\ d.code # DELETED => app' = app /\ server' = server
           /\ Report("delete", d.code, {})
  BY Zenon DEF Delete, ObjectOf
<1>3. CASE UNCHANGED <<objectList, app, server>>
  BY <1>1, <1>3 DEF Kept
<1>4. ASSUME NEW accepts, NEW fails, NEW d,
             ObjectIndex(objectList, request.uri.object) # 0,
             d = object_delete(o, id, accepts, fails),
             objectList' = ObjectBecomes(d.object),
             d.code # DELETED => app' = app /\ server' = server,
             Report("delete", d.code, {})
      PROVE  Kept
  <2>1. d.code # DELETED
    <3>1. out'.code = d.code
      BY <1>4, ReportIs
    <3>2. ~(DELETED >= BAD_REQUEST)
      BY DEF DELETED, BAD_REQUEST
    <3> QED
      BY <3>1, <3>2
  <2>2. o \in ToSet(objectList) /\ o.objID = request.uri.object /\ IsSequence(objectList)
    BY <1>4, ObjectOfIs DEF TypeInv, OwnedInv, OwnedBy, GoodList, IsList
  <2>3. ObjectBecomes(o) = objectList
    BY <1>4, <2>2, SameObject DEF ObjectBecomes
  <2>4. d = object_delete(o, id, accepts, fails)
    BY <1>4
  <2> HIDE DEF o, id
  <2>5. d.object = o
    BY <2>1, <2>4, RefusedDelete
  <2> QED
    BY <1>1, <1>4, <2>1, <2>3, <2>5 DEF Kept
<1> QED
  BY <1>2, <1>3, <1>4

\* What is no request is reported as none.
LEMMA NextKeeps ==
  ASSUME ChangeInv, Next
  PROVE  RefusalKeeps
<1>1. CASE CustomAction
  BY <1>1, CustomFrame DEF RefusalKeeps
<1>2. CASE DeviceAction
  <2>1. PICK update : DeviceUpdated(update)
    BY <1>2, DeviceStays DEF ChangeInv, TypeInv, HeldInv
  <2> QED
    BY <2>1, DeviceFrame DEF RefusalKeeps
<1>3. CASE SensorAction
  BY <1>3, SensorFrame DEF RefusalKeeps
<1>4. CASE ServerAction
  <2>1. ASSUME NEW request, Refuse(request) PROVE RefusalKeeps
    BY <2>1, RefuseFrame DEF RefusalKeeps, Kept
  <2> QED
    BY <1>4, <2>1, WriteKeeps, ExecuteKeeps, CreateKeeps, DeleteKeeps, Zenon DEF ServerAction, ChangeInv
<1>5. CASE RegistrationAction
  BY <1>5, RegistrationFrame DEF RefusalKeeps
<1>6. ASSUME NEW enter \in BOOLEAN, iowa_client_notification_lock(enter) PROVE RefusalKeeps
  BY <1>6, LockFrame DEF RefusalKeeps
<1> QED
  BY <1>1, <1>2, <1>3, <1>4, <1>5, <1>6, Zenon DEF Next

\* A request that is answered with an error has changed nothing: not the
\* Objects, nor the values their owners have, whatever fails, but in three cases.
\* A multiple Resource is emptied before it is written; the texts and the times
\* that come with a time that is refused are taken; and a Create that the
\* application has accepted and the Object has no memory for leaves it the
\* Instance (iowa_objects.c:1002), from where a later Create of it starts
\* (dm_handleRequest and the callbacks of the Objects).
THEOREM RefusalsChangeNothing == ASSUME Contract PROVE Spec => RefusedChangesNothing
<1>1. Init => ChangeInv
  BY InitTyped, InitShaped, InitPowered DEF ChangeInv
<1>2. ChangeInv /\ [Next]_vars => ChangeInv'
  BY NextTyped, NextShaped, NextPowered DEF ChangeInv, TypeInv
<1>3. ChangeInv /\ [Next]_vars =>
        [out'.operation \in {"refused", "write", "replace", "execute", "create", "delete"} /\ out'.code >= BAD_REQUEST =>
           /\ UNCHANGED <<objectList, sensors, action, server>>
           /\ UNCHANGED app \/ Emptied \/ LeftOver
           /\ UNCHANGED device \/ TimeLeftOut]_vars
  BY NextKeeps DEF RefusalKeeps, Kept, Requests
<1> QED
  BY <1>1, <1>2, <1>3, PTL DEF Spec, RefusedChangesNothing
=============================================================================
