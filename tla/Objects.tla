------------------------------- MODULE Objects -------------------------------
(***************************************************************************)
(* The Objects a Client holds (lwm2m/iowa_objects.c): what a request of a  *)
(* Server finds in one, what it is refused, and what becomes of the Object.*)
(*                                                                         *)
(* An Object is a record: type, "single", "multiple" or "advanced" (each   *)
(* Instance has Resources of its own); instanceCb, whether there is one;   *)
(* resources, a sequence of descriptors; instances, a sequence of          *)
(* [id, resources], the Resources NULL when they are those of the Object.  *)
(* The operators named ...Cb are the application's callbacks.              *)
(***************************************************************************)
EXTENDS Status, Naturals, Sequences, FiniteSets, SequencesExt

IOWA_LWM2M_ID_ALL == 65535
LWM2M_SINGLE_OBJECT_INSTANCE_ID == 0
ALL == IOWA_LWM2M_ID_ALL

IS_RSC_READABLE(r) == "READ" \in r.operations
IS_RSC_WRITABLE(r) == "WRITE" \in r.operations
IS_RSC_EXECUTABLE(r) == "EXECUTE" \in r.operations

-----------------------------------------------------------------------------
(* Finding (an index is 0 when there is none)                              *)

object_getInstanceIndex(object, id) ==
  CASE id = ALL -> 0
    [] id # ALL /\ object.type = "single" ->
         IF id = LWM2M_SINGLE_OBJECT_INSTANCE_ID /\ object.instances # <<>> THEN 1 ELSE 0
    [] OTHER -> SelectInSeq(object.instances, LAMBDA i : i.id = id)

\* The Instance has the Resource: all those of the Object, or its own.
Has(instance, id) == instance.resources = NULL \/ Contains(instance.resources, id)

\* instIndex 0 is no Instance in particular.
prv_getResourceIndex(object, instIndex, id) ==
  IF instIndex # 0 /\ ~Has(object.instances[instIndex], id) THEN 0
  ELSE SelectInSeq(object.resources, LAMBDA r : r.id = id)

ObjectIndex(objectList, id) == SelectInSeq(objectList, LAMBDA o : o.objID = id)

object_find(objectList, uri) ==
  LET index == ObjectIndex(objectList, uri.object)
      object == objectList[index] IN
  IF \/ index = 0
     \/ uri.instance # ALL /\ object_getInstanceIndex(object, uri.instance) = 0
     \/ uri.resource # ALL
        /\ prv_getResourceIndex(object, object_getInstanceIndex(object, uri.instance), uri.resource) = 0
  THEN NOT_FOUND ELSE NO_ERROR

ResourceOf(object, id) == object.resources[SelectInSeq(object.resources, LAMBDA r : r.id = id)]
ObjectOf(objectList, id) == objectList[ObjectIndex(objectList, id)]

object_checkReadable(objectList, uri) ==
  CASE object_find(objectList, uri) # NO_ERROR -> NOT_FOUND
    [] object_find(objectList, uri) = NO_ERROR /\ uri.resource # ALL
       /\ ~IS_RSC_READABLE(ResourceOf(ObjectOf(objectList, uri.object), uri.resource)) -> METHOD_NOT_ALLOWED
    [] OTHER -> CONTENT

-----------------------------------------------------------------------------
(* Reading                                                                 *)

Ids == 0..ALL
UriSet == [object : Ids, instance : Ids, resource : Ids, resInstance : Ids]
DatumRecord == [object : Ids, instance : Ids, resource : Ids, resInstance : Ids, type : STRING]

\* The array of data is [size, data, code]: its room, what is in it, and the
\* error that ended it.
Empty(size) == [size |-> size, data |-> <<>>, code |-> NO_ERROR]

\* The room of the array once the Resource Instances are in it.  One is enough
\* when one is asked for, though more is taken when it is not there.
Room(array, ids, resInstance) ==
  LET needed == IF resInstance # ALL THEN 1 ELSE Len(ids) IN
  IF ids # <<>> /\ Len(array.data) + needed > array.size THEN Len(array.data) + Len(ids) ELSE array.size

prv_addResourceToDataArray(object, instance, resource, resInstance, resInstanceCb, array) ==
  LET ids == IF resource.multiple THEN resInstanceCb[instance.id, resource.id] ELSE <<ALL>>
      asked == SelectSeq(ids, LAMBDA id : resInstance = ALL \/ id = resInstance)
      datum(id) == [object |-> object.objID, instance |-> instance.id, resource |-> resource.id,
                    resInstance |-> id, type |-> resource.type]
      data == array.data \o [i \in 1..Len(asked) |-> datum(asked[i])] IN
  IF ~Has(instance, resource.id) \/ (~resource.multiple /\ resInstance # ALL)
  THEN [array EXCEPT !.code = NOT_FOUND]
  ELSE [size |-> Room(array, ids, resInstance), data |-> data,
        code |-> IF resInstance # ALL /\ data = <<>> THEN NOT_FOUND ELSE NO_ERROR]

\* Several Resources: those that cannot be read are skipped, and those that are not there.
AddReadable(object, instances, resInstanceCb, array) ==
  LET add(a, target) ==
        IF ~IS_RSC_READABLE(target[2]) THEN a
        ELSE [prv_addResourceToDataArray(object, target[1], target[2], ALL, resInstanceCb, a) EXCEPT !.code = NO_ERROR]
      targets == FlattenSeq([i \in 1..Len(instances) |->
                   [r \in 1..Len(object.resources) |-> <<instances[i], object.resources[r]>>]])
  IN  FoldLeft(add, array, targets)

prv_getResourceReadableArray(object, uri, resInstanceCb) ==
  LET instIndex == object_getInstanceIndex(object, uri.instance)
      resIndex == prv_getResourceIndex(object, instIndex, uri.resource)
      refused(code) == [Empty(0) EXCEPT !.code = code]
      number == Len(object.resources) IN
  CASE uri.instance = ALL ->
         AddReadable(object, object.instances, resInstanceCb, Empty(Len(object.instances) * number))
    [] uri.instance # ALL /\ instIndex = 0 -> refused(NOT_FOUND)
    [] uri.instance # ALL /\ instIndex # 0 /\ uri.resource = ALL ->
         AddReadable(object, <<object.instances[instIndex]>>, resInstanceCb, Empty(number))
    [] uri.instance # ALL /\ instIndex # 0 /\ uri.resource # ALL ->
         IF resIndex = 0 THEN refused(NOT_FOUND)
         ELSE IF ~IS_RSC_READABLE(object.resources[resIndex]) THEN refused(METHOD_NOT_ALLOWED)
         ELSE prv_addResourceToDataArray(object, object.instances[instIndex], object.resources[resIndex],
                                         uri.resInstance, resInstanceCb, Empty(0))

\* What is read is a sequence of <<datum, value>>.  The callbacks are functions:
\* of an Instance and a Resource, of a datum.  The data callback gives NULL
\* for a datum it refuses.
object_read(objectList, uri, resInstanceCb, dataCb) ==
  LET found == object_find(objectList, uri)
      array == prv_getResourceReadableArray(ObjectOf(objectList, uri.object), uri, resInstanceCb)
      read == [i \in 1..Len(array.data) |-> <<array.data[i], dataCb[array.data[i]]>>] IN
  CASE found # NO_ERROR -> [code |-> found, data |-> <<>>]
    [] found = NO_ERROR /\ array.code # NO_ERROR -> [code |-> array.code, data |-> <<>>]
    [] found = NO_ERROR /\ array.code = NO_ERROR /\ (\E i \in DOMAIN read : read[i][2] = NULL) ->
         [code |-> NOT_FOUND, data |-> <<>>]
    [] OTHER -> [code |-> CONTENT, data |-> read]

-----------------------------------------------------------------------------
(* Writing                                                                 *)

\* A written datum is [object, instance, resource, resInstance, type, value].
prv_checkDataConsistency(datum, resource) ==
  IF \/ datum.type # resource.type
     \/ datum.type = "UNSIGNED_INTEGER" /\ datum.value < 0
     \/ datum.resInstance # ALL /\ ~resource.multiple
  THEN NOT_ACCEPTABLE ELSE NO_ERROR

FirstError(codes) ==
  LET i == SelectInSeq(codes, LAMBDA c : c # NO_ERROR) IN IF i = 0 THEN NO_ERROR ELSE codes[i]

\* The data of a request are all of the Object of its URI.
object_checkWritePayload(object, data) ==
  LET check(datum) ==
        LET instIndex == object_getInstanceIndex(object, datum.instance)
            resIndex == prv_getResourceIndex(object, instIndex, datum.resource) IN
        IF instIndex = 0 \/ resIndex = 0 THEN NOT_FOUND
        ELSE IF ~IS_RSC_WRITABLE(object.resources[resIndex]) THEN METHOD_NOT_ALLOWED
        ELSE prv_checkDataConsistency(datum, object.resources[resIndex])
  IN  IF data = <<>> THEN BAD_REQUEST ELSE FirstError([i \in DOMAIN data |-> check(data[i])])

\* A write that is not partial empties the multiple Resource of its first datum
\* before it writes: the data callback is called twice.
Empties(data, isPartial) == data[1].resInstance # ALL /\ ~isPartial

\* customObjectResourceChanged, the Resource of each datum.
ResourceChanged(objectList, uris) ==
  {uri \in uris : object_checkReadable(objectList, uri) = CONTENT}

Uri(object, instance, resource) ==
  [object |-> object, instance |-> instance, resource |-> resource, resInstance |-> ALL]
UrisOf(data) == {Uri(data[i].object, data[i].instance, data[i].resource) : i \in DOMAIN data}

object_execute(objectList, uri, result) ==
  CASE object_find(objectList, uri) # NO_ERROR -> NOT_FOUND
    [] object_find(objectList, uri) = NO_ERROR
       /\ ~IS_RSC_EXECUTABLE(ResourceOf(ObjectOf(objectList, uri.object), uri.resource)) -> METHOD_NOT_ALLOWED
    [] OTHER -> IF result = NO_ERROR THEN CHANGED ELSE result

-----------------------------------------------------------------------------
(* Instances                                                               *)

prv_addInstance(object, id, resources, fails) ==
  IF object_getInstanceIndex(object, id) # 0 THEN [code |-> NOT_ACCEPTABLE, object |-> object]
  ELSE IF fails THEN [code |-> INTERNAL_ERROR, object |-> object]
  ELSE [code |-> NO_ERROR,
        object |-> [object EXCEPT !.instances = Append(@, [id |-> id, resources |-> resources])]]

prv_getNewInstanceId(object) ==
  CHOOSE id \in 0..Len(object.instances) :
    /\ \A i \in DOMAIN object.instances : object.instances[i].id # id
    /\ \A lower \in 0..(id - 1) : \E i \in DOMAIN object.instances : object.instances[i].id = lower

\* Without an identifier every Instance goes.
prv_removeInstance(object, id, fails) ==
  LET index == object_getInstanceIndex(object, id) IN
  CASE id = ALL -> [code |-> NO_ERROR, object |-> [object EXCEPT !.instances = <<>>]]
    [] id # ALL /\ index = 0 -> [code |-> NOT_FOUND, object |-> object]
    [] id # ALL /\ index # 0 /\ fails /\ Len(object.instances) > 1 -> [code |-> INTERNAL_ERROR, object |-> object]
    [] OTHER -> [code |-> NO_ERROR, object |-> [object EXCEPT !.instances = RemoveAt(@, index)]]

\* What a Create keeps of its data: the Resources the Object has.  One Instance
\* is created, with every mandatory Resource that is not executable.
prv_adaptCreatePayload(object, data) ==
  LET known == SelectSeq(data, LAMBDA d : prv_getResourceIndex(object, 0, d.resource) # 0)
      check(d) == prv_checkDataConsistency(d, ResourceOf(object, d.resource))
      error == FirstError([i \in DOMAIN known |-> check(known[i])])
      missing == \E r \in Range(object.resources) :
                   r.mandatory /\ ~IS_RSC_EXECUTABLE(r) /\ \A i \in DOMAIN known : known[i].resource # r.id IN
  CASE \E i \in DOMAIN data : data[i].instance # data[1].instance -> [code |-> BAD_REQUEST, data |-> <<>>]
    [] (\A i \in DOMAIN data : data[i].instance = data[1].instance) /\ error # NO_ERROR -> [code |-> error, data |-> <<>>]
    [] (\A i \in DOMAIN data : data[i].instance = data[1].instance) /\ error = NO_ERROR /\ missing ->
         [code |-> BAD_REQUEST, data |-> <<>>]
    [] OTHER -> [code |-> NO_ERROR, data |-> known]

\* The identifier of the Instance of a Create: it is written in the data kept,
\* so the Object gets the request's own when none is.
NewId(object, data) == IF data[1].instance # ALL THEN data[1].instance ELSE prv_getNewInstanceId(object)
\* Mutant: the Object gets the identifier of the request.
AddedId_Requested(object, data, known) == data[1].instance
AddedId(object, data, known) == IF known = <<>> THEN data[1].instance ELSE NewId(object, data)

\* Mutant: the application is not told to undo the Instance.
CreateUndone_Kept(id, added) == <<[operation |-> "CREATE", instance |-> id]>>

\* What the application is told when the data of its new Instance are refused.
CreateUndone(id, added) ==
  <<[operation |-> "CREATE", instance |-> id], [operation |-> "DELETE", instance |-> added]>>

\* A datum of another Instance.
Moved(datum, id) ==
  [object |-> datum.object, instance |-> id, resource |-> datum.resource, resInstance |-> datum.resInstance,
   type |-> datum.type, value |-> datum.value]

\* accepts and written are what the instance callback and the data callback
\* answer, fails that there is no memory for the Instance.  calls is what the
\* application is told.
prv_create(object, data, known, accepts, written, fails) ==
  LET id == NewId(object, data)
      named == [i \in DOMAIN known |-> Moved(known[i], id)]
      create == [operation |-> "CREATE", instance |-> id]
      added == prv_addInstance(object, AddedId(object, data, known), NULL, fails)
      refused(code) == [code |-> code, object |-> object, calls |-> <<>>, data |-> named] IN
  CASE ~object.instanceCb -> refused(METHOD_NOT_ALLOWED)
    [] object.instanceCb /\ object_getInstanceIndex(object, data[1].instance) # 0 -> refused(BAD_REQUEST)
    [] object.instanceCb /\ object_getInstanceIndex(object, data[1].instance) = 0 /\ accepts # NO_ERROR -> refused(accepts)
    [] object.instanceCb /\ object_getInstanceIndex(object, data[1].instance) = 0 /\ accepts = NO_ERROR ->
         IF written # NO_ERROR
         THEN [code |-> written, object |-> object, calls |-> CreateUndone(id, AddedId(object, data, known)), data |-> named]
         ELSE [code |-> IF added.code = NO_ERROR THEN CREATED ELSE added.code,
               object |-> added.object, calls |-> <<create>>, data |-> named]

object_create(object, data, accepts, written, fails) ==
  LET adapted == prv_adaptCreatePayload(object, data) IN
  IF adapted.code # NO_ERROR
  THEN [code |-> adapted.code, object |-> object, calls |-> <<>>, data |-> <<>>]
  ELSE prv_create(object, data, adapted.data, accepts, written, fails)

\* The removal from the Object may fail: its result is not looked at.
object_delete(object, id, accepts, fails) ==
  CASE ~object.instanceCb -> [code |-> METHOD_NOT_ALLOWED, object |-> object]
    [] object.instanceCb /\ object_getInstanceIndex(object, id) = 0 -> [code |-> NOT_FOUND, object |-> object]
    [] object.instanceCb /\ object_getInstanceIndex(object, id) # 0 /\ accepts # NO_ERROR ->
         [code |-> accepts, object |-> object]
    [] OTHER -> [code |-> DELETED, object |-> prv_removeInstance(object, id, fails).object]

\* The application says that an Instance is there.
objectAddInstance(object, id, resources, fails) ==
  CASE object.type = "single" -> [code |-> METHOD_NOT_ALLOWED, object |-> object]
    [] object.type = "multiple" -> prv_addInstance(object, id, NULL, fails)
    [] object.type = "advanced" -> IF resources = <<>> THEN [code |-> NOT_ACCEPTABLE, object |-> object]
                                   ELSE prv_addInstance(object, id, resources, fails)

-----------------------------------------------------------------------------
(* Links: [uri, attributes], attributes a sequence of <<key, value>>       *)

Link(object, instance, resource) == [uri |-> Uri(object, instance, resource), attributes |-> <<>>]

\* Of a registration: an Object without Instance has a link of its own.  The
\* first one is the path of the Objects.
ListCount(objectList) ==
  1 + FoldLeft(LAMBDA n, o : n + (IF o.instances # <<>> THEN Len(o.instances) ELSE 1), 0, objectList)

object_getList(objectList) ==
  LET links(o) == IF o.instances = <<>> THEN <<Link(o.objID, ALL, ALL)>>
                  ELSE [i \in DOMAIN o.instances |-> Link(o.objID, o.instances[i].id, ALL)]
  IN  <<Link(ALL, ALL, ALL)>> \o FlattenSeq([i \in DOMAIN objectList |-> links(objectList[i])])

\* The attributes in the order the list has them: the last one added is its head.
prv_convertAttributes(attributes) ==
  LET keys == SelectSeq(<<"st", "lt", "gt", "pmax", "pmin">>, LAMBDA k : k \in DOMAIN attributes)
  IN  [i \in DOMAIN keys |-> <<keys[i], attributes[keys[i]]>>]

\* attributesCb[uri, useInheritance] is attributesGet of the Server.
prv_getResourceAttributes(link, resource, useInheritance, resInstanceCb, attributesCb) ==
  LET dim == IF resource.multiple
             THEN <<<<"dim", Len(resInstanceCb[link.uri.instance, resource.id])>>>> ELSE <<>>
  IN  [link EXCEPT !.attributes = prv_convertAttributes(attributesCb[link.uri, useInheritance]) \o dim]

\* The Resources of an Instance in a Discover: its own when each has its own.
ResourcesOf(object, instance) ==
  IF object.type = "advanced" THEN instance.resources ELSE [r \in DOMAIN object.resources |-> object.resources[r].id]

TreeCount(object, uri) ==
  LET ofInstance(i) == IF object.type = "advanced" THEN Len(i.resources) ELSE Len(object.resources) IN
  CASE uri.instance = ALL ->
         1 + Len(object.instances)
           + (IF object.type = "advanced" THEN FoldLeft(LAMBDA n, i : n + Len(i.resources), 0, object.instances)
              ELSE Len(object.instances) * Len(object.resources))
    [] uri.instance # ALL /\ uri.resource = ALL ->
         1 + ofInstance(IF object.type = "advanced"
                        THEN object.instances[object_getInstanceIndex(object, uri.instance)] ELSE NULL)
    [] OTHER -> 1

InstanceLinks(object, instance) ==
  LET resources == ResourcesOf(object, instance)
  IN  [r \in DOMAIN resources |-> Link(object.objID, instance.id, resources[r])]

\* The attributes of the Resources are left out of the Discover of an Object.
Tree(object, uri, resInstanceCb, attributesCb) ==
  LET instance == object.instances[object_getInstanceIndex(object, uri.instance)]
      own(link, inherits) == [link EXCEPT !.attributes = prv_convertAttributes(attributesCb[link.uri, inherits])]
      top == Link(uri.object, uri.instance, uri.resource)
      resource(link, inherits) ==
        prv_getResourceAttributes(link, ResourceOf(object, link.uri.resource), inherits, resInstanceCb, attributesCb)
      under(i) == <<Link(object.objID, object.instances[i].id, ALL)>> \o InstanceLinks(object, object.instances[i]) IN
  CASE uri.instance = ALL -> <<own(top, FALSE)>> \o FlattenSeq([i \in DOMAIN object.instances |-> under(i)])
    [] uri.instance # ALL /\ uri.resource = ALL ->
         LET links == InstanceLinks(object, instance)
         IN  <<own(top, TRUE)>> \o [i \in DOMAIN links |-> resource(links[i], FALSE)]
    [] OTHER -> <<resource(top, TRUE)>>

object_getTree(objectList, uri, resInstanceCb, attributesCb) ==
  LET object == ObjectOf(objectList, uri.object)
      refused(code) == [code |-> code, size |-> 0, links |-> <<>>] IN
  CASE uri.object = ALL \/ uri.resInstance # ALL -> refused(BAD_OPTION)
    [] uri.object # ALL /\ uri.resInstance = ALL /\ object_find(objectList, uri) # NO_ERROR -> refused(NOT_FOUND)
    [] OTHER -> [code |-> CONTENT, size |-> TreeCount(object, uri),
                 links |-> Tree(object, uri, resInstanceCb, attributesCb)]

-----------------------------------------------------------------------------
(* The list of Objects                                                     *)

\* Mutant: the Object may be there already.
customObjectAdd_Again(objectList, object, fails) ==
  IF fails THEN [code |-> INTERNAL_ERROR, list |-> objectList]
  ELSE [code |-> NO_ERROR, list |-> <<object>> \o objectList]

\* A new Object is the head of the list.  An Object that may have one Instance has it.
customObjectAdd(objectList, object, fails) ==
  LET added == IF object.type = "single"
               THEN [object EXCEPT !.instances = <<[id |-> LWM2M_SINGLE_OBJECT_INSTANCE_ID, resources |-> NULL]>>]
               ELSE object IN
  IF ObjectIndex(objectList, object.objID) # 0 THEN [code |-> CONFLICT, list |-> objectList]
  ELSE IF fails THEN [code |-> INTERNAL_ERROR, list |-> objectList]
  ELSE [code |-> NO_ERROR, list |-> <<added>> \o objectList]

customObjectRemove(objectList, id) ==
  IF ObjectIndex(objectList, id) = 0 THEN [code |-> NOT_FOUND, list |-> objectList]
  ELSE [code |-> NO_ERROR, list |-> RemoveAt(objectList, ObjectIndex(objectList, id))]
=============================================================================
