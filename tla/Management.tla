----------------------------- MODULE Management -----------------------------
(***************************************************************************)
(* What a Server does with the Objects of a Client (lwm2m/                 *)
(* iowa_management.c), what the application does with them                 *)
(* (core/iowa_client.c, objects/), and how the Server learns which there   *)
(* are (lwm2m/iowa_registration.c).                                        *)
(*                                                                         *)
(* A read or a Discover changes nothing: no action, but a property of      *)
(* every state, about every URI.  An observation is in Observe, a          *)
(* Write-Attributes too.  The connection under the registration is in      *)
(* Registration: here it does not break.                                   *)
(***************************************************************************)
EXTENDS DeviceObject, IpsoObject

CONSTANTS
  CustomId,       \* the Object of the application's own
  AddRequests,    \* [objectID, instanceIDs, resources, instanceCb]: how the application may add it
  InstanceIds,    \* the Instances the application or a Server may name
  Values,         \* of the Resources of that Object
  Cases,          \* [kind, calls, requests, ...]: what the application makes use of, the
                  \* calls it makes and what the Server sends; of the sensors number
                  \* and updates are bounds
  BatteryUpdates, \* <<level, status>>
  ErrorCodes,     \* the codes that are set and cleared
  SourceUpdates,  \* <<voltage, current>>
  Attributes,     \* the attributes a Server may have set
  MaxInstances, MaxSources,   \* bounds
  Faults          \* "memory": there may be none to add an Object or an Instance, or for
                  \* the smaller array of an Object that loses one

IOWA_LWM2M_SECURITY_OBJECT_ID == 0
IOWA_LWM2M_SERVER_OBJECT_ID == 1

VARIABLES
  uses,        \* the case, one of Cases: a bound
  objectList,  \* lwm2mContextP->objectList
  app,         \* the application's values: Instance -> Resource -> Resource Instance -> value
  device,      \* the userData of the Device Object
  sensors,     \* the userData of the IPSO Object, head first
  seen,        \* not in the code: the values of each sensor since it was added or reset
  action,      \* contextP->action
  state,       \* lwm2mContextP->state: INITIAL or DEVICE_MANAGEMENT
  server,      \* runtime of the server: status, update (its flag), objects (the
               \* flag of the Objects to update), sends and sent (whether the
               \* message that waits for its reply has the links, and these);
               \* known is not in the code: the links the Server has
  locked,      \* CONTEXT_FLAG_INSIDE_CALLBACK
  held,        \* not in the code: the application has called the lock
  out          \* not in the code: the last operation, its code, the Resources it told

vars == <<uses, objectList, app, device, sensors, seen, action, state, server, locked, held, out>>

-----------------------------------------------------------------------------
(* The application's own Object, as the samples have it                    *)

CustomObject == ObjectOf(objectList, CustomId)
HasCustom == ObjectIndex(objectList, CustomId) # 0

\* What an Instance has before anything is written.
NewValues(resources) ==
  [id \in {r.id : r \in {r \in Range(resources) : ~IS_RSC_EXECUTABLE(r)}} |->
     IF ResourceOf([resources |-> resources], id).multiple THEN <<>>
     ELSE [all \in {ALL} |-> CHOOSE v \in Values : TRUE]]

\* An Instance more, or other values of one that is there.
Holding(values, instance, new) == [i \in DOMAIN values \cup {instance} |-> IF i = instance THEN new ELSE values[i]]

\* The data callback, DELETE: of the Instances of the Resource of a datum.
AppEmptied(values, datum) == [values EXCEPT ![datum.instance][datum.resource] = <<>>]

\* and WRITE: of the data of a Resource Instance the last one stays.
AppWritten(values, data) ==
  [i \in DOMAIN values |-> [r \in DOMAIN values[i] |->
     LET of == {n \in DOMAIN data : data[n].instance = i /\ data[n].resource = r}
         named == {data[n].resInstance : n \in of} IN
     [ri \in DOMAIN values[i][r] \cup named |->
        IF ri \in named THEN data[Max({n \in of : data[n].resInstance = ri})].value ELSE values[i][r][ri]]]]

-----------------------------------------------------------------------------
(* The callbacks of every Object                                           *)

SensorIndex(instance) == SelectInSeq(sensors, LAMBDA s : s.id = instance)
Sensor(instance) == sensors[SensorIndex(instance)]

resInstanceCb(object, instance, resource) ==
  IF object = CustomId THEN SetToSortSeq(DOMAIN app[instance][resource], LAMBDA a, b : a < b)
  ELSE prv_deviceResInstanceCallback(device, resource)

dataCb(datum) ==
  CASE datum.object = CustomId -> app[datum.instance][datum.resource][datum.resInstance]
    [] datum.object = IOWA_LWM2M_DEVICE_OBJECT_ID -> DeviceRead(device, datum.resource, datum.resInstance)
    [] OTHER -> IpsoRead(Sensor(datum.instance), datum.resource)

ResInstances(object) == [i \in Ids, r \in Ids |-> resInstanceCb(object, i, r)]

Read(uri) == object_read(objectList, uri, ResInstances(uri.object), [d \in DatumRecord |-> dataCb(d)])

Discover(uri, attributesCb) == object_getTree(objectList, uri, ResInstances(uri.object), attributesCb)

-----------------------------------------------------------------------------
(* The registration                                                        *)

\* Mutant: a server that waits for a reply is left out.
lwm2mUpdateRegistration_Registered(s, flag) ==
  IF s.status = "REGISTERED" THEN [s EXCEPT !.update = TRUE, !.objects = @ \/ flag = "OBJECTS"] ELSE s

\* lwm2mUpdateRegistration on all the servers
lwm2mUpdateRegistration(s, flag) ==
  IF s.status \in {"REGISTERING", "REGISTERED", "UPDATE_PENDING"}
  THEN [s EXCEPT !.update = TRUE, !.objects = @ \/ flag = "OBJECTS"]
  ELSE s

\* What the list of Objects becomes, and the update of the registration.
ListBecomes(list) ==
  /\ objectList' = list
  /\ server' = IF state = "DEVICE_MANAGEMENT" THEN lwm2mUpdateRegistration(server, "OBJECTS") ELSE server

ObjectBecomes(object) == [objectList EXCEPT ![ObjectIndex(objectList, object.objID)] = object]

\* prv_getRegistrationPayload: without the path of the Objects.
RegistrationPayload == {l.uri : l \in {l \in Range(object_getList(objectList)) : l.uri.object # ALL}}

Reported(operation, code, told) == [operation |-> operation, code |-> code, told |-> ResourceChanged(objectList', told)]
Report(operation, code, told) == out' = Reported(operation, code, told)

\* A call the application makes that tells of changes holds the notifications
\* for its own time: it ends by letting them go.
OwnLock(tells) == locked' = (locked /\ ~tells)

lwm2m_step ==
  /\ state = "INITIAL"
  /\ state' = "DEVICE_MANAGEMENT"
  /\ Report("step", NO_ERROR, {})
  /\ UNCHANGED <<uses, objectList, app, device, sensors, seen, action, server, locked, held>>

\* prv_register, the peer being connected
Register ==
  /\ state = "DEVICE_MANAGEMENT" /\ server.status = "DISCONNECTED"
  /\ server' = [server EXCEPT !.status = "REGISTERING", !.sends = TRUE, !.sent = RegistrationPayload]
  /\ Report("step", NO_ERROR, {})
  /\ UNCHANGED <<uses, objectList, app, device, sensors, seen, action, state, locked, held>>

prv_handleRegistrationReply ==
  /\ server.status = "REGISTERING"
  /\ server' = [server EXCEPT !.status = "REGISTERED", !.known = server.sent, !.sends = FALSE, !.sent = {}]
  /\ Report("step", NO_ERROR, {})
  /\ UNCHANGED <<uses, objectList, app, device, sensors, seen, action, state, locked, held>>

\* prv_updateRegistration: the list of Objects is in it if it is flagged.
Updating(s) ==
  [s EXCEPT !.status = "UPDATE_PENDING", !.objects = FALSE,
            !.sends = s.objects, !.sent = IF s.objects THEN RegistrationPayload ELSE {}]

\* registration_step
StepUpdates ==
  /\ state = "DEVICE_MANAGEMENT" /\ server.status = "REGISTERED" /\ server.update /\ ~locked
  /\ server' = [Updating(server) EXCEPT !.update = FALSE]
  /\ Report("update", NO_ERROR, {})
  /\ UNCHANGED <<uses, objectList, app, device, sensors, seen, action, state, locked, held>>

\* The lock is not looked at.
prv_handleClientUpdateTimer ==
  /\ server.status = "REGISTERED"
  /\ server' = Updating(server)
  /\ Report("update", NO_ERROR, {})
  /\ UNCHANGED <<uses, objectList, app, device, sensors, seen, action, state, locked, held>>

\* The Server has it, and its reply comes or not; or it never had it.  Without
\* a reply the flags are set back.
prv_handleRegistrationUpdateReply ==
  /\ server.status = "UPDATE_PENDING"
  /\ \E received, answered \in BOOLEAN :
       /\ answered => received
       /\ server' = [server EXCEPT !.status = "REGISTERED", !.sends = FALSE, !.sent = {},
                                   !.known = IF received /\ server.sends THEN server.sent ELSE @,
                                   !.objects = @ \/ (~answered /\ server.sends)]
  /\ Report("step", NO_ERROR, {})
  /\ UNCHANGED <<uses, objectList, app, device, sensors, seen, action, state, locked, held>>

NoServer ==
  [status |-> "DISCONNECTED", update |-> FALSE, objects |-> FALSE, sends |-> FALSE, sent |-> {}, known |-> {}]

\* The registration fails, and with it registration_step: no server is left.
registration_resetServersStatus ==
  /\ server.status # "DISCONNECTED"
  /\ state' = "INITIAL"
  /\ server' = NoServer
  /\ Report("step", NO_ERROR, {})
  /\ UNCHANGED <<uses, objectList, app, device, sensors, seen, action, locked, held>>

\* iowa_client_send_heartbeat
prv_sendHearbeat ==
  /\ server' = lwm2mUpdateRegistration(server, "NONE")
  /\ Report("heartbeat", NO_ERROR, {})
  /\ UNCHANGED <<uses, objectList, app, device, sensors, seen, action, state, locked, held>>

iowa_client_notification_lock(enter) ==
  /\ locked' = enter /\ held' = enter
  /\ Report("lock", NO_ERROR, {})
  /\ UNCHANGED <<uses, objectList, app, device, sensors, seen, action, state, server>>

\* The flags a Server has set by executing a Resource of the device.
iowa_step_action ==
  /\ action # {}
  /\ action' = {}
  /\ Report("step", NO_ERROR, {})
  /\ UNCHANGED <<uses, objectList, app, device, sensors, seen, state, server, locked, held>>

-----------------------------------------------------------------------------
(* The application and its own Object                                      *)

Reserved == {IOWA_LWM2M_SECURITY_OBJECT_ID, IOWA_LWM2M_SERVER_OBJECT_ID, IOWA_LWM2M_DEVICE_OBJECT_ID}

\* The identifiers have 16 bits, the application adds one Object of its own or
\* is refused, its sensors are not of that one nor of those of the stack and
\* measure numbers, the information of its device is its texts and its memory
\* (iowa_device_info_t), and the data of a request are of the Object of its URI
\* (tlvDeserialize, textDeserialize).
ASSUME ManagementAssumption ==
  /\ CustomId \notin Reserved \cup {ALL}
  /\ InstanceIds \subseteq Ids /\ MaxInstances \in Ids
  /\ ErrorCodes \subseteq Nat /\ MaxSources \in Nat
  /\ \A request \in AddRequests :
       /\ request.objectID \in {CustomId, ALL} \cup Reserved
       /\ request.instanceIDs \in Seq(Ids) /\ request.instanceCb \in BOOLEAN
       /\ request.resources \in Seq(ToSet(request.resources))
  /\ \A c \in Cases :
       /\ c.kind = "sensors" =>
            c.type \notin Reserved \cup {CustomId} /\ c.number \in Ids /\ c.values \subseteq Int
       /\ c.kind = "device" => \A info \in c.infos : DOMAIN info.values \subseteq DeviceText \cup DeviceMemory
       /\ \A request \in c.requests :
            /\ request.data \in Seq(ToSet(request.data))
            /\ \A datum \in ToSet(request.data) : datum.object = request.uri.object /\ datum.instance \in Ids

\* What a Create must name at least.
Needs(resources) == \E r \in Range(resources) : r.mandatory /\ ~IS_RSC_EXECUTABLE(r)

\* What an application has to keep to, nothing in the code looking at it: it
\* names its Instances, each once, and the Servers may create some only of an
\* Object that has a Resource they must name.
Contract ==
  /\ ALL \notin InstanceIds
  /\ \A request \in AddRequests :
       /\ IsInjective(request.instanceIDs)
       /\ request.instanceCb => Needs(request.resources)

CheckObjectId(id) ==
  IF id \in Reserved THEN FORBIDDEN ELSE IF id = ALL THEN NOT_ACCEPTABLE ELSE NO_ERROR

\* The Instances may be the same: it is not looked at.
AddCheck(request) ==
  LET ids == [i \in DOMAIN request.resources |-> request.resources[i].id]
      illFormed(r) == r.id = ALL \/ r.operations = {} \/ (r.type = "UNDEFINED" /\ r.operations # {"EXECUTE"}) IN
  CASE CheckObjectId(request.objectID) # NO_ERROR -> CheckObjectId(request.objectID)
    [] CheckObjectId(request.objectID) = NO_ERROR
       /\ (\/ ids = <<>> \/ Contains(request.instanceIDs, ALL)
           \/ (\E r \in Range(request.resources) : illFormed(r)) \/ ~IsInjective(ids)) -> NOT_ACCEPTABLE
    [] OTHER -> NO_ERROR

NewObject(request) ==
  [objID |-> request.objectID, resources |-> request.resources, instanceCb |-> request.instanceCb,
   type |-> IF request.instanceIDs = <<>> /\ ~request.instanceCb THEN "single" ELSE "multiple",
   instances |-> [i \in DOMAIN request.instanceIDs |-> [id |-> request.instanceIDs[i], resources |-> NULL]]]

Fails == {FALSE} \cup IF "memory" \in Faults THEN {TRUE} ELSE {}

iowa_client_add_custom_object(request) ==
  /\ uses.kind = "custom"
  /\ \E fails \in Fails :
       LET added == customObjectAdd(objectList, NewObject(request), fails)
           code == IF AddCheck(request) # NO_ERROR THEN AddCheck(request) ELSE added.code
           ids == {ObjectOf(added.list, CustomId).instances[i].id : i \in DOMAIN ObjectOf(added.list, CustomId).instances} IN
       IF code # NO_ERROR THEN UNCHANGED <<objectList, server, app>> /\ Report("add", code, {})
       ELSE /\ ListBecomes(added.list)
            /\ app' = [id \in ids |-> NewValues(request.resources)]
            /\ Report("add", NO_ERROR, {})
  /\ UNCHANGED <<uses, device, sensors, seen, action, state, locked, held>>

iowa_client_remove_custom_object(id) ==
  /\ uses.kind = "custom"
  /\ LET code == IF CheckObjectId(id) # NO_ERROR THEN CheckObjectId(id) ELSE customObjectRemove(objectList, id).code IN
     IF code # NO_ERROR THEN UNCHANGED <<objectList, server, app>> /\ Report("remove", code, {})
     ELSE ListBecomes(customObjectRemove(objectList, id).list) /\ app' = <<>> /\ Report("remove", NO_ERROR, {})
  /\ UNCHANGED <<uses, device, sensors, seen, action, state, locked, held>>

\* iowa_client_object_instance_changed with IOWA_DM_CREATE
InstanceCreated(id) ==
  /\ uses.kind = "custom" /\ HasCustom
  /\ \E fails \in Fails :
       LET added == objectAddInstance(CustomObject, id, <<>>, fails) IN
       IF added.code # NO_ERROR THEN UNCHANGED <<objectList, server, app>> /\ Report("instance", added.code, {})
       ELSE /\ ListBecomes(ObjectBecomes(added.object))
            /\ app' = Holding(app, id, NewValues(CustomObject.resources))
            /\ Report("instance", NO_ERROR, {})
  /\ UNCHANGED <<uses, device, sensors, seen, action, state, locked, held>>

\* and with IOWA_DM_DELETE: on an error the application keeps its Instance.
InstanceDeleted(id) ==
  /\ uses.kind = "custom" /\ HasCustom
  /\ \E fails \in Fails :
       LET removed == prv_removeInstance(CustomObject, id, fails) IN
       IF removed.code # NO_ERROR THEN UNCHANGED <<objectList, server, app>> /\ Report("instance", removed.code, {})
       ELSE /\ ListBecomes(ObjectBecomes(removed.object))
            /\ app' = Restrict(app, DOMAIN app \ {id})
            /\ Report("instance", NO_ERROR, {})
  /\ UNCHANGED <<uses, device, sensors, seen, action, state, locked, held>>

\* The application changes a value, then calls iowa_client_object_resource_changed.
ValueChanged(id, resource, resInstance, value) ==
  /\ uses.kind = "custom" /\ HasCustom /\ id \in DOMAIN app
  /\ resource \in DOMAIN app[id] /\ resInstance \in DOMAIN app[id][resource]
  /\ app[id][resource][resInstance] # value
  /\ app' = [app EXCEPT ![id][resource][resInstance] = value]
  /\ UNCHANGED <<uses, objectList, device, sensors, seen, action, state, server, locked, held>>
  /\ Report("changed", NO_ERROR, {Uri(CustomId, id, resource)})

-----------------------------------------------------------------------------
(* The application and the device                                          *)

\* update is what an operation of the device gives.
DeviceUpdated(update) ==
  /\ device' = update.device
  /\ OwnLock(update.code = NO_ERROR)
  /\ UNCHANGED <<uses, objectList, app, sensors, seen, action, state, server, held>>
  /\ Report("device", update.code,
            {Uri(IOWA_LWM2M_DEVICE_OBJECT_ID, LWM2M_SINGLE_OBJECT_INSTANCE_ID, id) : id \in update.told})

UpdatesDevice == uses.kind = "device"

iowa_client_device_update_battery ==
  UpdatesDevice /\ \E b \in BatteryUpdates : DeviceUpdated(update_battery(device, b[1], b[2]))

iowa_client_set_device_error_code ==
  UpdatesDevice /\ \E code \in ErrorCodes : DeviceUpdated(set_error_code(device, code))

iowa_client_clear_device_error_code ==
  UpdatesDevice /\ \E code \in ErrorCodes : DeviceUpdated(clear_error_code(device, code))

iowa_client_add_device_power_source ==
  /\ UpdatesDevice /\ Len(device.sources) < MaxSources
  /\ \E s \in SourceUpdates, fails \in Fails : DeviceUpdated(add_power_source(device, "DC", s[1], s[2], fails))

iowa_client_remove_device_power_source ==
  UpdatesDevice /\ \E id \in 0..(MaxSources - 1) : DeviceUpdated(remove_power_source(device, id))

iowa_client_update_device_power_source ==
  UpdatesDevice /\ \E id \in 0..(MaxSources - 1), s \in SourceUpdates :
    DeviceUpdated(update_power_source(device, id, s[1], s[2]))

iowa_client_update_device_information ==
  UpdatesDevice /\ \E info \in uses.infos : DeviceUpdated(update_device_information(device, info))

iowa_client_update_device_time_information ==
  UpdatesDevice /\ \E info \in uses.times : DeviceUpdated(update_device_time_information(device, info))

-----------------------------------------------------------------------------
(* The application and its sensors                                         *)

UsesSensors == uses.kind = "sensors"
Updates == FoldLeft(LAMBDA n, id : n + Len(seen[id]), 0, SetToSeq(DOMAIN seen))

\* The Object comes with its first sensor.  When the sensor cannot be added it stays.
SensorAdded(value, objectFails, instanceFails) ==
  LET checked == prv_checkResourceValue(uses.type, value)
      present == ObjectIndex(objectList, uses.type) # 0
      created == customObjectAdd(objectList, NewIpsoObject(uses.type), objectFails)
      list == IF present THEN objectList ELSE created.list
      resources == prv_getResourceList(uses.type, uses.range, uses.unit # NULL, uses.appType # NULL)
      added == objectAddInstance(ObjectOf(list, uses.type), NewSensorId(sensors), resources, instanceFails) IN
  IF checked # NO_ERROR THEN [code |-> checked, list |-> objectList]
  ELSE IF ~present /\ created.code # NO_ERROR THEN created
  ELSE [code |-> added.code, list |-> [list EXCEPT ![ObjectIndex(list, uses.type)] = added.object]]

iowa_client_IPSO_add_sensor(value) ==
  /\ UsesSensors /\ Len(sensors) < uses.number /\ Updates < uses.updates
  /\ \E objectFails, instanceFails \in Fails :
       LET added == SensorAdded(value, objectFails, instanceFails)
           id == NewSensorId(sensors) IN
       /\ IF added.list = objectList THEN UNCHANGED <<objectList, server>> ELSE ListBecomes(added.list)
       /\ IF added.code # NO_ERROR THEN UNCHANGED <<sensors, seen>>
          ELSE /\ sensors' = <<NewSensor(id, value, uses.unit, uses.appType, uses.range)>> \o sensors
               /\ seen' = Holding(seen, id, IF uses.type \in Digital \cup {IPSO.PRESENCE} THEN <<0, value>> ELSE <<value>>)
       /\ Report("sensor", added.code, {})
  /\ UNCHANGED <<uses, app, device, action, state, locked, held>>

\* The Object goes with its last sensor.  The sensor goes first: it is gone too
\* when its Instance cannot be removed.
iowa_client_IPSO_remove_sensor(id) ==
  /\ UsesSensors
  /\ LET index == SensorIndex(id)
         object == ObjectOf(objectList, uses.type) IN
     IF ObjectIndex(objectList, uses.type) = 0 \/ index = 0
     THEN UNCHANGED <<objectList, server, sensors, seen>> /\ Report("sensor", NOT_FOUND, {})
     ELSE /\ sensors' = RemoveAt(sensors, index)
          /\ seen' = Restrict(seen, DOMAIN seen \ {id})
          /\ IF Len(sensors) > 1
             THEN \E fails \in Fails :
                    LET removed == prv_removeInstance(object, id, fails) IN
                    /\ IF removed.code = NO_ERROR THEN ListBecomes(ObjectBecomes(removed.object))
                       ELSE UNCHANGED <<objectList, server>>
                    /\ Report("sensor", removed.code, {})
             ELSE ListBecomes(customObjectRemove(objectList, uses.type).list) /\ Report("sensor", NO_ERROR, {})
  /\ UNCHANGED <<uses, app, device, action, state, locked, held>>

iowa_client_IPSO_update_value(id, value) ==
  /\ UsesSensors /\ Updates < uses.updates
  /\ UNCHANGED <<uses, objectList, app, device, action, state, server, held>>
  /\ LET index == SensorIndex(id)
         object == ObjectOf(objectList, uses.type)
         resources == object.instances[object_getInstanceIndex(object, id)].resources
         update == prv_updateResourceValues(sensors[index], resources, value) IN
     IF prv_checkResourceValue(uses.type, value) # NO_ERROR \/ index = 0
     THEN /\ UNCHANGED <<sensors, seen, locked>>
          /\ Report("sensor", IF prv_checkResourceValue(uses.type, value) # NO_ERROR THEN NOT_ACCEPTABLE ELSE NOT_FOUND, {})
     ELSE /\ sensors' = [sensors EXCEPT ![index] = update.sensor]
          /\ seen' = IF value = sensors[index].value THEN seen ELSE [seen EXCEPT ![id] = Append(@, value)]
          /\ OwnLock(TRUE)
          /\ Report("sensor", NO_ERROR, {Uri(uses.type, id, r) : r \in update.told})

-----------------------------------------------------------------------------
(* The Server: a request is [code, uri, format, data, argument, observe,   *)
(* query, accept]: format, whether its data have one; argument, whether    *)
(* there is a payload without; observe, the value of the option or NULL.   *)

\* object_checkResourceFlag for IOWA_RESOURCE_FLAG_MULTIPLE
IsMultiple(uri) ==
  /\ object_find(objectList, uri) = NO_ERROR /\ uri.resource # ALL
  /\ ResourceOf(ObjectOf(objectList, uri.object), uri.resource).multiple

\* dm_handleRequest: the operation of a request, or the code it is refused with.
Operation(request) ==
  LET refused(code) == [name |-> "refused", code |-> code]
      operation(name) == [name |-> name, code |-> NO_ERROR]
      ofInstance == request.uri.instance # ALL
      ofResource == request.uri.resource # ALL
      observes == request.observe # NULL
      ofCode ==
        CASE request.code = "GET" ->
               IF request.data # <<>> \/ (request.accept = "link" /\ observes) THEN refused(BAD_REQUEST)
               ELSE operation(IF request.accept = "link" THEN "discover" ELSE "read")
          [] request.code = "POST" ->
               IF observes \/ (~ofInstance /\ request.data = <<>>) THEN refused(BAD_REQUEST)
               ELSE operation(IF ~ofInstance THEN "create"
                              ELSE IF ~ofResource \/ IsMultiple(request.uri) THEN "write" ELSE "execute")
          [] request.code = "PUT" ->
               IF observes \/ (IF request.query THEN request.data # <<>> ELSE ~ofInstance) THEN refused(BAD_REQUEST)
               ELSE operation(IF request.query THEN "attributes" ELSE "replace")
          [] request.code = "DELETE" ->
               IF observes \/ request.data # <<>> \/ ~ofInstance \/ ofResource THEN refused(BAD_REQUEST)
               ELSE operation("delete")
          [] request.code \in {"FETCH", "IPATCH"} -> refused(NOT_IMPLEMENTED)
          [] OTHER -> refused(BAD_REQUEST) IN
  IF request.uri.object = IOWA_LWM2M_SECURITY_OBJECT_ID THEN refused(UNAUTHORIZED)
  ELSE IF server.status \notin {"REGISTERED", "UPDATE_PENDING"} THEN operation("ignored")
  ELSE IF request.observe \notin {NULL, 0, 1} THEN refused(BAD_REQUEST)
  ELSE IF ~request.format /\ request.argument /\ (request.code # "POST" \/ ~ofResource)
       THEN refused(UNSUPPORTED_CONTENT_FORMAT)
  ELSE ofCode

Refuse(request) ==
  /\ Operation(request).name = "refused"
  /\ Report("refused", Operation(request).code, {})
  /\ UNCHANGED <<uses, objectList, app, device, sensors, seen, action, state, server, locked, held>>

\* What a write does to the Object it is about, the application's callback
\* refusing or not the data of its own.
Written(request, isPartial, refuses) ==
  LET data == request.data
      written == IpsoWrite(sensors, data)
      emptied == IF Empties(data, isPartial) /\ data[1].instance \in DOMAIN app THEN AppEmptied(app, data[1]) ELSE app
      same == [code |-> NO_ERROR, app |-> app, device |-> device, sensors |-> sensors] IN
  CASE request.uri.object = CustomId ->
         [same EXCEPT !.code = IF refuses THEN BAD_REQUEST ELSE NO_ERROR,
                      !.app = IF refuses THEN emptied ELSE AppWritten(emptied, data)]
    [] request.uri.object = IOWA_LWM2M_DEVICE_OBJECT_ID ->
         [same EXCEPT !.code = DeviceWrite(device, data).code, !.device = DeviceWrite(device, data).device]
    [] OTHER -> [same EXCEPT !.code = written.code, !.sensors = written.sensors]

\* A sensor is looked for and used without a check that it was found: on an
\* Instance that was left without one the program stops.
HasSensor(object, instance) == UsesSensors /\ object = uses.type => SensorIndex(instance) # 0

\* The application may refuse what it has, and refuses what it has not.
Refuses(request) ==
  IF request.uri.object = CustomId /\ \E datum \in ToSet(request.data) : datum.instance \notin DOMAIN app
  THEN {TRUE} ELSE BOOLEAN

\* object_write, once object_checkWritePayload has let the data through
Write(request) ==
  /\ Operation(request).name \in {"write", "replace"}
  /\ LET name == Operation(request).name
         checked == IF request.data # <<>> /\ ObjectIndex(objectList, request.uri.object) = 0 THEN NOT_FOUND
                    ELSE object_checkWritePayload(ObjectOf(objectList, request.uri.object), request.data) IN
     IF checked # NO_ERROR
     THEN UNCHANGED <<objectList, app, device, sensors, locked>> /\ Report(name, checked, {})
     ELSE \E refuses \in Refuses(request) :
            LET written == Written(request, name = "write", refuses)
                done == written.code = NO_ERROR IN
            /\ \A datum \in ToSet(request.data) : HasSensor(request.uri.object, datum.instance)
            /\ app' = written.app /\ device' = written.device /\ sensors' = written.sensors
            /\ OwnLock(done)
            /\ UNCHANGED objectList
            /\ Report(name, IF done THEN CHANGED ELSE written.code, IF done THEN UrisOf(request.data) ELSE {})
  /\ UNCHANGED <<uses, seen, action, state, server, held>>

\* The callback of the Object the request executes a Resource of; the
\* application's own does nothing.
Executed(request) ==
  LET uri == request.uri
      index == SensorIndex(uri.instance)
      same == [code |-> NO_ERROR, device |-> device, sensors |-> sensors, told |-> {}, action |-> {}]
      ofDevice == DeviceExecute(device, uri.resource, request.argument)
      ofSensor == IpsoExecute(sensors[index], uri.resource, request.argument) IN
  CASE uri.object = CustomId -> same
    [] uri.object = IOWA_LWM2M_DEVICE_OBJECT_ID ->
         [same EXCEPT !.code = ofDevice.code, !.device = ofDevice.device, !.told = ofDevice.told, !.action = ofDevice.action]
    [] OTHER -> [same EXCEPT !.code = ofSensor.code, !.told = ofSensor.told,
                             !.sensors = [sensors EXCEPT ![index] = ofSensor.sensor]]

Execute(request) ==
  /\ Operation(request).name = "execute"
  /\ LET uri == request.uri
         code == object_execute(objectList, uri, NO_ERROR)
         executed == Executed(request)
         reset == uri.resource \in IpsoExecutable
         index == SensorIndex(uri.instance) IN
     /\ UNCHANGED objectList
     /\ IF code # CHANGED
        THEN UNCHANGED <<device, sensors, seen, action>> /\ Report("execute", code, {})
        ELSE /\ HasSensor(uri.object, uri.instance)
             /\ device' = executed.device /\ sensors' = executed.sensors
             /\ action' = action \cup executed.action
             /\ seen' = IF reset /\ executed.code = NO_ERROR THEN [seen EXCEPT ![uri.instance] = <<executed.sensors[index].value>>] ELSE seen
             /\ Report("execute", object_execute(objectList, uri, executed.code),
                       {Uri(uri.object, uri.instance, r) : r \in executed.told})
  /\ UNCHANGED <<uses, app, state, server, locked, held>>

\* The application answers a CREATE, then the data of the new Instance.
AppCreated(values, call) ==
  IF call.operation = "CREATE" THEN Holding(values, call.instance, NewValues(CustomObject.resources))
  ELSE Restrict(values, DOMAIN values \ {call.instance})

\* No call, one, or two when the Instance is undone.
AppToldOf(values, calls) ==
  CASE Len(calls) = 0 -> values
    [] Len(calls) = 1 -> AppCreated(values, calls[1])
    [] Len(calls) = 2 -> AppCreated(AppCreated(values, calls[1]), calls[2])

\* What a Create gives.  When the Object has no memory for the Instance the
\* application has accepted, it is not told: it keeps it, with its data.
Created(result) ==
  LET called == AppToldOf(app, result.calls)
      done == result.code = CREATED IN
  /\ objectList' = ObjectBecomes(result.object)
  /\ app' = IF Len(result.calls) = 1 THEN AppWritten(called, result.data) ELSE called
  /\ server' = IF done THEN lwm2mUpdateRegistration(server, "OBJECTS") ELSE server
  /\ Report("create", result.code, {})

Create(request) ==
  /\ Operation(request).name = "create"
  /\ LET index == ObjectIndex(objectList, request.uri.object)
         object == objectList[index] IN
     IF index = 0 THEN UNCHANGED <<objectList, app, server>> /\ Report("create", NOT_FOUND, {})
     ELSE /\ Len(object.instances) < MaxInstances
          /\ \E accepts \in {NO_ERROR, NOT_ACCEPTABLE}, written \in {NO_ERROR, BAD_REQUEST}, fails \in Fails :
               Created(object_create(object, request.data, accepts, written, fails))
  /\ UNCHANGED <<uses, device, sensors, seen, action, state, locked, held>>

Delete(request) ==
  /\ Operation(request).name = "delete"
  /\ LET index == ObjectIndex(objectList, request.uri.object)
         id == request.uri.instance IN
     IF index = 0 THEN UNCHANGED <<objectList, app, server>> /\ Report("delete", NOT_FOUND, {})
     ELSE \E accepts \in {NO_ERROR, NOT_ACCEPTABLE}, fails \in Fails :
            LET deleted == object_delete(objectList[index], id, accepts, fails) IN
            /\ objectList' = ObjectBecomes(deleted.object)
            /\ app' = IF deleted.code = DELETED THEN Restrict(app, DOMAIN app \ {id}) ELSE app
            /\ server' = IF deleted.code = DELETED THEN lwm2mUpdateRegistration(server, "OBJECTS") ELSE server
            /\ Report("delete", deleted.code, {})
  /\ UNCHANGED <<uses, device, sensors, seen, action, state, locked, held>>

-----------------------------------------------------------------------------
\* iowa_client_configure: the device is there.
Init ==
  /\ uses \in Cases
  /\ objectList = customObjectAdd(<<>>, NewDeviceObject(uses.options), FALSE).list
  /\ device = NewDevice(uses.options, [id \in DeviceSingle |-> 0])
  /\ app = <<>> /\ sensors = <<>> /\ seen = <<>> /\ action = {}
  /\ state = "INITIAL"
  /\ server = NoServer
  /\ locked = FALSE /\ held = FALSE
  /\ out = [operation |-> "init", code |-> NO_ERROR, told |-> {}]

CustomAction ==
  \/ \E request \in AddRequests : iowa_client_add_custom_object(request)
  \/ "objects" \in uses.calls /\ \E id \in {CustomId} \cup Reserved \cup {ALL} : iowa_client_remove_custom_object(id)
  \/ "objects" \in uses.calls /\ \E id \in InstanceIds : InstanceCreated(id) \/ InstanceDeleted(id)
  \/ "values" \in uses.calls /\ \E id \in DOMAIN app, value \in Values : \E resource \in DOMAIN app[id] :
       \E resInstance \in DOMAIN app[id][resource] : ValueChanged(id, resource, resInstance, value)

DeviceAction ==
  \/ iowa_client_device_update_battery
  \/ iowa_client_set_device_error_code
  \/ iowa_client_clear_device_error_code
  \/ iowa_client_add_device_power_source
  \/ iowa_client_remove_device_power_source
  \/ iowa_client_update_device_power_source
  \/ iowa_client_update_device_information
  \/ iowa_client_update_device_time_information

SensorAction ==
  \/ UsesSensors /\ \E value \in uses.values : iowa_client_IPSO_add_sensor(value)
  \/ UsesSensors /\ \E id \in 0..(uses.number - 1) :
       \/ iowa_client_IPSO_remove_sensor(id)
       \/ \E value \in uses.values : iowa_client_IPSO_update_value(id, value)

ServerAction ==
  \E request \in uses.requests :
    \/ Refuse(request) \/ Write(request) \/ Execute(request) \/ Create(request) \/ Delete(request)

RegistrationAction ==
  \/ lwm2m_step \/ iowa_step_action
  \/ Register \/ prv_handleRegistrationReply
  \/ StepUpdates \/ prv_handleRegistrationUpdateReply
  \/ "network" \in uses.calls /\ (prv_handleClientUpdateTimer \/ registration_resetServersStatus \/ prv_sendHearbeat)

Next ==
  \/ CustomAction \/ DeviceAction \/ SensorAction
  \/ ServerAction
  \/ RegistrationAction
  \/ "lock" \in uses.calls /\ \E enter \in BOOLEAN : iowa_client_notification_lock(enter)

Spec == Init /\ [][Next]_vars

-----------------------------------------------------------------------------
(* Properties                                                              *)

InstancesOf(object) == {object.instances[i].id : i \in DOMAIN object.instances}

\* The state has its type: the enumerations of lwm2m/iowa_prv_lwm2m.h and the
\* identifiers, which the Objects of the list have each their own.
TypeOK ==
  /\ IsInjective([i \in DOMAIN objectList |-> objectList[i].objID])
  /\ \A o \in Range(objectList) :
       /\ o.type \in {"single", "multiple", "advanced"}
       /\ InstancesOf(o) \subseteq 0..(ALL - 1)
       /\ IsInjective([i \in DOMAIN o.resources |-> o.resources[i].id])
  /\ device.errors \subseteq 1..32 /\ Len(device.sources) <= MaxSources
  /\ DOMAIN seen = {sensors[i].id : i \in DOMAIN sensors}
  /\ action \subseteq {"REBOOT", "FACTORY_RESET"}
  /\ state \in {"INITIAL", "DEVICE_MANAGEMENT"}
  /\ server.status \in {"DISCONNECTED", "REGISTERING", "REGISTERED", "UPDATE_PENDING"}
  /\ server.update \in BOOLEAN /\ server.objects \in BOOLEAN
  /\ locked \in BOOLEAN /\ held \in BOOLEAN

\* No Instance has the identifier that stands for all of them, whoever names it,
\* or if nobody does and prv_create finds one.
InstancesAreNamed == \A o \in Range(objectList) : ALL \notin InstancesOf(o)

\* None is twice in the Object.
InstancesAreOnce == \A o \in Range(objectList) : Cardinality(InstancesOf(o)) = Len(o.instances)

\* The Object of the application's own or of its sensors, the Instances it has
\* and those the application has, and where the two differ.
OwnedObject == IF UsesSensors THEN uses.type ELSE CustomId
Held ==
  IF ObjectIndex(objectList, OwnedObject) = 0 THEN {} ELSE InstancesOf(ObjectOf(objectList, OwnedObject))
Owned == IF UsesSensors THEN {sensors[i].id : i \in DOMAIN sensors} ELSE DOMAIN app
Torn == (Held \ Owned) \cup (Owned \ Held)

\* The calls that leave one Instance to the application alone, or to the Object
\* alone, for lack of memory: a Create the application had accepted and is not
\* told to undo (iowa_objects.c:1002), a Delete whose removal is not looked at
\* (:1088), a sensor freed before its Instance is removed (iowa_object_ipso.c).
Tears ==
  /\ UNCHANGED objectList
  /\ \E id \in Torn' : Torn' = Torn \cup {id}
  /\ \/ out'.code = INTERNAL_ERROR /\ out'.operation \in {"create", "sensor"}
     \/ out'.code = DELETED /\ out'.operation = "delete" /\ Cardinality(Held) > 1

\* The Instances of an Object are those its owner has, through what the
\* application and the Servers create and delete and the sensors that come and
\* go: there are none at first, and the two only come to differ by the three
\* calls above, by one Instance each.  None is the identifier that stands for no
\* Instance, and none is twice in the Object (prv_create, prv_removeInstance,
\* add_sensor).
InstancesAgree ==
  [][/\ InstancesAreNamed' /\ InstancesAreOnce'
     /\ Torn' \subseteq Torn \/ Tears]_vars

\* A Server that is registered has the list of Objects, or a message that has
\* it is on its way, or the flag to send it again is set: whatever adds or
\* removes an Object or an Instance, whoever asks for it and whenever, and
\* whatever becomes of the message (lwm2mUpdateRegistration and its callers).
ServersAreToldOfObjects ==
  server.status # "DISCONNECTED" /\ ~server.objects =>
    RegistrationPayload = IF server.sends THEN server.sent ELSE server.known

\* Every value that can be read, as a pair of its URI and the value, from what
\* the application, the device and the sensors have.  What the application keeps
\* of an Instance the Object has not (Tears) cannot be read.
AppValues ==
  LET readable == {r.id : r \in {r \in Range(CustomObject.resources) : IS_RSC_READABLE(r)}}
      of(i, r) == {<<[Uri(CustomId, i, r) EXCEPT !.resInstance = ri], app[i][r][ri]>> : ri \in DOMAIN app[i][r]}
  IN  UNION {UNION {of(i, r) : r \in DOMAIN app[i] \cap readable} : i \in DOMAIN app \cap InstancesOf(CustomObject)}

DeviceUri(id, resInstance) == [Uri(IOWA_LWM2M_DEVICE_OBJECT_ID, 0, id) EXCEPT !.resInstance = resInstance]

DeviceValues ==
  LET has == Range(DeviceIds(device.options))
      codes == InOrder(device.errors) IN
  {<<DeviceUri(id, ALL), device.values[id]>> : id \in has \cap DeviceSingle}
    \cup (IF device.errors = {} THEN {<<DeviceUri(ID.ERROR_CODE, 0), 0>>}
          ELSE {<<DeviceUri(ID.ERROR_CODE, n - 1), codes[n]>> : n \in 1..Cardinality(device.errors)})
    \cup UNION {{<<DeviceUri(ID.AVAILABLE_POWER_SRC, s.id), s.type>>,
                 <<DeviceUri(ID.POWER_SRC_VOLTAGE, s.id), s.voltage>>,
                 <<DeviceUri(ID.POWER_SRC_CURRENT, s.id), s.current>>} : s \in Range(device.sources)}

SensorHas == prv_getResourceList(uses.type, uses.range, uses.unit # NULL, uses.appType # NULL)

SensorReadings ==
  {<<Uri(uses.type, p[1].id, p[2]), IpsoRead(p[1], p[2])>> : p \in Range(sensors) \X (Range(SensorHas) \ IpsoExecutable)}

Readings ==
  (IF HasCustom THEN AppValues ELSE {}) \cup DeviceValues \cup (IF UsesSensors THEN SensorReadings ELSE {})

\* The Objects, Instances and Resources a request may name, those that are not
\* there too, but for an Instance the Object has and its owner has not (Tears):
\* the application answers what it likes, and the sensors are read at address 0.
Uris ==
  LET resources(o) == IF ObjectIndex(objectList, o) = 0 THEN {} ELSE {r.id : r \in Range(ObjectOf(objectList, o).resources)}
      of(o, i, r) == {[object |-> o, instance |-> i, resource |-> r, resInstance |-> ri] :
                        ri \in IF r = ALL THEN {ALL} ELSE {ALL, 0, 1}}
      under(o, i) == UNION {of(o, i, r) : r \in IF i = ALL THEN {ALL} ELSE {ALL, CustomId} \cup resources(o)} IN
  UNION {UNION {under(o, i) : i \in IF o = OwnedObject /\ ~(Held \subseteq Owned) THEN InstanceIds \ (Held \ Owned)
                                   ELSE {ALL} \cup InstanceIds} :
           o \in {CustomId} \cup {objectList[i].objID : i \in DOMAIN objectList}}

Under(uri, path) ==
  /\ uri.object = path.object
  /\ path.instance \in {ALL, uri.instance}
  /\ path.resource \in {ALL, uri.resource}
  /\ path.resInstance \in {ALL, uri.resInstance}

\* Whether the Object has what the URI names, Resource Instances left aside.
Present(uri) ==
  LET object == ObjectOf(objectList, uri.object)
      instances == {i \in Range(object.instances) : i.id = uri.instance} IN
  /\ ObjectIndex(objectList, uri.object) # 0
  /\ uri.instance # ALL => instances # {}
  /\ uri.resource # ALL =>
       /\ \E r \in Range(object.resources) : r.id = uri.resource
       /\ \A i \in instances : i.resources = NULL \/ uri.resource \in Range(i.resources)

\* A Read of an Object, an Instance, a Resource or a Resource Instance gives
\* each value under it that can be read, once, and as it is now; one of a
\* Resource that cannot be read, or of what is not there, gives its code and
\* nothing (object_read and the callbacks of the device and of the sensors).
ReadIsComplete ==
  LET readings == Readings IN
  \A uri \in Uris :
    LET read == Read(uri)
        under == {v \in readings : Under(v[1], uri)}
        given == {<<[x \in {"object", "instance", "resource", "resInstance"} |-> read.data[i][1][x]], read.data[i][2]>> :
                    i \in DOMAIN read.data}
        code == CASE ~Present(uri) -> NOT_FOUND
                  [] Present(uri) /\ uri.resource # ALL
                     /\ ~IS_RSC_READABLE(ResourceOf(ObjectOf(objectList, uri.object), uri.resource)) -> METHOD_NOT_ALLOWED
                  [] OTHER -> IF uri.resInstance # ALL /\ under = {} THEN NOT_FOUND ELSE CONTENT IN
    /\ read.code = code
    /\ given = IF code = CONTENT THEN under ELSE {}
    /\ Len(read.data) = Cardinality(given)

\* A Discover gives a link to each Instance and Resource there is under the
\* URI, and no other, the Resources of an Instance being its own; of a multiple
\* Resource it says how many Instances a Read would give, and at the URI they
\* were set on it gives the attributes of the Server (object_getTree).
DiscoverIsComplete ==
  LET uris == {uri \in Uris : uri.resInstance = ALL}
      present == {uri \in uris : Present(uri)} IN
  \A uri \in uris, set \in Attributes :
    LET attributesCb == [u \in UriSet, inherits \in BOOLEAN |->
                          IF u = set.uri \/ (inherits /\ Under(u, set.uri)) THEN set.values ELSE <<>>]
        tree == Discover(uri, attributesCb)
        links == Range(tree.links)
        named == {l.uri : l \in links} IN
    IF uri \notin present THEN tree.code = NOT_FOUND
    ELSE /\ tree.code = CONTENT /\ Cardinality(named) = Len(tree.links)
         /\ named = {u \in present : Under(u, uri)}
         /\ uri.instance # ALL =>
              \A l \in links : l.uri.resource # ALL =>
                LET resource == ResourceOf(ObjectOf(objectList, uri.object), l.uri.resource)
                IN  resource.multiple => <<"dim", Len(Read(l.uri).data)>> \in Range(l.attributes)
         /\ \A l \in links :
              l.uri = set.uri /\ (l.uri = uri \/ uri.instance # ALL) =>
                \A key \in DOMAIN set.values : <<key, set.values[key]>> \in Range(l.attributes)

\* What is written in an array was counted before: the data of a Read, the
\* links of a Discover and of a registration, the descriptors of the device and
\* of the sensors.  The arrays are allocated from a count made by other code
\* than the code that fills them.
ArraysFit ==
  /\ \A uri \in Uris :
       Present(uri) =>
         LET array == prv_getResourceReadableArray(ObjectOf(objectList, uri.object), uri,
                                                   ResInstances(uri.object))
             tree == Discover(uri, [u \in UriSet, inherits \in BOOLEAN |-> <<>>])
         IN  Len(array.data) <= array.size /\ Len(tree.links) <= tree.size
  /\ Len(object_getList(objectList)) = ListCount(objectList)
  /\ Len(DeviceResources(device.options)) <= DeviceResourceCount(device.options)
  /\ UsesSensors => /\ Len(prv_getResourceDesc(uses.type)) <= DescCount(uses.type)
                    /\ Len(SensorHas) <= SensorCount(uses.type, uses.range, uses.unit # NULL, uses.appType # NULL)

\* A value that can be read and that changes is told, so that the observations
\* of it are looked at, whatever the call or the request that changed it: the
\* counter and the extremes of a sensor, and the other Resources of an update,
\* with the value itself.  Three changes are not: a reset of the energy tells of
\* a Resource that the Object does not have (iowa_object_ipso.c:604), a text of
\* the device that the application changed in its buffer and passes again is
\* the same to the comparison of the addresses (iowa_object_device.c:1436 and
\* after), and what a write has done before it is refused (RefusedChangesNothing).
ChangedInPlace(uri) ==
  /\ uri.object = IOWA_LWM2M_DEVICE_OBJECT_ID /\ uri.resource \in DeviceText
  /\ out'.operation = "device" /\ device'.buffers[uri.resource] = device.buffers[uri.resource]

ChangeIsTold ==
  [][\A v \in Readings, w \in Readings' :
       v[1] = w[1] /\ v[2] # w[2] =>
         \/ Uri(v[1].object, v[1].instance, v[1].resource) \in out'.told
         \/ v[1].object = IPSO.ENERGY /\ out'.operation = "execute"
         \/ ChangedInPlace(v[1])
         \/ out'.code >= BAD_REQUEST]_vars

\* The extremes a sensor gives are those of the values it had since it was
\* added or reset, and the counter of a digital one is the times its value rose
\* from 0, where it is before it is added
\* (prv_updateResourceValues and the resets of prv_ipsoObjectCallback).
MeasuredBounds ==
  UsesSensors => \A s \in Range(sensors) :
    LET values == seen[s.id]
        rises == {i \in 2..Len(values) : values[i - 1] < values[i]}
        has == Range(SensorHas) IN
    /\ RSC.DIGITAL_INPUT_COUNTER \in has => s.max = Cardinality(rises)
    /\ RSC.MIN_MEASURED_VALUE \in has => s.min \in Range(values) /\ \A v \in Range(values) : s.min <= v
    /\ RSC.MAX_MEASURED_VALUE \in has => s.max \in Range(values) /\ \A v \in Range(values) : v <= s.max
    /\ s.value = values[Len(values)]

\* What a Server reads or discovers is all there is, as it was measured, in
\* arrays that hold it.
AnswersAreRight == ReadIsComplete /\ DiscoverIsComplete /\ ArraysFit /\ MeasuredBounds

\* What may be done before a refusal: a replacement empties a multiple Resource
\* before it writes it, and the device writes what comes with a time it refuses:
\* its two texts, and another time of the same request.  A Create the
\* application has accepted and the Object has no memory for leaves it the
\* Instance, and a later one of that Instance starts from there (Tears).
Emptied ==
  /\ out'.operation = "replace"
  /\ \E i \in DOMAIN app : \E r \in DOMAIN app[i] : app' = [app EXCEPT ![i][r] = <<>>]

TimeLeftOut ==
  /\ out'.operation \in {"write", "replace"} /\ out'.code = BAD_REQUEST
  /\ \A id \in DeviceSingle : device'.values[id] # device.values[id] => id \in DeviceWritable
  /\ device' = [device EXCEPT !.values = device'.values]

LeftOver ==
  /\ out'.operation = "create" /\ HasCustom
  /\ \E id \in (DOMAIN app \cup DOMAIN app') \ InstancesOf(CustomObject) :
       /\ out'.code = INTERNAL_ERROR \/ id \in DOMAIN app
       /\ Restrict(app', DOMAIN app' \ {id}) = Restrict(app, DOMAIN app \ {id})

\* A request that is answered with an error has changed nothing, but for the
\* cases above: neither the Objects nor what their owners have, though a Create
\* calls the application twice before it is refused (dm_handleRequest).
RefusedChangesNothing ==
  [][out'.operation \in {"refused", "write", "replace", "execute", "create", "delete"} /\ out'.code >= BAD_REQUEST =>
       /\ UNCHANGED <<objectList, sensors, action, server>>
       /\ UNCHANGED app \/ Emptied \/ LeftOver
       /\ UNCHANGED device \/ TimeLeftOut]_vars

\* While the application holds the notifications they are locked: nothing but
\* its own call lets them go (clientNotificationLock).
LockIsKept == held => locked
=============================================================================
