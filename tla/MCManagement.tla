---------------------------- MODULE MCManagement ----------------------------
EXTENDS Management

-----------------------------------------------------------------------------
(* The application's Object: a Resource of each kind                       *)

MCCustomId == 40000

Rsc(id, type, multiple, mandatory, operations) ==
  [id |-> id, type |-> type, multiple |-> multiple, mandatory |-> mandatory, operations |-> operations]

MCResources ==
  <<Rsc(0, "INTEGER", FALSE, TRUE, {"READ", "WRITE"}), Rsc(1, "UNSIGNED_INTEGER", TRUE, FALSE, {"READ", "WRITE"}),
    Rsc(2, "UNDEFINED", FALSE, TRUE, {"EXECUTE"}), Rsc(3, "INTEGER", FALSE, FALSE, {"READ"})>>

AddRequest(id, instances, resources, instanceCb) ==
  [objectID |-> id, instanceIDs |-> instances, resources |-> resources, instanceCb |-> instanceCb]

MCAddRequests ==
  {AddRequest(MCCustomId, <<0>>, MCResources, TRUE),
   AddRequest(MCCustomId, <<>>, MCResources, FALSE),
   AddRequest(MCCustomId, <<>>, MCResources, TRUE),
   AddRequest(MCCustomId, <<0, ALL>>, MCResources, FALSE),
   AddRequest(MCCustomId, <<0>>, <<MCResources[1], MCResources[1]>>, FALSE),
   AddRequest(IOWA_LWM2M_DEVICE_OBJECT_ID, <<0>>, MCResources, FALSE)}

-----------------------------------------------------------------------------
(* Requests                                                                *)

Path(object, instance, resource) == Uri(object, instance, resource)

Request(code, uri, data) ==
  [code |-> code, uri |-> uri, format |-> data # <<>>, data |-> data, argument |-> FALSE,
   observe |-> NULL, query |-> FALSE, accept |-> NULL]

Datum(object, instance, resource, resInstance, type, value) ==
  [object |-> object, instance |-> instance, resource |-> resource, resInstance |-> resInstance,
   type |-> type, value |-> value]

Mine(instance, resource, resInstance, value) ==
  Datum(MCCustomId, instance, resource, resInstance, IF resource = 1 THEN "UNSIGNED_INTEGER" ELSE "INTEGER", value)

OfDevice(resource, type, value) == Datum(IOWA_LWM2M_DEVICE_OBJECT_ID, 0, resource, ALL, type, value)

Refusals ==
  {Request("GET", Path(IOWA_LWM2M_SECURITY_OBJECT_ID, ALL, ALL), <<>>),
   [Request("GET", Path(MCCustomId, 0, ALL), <<>>) EXCEPT !.observe = 2],
   [Request("POST", Path(MCCustomId, 0, ALL), <<>>) EXCEPT !.argument = TRUE],
   Request("DELETE", Path(MCCustomId, 0, 0), <<>>),
   Request("PUT", Path(MCCustomId, ALL, ALL), <<Mine(0, 0, ALL, 1)>>),
   Request("POST", Path(MCCustomId, ALL, ALL), <<>>),
   Request("FETCH", Path(MCCustomId, ALL, ALL), <<>>)}

Writes ==
  {Request("PUT", Path(MCCustomId, 0, 0), <<Mine(0, 0, ALL, 1)>>),
   Request("POST", Path(MCCustomId, 0, 1), <<Mine(0, 1, 0, 1)>>),
   Request("PUT", Path(MCCustomId, 0, 1), <<Mine(0, 1, 1, 0)>>),
   Request("POST", Path(MCCustomId, 0, ALL), <<Mine(0, 0, ALL, 0), Mine(0, 3, ALL, 1)>>),
   Request("PUT", Path(MCCustomId, 0, 1), <<Mine(0, 1, 1, -1)>>),
   Request("POST", Path(MCCustomId, 0, 2), <<>>)}

Creations ==
  {Request("POST", Path(MCCustomId, ALL, ALL), <<Mine(ALL, 0, ALL, 0)>>),
   Request("POST", Path(MCCustomId, ALL, ALL), <<Mine(1, 0, ALL, 0), Mine(1, 9, ALL, 0)>>),
   Request("POST", Path(MCCustomId, ALL, ALL), <<Mine(1, 1, 0, 0)>>),
   Request("DELETE", Path(MCCustomId, 0, ALL), <<>>),
   Request("DELETE", Path(IOWA_LWM2M_DEVICE_OBJECT_ID, 0, ALL), <<>>)}

ToDevice ==
  {Request("PUT", Path(IOWA_LWM2M_DEVICE_OBJECT_ID, 0, ALL),
           <<OfDevice(ID.UTC_OFFSET, "STRING", 1), OfDevice(ID.CURRENT_TIME, "TIME", -1)>>),
   Request("PUT", Path(IOWA_LWM2M_DEVICE_OBJECT_ID, 0, ID.CURRENT_TIME), <<OfDevice(ID.CURRENT_TIME, "TIME", 2)>>),
   Request("POST", Path(IOWA_LWM2M_DEVICE_OBJECT_ID, 0, ID.REBOOT), <<>>),
   Request("POST", Path(IOWA_LWM2M_DEVICE_OBJECT_ID, 0, ID.RESET_ERROR), <<>>),
   [Request("POST", Path(IOWA_LWM2M_DEVICE_OBJECT_ID, 0, ID.FACTORY_RESET), <<>>) EXCEPT !.argument = TRUE]}

ToSensor(type) ==
  {Request("PUT", Path(type, 0, RSC.APPLICATION_TYPE), <<Datum(type, 0, RSC.APPLICATION_TYPE, ALL, "STRING", 1)>>)}
    \cup {Request("POST", Path(type, 0, reset), <<>>) : reset \in IpsoExecutable}

-----------------------------------------------------------------------------
(* Cases                                                                   *)

Case(kind, calls, requests) == [kind |-> kind, calls |-> calls, requests |-> requests, options |-> {}]

\* The Objects and the registration; then the values of an Object.
CustomCases ==
  {Case("custom", {"objects", "network", "lock"}, Creations), Case("custom", {"values"}, Refusals \cup Writes)}

DeviceCase(options, infos, times) ==
  [kind |-> "device", calls |-> {}, requests |-> ToDevice, options |-> options, infos |-> infos, times |-> times]

\* A text, in the buffer it was configured from or in another; the memory.
Text(id, buffer, value) == [values |-> id :> value, buffers |-> id :> buffer]
Memory(values) == [values |-> values, buffers |-> <<>>]

DeviceCases ==
  {DeviceCase({"BATTERY", "RESET_ERROR", "factoryResetCallback"}, {}, {}),
   DeviceCase({"POWER_SOURCE", "manufacturer"}, {Text(ID.MANUFACTURER, b, v) : b, v \in {0, 1}}, {}),
   DeviceCase({"MEMORY_FREE", "memoryTotal", "CURRENT_TIME", "UTC_OFFSET", "EXTERNAL_INFO"},
              {Memory(ID.MEMORY_FREE :> 1), Memory((ID.MEMORY_TOTAL :> 1) @@ (ID.MEMORY_FREE :> 0))},
              {ID.CURRENT_TIME :> 1, ID.CURRENT_TIME :> (-1), (ID.UTC_OFFSET :> 2) @@ (ID.TIME_ZONE :> 2)})}

SensorCase(type, unit, appType, range, values, number, updates) ==
  [kind |-> "sensors", calls |-> {}, requests |-> ToSensor(type), options |-> {}, type |-> type, unit |-> unit,
   appType |-> appType, range |-> range, values |-> values, number |-> number, updates |-> updates]

\* One type has two sensors; a digital one is 0 before it is added.
SensorCases ==
  {SensorCase(IPSO.VOLTAGE, 0, NULL, TRUE, {0, 1}, 2, 3), SensorCase(IPSO.TEMPERATURE, NULL, 0, FALSE, 0..2, 1, 3),
   SensorCase(IPSO.ANALOG_INPUT, NULL, 0, TRUE, 0..2, 1, 3), SensorCase(IPSO.ENERGY, 0, NULL, FALSE, 0..2, 1, 3),
   SensorCase(IPSO.DIRECTION, NULL, 0, FALSE, {0, 360, 361}, 1, 3),
   SensorCase(IPSO.DIGITAL_INPUT, NULL, 0, FALSE, 0..2, 1, 5), SensorCase(IPSO.PRESENCE, NULL, 0, FALSE, 0..2, 1, 5)}

MCCases == CustomCases \cup DeviceCases \cup SensorCases

\* The application that holds the notifications and updates its device.
MCLockCases == {[c EXCEPT !.calls = {"lock"}] : c \in DeviceCases}

MCAttributes ==
  {[uri |-> Path(MCCustomId, 0, ALL), values |-> [pmin |-> 1, pmax |-> 2]],
   [uri |-> Path(IOWA_LWM2M_DEVICE_OBJECT_ID, 0, ID.ERROR_CODE), values |-> [gt |-> 3]]}

MCBattery == {<<1, 0>>, <<1, 1>>}
MCSources == {<<0, 0>>, <<1, 0>>}

\* The application of the runs keeps to what the stack does not check.
ASSUME MCContract == Contract

\* What the steps depend on: out is only looked at by what is said of a step.
View == <<uses, objectList, app, device, sensors, seen, action, state, server, locked, held>>
=============================================================================
