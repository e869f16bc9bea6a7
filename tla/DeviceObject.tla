---------------------------- MODULE DeviceObject ----------------------------
(***************************************************************************)
(* The Device Object (objects/iowa_object_device.c): the Resources it is   *)
(* made of, its callbacks and the updates of the application.              *)
(*                                                                         *)
(* A device is a record: options, what the application asked for; values,  *)
(* of the Resources that are not multiple; buffers, where the application  *)
(* keeps each text, the device having its address only; errors, a set of   *)
(* codes; sources, a sequence of [id, type, voltage, current], head first. *)
(* An operation gives [code, device, told]: told is the Resources whose    *)
(* change it tells.                                                        *)
(***************************************************************************)
EXTENDS Objects

IOWA_LWM2M_DEVICE_OBJECT_ID == 3

ID == [MANUFACTURER |-> 0, MODEL_NUMBER |-> 1, SERIAL_NUMBER |-> 2, FIRMWARE_VERSION |-> 3, REBOOT |-> 4,
       FACTORY_RESET |-> 5, AVAILABLE_POWER_SRC |-> 6, POWER_SRC_VOLTAGE |-> 7, POWER_SRC_CURRENT |-> 8,
       BATTERY_LEVEL |-> 9, MEMORY_FREE |-> 10, ERROR_CODE |-> 11, RESET_ERROR |-> 12, CURRENT_TIME |-> 13,
       UTC_OFFSET |-> 14, TIME_ZONE |-> 15, BINDING |-> 16, TYPE |-> 17, HARDWARE_VERSION |-> 18,
       SOFTWARE_VERSION |-> 19, BATTERY_STATUS |-> 20, MEMORY_TOTAL |-> 21, EXT_DEV_INFO |-> 22]

DeviceExecutable == {ID.REBOOT, ID.FACTORY_RESET, ID.RESET_ERROR}
DeviceWritable == {ID.CURRENT_TIME, ID.UTC_OFFSET, ID.TIME_ZONE}
PowerSource == {ID.AVAILABLE_POWER_SRC, ID.POWER_SRC_VOLTAGE, ID.POWER_SRC_CURRENT}
DeviceMultiple == PowerSource \cup {ID.ERROR_CODE, ID.EXT_DEV_INFO}
DeviceMandatory == {ID.ERROR_CODE, ID.BINDING}
DeviceSingle == Range(ID) \ (DeviceExecutable \cup DeviceMultiple)
DeviceText == {ID.MANUFACTURER, ID.MODEL_NUMBER, ID.SERIAL_NUMBER, ID.FIRMWARE_VERSION, ID.HARDWARE_VERSION,
               ID.SOFTWARE_VERSION, ID.TYPE}
DeviceMemory == {ID.MEMORY_TOTAL, ID.MEMORY_FREE}

\* The types a Server can write are told from the others.
DeviceType(id) ==
  CASE id \in DeviceExecutable -> "UNDEFINED"
    [] id = ID.CURRENT_TIME -> "TIME"
    [] id \in {ID.UTC_OFFSET, ID.TIME_ZONE} -> "STRING"
    [] OTHER -> "OTHER"

DeviceDescriptor(id) ==
  [id |-> id, type |-> DeviceType(id), multiple |-> id \in DeviceMultiple, mandatory |-> id \in DeviceMandatory,
   operations |-> IF id \in DeviceExecutable THEN {"EXECUTE"}
                  ELSE {"READ"} \cup (IF id \in DeviceWritable THEN {"WRITE"} ELSE {})]

-----------------------------------------------------------------------------
(* The Resources of a device                                               *)

DEVICE_OBJECT_OPT_RES_BATTERY_COUNT == 2
DEVICE_OBJECT_OPT_RES_POWER_SOURCE_COUNT == 3

\* resourcesNb: the room of the descriptors is counted before they are set.
DeviceResourceCount(options) ==
  3 + Cardinality(options \ {"BATTERY", "POWER_SOURCE"})
    + (IF "BATTERY" \in options THEN DEVICE_OBJECT_OPT_RES_BATTERY_COUNT ELSE 0)
    + (IF "POWER_SOURCE" \in options THEN DEVICE_OBJECT_OPT_RES_POWER_SOURCE_COUNT ELSE 0)

\* What each option adds, in the order of the descriptors.
DeviceIds(options) ==
  LET of(option, ids) == IF option \in options THEN ids ELSE <<>> IN
  <<ID.REBOOT, ID.ERROR_CODE, ID.BINDING>>
    \o of("deviceType", <<ID.TYPE>>) \o of("firmwareVersion", <<ID.FIRMWARE_VERSION>>)
    \o of("hardwareVersion", <<ID.HARDWARE_VERSION>>) \o of("manufacturer", <<ID.MANUFACTURER>>)
    \o of("modelNumber", <<ID.MODEL_NUMBER>>) \o of("serialNumber", <<ID.SERIAL_NUMBER>>)
    \o of("softwareVersion", <<ID.SOFTWARE_VERSION>>) \o of("BATTERY", <<ID.BATTERY_LEVEL, ID.BATTERY_STATUS>>)
    \o of("POWER_SOURCE", <<ID.AVAILABLE_POWER_SRC, ID.POWER_SRC_VOLTAGE, ID.POWER_SRC_CURRENT>>)
    \o of("RESET_ERROR", <<ID.RESET_ERROR>>) \o of("CURRENT_TIME", <<ID.CURRENT_TIME>>)
    \o of("UTC_OFFSET", <<ID.UTC_OFFSET>>) \o of("TIMEZONE", <<ID.TIME_ZONE>>)
    \o of("factoryResetCallback", <<ID.FACTORY_RESET>>) \o of("memoryTotal", <<ID.MEMORY_TOTAL>>)
    \o of("MEMORY_FREE", <<ID.MEMORY_FREE>>) \o of("EXTERNAL_INFO", <<ID.EXT_DEV_INFO>>)

DeviceResources(options) == [i \in DOMAIN DeviceIds(options) |-> DeviceDescriptor(DeviceIds(options)[i])]

\* objectDeviceInit
NewDevice(options, values) ==
  [options |-> options, values |-> values, buffers |-> [id \in DeviceText |-> 0], errors |-> {}, sources |-> <<>>]
NewDeviceObject(options) ==
  [objID |-> IOWA_LWM2M_DEVICE_OBJECT_ID, type |-> "single", instanceCb |-> FALSE,
   resources |-> DeviceResources(options), instances |-> <<>>]

-----------------------------------------------------------------------------
(* Callbacks                                                               *)

\* Mutant: the codes that are not set are not skipped.
prv_getErrorValue_Bit(errors, resInstance) == IF errors = {} THEN 0 ELSE resInstance + 1

\* The bits that are set, from the lowest.
InOrder(errors) == SetToSortSeq(errors, LAMBDA a, b : a < b)

\* The error code of a Resource Instance, 0 when there is no error.
prv_getErrorValue(errors, resInstance) == IF errors = {} THEN 0 ELSE InOrder(errors)[resInstance + 1]

prv_deviceResInstanceCallback(device, resource) ==
  LET errors == IF device.errors = {} THEN 1 ELSE Cardinality(device.errors) IN
  CASE resource = ID.ERROR_CODE -> [i \in 1..errors |-> i - 1]
    [] resource \in PowerSource -> [i \in DOMAIN device.sources |-> device.sources[i].id]
    [] OTHER -> <<>>   \* extLinkCount stays 0

SourceOf(device, id) == SelectInSeq(device.sources, LAMBDA s : s.id = id)

\* prv_deviceObjectCallback, READ
DeviceRead(device, resource, resInstance) ==
  LET index == SourceOf(device, resInstance)
      source == device.sources[index] IN
  CASE resource = ID.ERROR_CODE ->
         IF resInstance # 0 /\ resInstance >= Cardinality(device.errors) THEN NULL
         ELSE prv_getErrorValue(device.errors, resInstance)
    [] resource \in PowerSource /\ index = 0 -> NULL
    [] resource = ID.AVAILABLE_POWER_SRC /\ index # 0 -> source.type
    [] resource = ID.POWER_SRC_VOLTAGE /\ index # 0 -> source.voltage
    [] resource = ID.POWER_SRC_CURRENT /\ index # 0 -> source.current
    [] resource \in DeviceSingle -> device.values[resource]
    [] OTHER -> NULL

TimeRefused(datum) == datum.resource = ID.CURRENT_TIME /\ datum.value < 0

\* WRITE: each datum in turn, those after one that is refused too; of the data
\* of a Resource the last one stays.
DeviceWrite(device, data) ==
  LET of(id) == {n \in DOMAIN data : data[n].resource = id /\ ~TimeRefused(data[n])} IN
  [code |-> IF \E n \in DOMAIN data : TimeRefused(data[n]) THEN BAD_REQUEST ELSE NO_ERROR,
   device |-> [device EXCEPT !.values = [id \in DOMAIN @ |-> IF of(id) = {} THEN @[id] ELSE data[Max(of(id))].value]],
   told |-> {}]

\* EXECUTE, without an argument.  action is a flag of contextP->action, for iowa_step.
DeviceExecute(device, resource, argument) ==
  LET result(action, dev, told) == [code |-> NO_ERROR, device |-> dev, told |-> told, action |-> action] IN
  CASE argument -> [code |-> BAD_REQUEST, device |-> device, told |-> {}, action |-> {}]
    [] ~argument /\ resource = ID.REBOOT -> result({"REBOOT"}, device, {})
    [] ~argument /\ resource = ID.FACTORY_RESET -> result({"FACTORY_RESET"}, device, {})
    [] OTHER -> result({}, [device EXCEPT !.errors = {}], IF device.errors # {} THEN {ID.ERROR_CODE} ELSE {})

-----------------------------------------------------------------------------
(* The application                                                         *)

Refused(device, code) == [code |-> code, device |-> device, told |-> {}]
Updated(device, told) == [code |-> NO_ERROR, device |-> device, told |-> told]

\* What is told of a set of values: those that differ.
Differ(device, values) == {id \in DOMAIN values : device.values[id] # values[id]}
Stored(device, values) ==
  [device EXCEPT !.values = [id \in DOMAIN @ |-> IF id \in DOMAIN values THEN values[id] ELSE @[id]]]

\* Mutant: the status is told with the level only.
update_battery_LevelFirst(device, level, status) ==
  LET values == (ID.BATTERY_LEVEL :> level) @@ (ID.BATTERY_STATUS :> status) IN
  IF "BATTERY" \notin device.options THEN Refused(device, METHOD_NOT_ALLOWED)
  ELSE Updated(Stored(device, values), IF device.values[ID.BATTERY_LEVEL] # level THEN Differ(device, values) ELSE {})

update_battery(device, level, status) ==
  LET values == (ID.BATTERY_LEVEL :> level) @@ (ID.BATTERY_STATUS :> status) IN
  IF "BATTERY" \notin device.options THEN Refused(device, METHOD_NOT_ALLOWED)
  ELSE Updated(Stored(device, values), Differ(device, values))

\* The code 0 clears the others.
set_error_code(device, code) ==
  CASE code > 32 -> Refused(device, BAD_OPTION)
    [] code = 0 /\ device.errors = {} -> Refused(device, NOT_FOUND)
    [] code \in device.errors -> Refused(device, CONFLICT)
    [] OTHER -> Updated([device EXCEPT !.errors = IF code = 0 THEN {} ELSE @ \cup {code}], {ID.ERROR_CODE})

clear_error_code(device, code) ==
  CASE code \notin 1..32 -> Refused(device, BAD_OPTION)
    [] code \in 1..32 \ device.errors -> Refused(device, NOT_FOUND)
    [] OTHER -> Updated([device EXCEPT !.errors = @ \ {code}], {ID.ERROR_CODE})

\* A power source takes the smallest identifier that is free.
NewSourceId(device) ==
  CHOOSE id \in 0..Len(device.sources) :
    SourceOf(device, id) = 0 /\ \A lower \in 0..(id - 1) : SourceOf(device, lower) # 0

add_power_source(device, type, voltage, current, fails) ==
  LET source == [id |-> NewSourceId(device), type |-> type, voltage |-> voltage, current |-> current] IN
  IF "POWER_SOURCE" \notin device.options THEN Refused(device, METHOD_NOT_ALLOWED)
  ELSE IF fails THEN Refused(device, INTERNAL_ERROR)
  ELSE Updated([device EXCEPT !.sources = <<source>> \o @], PowerSource)

remove_power_source(device, id) ==
  IF "POWER_SOURCE" \notin device.options THEN Refused(device, METHOD_NOT_ALLOWED)
  ELSE IF SourceOf(device, id) = 0 THEN Refused(device, NOT_FOUND)
  ELSE Updated([device EXCEPT !.sources = RemoveAt(@, SourceOf(device, id))], PowerSource)

update_power_source(device, id, voltage, current) ==
  LET index == SourceOf(device, id)
      source == device.sources[index] IN
  IF "POWER_SOURCE" \notin device.options THEN Refused(device, METHOD_NOT_ALLOWED)
  ELSE IF index = 0 THEN Refused(device, NOT_FOUND)
  ELSE Updated([device EXCEPT !.sources[index].voltage = voltage, !.sources[index].current = current],
               (IF source.voltage # voltage THEN {ID.POWER_SRC_VOLTAGE} ELSE {})
                 \cup (IF source.current # current THEN {ID.POWER_SRC_CURRENT} ELSE {}))

\* info has the values of some of the texts and of the memory, and the buffers
\* the texts are in.  The addresses are compared, not the texts: one that is
\* changed in its buffer is read as it is now and not told.  The memory is told
\* even if it is the same.
update_device_information(device, info) ==
  LET moved == {id \in DOMAIN info.buffers \cap DeviceText : device.buffers[id] # info.buffers[id]} IN
  Updated([Stored(device, info.values) EXCEPT
             !.buffers = [id \in DeviceText |-> IF id \in DOMAIN info.buffers THEN info.buffers[id] ELSE @[id]]],
          moved \cup (DOMAIN info.values \cap DeviceMemory))

\* Only what the options ask for; the texts are told even if they are the same.
update_device_time_information(device, info) ==
  LET option == (ID.CURRENT_TIME :> "CURRENT_TIME") @@ (ID.UTC_OFFSET :> "UTC_OFFSET") @@ (ID.TIME_ZONE :> "TIMEZONE")
      known == [id \in {id \in DOMAIN info : option[id] \in device.options} |-> info[id]] IN
  IF ID.CURRENT_TIME \in DOMAIN info /\ info[ID.CURRENT_TIME] < 0 THEN Refused(device, NOT_ACCEPTABLE)
  ELSE Updated(Stored(device, known), Differ(device, known) \cup (DOMAIN known \cap {ID.UTC_OFFSET, ID.TIME_ZONE}))
=============================================================================
