----------------------------- MODULE IpsoObject -----------------------------
(***************************************************************************)
(* The IPSO Objects (objects/iowa_object_ipso.c): a sensor is an Instance  *)
(* with Resources of its own.                                              *)
(*                                                                         *)
(* A sensor is a record: id; value, min, max (max is the counter of a      *)
(* digital one); unit and appType, NULL for none; range, whether it has    *)
(* one.  An IPSO Object keeps its sensors in a sequence, head first.       *)
(***************************************************************************)
EXTENDS Objects, Integers

IPSO == [ANALOG_INPUT |-> 3202, GENERIC |-> 3300, ILLUMINANCE |-> 3301, TEMPERATURE |-> 3303, HUMIDITY |-> 3304,
         BAROMETER |-> 3315, VOLTAGE |-> 3316, CURRENT |-> 3317, FREQUENCY |-> 3318, DEPTH |-> 3319,
         PERCENTAGE |-> 3320, ALTITUDE |-> 3321, LOAD |-> 3322, PRESSURE |-> 3323, LOUDNESS |-> 3324,
         CONCENTRATION |-> 3325, ACIDITY |-> 3326, CONDUCTIVITY |-> 3327, POWER |-> 3328, POWER_FACTOR |-> 3329,
         DISTANCE |-> 3330, ENERGY |-> 3331, DIRECTION |-> 3332, RATE |-> 3346, DIGITAL_INPUT |-> 3200,
         PRESENCE |-> 3302, ON_OFF_SWITCH |-> 3342, PUSH_BUTTON |-> 3347]

RSC == [DIGITAL_INPUT_STATE |-> 5500, DIGITAL_INPUT_COUNTER |-> 5501, DIGITAL_INPUT_COUNTER_RESET |-> 5505,
        ANALOG_INPUT_CURRENT_VALUE |-> 5600, MIN_MEASURED_VALUE |-> 5601, MAX_MEASURED_VALUE |-> 5602,
        MIN_RANGE_VALUE |-> 5603, MAX_RANGE_VALUE |-> 5604, RESET_MIN_AND_MAX_MEASURED_VALUES |-> 5605,
        SENSOR_VALUE |-> 5700, SENSOR_UNITS |-> 5701, COMPASS_DIRECTION |-> 5705, APPLICATION_TYPE |-> 5750,
        SENSOR_TYPE |-> 5751, CUMULATIVE_ACTIVE_POWER |-> 5805, RESET_CUMULATIVE_ENERGY |-> 5822]

IpsoExecutable ==
  {RSC.DIGITAL_INPUT_COUNTER_RESET, RSC.RESET_MIN_AND_MAX_MEASURED_VALUES, RSC.RESET_CUMULATIVE_ENERGY}

IpsoDescriptor(id) ==
  [id |-> id, multiple |-> FALSE, mandatory |-> FALSE,
   type |-> IF id \in {RSC.SENSOR_UNITS, RSC.APPLICATION_TYPE, RSC.SENSOR_TYPE} THEN "STRING" ELSE "OTHER",
   operations |-> CASE id \in IpsoExecutable -> {"EXECUTE"}
                    [] id = RSC.APPLICATION_TYPE -> {"READ", "WRITE"}
                    [] OTHER -> {"READ"}]

Digital == {IPSO.DIGITAL_INPUT, IPSO.PUSH_BUTTON, IPSO.ON_OFF_SWITCH}
NoApplicationType == {IPSO.ILLUMINANCE, IPSO.TEMPERATURE, IPSO.HUMIDITY, IPSO.BAROMETER}

-----------------------------------------------------------------------------
(* The Resources of an Object and of a sensor.  The room of each array is  *)
(* counted before it is filled.                                            *)

MinAndMax == <<RSC.MIN_MEASURED_VALUE, RSC.MAX_MEASURED_VALUE, RSC.RESET_MIN_AND_MAX_MEASURED_VALUES>>
MinAndMaxRange == <<RSC.MIN_RANGE_VALUE, RSC.MAX_RANGE_VALUE>>
DigitalState == <<RSC.DIGITAL_INPUT_STATE, RSC.DIGITAL_INPUT_COUNTER>>

DescCount(type) ==
  CASE type = IPSO.ANALOG_INPUT -> 7
    [] type \in {IPSO.ENERGY, IPSO.PRESENCE} -> 4
    [] type = IPSO.DIRECTION -> 5
    [] type \in Digital -> 3
    [] OTHER -> 7 + (IF type \in NoApplicationType THEN 0 ELSE 1)

prv_getResourceDesc(type) ==
  LET ids ==
        CASE type = IPSO.ANALOG_INPUT ->
               <<RSC.ANALOG_INPUT_CURRENT_VALUE>> \o MinAndMax \o MinAndMaxRange \o <<RSC.APPLICATION_TYPE>>
          [] type = IPSO.ENERGY ->
               <<RSC.SENSOR_VALUE, RSC.RESET_CUMULATIVE_ENERGY, RSC.SENSOR_UNITS, RSC.APPLICATION_TYPE>>
          [] type = IPSO.DIRECTION -> <<RSC.COMPASS_DIRECTION, RSC.APPLICATION_TYPE>> \o MinAndMax
          [] type \in Digital -> DigitalState \o <<RSC.APPLICATION_TYPE>>
          [] type = IPSO.PRESENCE -> DigitalState \o <<RSC.SENSOR_TYPE, RSC.DIGITAL_INPUT_COUNTER_RESET>>
          [] OTHER -> <<RSC.SENSOR_VALUE>> \o MinAndMax \o <<RSC.SENSOR_UNITS>> \o MinAndMaxRange
                        \o (IF type \in NoApplicationType THEN <<>> ELSE <<RSC.APPLICATION_TYPE>>)
  IN  [i \in DOMAIN ids |-> IpsoDescriptor(ids[i])]

\* What a sensor has: r, a range; u, a unit; a, an application type.
SensorCount(type, r, u, a) ==
  LET one(b) == IF b THEN 1 ELSE 0 IN
  CASE type = IPSO.ANALOG_INPUT -> 4 + one(a) + 2 * one(r)
    [] type = IPSO.ENERGY -> 2 + one(u) + one(a)
    [] type = IPSO.DIRECTION -> 4 + one(a)
    [] type \in Digital -> 2 + one(a)
    [] type = IPSO.PRESENCE -> 3 + one(a)
    [] OTHER -> 4 + one(u) + one(type \notin NoApplicationType /\ a) + 2 * one(r)

prv_getResourceList(type, r, u, a) ==
  LET with(b, ids) == IF b THEN ids ELSE <<>> IN
  CASE type = IPSO.ANALOG_INPUT ->
         <<RSC.ANALOG_INPUT_CURRENT_VALUE>> \o MinAndMax \o with(a, <<RSC.APPLICATION_TYPE>>) \o with(r, MinAndMaxRange)
    [] type = IPSO.ENERGY ->
         <<RSC.SENSOR_VALUE, RSC.RESET_CUMULATIVE_ENERGY>> \o with(u, <<RSC.SENSOR_UNITS>>)
           \o with(a, <<RSC.APPLICATION_TYPE>>)
    [] type = IPSO.DIRECTION -> <<RSC.COMPASS_DIRECTION>> \o with(a, <<RSC.APPLICATION_TYPE>>) \o MinAndMax
    [] type \in Digital -> DigitalState \o with(a, <<RSC.APPLICATION_TYPE>>)
    [] type = IPSO.PRESENCE -> DigitalState \o with(a, <<RSC.SENSOR_TYPE>>) \o <<RSC.DIGITAL_INPUT_COUNTER_RESET>>
    [] OTHER -> <<RSC.SENSOR_VALUE>> \o MinAndMax \o with(u, <<RSC.SENSOR_UNITS>>)
                  \o with(type \notin NoApplicationType /\ a, <<RSC.APPLICATION_TYPE>>) \o with(r, MinAndMaxRange)

NewIpsoObject(type) ==
  [objID |-> type, type |-> "advanced", instanceCb |-> FALSE, resources |-> prv_getResourceDesc(type), instances |-> <<>>]

-----------------------------------------------------------------------------
(* Values                                                                  *)

prv_checkResourceValue(type, value) ==
  IF \/ type = IPSO.DIRECTION /\ value \notin 0..360
     \/ type \in Digital \cup {IPSO.PRESENCE} /\ value \notin {0, 1}
  THEN NOT_ACCEPTABLE ELSE NO_ERROR

\* listNew16bitsId: the smallest one that is free.
NewSensorId(sensors) ==
  LET used == {sensors[i].id : i \in DOMAIN sensors}
  IN  CHOOSE id \in 0..Len(sensors) : id \notin used /\ 0..(id - 1) \subseteq used

NewSensor(id, value, unit, appType, range) ==
  [id |-> id, value |-> value, min |-> value, max |-> value, unit |-> unit, appType |-> appType, range |-> range]

\* prv_ipsoObjectCallback, READ
IpsoRead(sensor, resource) ==
  CASE resource \in {RSC.SENSOR_VALUE, RSC.ANALOG_INPUT_CURRENT_VALUE, RSC.COMPASS_DIRECTION} -> sensor.value
    [] resource = RSC.DIGITAL_INPUT_STATE -> IF sensor.value # 0 THEN 1 ELSE 0
    [] resource = RSC.MIN_MEASURED_VALUE -> sensor.min
    [] resource \in {RSC.MAX_MEASURED_VALUE, RSC.DIGITAL_INPUT_COUNTER} -> sensor.max
    [] resource = RSC.SENSOR_UNITS -> sensor.unit
    [] resource \in {RSC.APPLICATION_TYPE, RSC.SENSOR_TYPE} -> sensor.appType
    [] OTHER -> 0   \* the limits of the range, which do not change

\* WRITE: each datum in turn, those after one that is refused too; of the data
\* of a sensor the last one stays.
IpsoWrite(sensors, data) ==
  LET of(id) == {n \in DOMAIN data : data[n].instance = id /\ data[n].resource = RSC.APPLICATION_TYPE} IN
  [code |-> IF \E n \in DOMAIN data : data[n].resource # RSC.APPLICATION_TYPE THEN METHOD_NOT_ALLOWED ELSE NO_ERROR,
   sensors |-> [i \in DOMAIN sensors |->
                  IF of(sensors[i].id) = {} THEN sensors[i]
                  ELSE [sensors[i] EXCEPT !.appType = data[Max(of(sensors[i].id))].value]]]

\* EXECUTE.  What the reset of the energy tells is not the Resource it changes.
IpsoExecute(sensor, resource, argument) ==
  LET result(code, s, told) == [code |-> code, sensor |-> s, told |-> told] IN
  CASE argument -> result(BAD_REQUEST, sensor, {})
    [] ~argument /\ resource = RSC.RESET_MIN_AND_MAX_MEASURED_VALUES ->
         result(NO_ERROR, [sensor EXCEPT !.min = sensor.value, !.max = sensor.value],
                {RSC.MIN_MEASURED_VALUE, RSC.MAX_MEASURED_VALUE})
    [] ~argument /\ resource = RSC.RESET_CUMULATIVE_ENERGY ->
         result(NO_ERROR, [sensor EXCEPT !.value = 0], {RSC.CUMULATIVE_ACTIVE_POWER})
    [] ~argument /\ resource = RSC.DIGITAL_INPUT_COUNTER_RESET ->
         result(NO_ERROR, [sensor EXCEPT !.max = 0], {RSC.DIGITAL_INPUT_COUNTER})
    [] OTHER -> result(METHOD_NOT_ALLOWED, sensor, {})

ValueResource(resources) ==
  IF Contains(resources, RSC.COMPASS_DIRECTION) THEN RSC.COMPASS_DIRECTION
  ELSE IF Contains(resources, RSC.ANALOG_INPUT_CURRENT_VALUE) THEN RSC.ANALOG_INPUT_CURRENT_VALUE
  ELSE RSC.SENSOR_VALUE

\* prv_updateResourceValues with one value: a digital input counts its rises,
\* the others keep the extremes of their values.
prv_updateResourceValues(sensor, resources, value) ==
  LET has(id) == Contains(resources, id)
      result(s, told) == [sensor |-> [s EXCEPT !.value = value], told |-> told]
      lower == has(RSC.MIN_MEASURED_VALUE) /\ value < sensor.min
      higher == ~lower /\ has(RSC.MAX_MEASURED_VALUE) /\ value > sensor.max IN
  IF value = sensor.value THEN result(sensor, {})
  ELSE IF has(RSC.DIGITAL_INPUT_STATE)
       THEN IF has(RSC.DIGITAL_INPUT_COUNTER) /\ value > sensor.value
            THEN result([sensor EXCEPT !.max = @ + 1], {RSC.DIGITAL_INPUT_STATE, RSC.DIGITAL_INPUT_COUNTER})
            ELSE result(sensor, {RSC.DIGITAL_INPUT_STATE})
       ELSE result([sensor EXCEPT !.min = IF lower THEN value ELSE @, !.max = IF higher THEN value ELSE @],
                   {ValueResource(resources)}
                     \cup (IF lower THEN {RSC.MIN_MEASURED_VALUE} ELSE {})
                     \cup (IF higher THEN {RSC.MAX_MEASURED_VALUE} ELSE {}))
=============================================================================
