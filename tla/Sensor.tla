------------------------------- MODULE Sensor -------------------------------
(***************************************************************************)
(* One row of a sensors table: the tuple of data::table::Item              *)
(* (agent/data/table/item.hpp) and yadro::sensors::Sensor, which gives it  *)
(* its columns, its state and its traps (agent/yadro/sensors.cpp).         *)
(*                                                                         *)
(* The five doubles of a row (the value and the four thresholds) are       *)
(* copied the same way and no decision depends on them: one of them,       *)
(* "Value", stands for all.  The four alarm flags decide the state and are *)
(* kept apart.                                                             *)
(***************************************************************************)

CONSTANTS
    Double,     \* the readings a service may publish
    Zero,       \* the reading of a row that has heard nothing (.0)
    Foreign     \* payloads of a type the row does not expect, int64_t say

ASSUME ZeroAssumption == Zero \in Double

Alarms == {"WarningAlarmLow", "WarningAlarmHigh",
           "CriticalAlarmLow", "CriticalAlarmHigh"}
ItemFields == {"Value"} \union Alarms

\* std::tuple_element<Index, values_t>: the one alternative of the variant
\* that setField accepts for a field.
FieldType(f) == IF f = "Value" THEN Double ELSE {"on", "off"}

\* What may come in a message for a field: any alternative of variant_t.
Payload(f) == FieldType(f) \union Foreign

\* fields_map_t: some of the fields, each with a payload.
FieldsMap == UNION {{m \in [F -> UNION {Payload(f) : f \in ItemFields}] :
                        \A f \in F : m[f] \in Payload(f)} :
                    F \in SUBSET ItemFields}
NoFields == [f \in {} |-> Zero]

Item == {i \in [ItemFields -> UNION {FieldType(f) : f \in ItemFields}] :
            \A f \in ItemFields : i[f] \in FieldType(f)}
NewItem == [f \in ItemFields |-> IF f = "Value" THEN Zero ELSE "off"]

\* The interfaces of SensorsTable, and the properties each one publishes.
OwnedIfaces == {"Value", "Warning", "Critical", "Fatal"}
IfaceFields(i) ==
    CASE i = "Value"    -> {"Value"}
      [] i = "Warning"  -> {"WarningAlarmLow", "WarningAlarmHigh"}
      [] i = "Critical" -> {"CriticalAlarmLow", "CriticalAlarmHigh"}
      [] OTHER          -> {}

\* Seeded fault: the type of the payload is not tested.
setFieldsUntyped(item, fields) ==
    [f \in ItemFields |-> IF f \in DOMAIN fields THEN fields[f] ELSE item[f]]

(* Item::setField for every field, as Sensor::setFields calls it. *)
setFields(item, fields) ==
    [f \in ItemFields |->
        IF f \in DOMAIN fields /\ fields[f] \in FieldType(f)
        THEN fields[f] ELSE item[f]]

States == {"disabled", "normal", "warningLow", "warningHigh",
           "criticalLow", "criticalHigh"}

(* Sensor::getState, its tests in the order of the source. *)
getState(item) ==
    IF item["CriticalAlarmHigh"] = "on" THEN "criticalHigh"
    ELSE IF item["WarningAlarmHigh"] = "on" THEN "warningHigh"
    ELSE IF item["WarningAlarmLow"] = "on" THEN "warningLow"
    ELSE IF item["CriticalAlarmLow"] = "on" THEN "criticalLow"
    ELSE "normal"

(* Sensor::get_snmp_reply: what a manager reads from the row. *)
get_snmp_reply(item) == [value |-> item["Value"], state |-> getState(item)]
=============================================================================
