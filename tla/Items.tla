-------------------------------- MODULE Items --------------------------------
(***************************************************************************)
(* The rows of the inventory table (yadro::inventory::InventoryItem) and   *)
(* of the software table (yadro::software::Software) as data: their        *)
(* fields, what a message may carry for them, how setFields converts it    *)
(* and what a manager reads.                                               *)
(***************************************************************************)
EXTENDS Integers

CONSTANTS
    Texts, Empty,   \* strings that are copied as they are, and ""
    Priorities,     \* the priorities that may be published
    Strings,        \* the enum strings that may be published
    Foreign         \* payloads of a type no row expects

Kinds == {"inventory", "software"}

Flags == {"Present", "Functional"}
Enums == {"Purpose", "Activation"}
ItemFields(kind) ==
    CASE kind = "inventory" -> {"PrettyName", "Manufacturer", "BuildDate", "Model",
                                "PartNumber", "SerialNumber", "Version"} \union Flags
      [] kind = "software"  -> {"Version", "Priority"} \union Enums

\* The interfaces of inventoryTable and softwareTable with their properties.
IfaceFields(i) ==
    CASE i = "Item"       -> {"PrettyName", "Present"}
      [] i = "Asset"      -> {"Manufacturer", "BuildDate", "Model", "PartNumber",
                              "SerialNumber"}
      [] i = "Revision"   -> {"Version"}
      [] i = "Status"     -> {"Functional"}
      [] i = "Version"    -> {"Version", "Purpose"}
      [] i = "Activation" -> {"Activation"}
      [] i = "Priority"   -> {"Priority"}
      [] OTHER            -> {}
OwnedIfaces(kind) ==
    CASE kind = "inventory" -> {"Item", "Asset", "Revision", "Status"}
      [] kind = "software"  -> {"Version", "Activation", "Priority"}

-----------------------------------------------------------------------------
(* DBusEnum.  A string is the name of an enum and the member after it;     *)
(* Bare is the name with nothing after it.                                 *)

Bare == "bare"
INVALID_ENUM_VALUE == 255

purpose ==
    [base |-> "VersionPurpose",
     values |-> [Unknown |-> 0, Other |-> 1, System |-> 2, BMC |-> 3, Host |-> 4]]
activation ==
    [base |-> "Activations",
     values |-> [NotReady |-> 0, Invalid |-> 1, Ready |-> 2, Activating |-> 3,
                 Active |-> 4, Failed |-> 5]]
Converter(f) == IF f = "Purpose" THEN purpose ELSE activation

EnumString == [base : {"VersionPurpose", "Activations", "other"},
               member : DOMAIN purpose.values \union DOMAIN activation.values
                           \union {Bare, "unlisted"}]

ASSUME ItemsAssumption ==
    /\ Empty \in Texts
    /\ Priorities \subseteq 0 .. 255
    /\ Strings \subseteq EnumString

get(enumcvt, str) ==
    IF str.base = enumcvt.base /\ str.member \in DOMAIN enumcvt.values
    THEN enumcvt.values[str.member] ELSE INVALID_ENUM_VALUE

\* substr(len + 1) of a string of length len: std::out_of_range.
throws(enumcvt, str) == str.base = enumcvt.base /\ str.member = Bare

-----------------------------------------------------------------------------
(* Messages and rows.                                                      *)

\* The alternative of the variant that a field takes from a message.
Expected(f) ==
    CASE f \in Flags    -> {"true", "false"}
      [] f \in Enums    -> Strings
      [] f = "Priority" -> Priorities
      [] OTHER          -> Texts
Payload(f) == Expected(f) \union Foreign
Published(F) == {m \in [F -> UNION {Payload(f) : f \in F}] :
                    \A f \in F : m[f] \in Payload(f)}
NoFields == [f \in {} |-> Empty]

\* What a row holds of a field.
FieldType(f) ==
    CASE f \in Flags                -> {"true", "false"}
      [] f \in Enums \/ f = "Priority" -> 0 .. 255
      [] OTHER                      -> Texts
IsItem(kind, i) ==
    /\ i = [f \in ItemFields(kind) |-> i[f]]
    /\ \A f \in ItemFields(kind) : i[f] \in FieldType(f)
NewItem(kind) ==
    [f \in ItemFields(kind) |->
        CASE f \in Flags                -> "false"
          [] f \in Enums \/ f = "Priority" -> INVALID_ENUM_VALUE
          [] OTHER                      -> Empty]

Converted(f, x) == IF f \in Enums THEN get(Converter(f), x) ELSE x

(* InventoryItem::setFields and Software::setFields: Item::setField or     *)
(* setFieldEnum for every field.                                           *)
setFields(kind, item, fields) ==
    [f \in ItemFields(kind) |->
        IF f \in DOMAIN fields /\ fields[f] \in Expected(f)
        THEN Converted(f, fields[f]) ELSE item[f]]

\* setFields does not return: the exception is caught nowhere.
Throws(kind, fields) ==
    \E f \in ItemFields(kind) \cap Enums \cap DOMAIN fields :
        fields[f] \in Expected(f) /\ throws(Converter(f), fields[f])

-----------------------------------------------------------------------------
(* What a manager sees.                                                    *)

SNMPBOOL(value) == IF value = "true" THEN 1 ELSE 2

\* The two columns of the inventory that traps are about, as a GET returns
\* them and as a trap carries them.
Reply == [present : {1, 2}, functional : {1, 2}]
get_snmp_reply(item) == [present |-> SNMPBOOL(item["Present"]),
                         functional |-> SNMPBOOL(item["Functional"])]
Nothing == [present |-> 2, functional |-> 2]
=============================================================================
