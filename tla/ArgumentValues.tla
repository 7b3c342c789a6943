--------------------------- MODULE ArgumentValues ---------------------------
(***************************************************************************)
(* One argument of a node whose field has a value schema: a tree of        *)
(* records, lists and scalars that the inspector edits part by part        *)
(* (SchemaValueEditor of Inspector.tsx) and the canvas wires port by port  *)
(* (nestedPorts of WorkflowNode.tsx; the paths of graph.ts).               *)
(***************************************************************************)
EXTENDS ArgumentWires, FiniteSets, Functions, TLC

CONSTANTS
    Schemas,         \* the value schemas a field can have
    Sources,         \* what can be wired: the type of each source
    NewKeys,         \* the names the user gives to additional properties
    MaxParts,        \* bound: properties of a record, items of a list
    MaxValueEdits    \* bound: edits of the argument

VARIABLES
    schema,     \* the value schema of the field
    valueEdits  \* bound: how many edits there were

argumentVars == <<schema, argument, aim, valueEdits>>

(* ------------------------------- values -------------------------------- *)

Dollar == <<"$", "r", "e", "f">>
ReferenceTo(source) == RecordOf(Dollar :> Scalar(source))
isReference(value) == value.is = "record" /\ DOMAIN value.parts = {Dollar}

Indices == [i \in 0..9 |-> <<ToString(i)>>]
Dropped(value, key) == [value EXCEPT !.parts = Restrict(@, DOMAIN @ \ {key})]

\* values.filter: the items behind the one that is removed move up.
WithoutItem(value, index) ==
    LET last == Cardinality(DOMAIN value.parts) - 1
    IN  ListOf([key \in {Indices[i] : i \in 0..last - 1} |->
                  LET i == CHOOSE j \in 0..last : Indices[j] = key
                  IN  value.parts[Indices[IF i < index THEN i ELSE i + 1]]])

(* ------------------------------- schemas ------------------------------- *)

NoSchema == [type |-> "none", properties |-> NoParts, rest |-> <<>>]

\* items or additional_properties, if there are any.
Rest(s) == IF s.rest = <<>> THEN NoSchema ELSE s.rest[1]
Property(s, key) == IF key \in DOMAIN s.properties THEN s.properties[key] ELSE Rest(s)

schemaFieldType(s) == IF s.type \in {"object", "array"} THEN "json" ELSE s.type

\* The asset types are left out.
compatibleTypes(source, target) == source = target \/ (source = "integer" /\ target = "number")
Compatible(s) == {source \in DOMAIN Sources : compatibleTypes(Sources[source], schemaFieldType(s))}

RECURSIVE defaultSchemaValue(_)
defaultSchemaValue(s) ==
    CASE s.type = "object" -> RecordOf([key \in DOMAIN s.properties |-> defaultSchemaValue(s.properties[key])])
      [] s.type = "array" -> ListOf(NoParts)
      [] s.type = "json" -> RecordOf(NoParts)
      [] OTHER -> Scalar("")

\* The type at a path below the field; a list takes any segment for an item.
fieldTypeAtArgumentPath(s, path) ==
    LET below(at, segment) ==
          CASE at.type = "array" -> Rest(at)
            [] at.type = "object" -> Property(at, segment)
            [] OTHER -> NoSchema
    IN  schemaFieldType(FoldLeft(below, s, path))

\* The paths of all references of a value.
RECURSIVE referencesWithPaths(_)
referencesWithPaths(value) ==
    IF isReference(value) THEN {<<>>}
    ELSE UNION {{<<key>> \o path : path \in referencesWithPaths(value.parts[key])} : key \in DOMAIN value.parts}

(* ------------------------------- the canvas ---------------------------- *)

\* A port for every scalar that the schema knows, also for one of a record that
\* is not there.
RECURSIVE nestedPorts(_, _)
nestedPorts(s, value) ==
    LET below(keys) ==
          UNION {{<<key>> \o path : path \in nestedPorts(Property(s, key), Part(value, key))} : key \in keys}
    IN  CASE s.type = "none" -> {}
          [] s.type = "array" -> IF value.is = "list" THEN below(DOMAIN value.parts) ELSE {}
          [] s.type = "object" -> below(DOMAIN s.properties \cup (IF value.is = "record" THEN DOMAIN value.parts ELSE {}))
          [] OTHER -> {<<>>}

EditValue == valueEdits < MaxValueEdits /\ valueEdits' = valueEdits + 1 /\ UNCHANGED schema

\* A wire is dropped on a port that takes its type.
DropWire(port, source) ==
    /\ compatibleTypes(Sources[source], fieldTypeAtArgumentPath(schema, AtHandle(port)))
    /\ EditValue
    /\ Wire(port, ReferenceTo(source))

\* A wire of the whole argument leaves no argument behind, one of a part a null.
RemoveWire(location) ==
    /\ EditValue
    /\ Wire(location, IF AtHandle(location) = <<>> THEN Missing ELSE NullValue)

(* ----------------------------- the inspector --------------------------- *)

\* What onChange of an editor for the schema can bring, for the value it shows.
RECURSIVE SchemaValueEditor(_, _)
SchemaValueEditor(s, value) ==
    LET shown == IF value.is \in {"missing", "null"} THEN defaultSchemaValue(s) ELSE value
        record == IF shown.is = "record" /\ ~isReference(shown) THEN shown ELSE RecordOf(NoParts)
        list == IF shown.is = "list" THEN shown ELSE ListOf(NoParts)
        additional == DOMAIN record.parts \ DOMAIN s.properties
        length == Cardinality(DOMAIN list.parts)
        inPart(of, key) == {SetPart(of, key, part) : part \in SchemaValueEditor(Property(s, key), Part(of, key))}
        ofProperties == UNION {inPart(record, key) : key \in DOMAIN s.properties}
        ofAdditional ==
            IF s.rest = <<>> THEN {}
            ELSE UNION {inPart(record, key) \cup {Dropped(record, key)}
                          \cup {SetPart(Dropped(record, key), to, record.parts[key]) : to \in NewKeys \ DOMAIN record.parts}
                        : key \in additional}
                 \cup {SetPart(record, key, defaultSchemaValue(Rest(s))) :
                         key \in {new \in NewKeys \ DOMAIN record.parts : Cardinality(DOMAIN record.parts) < MaxParts}}
        ofItems ==
            UNION {inPart(list, Indices[i]) \cup {WithoutItem(list, i)} : i \in 0..length - 1}
            \cup (IF length < MaxParts THEN {SetPart(list, Indices[length], defaultSchemaValue(Rest(s)))} ELSE {})
        constant ==
            CASE s.type = "object" -> ofProperties \cup ofAdditional
              [] s.type = "array" -> ofItems
              [] s.type = "json" -> {RecordOf(NoParts)} \cup {RecordOf(key :> ReferenceTo(source)) :
                                       key \in NewKeys, source \in Compatible(s)}
              [] OTHER -> {Scalar("typed")}
    IN  {ReferenceTo(source) : source \in Compatible(s)}
        \cup (IF Compatible(s) = {} THEN {} ELSE {defaultSchemaValue(s)})
        \cup (IF isReference(value) THEN {} ELSE constant)

\* ArgumentModeButtons and ArgumentValueEditor: a reference, the default of the
\* field, or an edit of its value.
ArgumentValueEditor ==
    /\ EditValue
    /\ argument' \in SchemaValueEditor(schema, argument) \cup {defaultSchemaValue(schema)}
    /\ EditArgument

ValuesInit ==
    /\ schema \in Schemas
    /\ argument \in {Missing, defaultSchemaValue(schema), RecordOf(NoParts)}
    /\ aim = [path |-> <<>>, put |-> argument]
    /\ valueEdits = 0

ValuesNext ==
    \/ \E port \in {<<>>} \cup nestedPorts(schema, argument), source \in DOMAIN Sources : DropWire(port, source)
    \/ \E location \in referencesWithPaths(argument) : RemoveWire(location)
    \/ ArgumentValueEditor

ValuesSpec == ValuesInit /\ [][ValuesNext]_argumentVars
=============================================================================
