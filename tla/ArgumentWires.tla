--------------------------- MODULE ArgumentWires ----------------------------
(***************************************************************************)
(* Where a wire to a part of an argument goes: the parts of a value, the   *)
(* handle that stands for a path on the canvas, and what is put at a path  *)
(* (graph.ts 545-612).  The value and the path may be any.                 *)
(***************************************************************************)
EXTENDS Integers, Sequences, SequencesExt

CONSTANTS
    Characters,  \* what names are made of
    MaxDepth     \* bound: how deep the properties look into a value

ASSUME WiresAssumption == {"~", "/", "0", "1"} \subseteq Characters /\ MaxDepth \in Nat

VARIABLES
    argument,   \* node.arguments[field.name]
    aim         \* ghost: the place a wire was put to, or taken from, and what was put there

wireVars == <<argument, aim>>

(* ------------------------------- values -------------------------------- *)

\* JSON: a key is the sequence of its characters, an item of a list has its
\* index as a key.
Keys == Seq(Characters)

NoParts == [key \in {} |-> "none"]
Missing == [is |-> "missing", text |-> "", parts |-> NoParts]
NullValue == [is |-> "null", text |-> "", parts |-> NoParts]
Scalar(text) == [is |-> "scalar", text |-> text, parts |-> NoParts]
RecordOf(parts) == [is |-> "record", text |-> "", parts |-> parts]
ListOf(parts) == [is |-> "list", text |-> "", parts |-> parts]

Part(value, key) == IF key \in DOMAIN value.parts THEN value.parts[key] ELSE Missing
SetPart(value, key, part) ==
    [is |-> value.is, text |-> value.text,
     parts |-> [k \in DOMAIN value.parts \cup {key} |-> IF k = key THEN part ELSE value.parts[k]]]

valueAtPath(value, path) ==
    LET at[n \in 0..Len(path)] == IF n = 0 THEN value ELSE Part(at[n - 1], path[n])
    IN  at[Len(path)]

\* The value is built anew from the inside: new[n] is what becomes of the part
\* that the path reaches n segments before its end.
setValueAtPath(value, path, replacement) ==
    LET here(n) == Len(path) - n
        new[n \in 0..Len(path)] ==
          IF n = 0 THEN replacement
          ELSE SetPart(valueAtPath(value, SubSeq(path, 1, here(n))), path[here(n) + 1], new[n - 1])
    IN  new[Len(path)]

\* setValueAtPath throws where there is no such place.
Settable(value, path) == \A n \in 1..Len(path) : valueAtPath(value, SubSeq(path, 1, n)) # Missing

(* ------------------------------- handles ------------------------------- *)

replaceAll(s, from, to) ==
    LET all[rest \in Keys] ==
          IF Len(rest) < Len(from) THEN rest
          ELSE IF SubSeq(rest, 1, Len(from)) = from
               THEN to \o all[SubSeq(rest, Len(from) + 1, Len(rest))]
               ELSE <<rest[1]>> \o all[Tail(rest)]
    IN  all[s]

escapePointerSegment(s) == replaceAll(replaceAll(s, <<"~">>, <<"~", "0">>), <<"/">>, <<"~", "1">>)

\* Mutant: the escapes are undone in the order they were made in.
UnescapedInOrder(s) == replaceAll(replaceAll(s, <<"~", "0">>, <<"~">>), <<"~", "1">>, <<"/">>)

unescapePointerSegment(s) == replaceAll(replaceAll(s, <<"~", "1">>, <<"/">>), <<"~", "0">>, <<"~">>)

argumentPathHandle(path) ==
    FlattenSeq([i \in DOMAIN path |-> <<"/">> \o escapePointerSegment(path[i])])

\* String.split: a sequence of one empty part at the least.
Split(s) ==
    LET cut[rest \in Keys] ==
          IF rest = <<>> THEN << <<>> >>
          ELSE LET more == cut[Tail(rest)]
               IN  IF rest[1] = "/" THEN << <<>> >> \o more
                   ELSE << <<rest[1]>> \o more[1] >> \o Tail(more)
    IN  cut[s]

argumentPathFromHandle(handle) ==
    LET segments == Split(Tail(handle))
    IN  [i \in DOMAIN segments |-> unescapePointerSegment(segments[i])]

\* A port is found again by its handle, the field itself by its name.
AtHandle(path) == IF path = <<>> THEN <<>> ELSE argumentPathFromHandle(argumentPathHandle(path))

(* -------------------------------- edits -------------------------------- *)

\* A wire, or what is left of it, is put at the port.
Wire(port, put) ==
    /\ aim' = [path |-> port, put |-> put]
    /\ argument' = IF Settable(argument, AtHandle(port))
                   THEN setValueAtPath(argument, AtHandle(port), put) ELSE argument

\* The argument is edited as a whole.
EditArgument == aim' = [path |-> <<>>, put |-> argument']

WiresNext ==
    \/ aim'.path \in Seq(Keys) /\ Wire(aim'.path, aim'.put)
    \/ EditArgument

WiresSpec == [][WiresNext]_wireVars

(* ------------------------------ properties ----------------------------- *)

\* The places of a value, by the length of the path to them.
Places(value) ==
    LET at[n \in 0..MaxDepth] ==
          IF n = 0 THEN {<<>>}
          ELSE UNION {{Append(path, key) : key \in DOMAIN valueAtPath(value, path).parts} : path \in at[n - 1]}
    IN  UNION {at[n] : n \in 0..MaxDepth}
Apart(one, other) == ~IsPrefix(one, other) /\ ~IsPrefix(other, one)

\* A wire that is dropped on a port, or taken away, changes the place the port
\* stands for and no other, whatever the names on the way to it are; a drop is
\* lost only where the record of the port has no such part yet (graph.ts:611).
WiresKeepToTheirPlace ==
    [][LET path == aim'.path IN
        \/ /\ valueAtPath(argument', path) = aim'.put
           /\ \A place \in Places(argument) :
                Apart(place, path) => valueAtPath(argument', place) = valueAtPath(argument, place)
        \/ argument' = argument /\ valueAtPath(argument, path) = Missing]_wireVars

=============================================================================
