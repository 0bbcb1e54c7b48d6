------------------------------- MODULE Json -------------------------------
(***************************************************************************)
(* The JSON values a configuration is made of, as the JSON library hands   *)
(* them to ConfigValidator and InputParser.  A value is a record whose     *)
(* payload field depends on its type; objects and arrays both keep their   *)
(* members in a function, an array under the tokens "0", "1", ... a JSON   *)
(* pointer would use.                                                      *)
(*                                                                         *)
(* Decimals are in hundredths.  An integer is written as                   *)
(* wraps * 2^32 + low, and a 32-bit read of it keeps low.                  *)
(***************************************************************************)
EXTENDS Integers, Sequences, FiniteSetsExt, Counting

Tokens == <<"0", "1", "2", "3">>

Absent     == [type |-> "absent"]
Null       == [type |-> "null"]
Str(s)     == [type |-> "string", text |-> s]
Bool(b)    == [type |-> "boolean", truth |-> b]
Num(n)     == [type |-> "number", hundredths |-> n]
Wide(w, n) == [type |-> "integer", wraps |-> w, low |-> n]
Whole(n)     == Wide(0, n)
Obj(f)     == [type |-> "object", fields |-> f]
Arr(s)     == [type |-> "array", fields |->
                [t \in {Tokens[i] : i \in DOMAIN s} |->
                    s[CHOOSE i \in DOMAIN s : Tokens[i] = t]]]

Types == {"null", "string", "boolean", "number", "integer", "object", "array"}

\* The members of V are JSON values, and what they hold is in V as well.
IsJson(V) ==
    \A v \in V :
        /\ v.type \in Types
        /\ v.type = "null"    => v = Null
        /\ v.type = "string"  => v = Str(v.text)
        /\ v.type = "boolean" => v.truth \in BOOLEAN /\ v = Bool(v.truth)
        /\ v.type = "number"  => v.hundredths \in Int /\ v = Num(v.hundredths)
        /\ v.type = "integer" => v.wraps \in Int /\ v.low \in Int /\ v = Wide(v.wraps, v.low)
        /\ v.type \in {"object", "array"} =>
                /\ v = [type |-> v.type, fields |-> v.fields]
                /\ \A k \in DOMAIN v.fields : v.fields[k] \in V

\* No integer among them needs more than 32 bits.
IsNarrow(V) == \A v \in V : v.type = "integer" => v.wraps = 0

Has(value, key) == value.type = "object" /\ key \in DOMAIN value.fields

Field(value, key, default) ==
    IF Has(value, key) THEN value.fields[key] ELSE default

\* The elements of an array in order; nothing for any other value.
Items(value) ==
    IF value.type # "array" THEN <<>>
    ELSE LET held == InOrder({i \in DOMAIN Tokens : Tokens[i] \in DOMAIN value.fields},
                             Len(Tokens))
         IN  [i \in DOMAIN held |-> value.fields[Tokens[held[i]]]]

Elements(value) == {Items(value)[i] : i \in DOMAIN Items(value)}

Section(document, key) == Items(Field(document, key, Null))
Members(document, key) == Elements(Field(document, key, Null))

\* An integer is also a number.
HasType(value, type) ==
    \/ value.type = type
    \/ type = "number" /\ value.type = "integer"

-----------------------------------------------------------------------------
(* What get<T>() makes of a value of a type it converts.                   *)

\* A number no 32-bit integer reaches.
Beyond == 2000000000

AsNumber(value) ==
    IF value.type = "number" THEN value.hundredths
    ELSE IF value.wraps # 0 THEN Beyond ELSE 100 * value.low

AsInt(value) ==
    CASE value.type = "boolean" -> IF value.truth THEN 1 ELSE 0
      [] value.type = "number"  -> value.hundredths \div 100
      [] OTHER                  -> value.low

\* The number the author of the document wrote.
Written(value) == AsNumber(value)

Text(value, key, default) ==
    IF Has(value, key) THEN value.fields[key].text ELSE default
Number(value, key, default) ==
    IF Has(value, key) THEN AsNumber(value.fields[key]) ELSE default
Integer(value, key, default) ==
    IF Has(value, key) THEN AsInt(value.fields[key]) ELSE default

\* The first of the items with that name.
FirstNamed(items, name) == Min({i \in DOMAIN items : Text(items[i], "name", "") = name})

IntegersOf(value) == {AsInt(v) : v \in Elements(value)}

-----------------------------------------------------------------------------
(* A document with the value at a path of keys replaced, or removed.       *)

Put(value, key, new) ==
    [value EXCEPT !.fields =
        IF new.type = "absent"
        THEN [k \in DOMAIN @ \ {key} |-> @[k]]
        ELSE [k \in DOMAIN @ \cup {key} |-> IF k = key THEN new ELSE @[k]]]

HasParent(document, path) ==
    LET node[i \in 0 .. Len(path) - 1] ==
            IF i = 0 THEN document
            ELSE IF /\ node[i - 1].type \in {"object", "array"}
                    /\ path[i] \in DOMAIN node[i - 1].fields
                 THEN node[i - 1].fields[path[i]] ELSE Absent
    IN  node[Len(path) - 1].type \in {"object", "array"}

SetAt(document, path, new) ==
    LET node[i \in 0 .. Len(path) - 1] ==
            IF i = 0 THEN document ELSE node[i - 1].fields[path[i]]
        \* The node below the first i keys, with the change made in it.
        changed[j \in 0 .. Len(path)] ==
            IF j = 0 THEN new
            ELSE Put(node[Len(path) - j], path[Len(path) - j + 1], changed[j - 1])
    IN  changed[Len(path)]
=============================================================================
