---------------------------- MODULE MapVariables ----------------------------
(***************************************************************************)
(* How the variables of a map's script go to a save and back (scripting/   *)
(* scripting.cpp, xml/save_xml.cpp).  A value of Lua is written as the     *)
(* name of its type and a text, and read with atoi and atof.               *)
(*                                                                         *)
(* A text stands for the number that it denotes; a floating-point number   *)
(* is counted in halves of a millionth, the last digit that to_string      *)
(* writes being a millionth.  Tables in tables are left out.               *)
(***************************************************************************)
EXTENDS Integers

CONSTANT IntMax   \* INT_MAX, 2^31 - 1

ASSUME IntMaxAssumption == IntMax \in Nat

IntMin == 0 - IntMax - 1

Single == {"string", "int", "number", "boolean"}

\* isTable, isStringNumBool: what can be saved, in a table or by itself.  The
\* keys of a table are pairs of a type and a name.
Savable(v) ==
  \/ v.type \in Single
  \/ v.type = "table" /\ \A k \in DOMAIN v.val : v.val[k].type \in Single

\* mapVarTypeForVal: a value has a type, and numbers are counted as the head of
\* the module says.
WellFormedSingle(v) ==
  /\ v = [type |-> v.type, val |-> v.val]
  /\ v.type \in {"int", "number"} => v.val \in Int

WellFormed(v) ==
  IF v.type # "table" THEN WellFormedSingle(v)
  ELSE /\ v = [type |-> "table", val |-> [k \in DOMAIN v.val |-> v.val[k]]]
       /\ \A k \in DOMAIN v.val : k = <<k[1], k[2]>> /\ WellFormedSingle(v.val[k])

\* GetMVValueFromLua: numbers are rounded to six decimals.
Printed(v) ==
  [type |-> v.type, text |-> IF v.type = "number" THEN 2 * ((v.val + 1) \div 2) ELSE v.val]

\* atoi: 32 bits, the rest of lua_Integer's 64 is lost.
AtoI(n) == IF n > IntMax THEN IntMax ELSE IF n < IntMin THEN IntMin ELSE n

\* PushStringNumBoolToLUA.
Pushed(t) == [type |-> t.type, val |-> IF t.type = "int" THEN AtoI(t.text) ELSE t.text]

\* A variable is a single value or a table.  The text of a table's key is its
\* name, whether it is a string or a number; of two keys with one name the one
\* that lua_next comes to last remains (GetMVTablesFromLua, PushTableToLUA).
Names(v)   == {k[2] : k \in DOMAIN v.val}
Under(v, n) == v.val[CHOOSE k \in DOMAIN v.val : k[2] = n]

ToText(v) ==
  IF v.type = "table"
    THEN [type |-> "table", text |-> [n \in Names(v) |-> Printed(Under(v, n))]]
    ELSE Printed(v)

FromText(t) ==
  IF t.type = "table"
    THEN [type |-> "table", val |-> [k \in {"string"} \X DOMAIN t.text |-> Pushed(t.text[k[2]])]]
    ELSE Pushed(t)

\* What remains of a value after it was saved and loaded.
RoundTrip(v) == FromText(ToText(v))

\* A value is kept exactly if it has at most 32 bits or six decimals, and a
\* table if its keys are strings and its values are kept.
ExactSingle(v) ==
  /\ v.type = "int" => v.val \in IntMin .. IntMax
  /\ v.type = "number" => v.val % 2 = 0

Exact(v) ==
  IF v.type = "table"
    THEN \A k \in DOMAIN v.val : k[1] = "string" /\ ExactSingle(v.val[k])
    ELSE ExactSingle(v)
=============================================================================
