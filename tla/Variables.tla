----------------------------- MODULE Variables -----------------------------
(***************************************************************************)
(* The variables of og3 and their conversions.  A text is one of a small   *)
(* set that tells the conversions apart, and stands for every spelling of  *)
(* its number; numbers are in tenths, so that 10 is the integer 1 and 25   *)
(* the fraction 2.5, which has one decimal.                                *)
(***************************************************************************)
EXTENDS Integers, Sequences, SequencesExt

CONSTANT NaN               \* the float that is not a number

ValueNames == <<"low", "high">>       \* the names of an EnumStrVariable's values

(* What sscanf() finds in a text, for "%g" and for "%d"; a text that is    *)
(* not in the domain has no number to convert.                             *)
ScannedFloat == [text \in {"0", "1", "2", "2.5", "3", "nan"} |->
  CASE text = "0" -> 0 [] text = "1" -> 10 [] text = "2" -> 20
    [] text = "2.5" -> 25 [] text = "3" -> 30 [] text = "nan" -> NaN]

ScannedInt == [text \in DOMAIN ScannedFloat \ {"nan"} |-> ScannedFloat[text] \div 10]

(* The position of a name, -1 if it is none.                               *)
NameIndex(text) == SelectInSeq(ValueNames, LAMBDA name : name = text) - 1

FalseTexts == {"", "0", "false", "off"}

(* The values of a variable of each kind, numbers being those that the     *)
(* texts spell.                                                            *)
IsValue(kind, value) ==
  \/ kind = "float" /\ value \in {0, 10, 20, 25, 30, NaN}
  \/ kind \in {"int", "enum", "enumStr"} /\ value \in {0, 1, 2, 3}
  \/ kind = "string"
  \/ kind = "bool" /\ value \in BOOLEAN
-----------------------------------------------------------------------------
(* The state of a variable, besides its name and flags.                    *)
State(value, failed) == [value |-> value, failed |-> failed]

(* operator=() clears the failed state.                                    *)
Assigned(v, value) == State(value, FALSE)

Failed(v) == [v EXCEPT !.failed = TRUE]

(* fromString(), for each kind.  A text that cannot be converted leaves    *)
(* the value as it was and marks it failed.                                *)
FloatFromString(v, text) ==
  IF text \in DOMAIN ScannedFloat THEN State(ScannedFloat[text], FALSE) ELSE Failed(v)

IntFromString(v, text) ==
  IF text \in DOMAIN ScannedInt THEN State(ScannedInt[text], FALSE) ELSE Failed(v)

EnumFromString(v, text) == IntFromString(v, text)

(* A name, or any number.                                                  *)
EnumStrFromString(v, text) ==
  IF NameIndex(text) >= 0 THEN State(NameIndex(text), FALSE) ELSE IntFromString(v, text)

StringFromString(v, text) == [v EXCEPT !.value = text]

BoolFromString(v, text) == State(text \notin FalseTexts, FALSE)

FromString(kind, v, text) ==
  CASE kind = "float" -> FloatFromString(v, text)
    [] kind = "int" -> IntFromString(v, text)
    [] kind = "enum" -> EnumFromString(v, text)
    [] kind = "enumStr" -> EnumStrFromString(v, text)
    [] kind = "string" -> StringFromString(v, text)
    [] kind = "bool" -> BoolFromString(v, text)

(* What fromString() returned: true for every String.                      *)
Converted(kind, v) == kind = "string" \/ ~v.failed

(* The text in the field of a form (formEntry(), string()).  A quote ends  *)
(* the field's attribute; a list none of whose options is selected posts   *)
(* its first one.                                                          *)
Quoted == "o'k"
Spelled(number) == CHOOSE text \in DOMAIN ScannedFloat : ScannedFloat[text] = number

(* String(float, decimals) rounds to its decimals, a half up (Arduino,     *)
(* external).                                                              *)
Rounded(tenths, decimals) ==
  IF tenths = NaN \/ decimals > 0 THEN tenths ELSE ((tenths + 5) \div 10) * 10

FloatFormEntry(v, decimals) == Spelled(Rounded(v.value, decimals))
IntFormEntry(v) == Spelled(v.value * 10)
EnumStrFormEntry(v) == IF v.value + 1 \in DOMAIN ValueNames THEN Spelled(v.value * 10) ELSE "0"
StringFormEntry(v) == IF v.value = Quoted THEN "o" ELSE v.value

(* Fault: words that BoolFromString() does not tell apart.                 *)
BoolFormEntryYesNo(v) == IF v.value THEN "yes" ELSE "no"

BoolFormEntry(v) == IF v.value THEN "true" ELSE "false"

FormEntry(kind, decimals, v) ==
  CASE kind = "float" -> FloatFormEntry(v, decimals)
    [] kind \in {"int", "enum"} -> IntFormEntry(v)
    [] kind = "enumStr" -> EnumStrFormEntry(v)
    [] kind = "string" -> StringFormEntry(v)
    [] kind = "bool" -> BoolFormEntry(v)
-----------------------------------------------------------------------------
(* A JSON value; a key that is missing reads as null, and null is what     *)
(* serializeJson() writes for NaN (external).                              *)
Null == [is |-> "null"]
Text(text) == [is |-> "text", of |-> text]
Number(tenths) == IF tenths = NaN THEN Null ELSE [is |-> "number", of |-> tenths]
Boolean(b) == [is |-> "boolean", of |-> b]

(* Numbers that the texts spell, as above.                                 *)
IsJson(json) ==
  \/ json.is \in {"null", "text"}
  \/ json.is = "number" /\ json.of \in {0, 10, 20, 25, 30}
  \/ json.is = "boolean" /\ json.of \in BOOLEAN

IsInt(json) == json.is = "number" /\ json.of % 10 = 0

(* EnumStrVariableBase::string().                                          *)
EnumStrName(value) == IF value + 1 \in DOMAIN ValueNames THEN ValueNames[value + 1] ELSE "??"

(* toJson(), for each kind.  A failed variable writes nothing.             *)
FloatToJson(v) == Number(v.value)
IntToJson(v) == Number(v.value * 10)
EnumToJson(v) == Number(v.value * 10)
EnumStrToJson(v) == Text(EnumStrName(v.value))
StringToJson(v) == Text(v.value)
BoolToJson(v) == Text(IF v.value THEN "true" ELSE "false")

ToJson(kind, v) ==
  CASE v.failed -> Null
    [] ~v.failed /\ kind = "float" -> FloatToJson(v)
    [] ~v.failed /\ kind = "int" -> IntToJson(v)
    [] ~v.failed /\ kind = "enum" -> EnumToJson(v)
    [] ~v.failed /\ kind = "enumStr" -> EnumStrToJson(v)
    [] ~v.failed /\ kind = "string" -> StringToJson(v)
    [] ~v.failed /\ kind = "bool" -> BoolToJson(v)

(* fromJson(), for each kind: a success clears no failed state, except     *)
(* that of a bool given as a text.                                         *)
FloatFromJson(v, json) ==
  IF json.is = "number" THEN [v EXCEPT !.value = json.of] ELSE Failed(v)

IntFromJson(v, json) == IF IsInt(json) THEN [v EXCEPT !.value = json.of \div 10] ELSE v

EnumFromJson(v, json) == IntFromJson(v, json)

EnumStrFromJson(v, json) ==
  IF json.is # "text" THEN IntFromJson(v, json)
  ELSE IF NameIndex(json.of) >= 0 THEN [v EXCEPT !.value = NameIndex(json.of)] ELSE v

StringFromJson(v, json) == IF json.is = "text" THEN [v EXCEPT !.value = json.of] ELSE v

BoolFromJson(v, json) ==
  CASE json.is = "text" -> BoolFromString(v, json.of)
    [] json.is = "boolean" -> [v EXCEPT !.value = json.of]
    [] json.is = "number" -> Failed(v)

FromJson(kind, v, json) ==
  CASE kind = "float" -> FloatFromJson(v, json)
    [] kind = "int" -> IntFromJson(v, json)
    [] kind = "enum" -> EnumFromJson(v, json)
    [] kind = "enumStr" -> EnumStrFromJson(v, json)
    [] kind = "string" -> StringFromJson(v, json)
    [] kind = "bool" -> BoolFromJson(v, json)
=============================================================================
