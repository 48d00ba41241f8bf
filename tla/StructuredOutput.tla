-------------------------- MODULE StructuredOutput --------------------------
(***************************************************************************)
(* Agent.run_structured and core/structured.py: from the text of an answer *)
(* to an instance of a dataclass, or a parse error.                        *)
(*                                                                         *)
(* A text is one JSON value alone, in a code fence, or in prose.  Only the *)
(* extraction from prose depends on how the value is written: its patterns *)
(* end at the first closing bracket.  The items of a list are no lists.    *)
(***************************************************************************)
EXTENDS Naturals, Sequences, FiniteSets, Optional

CONSTANTS
  AnswerTexts, \* texts: [place |-> "alone", "fence" or "prose", value]
  OutputTypes  \* dataclasses: field -> [type, required]

(* A JSON value is [json |-> "object", fields], [json |-> "list", items] or  *)
(* [json |-> s] for a scalar s: "null", "bool", "int", "huge" (an integer    *)
(* beyond any float), "float", "infinite", "digits" and "decimal" (texts     *)
(* that are numbers), "braced" (a text with a closing brace) or "text".      *)
ASSUME StructuredAssumption ==
  /\ \A answer \in AnswerTexts : answer.place \in {"alone", "fence", "prose"} /\ answer.value # None
  /\ \A dataclass \in OutputTypes : \A field \in DOMAIN dataclass :
       dataclass[field].type \in {"any", "int", "float", "str", "bool", "list", "optional int",
                                 "list of str"}

VARIABLES
  text,   \* the answer of the run, or None before
  wanted, \* output_type
  parsed  \* what comes of it: ParseError, Raised or the Data of a StructuredResult

structuredVars == <<text, wanted, parsed>>

Data(fields) == [result |-> "data", fields |-> fields]
ParseError == [result |-> "parse error"]
Raised == [result |-> "raised"]

-----------------------------------------------------------------------------
JsonTexts == {"text", "braced", "digits", "decimal"}

ClosesBrace(value) ==
  \/ value.json \in {"object", "braced"}
  \/ value.json = "list" /\ \E i \in DOMAIN value.items : value.items[i].json \in {"object", "braced"}

Flat(value) ==
  value.json = "object" /\ \A key \in DOMAIN value.fields : ~ClosesBrace(value.fields[key])

(* _JSON_OBJECT_RE: the text from the first opening brace to the first       *)
(* closing one; None if it does not parse.                                   *)
FirstObject(value) ==
  CASE value.json = "object" -> IF Flat(value) THEN value ELSE None
    [] value.json = "list" ->
         LET objects == {i \in DOMAIN value.items : value.items[i].json = "object"} IN
         IF objects = {} THEN None
         ELSE LET first == CHOOSE i \in objects : \A j \in objects : i <= j
              IN  IF Flat(value.items[first]) THEN value.items[first] ELSE None
    [] OTHER -> None

(* extract_json_from_content and parse_json: alone, in a fence, an object in *)
(* prose.  Then _JSON_ARRAY_RE: a list, which is no more an object than None.*)
Extracted(answer) ==
  IF answer.place \in {"alone", "fence"} THEN answer.value ELSE FirstObject(answer.value)

-----------------------------------------------------------------------------
(* isinstance(value, field_type), where Python answers: a bool is an int.    *)
Fits(value, type) ==
  CASE type = "any" -> TRUE
    [] type = "int" -> value.json \in {"int", "huge", "bool"}
    [] type = "float" -> value.json \in {"float", "infinite"}
    [] type = "str" -> value.json \in JsonTexts
    [] type = "bool" -> value.json = "bool"
    [] type = "list" -> value.json = "list"
    [] type = "optional int" -> value.json \in {"int", "huge", "bool", "null"}

(* What _coerce_value raises, if it does: isinstance a TypeError for a type  *)
(* with parameters, int and float one for what is no number; and an          *)
(* OverflowError, which nobody catches, int of an infinite number and float  *)
(* of a huge one.                                                            *)
Overflows(value, type) == <<type, value.json>> \in {<<"int", "infinite">>, <<"float", "huge">>}

Failures(value, type) ==
  CASE type = "list of str" -> {ParseError}
    [] Overflows(value, type) -> {Raised}
    [] type = "int" /\ value.json = "decimal" -> {ParseError}
    [] type \in {"int", "float"} /\ value.json \in {"null", "text", "braced", "list", "object"} ->
         {ParseError}
    [] OTHER -> {}

(* Mutant: the constructors are applied to values that fit as well.          *)
CoercedAnyway(value, type) ==
  IF type \in {"int", "float", "str", "bool"} THEN [json |-> type, from |-> value] ELSE value

(* _coerce_value: int, float, str or bool of a value that does not fit; str  *)
(* of a null is a text and bool of a text is true.  What does not fit        *)
(* another type is left as it is.                                            *)
Coerced(value, type) ==
  IF ~Fits(value, type) /\ type \in {"int", "float", "str", "bool"}
    THEN [json |-> type, from |-> value] ELSE value

(* parse_structured: unknown fields are ignored; a value that cannot be      *)
(* coerced, whichever is met first, a missing field and a value that is no   *)
(* object are errors.                                                        *)
Structured(value, fields) ==
  IF value = None \/ value.json # "object" THEN {ParseError}
  ELSE LET known == DOMAIN fields \cap DOMAIN value.fields
           failures == UNION {Failures(value.fields[key], fields[key].type) : key \in known}
       IN  IF failures # {} THEN failures
           ELSE IF \E key \in DOMAIN fields \ known : fields[key].required THEN {ParseError}
           ELSE {Data([key \in DOMAIN fields |->
                         IF key \in known THEN Coerced(value.fields[key], fields[key].type)
                         ELSE [json |-> "default"]])}

(* Agent.run_structured.                                                     *)
RunStructured ==
  /\ text = None
  /\ text' \in AnswerTexts
  /\ wanted' \in OutputTypes
  /\ parsed' \in Structured(Extracted(text'), wanted')

StructuredInit == text = None /\ wanted = None /\ parsed = None

StructuredNext == RunStructured

StructuredSpec == StructuredInit /\ [][StructuredNext]_structuredVars

-----------------------------------------------------------------------------
(* A list of objects in prose, of which the first is taken for the answer.   *)
ListInProse == text.place = "prose" /\ text.value.json = "list"

(* An object that fits, and in prose has one closing brace.                  *)
FittingObject ==
  /\ text.value.json = "object"
  /\ text.place = "prose" => Flat(text.value)
  /\ \A key \in DOMAIN wanted :
       IF key \in DOMAIN text.value.fields
         THEN wanted[key].type # "list of str" /\ Fits(text.value.fields[key], wanted[key].type)
         ELSE ~wanted[key].required

(* An object whose fields have the declared types becomes exactly these      *)
(* fields, whatever other fields come with it, unless in prose a brace       *)
(* within it hides its end; data are never made of a part of the answer, but *)
(* for a list of objects in prose; and a run raises only over a field of     *)
(* type int that is infinite or of type float that is a huge integer.        *)
(* (extract_json_from_content, parse_structured, _coerce_value,              *)
(* run_structured.)                                                          *)
AnswersParsed ==
  text # None =>
    /\ FittingObject =>
         /\ parsed.result = "data"
         /\ \A key \in DOMAIN wanted \cap DOMAIN text.value.fields :
              parsed.fields[key] = text.value.fields[key]
    /\ ~ListInProse /\ text.value.json # "object" => parsed = ParseError
    /\ parsed = Raised /\ text.value.json = "object" =>
         \E key \in DOMAIN wanted \cap DOMAIN text.value.fields :
           Overflows(text.value.fields[key], wanted[key].type)
=============================================================================
