---------------------------- MODULE ToolSchemas ----------------------------
(***************************************************************************)
(* tools/schema_validator.py: the check of a call's arguments against the  *)
(* input schema of its tool, by the validator of the module itself or,     *)
(* where it is installed, by the jsonschema library (Draft 2020-12), for   *)
(* which the schemas are meant.  The first gate of a tool call in          *)
(* core/environment.py asks it, outside any try.                           *)
(*                                                                         *)
(* A message of the validator is abstracted to there being one.            *)
(*                                                                         *)
(* A schema and the arguments of a call are written as tables, from the    *)
(* path of every part, the names of the fields that lead to it (the path   *)
(* argument of the code), to what the part says by itself, further being   *)
(* the kinds of values that other keywords reject: items, minItems,        *)
(* minimum, pattern, a schema under additionalProperties, and so on.       *)
(***************************************************************************)
EXTENDS Naturals, FiniteSets, Sequences, Optional

CONSTANTS
  ToolInputs,  \* schemas: path -> [type, enum, required, additional, further]
  Arguments,   \* arguments of calls: path -> kind of JSON value
  Union        \* a list of types in the place of a type, or true for a schema

(* The part that the part at path is a field of.                             *)
Outer(path) == SubSeq(path, 1, Len(path) - 1)

(* Every part but the root is a field of another.                            *)
IsTree(table) ==
  /\ <<>> \in DOMAIN table
  /\ \A path \in DOMAIN table : path \in Seq(STRING) /\ (path # <<>> => Outer(path) \in DOMAIN table)

(* isinstance: a bool is an int, a list a list.  "integral" is 1.0.          *)
TypeCheckers ==
  [string |-> {"text", "other text"}, integer |-> {"int", "bool"},
   number |-> {"int", "bool", "float", "integral"}, boolean |-> {"bool"},
   array |-> {"list", "other list"}, object |-> {"object"}, null |-> {"null"}]

(* Fields are named by strings, only an object has any, an enum lists        *)
(* scalars.  None and a list of types are no names of a type.                *)
ASSUME SchemasAssumption ==
  /\ {None, Union} \cap DOMAIN TypeCheckers = {}
  /\ \A s \in ToolInputs :
       /\ IsTree(s)
       /\ \A path \in DOMAIN s :
            /\ s[path].required \subseteq STRING
            /\ s[path].enum # None => s[path].enum \cap {"object", "list", "other list"} = {}
  /\ \A value \in Arguments :
       /\ IsTree(value)
       /\ \A path \in DOMAIN value : path # <<>> => value[Outer(path)] = "object"

VARIABLES
  schema,   \* the schema of the last call, None before any
  args,     \* its arguments
  validity   \* "valid", "invalid", or "raised" by the validator's own code

validatorVars == <<schema, args, validity>>

(* ==: True, 1 and 1.0 are equal.                                            *)
Ones == {"bool", "int", "integral"}
Equal(a, b) == a = b \/ (a \in Ones /\ b \in Ones)

(* _check_type.                                                              *)
HasType(part, json) ==
  part.type # None => part.type \in DOMAIN TypeCheckers /\ json \in TypeCheckers[part.type]

(* The type and the enum of one value, the fields of an object apart.        *)
FitsAlone(part, json) ==
  /\ HasType(part, json)
  /\ part.enum # None => \E member \in part.enum : Equal(member, json)

(* _validate_object is reached for a declared object only.                   *)
IsObject(part, json) == part.type = "object" /\ json = "object"

(* The names of the fields of the part at path: the keys of its properties,  *)
(* or of the object itself.                                                  *)
FieldsAt(table, path) ==
  {inner[Len(inner)] : inner \in {p \in DOMAIN table : p # <<>> /\ Outer(p) = path}}

(* The paths to which the validator descends: those of fields that are       *)
(* declared and present, inside objects that are declared ones.              *)
Visited(s, value) ==
  {path \in DOMAIN s \cap DOMAIN value :
     \A n \in 0 .. Len(path) - 1 :
       IsObject(s[SubSeq(path, 1, n)], value[SubSeq(path, 1, n)])}

(* Mutant: a field that is required is taken to be declared.                 *)
ObjectClosedLoosely(s, value, path) ==
  /\ s[path].required \subseteq FieldsAt(value, path)
  /\ s[path].additional
     \/ FieldsAt(value, path) \subseteq FieldsAt(s, path) \cup s[path].required

(* required and additionalProperties.                                        *)
ObjectClosed(s, value, path) ==
  /\ s[path].required \subseteq FieldsAt(value, path)
  /\ s[path].additional \/ FieldsAt(value, path) \subseteq FieldsAt(s, path)

(* _validate_builtin has something to say.                                   *)
Violated(s, value) ==
  \E path \in Visited(s, value) :
    \/ ~FitsAlone(s[path], value[path])
    \/ IsObject(s[path], value[path]) /\ ~ObjectClosed(s, value, path)

(* The dict of types is asked for a list, or true for its type, wherever it  *)
(* is met.                                                                   *)
Raises(s, value) == \E path \in Visited(s, value) : s[path].type = Union

(* ToolSchemaValidator.validate without jsonschema.                          *)
ValidateBuiltin(s, value) ==
  IF value[<<>>] # "object" THEN "invalid"
  ELSE IF Raises(s, value) THEN "raised"
  ELSE IF Violated(s, value) THEN "invalid"
  ELSE "valid"

(* One call: the validator keeps nothing from one to the next.               *)
Validate ==
  /\ schema = None
  /\ schema' \in ToolInputs /\ args' \in Arguments
  /\ validity' = ValidateBuiltin(schema', args')

ValidatorInit == schema = None /\ args = None /\ validity = "valid"

ValidatorNext == Validate

ValidatorSpec == ValidatorInit /\ [][ValidatorNext]_validatorVars

-----------------------------------------------------------------------------
(* Draft 2020-12: 1.0 is an integer, True is no number and equals no number, *)
(* and the keywords of objects speak of every object: whatever type is       *)
(* declared around it, a field that is declared and present is looked at.    *)
DraftTypes ==
  [TypeCheckers EXCEPT !.integer = {"int", "integral"}, !.number = {"int", "float", "integral"}]

DraftEqual(a, b) == a = b \/ {a, b} = {"int", "integral"}

DraftAccepts(s, value) ==
  \A path \in DOMAIN s \cap DOMAIN value :
    /\ s[path].type # None => value[path] \in DraftTypes[s[path].type]
    /\ s[path].enum # None => \E member \in s[path].enum : DraftEqual(member, value[path])
    /\ value[path] \notin s[path].further
    /\ value[path] = "object" =>
         /\ \A f \in s[path].required : Append(path, f) \in DOMAIN value
         /\ \A f \in FieldsAt(value, path) : Append(path, f) \in DOMAIN s \/ s[path].additional

(* Every part of the schema names a type the validator knows.                *)
Typed(s) == \A path \in DOMAIN s : s[path].type \in DOMAIN TypeCheckers

(* None of its parts has a keyword that the built-in validator ignores.      *)
Covered(s) == \A path \in DOMAIN s : s[path].further = {}

(* A bool and a float of integral value are where Python and JSON differ: no *)
(* part of the value is one, and no enum lists a bool.                       *)
Plain(s, value) ==
  /\ \A path \in DOMAIN value : value[path] \notin {"bool", "integral"}
  /\ \A path \in DOMAIN s : s[path].enum # None => "bool" \notin s[path].enum

JsonSchemaVerdict ==
  IF args[<<>>] = "object" /\ DraftAccepts(schema, args) THEN "valid" ELSE "invalid"

(* Whether jsonschema is installed makes no difference to the calls of a     *)
(* tool all of whose schema has types and no keyword but those the built-in  *)
(* validator covers, however deep its fields are nested.  (validate,         *)
(* _validate_builtin, _validate_object.)                                     *)
ValidatorsAgree ==
  schema # None /\ Typed(schema) /\ Covered(schema) /\ Plain(schema, args) =>
    validity = JsonSchemaVerdict
=============================================================================
