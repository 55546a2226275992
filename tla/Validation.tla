------------------------------ MODULE Validation -------------------------------
(***************************************************************************)
(* pkg/validation/validation.go: when parameters are accepted.             *)
(*                                                                         *)
(* A value is its Go kind and its content: [kind, is], where is is the set *)
(* of fields, as a function, of a "map", and the sequence of items of a    *)
(* "slice".  A schema has the members that the code looks at; None is a    *)
(* member that is absent, or not of the Go type that the code asserts.     *)
(* Errors are not told apart.                                              *)
(***************************************************************************)
EXTENDS Sequences, Functions

CONSTANT None

Primitives == {"string", "number", "boolean"}

KindsOf(type) ==
    CASE type = "string" -> {"string"}
      [] type = "number" -> {"float64", "float32", "int", "int32", "int64"}
      [] type = "boolean" -> {"bool"}
      [] type = "array" -> {"slice"}
      [] type = "object" -> {"map"}
      [] OTHER -> {}          \* no type, or one that is not supported

\* reflect.DeepEqual: a number equals only one of its own Go type.
InEnum(value, schema) == schema.enum # None => value \in schema.enum

ValidateParameter(value, schema) ==
    /\ schema # None
    /\ value.kind \in KindsOf(schema.type)
    /\ InEnum(value, schema)

\* The test that ValidateParameters and validateNestedParameter share: required
\* fields are there, and only fields with a schema are.
FieldsFit(fields, schema) ==
    /\ schema.properties # None
    /\ schema.required \subseteq DOMAIN fields
    /\ DOMAIN fields \subseteq DOMAIN schema.properties

RECURSIVE ValidateNestedParameter(_, _)

\* Mutant of ItemsFit: the items of an array are not looked at.
AnyItems(items, schema) == TRUE

ItemsFit(items, schema) ==
    schema.items # None =>
        \A i \in DOMAIN items : ValidateNestedParameter(items[i], schema.items)

ValidateNestedParameter(value, schema) ==
    CASE schema.type = "object" ->
             /\ value.kind = "map"
             /\ FieldsFit(value.is, schema)
             /\ \A name \in DOMAIN value.is :
                   ValidateNestedParameter(value.is[name], schema.properties[name])
      [] schema.type = "array" -> value.kind = "slice" /\ ItemsFit(value.is, schema)
      [] OTHER -> ValidateParameter(value, schema)

ValidateParameters(params, schema) ==
    /\ schema.type = "object"
    /\ FieldsFit(params, schema)
    /\ \A name \in DOMAIN params :
          ValidateNestedParameter(params[name], schema.properties[name])

-----------------------------------------------------------------------------
(* What a schema means: every position of the value, down to the leaves, is *)
(* one that the schema has, and each is right by itself.                    *)

\* The fields and items of a value, with the schemas that apply to them.
Parts(value, schema) ==
    CASE value.kind = "map" /\ schema.type = "object" /\ schema.properties # None ->
             {<<value.is[n], IF n \in DOMAIN schema.properties
                             THEN schema.properties[n] ELSE None>> : n \in DOMAIN value.is}
      [] value.kind = "slice" /\ schema.type = "array" /\ schema.items # None ->
             {<<item, schema.items>> : item \in Range(value.is)}
      [] OTHER -> {}

RECURSIVE Positions(_, _)
Positions(value, schema) ==
    {<<value, schema>>}
    \cup UNION {IF part[2] = None THEN {part} ELSE Positions(part[1], part[2]) :
                    part \in Parts(value, schema)}

RightByItself(value, schema) ==
    /\ schema # None
    /\ value.kind \in KindsOf(schema.type)
    /\ schema.type = "object" =>
          schema.properties # None /\ schema.required \subseteq DOMAIN value.is
    /\ schema.type \in Primitives => (schema.enum # None => value \in schema.enum)

Conforms(value, schema) ==
    \A position \in Positions(value, schema) : RightByItself(position[1], position[2])
=============================================================================
