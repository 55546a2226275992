--------------------------- MODULE ValidatedResources ---------------------------
(***************************************************************************)
(* Resources with the checks of Validation: what a server of this SDK does *)
(* with a template whose schema restricts its parameters.                  *)
(***************************************************************************)
EXTENDS Resources, Validation

\* With validation, parameters are rejected exactly if some position in them does
\* not conform to the template's schema (server.go:588-596, validation.go:88-192).
ValidationExact ==
    \A a \in Appliers :
        EnableValidation /\ pc[a] \in {"apply", "done"} /\ found[a] # NoResource
          /\ found[a].isTemplate /\ found[a].schema \notin {NoSchema, Malformed}
            => (reply[a] = "invalid" <=>
                ~Conforms([kind |-> "map", is |-> params[a]], found[a].schema))

Braces == {"{", "}"}

\* The parameters put in all at once, from left to right.
RECURSIVE AtOnce(_, _)
AtOnce(t, q) ==
    IF t = <<>> THEN <<>>
    ELSE IF \E key \in DOMAIN q : IsAt(Placeholder(key), t, 1)
    THEN LET key == CHOOSE k \in DOMAIN q : IsAt(Placeholder(k), t, 1)
         IN Sprint(q[key]) \o AtOnce(SubSeq(t, 4, Len(t)), q)
    ELSE <<Head(t)>> \o AtOnce(Tail(t), q)

\* In a plain URI braces occur only around names.
Plain(t) == \A i \in DOMAIN t :
    /\ t[i] = "{" => i + 2 <= Len(t) /\ t[i + 2] = "}"
    /\ t[i] = "}" => i > 2 /\ t[i - 2] = "{"

\* The order in which the parameters are put in makes no difference, unless the
\* URI is not plain or a parameter has a brace (lines 605-611).
OrderMakesNoDifference ==
    \A a \in Appliers :
        reply[a] = "resource" /\ Plain(found[a].uri)
          /\ (\A key \in DOMAIN params[a] : Range(Sprint(params[a][key])) \cap Braces = {})
            => uri[a] = AtOnce(found[a].uri, params[a])
=================================================================================
