---------------------------- MODULE MCResources -----------------------------
(* Instances of ValidatedResources for TLC. *)
EXTENDS ValidatedResources, TLC

Schema(type) == [type |-> type, properties |-> None, required |-> {}, items |-> None,
                 enum |-> None]
Text(t) == [kind |-> "string", is |-> t]
Float64 == [kind |-> "float64", is |-> <<>>]
GoInt == [kind |-> "int", is |-> <<>>]
Nil == [kind |-> "nil", is |-> <<>>]
Slice(items) == [kind |-> "slice", is |-> items]
Fields(f) == [kind |-> "map", is |-> f]

One == Text(<<"one">>)
Object(properties, required) ==
    [Schema("object") EXCEPT !.properties = properties, !.required = required]
Array(items) == [Schema("array") EXCEPT !.items = items]
OneOf(type, choices) == [Schema(type) EXCEPT !.enum = choices]

\* Schemas of a parameter: every type, nested ones, choices, and types that the
\* code does not know.
LeafSchemas ==
    {Schema("string"), Schema("boolean"), Schema("object"), Schema("integer"), Schema(None),
     OneOf("string", {One}), OneOf("number", {Float64}), OneOf("array", {One}),
     Array(Schema("number")), Array(Array(OneOf("string", {One}))),
     Object("x" :> Schema("string"), {}), Object("x" :> Array(Schema("string")), {"x"})}

TemplateSchemas ==
    {Object("a" :> s @@ "b" :> Schema("string"), r) : s \in LeafSchemas, r \in {{}, {"a"}}}
    \cup {Object("a" :> Schema("string"), {"b"}), Schema("object"), Schema("array")}

Values ==
    {One, Text(<<"{", "b", "}">>), Text(<<"{">>), Float64, GoInt, Nil,
     [kind |-> "bool", is |-> <<>>],
     Slice(<<>>), Slice(<<Float64, One>>), Slice(<<Slice(<<One>>)>>), Slice(<<Slice(<<One, GoInt>>)>>),
     Fields(NoParams), Fields("x" :> One), Fields("x" :> Slice(<<One>>)), Fields("y" :> One)}

MCRequests ==
    {NoParams} \cup {"a" :> v : v \in Values}
    \cup {"a" :> v @@ "b" :> w : v \in Values, w \in {One, Text(<<"{", "a", "}">>), Float64}}

URIs == {<<"/", "{", "a", "}", "/", "{", "b", "}", "{", "a", "}">>,
         <<"{", "{", "a", "}", "}">>, <<"{", "b", "}">>}

MCContents ==
    [uri : URIs, isTemplate : {TRUE}, schema : {NoSchema}]
    \cup [uri : {<<"/", "{", "a", "}">>}, isTemplate : BOOLEAN, schema : {NoSchema, Malformed}]
    \cup [uri : {<<"/", "{", "a", "}", "{", "b", "}">>}, isTemplate : {TRUE},
          schema : TemplateSchemas]
=============================================================================
