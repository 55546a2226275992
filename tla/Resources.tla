------------------------------- MODULE Resources -------------------------------
(***************************************************************************)
(* pkg/server/server.go: RegisterResource and ApplyResourceTemplate.  A    *)
(* template is looked up under the lock; its schema is checked, and the    *)
(* parameters are put into its URI one by one, in the order of a Go map -  *)
(* any order - while resources are registered.                             *)
(*                                                                         *)
(* A URI is a sequence of tokens; the braces and the name of a placeholder *)
(* are tokens of their own.  A parameter of kind "string" is such a        *)
(* sequence, too; one of another kind prints as a single token.            *)
(***************************************************************************)
EXTENDS Integers, SequencesExt

CONSTANTS
    Ids,              \* resource IDs; Empty is the empty string
    Empty,
    Contents,         \* [uri, isTemplate, schema] of the resources that may be
                      \* registered
    NoResource,
    NoSchema,         \* the schema of a resource without one
    Malformed,        \* the schema of a resource whose schema is not JSON
    Requests,         \* parameters of a request: functions from names to values
    Accepted(_, _),   \* validation: such parameters, by such a schema
    Appliers,         \* goroutines that apply a template
    EnableValidation

NoParams == [n \in {} |-> NoResource]

ASSUME ResourcesAssumption ==
    /\ Empty \in Ids
    /\ NoParams \in Requests
    /\ NoResource \notin Contents
    /\ EnableValidation \in BOOLEAN

VARIABLES
    resources,  \* s.resources
    pc,         \* progress of ApplyResourceTemplate
    id,         \* template.ResourceID
    params,     \* template.Parameters
    found,      \* the resource, as it was looked up
    left,       \* parameters that are not yet in the URI
    uri,        \* the URI so far
    reply

vars == <<resources, pc, id, params, found, left, uri, reply>>

Replies == {"none", "notFound", "notTemplate", "badSchema", "invalid", "resource"}

TypeOK ==
    /\ resources \in [Ids -> Contents \cup {NoResource}]
    /\ pc \in [Appliers -> {"idle", "check", "apply", "done"}]
    /\ id \in [Appliers -> Ids]
    /\ params \in [Appliers -> Requests]
    /\ found \in [Appliers -> Contents \cup {NoResource}]
    /\ left \in [Appliers -> SUBSET UNION {DOMAIN q : q \in Requests}]
    /\ \A a \in Appliers : left[a] \subseteq DOMAIN params[a]
    /\ reply \in [Appliers -> Replies]
    /\ resources[Empty] = NoResource

Init ==
    /\ resources = [i \in Ids |-> NoResource]
    /\ pc = [a \in Appliers |-> "idle"]
    /\ id = [a \in Appliers |-> Empty]
    /\ params = [a \in Appliers |-> NoParams]
    /\ found = [a \in Appliers |-> NoResource]
    /\ left = [a \in Appliers |-> {}]
    /\ uri = [a \in Appliers |-> <<>>]
    /\ reply = [a \in Appliers |-> "none"]

\* Mutants of Registrable: a resource may be registered again, or has no ID.
NotEmpty(i) == i # Empty
NotThere(i) == resources[i] = NoResource

Registrable(i) == i # Empty /\ resources[i] = NoResource

RegisterResource(i, r) ==
    /\ Registrable(i)
    /\ resources' = [resources EXCEPT ![i] = r]
    /\ UNCHANGED <<pc, id, params, found, left, uri, reply>>

-----------------------------------------------------------------------------
Ends(a, r) ==
    /\ pc' = [pc EXCEPT ![a] = "done"]
    /\ reply' = [reply EXCEPT ![a] = r]

\* The lookup, under the lock.
Lookup(a, i, q) ==
    /\ pc[a] = "idle"
    /\ id' = [id EXCEPT ![a] = i]
    /\ params' = [params EXCEPT ![a] = q]
    /\ found' = [found EXCEPT ![a] = resources[i]]
    /\ \/ resources[i] = NoResource /\ Ends(a, "notFound")
       \/ resources[i] # NoResource /\ ~resources[i].isTemplate /\ Ends(a, "notTemplate")
       \/ /\ resources[i] # NoResource /\ resources[i].isTemplate
          /\ pc' = [pc EXCEPT ![a] = "check"]
          /\ UNCHANGED reply
    /\ UNCHANGED <<resources, left, uri>>

Checked(r) == r.schema # NoSchema /\ EnableValidation

Check(a) ==
    /\ pc[a] = "check"
    /\ LET schema == found[a].schema IN
       \/ /\ Checked(found[a]) /\ schema = Malformed
          /\ Ends(a, "badSchema")
          /\ UNCHANGED <<left, uri>>
       \/ /\ Checked(found[a]) /\ schema # Malformed /\ ~Accepted(params[a], schema)
          /\ Ends(a, "invalid")
          /\ UNCHANGED <<left, uri>>
       \/ /\ Checked(found[a]) => schema # Malformed /\ Accepted(params[a], schema)
          /\ pc' = [pc EXCEPT ![a] = "apply"]
          /\ left' = [left EXCEPT ![a] = DOMAIN params[a]]
          /\ uri' = [uri EXCEPT ![a] = found[a].uri]
          /\ UNCHANGED reply
    /\ UNCHANGED <<resources, id, params, found>>

\* fmt.Sprint; the text of a list or a map is one token, whatever it contains.
Sprint(value) == IF value.kind = "string" THEN value.is ELSE <<value.kind>>

Placeholder(key) == <<"{", key, "}">>

\* The sequence s stands in t from position i on.
IsAt(s, t, i) == i + Len(s) - 1 <= Len(t) /\ SubSeq(t, i, i + Len(s) - 1) = s

\* strings.ReplaceAll(t, s, r), for a sequence s that is not empty.
ReplaceEvery(t, s, r) ==
    LET from[i \in 1 .. Len(t) + 1] ==     \* what the rest of t becomes
            CASE i > Len(t) -> <<>>
              [] IsAt(s, t, i) -> r \o from[i + Len(s)]
              [] OTHER -> <<t[i]>> \o from[i + 1]
    IN from[1]

\* Mutant of Put: strings.Replace with a count of one.
PutOne(t, key, value) == ReplaceFirstSubSeq(Sprint(value), Placeholder(key), t)

Put(t, key, value) == ReplaceEvery(t, Placeholder(key), Sprint(value))

\* One turn of the loop over the parameters.
Substitute(a, key) ==
    /\ pc[a] = "apply"
    /\ key \in left[a]
    /\ uri' = [uri EXCEPT ![a] = Put(@, key, params[a][key])]
    /\ left' = [left EXCEPT ![a] = @ \ {key}]
    /\ UNCHANGED <<resources, pc, id, params, found, reply>>

Return(a) ==
    /\ pc[a] = "apply"
    /\ left[a] = {}
    /\ Ends(a, "resource")
    /\ UNCHANGED <<resources, id, params, found, left, uri>>

Next ==
    \/ \E i \in Ids, r \in Contents : RegisterResource(i, r)
    \/ \E a \in Appliers :
          \/ \E i \in Ids, q \in Requests : Lookup(a, i, q)
          \/ Check(a)
          \/ \E key \in left[a] : Substitute(a, key)
          \/ Return(a)

Spec == Init /\ [][Next]_vars

-----------------------------------------------------------------------------
(* Properties.                                                             *)

\* A template that was looked up is still the one registered under its ID when
\* the result is returned (lines 197-205, 575-577).
FoundIsCurrent ==
    \A a \in Appliers : found[a] # NoResource => found[a] = resources[id[a]]

\* The state is well formed, and what ApplyResourceTemplate goes on with after the
\* unlock has not been replaced meanwhile.
RegistrySound == TypeOK /\ FoundIsCurrent
=============================================================================
