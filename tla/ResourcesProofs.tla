---------------------------- MODULE ResourcesProofs ----------------------------
(***************************************************************************)
(* Theorems about Resources, for any resources, requests, checks and       *)
(* numbers of goroutines.                                                  *)
(***************************************************************************)
EXTENDS Resources, TLAPS

-----------------------------------------------------------------------------
\* What the code goes on with after the lookup is a template; after the checks it
\* is one that has no schema, or one that accepts the parameters.
Fits(a) ==
    Checked(found[a]) => found[a].schema # Malformed /\ Accepted(params[a], found[a].schema)

CheckedInv ==
    \A a \in Appliers :
        /\ pc[a] \in {"idle", "check"} => left[a] = {}
        /\ pc[a] \in {"check", "apply"} => found[a] # NoResource /\ found[a].isTemplate
        /\ pc[a] = "apply" => Fits(a)
        /\ reply[a] = "resource" => pc[a] = "done" /\ found[a] # NoResource
                                    /\ found[a].isTemplate /\ Fits(a)

IInv == RegistrySound /\ CheckedInv

LEMMA InitIInv == Init => IInv
  BY ResourcesAssumption DEF Init, IInv, RegistrySound, TypeOK, FoundIsCurrent, CheckedInv,
     Replies

\* A resource is added where there is none, so that no template is replaced.
LEMMA RegisterKeeps ==
    ASSUME IInv, NEW i \in Ids, NEW r \in Contents, RegisterResource(i, r)
    PROVE  IInv'
<1> USE DEF IInv, RegistrySound, RegisterResource, Registrable
<1>1. TypeOK'
  BY DEF TypeOK
<1>2. FoundIsCurrent'
  BY ResourcesAssumption DEF TypeOK, FoundIsCurrent
<1>3. CheckedInv'
  BY DEF CheckedInv, Fits, Checked
<1> QED BY <1>1, <1>2, <1>3

LEMMA LookupKeeps ==
    ASSUME IInv, NEW a \in Appliers, NEW i \in Ids, NEW q \in Requests, Lookup(a, i, q)
    PROVE  IInv'
<1> USE DEF IInv, RegistrySound, Lookup, Ends
<1>1. left[a] = {} /\ reply[a] # "resource"
  BY DEF CheckedInv
<1>2. TypeOK'
  BY <1>1 DEF TypeOK, Replies
<1>3. FoundIsCurrent'
  BY DEF TypeOK, FoundIsCurrent
<1>4. CheckedInv'
  BY <1>1 DEF TypeOK, CheckedInv, Fits, Checked
<1> QED BY <1>2, <1>3, <1>4

LEMMA CheckKeeps ==
    ASSUME IInv, NEW a \in Appliers, Check(a)
    PROVE  IInv'
<1> USE DEF IInv, RegistrySound, Check, Ends
<1>1. TypeOK'
  <2>1. DOMAIN params[a] \in SUBSET UNION {DOMAIN q : q \in Requests}
    BY DEF TypeOK
  <2> QED BY <2>1 DEF TypeOK, Replies
<1>2. FoundIsCurrent'
  BY DEF FoundIsCurrent
<1>3. CheckedInv'
  BY DEF TypeOK, CheckedInv, Fits, Checked
<1> QED BY <1>1, <1>2, <1>3

LEMMA ApplyKeeps ==
    ASSUME IInv, NEW a \in Appliers, Return(a) \/ \E key \in left[a] : Substitute(a, key)
    PROVE  IInv'
<1> USE DEF IInv, RegistrySound, Return, Substitute, Ends
<1>1. TypeOK'
  BY DEF TypeOK, Replies
<1>2. FoundIsCurrent'
  BY DEF FoundIsCurrent
<1>3. CheckedInv'
  BY DEF TypeOK, CheckedInv, Fits, Checked
<1> QED BY <1>1, <1>2, <1>3

LEMMA IInvStep == IInv /\ [Next]_vars => IInv'
<1> SUFFICES ASSUME IInv, [Next]_vars PROVE IInv'
  OBVIOUS
<1>1. CASE UNCHANGED vars
  BY <1>1 DEF vars, IInv, RegistrySound, TypeOK, FoundIsCurrent, CheckedInv, Fits, Checked
<1> QED BY <1>1, RegisterKeeps, LookupKeeps, CheckKeeps, ApplyKeeps DEF Next

\* The state is well formed, no resource has an empty ID, and a template is still
\* the one registered under its ID after the unlock (server.go:197-211, 574-577).
THEOREM RegistryIsSound == Spec => []RegistrySound
<1>1. IInv => RegistrySound
  BY DEF IInv
<1> QED BY InitIInv, IInvStep, <1>1, PTL DEF Spec

\* The resource that is returned comes from a template that is registered now, and
\* from parameters that its schema accepts - although the lock was free since the
\* lookup (server.go:574-620).
ResultsFit ==
    \A a \in Appliers :
        LET r == resources[id[a]] IN
        reply[a] = "resource" =>
            /\ r # NoResource /\ r.isTemplate
            /\ r.schema # NoSchema /\ EnableValidation =>
                  r.schema # Malformed /\ Accepted(params[a], r.schema)

\* Whatever is registered between the lookup, the checks and the return of
\* ApplyResourceTemplate (server.go:574-620).
THEOREM ResultsAreChecked == Spec => []ResultsFit
<1>1. IInv => ResultsFit
  BY DEF IInv, RegistrySound, FoundIsCurrent, CheckedInv, Fits, Checked, ResultsFit
<1> QED BY InitIInv, IInvStep, <1>1, PTL DEF Spec
===============================================================================
