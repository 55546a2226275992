---------------------------- MODULE MCBaseServer ----------------------------
(* Instances of BaseServer for TLC. *)
EXTENDS BaseServer

CONSTANTS strict, lax, input

\* The strict schema refuses the input, the lax one accepts it.
MCAccepts == {<<lax, input>>}
=============================================================================
