----------------------------- MODULE MCResolver -----------------------------
(* Resolver for TLC: the address lists the library may answer. *)
EXTENDS Resolver

\* A list of the right family, lists of both families in either order, and one
\* without any address.
MCLists == {<<"V4">>, <<"V6">>, <<"V4", "V6">>, <<"V6", "V4">>, <<>>}

CONSTANTS t1, t2

\* Two threads where gai() just blocks, and one where it may leave a request behind.
MCCallers == [sys \in Systems |-> IF sys = "other" THEN {t1, t2} ELSE {t1}]

=============================================================================
