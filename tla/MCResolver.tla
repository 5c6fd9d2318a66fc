----------------------------- MODULE MCResolver -----------------------------
(***************************************************************************)
(* Names for the nodes TLC explores: the prefix of a target is that of     *)
(* every service whose name it begins.                                     *)
(***************************************************************************)
EXTENDS Resolver

CONSTANTS a, b, t, other

\* a is of the service t, b of one that its prefix covers too; or both are of the
\* service that is looked for, whose name has a dot.
TwoServices == [n \in Nodes |-> <<IF n = a THEN t ELSE other, n>>]
OneWithADot == [n \in Nodes |-> <<t, other, n>>]
FlatOrDotted == {TwoServices, OneWithADot}
=============================================================================
