---------------------------- MODULE MCAuthCode ----------------------------
(* Instances of AuthCode for TLC. *)
EXTENDS AuthCode, TLC

CONSTANTS a, b, mail, name

\* Client a may have both scopes, client b one of them.
PermittedScopes == (a :> {mail, name}) @@ (b :> {mail})

Symmetry == Permutations(Code) \cup Permutations(Flow) \cup Permutations(Redeemer)
=============================================================================
