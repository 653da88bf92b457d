---------------------------- MODULE MCApiClient ----------------------------
(* Instances of ApiClient for TLC. *)
EXTENDS ApiClient, TLC

\* Calls and sessions are interchangeable.
Symmetry == Permutations(Call) \cup Permutations(Sid)
=============================================================================
