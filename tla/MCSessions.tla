---------------------------- MODULE MCSessions ----------------------------
(***************************************************************************)
(* Instances of Sessions for TLC.                                          *)
(***************************************************************************)
EXTENDS Sessions, TLC

\* Ids and slots are interchangeable: no action or property names one.
Symmetry == Permutations(Sid) \cup Permutations(Request) \cup Permutations(User)
=============================================================================
