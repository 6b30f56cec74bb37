-------------------------------- MODULE MCJit -------------------------------
(***************************************************************************)
(* JitService for TLC: requests that differ in the tier only, and in a     *)
(* shape only.                                                             *)
(***************************************************************************)
EXTENDS JitService

Asked(dim, tier) == [fp |-> 1, shapes |-> <<<<dim>>>>, tier |-> tier]
AskedRequests == {Asked(2, 1), Asked(2, 2), Asked(3, 2)}
=============================================================================
