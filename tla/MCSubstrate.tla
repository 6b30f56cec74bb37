----------------------------- MODULE MCSubstrate ----------------------------
(***************************************************************************)
(* The deque and the map for TLC.  They share no state, so each behaviour  *)
(* belongs to one of them: `lane` names it, it takes steps, and the other  *)
(* rests in its initial state.                                             *)
(***************************************************************************)
EXTENDS ChaseLev, ShardedMap

VARIABLE lane

Lanes == {"deque", "map"}

SubstrateInit ==
  /\ lane \in Lanes
  /\ Init /\ MapInit

SubstrateNext ==
  /\ UNCHANGED lane
  /\ \/ lane = "deque" /\ Next /\ UNCHANGED map_vars
     \/ lane = "map" /\ MapNext /\ UNCHANGED vars

substrate_vars == <<lane, vars, map_vars>>

SubstrateSpec == SubstrateInit /\ [][SubstrateNext]_substrate_vars
=============================================================================
