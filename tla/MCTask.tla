------------------------------- MODULE MCTask -------------------------------
(***************************************************************************)
(* TaskLocal for TLC: types to allocate.                                   *)
(***************************************************************************)
EXTENDS TaskLocal

\* Empty, aligned and odd blocks, and one of the whole arena.
BumpLayouts ==
  {[size |-> 0, align |-> 1], [size |-> 1, align |-> 1], [size |-> 2, align |-> 2],
   [size |-> 4, align |-> 4], [size |-> 7, align |-> 1]}

(***************************************************************************)
(* A disagreement.  "ArenaError::Alignment if align_of::<T>() cannot be    *)
(* satisfied" (bump.rs): the first block of an arena is placed at its base *)
(* whatever alignment its type asks for, and the base suits only bytes.    *)
(***************************************************************************)
ASSUME MisalignedBlock ==
  LET address == 16   align == 32
  IN  (address + AlignUp(0, align)) % align # 0
=============================================================================
