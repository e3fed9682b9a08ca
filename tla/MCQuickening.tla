---------------------------- MODULE MCQuickening ----------------------------
(***************************************************************************)
(* Two doubles in either order, an integer at the end of the range and NA, *)
(* which is at the other end, and a value of each kind of tag: one below   *)
(* 16, one that four bits take for the type of doubles, one that they do   *)
(* not.                                                                    *)
(***************************************************************************)
EXTENDS Quickening

MCOps == Arithmetic \cup Comparison

MCOperands ==
  {Real(1), Real(2), Integer(MaxInt), Integer(NaInt), Logical(NaInt), Vector(<<1, NaN>>), Scalar("closure", 0)}
=============================================================================
