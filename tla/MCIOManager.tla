---------------------------- MODULE MCIOManager ----------------------------
(* Instances of IOManager for TLC: the coroutines are interchangeable.      *)
EXTENDS IOManager

FiberSymmetry == Permutations(Fibers)
=============================================================================
