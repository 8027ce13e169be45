----------------------- MODULE MCShareholderRoyalties -----------------------
(***************************************************************************)
(* Instances of ShareholderRoyalties for TLC.  Neither users nor tokens    *)
(* are compared or ordered by the model, so both are symmetric.            *)
(***************************************************************************)
EXTENDS ShareholderRoyalties, TLC

Symmetry == Permutations(Users) \cup Permutations(Tokens)
=============================================================================
