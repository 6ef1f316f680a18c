---------------------------- MODULE MCPinService ----------------------------
(***************************************************************************)
(* PinService on a small instance.                                         *)
(***************************************************************************)
EXTENDS PinService, TLC

(* PUK values are interchangeable: no action or property names one. *)
PukSymmetry == Permutations(Puks)
=============================================================================
