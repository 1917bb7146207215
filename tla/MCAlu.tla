------------------------------- MODULE MCAlu -------------------------------
(***************************************************************************)
(* Alu on the bytes where nibbles and bytes carry, borrow or change sign.  *)
(***************************************************************************)
EXTENDS Alu

MCOperands == {0, 1, 15, 16, 127, 128, 240, 255}
MCStart == {<<0, 0>>, <<90, 160>>, <<255, 255>>}
=============================================================================
