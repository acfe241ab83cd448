------------------------ MODULE MCSellerSpriteExport ------------------------
(* Instances of SellerSpriteExport for TLC. *)
EXTENDS SellerSpriteExport

CONSTANTS a1, a2, c1, f1, f2, f3
=============================================================================
