---------------------------- MODULE MCSellerPayout ----------------------------
(***************************************************************************)
(* Two sales of one seller: one is paid out by a transfer, the other is    *)
(* retained by the treasury.  Prices and fees no sums of which collide.    *)
(***************************************************************************)
EXTENDS SellerPayout, TLC

CONSTANTS s1, s2

TwoPrices == s1 :> 40 @@ s2 :> 70
=============================================================================
