----------------------------- MODULE MCUpgrade ------------------------------
(***************************************************************************)
(* Small instances of Upgrade: two ports and two processes; one public     *)
(* address, and one that may come up later; one connection.                *)
(***************************************************************************)
EXTENDS Upgrade

CONSTANTS p80, p443, a1, a2, g1, g2, k1

TwoPorts == <<p80, p443>>
=============================================================================
