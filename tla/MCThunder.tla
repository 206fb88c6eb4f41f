----------------------------- MODULE MCThunder -----------------------------
(***************************************************************************)
(* The instance of scan for TLC.                                           *)
(***************************************************************************)
EXTENDS ThunderScan

CONSTANT MaxHash \* bound: the blocks that the node may have

FewHashes == 1..MaxHash
=============================================================================
