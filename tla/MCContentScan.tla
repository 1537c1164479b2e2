---------------------------- MODULE MCContentScan ----------------------------
(* Every file of up to three blocks.                                       *)
EXTENDS ContentScan

MCInitialFiles == UNION {[1 .. n -> Blocks] : n \in 0 .. 3}
=============================================================================
