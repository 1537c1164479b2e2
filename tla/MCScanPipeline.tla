--------------------------- MODULE MCScanPipeline ---------------------------
(* ScanPipeline on small trees for TLC.                                    *)
EXTENDS ScanPipeline, TLC
=============================================================================
