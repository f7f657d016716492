--------------------------- MODULE MCIngestPipeline ---------------------------
(* Instances of IngestPipeline for TLC.                                    *)
EXTENDS IngestPipeline

CONSTANTS i1, i2
=============================================================================
