----------------------------- MODULE MCChunking -----------------------------
(* Small instances of Chunking for TLC.                                    *)
EXTENDS Chunking
==============================================================================
