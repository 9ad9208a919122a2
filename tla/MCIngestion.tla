----------------------------- MODULE MCIngestion -----------------------------
(* Small instances of Ingestion for TLC.                                   *)
EXTENDS Ingestion, TLC

\* Files and runs are interchangeable: no definition names one of them.
Symmetry == Permutations(Files) \cup Permutations(Runs)
==============================================================================
