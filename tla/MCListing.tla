------------------------------ MODULE MCListing ------------------------------
(* Small instances of Listing for TLC.                                     *)
EXTENDS Listing, TLC

\* No definition names one of the files or of the sessions.
Symmetry == Permutations(Files) \cup Permutations(Writers)
==============================================================================
