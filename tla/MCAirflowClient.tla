--------------------------- MODULE MCAirflowClient ---------------------------
(* Small instances of AirflowClient for TLC.                               *)
EXTENDS AirflowClient
==============================================================================
