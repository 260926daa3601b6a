------------------------------ MODULE MCAlertGate ------------------------------
(* Small instances of AlertGate for TLC. *)
EXTENDS AlertGate
================================================================================
