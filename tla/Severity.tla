------------------------------ MODULE Severity ------------------------------
(***************************************************************************)
(* How grave a finding is: SEVERITY_RANK of analyzers/gate.py.             *)
(***************************************************************************)
EXTENDS Naturals

Severities == {"low", "medium", "high", "critical"}

SEVERITY_RANK == [low |-> 0, medium |-> 1, high |-> 2, critical |-> 3]
=============================================================================
