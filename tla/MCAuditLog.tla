---------------------------- MODULE MCAuditLog ----------------------------
(* AuditLog on small instances; the writers are interchangeable.           *)
EXTENDS AuditLog, TLC

WriterSymmetry == Permutations(Writers)
=============================================================================
