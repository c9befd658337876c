----------------------------- MODULE MCAuditLog -----------------------------
(* Model values for checking AuditLog: threads are interchangeable. *)
EXTENDS AuditLog, TLC

Symmetry == Permutations(Thread)
=============================================================================
