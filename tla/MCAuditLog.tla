----------------------------- MODULE MCAuditLog -----------------------------
(* TLC instances of AuditLog: one process, two or three records.           *)
EXTENDS AuditLog

CONSTANTS m1, m2, m3, t1, q
MCQueueOf == [m \in Messages |-> q]
MCPolls   == [t \in Tasks |-> q]
=============================================================================
