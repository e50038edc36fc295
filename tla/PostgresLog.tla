----------------------------- MODULE PostgresLog -----------------------------
(***************************************************************************)
(* The table of PostgresAudit read as the log it stands for: the rows as   *)
(* PostgresAuditSink.all() returns them, the walk of AuditLog.verify over  *)
(* them, and the abstract log that the table implements.                   *)
(***************************************************************************)
EXTENDS PostgresAudit, FiniteSets

(* sink.all(): the rows ordered by sequence.                               *)
AllRecords(table) ==
    LET places == 1 .. Cardinality(table)
    IN  CHOOSE records \in [places -> table] :
          \A i, j \in places : i < j =>
            /\ records[i] # records[j]
            /\ records[i].sequence <= records[j].sequence

-----------------------------------------------------------------------------
(* The relational reading of the chain used in ChainIntact says the same   *)
(* of a table as the walk of AuditLog.verify does (audit.py:96-111), also  *)
(* of the broken tables that tasks sharing a connection produce.           *)
VerifyAgrees == Verify(AllRecords(rows)) <=> ChainIntact

Log == INSTANCE AuditTampering WITH chain <- AllRecords(rows)

(* Workers with connections of their own implement the abstract log: the   *)
(* table changes by one record at a time, sealed on the one before it, and *)
(* by nothing else (AuditLog.record, audit.py:63-94).                      *)
ImplementsAuditChain == Log!Spec

(* verify() finds out about a record of the table that was edited in place,*)
(* with or without its hash recomputed, or taken out, before the last      *)
(* (audit.py:3-8, 96-111).                                                 *)
TamperingDetected == Log!TamperingDetected
=============================================================================
