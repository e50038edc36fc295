----------------------------- MODULE AuditChain -----------------------------
(***************************************************************************)
(* What the audit log promises: one chain, extended at its end, one record *)
(* at a time.  It is AuditLog over MemoryAuditSink, whose coroutines never *)
(* suspend, so that last(), the sealing of the record and append() are one *)
(* step.  PostgresAudit, where they are not, is proved to implement it.    *)
(***************************************************************************)
EXTENDS AuditRecords

CONSTANT MaxRecords   \* a natural number, bounds the length of the chain

VARIABLE chain

(* What MemoryAuditSink.last() leaves for the next record to chain to.     *)
LastHash == IF chain = <<>> THEN GenesisHash ELSE chain[Len(chain)].record_hash

Init == chain = <<>>

Record(d) ==
    /\ Len(chain) < MaxRecords
    /\ chain' = Append(chain, Sealed(Len(chain), LastHash, d))

Next == \E d \in Details : Record(d)

Spec == Init /\ [][Next]_chain
=============================================================================
