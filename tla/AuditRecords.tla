---------------------------- MODULE AuditRecords ----------------------------
(***************************************************************************)
(* The data of the hash-chained audit log (mainager/guard/audit.py): what  *)
(* a record is, how AuditLog.record seals it and how AuditLog.verify walks *)
(* a chain.                                                                *)
(*                                                                         *)
(* `Details' stands for everything a caller writes into one record: the    *)
(* action, the outcome, the detail dictionary and the time stamp.  SHA-256 *)
(* over the canonical JSON is taken to be collision free: a hash is        *)
(* represented by everything it commits to, that is, the hash it extends   *)
(* followed by the sequence number and the details it was computed over.   *)
(***************************************************************************)
EXTENDS Naturals, Sequences

CONSTANT Details

Hashes == Seq(Nat \X Details)

GenesisHash == <<>>

\* A fault: the hash covers the position of a record but not its content.
ComputeHashWithoutDetail(sequence, previous, detail) ==
    Append(previous, <<sequence>>)

ComputeHash(sequence, previous, detail) ==
    Append(previous, <<sequence, detail>>)

AuditRecord == [sequence : Nat, detail : Details,
                previous_hash : Hashes, record_hash : Hashes]

(* A record as AuditLog.record builds it: sealed with its own hash.        *)
Sealed(sequence, previous, detail) ==
    [sequence      |-> sequence,
     detail        |-> detail,
     previous_hash |-> previous,
     record_hash   |-> ComputeHash(sequence, previous, detail)]

HashMatches(r) ==
    r.record_hash = ComputeHash(r.sequence, r.previous_hash, r.detail)

(* The hash the walk of AuditLog.verify expects record i to chain to.      *)
ExpectedPrevious(records, i) ==
    IF i = 1 THEN GenesisHash ELSE records[i - 1].record_hash

\* A fault: positions and hashes are walked, the links are not.
VerifyWithoutLinks(records) ==
    \A i \in 1 .. Len(records) :
        /\ records[i].sequence = i - 1
        /\ HashMatches(records[i])

(* The first element of what AuditLog.verify returns for sink.all().       *)
Verify(records) ==
    \A i \in 1 .. Len(records) :
        /\ records[i].sequence = i - 1
        /\ records[i].previous_hash = ExpectedPrevious(records, i)
        /\ HashMatches(records[i])
=============================================================================
