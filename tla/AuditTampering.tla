--------------------------- MODULE AuditTampering ---------------------------
(***************************************************************************)
(* What AuditLog.verify finds out about a log that someone with access to  *)
(* the sink has tampered with.                                             *)
(***************************************************************************)
EXTENDS AuditChain

(* One record with one field changed, its own hash left as it was.         *)
Edited(r) ==
    ({[r EXCEPT !.detail = d] : d \in Details}
       \cup {[r EXCEPT !.sequence = n] : n \in 0 .. MaxRecords}
       \cup {[r EXCEPT !.previous_hash = chain[i].record_hash] :
               i \in 1 .. Len(chain)}) \ {r}

(* The same, the hash recomputed so that the record agrees with itself.    *)
Resealed(r) == Sealed(r.sequence, r.previous_hash, r.detail)

Without(i) ==
    SubSeq(chain, 1, i - 1) \o SubSeq(chain, i + 1, Len(chain))

-----------------------------------------------------------------------------
(* A record whose content, position or link was changed in place is found, *)
(* wherever it stands (audit.py:107, MemoryAuditSink.tamper).              *)
EditDetected ==
    \A i \in 1 .. Len(chain) : \A r \in Edited(chain[i]) :
        ~ Verify([chain EXCEPT ![i] = r])

(* Recomputing the hash of the changed record does not help: the next      *)
(* record no longer chains to it.  The last record has no next one, so     *)
(* nothing is promised about it (audit.py:3-8, "every hash downstream").   *)
ResealedEditDetected ==
    \A i \in 1 .. Len(chain) - 1 : \A r \in Edited(chain[i]) :
        ~ Verify([chain EXCEPT ![i] = Resealed(r)])

(* A record taken out is missed, even if the sequence numbers after it are *)
(* closed up, unless it was the last one (audit.py:3-8, 103-106).          *)
RemovalDetected ==
    \A i \in 1 .. Len(chain) - 1 :
        LET closedUp == [j \in 1 .. Len(chain) - 1 |->
                           [Without(i)[j] EXCEPT !.sequence = j - 1]]
        IN  /\ ~ Verify(Without(i))
            /\ ~ Verify(closedUp)
            /\ ~ Verify([j \in DOMAIN closedUp |-> Resealed(closedUp[j])])

(* Whatever one access to the sink changes or takes out, short of the last *)
(* record, AuditLog.verify (audit.py:98-110) finds out.                    *)
TamperingDetected == EditDetected /\ ResealedEditDetected /\ RemovalDetected
=============================================================================
