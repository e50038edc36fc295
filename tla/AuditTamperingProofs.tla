------------------------ MODULE AuditTamperingProofs -------------------------
(***************************************************************************)
(* What the audit log promises, for any details and any length: verify()   *)
(* accepts the log as it was written, and nothing that was edited in it or *)
(* taken out of it before its last record.                                 *)
(***************************************************************************)
EXTENDS AuditTampering, SequenceTheorems, TLAPS

-----------------------------------------------------------------------------
(* Hashes *)

(* A hash is none of the hashes it extends, and tells what it was computed *)
(* over.                                                                   *)
LEMMA HashTells ==
    ASSUME NEW m \in Nat, NEW g \in Hashes, NEW c \in Details,
           NEW n \in Nat, NEW h \in Hashes, NEW d \in Details
    PROVE  /\ ComputeHash(n, h, d) \in Hashes
           /\ ComputeHash(n, h, d) # h
           /\ ComputeHash(m, g, c) = ComputeHash(n, h, d) =>
                m = n /\ g = h /\ c = d
<1> DEFINE S == Nat \X Details
           x == <<m, c>>
           y == <<n, d>>
<1>1. x \in S /\ y \in S /\ g \in Seq(S) /\ h \in Seq(S)
  BY DEF Hashes
<1>2. x = y => m = n /\ c = d
  OBVIOUS
<1> HIDE DEF S, x, y
<1>3. /\ Append(h, y) \in Seq(S)
      /\ Len(Append(h, y)) = Len(h) + 1
      /\ Len(h) \in Nat
  BY <1>1, AppendProperties, LenProperties
<1>4. Append(h, y) # h
  BY <1>3
<1>5. Append(g, x) = Append(h, y) => g = h /\ x = y
  BY <1>1, AppendInjective
<1> QED BY <1>2, <1>3, <1>4, <1>5 DEF ComputeHash, Hashes, S, x, y

LEMMA SameHash ==
    \A n \in Nat : \A g, h \in Hashes : \A c, d \in Details :
        ComputeHash(n, g, c) = ComputeHash(n, h, d) => g = h /\ c = d
BY HashTells

(* A record that is sealed agrees with its hash, and is a record.          *)
LEMMA SealedIsRecord ==
    ASSUME NEW n \in Nat, NEW h \in Hashes, NEW d \in Details
    PROVE  /\ Sealed(n, h, d) \in AuditRecord
           /\ HashMatches(Sealed(n, h, d))
BY HashTells DEF Sealed, AuditRecord, HashMatches

(* What is indexed by 1 .. n has length n.                                 *)
LEMMA LengthOfFunction ==
    ASSUME NEW n \in Nat, NEW f, DOMAIN f = 1 .. n
    PROVE  Len(f) = n
OBVIOUS

-----------------------------------------------------------------------------
(* The log as it is written *)

ChainInv == chain \in Seq(AuditRecord) /\ Verify(chain)

LEMMA RecordKeepsChain ==
    ASSUME ChainInv, NEW d \in Details, Record(d)
    PROVE  ChainInv'
<1> DEFINE new == Sealed(Len(chain), LastHash, d)
<1>1. Len(chain) \in Nat
  BY LenProperties DEF ChainInv
<1>2. LastHash \in Hashes
  <2>1. CASE chain = <<>>
    BY <2>1, EmptySeq DEF LastHash, GenesisHash, Hashes
  <2>2. CASE chain # <<>>
    <3>1. Len(chain) \in 1 .. Len(chain)
      BY <1>1, <2>2, EmptySeq DEF ChainInv
    <3>2. chain[Len(chain)] \in AuditRecord
      BY <3>1, ElementOfSeq DEF ChainInv
    <3> QED BY <2>2, <3>2 DEF LastHash, AuditRecord
  <2> QED BY <2>1, <2>2
<1>3. new \in AuditRecord /\ HashMatches(new)
  BY <1>1, <1>2, SealedIsRecord
<1>4. new.sequence = Len(chain) /\ new.previous_hash = LastHash
  BY DEF Sealed
<1> HIDE DEF new
<1>5. /\ chain' \in Seq(AuditRecord)
      /\ Len(chain') = Len(chain) + 1
      /\ chain'[Len(chain) + 1] = new
      /\ \A i \in 1 .. Len(chain) : chain'[i] = chain[i]
  BY <1>3, AppendProperties DEF Record, ChainInv, new
<1>6. LastHash = IF Len(chain) = 0 THEN GenesisHash
                 ELSE chain[Len(chain)].record_hash
  BY EmptySeq DEF LastHash, ChainInv
<1>7. ASSUME NEW i \in 1 .. Len(chain')
      PROVE  /\ chain'[i].sequence = i - 1
             /\ chain'[i].previous_hash = ExpectedPrevious(chain', i)
             /\ HashMatches(chain'[i])
  <2>1. CASE i = Len(chain) + 1
    BY <1>1, <1>3, <1>4, <1>5, <1>6, <2>1 DEF ExpectedPrevious
  <2>2. CASE i \in 1 .. Len(chain)
    BY <1>1, <1>5, <2>2 DEF ExpectedPrevious, ChainInv, Verify
  <2> QED BY <1>1, <1>5, <2>1, <2>2
<1> QED BY <1>5, <1>7 DEF ChainInv, Verify

LEMMA ChainInvariant == Spec => []ChainInv
<1>1. Init => ChainInv
  BY EmptySeq DEF Init, ChainInv, Verify
<1>2. ChainInv /\ [Next]_chain => ChainInv'
  BY RecordKeepsChain DEF Next, ChainInv
<1> QED BY <1>1, <1>2, PTL DEF Spec

(* Nothing but record() writes to the log, and verify() accepts it.        *)
THEOREM VerifyAccepts == Spec => []Verify(chain)
<1>1. ChainInv => Verify(chain)
  BY DEF ChainInv
<1> QED BY <1>1, ChainInvariant, PTL

-----------------------------------------------------------------------------
(* The log tampered with *)

(* What is known of one record of the log.                                 *)
LEMMA RecordOfChain ==
    ASSUME ChainInv, NEW i \in 1 .. Len(chain)
    PROVE  /\ chain[i] \in AuditRecord
           /\ chain[i].sequence = i - 1
           /\ chain[i].previous_hash = ExpectedPrevious(chain, i)
           /\ chain[i].record_hash =
                ComputeHash(i - 1, chain[i].previous_hash, chain[i].detail)
           /\ Len(chain) \in Nat
           /\ i \in Nat /\ i - 1 \in Nat
<1>1. Len(chain) \in Nat
  BY LenProperties DEF ChainInv
<1>2. chain[i] \in AuditRecord
  BY ElementOfSeq DEF ChainInv
<1> QED BY <1>1, <1>2 DEF ChainInv, Verify, HashMatches

(* An edit leaves a record, with one field that is not what it was.        *)
LEMMA EditChangesAField ==
    ASSUME ChainInv, NEW i \in 1 .. Len(chain), NEW r \in Edited(chain[i])
    PROVE  /\ r \in AuditRecord
           /\ r.record_hash = chain[i].record_hash
           /\ \/ r.sequence # i - 1
              \/ /\ r.sequence = i - 1
                 /\ r.previous_hash # chain[i].previous_hash
              \/ /\ r.sequence = i - 1
                 /\ r.previous_hash = chain[i].previous_hash
                 /\ r.detail # chain[i].detail
<1>1. chain[i] \in AuditRecord /\ chain[i].sequence = i - 1
  BY RecordOfChain
<1>2. r # chain[i]
  BY DEF Edited
<1>3. CASE \E d \in Details : r = [chain[i] EXCEPT !.detail = d]
  BY <1>1, <1>2, <1>3 DEF AuditRecord
<1>4. CASE \E n \in 0 .. MaxRecords : r = [chain[i] EXCEPT !.sequence = n]
  BY <1>1, <1>2, <1>4 DEF AuditRecord
<1>5. CASE \E j \in 1 .. Len(chain) :
             r = [chain[i] EXCEPT !.previous_hash = chain[j].record_hash]
  <2>1. PICK j \in 1 .. Len(chain) :
          r = [chain[i] EXCEPT !.previous_hash = chain[j].record_hash]
    BY <1>5
  <2>2. chain[j].record_hash \in Hashes
    BY RecordOfChain DEF AuditRecord
  <2> QED BY <1>1, <1>2, <2>1, <2>2 DEF AuditRecord
<1> QED BY <1>3, <1>4, <1>5 DEF Edited

(* Record i is replaced by r.                                              *)
LEMMA Replaced ==
    ASSUME ChainInv, NEW i \in 1 .. Len(chain), NEW r \in AuditRecord
    PROVE  LET changed == [chain EXCEPT ![i] = r]
           IN  /\ Len(changed) = Len(chain)
               /\ changed[i] = r
               /\ \A j \in 1 .. Len(chain) : j # i => changed[j] = chain[j]
BY ExceptSeq DEF ChainInv

LEMMA EditIsFound == ChainInv => EditDetected
<1> SUFFICES ASSUME ChainInv, NEW i \in 1 .. Len(chain),
                    NEW r \in Edited(chain[i]),
                    Verify([chain EXCEPT ![i] = r])
             PROVE  FALSE
  BY DEF EditDetected
<1>1. r \in AuditRecord /\ r.record_hash = chain[i].record_hash
  BY EditChangesAField
<1>2. r.sequence = i - 1 /\ HashMatches(r)
  BY <1>1, Replaced DEF Verify
<1>3. /\ r.detail = chain[i].detail
      /\ r.previous_hash = chain[i].previous_hash
  <2>1. /\ chain[i] \in AuditRecord
        /\ i - 1 \in Nat
        /\ chain[i].record_hash =
             ComputeHash(i - 1, chain[i].previous_hash, chain[i].detail)
    BY RecordOfChain
  <2>2. r.record_hash = ComputeHash(i - 1, r.previous_hash, r.detail)
    BY <1>2 DEF HashMatches
  <2>3. /\ r.previous_hash \in Hashes /\ r.detail \in Details
        /\ chain[i].previous_hash \in Hashes /\ chain[i].detail \in Details
    BY <1>1, <2>1 DEF AuditRecord
  <2>4. ComputeHash(i - 1, r.previous_hash, r.detail) =
          ComputeHash(i - 1, chain[i].previous_hash, chain[i].detail)
    BY <1>1, <2>1, <2>2
  <2> QED BY <2>1, <2>3, <2>4, SameHash
<1> QED BY <1>2, <1>3, EditChangesAField

LEMMA ResealedEditIsFound == ChainInv => ResealedEditDetected
<1> SUFFICES ASSUME ChainInv, NEW i \in 1 .. Len(chain) - 1,
                    NEW r \in Edited(chain[i]),
                    Verify([chain EXCEPT ![i] = Resealed(r)])
             PROVE  FALSE
  BY DEF ResealedEditDetected
<1> DEFINE new == Resealed(r)
           changed == [chain EXCEPT ![i] = new]
<1>1. Len(chain) \in Nat /\ i \in 1 .. Len(chain) /\ i + 1 \in 1 .. Len(chain)
  BY LenProperties DEF ChainInv
<1>2. r \in AuditRecord
  BY <1>1, EditChangesAField
<1>3. /\ new \in AuditRecord
      /\ new.sequence = r.sequence
      /\ new.previous_hash = r.previous_hash
      /\ new.record_hash = ComputeHash(r.sequence, r.previous_hash, r.detail)
  BY <1>2, SealedIsRecord DEF Resealed, Sealed, AuditRecord
<1> HIDE DEF new
<1>4. /\ Len(changed) = Len(chain)
      /\ changed[i] = new
      /\ \A j \in 1 .. Len(chain) : j # i => changed[j] = chain[j]
  BY <1>1, <1>3, Replaced
<1>5. Verify(changed)
  BY DEF new
<1> HIDE DEF changed
<1>6. r.sequence = i - 1
  BY <1>1, <1>3, <1>4, <1>5 DEF Verify
<1>7. r.previous_hash = chain[i].previous_hash
  <2>1. new.previous_hash = ExpectedPrevious(changed, i)
    BY <1>1, <1>4, <1>5 DEF Verify
  <2>2. ExpectedPrevious(changed, i) = ExpectedPrevious(chain, i)
    BY <1>1, <1>4 DEF ExpectedPrevious
  <2> QED BY <1>1, <1>3, <2>1, <2>2, RecordOfChain
<1>8. new.record_hash = chain[i].record_hash
  <2>1. chain[i + 1].previous_hash = ExpectedPrevious(changed, i + 1)
    BY <1>1, <1>4, <1>5 DEF Verify
  <2>2. chain[i + 1].previous_hash = ExpectedPrevious(chain, i + 1)
    BY <1>1, RecordOfChain
  <2> QED BY <1>1, <1>4, <2>1, <2>2 DEF ExpectedPrevious
<1>9. r.detail = chain[i].detail
  <2>1. /\ chain[i] \in AuditRecord
        /\ i - 1 \in Nat
        /\ chain[i].record_hash =
             ComputeHash(i - 1, chain[i].previous_hash, chain[i].detail)
    BY <1>1, RecordOfChain
  <2> QED BY <1>2, <1>3, <1>6, <1>8, <2>1, HashTells DEF AuditRecord
<1> QED BY <1>1, <1>6, <1>7, <1>9, EditChangesAField

(* The records before the one taken out stand where they stood, those      *)
(* after it one place earlier.                                             *)
LEMMA WithoutOne ==
    ASSUME ChainInv, NEW i \in 1 .. Len(chain) - 1
    PROVE  /\ Len(Without(i)) = Len(chain) - 1
           /\ \A j \in 1 .. Len(chain) - 1 :
                Without(i)[j] = IF j < i THEN chain[j] ELSE chain[j + 1]
<1> DEFINE before == SubSeq(chain, 1, i - 1)
           after  == SubSeq(chain, i + 1, Len(chain))
<1>1. Len(chain) \in Nat /\ \A j \in 1 .. Len(chain) : chain[j] \in AuditRecord
  BY LenProperties, ElementOfSeq DEF ChainInv
<1>2. /\ before \in Seq(AuditRecord)
      /\ Len(before) = i - 1
      /\ \A j \in 1 .. i - 1 : before[j] = chain[j]
  <2>1. \A j \in 1 .. i - 1 : chain[j] \in AuditRecord
    BY <1>1
  <2>2. /\ before \in Seq(AuditRecord)
        /\ Len(before) = IF 1 <= i - 1 THEN (i - 1) - 1 + 1 ELSE 0
        /\ \A j \in 1 .. (i - 1) - 1 + 1 : before[j] = chain[1 + j - 1]
    BY <2>1, SubSeqProperties
  <2> QED BY <2>2
<1>3. /\ after \in Seq(AuditRecord)
      /\ Len(after) = Len(chain) - i
      /\ \A j \in 1 .. Len(chain) - i : after[j] = chain[i + j]
  <2>1. \A j \in i + 1 .. Len(chain) : chain[j] \in AuditRecord
    BY <1>1
  <2>2. /\ after \in Seq(AuditRecord)
        /\ Len(after) =
             IF i + 1 <= Len(chain) THEN Len(chain) - (i + 1) + 1 ELSE 0
        /\ \A j \in 1 .. Len(chain) - (i + 1) + 1 :
             after[j] = chain[(i + 1) + j - 1]
    BY <1>1, <2>1, SubSeqProperties
  <2> QED BY <1>1, <2>2
<1> HIDE DEF before, after
<1>4. /\ Len(before \o after) = Len(before) + Len(after)
      /\ \A j \in 1 .. Len(before) + Len(after) :
           (before \o after)[j] =
             IF j <= Len(before) THEN before[j] ELSE after[j - Len(before)]
  BY <1>2, <1>3, ConcatProperties
<1>5. Len(before \o after) = Len(chain) - 1
  BY <1>1, <1>2, <1>3, <1>4
<1>6. ASSUME NEW j \in 1 .. Len(chain) - 1
      PROVE  (before \o after)[j] = IF j < i THEN chain[j] ELSE chain[j + 1]
  <2>1. CASE j < i
    BY <1>1, <1>2, <1>3, <1>4, <2>1
  <2>2. CASE ~ j < i
    <3>1. (before \o after)[j] = after[j - (i - 1)]
      BY <1>1, <1>2, <1>3, <1>4, <2>2
    <3>2. j - (i - 1) \in 1 .. Len(chain) - i /\ i + (j - (i - 1)) = j + 1
      BY <1>1, <2>2
    <3> QED BY <1>3, <2>2, <3>1, <3>2
  <2> QED BY <2>1, <2>2
<1> QED BY <1>5, <1>6 DEF Without, before, after
(* A record taken out is missed by the record after it, whose number or,   *)
(* if numbers were closed up, whose link gives it away.                    *)
LEMMA RemovalIsFound == ChainInv => RemovalDetected
<1> SUFFICES ASSUME ChainInv, NEW i \in 1 .. Len(chain) - 1
             PROVE  LET closedUp == [j \in 1 .. Len(chain) - 1 |->
                          [Without(i)[j] EXCEPT !.sequence = j - 1]]
                    IN  /\ ~ Verify(Without(i))
                        /\ ~ Verify(closedUp)
                        /\ ~ Verify([j \in DOMAIN closedUp |->
                                       Resealed(closedUp[j])])
  BY DEF RemovalDetected
<1> DEFINE places   == 1 .. Len(chain) - 1
           closedUp == [j \in places |->
                          [Without(i)[j] EXCEPT !.sequence = j - 1]]
           resealed == [j \in DOMAIN closedUp |-> Resealed(closedUp[j])]
<1>1. Len(chain) \in Nat /\ i \in Nat /\ i + 1 \in 1 .. Len(chain)
  BY LenProperties DEF ChainInv
<1>2. \A j \in places :
        Without(i)[j] = IF j < i THEN chain[j] ELSE chain[j + 1]
  BY WithoutOne
<1>3. ~ Verify(Without(i))
  <2>1. Without(i)[i].sequence = i
    BY <1>1, <1>2, RecordOfChain
  <2> QED BY <1>1, <2>1, WithoutOne DEF Verify
(* Everything but its number is what it was in each record moved up.       *)
<1>4. ASSUME NEW j \in places
      PROVE  LET k == IF j < i THEN j ELSE j + 1
             IN  /\ closedUp[j].sequence = j - 1
                 /\ closedUp[j].previous_hash = chain[k].previous_hash
                 /\ closedUp[j].record_hash = chain[k].record_hash
                 /\ closedUp[j].detail = chain[k].detail
  <2> DEFINE k == IF j < i THEN j ELSE j + 1
  <2>1. k \in 1 .. Len(chain) /\ Without(i)[j] = chain[k]
    BY <1>1, <1>2
  <2>2. chain[k] \in AuditRecord
    BY <2>1, RecordOfChain
  <2> HIDE DEF k
  <2>3. closedUp[j] = [chain[k] EXCEPT !.sequence = j - 1]
    BY <2>1
  <2>4. /\ closedUp[j].sequence = j - 1
        /\ closedUp[j].previous_hash = chain[k].previous_hash
        /\ closedUp[j].record_hash = chain[k].record_hash
        /\ closedUp[j].detail = chain[k].detail
    BY <2>2, <2>3 DEF AuditRecord
  <2> QED BY <2>4 DEF k
<1>5. DOMAIN closedUp = places /\ DOMAIN resealed = places
  OBVIOUS
<1>6. Len(closedUp) = Len(chain) - 1 /\ Len(resealed) = Len(chain) - 1
  BY <1>1, LengthOfFunction
(* The record now at place i links to the one taken out.                   *)
<1>7. ASSUME NEW records, Len(records) = Len(chain) - 1,
             records[i].previous_hash = chain[i].record_hash,
             i > 1 => records[i - 1].record_hash = chain[i - 1].record_hash
      PROVE  ~ Verify(records)
  <2>1. /\ chain[i].record_hash # chain[i].previous_hash
        /\ chain[i].previous_hash = ExpectedPrevious(chain, i)
    BY <1>1, RecordOfChain, HashTells DEF AuditRecord
  <2>2. ExpectedPrevious(records, i) = ExpectedPrevious(chain, i)
    BY <1>1, <1>7 DEF ExpectedPrevious
  <2>3. i \in 1 .. Len(records)
    BY <1>1, <1>7
  <2> QED BY <1>7, <2>1, <2>2, <2>3 DEF Verify
<1>8. chain[i + 1].previous_hash = chain[i].record_hash
  BY <1>1, RecordOfChain DEF ExpectedPrevious
<1> HIDE DEF closedUp
<1>9. ~ Verify(closedUp)
  <2>1. closedUp[i].previous_hash = chain[i].record_hash
    BY <1>1, <1>4, <1>8
  <2>2. i > 1 => closedUp[i - 1].record_hash = chain[i - 1].record_hash
    BY <1>1, <1>4
  <2> QED BY <1>6, <1>7, <2>1, <2>2
<1>10. ~ Verify(resealed)
  <2>1. resealed[i].previous_hash = chain[i].record_hash
    BY <1>1, <1>4, <1>5, <1>8 DEF Resealed, Sealed
  <2>2. ASSUME i > 1
        PROVE  resealed[i - 1].record_hash = chain[i - 1].record_hash
    <3>1. i - 1 \in places /\ i - 1 < i
      BY <1>1, <2>2
    <3>2. resealed[i - 1].record_hash =
            ComputeHash(i - 1 - 1, chain[i - 1].previous_hash,
                        chain[i - 1].detail)
      BY <1>4, <1>5, <3>1 DEF Resealed, Sealed
    <3> QED BY <1>1, <3>1, <3>2, RecordOfChain
  <2> HIDE DEF resealed
  <2> QED BY <1>6, <1>7, <2>1, <2>2
<1> QED BY <1>3, <1>9, <1>10 DEF closedUp

(* Whoever edits a record in place, with or without its hash, or takes one *)
(* out that is not the last, is found out by verify(), however long the    *)
(* log is and wherever the record stands (audit.py:98-110).                *)
THEOREM TamperingIsFound == Spec => []TamperingDetected
<1>1. ChainInv => TamperingDetected
  BY EditIsFound, ResealedEditIsFound, RemovalIsFound DEF TamperingDetected
<1> QED BY <1>1, ChainInvariant, PTL
=============================================================================
