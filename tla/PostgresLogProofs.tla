-------------------------- MODULE PostgresLogProofs --------------------------
(***************************************************************************)
(* Theorems about PostgresAudit and about the log its table stands for,    *)
(* for any tasks, connections and details.                                 *)
(*                                                                         *)
(* TypeCorrect and NeverForks hold however the tasks share connections and *)
(* follow from TableInv.  ChainStaysIntact and ReturnedStaysDurable need   *)
(* ExclusiveConnections and follow from TableInv and ExclusiveInv.         *)
(*                                                                         *)
(* With a connection for every task the table, read in the order of its    *)
(* sequence numbers, is the abstract log of AuditChain.  A chained table   *)
(* numbers its rows from 0 without a gap (Contiguous), so that reading it  *)
(* in order puts row i - 1 in place i (RowsInOrder).  What a COMMIT adds   *)
(* is then the next record of the log (LogExtends).                        *)
(***************************************************************************)
EXTENDS PostgresLog, SumProofs, SequenceTheorems

-----------------------------------------------------------------------------
(* Lemmas about the data *)

(* A non-empty bounded table has a last row: the one whose distance to the *)
(* bound is least (PostgresAuditSink.last).                                *)
LEMMA LastRowExists ==
    ASSUME NEW table \in SUBSET AuditRecord, table # {},
           \A r \in table : r.sequence < MaxRecords
    PROVE  LastRow(table) \in table
<1> DEFINE distance(r) == MaxRecords - r.sequence
           D == {distance(r) : r \in table}
<1>1. D \in SUBSET Nat /\ D # {}
  BY RecordBoundAssumption DEF AuditRecord
<1>2. PICK n \in D : \A m \in D : n <= m
  BY <1>1, LeastOf, Zenon
<1>3. PICK r \in table : n = distance(r)
  OBVIOUS
<1>4. \A s \in table : distance(r) <= distance(s)
  BY <1>2, <1>3
<1>5. \A s \in table : s.sequence <= r.sequence
  BY <1>4, RecordBoundAssumption DEF AuditRecord
<1> QED BY <1>5 DEF LastRow

(* A sealed record is a record that agrees with its own hash.              *)
LEMMA SealedProperties ==
    ASSUME NEW n \in Nat, NEW h \in Hashes, NEW d \in Details
    PROVE  /\ Sealed(n, h, d) \in AuditRecord
           /\ Sealed(n, h, d).sequence = n
           /\ Sealed(n, h, d).previous_hash = h
           /\ HashMatches(Sealed(n, h, d))
<1>1. Append(h, <<n, d>>) \in Hashes
  BY AppendProperties DEF Hashes
<1> QED BY <1>1 DEF Sealed, AuditRecord, HashMatches, ComputeHash

(* What record() seals is well sealed, and chains to the table it read.    *)
LEMMA NextRecordProperties ==
    ASSUME NEW table \in SUBSET AuditRecord, NEW d \in Details,
           \A r \in table : WellSealed(r),
           NextRecord(table, d).sequence < MaxRecords
    PROVE  /\ NextRecord(table, d) \in AuditRecord
           /\ WellSealed(NextRecord(table, d))
           /\ Links(NextRecord(table, d), table)
<1>1. CASE table = {}
  <2>1. NextRecord(table, d) = Sealed(0, GenesisHash, d)
    BY <1>1 DEF NextRecord
  <2>2. GenesisHash \in Hashes
    BY EmptySeq DEF GenesisHash, Hashes
  <2>3. /\ NextRecord(table, d) \in AuditRecord
        /\ NextRecord(table, d).sequence = 0
        /\ NextRecord(table, d).previous_hash = GenesisHash
        /\ HashMatches(NextRecord(table, d))
    BY <2>1, <2>2, SealedProperties
  <2> QED BY <2>3 DEF WellSealed, Links
<1>2. CASE table # {}
  <2> DEFINE last == LastRow(table)
  <2>1. last \in table
    BY <1>2, LastRowExists DEF WellSealed
  <2>2. /\ last.sequence \in Nat
        /\ last.previous_hash \in Hashes
        /\ last.record_hash \in Hashes
        /\ last.detail \in Details
    BY <2>1 DEF AuditRecord
  <2> HIDE DEF last
  <2>3. NextRecord(table, d) = Sealed(last.sequence + 1, last.record_hash, d)
    BY <1>2 DEF NextRecord, last
  <2>4. last.record_hash
          = Append(last.previous_hash, <<last.sequence, last.detail>>)
    BY <2>1 DEF WellSealed, HashMatches, ComputeHash
  <2>5. /\ last.record_hash # GenesisHash
        /\ last.record_hash[Len(last.record_hash)][1] = last.sequence
    <3>1. <<last.sequence, last.detail>> \in Nat \X Details
      BY <2>2
    <3> DEFINE entry == <<last.sequence, last.detail>>
               h     == last.previous_hash
    <3> HIDE DEF entry, h
    <3>2. h \in Seq(Nat \X Details) /\ entry \in Nat \X Details
      BY <2>2, <3>1 DEF Hashes, entry, h
    <3>3. /\ Append(h, entry) # << >>
          /\ Append(h, entry)[Len(h) + 1] = entry
          /\ Len(Append(h, entry)) = Len(h) + 1
      BY <3>2, AppendProperties
    <3>4. last.record_hash = Append(h, entry)
      BY <2>4 DEF entry, h
    <3>5. entry[1] = last.sequence
      BY DEF entry
    <3> QED BY <3>3, <3>4, <3>5 DEF GenesisHash
  <2>6. WellSealed(NextRecord(table, d))
    <3> DEFINE new == NextRecord(table, d)
    <3>1. /\ new.sequence = last.sequence + 1
          /\ new.previous_hash = last.record_hash
          /\ HashMatches(new)
      BY <2>2, <2>3, SealedProperties
    <3>2. new.sequence < MaxRecords
      BY <1>2
    <3>3. new.sequence # 0 /\ new.sequence - 1 = last.sequence
      BY <2>2, <3>1
    <3>4. /\ new.previous_hash # GenesisHash
          /\ new.previous_hash[Len(new.previous_hash)][1] = new.sequence - 1
      BY ONLY <2>5, <3>1, <3>3
    <3> QED
      BY ONLY <3>1, <3>2, <3>3, <3>4, Zenon DEF WellSealed
  <2>7. Links(NextRecord(table, d), table)
    BY <2>1, <2>2, <2>3, SealedProperties DEF Links
  <2> QED BY <2>2, <2>3, <2>6, <2>7, SealedProperties
<1> QED BY <1>1, <1>2

-----------------------------------------------------------------------------
(* What holds however the tasks share connections *)

LEMMA InitTableInv == Init => TableInv
BY DEF Init, TableInv, TypeOK, PCs, Results, NoDraft, AllRows, OneRowPerSequence

(* A step that leaves no row behind in AllRows, and no draft that was not  *)
(* there before, keeps what TableInv says of the records.                  *)
LEMMA FewerRows ==
    ASSUME TableInv, TypeOK', AllRows' \subseteq AllRows,
           \A t \in Tasks : pc'[t] # "idle" =>
                              pc[t] # "idle" /\ draft'[t] = draft[t]
    PROVE  TableInv'
<1>1. OneRowPerSequence(AllRows')
  BY DEF TableInv, OneRowPerSequence
<1>2. \A r \in AllRows' : WellSealed(r)
  BY DEF TableInv
<1>3. \A t \in Tasks : pc'[t] # "idle" => WellSealed(draft'[t])
  BY DEF TableInv
<1> QED BY <1>1, <1>2, <1>3 DEF TableInv

LEMMA ReadLastTableInv ==
    ASSUME TableInv, NEW t \in Tasks, NEW d \in Details, ReadLast(t, d)
    PROVE  TableInv'
<1> DEFINE c    == ConnOf[t]
           next == NextRecord(Visible(c), d)
<1>1. c \in Connections
  BY ConnOfAssumption
<1>2. Visible(c) \subseteq AuditRecord /\ Visible(c) \subseteq AllRows
  BY <1>1 DEF TableInv, TypeOK, Visible, AllRows
<1>3. next.sequence < MaxRecords
  BY DEF ReadLast
<1>4. next \in AuditRecord /\ WellSealed(next)
  BY <1>2, <1>3, NextRecordProperties DEF TableInv
<1> HIDE DEF next
<1>5. /\ pc' = [pc EXCEPT ![t] = "insert"]
      /\ draft' = [draft EXCEPT ![t] = next]
      /\ result' = [result EXCEPT ![t] = "none"]
      /\ UNCHANGED <<rows, pending, aborted, returned>>
  BY DEF ReadLast, next
<1>6. TypeOK'
  BY <1>4, <1>5 DEF TableInv, TypeOK, PCs, Results
<1>7. AllRows' = AllRows
  BY <1>5 DEF AllRows
<1>8. \A u \in Tasks : pc'[u] # "idle" => WellSealed(draft'[u])
  BY <1>4, <1>5 DEF TableInv, TypeOK
<1> QED BY <1>6, <1>7, <1>8 DEF TableInv

LEMMA InsertTableInv ==
    ASSUME TableInv, NEW t \in Tasks, Insert(t)
    PROVE  TableInv'
<1> DEFINE c == ConnOf[t]
<1>1. c \in Connections
  BY ConnOfAssumption
<1>2. /\ pc[t] = "insert"
      /\ draft[t].sequence \notin Sequences(Visible(c))
      /\ draft[t].sequence \notin Sequences(UncommittedElsewhere(c))
      /\ pending' = [pending EXCEPT ![c] = @ \cup {draft[t]}]
      /\ pc' = [pc EXCEPT ![t] = "commit"]
      /\ UNCHANGED <<rows, aborted, draft, result, returned>>
  BY DEF Insert
<1>3. draft[t] \in AuditRecord /\ WellSealed(draft[t])
  BY <1>2 DEF TableInv, TypeOK
<1>4. TypeOK'
  BY <1>1, <1>2, <1>3 DEF TableInv, TypeOK, PCs, Results
<1>5. AllRows' = AllRows \cup {draft[t]}
  BY <1>1, <1>2 DEF TableInv, TypeOK, AllRows
<1>6. AllRows = Visible(c) \cup UncommittedElsewhere(c)
  BY <1>1 DEF AllRows, Visible, UncommittedElsewhere
<1>7. \A r \in AllRows : r.sequence # draft[t].sequence
  BY <1>2, <1>6 DEF Sequences
<1>8. OneRowPerSequence(AllRows')
  BY <1>5, <1>7 DEF TableInv, OneRowPerSequence
<1>9. \A u \in Tasks : pc'[u] # "idle" => WellSealed(draft'[u])
  BY <1>2 DEF TableInv, TypeOK
<1> QED BY <1>3, <1>4, <1>5, <1>8, <1>9 DEF TableInv

LEMMA RefusedTableInv ==
    ASSUME TableInv, NEW t \in Tasks,
           ReadLastFails(t) \/ InsertFails(t)
    PROVE  TableInv'
<1>1. /\ Finish(t, "aborted_transaction")
      /\ UNCHANGED <<rows, pending, aborted, returned>>
  BY DEF ReadLastFails, InsertFails
<1>2. TypeOK'
  BY <1>1 DEF TableInv, TypeOK, Finish, PCs, Results
<1>3. AllRows' = AllRows
  BY <1>1 DEF AllRows
<1> QED BY <1>1, <1>2, <1>3, FewerRows DEF Finish, TableInv, TypeOK

LEMMA InsertDuplicateTableInv ==
    ASSUME TableInv, NEW t \in Tasks, InsertDuplicate(t)
    PROVE  TableInv'
<1> DEFINE c == ConnOf[t]
<1>1. c \in Connections
  BY ConnOfAssumption
<1>2. /\ Finish(t, "unique_violation")
      /\ aborted' = [aborted EXCEPT ![c] = TRUE]
      /\ pending' = [pending EXCEPT ![c] = {}]
      /\ UNCHANGED <<rows, returned>>
  BY DEF InsertDuplicate
<1>3. TypeOK'
  BY <1>1, <1>2 DEF TableInv, TypeOK, Finish, PCs, Results
<1>4. AllRows' \subseteq AllRows
  BY <1>1, <1>2 DEF TableInv, TypeOK, AllRows
<1> QED BY <1>2, <1>3, <1>4, FewerRows DEF Finish, TableInv, TypeOK

LEMMA CommitTableInv ==
    ASSUME TableInv, NEW t \in Tasks, Commit(t)
    PROVE  TableInv'
<1> DEFINE c == ConnOf[t]
<1>1. c \in Connections
  BY ConnOfAssumption
<1>2. /\ pc[t] = "commit"
      /\ rows' = rows \/ rows' = rows \cup pending[c]
      /\ pending' = [pending EXCEPT ![c] = {}]
      /\ aborted' = [aborted EXCEPT ![c] = FALSE]
      /\ returned' = returned \cup {draft[t]}
      /\ Finish(t, "recorded")
  BY DEF Commit
<1>3. TypeOK'
  <2>1. rows' \subseteq AuditRecord
    BY <1>1, <1>2 DEF TableInv, TypeOK
  <2>2. returned' \subseteq AuditRecord
    BY <1>2 DEF TableInv, TypeOK
  <2> QED BY <1>1, <1>2, <2>1, <2>2
          DEF TableInv, TypeOK, Finish, PCs, Results
<1>4. AllRows' \subseteq AllRows
  BY <1>1, <1>2 DEF TableInv, TypeOK, AllRows
<1> QED BY <1>2, <1>3, <1>4, FewerRows DEF Finish, TableInv, TypeOK

LEMMA CrashTableInv ==
    ASSUME TableInv, NEW c \in Connections, Crash(c)
    PROVE  TableInv'
<1>1. rows' = rows \/ rows' = rows \cup pending[c]
  BY DEF Crash
<1>2. TypeOK'
  BY <1>1 DEF Crash, TableInv, TypeOK, PCs, Results
<1>3. AllRows' \subseteq AllRows
  BY <1>1 DEF Crash, TableInv, TypeOK, AllRows
<1> QED BY <1>2, <1>3, FewerRows DEF Crash, TableInv, TypeOK

LEMMA NextTableInv ==
    ASSUME TableInv, [Next]_vars
    PROVE  TableInv'
<1>1. CASE UNCHANGED vars
  <2>1. AllRows' = AllRows
    BY <1>1 DEF vars, AllRows
  <2>2. TypeOK'
    BY <1>1 DEF vars, TableInv, TypeOK
  <2> QED BY <1>1, <2>1, <2>2, FewerRows DEF vars
<1>2. ASSUME NEW t \in Tasks, Step(t)
      PROVE  TableInv'
  BY <1>2, ReadLastTableInv, RefusedTableInv, InsertTableInv,
     InsertDuplicateTableInv, CommitTableInv DEF Step
<1>3. ASSUME NEW c \in Connections, Crash(c)
      PROVE  TableInv'
  BY <1>3, CrashTableInv
<1> QED BY <1>1, <1>2, <1>3 DEF Next

LEMMA TableInvariant == Spec => []TableInv
<1>1. Init => TableInv
  BY InitTableInv
<1>2. TableInv /\ [Next]_vars => TableInv'
  BY NextTableInv
<1> QED BY <1>1, <1>2, PTL DEF Spec

(* Every variable keeps its type, in particular what record() seals and    *)
(* returns is always a record sealed on a row of the table, whatever       *)
(* transaction it was read in (audit.py:63-94).                            *)
THEOREM TypeCorrect == Spec => []TypeOK
<1>1. TableInv => TypeOK
  BY DEF TableInv
<1> QED BY <1>1, TableInvariant, PTL

(* No two committed rows ever chain to the same hash: whichever tasks      *)
(* share connections, and wherever processes crash, the primary key keeps  *)
(* the log from forking (postgres.py:3-7).                                 *)
THEOREM NeverForks == Spec => []NoFork
<1>1. ASSUME TableInv
      PROVE  NoFork
  <2> SUFFICES ASSUME NEW r \in rows, NEW s \in rows,
                      r.previous_hash = s.previous_hash
               PROVE  r = s
    BY DEF NoFork
  <2>1. r \in AllRows /\ s \in AllRows
    BY DEF AllRows
  <2>2. WellSealed(r) /\ WellSealed(s)
    BY <1>1, <2>1 DEF TableInv
  <2>3. r.sequence \in Nat /\ s.sequence \in Nat
    BY <1>1 DEF TableInv, TypeOK, AuditRecord
  <2>4. r.sequence = s.sequence
    BY <2>2, <2>3 DEF WellSealed
  <2> QED BY <1>1, <2>1, <2>4 DEF TableInv, OneRowPerSequence
<1> QED BY <1>1, TableInvariant, PTL

-----------------------------------------------------------------------------
(* What holds when no two tasks share a connection *)

Inv == TableInv /\ ExclusiveInv

LEMMA InitExclusiveInv == Init => ExclusiveInv
BY DEF Init, ExclusiveInv, ChainIntact, Chained, OneRowPerSequence,
       ReturnedDurable

(* More rows never unlink a record.                                        *)
LEMMA LinksGrow ==
    ASSUME NEW S, NEW T, S \subseteq T, NEW r, Links(r, S)
    PROVE  Links(r, T)
BY DEF Links

(* A well sealed record with a free number that links to a chain extends   *)
(* it.                                                                     *)
LEMMA ChainExtends ==
    ASSUME NEW S, NEW r, Chained(S), Links(r, S), HashMatches(r),
           r.sequence \notin Sequences(S)
    PROVE  Chained(S \cup {r})
<1>1. OneRowPerSequence(S \cup {r})
  BY DEF Chained, OneRowPerSequence, Sequences
<1>2. \A s \in S \cup {r} : Links(s, S \cup {r})
  BY LinksGrow DEF Chained
<1> QED BY <1>1, <1>2 DEF Chained

(* The transaction of an idle task's own connection is empty.              *)
LEMMA IdleConnectionEmpty ==
    ASSUME ExclusiveConnections, ExclusiveInv,
           NEW t \in Tasks, pc[t] # "commit"
    PROVE  pending[ConnOf[t]] = {}
BY ConnOfAssumption DEF ExclusiveConnections, ExclusiveInv, TasksOn

LEMMA ReadLastExclusiveInv ==
    ASSUME ExclusiveConnections, Inv,
           NEW t \in Tasks, NEW d \in Details, ReadLast(t, d)
    PROVE  ExclusiveInv'
<1> DEFINE next == NextRecord(Visible(ConnOf[t]), d)
<1>1. pc[t] = "idle" /\ next.sequence < MaxRecords
  BY DEF ReadLast
<1>2. Visible(ConnOf[t]) = rows
  BY <1>1, IdleConnectionEmpty DEF Inv, Visible
<1>3. rows \in SUBSET AuditRecord /\ \A r \in rows : WellSealed(r)
  BY DEF Inv, TableInv, TypeOK, AllRows
<1>4. Links(next, rows)
  BY <1>1, <1>2, <1>3, NextRecordProperties
<1> HIDE DEF next
<1>5. /\ pc' = [pc EXCEPT ![t] = "insert"]
      /\ draft' = [draft EXCEPT ![t] = next]
      /\ UNCHANGED <<rows, pending, aborted, returned>>
  BY DEF ReadLast, next
<1>6. pc \in [Tasks -> PCs] /\ draft = [u \in Tasks |-> draft[u]]
  BY DEF Inv, TableInv, TypeOK
<1>7. ChainIntact' /\ ReturnedDurable'
  BY <1>5 DEF Inv, ExclusiveInv, ChainIntact, ReturnedDurable
<1>8. \A u \in Tasks : pc'[u] # "idle" => Links(draft'[u], rows')
  BY <1>4, <1>5, <1>6 DEF Inv, ExclusiveInv
<1>9. \A u \in Tasks : pc'[u] = "commit" =>
        pc[u] = "commit" /\ draft'[u] = draft[u]
  BY <1>5, <1>6
<1>10. \A u \in Tasks : pc[u] = "commit" => pc'[u] = "commit"
  BY <1>1, <1>5, <1>6
<1> QED BY <1>5, <1>7, <1>8, <1>9, <1>10 DEF Inv, ExclusiveInv, TasksOn

LEMMA InsertExclusiveInv ==
    ASSUME ExclusiveConnections, Inv, NEW t \in Tasks, Insert(t)
    PROVE  ExclusiveInv'
<1> DEFINE c == ConnOf[t]
<1>1. c \in Connections /\ \A u \in Tasks : ConnOf[u] \in Connections
  BY ConnOfAssumption
<1>2. /\ pc[t] = "insert"
      /\ ~ aborted[c]
      /\ draft[t].sequence \notin Sequences(Visible(c))
      /\ draft[t].sequence \notin Sequences(UncommittedElsewhere(c))
      /\ pending' = [pending EXCEPT ![c] = @ \cup {draft[t]}]
      /\ pc' = [pc EXCEPT ![t] = "commit"]
      /\ UNCHANGED <<rows, aborted, draft, returned>>
  BY DEF Insert
<1>3. pc \in [Tasks -> PCs] /\ pending \in [Connections -> SUBSET AuditRecord]
  BY DEF Inv, TableInv, TypeOK
<1>4. pending'[c] = {draft[t]}
  BY <1>1, <1>2, <1>3, IdleConnectionEmpty DEF Inv
<1>5. \A u \in Tasks : u # t => ConnOf[u] # c
  BY DEF ExclusiveConnections
<1>6. draft[t].sequence \notin Sequences(rows)
  BY <1>2 DEF Visible, Sequences
<1>7. \A u \in Tasks : pc'[u] = "commit" =>
        /\ ~ aborted'[ConnOf[u]]
        /\ pending'[ConnOf[u]] = {draft'[u]}
        /\ draft'[u].sequence \notin Sequences(rows')
  BY <1>1, <1>2, <1>3, <1>4, <1>5, <1>6 DEF Inv, ExclusiveInv
<1>8. ASSUME NEW u \in Tasks, u # t, pc[u] = "commit"
      PROVE  draft[u].sequence # draft[t].sequence
  <2>1. draft[u] \in UncommittedElsewhere(c)
    BY <1>1, <1>5, <1>8 DEF Inv, ExclusiveInv, UncommittedElsewhere
  <2> QED BY <1>2, <2>1 DEF Sequences
<1>9. \A u, v \in Tasks :
        /\ pc'[u] = "commit"
        /\ pc'[v] = "commit"
        /\ draft'[u].sequence = draft'[v].sequence
        => u = v
  BY <1>2, <1>3, <1>8 DEF Inv, ExclusiveInv
<1>10. \A o \in Connections : pending'[o] # {} =>
         \E u \in TasksOn(o) : pc'[u] = "commit"
  BY <1>1, <1>2, <1>3 DEF Inv, ExclusiveInv, TasksOn
<1>11. ChainIntact' /\ ReturnedDurable'
  BY <1>2 DEF Inv, ExclusiveInv, ChainIntact, ReturnedDurable
<1>12. \A u \in Tasks : pc'[u] # "idle" => Links(draft'[u], rows')
  BY <1>2, <1>3 DEF Inv, ExclusiveInv
<1> QED BY <1>7, <1>9, <1>10, <1>11, <1>12 DEF ExclusiveInv

(* An exception ends record() and may fail the connection's transaction.   *)
LEMMA FailureExclusiveInv ==
    ASSUME ExclusiveConnections, Inv, NEW t \in Tasks,
           ReadLastFails(t) \/ InsertFails(t) \/ InsertDuplicate(t)
    PROVE  ExclusiveInv'
<1> DEFINE c == ConnOf[t]
<1>1. c \in Connections /\ \A u \in Tasks : ConnOf[u] \in Connections
  BY ConnOfAssumption
<1>2. /\ pc[t] # "commit"
      /\ pc' = [pc EXCEPT ![t] = "idle"]
      /\ draft' = [draft EXCEPT ![t] = NoDraft]
      /\ aborted' = aborted \/ aborted' = [aborted EXCEPT ![c] = TRUE]
      /\ pending' = pending \/ pending' = [pending EXCEPT ![c] = {}]
      /\ UNCHANGED <<rows, returned>>
  BY DEF ReadLastFails, InsertFails, InsertDuplicate, Finish
<1>3. /\ pc \in [Tasks -> PCs]
      /\ draft = [u \in Tasks |-> draft[u]]
      /\ pending \in [Connections -> SUBSET AuditRecord]
      /\ aborted \in [Connections -> BOOLEAN]
  BY DEF Inv, TableInv, TypeOK
<1>4. pending' = pending
  <2>1. pending[c] = {}
    BY <1>2, IdleConnectionEmpty DEF Inv
  <2> HIDE DEF c
  <2>2. [pending EXCEPT ![c] = {}] = pending
    BY <1>1, <1>3, <2>1
  <2> QED BY <1>2, <2>2
<1>5. \A u \in Tasks : u # t =>
        /\ pc'[u] = pc[u]
        /\ draft'[u] = draft[u]
        /\ aborted'[ConnOf[u]] = aborted[ConnOf[u]]
  BY <1>1, <1>2, <1>3 DEF ExclusiveConnections
<1>6. pc'[t] = "idle"
  BY <1>2, <1>3
<1>7. ChainIntact' /\ ReturnedDurable'
  BY <1>2 DEF Inv, ExclusiveInv, ChainIntact, ReturnedDurable
<1>8. \A o \in Connections : pending'[o] # {} =>
        \E u \in TasksOn(o) : pc'[u] = "commit"
  BY <1>2, <1>4, <1>5 DEF Inv, ExclusiveInv, TasksOn
<1> QED BY <1>2, <1>4, <1>5, <1>6, <1>7, <1>8 DEF Inv, ExclusiveInv

(* Committing the one row of the transaction of task t extends the chain,  *)
(* keeps it linked for the other tasks and takes none of their numbers.    *)
LEMMA CommittedRowExtends ==
    ASSUME Inv, NEW t \in Tasks, pc[t] = "commit"
    PROVE  /\ Chained(rows \cup pending[ConnOf[t]])
           /\ draft[t] \in rows \cup pending[ConnOf[t]]
           /\ \A u \in Tasks : pc[u] # "idle" =>
                Links(draft[u], rows \cup pending[ConnOf[t]])
           /\ \A u \in Tasks \ {t} : pc[u] = "commit" =>
                draft[u].sequence \notin
                  Sequences(rows \cup pending[ConnOf[t]])
<1>1. /\ pending[ConnOf[t]] = {draft[t]}
      /\ draft[t].sequence \notin Sequences(rows)
      /\ Links(draft[t], rows)
  BY DEF Inv, ExclusiveInv
<1>2. HashMatches(draft[t])
  BY DEF Inv, TableInv, WellSealed
<1>3. Chained(rows \cup {draft[t]})
  BY <1>1, <1>2, ChainExtends DEF Inv, ExclusiveInv, ChainIntact
<1>4. \A u \in Tasks : pc[u] # "idle" => Links(draft[u], rows \cup {draft[t]})
  BY LinksGrow DEF Inv, ExclusiveInv
<1>5. \A u \in Tasks \ {t} : pc[u] = "commit" =>
        draft[u].sequence \notin Sequences(rows \cup {draft[t]})
  BY DEF Inv, ExclusiveInv, Sequences
<1> QED BY <1>1, <1>3, <1>4, <1>5

LEMMA CommitExclusiveInv ==
    ASSUME ExclusiveConnections, Inv, NEW t \in Tasks, Commit(t)
    PROVE  ExclusiveInv'
<1> DEFINE c == ConnOf[t]
<1>1. c \in Connections /\ \A u \in Tasks : ConnOf[u] \in Connections
  BY ConnOfAssumption
<1>2. /\ pc[t] = "commit"
      /\ rows' = IF aborted[c] THEN rows ELSE rows \cup pending[c]
      /\ pending' = [pending EXCEPT ![c] = {}]
      /\ aborted' = [aborted EXCEPT ![c] = FALSE]
      /\ returned' = returned \cup {draft[t]}
      /\ pc' = [pc EXCEPT ![t] = "idle"]
      /\ draft' = [draft EXCEPT ![t] = NoDraft]
  BY DEF Commit, Finish
<1>3. rows' = rows \cup pending[c]
  BY <1>2 DEF Inv, ExclusiveInv
<1>4. /\ pc \in [Tasks -> PCs]
      /\ draft = [u \in Tasks |-> draft[u]]
      /\ pending \in [Connections -> SUBSET AuditRecord]
      /\ aborted \in [Connections -> BOOLEAN]
  BY DEF Inv, TableInv, TypeOK
<1>5. \A u \in Tasks : u # t =>
        /\ pc'[u] = pc[u]
        /\ draft'[u] = draft[u]
        /\ pending'[ConnOf[u]] = pending[ConnOf[u]]
        /\ aborted'[ConnOf[u]] = aborted[ConnOf[u]]
  BY <1>1, <1>2, <1>4 DEF ExclusiveConnections
<1>6. pc'[t] = "idle"
  BY <1>2, <1>4
<1>7. ChainIntact'
  BY <1>2, <1>3, CommittedRowExtends DEF ChainIntact
<1>8. ReturnedDurable'
  BY <1>2, <1>3, CommittedRowExtends DEF Inv, ExclusiveInv, ReturnedDurable
<1>9. \A u \in Tasks : pc'[u] # "idle" => Links(draft'[u], rows')
  BY <1>2, <1>3, <1>5, <1>6, CommittedRowExtends
<1>10. \A u \in Tasks : pc'[u] = "commit" =>
         /\ ~ aborted'[ConnOf[u]]
         /\ pending'[ConnOf[u]] = {draft'[u]}
         /\ draft'[u].sequence \notin Sequences(rows')
  BY <1>2, <1>3, <1>5, <1>6, CommittedRowExtends DEF Inv, ExclusiveInv
<1>11. \A u, v \in Tasks :
         /\ pc'[u] = "commit"
         /\ pc'[v] = "commit"
         /\ draft'[u].sequence = draft'[v].sequence
         => u = v
  BY <1>5, <1>6 DEF Inv, ExclusiveInv
<1>12. \A o \in Connections : pending'[o] # {} =>
         \E u \in TasksOn(o) : pc'[u] = "commit"
  BY <1>2, <1>4, <1>5 DEF Inv, ExclusiveInv, TasksOn
<1> QED BY <1>7, <1>8, <1>9, <1>10, <1>11, <1>12 DEF ExclusiveInv

LEMMA CrashExclusiveInv ==
    ASSUME ExclusiveConnections, Inv, NEW c \in Connections, Crash(c)
    PROVE  ExclusiveInv'
<1>1. \/ rows' = rows
      \/ \E t \in TasksOn(c) : pc[t] = "commit" /\ rows' = rows \cup pending[c]
  BY DEF Crash
<1>2. /\ pending' = [pending EXCEPT ![c] = {}]
      /\ aborted' = [aborted EXCEPT ![c] = FALSE]
      /\ \A u \in TasksOn(c) : pc'[u] = "idle"
      /\ \A u \in Tasks \ TasksOn(c) : pc'[u] = pc[u] /\ draft'[u] = draft[u]
      /\ returned' = returned
  BY DEF Crash, TasksOn
<1>3. /\ \A u \in Tasks : ConnOf[u] \in Connections
      /\ pending \in [Connections -> SUBSET AuditRecord]
      /\ aborted \in [Connections -> BOOLEAN]
  BY ConnOfAssumption DEF Inv, TableInv, TypeOK
<1>4. \A u \in Tasks \ TasksOn(c) :
        /\ pending'[ConnOf[u]] = pending[ConnOf[u]]
        /\ aborted'[ConnOf[u]] = aborted[ConnOf[u]]
  BY <1>2, <1>3 DEF TasksOn
<1> DEFINE Extended(table) ==
             /\ Chained(table)
             /\ rows \subseteq table
             /\ \A u \in Tasks : pc[u] # "idle" => Links(draft[u], table)
             /\ \A u \in Tasks \ TasksOn(c) : pc[u] = "commit" =>
                  draft[u].sequence \notin Sequences(table)
<1>5. Extended(rows')
  <2>1. CASE rows' = rows
    BY <2>1 DEF Inv, ExclusiveInv, ChainIntact
  <2>2. ASSUME NEW t \in TasksOn(c), pc[t] = "commit",
               rows' = rows \cup pending[c]
        PROVE  Extended(rows')
    BY <2>2, CommittedRowExtends DEF TasksOn
  <2> QED BY <1>1, <2>1, <2>2
<1>6. ChainIntact' /\ ReturnedDurable'
  BY <1>2, <1>5 DEF Inv, ExclusiveInv, ChainIntact, ReturnedDurable
<1>7. \A u \in Tasks : pc'[u] # "idle" => Links(draft'[u], rows')
  BY <1>2, <1>5
<1>8. \A u \in Tasks : pc'[u] = "commit" =>
        /\ ~ aborted'[ConnOf[u]]
        /\ pending'[ConnOf[u]] = {draft'[u]}
        /\ draft'[u].sequence \notin Sequences(rows')
  BY <1>2, <1>4, <1>5 DEF Inv, ExclusiveInv
<1>9. \A u, v \in Tasks :
        /\ pc'[u] = "commit"
        /\ pc'[v] = "commit"
        /\ draft'[u].sequence = draft'[v].sequence
        => u = v
  BY <1>2 DEF Inv, ExclusiveInv
<1>10. \A o \in Connections : pending'[o] # {} =>
         \E u \in TasksOn(o) : pc'[u] = "commit"
  BY <1>2, <1>3 DEF Inv, ExclusiveInv, TasksOn
<1> QED BY <1>6, <1>7, <1>8, <1>9, <1>10 DEF ExclusiveInv

LEMMA NextInv ==
    ASSUME ExclusiveConnections, Inv, [Next]_vars
    PROVE  Inv'
<1>1. TableInv'
  BY NextTableInv DEF Inv
<1>2. ASSUME UNCHANGED vars
      PROVE  ExclusiveInv'
  BY <1>2 DEF vars, Inv, ExclusiveInv, ChainIntact, ReturnedDurable
<1>3. ASSUME NEW t \in Tasks, Step(t)
      PROVE  ExclusiveInv'
  BY <1>3, ReadLastExclusiveInv, InsertExclusiveInv, FailureExclusiveInv,
     CommitExclusiveInv DEF Step
<1>4. ASSUME NEW c \in Connections, Crash(c)
      PROVE  ExclusiveInv'
  BY <1>4, CrashExclusiveInv
<1>5. ExclusiveInv'
  BY <1>2, <1>3, <1>4 DEF Next, Inv
<1> QED BY <1>1, <1>5 DEF Inv

LEMMA ExclusiveInvariant ==
    ASSUME ExclusiveConnections
    PROVE  Spec => []Inv
<1>1. Init => Inv
  BY InitTableInv, InitExclusiveInv DEF Inv
<1>2. Inv /\ [Next]_vars => Inv'
  BY NextInv
<1> QED BY <1>1, <1>2, PTL DEF Spec

(* With a connection for every task the committed log is always one chain  *)
(* that AuditLog.verify accepts, whatever the interleaving of the awaits   *)
(* of record() and wherever processes crash (audit.py:63-111).             *)
THEOREM ChainStaysIntact ==
    ASSUME ExclusiveConnections
    PROVE  Spec => []ChainIntact
<1>1. Inv => ChainIntact
  BY DEF Inv, ExclusiveInv
<1> QED BY <1>1, ExclusiveInvariant, PTL

(* With a connection for every task, a record() that returned has its      *)
(* record in the table, forever (postgres.py:75-95).                       *)
THEOREM ReturnedStaysDurable ==
    ASSUME ExclusiveConnections
    PROVE  Spec => []ReturnedDurable
<1>1. Inv => ReturnedDurable
  BY DEF Inv, ExclusiveInv
<1> QED BY <1>1, ExclusiveInvariant, PTL

-----------------------------------------------------------------------------
(* The table as a log *)

Chain == INSTANCE AuditTamperingProofs WITH chain <- AllRecords(rows)

(* What the lemmas below assume of a table.                                *)
GoodTable(table) ==
    /\ table \subseteq AuditRecord
    /\ Chained(table)
    /\ \A r \in table : WellSealed(r)

LEMMA Contiguous ==
    ASSUME NEW table, GoodTable(table)
    PROVE  \E k \in Nat : Sequences(table) = 0 .. k - 1
<1> DEFINE S == Sequences(table)
<1>1. /\ S \in SUBSET Nat
      /\ \A n \in S : n < MaxRecords
  BY DEF GoodTable, Sequences, AuditRecord, WellSealed
<1>2. \A n \in S : n # 0 => n - 1 \in S
  BY DEF GoodTable, Chained, Links, Sequences
<1> HIDE DEF S
<1>3. PICK k \in Nat \ S : \A m \in Nat \ S : k <= m
  <2>1. MaxRecords \in Nat \ S
    BY <1>1, RecordBoundAssumption
  <2> QED BY <2>1, LeastOf
<1>4. \A n \in 0 .. k - 1 : n \in S
  BY <1>3
<1>5. ASSUME NEW m \in S, m >= k
      PROVE  FALSE
  <2> DEFINE Over == {n \in S : n >= k}
  <2>1. PICK n \in Over : \A o \in Over : n <= o
    <3>1. Over \in SUBSET Nat /\ Over # {}
      BY <1>1, <1>5
    <3> QED BY <3>1, LeastOf
  <2>2. n \in Nat /\ n - 1 \in S /\ n - 1 >= k
    BY <1>1, <1>2, <1>3, <2>1
  <2> QED BY <2>1, <2>2
<1>6. S = 0 .. k - 1
  <2>1. \A m \in S : m \in Nat /\ m < k
    BY <1>1, <1>5
  <2>2. \A m \in S : m \in 0 .. k - 1
    BY <2>1
  <2> QED BY <1>4, <2>2
<1> QED BY <1>6 DEF S

(* Strictly increasing numbers below k, one for each place of 1 .. k, are  *)
(* 0 to k - 1.                                                             *)
LEMMA IncreasingIsIdentity ==
    ASSUME NEW k \in Nat, NEW f \in [1 .. k -> 0 .. k - 1],
           \A i, j \in 1 .. k : i < j => f[i] < f[j]
    PROVE  \A i \in 1 .. k : f[i] = i - 1
<1> SUFFICES ASSUME NEW h \in 1 .. k, f[h] # h - 1
             PROVE  FALSE
  OBVIOUS
<1> DEFINE Odd == {i \in 1 .. k : f[i] # i - 1}
<1>1. PICK i \in Odd : \A j \in Odd : i <= j
  <2>1. Odd \subseteq Nat
    OBVIOUS
  <2>2. h \in Odd
    OBVIOUS
  <2> QED BY <2>1, <2>2, LeastOf
<1>2. f[i] >= i
  <2>1. CASE i = 1
    BY <1>1, <2>1
  <2>2. CASE i # 1
    <3>1. i - 1 \in 1 .. k /\ i - 1 \notin Odd
      BY <1>1, <2>2
    <3>2. f[i - 1] = i - 2 /\ f[i - 1] < f[i]
      BY <1>1, <3>1
    <3> QED BY <1>1, <3>2
  <2> QED BY <2>1, <2>2
<1> DEFINE Low == {j \in i .. k : f[j] < j}
<1>3. Low = {}
  <2> SUFFICES ASSUME Low # {}  PROVE FALSE
    OBVIOUS
  <2>1. PICK j \in Low : \A l \in Low : j <= l
    <3>1. Low \in SUBSET Nat
      BY <1>1
    <3> QED BY <3>1, LeastOf
  <2>2. j # i
    BY <1>2, <2>1
  <2>3. j - 1 \in i .. k /\ j - 1 \notin Low
    BY <1>1, <2>1, <2>2
  <2>4. f[j - 1] >= j - 1 /\ f[j - 1] < f[j]
    BY <1>1, <2>1, <2>3
  <2> QED BY <1>1, <2>1, <2>4
<1>4. k \in i .. k /\ f[k] < k
  BY <1>1
<1> QED BY <1>3, <1>4

(* A table with a primary key can be read in the order of its numbers, and *)
(* then every row is read.  The place of a row is the number of rows up to *)
(* it.                                                                     *)
LEMMA TableSorts ==
    ASSUME NEW table \in SUBSET AuditRecord, OneRowPerSequence(table),
           \A r \in table : r.sequence < MaxRecords
    PROVE  LET n == Cardinality(table)
               s == AllRecords(table)
           IN  /\ n \in Nat
               /\ IsFiniteSet(table)
               /\ s \in [1 .. n -> table]
               /\ \A i, j \in 1 .. n : i < j => s[i].sequence < s[j].sequence
               /\ \A r \in table : \E i \in 1 .. n : s[i] = r
<1> DEFINE n == Cardinality(table)
           places == 1 .. n
           upTo(r) == {q \in table : q.sequence <= r.sequence}
           rank == [r \in table |-> Cardinality(upTo(r))]
           Ordered(records) ==
             \A i, j \in places : i < j =>
               /\ records[i] # records[j]
               /\ records[i].sequence <= records[j].sequence
<1>1. \A r \in table : r.sequence \in Nat
  BY DEF AuditRecord
<1>2. IsFiniteSet(table) /\ n \in Nat
  <2> DEFINE number == [r \in table |-> r.sequence]
  <2>1. number \in [table -> 0 .. MaxRecords]
    BY <1>1, RecordBoundAssumption
  <2>2. number \in Injection(table, 0 .. MaxRecords)
    BY <2>1 DEF Injection, IsInjective, OneRowPerSequence
  <2>3. IsFiniteSet(0 .. MaxRecords)
    BY RecordBoundAssumption, FS_Interval
  <2> HIDE DEF number
  <2> QED BY <2>2, <2>3, FS_Injection, FS_CardinalityType
<1> HIDE DEF n
<1>3. ASSUME NEW r \in table
      PROVE  IsFiniteSet(upTo(r)) /\ Cardinality(upTo(r)) \in places
  <2>1. upTo(r) \in SUBSET table /\ r \in upTo(r)
    BY <1>1
  <2> HIDE DEF upTo
  <2>2. /\ IsFiniteSet(upTo(r))
        /\ Cardinality(upTo(r)) <= n
    BY <1>2, <2>1, FS_Subset DEF n
  <2>3. Cardinality(upTo(r)) \in Nat /\ Cardinality(upTo(r)) # 0
    BY <2>1, <2>2, FS_EmptySet, FS_CardinalityType
  <2> QED BY <1>2, <2>2, <2>3
<1>4. ASSUME NEW q \in table, NEW r \in table, q.sequence < r.sequence
      PROVE  Cardinality(upTo(q)) < Cardinality(upTo(r))
  <2>1. /\ upTo(q) \in SUBSET upTo(r)
        /\ r \in upTo(r) /\ r \notin upTo(q)
    BY <1>1, <1>4
  <2> HIDE DEF upTo
  <2>2. /\ Cardinality(upTo(q)) \in Nat
        /\ Cardinality(upTo(r)) \in Nat
        /\ IsFiniteSet(upTo(r))
    BY <1>2, <1>3
  <2>3. /\ Cardinality(upTo(q)) <= Cardinality(upTo(r))
        /\ Cardinality(upTo(r)) # Cardinality(upTo(q))
    BY <2>1, <2>2, FS_Subset
  <2> QED BY <2>2, <2>3
<1> HIDE DEF upTo
<1>5. /\ rank \in [table -> places]
      /\ \A q, r \in table :
           q.sequence < r.sequence => rank[q] < rank[r]
  BY <1>3, <1>4
<1> HIDE DEF rank
<1>6. \A q, r \in table : rank[q] < rank[r] => q.sequence < r.sequence
  <2> SUFFICES ASSUME NEW q \in table, NEW r \in table, rank[q] < rank[r],
                      ~ q.sequence < r.sequence
               PROVE  FALSE
    OBVIOUS
  <2>1. rank[q] \in Nat /\ rank[r] \in Nat
    BY <1>2, <1>5
  <2>2. q # r
    BY <2>1
  <2>3. r.sequence < q.sequence
    BY <1>1, <2>2 DEF OneRowPerSequence
  <2> QED BY <1>5, <2>1, <2>3
<1>7. \A i \in places : \E r \in table : rank[r] = i
  <2>1. \A q, r \in table : rank[q] = rank[r] => q = r
    <3> SUFFICES ASSUME NEW q \in table, NEW r \in table, q # r
                 PROVE  rank[q] # rank[r]
      OBVIOUS
    <3>1. q.sequence < r.sequence \/ r.sequence < q.sequence
      BY <1>1 DEF OneRowPerSequence
    <3>2. rank[q] < rank[r] \/ rank[r] < rank[q]
      BY <1>5, <3>1
    <3>3. rank[q] \in Nat /\ rank[r] \in Nat
      BY <1>2, <1>5
    <3> QED BY <3>2, <3>3
  <2>2. rank \in Injection(table, places)
    BY <1>5, <2>1 DEF Injection, IsInjective
  <2>3. IsFiniteSet(places) /\ Cardinality(places) = n
    BY <1>2, FS_Interval
  <2>4. rank \in Surjection(table, places)
    BY <2>2, <2>3, FS_Injection DEF n
  <2> QED BY <2>4 DEF Surjection
<1>8. \E records \in [places -> table] : Ordered(records)
  <2> DEFINE row(i) == CHOOSE r \in table : rank[r] = i
             inOrder == [i \in places |-> row(i)]
  <2>1. \A i \in places : row(i) \in table /\ rank[row(i)] = i
    BY <1>7
  <2> HIDE DEF row
  <2>2. inOrder \in [places -> table]
    BY <2>1
  <2>3. \A i, j \in places : i < j =>
          row(i) # row(j) /\ row(i).sequence <= row(j).sequence
    BY <1>1, <1>6, <2>1
  <2> QED BY <2>2, <2>3
<1> DEFINE s == AllRecords(table)
<1>9. s \in [places -> table] /\ Ordered(s)
  <2>1. s = CHOOSE records \in [places -> table] : Ordered(records)
    BY DEF AllRecords, n
  <2> HIDE DEF Ordered, s
  <2> QED BY <1>8, <2>1
<1> HIDE DEF s
<1>10. ASSUME NEW i \in places, NEW j \in places, i < j
      PROVE  s[i].sequence < s[j].sequence
  <2>1. /\ s[i] # s[j]
        /\ s[i].sequence <= s[j].sequence
        /\ s[i] \in table /\ s[j] \in table
    BY <1>9, <1>10
  <2>2. s[i].sequence # s[j].sequence
    BY <2>1 DEF OneRowPerSequence
  <2> QED BY <1>1, <2>1, <2>2
<1>11. \A r \in table : \E i \in places : s[i] = r
  <2>1. ASSUME NEW i \in places, NEW j \in places, s[i] = s[j]
        PROVE  i = j
    BY <1>2, <1>9, <2>1
  <2>2. s \in Injection(places, table)
    BY <1>9, <2>1 DEF Injection, IsInjective
  <2>3. Cardinality(places) = Cardinality(table)
    BY <1>2, FS_Interval DEF n
  <2>4. s \in Surjection(places, table)
    BY <1>2, <2>2, <2>3, FS_Injection
  <2> QED BY <2>4 DEF Surjection
<1> QED BY <1>2, <1>9, <1>10, <1>11 DEF n, s

(* Read in the order of its numbers, a chained table has its rows where    *)
(* their numbers say.                                                      *)
LEMMA RowsInOrder ==
    ASSUME NEW table, GoodTable(table),
           NEW k \in Nat, Sequences(table) = 0 .. k - 1
    PROVE  /\ AllRecords(table) \in [1 .. k -> table]
           /\ \A i \in 1 .. k : AllRecords(table)[i].sequence = i - 1
<1> DEFINE s == AllRecords(table)
           number == [i \in 1 .. k |-> s[i].sequence]
           numbers == [r \in table |-> r.sequence]
<1>1. /\ OneRowPerSequence(table)
      /\ table \in SUBSET AuditRecord
      /\ \A r \in table : r.sequence < MaxRecords
  BY DEF GoodTable, Chained, WellSealed
<1>2. Cardinality(table) = k
  <2>1. numbers \in [table -> 0 .. k - 1]
    BY DEF Sequences
  <2>2. \A i \in 0 .. k - 1 : \E r \in table : numbers[r] = i
    BY DEF Sequences
  <2>3. numbers \in Bijection(table, 0 .. k - 1)
    BY <1>1, <2>1, <2>2
       DEF Bijection, Injection, Surjection, IsInjective, OneRowPerSequence
  <2>4. Cardinality(0 .. k - 1) = k
    BY FS_Interval
  <2> QED BY <1>1, <2>3, <2>4, TableSorts, FS_Bijection DEF ExistsBijection
<1>3. /\ s \in [1 .. k -> table]
      /\ \A i, j \in 1 .. k : i < j => s[i].sequence < s[j].sequence
  BY <1>1, <1>2, TableSorts
<1> HIDE DEF s
<1>4. /\ number \in [1 .. k -> 0 .. k - 1]
      /\ \A i, j \in 1 .. k : i < j => number[i] < number[j]
  BY <1>3 DEF Sequences
<1>5. \A i \in 1 .. k : number[i] = i - 1
  BY <1>4, IncreasingIsIdentity
<1> QED BY <1>3, <1>5 DEF s

-----------------------------------------------------------------------------
(* Steps *)

LEMMA InvIsGood == Inv => GoodTable(rows)
BY DEF Inv, TableInv, TypeOK, ExclusiveInv, ChainIntact, GoodTable, AllRows

(* A good table is a sequence of records, one place for each number.       *)
LEMMA TableIsLog ==
    ASSUME NEW table, GoodTable(table)
    PROVE  \E k \in Nat :
             /\ Sequences(table) = 0 .. k - 1
             /\ AllRecords(table) \in Seq(table)
             /\ Len(AllRecords(table)) = k
             /\ \A i \in 1 .. k : AllRecords(table)[i].sequence = i - 1
<1>1. PICK k \in Nat : Sequences(table) = 0 .. k - 1
  BY Contiguous
<1>2. /\ AllRecords(table) \in [1 .. k -> table]
      /\ \A i \in 1 .. k : AllRecords(table)[i].sequence = i - 1
  BY <1>1, RowsInOrder
<1> QED BY <1>1, <1>2

(* A row with a free number that links to a good table is the next record. *)
LEMMA LogExtends ==
    ASSUME NEW table, NEW r, GoodTable(table), r \in AuditRecord,
           WellSealed(r), Links(r, table), r.sequence \notin Sequences(table)
    PROVE  LET log == AllRecords(table)
           IN  /\ Len(log) < MaxRecords
               /\ AllRecords(table \cup {r}) = Append(log, r)
               /\ r.sequence = Len(log)
               /\ r.previous_hash = IF log = <<>> THEN GenesisHash
                                    ELSE log[Len(log)].record_hash
<1> DEFINE log  == AllRecords(table)
           more == AllRecords(table \cup {r})
<1>1. PICK k \in Nat :
        /\ Sequences(table) = 0 .. k - 1
        /\ log \in Seq(table)
        /\ Len(log) = k
        /\ \A i \in 1 .. k : log[i].sequence = i - 1
  BY TableIsLog
<1>2. r.sequence = k
  <2>1. r.sequence \in Nat /\ r.sequence \notin 0 .. k - 1
    BY <1>1 DEF AuditRecord
  <2>2. r.sequence # 0 => r.sequence - 1 \in 0 .. k - 1
    BY <1>1 DEF Links, Sequences
  <2> QED BY <2>1, <2>2
<1>3. GoodTable(table \cup {r})
  BY ChainExtends DEF GoodTable, WellSealed
<1>4. Sequences(table \cup {r}) = 0 .. (k + 1) - 1
  <2>1. Sequences(table \cup {r}) = Sequences(table) \cup {k}
    BY <1>2 DEF Sequences
  <2>2. 0 .. (k + 1) - 1 = (0 .. k - 1) \cup {k}
    OBVIOUS
  <2> QED BY <1>1, <2>1, <2>2
<1>5. /\ more \in [1 .. k + 1 -> table \cup {r}]
      /\ \A i \in 1 .. k + 1 : more[i].sequence = i - 1
  <2>1. k + 1 \in Nat
    OBVIOUS
  <2> QED BY <1>3, <1>4, <2>1, RowsInOrder
<1> HIDE DEF log, more
<1>6. \A i \in 1 .. k : log[i] \in table
  BY <1>1
<1>7. more = Append(log, r)
  <2>1. \A i \in 1 .. k : more[i] = log[i]
    <3> SUFFICES ASSUME NEW i \in 1 .. k  PROVE more[i] = log[i]
      OBVIOUS
    <3>1. /\ more[i] \in table \cup {r} /\ more[i].sequence = i - 1
          /\ log[i] \in table \cup {r} /\ log[i].sequence = i - 1
      BY <1>1, <1>5, <1>6
    <3> QED BY <1>3, <3>1 DEF GoodTable, Chained, OneRowPerSequence
  <2>2. more[k + 1] = r
    <3>1. more[k + 1] \in table \cup {r} /\ more[k + 1].sequence = k
      BY <1>5
    <3> QED BY <1>2, <1>3, <3>1 DEF GoodTable, Chained, OneRowPerSequence
  <2>3. /\ more \in Seq(table \cup {r})
        /\ Len(more) = k + 1
    BY <1>5
  <2>4. log \in Seq(table \cup {r})
    BY <1>1, SeqMonotonic
  <2>5. /\ Append(log, r) \in Seq(table \cup {r})
        /\ Len(Append(log, r)) = k + 1
        /\ \A i \in 1 .. k : Append(log, r)[i] = log[i]
        /\ Append(log, r)[k + 1] = r
    BY <1>1, <2>4, AppendProperties
  <2>6. \A i \in 1 .. k + 1 : more[i] = Append(log, r)[i]
    <3> SUFFICES ASSUME NEW i \in 1 .. k + 1
                 PROVE  more[i] = Append(log, r)[i]
      OBVIOUS
    <3>1. i \in 1 .. k \/ i = k + 1
      OBVIOUS
    <3> QED BY <2>1, <2>2, <2>5, <3>1
  <2> QED BY <2>3, <2>5, <2>6, SeqEqual
<1>8. r.previous_hash = IF log = <<>> THEN GenesisHash
                        ELSE log[Len(log)].record_hash
  <2>1. CASE k = 0
    BY <1>1, <1>2, <2>1, EmptySeq DEF Links
  <2>2. CASE k # 0
    <3>1. PICK p \in table :
            p.sequence = k - 1 /\ p.record_hash = r.previous_hash
      BY <1>2, <2>2 DEF Links
    <3>2. k \in 1 .. k /\ log[k] \in table /\ log[k].sequence = k - 1
      BY <1>1, <1>6, <2>2
    <3>3. log[k] = p
      BY <3>1, <3>2 DEF GoodTable, Chained, OneRowPerSequence
    <3>4. log # <<>>
      BY <1>1, <2>2, EmptySeq
    <3> QED BY <1>1, <3>1, <3>3, <3>4
  <2> QED BY <2>1, <2>2
<1>9. k < MaxRecords
  BY <1>2 DEF WellSealed
<1> QED BY <1>1, <1>2, <1>7, <1>8, <1>9 DEF log, more

(* The table changes by the row of one task that is about to commit it.    *)
LEMMA TableGrowsByADraft ==
    ASSUME ExclusiveConnections, Inv, [Next]_vars
    PROVE  \/ rows' = rows
           \/ \E t \in Tasks : pc[t] = "commit" /\ rows' = rows \cup {draft[t]}
<1>1. ASSUME NEW t \in Tasks, Step(t), rows' # rows
      PROVE  pc[t] = "commit" /\ rows' = rows \cup {draft[t]}
  <2>1. Commit(t)
    BY <1>1 DEF Step, ReadLast, ReadLastFails, Insert, InsertDuplicate,
                InsertFails
  <2>2. /\ pc[t] = "commit"
        /\ rows' = IF aborted[ConnOf[t]] THEN rows
                   ELSE rows \cup pending[ConnOf[t]]
    BY <2>1 DEF Commit
  <2> QED BY <2>2 DEF Inv, ExclusiveInv
<1>2. ASSUME NEW c \in Connections, Crash(c), rows' # rows
      PROVE  \E t \in Tasks : pc[t] = "commit" /\ rows' = rows \cup {draft[t]}
  <2>1. PICK t \in TasksOn(c) :
          pc[t] = "commit" /\ rows' = rows \cup pending[c]
    BY <1>2 DEF Crash
  <2> QED BY <2>1 DEF Inv, ExclusiveInv, TasksOn
<1>3. CASE UNCHANGED vars
  BY <1>3 DEF vars
<1> QED BY <1>1, <1>2, <1>3 DEF Next

LEMMA InitIsInit == Init => Log!Init
<1> SUFFICES ASSUME Init  PROVE AllRecords(rows) = <<>>
  BY DEF Log!Init
<1>1. GoodTable(rows) /\ rows = {}
  BY DEF Init, GoodTable, Chained, OneRowPerSequence
<1>2. PICK k \in Nat : /\ Sequences(rows) = 0 .. k - 1
                       /\ AllRecords(rows) \in Seq(rows)
                       /\ Len(AllRecords(rows)) = k
  BY <1>1, TableIsLog
<1>3. k = 0
  <2>1. Sequences(rows) = {}
    BY <1>1 DEF Sequences
  <2>2. k # 0 => 0 \in 0 .. k - 1
    OBVIOUS
  <2> QED BY <1>2, <2>1, <2>2
<1> QED BY <1>2, <1>3, EmptySeq

LEMMA StepIsStep ==
    ASSUME ExclusiveConnections, Inv, [Next]_vars
    PROVE  [Log!Next]_(AllRecords(rows))
<1>1. CASE rows' = rows
  BY <1>1 DEF AllRecords
<1>2. ASSUME NEW t \in Tasks, pc[t] = "commit", rows' = rows \cup {draft[t]}
      PROVE  Log!Next
  <2> DEFINE r   == draft[t]
             log == AllRecords(rows)
  <2>1. /\ r \in AuditRecord /\ WellSealed(r) /\ Links(r, rows)
        /\ r.sequence \notin Sequences(rows)
    BY <1>2 DEF Inv, TableInv, TypeOK, ExclusiveInv
  <2> HIDE DEF r
  <2>2. /\ Len(log) < MaxRecords
        /\ AllRecords(rows \cup {r}) = Append(log, r)
        /\ r.sequence = Len(log)
        /\ r.previous_hash = Log!LastHash
    BY <2>1, InvIsGood, LogExtends
       DEF Log!LastHash, Log!GenesisHash, GenesisHash
  <2>3. AllRecords(rows)' = Append(log, r)
    <3>1. rows' = rows \cup {r}
      BY <1>2 DEF r
    <3>2. AllRecords(rows)' = AllRecords(rows \cup {r})
      BY <3>1 DEF AllRecords
    <3> QED BY <2>2, <3>2
  <2>4. r = Log!Sealed(r.sequence, r.previous_hash, r.detail)
    BY <2>1 DEF AuditRecord, WellSealed, HashMatches, ComputeHash,
                Log!Sealed, Log!ComputeHash
  <2>5. r.detail \in Details
    BY <2>1 DEF AuditRecord
  <2> HIDE DEF log
  <2>6. Log!Record(r.detail)
    BY <2>2, <2>3, <2>4 DEF Log!Record, log
  <2> QED BY <2>5, <2>6 DEF Log!Next
<1> QED BY <1>1, <1>2, TableGrowsByADraft

(* With a connection for every task the table is the abstract log: every   *)
(* step of record(), every failure and every crash either leaves it as it  *)
(* is or adds the next record at its end (audit.py:63-94,                  *)
(* postgres.py:75-107).                                                    *)
THEOREM TableImplementsLog ==
    ASSUME ExclusiveConnections
    PROVE  Spec => ImplementsAuditChain
<1>1. Init => Log!Init
  BY InitIsInit
<1>2. Inv /\ [Next]_vars => [Log!Next]_(AllRecords(rows))
  BY StepIsStep
<1> QED
  BY <1>1, <1>2, ExclusiveInvariant, PTL
     DEF Spec, ImplementsAuditChain, Log!Spec
-----------------------------------------------------------------------------
(* What AuditLog.verify makes of the table *)

LEMMA GoodTableVerifies ==
    ASSUME NEW table, GoodTable(table)
    PROVE  AllRecords(table) \in Seq(AuditRecord) /\ Verify(AllRecords(table))
<1> DEFINE log == AllRecords(table)
<1>1. PICK k \in Nat :
        /\ log \in Seq(table)
        /\ Len(log) = k
        /\ \A i \in 1 .. k : log[i].sequence = i - 1
  BY TableIsLog
<1> HIDE DEF log
<1>2. \A i \in 1 .. k : log[i] \in table
  BY <1>1
<1>3. log \in Seq(AuditRecord)
  BY <1>1, SeqMonotonic DEF GoodTable
<1>4. ASSUME NEW i \in 1 .. k
      PROVE  log[i].previous_hash = ExpectedPrevious(log, i)
  <2>1. Links(log[i], table) /\ log[i].sequence = i - 1
    BY <1>1, <1>2 DEF GoodTable, Chained
  <2>2. CASE i = 1
    BY <2>1, <2>2 DEF Links, ExpectedPrevious
  <2>3. CASE i # 1
    <3>1. PICK p \in table : /\ p.sequence = i - 2
                             /\ p.record_hash = log[i].previous_hash
      BY <2>1, <2>3 DEF Links
    <3>2. /\ i - 1 \in 1 .. k
          /\ log[i - 1] \in table
          /\ log[i - 1].sequence = i - 2
      BY <1>1, <1>2, <2>3
    <3>3. log[i - 1] = p
      BY <3>1, <3>2 DEF GoodTable, Chained, OneRowPerSequence
    <3> QED BY <2>3, <3>1, <3>3 DEF ExpectedPrevious
  <2> QED BY <2>2, <2>3
<1>5. Verify(log)
  BY <1>1, <1>2, <1>4 DEF Verify, GoodTable, WellSealed
<1> QED BY <1>3, <1>5 DEF log

(* With a connection for every task verify() accepts the table, whenever   *)
(* it is called (audit.py:96-111).                                         *)
THEOREM TableVerifies ==
    ASSUME ExclusiveConnections
    PROVE  Spec => []Verify(AllRecords(rows))
<1>1. Inv => Verify(AllRecords(rows))
  BY InvIsGood, GoodTableVerifies DEF Inv
<1> QED BY <1>1, ExclusiveInvariant, PTL

(* A table that verify() accepts is a chain.                               *)
LEMMA VerifiedIsChained ==
    ASSUME TableInv, Verify(AllRecords(rows))
    PROVE  ChainIntact
<1> DEFINE s == AllRecords(rows)
           n == Cardinality(rows)
<1>1. /\ OneRowPerSequence(rows)
      /\ rows \in SUBSET AuditRecord
      /\ \A r \in rows : r.sequence < MaxRecords
  BY DEF TableInv, TypeOK, AllRows, OneRowPerSequence, WellSealed
<1>2. /\ n \in Nat
      /\ s \in [1 .. n -> rows]
      /\ \A r \in rows : \E i \in 1 .. n : s[i] = r
  BY <1>1, TableSorts
<1> HIDE DEF s, n
<1>3. Len(s) = n
  BY <1>2
<1>4. \A i \in 1 .. n : /\ s[i].sequence = i - 1
                        /\ s[i].previous_hash = ExpectedPrevious(s, i)
                        /\ HashMatches(s[i])
  BY <1>3 DEF Verify, s
<1>5. ASSUME NEW r \in rows
      PROVE  Links(r, rows) /\ HashMatches(r)
  <2>1. PICK i \in 1 .. n : s[i] = r
    BY <1>2
  <2>2. CASE i = 1
    BY <1>4, <2>1, <2>2 DEF Links, ExpectedPrevious
  <2>3. CASE i # 1
    <3>1. /\ i - 1 \in 1 .. n
          /\ s[i - 1] \in rows
          /\ s[i - 1].sequence = i - 2
      BY <1>2, <1>4, <2>3
    <3>2. r.sequence = i - 1 /\ r.previous_hash = s[i - 1].record_hash
      BY <1>4, <2>1, <2>3 DEF ExpectedPrevious
    <3> QED BY <1>4, <2>1, <2>3, <3>1, <3>2 DEF Links
  <2> QED BY <2>2, <2>3
<1> QED BY <1>1, <1>5 DEF ChainIntact, Chained

(* However tasks share connections, verify() accepts the table if and only *)
(* if it is one chain: it neither misses a fork or a gap that they make    *)
(* nor sees one where there is none (audit.py:96-111).                     *)
THEOREM VerifyIsExact == Spec => []VerifyAgrees
<1>1. ASSUME TableInv
      PROVE  VerifyAgrees
  <2>1. ASSUME ChainIntact
        PROVE  Verify(AllRecords(rows))
    <3>1. GoodTable(rows)
      BY <1>1, <2>1 DEF GoodTable, TableInv, TypeOK, AllRows, ChainIntact
    <3> QED BY <3>1, GoodTableVerifies
  <2> QED BY <1>1, <2>1, VerifiedIsChained DEF VerifyAgrees
<1> QED BY <1>1, TableInvariant, PTL

LEMMA TableIsChain == Inv => Chain!ChainInv
<1> SUFFICES ASSUME Inv  PROVE Chain!ChainInv
  OBVIOUS
<1>1. AllRecords(rows) \in Seq(AuditRecord) /\ Verify(AllRecords(rows))
  BY InvIsGood, GoodTableVerifies
<1> QED
  BY <1>1
     DEF Chain!ChainInv, Chain!AuditRecord, Chain!Hashes, Chain!Verify,
         Chain!ExpectedPrevious, Chain!HashMatches, Chain!ComputeHash,
         Chain!GenesisHash, AuditRecord, Hashes, Verify, ExpectedPrevious,
         HashMatches, ComputeHash, GenesisHash

(* Edits and removals in the table are found by verify(), except of the    *)
(* last record with its hash recomputed (audit.py:3-8, 96-111).            *)
THEOREM TableTamperingIsFound ==
    ASSUME ExclusiveConnections
    PROVE  Spec => []TamperingDetected
<1>1. Chain!ChainInv => Chain!TamperingDetected
  BY Chain!EditIsFound, Chain!ResealedEditIsFound, Chain!RemovalIsFound
     DEF Chain!TamperingDetected
<1>2. Chain!TamperingDetected => TamperingDetected
  <2>1. \A s : Chain!Verify(s) <=> Log!Verify(s)
    BY DEF Chain!Verify, Chain!ExpectedPrevious, Chain!HashMatches,
           Chain!ComputeHash, Chain!GenesisHash, Log!Verify,
           Log!ExpectedPrevious, Log!HashMatches, Log!ComputeHash,
           Log!GenesisHash
  <2>2. \A r : Chain!Edited(r) = Log!Edited(r)
    BY DEF Chain!Edited, Log!Edited
  <2>3. \A r : Chain!Resealed(r) = Log!Resealed(r)
    BY DEF Chain!Resealed, Chain!Sealed, Chain!ComputeHash, Log!Resealed,
           Log!Sealed, Log!ComputeHash
  <2>4. \A i : Chain!Without(i) = Log!Without(i)
    BY DEF Chain!Without, Log!Without
  <2>5. Chain!EditDetected => Log!EditDetected
    BY <2>1, <2>2 DEF Chain!EditDetected, Log!EditDetected
  <2>6. Chain!ResealedEditDetected => Log!ResealedEditDetected
    BY <2>1, <2>2, <2>3
       DEF Chain!ResealedEditDetected, Log!ResealedEditDetected
  <2>7. Chain!RemovalDetected => Log!RemovalDetected
    BY <2>1, <2>3, <2>4 DEF Chain!RemovalDetected, Log!RemovalDetected
  <2> QED
    BY <2>5, <2>6, <2>7
       DEF TamperingDetected, Log!TamperingDetected, Chain!TamperingDetected
<1>3. Inv => TamperingDetected
  BY <1>1, <1>2, TableIsChain
<1> QED BY <1>3, ExclusiveInvariant, PTL
=============================================================================
