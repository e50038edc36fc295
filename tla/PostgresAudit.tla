---------------------------- MODULE PostgresAudit ----------------------------
(***************************************************************************)
(* AuditLog.record over PostgresAuditSink (mainager/guard/postgres.py),    *)
(* called by several asyncio tasks on one or more database connections.    *)
(*                                                                         *)
(* record() is three awaits, and anything may happen between them: the     *)
(* SELECT of the last row, the INSERT of a row sealed on what was read,    *)
(* and the COMMIT.  A psycopg connection runs one transaction for all the  *)
(* tasks that use it (autocommit is off), each statement sees the rows     *)
(* committed before it and those of its own transaction (READ COMMITTED),  *)
(* an INSERT whose key another transaction has inserted and not committed  *)
(* waits for that transaction, and after an error every statement of the   *)
(* transaction but its end fails.  append() never rolls back; COMMIT of a  *)
(* failed transaction rolls it back and reports no error to the caller.    *)
(***************************************************************************)
EXTENDS AuditRecords

CONSTANTS
    Tasks,           \* the callers of AuditLog.record
    Connections,     \* the database connections
    ConnOf,          \* the connection of each task's sink
    MaxRecords       \* bound on the number of records

ASSUME ConnOfAssumption == ConnOf \in [Tasks -> Connections]

ASSUME RecordBoundAssumption == MaxRecords \in Nat

VARIABLES
    rows,       \* the committed rows of mainager_audit
    pending,    \* per connection: the uncommitted rows of its transaction
    aborted,    \* per connection: its transaction failed and is still open
    pc,         \* per task: the await record() is suspended at
    draft,      \* per task: the record it sealed
    result,     \* per task: how its last record() ended
    returned    \* the records that record() has returned to a caller

vars == <<rows, pending, aborted, pc, draft, result, returned>>

PCs == {"idle", "insert", "commit"}

Results == {"none", "recorded", "unique_violation", "aborted_transaction"}

NoDraft == <<>>

TasksOn(c) == {t \in Tasks : ConnOf[t] = c}

-----------------------------------------------------------------------------
(* The table *)

Sequences(table) == {r.sequence : r \in table}

(* The row that ORDER BY sequence DESC LIMIT 1 yields.                     *)
LastRow(table) ==
    CHOOSE r \in table : \A s \in table : s.sequence <= r.sequence

\* A fault: the next record takes its number from the count, not the row.
NextRecordUnlinked(table, d) ==
    IF table = {}
    THEN Sealed(0, GenesisHash, d)
    ELSE Sealed(LastRow(table).sequence + 1, GenesisHash, d)

(* What AuditLog.record seals once sink.last() has read this table.        *)
NextRecord(table, d) ==
    IF table = {}
    THEN Sealed(0, GenesisHash, d)
    ELSE Sealed(LastRow(table).sequence + 1, LastRow(table).record_hash, d)

(* The rows a statement on connection c sees.                              *)
Visible(c) == rows \cup pending[c]

(* Rows of other open transactions, which an INSERT of c may wait for.     *)
UncommittedElsewhere(c) ==
    UNION {pending[o] : o \in Connections \ {c}}

-----------------------------------------------------------------------------
(* The awaits of AuditLog.record *)

Init ==
    /\ rows = {}
    /\ pending = [c \in Connections |-> {}]
    /\ aborted = [c \in Connections |-> FALSE]
    /\ pc = [t \in Tasks |-> "idle"]
    /\ draft = [t \in Tasks |-> NoDraft]
    /\ result = [t \in Tasks |-> "none"]
    /\ returned = {}

(* record() is over for task t, by a return or by an exception.            *)
Finish(t, how) ==
    /\ pc' = [pc EXCEPT ![t] = "idle"]
    /\ draft' = [draft EXCEPT ![t] = NoDraft]
    /\ result' = [result EXCEPT ![t] = how]

(* previous = await sink.last(), and the record is sealed on it.           *)
ReadLast(t, d) ==
    LET next == NextRecord(Visible(ConnOf[t]), d)
    IN  /\ pc[t] = "idle"
        /\ ~ aborted[ConnOf[t]]
        /\ next.sequence < MaxRecords
        /\ draft' = [draft EXCEPT ![t] = next]
        /\ pc' = [pc EXCEPT ![t] = "insert"]
        /\ result' = [result EXCEPT ![t] = "none"]
        /\ UNCHANGED <<rows, pending, aborted, returned>>

(* The SELECT of last() is refused: the transaction it runs in has failed. *)
ReadLastFails(t) ==
    /\ pc[t] = "idle"
    /\ aborted[ConnOf[t]]
    /\ Finish(t, "aborted_transaction")
    /\ UNCHANGED <<rows, pending, aborted, returned>>

\* A fault: the primary key is missing from the schema.
InsertWithoutKey(t) ==
    LET c == ConnOf[t]
    IN  /\ pc[t] = "insert"
        /\ ~ aborted[c]
        /\ pending' = [pending EXCEPT ![c] = @ \cup {draft[t]}]
        /\ pc' = [pc EXCEPT ![t] = "commit"]
        /\ UNCHANGED <<rows, aborted, draft, result, returned>>

(* The INSERT of append(); it has to wait while another transaction holds  *)
(* an uncommitted row of the same sequence.                                *)
Insert(t) ==
    LET c == ConnOf[t]
    IN  /\ pc[t] = "insert"
        /\ ~ aborted[c]
        /\ draft[t].sequence \notin Sequences(Visible(c))
        /\ draft[t].sequence \notin Sequences(UncommittedElsewhere(c))
        /\ pending' = [pending EXCEPT ![c] = @ \cup {draft[t]}]
        /\ pc' = [pc EXCEPT ![t] = "commit"]
        /\ UNCHANGED <<rows, aborted, draft, result, returned>>

(* The INSERT violates the primary key.  The transaction has failed, with  *)
(* everything it had inserted; append() raises and nobody rolls back.      *)
InsertDuplicate(t) ==
    LET c == ConnOf[t]
    IN  /\ pc[t] = "insert"
        /\ ~ aborted[c]
        /\ draft[t].sequence \in Sequences(Visible(c))
        /\ aborted' = [aborted EXCEPT ![c] = TRUE]
        /\ pending' = [pending EXCEPT ![c] = {}]
        /\ Finish(t, "unique_violation")
        /\ UNCHANGED <<rows, returned>>

(* The INSERT is refused: the transaction failed since last() read it.     *)
InsertFails(t) ==
    /\ pc[t] = "insert"
    /\ aborted[ConnOf[t]]
    /\ Finish(t, "aborted_transaction")
    /\ UNCHANGED <<rows, pending, aborted, returned>>

\* A fault: record() returns on the INSERT, the transaction left open.
CommitForgotten(t) ==
    /\ pc[t] = "commit"
    /\ returned' = returned \cup {draft[t]}
    /\ Finish(t, "recorded")
    /\ UNCHANGED <<rows, pending, aborted>>

(* The COMMIT of append(), after which record() returns.  It ends the      *)
(* transaction of the connection, whichever task's rows are in it.         *)
Commit(t) ==
    LET c == ConnOf[t]
    IN  /\ pc[t] = "commit"
        /\ rows' = IF aborted[c] THEN rows ELSE rows \cup pending[c]
        /\ pending' = [pending EXCEPT ![c] = {}]
        /\ aborted' = [aborted EXCEPT ![c] = FALSE]
        /\ returned' = returned \cup {draft[t]}
        /\ Finish(t, "recorded")

(* The process behind a connection dies and is restarted on a fresh one.   *)
(* The open transaction is lost, unless a COMMIT had reached the server.   *)
Crash(c) ==
    /\ rows' \in {rows} \cup
         {rows \cup pending[c] : t \in {u \in TasksOn(c) : pc[u] = "commit"}}
    /\ pending' = [pending EXCEPT ![c] = {}]
    /\ aborted' = [aborted EXCEPT ![c] = FALSE]
    /\ pc' = [t \in Tasks |-> IF ConnOf[t] = c THEN "idle" ELSE pc[t]]
    /\ draft' = [t \in Tasks |-> IF ConnOf[t] = c THEN NoDraft ELSE draft[t]]
    /\ result' = [t \in Tasks |-> IF ConnOf[t] = c THEN "none" ELSE result[t]]
    /\ UNCHANGED returned

Step(t) ==
    \/ \E d \in Details : ReadLast(t, d)
    \/ ReadLastFails(t)
    \/ Insert(t)
    \/ InsertDuplicate(t)
    \/ InsertFails(t)
    \/ Commit(t)

Next ==
    \/ \E t \in Tasks : Step(t)
    \/ \E c \in Connections : Crash(c)

Spec == Init /\ [][Next]_vars

(* An event loop resumes every task whose statement has been answered, and *)
(* the server answers every statement it need not make wait.  An INSERT    *)
(* that waits for another transaction is woken when that one ends, so it   *)
(* is not passed over forever by transactions that come and go.  Nothing   *)
(* obliges a caller to start a record(), or a process to crash.            *)
Resume(t) == InsertDuplicate(t) \/ InsertFails(t) \/ Commit(t)

FairSpec ==
    /\ Spec
    /\ \A t \in Tasks : WF_vars(Resume(t)) /\ SF_vars(Insert(t))

-----------------------------------------------------------------------------
(* Properties *)

(* Each task's sink has a connection of its own, as every worker process   *)
(* has in test_guard_backends.py.                                          *)
ExclusiveConnections ==
    \A s, t \in Tasks : ConnOf[s] = ConnOf[t] => s = t

(* The values the variables range over.                                    *)
TypeOK ==
    /\ rows \subseteq AuditRecord
    /\ pending \in [Connections -> SUBSET AuditRecord]
    /\ aborted \in [Connections -> BOOLEAN]
    /\ pc \in [Tasks -> PCs]
    /\ draft = [t \in Tasks |-> draft[t]]
    /\ \A t \in Tasks : pc[t] # "idle" => draft[t] \in AuditRecord
    /\ result \in [Tasks -> Results]
    /\ returned \subseteq AuditRecord

(* Row r chains to the row before it, or to the genesis hash.              *)
Links(r, table) ==
    IF r.sequence = 0
    THEN r.previous_hash = GenesisHash
    ELSE \E p \in table : /\ p.sequence = r.sequence - 1
                          /\ p.record_hash = r.previous_hash

OneRowPerSequence(table) ==
    \A r, s \in table : r.sequence = s.sequence => r = s

Chained(table) ==
    /\ OneRowPerSequence(table)
    /\ \A r \in table : Links(r, table) /\ HashMatches(r)

(* The committed log is one chain: no fork, no gap, no broken link and no  *)
(* wrong hash, however the record() calls of the workers interleave and    *)
(* wherever they crash (postgres.py:3-7, audit.py:96-111).                 *)
ChainIntact == Chained(rows)

(* The log never forks: no two committed rows chain to the same hash, even *)
(* when tasks share a connection and ChainIntact fails (postgres.py:3-7).  *)
NoFork ==
    \A r, s \in rows : r.previous_hash = s.previous_hash => r = s

(* A record that record() returned to its caller is in the table and stays *)
(* there (postgres.py:65, "Durable, append-only sink").                    *)
ReturnedDurable == returned \subseteq rows

(* A failed append() is a lost race for the sequence number and nothing    *)
(* else (postgres.py:5-7).                                                 *)
FailuresAreLostRaces ==
    \A t \in Tasks : result[t] # "aborted_transaction"

(* Every append() that was begun comes back, with or without an error: no  *)
(* two tasks wait for each other's transactions (postgres.py:75-95).       *)
EveryAppendEnds ==
    \A t \in Tasks : pc[t] = "insert" ~> pc[t] = "idle"

-----------------------------------------------------------------------------
(* Inductive invariants, proved in PostgresAuditProofs *)

(* Every row a transaction could still commit, and every committed one.    *)
AllRows == rows \cup UNION {pending[c] : c \in Connections}

(* Record r agrees with its own hash, and the last record that its         *)
(* previous_hash commits to is the one numbered before it.                 *)
WellSealed(r) ==
    /\ r.sequence < MaxRecords
    /\ HashMatches(r)
    /\ IF r.sequence = 0
       THEN r.previous_hash = GenesisHash
       ELSE /\ r.previous_hash # GenesisHash
            /\ r.previous_hash[Len(r.previous_hash)][1] = r.sequence - 1

(* What holds however the tasks share connections.                         *)
TableInv ==
    /\ TypeOK
    /\ OneRowPerSequence(AllRows)
    /\ \A r \in AllRows : WellSealed(r)
    /\ \A t \in Tasks : pc[t] # "idle" => WellSealed(draft[t])

(* What holds, besides, when no two tasks share one: a transaction is the  *)
(* row of the one task about to commit it, and a draft chains to the rows  *)
(* committed, though it may no longer chain to the last of them.           *)
ExclusiveInv ==
    /\ ChainIntact
    /\ ReturnedDurable
    /\ \A t \in Tasks : pc[t] # "idle" => Links(draft[t], rows)
    /\ \A t \in Tasks : pc[t] = "commit" =>
         /\ ~ aborted[ConnOf[t]]
         /\ pending[ConnOf[t]] = {draft[t]}
         /\ draft[t].sequence \notin Sequences(rows)
    /\ \A s, t \in Tasks :
         /\ pc[s] = "commit"
         /\ pc[t] = "commit"
         /\ draft[s].sequence = draft[t].sequence
         => s = t
    /\ \A c \in Connections : pending[c] # {} =>
         \E t \in TasksOn(c) : pc[t] = "commit"
=============================================================================
