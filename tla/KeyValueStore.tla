--------------------------- MODULE KeyValueStore ---------------------------
(***************************************************************************)
(* The shared key-value state of the guard: RedisKeyValueStore             *)
(* (mainager/guard/redis_store.py), and MemoryKeyValueStore                *)
(* (mainager/guard/memory.py) which is to behave alike.  Each operation is *)
(* one atomic step: a Redis command, a Lua script, or a coroutine that     *)
(* never suspends.                                                         *)
(*                                                                         *)
(* Time is the Tick action; a life is the number of ticks left to a key.   *)
(* The guard uses a key either as a value or as a counter, never as both.  *)
(***************************************************************************)
EXTENDS Naturals

CONSTANTS
    ValueKeys,      \* keys used with get, set
    CounterKeys,    \* keys used with incr_in_window
    Values,
    Absent,         \* what get returns for a key that is not there
    MaxLife,        \* bound on ttl_s and window_s, in ticks
    MaxCount        \* bound on the counters, where they saturate

VARIABLES
    values,     \* per key: its value and the life left to it
    counters    \* per key: its count and the life left to its window

vars == <<values, counters>>

Lives == 1 .. MaxLife

Forever == 0    \* the life of a value set without ttl_s

NoValue == [value |-> Absent, life |-> Forever]

NoCounter == [count |-> 0, life |-> 0]

TypeOK ==
    /\ values \in [ValueKeys -> [value : Values \cup {Absent},
                                 life : {Forever} \cup Lives]]
    /\ counters \in [CounterKeys -> [count : 0 .. MaxCount,
                                     life : 0 .. MaxLife]]

Init ==
    /\ values = [k \in ValueKeys |-> NoValue]
    /\ counters = [k \in CounterKeys |-> NoCounter]

(* await store.get(k)                                                      *)
Got(k) == values[k].value

Set(k, v, life) ==
    /\ values' = [values EXCEPT ![k] = [value |-> v, life |-> life]]
    /\ UNCHANGED counters

DeleteValue(k) ==
    /\ values' = [values EXCEPT ![k] = NoValue]
    /\ UNCHANGED counters

DeleteCounter(k) ==
    /\ counters' = [counters EXCEPT ![k] = NoCounter]
    /\ UNCHANGED values

\* A fault: the count as it was before the increment.
CountBefore(k) == counters[k].count

(* What incr_in_window returns.  Counts saturate at MaxCount, which is to  *)
(* lie above every count a caller tells from the next.                     *)
CountAfter(k) ==
    IF counters[k].count < MaxCount THEN counters[k].count + 1 ELSE MaxCount

\* A fault: INCR, then EXPIRE on every call.
IncrRefreshingWindow(k, window) ==
    /\ counters' = [counters EXCEPT ![k] =
                      [count |-> CountAfter(k), life |-> window]]
    /\ UNCHANGED values

\* A fault: the process dies between INCR and EXPIRE, and the counter it
\* created never expires.
IncrWithoutExpire(k, window) ==
    /\ counters' = [counters EXCEPT ![k].count = CountAfter(k)]
    /\ UNCHANGED values

(* The life is set by the increment that creates the counter, only.        *)
IncrInWindow(k, window) ==
    /\ counters' = [counters EXCEPT ![k] =
                      [count |-> CountAfter(k),
                       life  |-> IF @.count = 0 THEN window ELSE @.life]]
    /\ UNCHANGED values

Aged(entry, gone) ==
    IF entry.life = 1 THEN gone
    ELSE IF entry.life = 0 THEN entry
    ELSE [entry EXCEPT !.life = @ - 1]

(* One unit of time passes, and what has no life left expires.             *)
Tick ==
    /\ values' = [k \in ValueKeys |-> Aged(values[k], NoValue)]
    /\ counters' = [k \in CounterKeys |-> Aged(counters[k], NoCounter)]
=============================================================================
