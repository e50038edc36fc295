----------------------------- MODULE Transport ------------------------------
(***************************************************************************)
(* ResilientCaller (mainager/transport.py): calls that run concurrently,   *)
(* are paced by a token bucket per scope, and are repeated after a         *)
(* transient failure only when repeating cannot charge twice.              *)
(*                                                                         *)
(* Time is relative.  A sleeping call counts the ticks left, a bucket the  *)
(* ticks since it was last refilled, and both stop where the code can no   *)
(* longer tell the difference, so that time need not be bounded.  Tokens   *)
(* are counted in parts of 1/Window of a token: one tick adds the capacity *)
(* to a bucket.  A sleep ends no earlier than it was asked to.  The        *)
(* counters attempts_made and waits_s, which nothing reads, are left out.  *)
(***************************************************************************)
EXTENDS Integers, FiniteSets, Functions

CONSTANTS
    Calls,          \* the calls that may be made
    Requests,       \* records [scope, billable, key]
    Limits,         \* limited scope |-> requests per Window
    Window,         \* TokenBucket.per_seconds, in ticks
    MaxAttempts,    \* RetryPolicy.max_attempts
    BaseDelay,      \* RetryPolicy.base_delay_s, in ticks
    MaxDelay,       \* RetryPolicy.max_delay_s, in ticks
    Responses,      \* records [status, error, retry_after]
    None            \* Python's None

Buckets == DOMAIN Limits

ASSUME RequestsAssumption == \A r \in Requests : r.billable \in BOOLEAN

ASSUME LimitsAssumption ==
    /\ Window \in Nat \ {0}
    /\ Limits \in [Buckets -> Nat \ {0}]

ASSUME PolicyAssumption ==
    /\ MaxAttempts \in Nat \ {0}
    /\ BaseDelay \in Nat
    /\ MaxDelay \in Nat

ASSUME ResponsesAssumption ==
    \A r \in Responses : r.retry_after \in Nat \cup {None}

ASSUME NoneAssumption == None \notin {"returned", "unsafe", "raised"}

VARIABLES
    tokens,         \* per bucket: what is left in it
    age,            \* per bucket: ticks since its last refill
    request,        \* per call: its arguments
    pc,             \* per call: the await it is suspended at
    attempt,        \* per call: the number of its attempt
    wake,           \* per call: ticks left of its sleep
    last,           \* per call: the last response
    ended,          \* per call: how it ended
    on_way,         \* per call: requests the provider has and has not charged
    charges,        \* per call: how often the provider charged for it
    used,           \* the idempotency keys the provider charged for
    granted         \* per bucket and age: takes that need not wait

bucketVars == <<tokens, age, granted>>

callVars == <<request, pc, attempt, wake, last, ended>>

providerVars == <<on_way, charges, used>>

vars == <<bucketVars, callVars, providerVars>>

-----------------------------------------------------------------------------
(* Retry policy *)

RetryableStatus == {429, 500, 502, 503, 504}

TerminalErrors ==
    {"insufficient_balance", "daily_spend_limit_exceeded",
     "idempotency_key_conflict", "duplicate_request", "insufficient_scope",
     "invalid_token", "missing_token", "validation_failed"}

\* A fault: the status decides alone.
ShouldRetryByStatus(r) == r.status \in RetryableStatus

ShouldRetry(r) ==
    /\ r.status \in RetryableStatus
    /\ r.error \notin TerminalErrors

\* A fault: a charge that may have landed is repeated like anything else.
RepeatIsSafeAlways(q) == TRUE

RepeatIsSafe(q) == ~ q.billable \/ q.key # None

\* A fault: one attempt too few.
LastAttemptEarly(n) == n >= MaxAttempts - 1

LastAttempt(n) == n = MaxAttempts

Least(m, n) == IF m <= n THEN m ELSE n

(* What delay_for may return: the server's hint wins, else full jitter.    *)
DelaysFor(n, r) ==
    IF r.retry_after # None
    THEN {Least(r.retry_after, MaxDelay)}
    ELSE 0 .. Least(BaseDelay * 2 ^ (n - 1), MaxDelay)

-----------------------------------------------------------------------------
(* Token buckets *)

\* A fault: an idle bucket overflows.
RefilledUncapped(s) == tokens[s] + age[s] * Limits[s]

Refilled(s) == Least(Limits[s] * Window, tokens[s] + age[s] * Limits[s])

HasToken(s) == Refilled(s) >= Window

(* The deficit, divided by the rate, rounded up to a tick.                 *)
WaitFor(s) == (Window - Refilled(s) + Limits[s] - 1) \div Limits[s]

(* take(): the token is spent, or there is none and what was left is lost. *)
Take(s) ==
    /\ tokens' = [tokens EXCEPT ![s] =
                    IF HasToken(s) THEN Refilled(s) - Window ELSE 0]
    /\ age' = [age EXCEPT ![s] = 0]
    /\ granted' = IF HasToken(s)
                  THEN [granted EXCEPT ![s][0] = @ + 1]
                  ELSE granted

-----------------------------------------------------------------------------
(* The provider *)

(* What becomes of a request whose response the caller sees or misses: it  *)
(* is refused, charged for, or charged for later.  A key is charged once.  *)
Fates == {"refused", "charged", "late"}

Charge(c) ==
    LET k == request[c].key
    IN  IF k # None /\ k \in used
        THEN UNCHANGED <<charges, used>>
        ELSE /\ charges' = [charges EXCEPT ![c] = @ + 1]
             /\ used' = IF k = None THEN used ELSE used \cup {k}

Arrive(c, fate) ==
    \/ /\ fate = "refused" \/ ~ request[c].billable
       /\ UNCHANGED providerVars
    \/ /\ fate = "charged" /\ request[c].billable
       /\ Charge(c)
       /\ UNCHANGED on_way
    \/ /\ fate = "late" /\ request[c].billable
       /\ on_way' = [on_way EXCEPT ![c] = @ + 1]
       /\ UNCHANGED <<charges, used>>

ChargeLate(c) ==
    /\ on_way[c] > 0
    /\ on_way' = [on_way EXCEPT ![c] = @ - 1]
    /\ Charge(c)
    /\ UNCHANGED <<bucketVars, callVars>>

-----------------------------------------------------------------------------
(* ResilientCaller.call *)

Ages == 0 .. Window - 1

Init ==
    /\ tokens = [s \in Buckets |-> Limits[s] * Window]
    /\ age = [s \in Buckets |-> 0]
    /\ request = [c \in Calls |-> None]
    /\ pc = [c \in Calls |-> "idle"]
    /\ attempt = [c \in Calls |-> 0]
    /\ wake = [c \in Calls |-> 0]
    /\ last = [c \in Calls |-> None]
    /\ ended = [c \in Calls |-> None]
    /\ on_way = [c \in Calls |-> 0]
    /\ charges = [c \in Calls |-> 0]
    /\ used = {}
    /\ granted = [s \in Buckets |-> [a \in Ages |-> 0]]

Sleep(c, label, delay) ==
    /\ pc' = [pc EXCEPT ![c] = label]
    /\ wake' = [wake EXCEPT ![c] = delay]

(* An attempt of call c goes out.                                          *)
Send(c) == pc' = [pc EXCEPT ![c] = "sending"] /\ UNCHANGED wake

(* An attempt begins: the bucket of the scope is asked, if there is one.   *)
Pace(c, s, n) ==
    /\ attempt' = [attempt EXCEPT ![c] = n]
    /\ \/ s \notin Buckets /\ Send(c) /\ UNCHANGED bucketVars
       \/ s \in Buckets /\ HasToken(s) /\ Take(s) /\ Send(c)
       \/ /\ s \in Buckets
          /\ ~ HasToken(s)
          /\ Sleep(c, "pacing", WaitFor(s))
          /\ Take(s)

Begin(c, q) ==
    /\ pc[c] = "idle"
    /\ request' = [request EXCEPT ![c] = q]
    /\ Pace(c, q.scope, 1)
    /\ UNCHANGED <<last, ended, providerVars>>

PaceOver(c) ==
    /\ pc[c] = "pacing"
    /\ wake[c] = 0
    /\ Send(c)
    /\ UNCHANGED <<bucketVars, request, attempt, last, ended, providerVars>>

\* A fault: the attempts are not counted.
BackoffOverUncounted(c) ==
    /\ pc[c] = "backoff"
    /\ wake[c] = 0
    /\ Pace(c, request[c].scope, attempt[c])
    /\ UNCHANGED <<request, last, ended, providerVars>>

BackoffOver(c) ==
    /\ pc[c] = "backoff"
    /\ wake[c] = 0
    /\ Pace(c, request[c].scope, attempt[c] + 1)
    /\ UNCHANGED <<request, last, ended, providerVars>>

End(c, how) ==
    /\ pc' = [pc EXCEPT ![c] = "done"]
    /\ ended' = [ended EXCEPT ![c] = how]
    /\ UNCHANGED wake

(* The response r is here.                                                 *)
Answer(c, r, fate) ==
    /\ pc[c] = "sending"
    /\ r.status < 400 => fate = "charged"
    /\ Arrive(c, fate)
    /\ last' = [last EXCEPT ![c] = r]
    /\ \/ ~ ShouldRetry(r) /\ End(c, "returned")
       \/ ShouldRetry(r) /\ ~ RepeatIsSafe(request[c]) /\ End(c, "unsafe")
       \/ /\ ShouldRetry(r)
          /\ RepeatIsSafe(request[c])
          /\ LastAttempt(attempt[c])
          /\ End(c, "returned")
       \/ /\ ShouldRetry(r)
          /\ RepeatIsSafe(request[c])
          /\ ~ LastAttempt(attempt[c])
          /\ \E d \in DelaysFor(attempt[c], r) : Sleep(c, "backoff", d)
          /\ UNCHANGED ended
    /\ UNCHANGED <<bucketVars, request, attempt>>

(* send() raises: no response came in time.  Nothing catches it.           *)
SendRaises(c, fate) ==
    /\ pc[c] = "sending"
    /\ Arrive(c, fate)
    /\ End(c, "raised")
    /\ UNCHANGED <<bucketVars, request, attempt, last>>

Older(count) == [a \in Ages |-> IF a = 0 THEN 0 ELSE count[a - 1]]

Tick ==
    /\ age' = [s \in Buckets |-> Least(age[s] + 1, Window)]
    /\ wake' = [c \in Calls |-> IF wake[c] = 0 THEN 0 ELSE wake[c] - 1]
    /\ granted' = [s \in Buckets |-> Older(granted[s])]
    /\ UNCHANGED <<tokens, request, pc, attempt, last, ended, providerVars>>

Resume(c) ==
    \/ PaceOver(c)
    \/ BackoffOver(c)
    \/ \E fate \in Fates :
         \/ \E r \in Responses : Answer(c, r, fate)
         \/ SendRaises(c, fate)

Next ==
    \/ \E c \in Calls :
         \/ \E q \in Requests : Begin(c, q)
         \/ Resume(c)
         \/ ChargeLate(c)
    \/ Tick

(* Time passes, sleepers are woken, and the HTTP client gives up a request *)
(* that stays unanswered.                                                  *)
Spec ==
    /\ Init
    /\ [][Next]_vars
    /\ WF_vars(Tick)
    /\ \A c \in Calls : WF_vars(Resume(c))

-----------------------------------------------------------------------------
(* Properties *)

TypeOK ==
    /\ tokens \in [Buckets -> Nat]
    /\ \A s \in Buckets : tokens[s] <= Limits[s] * Window
    /\ age \in [Buckets -> 0 .. Window]
    /\ request \in [Calls -> Requests \cup {None}]
    /\ pc \in [Calls -> {"idle", "pacing", "sending", "backoff", "done"}]
    /\ attempt \in [Calls -> 0 .. MaxAttempts]
    /\ wake \in [Calls -> Nat]
    /\ last \in [Calls -> Responses \cup {None}]
    /\ ended \in [Calls -> {None, "returned", "unsafe", "raised"}]
    /\ on_way \in [Calls -> Nat]
    /\ charges \in [Calls -> Nat]
    /\ granted \in [Buckets -> [Ages -> Nat]]

(* Nobody is charged twice for one thing: not for one call, however often  *)
(* it was answered ambiguously, repeated, and charged for after the caller *)
(* was told of a failure, nor for two calls with one key                   *)
(* (transport.py:6-11, 204-211).                                           *)
ChargedOnce ==
    /\ \A c \in Calls : charges[c] <= 1
    /\ \A c, d \in Calls :
         /\ charges[c] > 0
         /\ charges[d] > 0
         /\ request[c].key = request[d].key
         /\ request[c].key # None
         => c = d

(* A call goes on only after a failure that may pass: not after it was     *)
(* answered, nor after the account was found empty, whatever the status    *)
(* (transport.py:18-19, 47-58, 154-159).                                   *)
OnlyTransientRepeated ==
    [][\A c \in Calls :
         attempt[c] > 0 /\ attempt'[c] > attempt[c] =>
           /\ last[c].status \in {429, 500, 502, 503, 504}
           /\ last[c].error \notin {"insufficient_balance",
                "daily_spend_limit_exceeded", "duplicate_request"}]_vars

(* And it does go on: a failure that may pass is handed to the caller only *)
(* after the last attempt, or because repeating was not safe, which is     *)
(* found out at once (transport.py:206-214).                               *)
GivesUpLate ==
    \A c \in Calls :
        /\ ended[c] = "returned" /\ ShouldRetry(last[c]) =>
             attempt[c] = MaxAttempts /\ RepeatIsSafe(request[c])
        /\ ended[c] = "unsafe" =>
             attempt[c] = 1 /\ request[c].billable /\ request[c].key = None

InLastWindow(count) == SumFunction(count)

(* What a bucket lets through without a wait in any window is what it may  *)
(* hold and what flows in meanwhile, whichever calls take it               *)
(* (transport.py:112-128).                                                 *)
GrantedWithinRate ==
    \A s \in Buckets :
        InLastWindow(granted[s])
          <= Limits[s] + ((Window - 1) * Limits[s]) \div Window

(* Every call ends, however often it is told to wait.                      *)
CallEnds ==
    \A c \in Calls : pc[c] # "idle" ~> pc[c] = "done"

-----------------------------------------------------------------------------
(* Inductive invariant, proved in TransportProofs *)

Unkeyed(c) == request[c].billable /\ request[c].key = None

(* What was charged for a call or may still be, against where the call is: *)
(* one that may not be repeated has sent at most one request, and one that *)
(* may is charged under a key the provider remembers.                      *)
Accounted(c) ==
    /\ request[c] \in Requests
    /\ ~ request[c].billable => charges[c] = 0 /\ on_way[c] = 0
    /\ Unkeyed(c) =>
         /\ pc[c] # "backoff"
         /\ attempt[c] = 1
         /\ charges[c] + on_way[c] <= IF pc[c] = "done" THEN 1 ELSE 0
    /\ request[c].key # None /\ charges[c] > 0 =>
         charges[c] = 1 /\ request[c].key \in used

PaymentInv ==
    /\ \A c \in Calls : pc[c] = "idle" => charges[c] = 0 /\ on_way[c] = 0
    /\ \A c \in Calls : pc[c] # "idle" => Accounted(c)
    /\ ChargedOnce

(* How far a call has come, and what it has been told.                     *)
ProgressInv ==
    /\ \A c \in Calls : ended[c] # None => pc[c] = "done"
    /\ \A c \in Calls : pc[c] = "idle" => attempt[c] = 0
    /\ \A c \in Calls : pc[c] = "backoff" =>
         ShouldRetry(last[c]) /\ attempt[c] < MaxAttempts
    /\ GivesUpLate

(* Of what a full bucket holds and what flows in during some ticks, what   *)
(* was taken in these ticks and what is left are parts.                    *)
RateInv ==
    \A s \in Buckets : \A a \in Ages :
        Window * SumFunctionOnSet(granted[s], 0 .. a) + Refilled(s)
          <= (Window + a) * Limits[s]
=============================================================================
