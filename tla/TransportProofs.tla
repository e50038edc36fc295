-------------------------- MODULE TransportProofs ---------------------------
(***************************************************************************)
(* Theorems about Transport, for any calls, requests, limits, policy and   *)
(* responses.  The invariant Inv has three parts: types (TypeOK), how far  *)
(* a call has come (ProgressInv), which bounds its attempts, and what was  *)
(* charged for it (PaymentInv).  Each action keeps each part.  On top of   *)
(* Inv comes RateInv: what a bucket granted in a second, and what is       *)
(* booked of it, is within the bucket's rate.                              *)
(***************************************************************************)
EXTENDS Transport, SumProofs

Inv == TypeOK /\ ProgressInv /\ PaymentInv

-----------------------------------------------------------------------------
(* Lemmas about the operators *)

LEMMA LeastProperties ==
    ASSUME NEW m \in Nat, NEW n \in Nat
    PROVE  Least(m, n) \in Nat /\ Least(m, n) <= m /\ Least(m, n) <= n
BY DEF Least

(* A call is told to wait a number of ticks.                               *)
LEMMA DelaysAreNatural ==
    ASSUME NEW n, NEW r \in Responses
    PROVE  DelaysFor(n, r) \subseteq Nat
<1>1. CASE r.retry_after # None
  BY <1>1, ResponsesAssumption, PolicyAssumption, LeastProperties
  DEF DelaysFor
<1>2. CASE r.retry_after = None
  <2> DEFINE top == Least(BaseDelay * 2 ^ (n - 1), MaxDelay)
  <2>1. 0 .. top \subseteq Nat
    OBVIOUS
  <2> QED BY <1>2, <2>1 DEF DelaysFor
<1> QED BY <1>1, <1>2

(* A bucket is refilled up to its capacity, and a caller who finds no      *)
(* token there is told to wait for a number of ticks.                      *)
LEMMA BucketProperties ==
    ASSUME TypeOK, NEW s \in Buckets
    PROVE  /\ Limits[s] * Window \in Nat
           /\ Refilled(s) \in Nat
           /\ Refilled(s) <= Limits[s] * Window
           /\ ~ HasToken(s) => WaitFor(s) \in Nat
<1>1. /\ Limits[s] \in Nat
      /\ Limits[s] > 0
      /\ Window \in Nat
      /\ tokens[s] \in Nat
      /\ age[s] \in Nat
  BY LimitsAssumption DEF TypeOK
<1>2. Limits[s] * Window \in Nat /\ age[s] * Limits[s] \in Nat
  BY <1>1
<1>3. tokens[s] + age[s] * Limits[s] \in Nat
  BY <1>1, <1>2
<1>4. Refilled(s) \in Nat /\ Refilled(s) <= Limits[s] * Window
  BY <1>2, <1>3, LeastProperties DEF Refilled
<1>5. ASSUME ~ HasToken(s)
      PROVE  WaitFor(s) \in Nat
  <2>1. Window - Refilled(s) + Limits[s] - 1 \in Nat
    BY <1>1, <1>4, <1>5 DEF HasToken
  <2> QED BY <2>1, <1>1 DEF WaitFor
<1> QED BY <1>2, <1>4, <1>5

-----------------------------------------------------------------------------
(* Types *)

LEMMA InitType == Init => TypeOK
<1> SUFFICES ASSUME Init PROVE TypeOK
  OBVIOUS
<1>1. \A s \in Buckets : Limits[s] * Window \in Nat
  BY LimitsAssumption
<1>2. tokens \in [Buckets -> Nat]
      /\ \A s \in Buckets : tokens[s] <= Limits[s] * Window
  BY <1>1 DEF Init
<1>3. age \in [Buckets -> 0 .. Window]
  BY LimitsAssumption DEF Init
<1>4. granted \in [Buckets -> [Ages -> Nat]]
  BY DEF Init
<1> QED BY <1>2, <1>3, <1>4, PolicyAssumption DEF Init, TypeOK

LEMMA TakeType ==
    ASSUME TypeOK, NEW s \in Buckets, Take(s)
    PROVE  /\ tokens' \in [Buckets -> Nat]
           /\ \A t \in Buckets : tokens'[t] <= Limits[t] * Window
           /\ age' \in [Buckets -> 0 .. Window]
           /\ granted' \in [Buckets -> [Ages -> Nat]]
<1> DEFINE left == IF HasToken(s) THEN Refilled(s) - Window ELSE 0
<1>1. left \in Nat /\ left <= Limits[s] * Window
  BY BucketProperties, LimitsAssumption DEF HasToken
<1>2. tokens' \in [Buckets -> Nat]
      /\ \A t \in Buckets : tokens'[t] <= Limits[t] * Window
  BY <1>1 DEF Take, TypeOK
<1>3. age' \in [Buckets -> 0 .. Window]
  BY LimitsAssumption DEF Take, TypeOK
<1>4. granted' \in [Buckets -> [Ages -> Nat]]
  <2>1. 0 \in Ages
    BY LimitsAssumption DEF Ages
  <2> QED BY <2>1 DEF Take, TypeOK
<1> QED BY <1>2, <1>3, <1>4

LEMMA PaceType ==
    ASSUME TypeOK, NEW c \in Calls, NEW s, NEW n \in 1 .. MaxAttempts,
           request' \in [Calls -> Requests \cup {None}],
           Pace(c, s, n), UNCHANGED <<last, ended, providerVars>>
    PROVE  TypeOK'
<1>1. /\ tokens' \in [Buckets -> Nat]
      /\ \A t \in Buckets : tokens'[t] <= Limits[t] * Window
      /\ age' \in [Buckets -> 0 .. Window]
      /\ granted' \in [Buckets -> [Ages -> Nat]]
  <2>1. CASE s \notin Buckets
    BY <2>1 DEF Pace, bucketVars, TypeOK
  <2>2. CASE s \in Buckets
    <3>1. Take(s)
      BY <2>2 DEF Pace
    <3> QED BY <2>2, <3>1, TakeType
  <2> QED BY <2>1, <2>2
<1>2. /\ pc' \in [Calls -> {"idle", "pacing", "sending", "backoff", "done"}]
      /\ wake' \in [Calls -> Nat]
  <2>1. pc' \in [Calls -> {"idle", "pacing", "sending", "backoff", "done"}]
    BY DEF Pace, Send, Sleep, TypeOK
  <2>2. wake' \in [Calls -> Nat]
    BY BucketProperties DEF Pace, Send, Sleep, TypeOK
  <2> QED BY <2>1, <2>2
<1>3. attempt' \in [Calls -> 0 .. MaxAttempts]
  BY DEF Pace, TypeOK
<1> QED BY <1>1, <1>2, <1>3 DEF TypeOK, providerVars

LEMMA ChargeType ==
    ASSUME TypeOK, NEW c \in Calls, Charge(c)
    PROVE  charges' \in [Calls -> Nat]
BY DEF Charge, TypeOK

LEMMA ArriveType ==
    ASSUME TypeOK, NEW c \in Calls, NEW fate, Arrive(c, fate)
    PROVE  charges' \in [Calls -> Nat] /\ on_way' \in [Calls -> Nat]
BY ChargeType DEF Arrive, providerVars, TypeOK

LEMMA NextType ==
    ASSUME Inv, [Next]_vars
    PROVE  TypeOK'
<1> USE DEF Inv
<1>1. ASSUME UNCHANGED vars
      PROVE  TypeOK'
  BY <1>1 DEF vars, bucketVars, callVars, providerVars, TypeOK
<1>2. ASSUME NEW c \in Calls, NEW q \in Requests, Begin(c, q)
      PROVE  TypeOK'
  <2>1. request' \in [Calls -> Requests \cup {None}]
    BY <1>2 DEF Begin, TypeOK
  <2>2. 1 \in 1 .. MaxAttempts
    BY PolicyAssumption
  <2> QED BY <1>2, <2>1, <2>2, PaceType DEF Begin
<1>3. ASSUME NEW c \in Calls, PaceOver(c)
      PROVE  TypeOK'
  BY <1>3 DEF PaceOver, Send, bucketVars, providerVars, TypeOK
<1>4. ASSUME NEW c \in Calls, BackoffOver(c)
      PROVE  TypeOK'
  <2>1. request' \in [Calls -> Requests \cup {None}]
    BY <1>4 DEF BackoffOver, TypeOK
  <2>2. attempt[c] + 1 \in 1 .. MaxAttempts
    BY <1>4, PolicyAssumption DEF BackoffOver, ProgressInv, TypeOK
  <2>3. Pace(c, request[c].scope, attempt[c] + 1)
        /\ UNCHANGED <<last, ended, providerVars>>
    BY <1>4 DEF BackoffOver
  <2> QED BY <2>1, <2>2, <2>3, PaceType
<1>5. ASSUME NEW c \in Calls, NEW r \in Responses, NEW fate \in Fates,
             Answer(c, r, fate)
      PROVE  TypeOK'
  <2>1. charges' \in [Calls -> Nat] /\ on_way' \in [Calls -> Nat]
    BY <1>5, ArriveType DEF Answer
  <2>2. /\ pc' \in [Calls -> {"idle", "pacing", "sending", "backoff", "done"}]
        /\ wake' \in [Calls -> Nat]
        /\ ended' \in [Calls -> {None, "returned", "unsafe", "raised"}]
    <3>1. CASE \E how \in {"returned", "unsafe"} : End(c, how)
      BY <3>1 DEF End, TypeOK
    <3>2. CASE /\ \E d \in DelaysFor(attempt[c], r) : Sleep(c, "backoff", d)
               /\ UNCHANGED ended
      <4>1. PICK d \in Nat : Sleep(c, "backoff", d)
        BY <3>2, DelaysAreNatural
      <4> QED BY <3>2, <4>1 DEF Sleep, TypeOK
    <3> QED BY <1>5, <3>1, <3>2 DEF Answer
  <2>3. last' \in [Calls -> Responses \cup {None}]
    BY <1>5 DEF Answer, TypeOK
  <2> QED BY <1>5, <2>1, <2>2, <2>3 DEF Answer, bucketVars, TypeOK
<1>6. ASSUME NEW c \in Calls, NEW fate \in Fates, SendRaises(c, fate)
      PROVE  TypeOK'
  <2>1. charges' \in [Calls -> Nat] /\ on_way' \in [Calls -> Nat]
    BY <1>6, ArriveType DEF SendRaises
  <2> QED BY <1>6, <2>1 DEF SendRaises, End, bucketVars, TypeOK
<1>7. ASSUME NEW c \in Calls, ChargeLate(c)
      PROVE  TypeOK'
  <2>1. charges' \in [Calls -> Nat]
    BY <1>7, ChargeType DEF ChargeLate
  <2>2. on_way' \in [Calls -> Nat]
    <3>1. on_way[c] - 1 \in Nat
      BY <1>7 DEF ChargeLate, TypeOK
    <3> QED BY <1>7, <3>1 DEF ChargeLate, TypeOK
  <2> QED BY <1>7, <2>1, <2>2 DEF ChargeLate, bucketVars, callVars, TypeOK
<1>8. ASSUME Tick
      PROVE  TypeOK'
  <2>1. age' \in [Buckets -> 0 .. Window]
    BY <1>8, LimitsAssumption DEF Tick, Least, TypeOK
  <2>2. \A f \in [Ages -> Nat] : Older(f) \in [Ages -> Nat]
    BY LimitsAssumption DEF Older, Ages
  <2>3. granted' \in [Buckets -> [Ages -> Nat]]
    BY <1>8, <2>2 DEF Tick, TypeOK
  <2>4. wake' \in [Calls -> Nat]
    <3>1. \A c \in Calls : (IF wake[c] = 0 THEN 0 ELSE wake[c] - 1) \in Nat
      BY DEF TypeOK
    <3> QED BY <1>8, <3>1 DEF Tick
  <2> QED BY <1>8, <2>1, <2>3, <2>4 DEF Tick, providerVars, TypeOK
<1> QED BY <1>1, <1>2, <1>3, <1>4, <1>5, <1>6, <1>7, <1>8 DEF Next, Resume

-----------------------------------------------------------------------------
(* Progress *)

LEMMA PaceProgress ==
    ASSUME Inv, NEW c \in Calls, pc[c] \in {"idle", "backoff"},
           NEW s, NEW n, Pace(c, s, n),
           \A d \in Calls : d # c => request'[d] = request[d],
           UNCHANGED <<last, ended>>
    PROVE  ProgressInv'
<1>1. /\ \A d \in Calls : d # c => pc'[d] = pc[d] /\ attempt'[d] = attempt[d]
      /\ pc'[c] \in {"pacing", "sending"}
      /\ ended[c] = None
  BY DEF Inv, TypeOK, ProgressInv, Pace, Send, Sleep
<1>2. \A d \in Calls : ended'[d] # None => pc'[d] = "done"
  BY <1>1 DEF Inv, ProgressInv
<1>3. \A d \in Calls : pc'[d] = "backoff" =>
        ShouldRetry(last'[d]) /\ attempt'[d] < MaxAttempts
  BY <1>1 DEF Inv, ProgressInv
<1>4. GivesUpLate'
  BY <1>1, NoneAssumption DEF Inv, ProgressInv, GivesUpLate, RepeatIsSafe
<1>5. \A d \in Calls : pc'[d] = "idle" => attempt'[d] = 0
  BY <1>1 DEF Inv, ProgressInv
<1> QED BY <1>2, <1>3, <1>4, <1>5 DEF ProgressInv

LEMMA AnswerProgress ==
    ASSUME Inv, NEW c \in Calls, NEW r \in Responses, NEW fate,
           Answer(c, r, fate)
    PROVE  ProgressInv'
<1>1. /\ \A d \in Calls : d # c => /\ pc'[d] = pc[d]
                                   /\ ended'[d] = ended[d]
                                   /\ last'[d] = last[d]
      /\ last'[c] = r
      /\ UNCHANGED <<request, attempt>>
      /\ attempt[c] \in 0 .. MaxAttempts
      /\ ended[c] = None
  BY DEF Inv, TypeOK, ProgressInv, Answer, End, Sleep
<1>2. \/ pc'[c] = "done" /\ ended'[c] = "returned"
           /\ (ShouldRetry(r) =>
                 RepeatIsSafe(request[c]) /\ attempt[c] = MaxAttempts)
      \/ pc'[c] = "done" /\ ended'[c] = "unsafe" /\ ~ RepeatIsSafe(request[c])
      \/ pc'[c] = "backoff" /\ ended'[c] = None
           /\ ShouldRetry(r) /\ attempt[c] # MaxAttempts
  BY <1>1 DEF Inv, TypeOK, Answer, End, Sleep, LastAttempt
<1>3. ~ RepeatIsSafe(request[c]) =>
        attempt[c] = 1 /\ request[c].billable /\ request[c].key = None
  BY DEF Inv, PaymentInv, Accounted, Unkeyed, RepeatIsSafe, Answer
<1>4. \A d \in Calls : ended'[d] # None => pc'[d] = "done"
  BY <1>1, <1>2 DEF Inv, ProgressInv
<1>5. \A d \in Calls : pc'[d] = "backoff" =>
        ShouldRetry(last'[d]) /\ attempt'[d] < MaxAttempts
  BY <1>1, <1>2, PolicyAssumption DEF Inv, ProgressInv
<1>6. GivesUpLate'
  BY <1>1, <1>2, <1>3, NoneAssumption
  DEF Inv, ProgressInv, GivesUpLate, RepeatIsSafe
<1>7. \A d \in Calls : pc'[d] = "idle" => attempt'[d] = 0
  BY <1>1, <1>2 DEF Inv, ProgressInv
<1> QED BY <1>4, <1>5, <1>6, <1>7 DEF ProgressInv

LEMMA NextProgress ==
    ASSUME Inv, [Next]_vars
    PROVE  ProgressInv'
<1>1. ASSUME UNCHANGED <<request, pc, attempt, last, ended>>
      PROVE  ProgressInv'
  BY <1>1 DEF Inv, ProgressInv, GivesUpLate, RepeatIsSafe
<1>2. ASSUME NEW c \in Calls, NEW q \in Requests, Begin(c, q)
      PROVE  ProgressInv'
  BY <1>2, PaceProgress DEF Begin, Inv, TypeOK
<1>3. ASSUME NEW c \in Calls, PaceOver(c)
      PROVE  ProgressInv'
  BY <1>3, NoneAssumption
  DEF PaceOver, Send, Inv, TypeOK, ProgressInv, GivesUpLate, RepeatIsSafe
<1>4. ASSUME NEW c \in Calls, BackoffOver(c)
      PROVE  ProgressInv'
  BY <1>4, PaceProgress DEF BackoffOver
<1>5. ASSUME NEW c \in Calls, NEW fate \in Fates, SendRaises(c, fate)
      PROVE  ProgressInv'
  BY <1>5, NoneAssumption
  DEF SendRaises, End, Inv, TypeOK, ProgressInv, GivesUpLate, RepeatIsSafe
<1>6. ASSUME NEW c \in Calls, ChargeLate(c)
      PROVE  ProgressInv'
  BY <1>1, <1>6 DEF ChargeLate, callVars
<1>7. ASSUME Tick
      PROVE  ProgressInv'
  BY <1>1, <1>7 DEF Tick
<1>8. ASSUME UNCHANGED vars
      PROVE  ProgressInv'
  BY <1>1, <1>8 DEF vars, callVars
<1> QED
  BY <1>2, <1>3, <1>4, <1>5, <1>6, <1>7, <1>8, AnswerProgress
  DEF Next, Resume

-----------------------------------------------------------------------------
(* Payment *)

(* A charge touches one call, is a first charge if it has a key, and then  *)
(* leaves the key with the provider.                                       *)
LEMMA ChargeEffect ==
    ASSUME Inv, NEW c \in Calls, pc[c] # "idle", Charge(c)
    PROVE  /\ \A d \in Calls : d # c => charges'[d] = charges[d]
           /\ charges'[c] \in {charges[c], charges[c] + 1}
           /\ used \subseteq used'
           /\ request[c].key # None =>
                /\ request[c].key \in used'
                /\ charges'[c] # charges[c] =>
                     charges[c] = 0 /\ request[c].key \notin used
<1>1. charges[c] \in Nat
  BY DEF Inv, TypeOK
<1>2. request[c].key # None /\ charges[c] > 0 => request[c].key \in used
  BY DEF Inv, PaymentInv, Accounted
<1> QED BY <1>1, <1>2 DEF Charge, Inv, TypeOK

(* A key with which a call was charged is one the provider knows.          *)
LEMMA ChargedKeyUsed ==
    ASSUME Inv, NEW d \in Calls, charges[d] > 0, request[d].key # None
    PROVE  request[d].key \in used
BY DEF Inv, PaymentInv, Accounted, TypeOK

(* A charge for a request that is being sent, or that is on its way.       *)
LEMMA ChargePayment ==
    ASSUME Inv, NEW c \in Calls, pc[c] # "idle", request[c].billable,
           Charge(c), NEW left, on_way' = [on_way EXCEPT ![c] = left],
           left \in Nat,
           \/ left = on_way[c] /\ pc[c] = "sending"
           \/ left = on_way[c] - 1,
           UNCHANGED <<request, attempt>>,
           \A d \in Calls : d # c => pc'[d] = pc[d],
           pc'[c] # "idle",
           Unkeyed(c) => /\ pc'[c] # "backoff"
                         /\ pc'[c] = pc[c] \/ pc'[c] = "done"
                         /\ pc[c] = "sending" => pc'[c] = "done"
    PROVE  PaymentInv'
<1>1. /\ \A d \in Calls : d # c => charges'[d] = charges[d]
      /\ charges'[c] \in {charges[c], charges[c] + 1}
      /\ used \subseteq used'
      /\ request[c].key # None =>
           /\ request[c].key \in used'
           /\ charges'[c] # charges[c] =>
                charges[c] = 0 /\ request[c].key \notin used
  BY ChargeEffect
<1>2. charges[c] \in Nat /\ on_way[c] \in Nat /\ on_way'[c] = left
      /\ \A d \in Calls : d # c => on_way'[d] = on_way[d]
  BY DEF Inv, TypeOK
<1>3. Unkeyed(c) => charges'[c] + on_way'[c] <= IF pc'[c] = "done" THEN 1 ELSE 0
  <2> SUFFICES ASSUME Unkeyed(c)
               PROVE  charges'[c] + left <= IF pc'[c] = "done" THEN 1 ELSE 0
    BY <1>2
  <2>1. charges[c] + on_way[c] <= IF pc[c] = "done" THEN 1 ELSE 0
    BY DEF Inv, PaymentInv, Accounted
  <2>2. CASE left = on_way[c] /\ pc[c] = "sending"
    BY <2>1, <2>2, <1>1, <1>2
  <2>3. CASE left = on_way[c] - 1
    BY <2>1, <2>3, <1>1, <1>2
  <2> QED BY <2>2, <2>3
<1>4. \A d \in Calls : pc'[d] = "idle" => charges'[d] = 0 /\ on_way'[d] = 0
  BY <1>1, <1>2 DEF Inv, PaymentInv, Accounted
<1>5. request[c].key # None /\ charges'[c] > 0 => charges'[c] = 1
  BY <1>1, <1>2 DEF Inv, PaymentInv, Accounted
<1>6. \A d \in Calls : pc'[d] # "idle" => Accounted(d)'
  <2> TAKE d \in Calls
  <2> HAVE pc'[d] # "idle"
  <2>1. CASE d = c
    BY <2>1, <1>1, <1>3, <1>5 DEF Inv, PaymentInv, Accounted, Unkeyed
  <2>2. CASE d # c
    BY <2>2, <1>1, <1>2 DEF Inv, PaymentInv, Accounted, Unkeyed
  <2> QED BY <2>1, <2>2
<1>7. ChargedOnce'
  <2>1. \A d \in Calls : charges'[d] <= 1
    <3>1. charges'[c] <= 1
      <4>1. CASE request[c].key # None
        BY <4>1, <1>1, <1>2 DEF Inv, PaymentInv, Accounted, ChargedOnce
      <4>2. CASE request[c].key = None
        BY <4>2, <1>2, <1>3, <1>1 DEF Unkeyed
      <4> QED BY <4>1, <4>2
    <3> QED BY <3>1, <1>1 DEF Inv, PaymentInv, Accounted, ChargedOnce
  <2>2. ASSUME NEW d \in Calls, NEW e \in Calls,
               charges'[d] > 0, charges'[e] > 0,
               request'[d].key = request'[e].key, request'[d].key # None
        PROVE  d = e
    <3>1. \A f \in Calls : f # c /\ charges'[f] > 0 /\ request[f].key # None =>
            request[f].key \in used
      BY <1>1, ChargedKeyUsed
    <3>2. CASE charges'[c] = charges[c]
      BY <2>2, <3>2, <1>1 DEF Inv, PaymentInv, Accounted, ChargedOnce
    <3>3. CASE charges'[c] # charges[c]
      <4>1. d = c /\ e # c => FALSE
        BY <2>2, <3>1, <3>3, <1>1
      <4>2. e = c /\ d # c => FALSE
        BY <2>2, <3>1, <3>3, <1>1
      <4>3. d # c /\ e # c => d = e
        BY <2>2, <1>1 DEF Inv, PaymentInv, Accounted, ChargedOnce
      <4> QED BY <4>1, <4>2, <4>3
    <3> QED BY <3>2, <3>3
  <2> QED BY <2>1, <2>2 DEF ChargedOnce
<1> QED BY <1>4, <1>6, <1>7 DEF PaymentInv

(* The request of call c reaches the provider, or is lost on the way.      *)
LEMMA ArrivePayment ==
    ASSUME Inv, NEW c \in Calls, pc[c] = "sending",
           NEW fate \in Fates, Arrive(c, fate),
           UNCHANGED <<request, attempt>>,
           \A d \in Calls : d # c => pc'[d] = pc[d],
           pc'[c] \in {"done", "backoff"},
           Unkeyed(c) => pc'[c] = "done"
    PROVE  PaymentInv'
<1>1. \A d \in Calls : d # c /\ pc'[d] # "idle" /\ UNCHANGED charges
                      /\ used' = used /\ on_way'[d] = on_way[d]
                      => Accounted(d)'
  BY DEF Inv, PaymentInv, Accounted, Unkeyed
<1>2. CASE UNCHANGED providerVars
  <2>1. UNCHANGED <<on_way, charges, used>>
    BY <1>2 DEF providerVars
  <2>2. Accounted(c)'
    BY <2>1 DEF Inv, TypeOK, PaymentInv, Accounted, Unkeyed
  <2>3. ChargedOnce'
    BY <2>1 DEF Inv, PaymentInv, ChargedOnce
  <2> QED BY <1>1, <2>1, <2>2, <2>3 DEF Inv, PaymentInv
<1>3. CASE fate = "charged" /\ request[c].billable
  <2>1. Charge(c) /\ UNCHANGED on_way
    BY <1>3 DEF Arrive
  <2>2. on_way[c] \in Nat /\ on_way' = [on_way EXCEPT ![c] = on_way[c]]
    BY <2>1 DEF Inv, TypeOK
  <2> QED BY <1>3, <2>1, <2>2, ChargePayment
<1>4. CASE fate = "late" /\ request[c].billable
  <2>1. /\ on_way[c] \in Nat
        /\ on_way'[c] = on_way[c] + 1
        /\ \A d \in Calls : d # c => on_way'[d] = on_way[d]
        /\ UNCHANGED <<charges, used>>
    BY <1>4 DEF Arrive, Inv, TypeOK
  <2>2. Accounted(c)'
    <3>1. Accounted(c) /\ charges[c] \in Nat
      BY DEF Inv, TypeOK, PaymentInv
    <3>2. Unkeyed(c) => charges[c] = 0 /\ on_way[c] = 0
      BY <2>1, <3>1 DEF Accounted
    <3> QED BY <1>4, <2>1, <3>1, <3>2 DEF Accounted, Unkeyed
  <2>3. ChargedOnce'
    BY <2>1 DEF Inv, PaymentInv, ChargedOnce
  <2> QED BY <1>1, <2>1, <2>2, <2>3 DEF Inv, PaymentInv
<1> QED BY <1>2, <1>3, <1>4 DEF Arrive, Fates

LEMMA NextPayment ==
    ASSUME Inv, [Next]_vars
    PROVE  PaymentInv'
<1>1. ASSUME UNCHANGED <<request, pc, attempt, providerVars>>
      PROVE  PaymentInv'
  BY <1>1 DEF providerVars, Inv, PaymentInv, Accounted, ChargedOnce, Unkeyed
<1>2. ASSUME NEW c \in Calls, NEW q \in Requests, Begin(c, q)
      PROVE  PaymentInv'
  <2>1. /\ \A d \in Calls : d # c => /\ pc'[d] = pc[d]
                                     /\ attempt'[d] = attempt[d]
                                     /\ request'[d] = request[d]
        /\ pc'[c] \in {"pacing", "sending"}
        /\ attempt'[c] = 1
        /\ request'[c] = q
        /\ charges[c] = 0 /\ on_way[c] = 0
        /\ UNCHANGED <<on_way, charges, used>>
    BY <1>2 DEF Begin, Pace, Send, Sleep, providerVars, Inv, TypeOK, PaymentInv, Accounted
  <2> QED BY <2>1 DEF Inv, PaymentInv, Accounted, ChargedOnce, Unkeyed
<1>3. ASSUME NEW c \in Calls, PaceOver(c)
      PROVE  PaymentInv'
  <2>1. /\ \A d \in Calls : d # c => pc'[d] = pc[d]
        /\ pc[c] = "pacing" /\ pc'[c] = "sending"
        /\ UNCHANGED <<request, attempt, on_way, charges, used>>
    BY <1>3 DEF PaceOver, Send, providerVars, Inv, TypeOK
  <2> QED BY <2>1 DEF Inv, PaymentInv, Accounted, ChargedOnce, Unkeyed
<1>4. ASSUME NEW c \in Calls, BackoffOver(c)
      PROVE  PaymentInv'
  <2>1. /\ \A d \in Calls : d # c => /\ pc'[d] = pc[d]
                                     /\ attempt'[d] = attempt[d]
        /\ pc[c] = "backoff" /\ pc'[c] \in {"pacing", "sending"}
        /\ UNCHANGED <<request, on_way, charges, used>>
    BY <1>4 DEF BackoffOver, Pace, Send, Sleep, providerVars, Inv, TypeOK
  <2> QED BY <2>1 DEF Inv, PaymentInv, Accounted, ChargedOnce, Unkeyed
<1>5. ASSUME NEW c \in Calls, NEW r \in Responses, NEW fate \in Fates,
             Answer(c, r, fate)
      PROVE  PaymentInv'
  <2>1. /\ \A d \in Calls : d # c => pc'[d] = pc[d]
        /\ pc'[c] \in {"done", "backoff"}
        /\ pc'[c] = "backoff" => RepeatIsSafe(request[c])
    BY <1>5 DEF Answer, End, Sleep, Inv, TypeOK
  <2>2. Unkeyed(c) => pc'[c] = "done"
    BY <2>1 DEF Unkeyed, RepeatIsSafe
  <2> QED BY <1>5, <2>1, <2>2, ArrivePayment DEF Answer
<1>6. ASSUME NEW c \in Calls, NEW fate \in Fates, SendRaises(c, fate)
      PROVE  PaymentInv'
  <2>1. /\ \A d \in Calls : d # c => pc'[d] = pc[d]
        /\ pc'[c] = "done"
    BY <1>6 DEF SendRaises, End, Inv, TypeOK
  <2> QED BY <1>6, <2>1, ArrivePayment DEF SendRaises
<1>7. ASSUME NEW c \in Calls, ChargeLate(c)
      PROVE  PaymentInv'
  <2>1. /\ on_way[c] > 0
        /\ on_way[c] - 1 \in Nat
        /\ on_way' = [on_way EXCEPT ![c] = on_way[c] - 1]
        /\ Charge(c)
        /\ UNCHANGED <<request, attempt, pc>>
    BY <1>7 DEF ChargeLate, callVars, Inv, TypeOK
  <2>2. pc[c] # "idle" /\ request[c].billable /\ (Unkeyed(c) => pc[c] = "done")
    BY <2>1, RequestsAssumption DEF Inv, TypeOK, PaymentInv, Accounted
  <2> QED BY <2>1, <2>2, ChargePayment
<1>8. ASSUME Tick
      PROVE  PaymentInv'
  BY <1>1, <1>8 DEF Tick
<1>9. ASSUME UNCHANGED vars
      PROVE  PaymentInv'
  BY <1>1, <1>9 DEF vars, callVars
<1> QED
  BY <1>2, <1>3, <1>4, <1>5, <1>6, <1>7, <1>8, <1>9 DEF Next, Resume

-----------------------------------------------------------------------------
(* The rate of a bucket *)

LEMMA RatesAtFirst == Init => RateInv
<1> SUFFICES ASSUME Init, NEW s \in Buckets, NEW a \in Ages
             PROVE  Window * SumFunctionOnSet(granted[s], 0 .. a) + Refilled(s)
                      <= (Window + a) * Limits[s]
  BY DEF RateInv
<1>1. SumFunctionOnSet(granted[s], 0 .. a) = 0
  <2>1. \A x \in 0 .. a : granted[s][x] = 0
    <3>1. 0 .. a \subseteq Ages
      BY LimitsAssumption DEF Ages
    <3> QED BY <3>1 DEF Init
  <2>2. IsFiniteSet(0 .. a)
    BY FS_Interval DEF Ages
  <2> QED BY <2>1, <2>2, SumOfZeros
<1>2. Refilled(s) <= Limits[s] * Window /\ Refilled(s) \in Nat
  BY InitType, BucketProperties
<1>3. /\ a \in Nat /\ Limits[s] \in Nat /\ Window \in Nat
      /\ a * Limits[s] \in Nat
  BY LimitsAssumption DEF Ages
<1>4. (Window + a) * Limits[s] = Limits[s] * Window + a * Limits[s]
  BY <1>3
<1>5. Window * SumFunctionOnSet(granted[s], 0 .. a) = 0
  BY <1>1, <1>3
<1> QED BY <1>2, <1>3, <1>4, <1>5

(* What was taken is a number at every age.                                *)
LEMMA Taken ==
    ASSUME TypeOK, NEW s \in Buckets, NEW a \in Ages
    PROVE  /\ a \in 0 .. Window - 1
           /\ \A x \in 0 .. a : granted[s][x] \in Nat
           /\ SumFunctionOnSet(granted[s], 0 .. a) \in Nat
<1>1. /\ a \in 0 .. Window - 1
      /\ \A x \in 0 .. a : granted[s][x] \in Nat
  BY LimitsAssumption DEF TypeOK, Ages
<1> QED BY <1>1, LimitsAssumption, PrefixIsNat

LEMMA TakeRate ==
    ASSUME TypeOK, RateInv, NEW t \in Buckets, Take(t)
    PROVE  RateInv'
<1> SUFFICES ASSUME NEW s \in Buckets, NEW a \in Ages
             PROVE  Window * SumFunctionOnSet(granted'[s], 0 .. a) + Refilled(s)'
                      <= (Window + a) * Limits[s]
  BY DEF RateInv
<1> DEFINE P == SumFunctionOnSet(granted[s], 0 .. a)
           Q == SumFunctionOnSet(granted'[s], 0 .. a)
<1>1. Window * P + Refilled(s) <= (Window + a) * Limits[s]
  BY DEF RateInv
<1>2. /\ P \in Nat /\ Refilled(s) \in Nat /\ Window \in Nat \ {0}
      /\ Limits[s] \in Nat \ {0} /\ a \in Nat
      /\ Refilled(s) <= Limits[s] * Window /\ Limits[s] * Window \in Nat
  BY Taken, BucketProperties, LimitsAssumption
<1>3. CASE s # t
  <2>1. granted'[s] = granted[s] /\ tokens'[s] = tokens[s] /\ age'[s] = age[s]
    BY <1>3 DEF Take, TypeOK
  <2> QED BY <1>1, <2>1 DEF Refilled
<1>4. CASE s = t /\ HasToken(s)
  <2>1. /\ tokens'[s] = Refilled(s) - Window /\ age'[s] = 0
        /\ granted'[s] = [granted[s] EXCEPT ![0] = @ + 1]
    BY <1>4 DEF Take, TypeOK
  <2>2. Refilled(s) - Window \in Nat
    BY <1>2, <1>4 DEF HasToken
  <2>3. Refilled(s)' = Refilled(s) - Window
    <3>1. Refilled(s)' = Least(Limits[s] * Window,
                               (Refilled(s) - Window) + 0 * Limits[s])
      BY <2>1 DEF Refilled
    <3>2. 0 * Limits[s] = 0
      BY <1>2
    <3> QED BY <1>2, <2>2, <3>1, <3>2 DEF Least
  <2>4. Q = P + 1
    <3>1. 0 \in 0 .. a /\ 0 .. a \subseteq Ages
      BY <1>2 DEF Ages
    <3>2. granted[s] \in [Ages -> Nat] /\ IsFiniteSet(0 .. a)
      BY <1>2, FS_Interval DEF TypeOK
    <3>3. /\ granted'[s][0] = granted[s][0] + 1
          /\ \A x \in (0 .. a) \ {0} : granted'[s][x] = granted[s][x]
          /\ \A x \in 0 .. a : granted[s][x] \in Int
      BY <2>1, <3>1, <3>2
    <3> QED BY <3>1, <3>2, <3>3, SumBumped
  <2>5. Window * Q = Window * P + Window
    BY <1>2, <2>4
  <2>6. Window * P \in Nat /\ (Window + a) * Limits[s] \in Nat
    BY <1>2
  <2> QED BY <1>1, <1>2, <2>3, <2>5, <2>6
<1>5. CASE s = t /\ ~ HasToken(s)
  <2>1. tokens'[s] = 0 /\ age'[s] = 0 /\ granted' = granted
    BY <1>5 DEF Take, TypeOK
  <2>2. Refilled(s)' = 0
    <3>1. Refilled(s)' = Least(Limits[s] * Window, 0 + 0 * Limits[s])
      BY <2>1 DEF Refilled
    <3>2. 0 * Limits[s] = 0
      BY <1>2
    <3> QED BY <1>2, <3>1, <3>2 DEF Least
  <2>3. Window * P \in Nat /\ (Window + a) * Limits[s] \in Nat
    BY <1>2
  <2> QED BY <1>1, <1>2, <2>1, <2>2, <2>3
<1> QED BY <1>3, <1>4, <1>5

LEMMA TickRate ==
    ASSUME TypeOK, RateInv, Tick
    PROVE  RateInv'
<1> SUFFICES ASSUME NEW s \in Buckets, NEW a \in Ages
             PROVE  Window * SumFunctionOnSet(granted'[s], 0 .. a) + Refilled(s)'
                      <= (Window + a) * Limits[s]
  BY DEF RateInv
<1> DEFINE P(n) == SumFunctionOnSet(granted[s], 0 .. n)
           Q == SumFunctionOnSet(granted'[s], 0 .. a)
<1>1. /\ Refilled(s) \in Nat /\ Window \in Nat \ {0}
      /\ Limits[s] \in Nat \ {0} /\ a \in Nat /\ a < Window
      /\ Refilled(s) <= Limits[s] * Window /\ Limits[s] * Window \in Nat
  BY BucketProperties, LimitsAssumption DEF Ages
<1>2. /\ Refilled(s)' <= Refilled(s) + Limits[s]
      /\ Refilled(s)' <= Limits[s] * Window
      /\ Refilled(s)' \in Nat
  <2>1. /\ age'[s] = Least(age[s] + 1, Window) /\ tokens'[s] = tokens[s]
        /\ tokens[s] \in Nat /\ age[s] \in 0 .. Window
    BY DEF Tick, TypeOK
  <2>2. age'[s] \in Nat /\ age'[s] <= age[s] + 1 /\ age[s] \in Nat
    BY <1>1, <2>1 DEF Least
  <2>3. /\ age'[s] * Limits[s] <= age[s] * Limits[s] + Limits[s]
        /\ age'[s] * Limits[s] \in Nat /\ age[s] * Limits[s] \in Nat
    <3>1. Limits[s] * age'[s] <= Limits[s] * (age[s] + 1)
      BY <1>1, <2>2, Monotone
    <3> QED BY <1>1, <2>2, <3>1
  <2>4. /\ Refilled(s)' = Least(Limits[s] * Window,
                                tokens[s] + age'[s] * Limits[s])
        /\ Refilled(s) = Least(Limits[s] * Window,
                               tokens[s] + age[s] * Limits[s])
    BY <2>1 DEF Refilled
  <2> HIDE DEF P, Q
  <2> QED BY <1>1, <2>1, <2>3, <2>4 DEF Least
<1>3. /\ \A x \in 0 .. a : granted[s][x] \in Nat
      /\ granted'[s][0] = 0
      /\ \A x \in 1 .. a : granted'[s][x] = granted[s][x - 1]
  <2>1. 0 .. a \subseteq Ages /\ 0 \in Ages
    BY <1>1 DEF Ages
  <2>2. granted'[s] = [x \in Ages |-> IF x = 0 THEN 0 ELSE granted[s][x - 1]]
    BY DEF Tick, Older, TypeOK, Ages
  <2> QED BY <1>1, <2>1, <2>2, Taken
<1>4. Q = P(a - 1)
  BY <1>1, <1>3, PrefixShifted
<1>5. CASE a = 0
  <2>1. Q = 0
    BY <1>4, <1>5, PrefixOfNone
  <2>2. Window * Q = 0 /\ (Window + a) * Limits[s] = Limits[s] * Window
    BY <1>1, <1>5, <2>1
  <2> QED BY <1>1, <1>2, <2>2
<1>6. CASE a # 0
  <2>1. a - 1 \in Ages
    BY <1>1, <1>6 DEF Ages
  <2>2. Window * P(a - 1) + Refilled(s) <= (Window + (a - 1)) * Limits[s]
    BY <2>1 DEF RateInv
  <2>3. P(a - 1) \in Nat
    BY <2>1, Taken
  <2>4. (Window + a) * Limits[s] = (Window + (a - 1)) * Limits[s] + Limits[s]
    BY <1>1
  <2>5. Window * P(a - 1) \in Nat /\ (Window + (a - 1)) * Limits[s] \in Nat
    BY <1>1, <1>6, <2>3
  <2> DEFINE taken == Window * P(a - 1)
             inflow == (Window + (a - 1)) * Limits[s]
  <2>6. taken + Refilled(s) <= inflow /\ Window * Q = taken
    BY <1>4, <2>2
  <2> HIDE DEF P, Q, taken, inflow
  <2>7. taken + Refilled(s)' <= inflow + Limits[s]
    BY <1>1, <1>2, <2>5, <2>6 DEF taken, inflow
  <2> QED BY <1>1, <2>4, <2>6, <2>7 DEF Q, inflow
<1> QED BY <1>5, <1>6

LEMMA NextRate ==
    ASSUME TypeOK, RateInv, [Next]_vars
    PROVE  RateInv'
<1>1. CASE bucketVars' = bucketVars
  BY <1>1 DEF bucketVars, RateInv, Refilled
<1>2. ASSUME NEW s \in Buckets, Take(s) PROVE RateInv'
  BY <1>2, TakeRate
<1>3. CASE Tick
  BY <1>3, TickRate
<1>4. bucketVars' = bucketVars \/ Tick \/ \E s \in Buckets : Take(s)
  BY DEF Next, Resume, Begin, BackoffOver, Pace, PaceOver, Answer, SendRaises,
         ChargeLate, vars
<1> QED BY <1>1, <1>2, <1>3, <1>4

-----------------------------------------------------------------------------
(* Theorems *)

LEMMA Invariance == Spec => []Inv
<1>1. Init => Inv
  <2> SUFFICES ASSUME Init PROVE Inv
    OBVIOUS
  <2>1. ProgressInv
    BY NoneAssumption DEF Init, ProgressInv, GivesUpLate
  <2>2. PaymentInv
    BY DEF Init, PaymentInv, Accounted, ChargedOnce
  <2> QED BY <2>1, <2>2, InitType DEF Inv
<1>2. Inv /\ [Next]_vars => Inv'
  BY NextType, NextProgress, NextPayment DEF Inv
<1> QED BY <1>1, <1>2, PTL DEF Spec

(* The values the variables range over; no bucket holds more than its      *)
(* capacity, no call makes more than max_attempts attempts.                *)
THEOREM TransportTypeCorrect == Spec => []TypeOK
<1>1. Inv => TypeOK
  BY DEF Inv
<1> QED BY <1>1, Invariance, PTL

(* No call, and no two calls with one key, are charged twice, for any      *)
(* number of calls and attempts and any limits, if the provider charges a  *)
(* key once (transport.py:6-11, 204-211).                                  *)
THEOREM NeverChargedTwice == Spec => []ChargedOnce
<1>1. Inv => ChargedOnce
  BY DEF Inv, PaymentInv, Accounted
<1> QED BY <1>1, Invariance, PTL

(* A transient failure is handed to the caller after max_attempts attempts *)
(* or because repeating was not safe (transport.py:206-214).               *)
THEOREM TransientGivenUpLate == Spec => []GivesUpLate
<1>1. Inv => GivesUpLate
  BY DEF Inv, ProgressInv
<1> QED BY <1>1, Invariance, PTL

(* What a bucket holds and what flows in bound what it lets through, in    *)
(* any window and for any limits and schedule (transport.py:112-128).      *)
THEOREM BucketsKeepTheirRate == Spec => []GrantedWithinRate
<1>1. TypeOK /\ RateInv => GrantedWithinRate
  <2> SUFFICES ASSUME TypeOK, RateInv, NEW s \in Buckets
               PROVE  InLastWindow(granted[s])
                        <= Limits[s] + ((Window - 1) * Limits[s]) \div Window
    BY DEF GrantedWithinRate
  <2> DEFINE G == InLastWindow(granted[s])
             L == Limits[s]
             X == (Window - 1) * L
  <2>1. G = SumFunctionOnSet(granted[s], 0 .. Window - 1)
    BY DEF InLastWindow, SumFunction, TypeOK, Ages
  <2>2. Window - 1 \in Ages /\ Window \in Nat \ {0} /\ L \in Nat \ {0}
    BY LimitsAssumption DEF Ages
  <2>3. G \in Nat /\ Refilled(s) \in Nat
    BY <2>1, <2>2, Taken, BucketProperties
  <2>4. Window * G + Refilled(s) <= (Window + (Window - 1)) * L
    BY <2>1, <2>2 DEF RateInv
  <2>5. X \in Nat /\ (Window + (Window - 1)) * L = Window * L + X
    BY <2>2
  <2> HIDE DEF G, L, X
  <2>6. X \div Window \in Nat
    BY <2>2, <2>5
  <2>7. CASE G <= L
    BY <2>2, <2>3, <2>6, <2>7 DEF G, L, X
  <2>8. CASE G > L
    <3>1. (G - L) * Window = Window * G - Window * L /\ G - L \in Nat
      BY <2>2, <2>3, <2>8
    <3>2. (G - L) * Window <= X
      <4>1. Window * G \in Nat /\ Window * L \in Nat
        BY <2>2, <2>3
      <4> QED BY <2>3, <2>4, <2>5, <3>1, <4>1
    <3>3. G - L <= X \div Window
      BY <2>2, <2>5, <3>1, <3>2, Quotient
    <3>4. G <= L + X \div Window
      BY <2>2, <2>3, <2>6, <3>3
    <3> QED BY <3>4 DEF G, L, X
  <2> QED BY <2>2, <2>3, <2>7, <2>8
<1>2. Init => RateInv
  BY RatesAtFirst
<1>3. TypeOK /\ RateInv /\ [Next]_vars => RateInv'
  BY NextRate
<1> QED BY <1>1, <1>2, <1>3, TransportTypeCorrect, PTL DEF Spec

(* Nothing but a failure that may pass is followed by another attempt      *)
(* (transport.py:154-159, 206-218).                                        *)
THEOREM TransientAloneRepeated == Spec => OnlyTransientRepeated
<1> DEFINE Step ==
      \A c \in Calls :
         attempt[c] > 0 /\ attempt'[c] > attempt[c] =>
           /\ last[c].status \in {429, 500, 502, 503, 504}
           /\ last[c].error \notin {"insufficient_balance",
                "daily_spend_limit_exceeded", "duplicate_request"}
<1>1. Inv /\ [Next]_vars => [Step]_vars
  <2> SUFFICES ASSUME Inv, [Next]_vars, NEW c \in Calls,
                      attempt[c] > 0, attempt'[c] > attempt[c]
               PROVE  ShouldRetry(last[c])
    BY DEF ShouldRetry, RetryableStatus, TerminalErrors
  <2>1. attempt'[c] = attempt[c] => FALSE
    BY DEF Inv, TypeOK
  <2>2. PICK d \in Calls : (\E q \in Requests : Begin(d, q)) \/ BackoffOver(d)
    BY <2>1 DEF Next, Resume, PaceOver, Answer, SendRaises, ChargeLate,
                Tick, vars, callVars
  <2>3. d = c
    BY <2>1, <2>2 DEF Begin, BackoffOver, Pace, Inv, TypeOK
  <2>4. pc[c] # "idle"
    BY DEF Inv, ProgressInv
  <2> QED BY <2>2, <2>3, <2>4 DEF Begin, BackoffOver, Inv, ProgressInv
<1>2. [][Step]_vars => OnlyTransientRepeated
  BY DEF OnlyTransientRepeated
<1> QED BY <1>1, <1>2, Invariance, PTL DEF Spec
=============================================================================
