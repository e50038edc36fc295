---------------------------- MODULE TransportMC -----------------------------
(***************************************************************************)
(* Instances of Transport for model checking.                              *)
(***************************************************************************)
EXTENDS Transport, TLC

CONSTANT key1

Request(scope, billable, key) ==
    [scope |-> scope, billable |-> billable, key |-> key]

(* A paid call with and without a key, and a free one without a bucket.    *)
MixedRequests ==
    {Request("generate", TRUE, key1), Request("generate", TRUE, None),
     Request("upload", FALSE, None)}

Reads == {Request("read", FALSE, None)}

GenerateLimit == "generate" :> 1

ReadLimit == "read" :> 2

Response(status, error, hint) ==
    [status |-> status, error |-> error, retry_after |-> hint]

(* Success, a transient failure with and without a hint, and an empty      *)
(* account under a status that would be retried.                           *)
MixedResponses ==
    {Response(200, None, None), Response(429, "rate_limited", 3),
     Response(503, None, None), Response(429, "insufficient_balance", None)}

Success == {Response(200, None, None)}

CallSymmetry == Permutations(Calls)
=============================================================================
