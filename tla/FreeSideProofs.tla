---------------------------- MODULE FreeSideProofs ----------------------------
(***************************************************************************)
(* For every catalog, plan, history, market and set of answers:            *)
(*   - a plan is refused exactly if it cannot be ordered, what is priced   *)
(*     is an honest request, what is chosen is the cheapest of what was    *)
(*     answered about it, and "go" means covered;                          *)
(*   - the report on the history is on what its generations are put        *)
(*     together to, and its sums are those of its verdicts;                *)
(*   - the claims that were measured are the claims that were asked for,   *)
(*     and 0 is the exit code of those that all hold;                      *)
(*   - the drift log is history, and the gap it reports covers every tier  *)
(*     that the catalog does not know.                                     *)
(*                                                                         *)
(* First the data: what the folds of the models are (Folds), that a body   *)
(* that compiles is honest (BodyIsHonest), that a choice is least          *)
(* (BestIsCheapest).  Then the invariant FreeInv of what is in flight and  *)
(* what was recorded; on top of it, each                                   *)
(* with an invariant of its own, the walk of the planner (PlanInv), the    *)
(* sums of the report (VerdictsInv), the verification (VerifyInv) and the  *)
(* drift job (DriftInv).                                                   *)
(***************************************************************************)
EXTENDS FreeSide, SumProofs

-----------------------------------------------------------------------------
(* Folds *)

(* The recursion by which FoldLeft is defined takes the last place off.    *)
FoldStep(D, base, s, g) == IF s = {} THEN base ELSE D[<<Max(s), g[s \ {Max(s)}]>>]

FoldEquation(D, base, S, g) == g = [s \in S |-> FoldStep(D, base, s, g)]

LEMMA MaxOf ==
    ASSUME NEW n \in Nat, NEW s \in SUBSET (1 .. n), s # {}
    PROVE  /\ Max(s) \in s
           /\ \A m \in s : m <= Max(s)
<1> DEFINE Distances == {n - m : m \in s}
<1>1. Distances \in SUBSET Nat /\ Distances # {}
  <2>1. \A m \in s : m \in 1 .. n /\ n - m \in Nat
    OBVIOUS
  <2>2. PICK m \in s : TRUE
    OBVIOUS
  <2>3. n - m \in Distances
    OBVIOUS
  <2> QED BY <2>1, <2>3
<1>2. PICK d \in Distances : \A e \in Distances : d <= e
  <2> HIDE DEF Distances
  <2> QED BY <1>1, LeastOf
<1>3. PICK m \in s : d = n - m
  BY <1>2
<1>4. \A k \in s : m >= k
  BY <1>2, <1>3
<1> QED BY <1>4 DEF Max

LEMMA FoldExists ==
    ASSUME NEW n \in Nat, NEW V, NEW base \in V, NEW D \in [(1 .. n) \X V -> V]
    PROVE  \E h \in [SUBSET (1 .. n) -> V] :
             FoldEquation(D, base, SUBSET (1 .. n), h)
<1> DEFINE S == 1 .. n
           Good == {k \in Nat : \E g \in [UpTo(S, k) -> V] :
                                  FoldEquation(D, base, UpTo(S, k), g)}
<1>0. IsFiniteSet(S)
  BY FS_Interval
<1>1. \A s \in SUBSET S : IsFiniteSet(s) /\ Cardinality(s) \in Nat
  BY <1>0, FS_Subset, FS_CardinalityType
<1>2. 0 \in Good
  <2>1. \A s \in UpTo(S, 0) : s = {}
    BY <1>1, FS_EmptySet DEF UpTo
  <2>2. FoldEquation(D, base, UpTo(S, 0), [s \in UpTo(S, 0) |-> base])
    BY <2>1 DEF FoldEquation, FoldStep
  <2>3. [s \in UpTo(S, 0) |-> base] \in [UpTo(S, 0) -> V]
    OBVIOUS
  <2> QED BY <2>2, <2>3
<1>3. ASSUME NEW k \in Nat, k \in Good PROVE k + 1 \in Good
  <2>1. PICK g \in [UpTo(S, k) -> V] : FoldEquation(D, base, UpTo(S, k), g)
    BY <1>3
  <2> DEFINE h == [s \in UpTo(S, k + 1) |-> FoldStep(D, base, s, g)]
  <2>2. ASSUME NEW s \in UpTo(S, k + 1), s # {}
        PROVE  /\ s \ {Max(s)} \in UpTo(S, k)
               /\ s \ {Max(s)} \in UpTo(S, k + 1)
               /\ Max(s) \in S
    <3>1. Max(s) \in s
      BY <2>2, MaxOf DEF UpTo
    <3>2. Cardinality(s \ {Max(s)}) = Cardinality(s) - 1
      BY <1>1, <2>2, <3>1, FS_RemoveElement DEF UpTo
    <3>3. s \in SUBSET S /\ Cardinality(s) <= k + 1 /\ Cardinality(s) \in Nat
      BY <1>1 DEF UpTo
    <3> HIDE DEF S
    <3>4. s \ {Max(s)} \in SUBSET S /\ Cardinality(s \ {Max(s)}) <= k
      BY <3>2, <3>3
    <3>5. Cardinality(s \ {Max(s)}) <= k + 1
      BY <3>2, <3>3
    <3> QED BY <3>1, <3>3, <3>4, <3>5 DEF UpTo
  <2>3. \A t \in UpTo(S, k) : t \in UpTo(S, k + 1) /\ h[t] = g[t]
    BY <1>1, <2>1 DEF FoldEquation, UpTo
  <2>4. \A s \in UpTo(S, k + 1) : FoldStep(D, base, s, g) = FoldStep(D, base, s, h)
    BY <2>2, <2>3 DEF FoldStep
  <2>5. FoldEquation(D, base, UpTo(S, k + 1), h)
    BY <2>4 DEF FoldEquation
  <2>6. h \in [UpTo(S, k + 1) -> V]
    <3>1. \A s \in UpTo(S, k + 1) : FoldStep(D, base, s, g) \in V
      BY <2>1, <2>2 DEF FoldStep
    <3> QED BY <3>1
  <2> HIDE DEF h
  <2> QED BY <2>5, <2>6
<1> HIDE DEF Good
<1>4. Good = Nat
  <2>1. Good \in SUBSET Nat
    BY DEF Good
  <2> QED BY <1>2, <1>3, <2>1, NatSteps
<1>5. UpTo(S, Cardinality(S)) = SUBSET S /\ Cardinality(S) \in Nat
  BY <1>0, <1>1, FS_Subset, FS_CardinalityType DEF UpTo
<1>6. PICK g \in [UpTo(S, Cardinality(S)) -> V] :
         FoldEquation(D, base, UpTo(S, Cardinality(S)), g)
  BY <1>4, <1>5 DEF Good
<1> QED BY <1>5, <1>6

(* Prefixes of the places. *)
LEMMA LastPlace ==
    ASSUME NEW n \in Nat, NEW i \in 1 .. n
    PROVE  /\ 1 .. i \in SUBSET (1 .. n)
           /\ 1 .. i # {}
           /\ Max(1 .. i) = i
           /\ (1 .. i) \ {i} = 1 .. i - 1
<1>1. 1 .. i \in SUBSET (1 .. n) /\ i \in 1 .. i
  OBVIOUS
<1>2. Max(1 .. i) \in 1 .. i /\ i <= Max(1 .. i)
  BY <1>1, MaxOf
<1>3. Max(1 .. i) = i
  BY <1>2
<1> QED
  BY <1>1, <1>3

(* The members that are kept, taken from the left (Among of Registry).     *)
AmongStep(seq, kept, s, g) ==
    IF s = {} THEN <<>>
    ELSE IF seq[Max(s)] \in kept THEN Append(g[s \ {Max(s)}], seq[Max(s)])
         ELSE g[s \ {Max(s)}]

AmongEquation(seq, kept, g) ==
    g = [s \in SUBSET DOMAIN seq |-> AmongStep(seq, kept, s, g)]

LEMMA AmongUnfolds ==
    ASSUME NEW seq, NEW kept
    PROVE  Among(seq, kept) =
             (CHOOSE g : AmongEquation(seq, kept, g))[DOMAIN seq]
BY DEF Among, FoldLeft, MapThenFoldSet, AmongEquation, AmongStep

(* What is kept of the first i members.                                    *)
LEMMA AmongByPlace ==
    ASSUME NEW X, NEW seq \in Seq(X), NEW kept
    PROVE  \E g : /\ g[0] = <<>>
                  /\ \A i \in 1 .. Len(seq) :
                       g[i] = IF seq[i] \in kept THEN Append(g[i - 1], seq[i])
                              ELSE g[i - 1]
                  /\ Among(seq, kept) = g[Len(seq)]
<1> DEFINE n == Len(seq)
           V == Seq(X)
           D == [p \in (1 .. n) \X V |->
                   IF seq[p[1]] \in kept THEN Append(p[2], seq[p[1]]) ELSE p[2]]
<1>0. /\ n \in Nat /\ DOMAIN seq = 1 .. n
      /\ \A i \in 1 .. n : seq[i] \in X
  OBVIOUS
<1>1. \E h : AmongEquation(seq, kept, h)
  <2>1. <<>> \in V /\ D \in [(1 .. n) \X V -> V]
    <3>1. \A i \in 1 .. n, v \in V : Append(v, seq[i]) \in V
      BY <1>0
    <3> QED BY <3>1
  <2> HIDE DEF V, D, n
  <2>2. PICK h \in [SUBSET (1 .. n) -> V] :
          FoldEquation(D, <<>>, SUBSET (1 .. n), h)
    BY <1>0, <2>1, FoldExists
  <2>3. ASSUME NEW s \in SUBSET (1 .. n)
        PROVE  FoldStep(D, <<>>, s, h) = AmongStep(seq, kept, s, h)
    <3>1. CASE s = {}
      BY <3>1 DEF FoldStep, AmongStep
    <3>2. CASE s # {}
      <4>1. Max(s) \in 1 .. n /\ h[s \ {Max(s)}] \in V
        BY <1>0, <2>2, <3>2, MaxOf
      <4>2. D[<<Max(s), h[s \ {Max(s)}]>>] =
              IF seq[Max(s)] \in kept
              THEN Append(h[s \ {Max(s)}], seq[Max(s)]) ELSE h[s \ {Max(s)}]
        BY <4>1 DEF D
      <4> QED BY <3>2, <4>2 DEF FoldStep, AmongStep
    <3> QED BY <3>1, <3>2
  <2> QED BY <1>0, <2>2, <2>3 DEF FoldEquation, AmongEquation
<1> HIDE DEF V, D, n
<1>2. PICK h : /\ AmongEquation(seq, kept, h)
               /\ Among(seq, kept) = h[1 .. n]
  BY <1>0, <1>1, AmongUnfolds
<1> DEFINE g == [i \in 0 .. n |-> h[1 .. i]]
<1>3. g[0] = <<>>
  <2>1. 1 .. 0 = {} /\ 0 \in 0 .. n
    BY <1>0
  <2> QED BY <1>2, <2>1 DEF AmongEquation, AmongStep
<1>4. ASSUME NEW i \in 1 .. n
      PROVE  g[i] = IF seq[i] \in kept THEN Append(g[i - 1], seq[i])
                    ELSE g[i - 1]
  <2>1. /\ 1 .. i \in SUBSET (1 .. n)
        /\ 1 .. i # {}
        /\ Max(1 .. i) = i
        /\ (1 .. i) \ {i} = 1 .. i - 1
    BY <1>0, LastPlace
  <2>2. h[1 .. i] = AmongStep(seq, kept, 1 .. i, h)
    BY <1>0, <1>2, <2>1 DEF AmongEquation
  <2>3. g[i] = h[1 .. i] /\ g[i - 1] = h[1 .. i - 1]
    BY <1>0
  <2> HIDE DEF g
  <2> QED BY <2>1, <2>2, <2>3 DEF AmongStep
<1>5. Among(seq, kept) = g[n]
  BY <1>0, <1>2
<1> HIDE DEF g
<1> QED BY <1>3, <1>4, <1>5 DEF n

LEMMA AmongIsSeq ==
    ASSUME NEW X, NEW seq \in Seq(X), NEW kept
    PROVE  Among(seq, kept) \in Seq(X \cap kept)
<1>1. PICK g : /\ g[0] = <<>>
               /\ \A i \in 1 .. Len(seq) :
                    g[i] = IF seq[i] \in kept THEN Append(g[i - 1], seq[i])
                           ELSE g[i - 1]
               /\ Among(seq, kept) = g[Len(seq)]
  BY AmongByPlace
<1> DEFINE Good == {i \in Nat : i <= Len(seq) => g[i] \in Seq(X \cap kept)}
<1>2. 0 \in Good
  <2>1. <<>> \in Seq(X \cap kept)
    OBVIOUS
  <2> QED BY <1>1, <2>1
<1>3. ASSUME NEW i \in Nat, i \in Good PROVE i + 1 \in Good
  <2> SUFFICES ASSUME i + 1 <= Len(seq) PROVE g[i + 1] \in Seq(X \cap kept)
    OBVIOUS
  <2>1. g[i] \in Seq(X \cap kept)
    BY <1>3
  <2>2. i + 1 \in 1 .. Len(seq) /\ (i + 1) - 1 = i /\ seq[i + 1] \in X
    OBVIOUS
  <2>3. g[i + 1] = IF seq[i + 1] \in kept THEN Append(g[i], seq[i + 1]) ELSE g[i]
    BY <1>1, <2>2
  <2> HIDE DEF Good
  <2> QED BY <2>1, <2>2, <2>3
<1> HIDE DEF Good
<1>4. Good = Nat
  <2>1. Good \in SUBSET Nat
    BY DEF Good
  <2> QED BY <1>2, <1>3, <2>1, NatSteps
<1> QED BY <1>1, <1>4 DEF Good

-----------------------------------------------------------------------------
(* Bodies *)

(* The parameter for the source image is one that the model accepts.       *)
LEMMA ImageParamAccepted ==
    ASSUME NEW spec, ImageSourceParam(spec) # None
    PROVE  ImageSourceParam(spec) \in
             Accepted(spec) \cap ToSet(ImageSourceParams)
<1> DEFINE places(params) == {i \in DOMAIN ImageSourceParams :
                                ImageSourceParams[i] \in params}
           least(S) == CHOOSE i \in S : \A j \in S : i <= j
<1>1. \A params : places(params) \in SUBSET Nat
  BY DEF ImageSourceParams
<1>2. \A params : places(params) # {} =>
        least(places(params)) \in places(params)
  BY <1>1, LeastOf
<1>3. /\ places(Accepted(spec)) # {}
      /\ ImageSourceParam(spec) \in
           {ImageSourceParams[least(places(Accepted(spec)))],
            ImageSourceParams[least(places(spec.required))]}
      /\ ImageSourceParam(spec) # ImageSourceParams[least(places(Accepted(spec)))]
           => places(spec.required) # {}
  BY DEF ImageSourceParam
<1>4. \A params, i : i \in places(params) =>
        ImageSourceParams[i] \in params \cap ToSet(ImageSourceParams)
  BY DEF ToSet
<1>5. spec.required \subseteq Accepted(spec)
  BY DEF Accepted
<1> HIDE DEF places, least
<1> QED
  BY <1>2, <1>3, <1>4, <1>5

(* A body that compiles is what the model takes, and carries the intent.   *)
LEMMA BodyIsHonest ==
    ASSUME NEW intent, NEW id \in DOMAIN Specs, Compiles(intent, Specs[id])
    PROVE  /\ Takes(Body(intent, Specs[id]), Specs[id])
           /\ Carries(Body(intent, Specs[id]), intent, Specs[id])
<1> DEFINE spec   == Specs[id]
           body   == Body(intent, spec)
           image  == ImageSourceParam(spec)
           images == {p \in {image} : intent.source_image}
           kinds  == {p \in {"generation_type"} :
                        /\ intent.source_image
                        /\ "image-to-video" \in EnumOf(spec, p)}
           extra  == intent.extra_params
           keys   == {p \in {"idempotency_key"} : intent[p] # None}
           fixed  == [type |-> intent.media_type, model |-> spec.model_id,
                      prompt |-> intent.prompt, strict |-> TRUE]
           rest   == DOMAIN body \ DOMAIN extra
<1>1. DOMAIN body = DOMAIN fixed \cup images \cup kinds \cup Stated(intent)
                      \cup DOMAIN extra \cup keys
  BY DEF Body, BodyWith
<1>2. \A p \in DOMAIN body :
        body[p] = IF p \in keys \cup (Stated(intent) \ DOMAIN extra) THEN intent[p]
                  ELSE IF p \in DOMAIN extra THEN extra[p]
                  ELSE IF p \in kinds THEN "image-to-video"
                  ELSE IF p \in images THEN "url"
                  ELSE fixed[p]
  BY DEF Body, BodyWith
<1>3. DOMAIN fixed = {"type", "model", "prompt", "strict"}
  OBVIOUS
<1>4. images \subseteq Accepted(spec) \cap ToSet(ImageSourceParams)
  BY ImageParamAccepted DEF Compiles, TakesImage
<1>5. kinds \subseteq Accepted(spec)
  BY CatalogAssumption DEF EnumOf
<1>6. Stated(intent) \cup DOMAIN extra \subseteq Accepted(spec)
  BY DEF Compiles, TakesOptions
<1>7. DOMAIN body \ Envelope \subseteq Accepted(spec)
  BY <1>1, <1>3, <1>4, <1>5, <1>6 DEF Envelope
<1>8. spec.required \subseteq DOMAIN body
  BY DEF Compiles
<1>9. /\ "strict" \in DOMAIN body /\ body["strict"] = fixed["strict"]
      /\ "model" \in DOMAIN body /\ body["model"] = fixed["model"]
  <2>1. \A p \in {"strict", "model"} :
          p \notin keys \cup Stated(intent) \cup DOMAIN extra \cup kinds \cup images
    BY <1>4, <1>5, <1>6, CatalogAssumption
  <2> QED BY <1>1, <1>2, <1>3, <2>1
<1>10. body.strict = TRUE /\ body.model = spec.model_id
  BY <1>9
<1>11. Cardinality(GroupsTouched(body, spec)) <= 1
  BY DEF Compiles
<1>12. Takes(body, spec)
  <2> HIDE DEF body, spec
  <2> QED BY <1>7, <1>8, <1>10, <1>11 DEF Takes
<1>13. Stated(intent) \subseteq Options
  BY DEF Stated
<1>14. \A p \in ToSet(ImageSourceParams) :
         p \notin Options \cup {"type", "prompt", "idempotency_key",
                                "generation_type"}
  BY DEF ImageSourceParams, ToSet, Options
<1>15. /\ DOMAIN extra \cup Stated(intent) \subseteq DOMAIN body
       /\ \A p \in DOMAIN extra \ {"idempotency_key"} : body[p] = extra[p]
  <2>1. DOMAIN extra \cup Stated(intent) \subseteq DOMAIN body
    BY <1>1
  <2>2. keys \subseteq {"idempotency_key"}
    OBVIOUS
  <2> HIDE DEF body, keys, images, kinds, fixed, extra
  <2> QED BY <1>2, <2>1, <2>2
<1>16. \A p \in Stated(intent) \cap rest :
         body[p] = intent[p] /\ Allows(spec, p, body[p])
  <2>1. \A p \in Stated(intent) : Allows(spec, p, intent[p])
    BY DEF Compiles, TakesOptions
  <2>2. \A p \in Stated(intent) \cap rest : body[p] = intent[p]
    <3> HIDE DEF body, keys, images, kinds, fixed, extra
    <3> QED BY <1>2
  <2> HIDE DEF body, spec
  <2> QED BY <2>1, <2>2
<1>17. /\ "type" \in rest => body.type = intent.media_type
       /\ "prompt" \in rest => body.prompt = intent.prompt
  <2>1. \A p \in {"type", "prompt"} : p \notin keys \cup kinds \cup images
    BY <1>4, <1>14
  <2>2. \A p \in {"type", "prompt"} : p \notin Stated(intent)
    BY <1>13 DEF Options
  <2>3. fixed["type"] = intent.media_type /\ fixed["prompt"] = intent.prompt
    OBVIOUS
  <2> HIDE DEF body, keys, images, kinds, fixed, extra
  <2> QED BY <1>2, <2>1, <2>2, <2>3
<1>18. intent.idempotency_key # None =>
         /\ "idempotency_key" \in DOMAIN body
         /\ body.idempotency_key = intent.idempotency_key
  BY <1>1, <1>2
<1>19. ASSUME intent.source_image
       PROVE  \E p \in DOMAIN body \cap ToSet(ImageSourceParams) :
                p \in rest => body[p] = "url"
  <2>1. image \in images /\ image \in ToSet(ImageSourceParams)
    BY <1>4, <1>19
  <2>2. image \in DOMAIN body
    BY <1>1, <2>1
  <2>3. image \notin keys \cup kinds \cup Stated(intent)
    BY <1>13, <1>14, <2>1
  <2> HIDE DEF body, keys, images, kinds, fixed, extra, image
  <2>4. image \in rest => body[image] = "url"
    BY <1>2, <2>1, <2>2, <2>3
  <2> QED BY <2>1, <2>2, <2>4
<1> HIDE DEF body, spec, images, kinds, keys, fixed, image
<1>20. Carries(body, intent, spec)
  BY <1>15, <1>16, <1>17, <1>18, <1>19 DEF Carries
<1> QED BY <1>12, <1>20 DEF body, spec

-----------------------------------------------------------------------------
(* The choice *)

(* What is answered is answered by models of the catalog, and what the     *)
(* gather collected at the place of a model is the answer of that model.   *)
AnswersOK ==
    /\ DOMAIN bodies \subseteq DOMAIN Specs
    /\ DOMAIN answers \subseteq DOMAIN bodies
    /\ \A id \in DOMAIN answers :
         /\ answers[id] \in Answers \cup {Failed}
         /\ IdRank[id] \in DOMAIN gathered
         /\ gathered[IdRank[id]] = answers[id]

LEMMA EstimatesAreAnswers ==
    ASSUME AnswersOK, DOMAIN answers = DOMAIN bodies
    PROVE  /\ DOMAIN Estimates = DOMAIN answers
           /\ \A id \in DOMAIN answers : Estimates[id] = answers[id]
BY DEF AnswersOK, Estimates

LEMMA PricedIsUsable ==
    ASSUME AnswersOK, DOMAIN answers = DOMAIN bodies,
           NEW ceiling \in Nat \cup {None}
    PROVE  Priced(ceiling) =
             {id \in DOMAIN answers : Usable(answers[id], ceiling)}
<1>1. \A a \in Answers : CostOf(a) \in Nat
  BY AnswersAssumption DEF CostOf
<1>2. ASSUME NEW a \in Answers \cup {Failed}
      PROVE  Status(a, ceiling) = "priced" <=> Usable(a, ceiling)
  BY <1>1 DEF Status, Usable
<1>3. \A id \in DOMAIN bodies :
        Estimates[id] = answers[id] /\ answers[id] \in Answers \cup {Failed}
  BY EstimatesAreAnswers DEF AnswersOK
<1> QED BY <1>2, <1>3 DEF Priced

LEMMA CostsAreNumbers ==
    ASSUME AnswersOK, DOMAIN answers = DOMAIN bodies,
           NEW ceiling \in Nat \cup {None}, NEW id \in Priced(ceiling)
    PROVE  /\ Estimates[id] = answers[id]
           /\ CostOf(answers[id]) \in Nat
<1>1. id \in DOMAIN answers /\ Usable(answers[id], ceiling)
  BY PricedIsUsable
<1>2. answers[id] \in Answers
  BY <1>1 DEF AnswersOK, Usable
<1> QED BY <1>1, <1>2, EstimatesAreAnswers, AnswersAssumption DEF CostOf

(* The chosen model is one that can be had, and no other is cheaper.       *)
LEMMA BestIsCheapest ==
    ASSUME AnswersOK, DOMAIN answers = DOMAIN bodies,
           NEW ceiling \in Nat \cup {None}, Priced(ceiling) # {}
    PROVE  /\ Best(ceiling) \in Priced(ceiling)
           /\ Estimates[Best(ceiling)] = answers[Best(ceiling)]
           /\ \A id \in Priced(ceiling) :
                CostOf(answers[Best(ceiling)]) <= CostOf(answers[id])
<1> DEFINE P == Priced(ceiling)
           cost(id) == CostOf(answers[id])
           C == {cost(id) : id \in P}
<1>1. P \subseteq DOMAIN IdRank
  BY RankAssumption DEF Priced, AnswersOK
<1>2. \A id \in P : Estimates[id] = answers[id] /\ cost(id) \in Nat
  BY CostsAreNumbers
<1> HIDE DEF P, cost
<1>3. PICK least \in C : \A c \in C : least <= c
  <2>1. C \in SUBSET Nat /\ C # {}
    BY <1>2 DEF P
  <2> QED BY <2>1, LeastOf
<1> DEFINE R == {IdRank[id] : id \in {o \in P : cost(o) = least}}
<1>4. PICK rank \in R : \A r \in R : rank <= r
  <2>1. R \in SUBSET Nat
    BY <1>1, RankAssumption
  <2>2. R # {}
    BY <1>3
  <2> QED BY <2>1, <2>2, LeastOf
<1>5. PICK id \in P : cost(id) = least /\ IdRank[id] = rank
  BY <1>4
<1>6. ASSUME NEW o \in P \ {id}
      PROVE  \/ cost(id) < cost(o)
             \/ cost(id) = cost(o) /\ IdRank[id] < IdRank[o]
  <2>1. cost(id) <= cost(o) /\ cost(id) \in Nat /\ cost(o) \in Nat
    BY <1>2, <1>3, <1>5
  <2>2. CASE cost(id) = cost(o)
    <3>1. IdRank[id] <= IdRank[o]
      BY <1>4, <1>5, <2>2
    <3>2. /\ IdRank[id] \in Nat /\ IdRank[o] \in Nat
          /\ IdRank[id] # IdRank[o]
      BY <1>1, RankAssumption
    <3> QED BY <2>2, <3>1, <3>2
  <2>3. CASE cost(id) # cost(o)
    BY <2>1, <2>3
  <2> QED BY <2>2, <2>3
<1>7. \A o \in P \ {id} : Cheaper(id, o)
  BY <1>2, <1>5, <1>6 DEF Cheaper, cost
<1>8. /\ Best(ceiling) \in P
      /\ \A o \in P \ {Best(ceiling)} : Cheaper(Best(ceiling), o)
  BY <1>7 DEF Best, P
<1>9. \A o \in P : cost(Best(ceiling)) <= cost(o)
  BY <1>2, <1>8 DEF Cheaper, cost
<1> QED BY <1>2, <1>8, <1>9 DEF P, cost

-----------------------------------------------------------------------------
(* Requests *)

(* What an intent is priced with.                                          *)
Requests(intent) == [id \in Servable(intent) |-> Body(intent, Specs[id])]

LEMMA RequestsAreHonest ==
    ASSUME NEW intent
    PROVE  /\ DOMAIN Requests(intent) \subseteq Looked(intent)
           /\ Looked(intent) \subseteq DOMAIN Specs
           /\ Honest(Requests(intent), intent)
<1>1. /\ DOMAIN Requests(intent) \subseteq Looked(intent)
      /\ Looked(intent) \subseteq DOMAIN Specs
  BY DEF Requests, Servable, Looked, ByType
<1>2. ASSUME NEW id \in DOMAIN Requests(intent)
      PROVE  /\ Compiles(intent, Specs[id])
             /\ Requests(intent)[id] = Body(intent, Specs[id])
  BY DEF Requests, Servable
<1>3. Honest(Requests(intent), intent)
  BY <1>1, <1>2, BodyIsHonest DEF Honest
<1> QED BY <1>1, <1>3

-----------------------------------------------------------------------------
(* The invariant *)

IsSeq(s) == \E S : s \in Seq(S)

(* A process does the job it was started for, and nothing of the others.   *)
JobsApart ==
    /\ plan \in Plans \cup {None} /\ account \in Accounts
    /\ pc \in {"idle", "ready", "pricing", "raised", "done"}
    /\ job # "plan" => pc = "idle"
    /\ pc = "idle" => costs = <<>> /\ quotes = <<>>
    /\ job # "overspend" => history = None
    /\ history = None => items = <<>> /\ compared = <<>>

(* What is in flight is what the intent at hand is priced with.            *)
InFlightInv ==
    /\ AnswersOK
    /\ bodies = <<>> => answers = <<>>
    /\ pc = "pricing" => bodies = Requests(StepIntent) /\ bodies # <<>>
    /\ pc # "pricing" /\ bodies # <<>> =>
         /\ history # None
         /\ ~ Unanalysable(Generation)
         /\ bodies = Requests(ReconstructIntent(Generation))

StepsInv ==
    /\ IsSeq(costs) /\ IsSeq(quotes) /\ Len(costs) = Len(quotes)
    /\ NothingCheaper

(* A generation g was compared, or not, as c says: with the requests for   *)
(* the intent put together from it, all of which were answered.            *)
Alike(g, c) ==
    /\ c.bodies = <<>> => c.answers = <<>>
    /\ c.bodies # <<>> =>
         /\ ~ Unanalysable(g)
         /\ c.bodies = Requests(ReconstructIntent(g))
         /\ DOMAIN c.answers = DOMAIN c.bodies

AllAlike == \A i \in DOMAIN compared : Alike(history[i], compared[i])

ReportInv ==
    /\ IsSeq(items) /\ IsSeq(compared) /\ Len(items) = Len(compared)
    /\ AllAlike

FreeInv == JobsApart /\ InFlightInv /\ StepsInv /\ ReportInv

LEMMA InitFree == FreeInit => FreeInv
<1> SUFFICES ASSUME FreeInit PROVE FreeInv
  OBVIOUS
<1>1. /\ bodies = <<>> /\ answers = <<>> /\ costs = <<>> /\ quotes = <<>>
      /\ items = <<>> /\ compared = <<>> /\ history = None /\ pc = "idle"
  BY DEF FreeInit, Init, RouterInit, ReportInit
<1>2. IsSeq(<<>>) /\ Len(<<>>) = 0 /\ DOMAIN <<>> = {}
  <2>1. <<>> \in Seq({})
    OBVIOUS
  <2> QED BY <2>1 DEF IsSeq
<1>3. JobsApart
  BY <1>1 DEF FreeInit, Init, JobsApart
<1>4. InFlightInv
  BY <1>1, <1>2 DEF InFlightInv, AnswersOK
<1>5. StepsInv
  BY <1>1, <1>2 DEF StepsInv, NothingCheaper
<1>6. ReportInv
  BY <1>1, <1>2 DEF ReportInv, AllAlike
<1> QED BY <1>3, <1>4, <1>5, <1>6 DEF FreeInv

LEMMA Appended ==
    ASSUME NEW s, IsSeq(s), NEW e
    PROVE  /\ IsSeq(Append(s, e))
           /\ Len(s) \in Nat
           /\ DOMAIN s = 1 .. Len(s)
           /\ Len(Append(s, e)) = Len(s) + 1
           /\ DOMAIN Append(s, e) = 1 .. Len(s) + 1
           /\ \A i \in 1 .. Len(s) : Append(s, e)[i] = s[i]
           /\ Append(s, e)[Len(s) + 1] = e
<1>1. PICK S : s \in Seq(S)
  BY DEF IsSeq
<1>2. s \in Seq(S \cup {e}) /\ e \in S \cup {e}
  BY <1>1
<1>3. Append(s, e) \in Seq(S \cup {e})
  BY <1>2
<1> QED BY <1>2, <1>3 DEF IsSeq

(* What NothingCheaper asks of one step c with an intent, priced with the  *)
(* answers q.                                                              *)
LeastPaid(intent, c, q) ==
    LET usable == {id \in DOMAIN q : Usable(q[id], StepCeiling)}
    IN  /\ DOMAIN q = Servable(intent)
        /\ IF c.model_id = None THEN usable = {}
           ELSE /\ c.model_id \in usable
                /\ c.cost_rub = CostOf(q[c.model_id])
                /\ \A id \in usable : c.cost_rub <= CostOf(q[id])

LEMMA StepByStep ==
    NothingCheaper <=> \A i \in DOMAIN costs :
      LeastPaid(StepOf(plan, costs[i].name).intent, costs[i], quotes[i])
BY Zenon DEF NothingCheaper, LeastPaid

LEMMA StepByStepNext ==
    (\A i \in DOMAIN costs' :
       LeastPaid(StepOf(plan', costs'[i].name).intent, costs'[i], quotes'[i])) =>
      NothingCheaper'
BY Zenon DEF NothingCheaper, LeastPaid, Usable, CostOf, StepOf, Servable

(* A step that was priced, or could not be, comes to the others.           *)
LEMMA StepRecorded ==
    ASSUME AnswersOK, StepsInv,
           DOMAIN answers = DOMAIN bodies, DOMAIN bodies = Servable(StepIntent),
           NEW model, NEW cost,
           model = IF Priced(StepCeiling) = {} THEN None ELSE Best(StepCeiling),
           model # None => cost = CostOf(Estimates[model]),
           costs' = Append(costs, StepCost(model, cost)),
           quotes' = Append(quotes, answers),
           plan' = plan
    PROVE  StepsInv'
<1> DEFINE new == StepCost(model, cost)
           last == Len(costs) + 1
<1>1. /\ new.name = StepName
      /\ new.model_id = model
      /\ new.cost_rub = cost
  BY DEF StepCost
<1>2. /\ IsSeq(costs') /\ IsSeq(quotes')
      /\ Len(costs) \in Nat /\ Len(costs') = last /\ Len(quotes') = last
      /\ DOMAIN costs = 1 .. Len(costs) /\ DOMAIN costs' = 1 .. last
      /\ \A i \in 1 .. Len(costs) : costs'[i] = costs[i]
      /\ \A i \in 1 .. Len(costs) : quotes'[i] = quotes[i]
      /\ costs'[last] = new /\ quotes'[last] = answers
  <2>1. IsSeq(costs) /\ IsSeq(quotes) /\ Len(costs) = Len(quotes)
    BY DEF StepsInv
  <2>2. costs' = Append(costs, new) /\ quotes' = Append(quotes, answers)
    OBVIOUS
  <2> HIDE DEF new
  <2>3. /\ IsSeq(costs') /\ Len(costs) \in Nat /\ Len(costs') = last
        /\ DOMAIN costs = 1 .. Len(costs) /\ DOMAIN costs' = 1 .. last
        /\ \A i \in 1 .. Len(costs) : costs'[i] = costs[i]
        /\ costs'[last] = new
    BY <2>1, <2>2, Appended
  <2>4. /\ IsSeq(quotes') /\ Len(quotes') = last
        /\ \A i \in 1 .. Len(costs) : quotes'[i] = quotes[i]
        /\ quotes'[last] = answers
    BY <2>1, <2>2, Appended
  <2> QED BY <2>3, <2>4
<1> HIDE DEF new
<1>3. LeastPaid(StepIntent, new, answers)
  <2>1. Priced(StepCeiling) =
          {id \in DOMAIN answers : Usable(answers[id], StepCeiling)}
    BY PricedIsUsable, CeilingsAssumption
  <2>2. CASE Priced(StepCeiling) = {}
    BY <1>1, <2>1, <2>2 DEF LeastPaid
  <2>3. CASE Priced(StepCeiling) # {}
    <3>1. /\ model \in Priced(StepCeiling)
          /\ Estimates[model] = answers[model]
          /\ \A id \in Priced(StepCeiling) :
               CostOf(answers[model]) <= CostOf(answers[id])
      BY <2>3, BestIsCheapest, CeilingsAssumption
    <3>2. model # None
      BY <3>1, CatalogAssumption DEF AnswersOK, Priced
    <3> QED BY <1>1, <2>1, <3>1, <3>2 DEF LeastPaid
  <2> QED BY <2>2, <2>3
<1>4. StepOf(plan', new.name).intent = StepIntent
  BY <1>1 DEF StepIntent
<1>5. \A i \in 1 .. Len(costs) :
        LeastPaid(StepOf(plan', costs'[i].name).intent, costs'[i], quotes'[i])
  BY <1>2, StepByStep DEF StepsInv
<1>6. \A i \in 1 .. last : i \in 1 .. Len(costs) \/ i = last
  BY <1>2
<1> HIDE DEF last
<1>7. NothingCheaper'
  BY <1>2, <1>3, <1>4, <1>5, <1>6, StepByStepNext
<1> QED BY <1>2, <1>7 DEF StepsInv

LEMMA OneByOne ==
    (\A i \in DOMAIN compared' : Alike(history'[i], compared'[i])) => AllAlike'
BY Zenon DEF AllAlike, Alike, Requests, Unanalysable, ReconstructIntent

(* A generation that was compared, or skipped, comes to the others.        *)
LEMMA GenerationRecorded ==
    ASSUME ReportInv, NEW verdict, NEW b, NEW a,
           b = <<>> => a = <<>>,
           b # <<>> => /\ ~ Unanalysable(Generation)
                       /\ b = Requests(ReconstructIntent(Generation))
                       /\ DOMAIN a = DOMAIN b,
           items' = Append(items, verdict),
           compared' = Append(compared, [bodies |-> b, answers |-> a]),
           history' = history
    PROVE  ReportInv'
<1> DEFINE new  == [bodies |-> b, answers |-> a]
           last == Len(items) + 1
<1>1. /\ IsSeq(items') /\ IsSeq(compared')
      /\ Len(items) \in Nat /\ Len(items') = last /\ Len(compared') = last
      /\ DOMAIN compared = 1 .. Len(items) /\ DOMAIN compared' = 1 .. last
      /\ \A i \in 1 .. Len(items) : compared'[i] = compared[i]
      /\ compared'[last] = new
  <2>1. IsSeq(items) /\ IsSeq(compared) /\ Len(items) = Len(compared)
    BY DEF ReportInv
  <2>2. IsSeq(items') /\ Len(items) \in Nat /\ Len(items') = last
    BY <2>1, Appended
  <2>3. compared' = Append(compared, new)
    OBVIOUS
  <2> HIDE DEF new
  <2>4. /\ IsSeq(compared') /\ Len(compared') = last
        /\ DOMAIN compared = 1 .. Len(items) /\ DOMAIN compared' = 1 .. last
        /\ \A i \in 1 .. Len(items) : compared'[i] = compared[i]
        /\ compared'[last] = new
    BY <2>1, <2>3, Appended
  <2> QED BY <2>2, <2>4
<1>2. new.bodies = b /\ new.answers = a
  OBVIOUS
<1> HIDE DEF new
<1>3. Alike(Generation, new)
  BY <1>2 DEF Alike
<1>4. Generation = history'[last]
  BY DEF Generation
<1>5. \A i \in 1 .. Len(items) : Alike(history'[i], compared'[i])
  BY <1>1 DEF ReportInv, AllAlike
<1>6. \A i \in 1 .. last : i \in 1 .. Len(items) \/ i = last
  BY <1>1
<1> HIDE DEF last
<1>7. AllAlike'
  BY <1>1, <1>3, <1>4, <1>5, <1>6, OneByOne
<1> QED BY <1>1, <1>7 DEF ReportInv

-----------------------------------------------------------------------------
(* Its steps *)

(* What leaves the parts alone leaves what is said of them alone.          *)
LEMMA StepsKept ==
    ASSUME StepsInv, UNCHANGED <<plan, costs, quotes>>
    PROVE  StepsInv'
<1>1. NothingCheaper'
  BY StepByStep, StepByStepNext DEF StepsInv
<1> QED BY <1>1 DEF StepsInv

LEMMA ReportKept ==
    ASSUME ReportInv, UNCHANGED reportVars
    PROVE  ReportInv'
<1>1. AllAlike'
  BY OneByOne DEF ReportInv, AllAlike, reportVars
<1> QED BY <1>1 DEF ReportInv, reportVars

LEMMA AnswerKept ==
    ASSUME AnswersOK, NEW id, NEW answer \in Answers \cup {Failed},
           Estimated(id, answer)
    PROVE  AnswersOK' /\ bodies' = bodies /\ bodies # <<>>
<1>1. id \in DOMAIN bodies /\ bodies' = bodies
  BY DEF Estimated, InFlight
<1>2. /\ DOMAIN answers' = DOMAIN answers \cup {id}
      /\ \A o \in DOMAIN answers' :
           answers'[o] = IF o = id THEN answer ELSE answers[o]
  BY DEF Estimated, With
<1>3. /\ DOMAIN gathered' = DOMAIN gathered \cup {IdRank[id]}
      /\ \A r \in DOMAIN gathered' :
           gathered'[r] = IF r = IdRank[id] THEN answer ELSE gathered[r]
  BY DEF Estimated, With
<1>4. \A o \in DOMAIN answers : IdRank[o] = IdRank[id] => o = id
  BY <1>1, RankAssumption DEF AnswersOK
<1>5. bodies # <<>>
  BY <1>1
<1> QED BY <1>1, <1>2, <1>3, <1>4, <1>5 DEF AnswersOK

LEMMA RoutedIsEmpty ==
    ASSUME bodies' = <<>>, answers' = <<>>
    PROVE  AnswersOK'
BY DEF AnswersOK

LEMMA PricesAll ==
    ASSUME NEW intent, PriceAll(intent), AnswersOK, bodies = <<>>,
           answers = <<>>
    PROVE  /\ AnswersOK'
           /\ bodies' = Requests(intent) /\ bodies' # <<>> /\ answers' = <<>>
<1>1. bodies' = Requests(intent) /\ answers' = <<>> /\ Servable(intent) # {}
  BY DEF PriceAll, Requests
<1>2. DOMAIN bodies' = Servable(intent)
  BY <1>1 DEF Requests
<1>3. bodies' # <<>>
  BY <1>1, <1>2
<1>4. DOMAIN bodies' \subseteq DOMAIN Specs
  BY <1>2 DEF Servable, Looked, ByType
<1> QED BY <1>1, <1>3, <1>4 DEF AnswersOK

LEMMA PlanningStep ==
    ASSUME FreeInv, Planning
    PROVE  FreeInv'
<1> USE DEF FreeInv
<1>1. job = "plan" /\ job' = job /\ UNCHANGED reportVars
  BY DEF Planning
<1>2. history = None /\ history' = None
  BY <1>1 DEF JobsApart, reportVars
<1>3. ReportInv'
  BY <1>1, ReportKept
<1>4. ASSUME NEW p \in Plans, EstimatePlan(p)
      PROVE  JobsApart' /\ InFlightInv' /\ StepsInv'
  <2>1. /\ pc = "idle" /\ plan' = p /\ pc' \in {"raised", "ready"}
        /\ UNCHANGED <<bodies, answers, account, costs, quotes>>
    BY <1>4 DEF EstimatePlan, routing
  <2>2. costs = <<>> /\ quotes = <<>> /\ bodies = <<>> /\ answers = <<>>
    BY <1>2, <2>1 DEF JobsApart, InFlightInv
  <2>3. JobsApart'
    BY <1>1, <1>2, <2>1, <2>2 DEF JobsApart, reportVars
  <2>4. InFlightInv'
    BY <2>1, <2>2 DEF InFlightInv, AnswersOK
  <2>5. DOMAIN costs' = {}
    BY <2>1, <2>2
  <2>6. StepsInv'
    BY <2>1, <2>5, StepByStepNext DEF StepsInv
  <2> QED BY <2>3, <2>4, <2>6
<1>5. ASSUME BlockStep
      PROVE  JobsApart' /\ InFlightInv' /\ StepsInv'
  <2>1. /\ pc = "ready" /\ costs' = Append(costs, StepCost(None, None))
        /\ quotes' = Append(quotes, <<>>)
        /\ UNCHANGED <<bodies, answers, plan, account, pc, order>>
    BY <1>5 DEF BlockStep, routing
  <2>2. bodies = <<>> /\ answers = <<>>
    BY <1>2, <2>1 DEF InFlightInv
  <2>3. /\ Priced(StepCeiling) = {}
        /\ DOMAIN answers = DOMAIN bodies /\ DOMAIN bodies = Servable(StepIntent)
    BY <1>5, <2>2 DEF Priced, BlockStep
  <2>4. StepsInv'
    BY <2>1, <2>2, <2>3, StepRecorded DEF InFlightInv
  <2>5. JobsApart'
    BY <1>1, <2>1 DEF JobsApart, reportVars
  <2>6. InFlightInv'
    BY <2>1, <2>2 DEF InFlightInv, AnswersOK
  <2> QED BY <2>4, <2>5, <2>6
<1>6. ASSUME PriceStep
      PROVE  JobsApart' /\ InFlightInv' /\ StepsInv'
  <2>1. /\ pc = "ready" /\ PriceAll(StepIntent) /\ pc' = "pricing"
        /\ UNCHANGED <<plan, account, order, costs, quotes>>
    BY <1>6 DEF PriceStep
  <2>2. bodies = <<>> /\ answers = <<>>
    BY <1>2, <2>1 DEF InFlightInv
  <2>3. /\ AnswersOK'
        /\ bodies' = Requests(StepIntent) /\ bodies' # <<>> /\ answers' = <<>>
    BY <2>1, <2>2, PricesAll DEF InFlightInv
  <2>4. StepIntent' = StepIntent
    BY <2>1 DEF StepIntent, StepName, StepOf
  <2>5. InFlightInv'
    BY <2>1, <2>3, <2>4 DEF InFlightInv
  <2>6. JobsApart'
    BY <1>1, <2>1 DEF JobsApart, reportVars
  <2>7. StepsInv'
    BY <2>1, StepsKept
  <2> QED BY <2>5, <2>6, <2>7
<1>7. ASSUME NEW id, NEW answer \in Answers \cup {Failed}, Answered(id, answer)
      PROVE  JobsApart' /\ InFlightInv' /\ StepsInv'
  <2>1. /\ pc = "pricing" /\ Estimated(id, answer)
        /\ UNCHANGED <<plan, account, pc, order, costs, quotes>>
    BY <1>7 DEF Answered, planVars
  <2>2. AnswersOK' /\ bodies' = bodies /\ bodies # <<>>
    BY <2>1, AnswerKept DEF InFlightInv
  <2>3. StepIntent' = StepIntent
    BY <2>1 DEF StepIntent, StepName, StepOf
  <2>4. InFlightInv'
    BY <2>1, <2>2, <2>3 DEF InFlightInv
  <2>5. JobsApart'
    BY <1>1, <2>1 DEF JobsApart, reportVars
  <2>6. StepsInv'
    BY <2>1, StepsKept
  <2> QED BY <2>4, <2>5, <2>6
<1>8. ASSUME ChooseModel
      PROVE  JobsApart' /\ InFlightInv' /\ StepsInv'
  <2>1. /\ pc = "pricing" /\ pc' = "ready"
        /\ costs' = Append(costs, StepRouted)
        /\ quotes' = Append(quotes, answers)
        /\ bodies' = <<>> /\ answers' = <<>>
        /\ UNCHANGED <<plan, account, order>>
    BY <1>8 DEF ChooseModel, Routed
  <2>2. bodies = Requests(StepIntent) /\ AnswersOK
    BY <2>1 DEF InFlightInv
  <2>3. DOMAIN answers = DOMAIN bodies /\ DOMAIN bodies = Servable(StepIntent)
    BY <1>8, <2>2 DEF ChooseModel, AllAnswered, Requests
  <2>4. StepsInv'
    <3>1. CASE Priced(StepCeiling) = {}
      BY <2>1, <2>2, <2>3, <3>1, StepRecorded DEF StepRouted
    <3>2. CASE Priced(StepCeiling) # {}
      BY <2>1, <2>2, <2>3, <3>2, StepRecorded DEF StepRouted
    <3> QED BY <3>1, <3>2
  <2>5. JobsApart'
    BY <1>1, <2>1 DEF JobsApart, reportVars
  <2>6. InFlightInv'
    BY <2>1, RoutedIsEmpty DEF InFlightInv
  <2> QED BY <2>4, <2>5, <2>6
<1>9. ASSUME Conclude
      PROVE  JobsApart' /\ InFlightInv' /\ StepsInv'
  <2>1. /\ pc = "ready" /\ pc' = "done"
        /\ UNCHANGED <<bodies, answers, plan, account, order, costs, quotes>>
    BY <1>9 DEF Conclude, routing
  <2>2. bodies = <<>> /\ answers = <<>>
    BY <1>2, <2>1 DEF InFlightInv
  <2>3. JobsApart'
    BY <1>1, <2>1 DEF JobsApart, reportVars
  <2>4. InFlightInv'
    BY <2>1, <2>2 DEF InFlightInv, AnswersOK
  <2>5. StepsInv'
    BY <2>1, StepsKept
  <2> QED BY <2>3, <2>4, <2>5
<1>10. Next
  BY DEF Planning
<1> QED
  BY <1>3, <1>4, <1>5, <1>6, <1>7, <1>8, <1>9, <1>10 DEF Next, Proceed

LEMMA ReportingStep ==
    ASSUME FreeInv, Reporting
    PROVE  FreeInv'
<1> USE DEF FreeInv
<1>1. job = "overspend" /\ job' = job /\ UNCHANGED planVars
  BY DEF Reporting
<1>2. pc = "idle" /\ pc' = "idle" /\ costs' = costs /\ quotes' = quotes
  BY <1>1 DEF JobsApart, planVars
<1>3. StepsInv'
  BY <1>1, StepsKept DEF planVars
<1>4. ASSUME NEW raw, ReadHistory(raw)
      PROVE  JobsApart' /\ InFlightInv' /\ ReportInv'
  <2>1. history = None /\ UNCHANGED <<bodies, answers, items, compared>>
    BY <1>4 DEF ReadHistory, routing
  <2>2. items = <<>> /\ compared = <<>> /\ bodies = <<>> /\ answers = <<>>
    BY <1>2, <2>1 DEF JobsApart, InFlightInv
  <2>3. JobsApart'
    BY <1>1, <1>2, <2>1, <2>2 DEF JobsApart, planVars
  <2>4. InFlightInv'
    BY <1>2, <2>1, <2>2 DEF InFlightInv, AnswersOK
  <2>5. DOMAIN compared' = {}
    BY <2>1, <2>2
  <2>6. ReportInv'
    BY <2>1, <2>2, <2>5, OneByOne DEF ReportInv
  <2> QED BY <2>3, <2>4, <2>6
<1>5. ASSUME SkipGeneration
      PROVE  JobsApart' /\ InFlightInv' /\ ReportInv'
  <2>1. /\ history # None /\ history' = history
        /\ bodies = <<>> /\ bodies' = bodies /\ answers' = answers
        /\ items' = Append(items, Verdict(None, None))
        /\ compared' = Append(compared, [bodies |-> <<>>, answers |-> <<>>])
    BY <1>5 DEF SkipGeneration, InReport, routing
  <2>2. ReportInv'
    BY <2>1, GenerationRecorded
  <2>3. JobsApart'
    BY <1>1, <1>2, <2>1 DEF JobsApart, planVars
  <2>4. InFlightInv'
    BY <1>2, <2>1 DEF InFlightInv, AnswersOK
  <2> QED BY <2>2, <2>3, <2>4
<1>6. ASSUME PriceGeneration
      PROVE  JobsApart' /\ InFlightInv' /\ ReportInv'
  <2>1. /\ history # None /\ UNCHANGED <<history, items, compared>>
        /\ bodies = <<>> /\ answers = <<>> /\ ~ Unanalysable(Generation)
        /\ PriceAll(ReconstructIntent(Generation))
    BY <1>6 DEF PriceGeneration, InReport, Analysable, reportVars, InFlightInv
  <2>2. /\ AnswersOK'
        /\ bodies' = Requests(ReconstructIntent(Generation))
        /\ bodies' # <<>>
    BY <2>1, PricesAll DEF InFlightInv
  <2>3. Generation' = Generation
    BY <2>1 DEF Generation
  <2>4. bodies' = <<>> => answers' = <<>>
    BY <2>2
  <2>5. InFlightInv'
    BY <1>2, <2>1, <2>2, <2>3, <2>4 DEF InFlightInv
  <2>6. JobsApart'
    BY <1>1, <1>2, <2>1 DEF JobsApart, planVars
  <2>7. ReportInv'
    BY <2>1, ReportKept DEF reportVars
  <2> QED BY <2>5, <2>6, <2>7
<1>7. ASSUME NEW id, NEW answer \in Answers \cup {Failed},
             GenerationEstimated(id, answer)
      PROVE  JobsApart' /\ InFlightInv' /\ ReportInv'
  <2>1. /\ history # None /\ UNCHANGED <<history, items, compared>>
        /\ Estimated(id, answer)
    BY <1>7 DEF GenerationEstimated, InReport, reportVars
  <2>2. AnswersOK' /\ bodies' = bodies /\ bodies # <<>>
    BY <2>1, AnswerKept DEF InFlightInv
  <2>3. Generation' = Generation
    BY <2>1 DEF Generation
  <2>4. InFlightInv'
    BY <1>2, <2>1, <2>2, <2>3 DEF InFlightInv
  <2>5. JobsApart'
    BY <1>1, <1>2, <2>1 DEF JobsApart, planVars
  <2>6. ReportInv'
    BY <2>1, ReportKept DEF reportVars
  <2> QED BY <2>4, <2>5, <2>6
<1>8. ASSUME CompareGeneration
      PROVE  JobsApart' /\ InFlightInv' /\ ReportInv'
  <2>1. /\ history # None /\ history' = history /\ bodies # <<>>
        /\ \E verdict : items' = Append(items, verdict)
        /\ compared' = Append(compared, [bodies |-> bodies, answers |-> answers])
        /\ bodies' = <<>> /\ answers' = <<>> /\ DOMAIN answers = DOMAIN bodies
    BY <1>8 DEF CompareGeneration, InReport, AllAnswered, Routed
  <2>2. /\ ~ Unanalysable(Generation)
        /\ bodies = Requests(ReconstructIntent(Generation))
    BY <1>2, <2>1 DEF InFlightInv
  <2>3. ReportInv'
    BY <2>1, <2>2, GenerationRecorded
  <2>4. JobsApart'
    BY <1>1, <1>2, <2>1 DEF JobsApart, planVars
  <2>5. InFlightInv'
    BY <1>2, <2>1, RoutedIsEmpty DEF InFlightInv
  <2> QED BY <2>3, <2>4, <2>5
<1>9. Report \/ \E raw \in Histories : ReadHistory(raw)
  BY DEF Reporting
<1> QED
  BY <1>3, <1>4, <1>5, <1>6, <1>7, <1>8, <1>9 DEF Report

(* The other jobs, and steps of none.                                      *)
LEMMA ElsewhereStep ==
    ASSUME FreeInv, UNCHANGED <<vars, reportVars, job>>
    PROVE  FreeInv'
<1> USE DEF FreeInv
<1>1. /\ UNCHANGED <<plan, account, pc, order, costs, quotes>>
      /\ UNCHANGED <<bodies, answers, gathered, history, items, compared, job>>
  BY DEF vars, planVars, routing, reportVars
<1>2. JobsApart'
  BY <1>1 DEF JobsApart
<1>3. StepsInv' /\ ReportInv'
  BY <1>1, StepsKept, ReportKept DEF reportVars
<1>4. StepIntent' = StepIntent /\ Generation' = Generation
  BY <1>1 DEF StepIntent, StepName, StepOf, Generation
<1>5. InFlightInv'
  BY <1>1, <1>4 DEF InFlightInv, AnswersOK
<1> QED BY <1>2, <1>3, <1>5

LEMMA FreeInductive == FreeInv /\ [FreeNext]_allVars => FreeInv'
<1> SUFFICES ASSUME FreeInv, [FreeNext]_allVars
             PROVE  FreeInv'
  OBVIOUS
<1>1. CASE Planning
  BY <1>1, PlanningStep
<1>2. CASE Reporting
  BY <1>2, ReportingStep
<1>3. CASE Drifting \/ VerifyingClaims \/ UNCHANGED allVars
  BY <1>3, ElsewhereStep DEF Drifting, VerifyingClaims, allVars
<1> QED
  BY <1>1, <1>2, <1>3 DEF FreeNext

THEOREM FreeInvariant == FreeSpec => []FreeInv
BY InitFree, FreeInductive, PTL DEF FreeSpec

-----------------------------------------------------------------------------
(* What follows *)

(* Types are kept for any catalog, plans, accounts and answers (Planner).  *)
THEOREM PlannerTypeCorrect == FreeSpec => []TypeOK
<1>1. FreeInv => TypeOK
  BY DEF FreeInv, JobsApart, InFlightInv, AnswersOK, StepsInv, TypeOK
<1> QED BY <1>1, FreeInvariant, PTL

(* No body that is priced says anything the model would drop, or keeps     *)
(* anything of the intent back (BodiesHonest, compiler.py).                *)
THEOREM PricedHonestly == FreeSpec => []BodiesHonest
<1>1. FreeInv => BodiesHonest
  BY RequestsAreHonest DEF FreeInv, InFlightInv, BodiesHonest
<1> QED BY <1>1, FreeInvariant, PTL

(* The choice is the cheapest of the usable answers, for any number of     *)
(* models and in whatever order they answer (NothingCheaper, router.py).   *)
THEOREM CheapestIsChosen == FreeSpec => []NothingCheaper
<1>1. FreeInv => NothingCheaper
  BY DEF FreeInv, StepsInv
<1> QED BY <1>1, FreeInvariant, PTL

-----------------------------------------------------------------------------
(* The order of a plan *)

(* One visit of n, with the steps `open' being visited and d ordered, where *)
(* table[m] says what visits of the steps that n waits for do.             *)
After(table, d, deps) == FoldLeft(LAMBDA a, m : table[m][a], d, deps)

VisitOnce(p, open, n, d, table) ==
    IF d.cyclic \/ n \in ToSet(d.ordered) THEN d
    ELSE IF n \in open THEN [d EXCEPT !.cyclic = TRUE]
    ELSE LET after == After(table, d, StepOf(p, n).depends_on)
         IN  [after EXCEPT !.ordered = Append(@, n)]

VisitRow(p, open, g) ==
    [n \in Names(p) |-> [d \in Walks(p) |->
       VisitOnce(p, open, n, d, g[open \cup {n}])]]

VisitEquation(p, D, g) == g = [open \in D |-> VisitRow(p, open, g)]

LEMMA VisitedUnfolds ==
    ASSUME NEW p, NEW done, NEW name
    PROVE  Visited(p, done, name) =
             (CHOOSE g : VisitEquation(p, SUBSET Names(p), g))[{}][name][done]
BY DEF Visited, VisitEquation, VisitRow, VisitOnce, After

(* A visit looks only at visits with one step more being visited.          *)
LEMMA SameVisits ==
    ASSUME NEW p, NEW open, NEW g, NEW h,
           \A n \in Names(p) \ open : g[open \cup {n}] = h[open \cup {n}]
    PROVE  VisitRow(p, open, g) = VisitRow(p, open, h)
<1>1. ASSUME NEW n \in Names(p), NEW d \in Walks(p)
      PROVE  VisitOnce(p, open, n, d, g[open \cup {n}]) =
               VisitOnce(p, open, n, d, h[open \cup {n}])
  BY DEF VisitOnce
<1> QED BY <1>1 DEF VisitRow

(* The sets of steps that leave at most k out. *)
Leaving(p, k) == {open \in SUBSET Names(p) : Cardinality(Names(p) \ open) <= k}

LEMMA NamesAreFinite ==
    ASSUME NEW p \in Plans
    PROVE  IsFiniteSet(Names(p))
<1>1. p \in Seq(ToSet(p))
  BY PlansAssumption
<1>2. DOMAIN p = 1 .. Len(p) /\ Len(p) \in Nat
  BY <1>1
<1>3. IsFiniteSet(DOMAIN p)
  BY <1>2, FS_Interval
<1> DEFINE name == [i \in DOMAIN p |-> p[i].name]
<1>4. name \in Surjection(DOMAIN p, Names(p))
  BY DEF Names, Surjection
<1> HIDE DEF name
<1> QED BY <1>3, <1>4, FS_Surjection

LEMMA VisitExists ==
    ASSUME NEW p \in Plans
    PROVE  \E g : VisitEquation(p, SUBSET Names(p), g)
<1> DEFINE N == Names(p)
           Good == {k \in Nat : \E g : VisitEquation(p, Leaving(p, k), g)}
<1>0. IsFiniteSet(N)
  BY NamesAreFinite
<1>1. \A s \in SUBSET N : IsFiniteSet(N \ s) /\ Cardinality(N \ s) \in Nat
  BY <1>0, FS_Subset, FS_CardinalityType
<1>2. 0 \in Good
  <2> DEFINE g == [open \in Leaving(p, 0) |-> VisitRow(p, open, <<>>)]
  <2>1. \A open \in Leaving(p, 0) : N \ open = {}
    BY <1>1, FS_EmptySet DEF Leaving
  <2>2. \A open \in Leaving(p, 0) : VisitRow(p, open, <<>>) = VisitRow(p, open, g)
    BY <2>1, SameVisits
  <2>3. VisitEquation(p, Leaving(p, 0), g)
    BY <2>2 DEF VisitEquation
  <2> QED BY <2>3
<1>3. ASSUME NEW k \in Nat, k \in Good PROVE k + 1 \in Good
  <2>1. PICK g : VisitEquation(p, Leaving(p, k), g)
    BY <1>3
  <2> DEFINE h == [open \in Leaving(p, k + 1) |-> VisitRow(p, open, g)]
  <2>2. ASSUME NEW open \in Leaving(p, k + 1), NEW n \in N \ open
        PROVE  open \cup {n} \in Leaving(p, k)
    <3>1. N \ (open \cup {n}) = (N \ open) \ {n}
      OBVIOUS
    <3> HIDE DEF Good
    <3>2. /\ open \in SUBSET N /\ open \cup {n} \in SUBSET N
          /\ Cardinality(N \ open) <= k + 1
      BY DEF Leaving
    <3>3. IsFiniteSet(N \ open) /\ Cardinality(N \ open) \in Nat
      BY <1>1, <3>2
    <3> DEFINE left == N \ open
    <3>4. n \in left
      OBVIOUS
    <3> HIDE DEF left
    <3>5. Cardinality(left \ {n}) = Cardinality(left) - 1
      BY <3>3, <3>4, FS_RemoveElement DEF left
    <3>6. Cardinality(left) \in Nat /\ Cardinality(left) <= k + 1
      BY <3>2, <3>3 DEF left
    <3>7. Cardinality(left \ {n}) <= k
      BY <3>5, <3>6
    <3> QED BY <3>1, <3>2, <3>7 DEF Leaving, left
  <2>3. \A open \in Leaving(p, k) : open \in Leaving(p, k + 1)
    BY <1>1 DEF Leaving
  <2>4. \A open \in Leaving(p, k) : h[open] = g[open]
    BY <2>1, <2>3 DEF VisitEquation
  <2>5. \A open \in Leaving(p, k + 1) : VisitRow(p, open, g) = VisitRow(p, open, h)
    BY <2>2, <2>4, SameVisits
  <2>6. VisitEquation(p, Leaving(p, k + 1), h)
    BY <2>5 DEF VisitEquation
  <2> QED BY <2>6
<1> HIDE DEF Good
<1>4. Good = Nat
  <2>1. Good \in SUBSET Nat
    BY DEF Good
  <2> QED BY <1>2, <1>3, <2>1, NatSteps
<1>5. /\ Leaving(p, Cardinality(N)) = SUBSET N
      /\ Cardinality(N) \in Nat
  <2>1. \A s \in SUBSET N : Cardinality(N \ s) <= Cardinality(N)
    BY <1>0, FS_Subset
  <2> QED BY <1>0, <2>1, FS_CardinalityType DEF Leaving
<1>6. Cardinality(N) \in Good
  BY <1>4, <1>5
<1>7. \E g : VisitEquation(p, Leaving(p, Cardinality(N)), g)
  BY <1>6 DEF Good
<1> QED BY <1>5, <1>7

(* Induction over what is being visited: what holds with all steps open,   *)
(* and with some if with one more.                                         *)
LEMMA ClosingIn ==
    ASSUME NEW N, IsFiniteSet(N), NEW Good \in SUBSET (SUBSET N),
           \A open \in SUBSET N :
             (\A n \in N \ open : open \cup {n} \in Good) => open \in Good
    PROVE  Good = SUBSET N
<1> DEFINE Bad == {N \ open : open \in (SUBSET N) \ Good}
<1> SUFFICES ASSUME Bad # {} PROVE FALSE
  <2>1. \A open \in (SUBSET N) \ Good : N \ open \in Bad
    OBVIOUS
  <2> HIDE DEF Bad
  <2> QED BY <2>1
<1>1. PICK T \in Bad : \A x \in T : T \ {x} \notin Bad
  <2>1. Bad \in SUBSET (SUBSET N)
    OBVIOUS
  <2> HIDE DEF Bad
  <2> QED BY <2>1, SmallestOf
<1>2. PICK open \in (SUBSET N) \ Good : T = N \ open
  BY <1>1
<1>3. ASSUME NEW n \in N \ open PROVE open \cup {n} \in Good
  <2>1. T \ {n} = N \ (open \cup {n})
    BY <1>2
  <2> QED BY <1>1, <1>2, <2>1
<1> QED BY <1>2, <1>3

-----------------------------------------------------------------------------
(* The steps that one waits for, one after the other *)

Waits(p, n) == ToSet(StepOf(p, n).depends_on)

LEMMA WaitsAreSteps ==
    ASSUME NEW p \in Plans, WellNamed(p), NEW n \in Names(p)
    PROVE  /\ StepOf(p, n).depends_on \in Seq(Names(p))
           /\ StepOf(p, n) \in ToSet(p)
           /\ StepOf(p, n).name = n
           /\ Waits(p, n) \in SUBSET Names(p)
<1>1. PICK i \in DOMAIN p : p[i] = StepOf(p, n) /\ p[i].name = n
  <2>1. \E i \in DOMAIN p : p[i].name = n
    BY DEF Names
  <2> DEFINE j == CHOOSE i \in DOMAIN p : p[i].name = n
  <2>2. j \in DOMAIN p /\ p[j].name = n
    BY <2>1
  <2>3. StepOf(p, n) = p[j]
    BY DEF StepOf
  <2> HIDE DEF j
  <2> QED BY <2>2, <2>3
<1> DEFINE deps == StepOf(p, n).depends_on
<1>2. ToSet(deps) \subseteq Names(p)
  BY <1>1 DEF WellNamed
<1>3. StepOf(p, n) \in ToSet(p)
  BY <1>1 DEF ToSet
<1>4. deps \in Seq(ToSet(deps))
  BY <1>3, PlansAssumption
<1> HIDE DEF deps
<1>5. deps \in Seq(Names(p))
  BY <1>2, <1>4
<1> QED BY <1>1, <1>2, <1>3, <1>5 DEF Waits, deps

AfterStep(table, d, deps, s, g) ==
    IF s = {} THEN d ELSE table[deps[Max(s)]][g[s \ {Max(s)}]]

AfterEquation(table, d, deps, g) ==
    g = [s \in SUBSET DOMAIN deps |-> AfterStep(table, d, deps, s, g)]

LEMMA AfterUnfolds ==
    ASSUME NEW table, NEW d, NEW deps
    PROVE  After(table, d, deps) =
             (CHOOSE g : AfterEquation(table, d, deps, g))[DOMAIN deps]
BY DEF After, FoldLeft, MapThenFoldSet, AfterEquation, AfterStep

(* q[i] is where the visits of the first i of them lead to.                *)
Along(table, d, deps, q) ==
    /\ q[0] = d
    /\ \A i \in 1 .. Len(deps) : q[i] = table[deps[i]][q[i - 1]]

LEMMA AfterByPlace ==
    ASSUME NEW N, NEW W, NEW d \in W, NEW deps \in Seq(N),
           NEW table \in [N -> [W -> W]]
    PROVE  \E q \in [0 .. Len(deps) -> W] :
             Along(table, d, deps, q) /\ After(table, d, deps) = q[Len(deps)]
<1> DEFINE n == Len(deps)
           D == [e \in (1 .. n) \X W |-> table[deps[e[1]]][e[2]]]
<1>0. /\ n \in Nat /\ DOMAIN deps = 1 .. n
      /\ \A i \in 1 .. n : deps[i] \in N
  OBVIOUS
<1> HIDE DEF n
<1>1. PICK k \in [SUBSET (1 .. n) -> W] : FoldEquation(D, d, SUBSET (1 .. n), k)
  <2>1. D \in [(1 .. n) \X W -> W]
    BY <1>0
  <2> HIDE DEF D
  <2> QED BY <1>0, <2>1, FoldExists
<1>2. AfterEquation(table, d, deps, k)
  <2>1. ASSUME NEW s \in SUBSET (1 .. n)
        PROVE  FoldStep(D, d, s, k) = AfterStep(table, d, deps, s, k)
    <3>1. CASE s = {}
      BY <3>1 DEF FoldStep, AfterStep
    <3>2. CASE s # {}
      <4>1. Max(s) \in 1 .. n /\ k[s \ {Max(s)}] \in W
        BY <1>0, <1>1, <3>2, MaxOf
      <4>2. D[<<Max(s), k[s \ {Max(s)}]>>] = table[deps[Max(s)]][k[s \ {Max(s)}]]
        BY <4>1 DEF D
      <4> QED BY <3>2, <4>2 DEF FoldStep, AfterStep
    <3> QED BY <3>1, <3>2
  <2> QED BY <1>0, <1>1, <2>1 DEF FoldEquation, AfterEquation
<1> HIDE DEF D
<1>3. PICK h : /\ AfterEquation(table, d, deps, h)
               /\ After(table, d, deps) = h[1 .. n]
  BY <1>0, <1>2, AfterUnfolds
<1> DEFINE q == [i \in 0 .. n |-> h[1 .. i]]
<1>4. q[0] = d
  <2>1. 1 .. 0 = {} /\ 0 \in 0 .. n
    BY <1>0
  <2> QED BY <1>3, <2>1 DEF AfterEquation, AfterStep
<1>5. ASSUME NEW i \in 1 .. n
      PROVE  q[i] = table[deps[i]][q[i - 1]]
  <2>1. /\ 1 .. i \in SUBSET (1 .. n)
        /\ 1 .. i # {}
        /\ Max(1 .. i) = i
        /\ (1 .. i) \ {i} = 1 .. i - 1
    BY <1>0, LastPlace
  <2>2. h[1 .. i] = AfterStep(table, d, deps, 1 .. i, h)
    BY <1>0, <1>3, <2>1 DEF AfterEquation
  <2>3. q[i] = h[1 .. i] /\ q[i - 1] = h[1 .. i - 1]
    BY <1>0
  <2> HIDE DEF q
  <2> QED BY <2>1, <2>2, <2>3 DEF AfterStep
<1>6. After(table, d, deps) = q[n] /\ DOMAIN q = 0 .. n
  BY <1>0, <1>3
<1>7. q \in [0 .. n -> W]
  <2> DEFINE Typed == {i \in Nat : i <= n => q[i] \in W}
  <2>1. 0 \in Typed
    BY <1>4
  <2>2. ASSUME NEW i \in Nat, i \in Typed PROVE i + 1 \in Typed
    <3> SUFFICES ASSUME i + 1 <= n PROVE q[i + 1] \in W
      OBVIOUS
    <3>1. i + 1 \in 1 .. n /\ (i + 1) - 1 = i /\ q[i] \in W
      BY <1>0, <2>2
    <3>2. q[i + 1] = table[deps[i + 1]][q[i]]
      BY <1>5, <3>1
    <3> HIDE DEF q
    <3> QED BY <1>0, <3>1, <3>2
  <2> HIDE DEF Typed
  <2>3. Typed \in SUBSET Nat
    BY DEF Typed
  <2>4. Typed = Nat
    BY <2>1, <2>2, <2>3, NatSteps
  <2>5. \A i \in 0 .. n : q[i] \in W
    <3> HIDE DEF q
    <3> QED BY <1>0, <2>4 DEF Typed
  <2>6. q = [i \in 0 .. n |-> q[i]]
    OBVIOUS
  <2> HIDE DEF q
  <2> QED BY <2>5, <2>6
<1> HIDE DEF q
<1>8. Along(table, d, deps, q)
  BY <1>4, <1>5 DEF Along, n
<1> QED BY <1>6, <1>7, <1>8 DEF n

-----------------------------------------------------------------------------
(* What a visit gives *)

LEMMA Appending ==
    ASSUME NEW p, NEW a \in Walks(p), NEW n \in Names(p)
    PROVE  LET e == [a EXCEPT !.ordered = Append(@, n)]
           IN  /\ e \in Walks(p)
               /\ e.cyclic = a.cyclic
               /\ e.ordered = Append(a.ordered, n)
BY DEF Walks

LEMMA OnceIsWalk ==
    ASSUME NEW p \in Plans, WellNamed(p), NEW open \in SUBSET Names(p),
           NEW n \in Names(p), NEW d \in Walks(p), NEW table,
           n \notin open => table \in [Names(p) -> [Walks(p) -> Walks(p)]]
    PROVE  VisitOnce(p, open, n, d, table) \in Walks(p)
<1> DEFINE deps == StepOf(p, n).depends_on
           W == Walks(p)
<1>1. ASSUME n \notin open PROVE After(table, d, deps) \in W
  <2>1. deps \in Seq(Names(p))
    BY WaitsAreSteps
  <2> HIDE DEF deps, W
  <2>2. PICK q \in [0 .. Len(deps) -> W] : After(table, d, deps) = q[Len(deps)]
    BY <1>1, <2>1, AfterByPlace DEF W
  <2>3. Len(deps) \in 0 .. Len(deps)
    BY <2>1
  <2> QED BY <2>2, <2>3
<1>2. [d EXCEPT !.cyclic = TRUE] \in W
  BY DEF Walks
<1>3. \A a \in W : [a EXCEPT !.ordered = Append(@, n)] \in W
  BY Appending
<1> HIDE DEF deps, W
<1> QED BY <1>1, <1>2, <1>3 DEF VisitOnce, deps, W

LEMMA VisitsAreWalks ==
    ASSUME NEW p \in Plans, WellNamed(p), NEW g,
           VisitEquation(p, SUBSET Names(p), g)
    PROVE  \A open \in SUBSET Names(p) :
             g[open] \in [Names(p) -> [Walks(p) -> Walks(p)]]
<1> DEFINE N == Names(p)
           W == Walks(p)
           Good == {open \in SUBSET N : g[open] \in [N -> [W -> W]]}
<1>1. ASSUME NEW open \in SUBSET N,
             \A n \in N \ open : open \cup {n} \in Good
      PROVE  open \in Good
  <2>1. g[open] = VisitRow(p, open, g)
    BY DEF VisitEquation
  <2>2. ASSUME NEW n \in N, NEW d \in W
        PROVE  VisitOnce(p, open, n, d, g[open \cup {n}]) \in W
    <3>1. n \notin open => g[open \cup {n}] \in [N -> [W -> W]]
      BY <1>1
    <3> QED BY <3>1, OnceIsWalk
  <2>3. VisitRow(p, open, g) \in [N -> [W -> W]]
    <3> HIDE DEF W, Good
    <3> QED BY <2>2 DEF VisitRow, W
  <2> QED BY <2>1, <2>3
<1>2. Good = SUBSET N
  <2>1. Good \in SUBSET (SUBSET N) /\ IsFiniteSet(N)
    BY NamesAreFinite
  <2> HIDE DEF Good, N
  <2> QED BY <1>1, <2>1, ClosingIn
<1> QED BY <1>2

(* Nobody is ordered twice, or before somebody it waits for.               *)
InOrder(p, s) ==
    /\ \A i, j \in DOMAIN s : s[i] = s[j] => i = j
    /\ \A i \in DOMAIN s : \A m \in Waits(p, s[i]) : \E j \in 1 .. i - 1 : s[j] = m

Circular(p) == \E some \in SUBSET Names(p) : WaitForEachOther(p, some)

(* Where the walk is, with the steps `open' being visited.                 *)
Walking(p, open, d) ==
    IF d.cyclic THEN Circular(p)
    ELSE InOrder(p, d.ordered) /\ ToSet(d.ordered) \cap open = {}

(* Each of them waits for another of them, or for n.                       *)
Chained(p, open, n) == \A x \in open : Waits(p, x) \cap (open \cup {n}) # {}

Further(d, n, e) ==
    e.cyclic \/ /\ ~ d.cyclic
                /\ ToSet(d.ordered) \subseteq ToSet(e.ordered)
                /\ n \in ToSet(e.ordered)

(* What visits with the steps `open' being visited lead to.                *)
VisitsWell(p, open, table) ==
    \A n \in Names(p), d \in Walks(p) :
      Chained(p, open, n) /\ Walking(p, open, d) =>
        Walking(p, open, table[n][d]) /\ Further(d, n, table[n][d])

LEMMA OrderGrows ==
    ASSUME NEW p, NEW s \in Seq(Names(p)), InOrder(p, s),
           NEW n \in Names(p), n \notin ToSet(s), Waits(p, n) \subseteq ToSet(s)
    PROVE  /\ InOrder(p, Append(s, n))
           /\ ToSet(Append(s, n)) = ToSet(s) \cup {n}
<1> DEFINE t == Append(s, n)
           l == Len(s) + 1
<1>1. /\ DOMAIN s = 1 .. Len(s) /\ DOMAIN t = 1 .. l /\ Len(s) \in Nat
      /\ \A i \in DOMAIN s : t[i] = s[i]
      /\ t[l] = n
  OBVIOUS
<1> HIDE DEF t
<1>2. \A i \in DOMAIN t : i \in DOMAIN s \/ i = l
  BY <1>1
<1>3. \A i \in DOMAIN s : s[i] # n
  BY DEF ToSet
<1>4. \A i, j \in DOMAIN t : t[i] = t[j] => i = j
  <2> HIDE DEF l
  <2> QED BY <1>1, <1>2, <1>3 DEF InOrder
<1>5. ASSUME NEW i \in DOMAIN t, NEW m \in Waits(p, t[i])
      PROVE  \E j \in 1 .. i - 1 : t[j] = m
  <2>1. CASE i \in DOMAIN s
    <3>1. PICK j \in 1 .. i - 1 : s[j] = m
      BY <1>1, <1>5, <2>1 DEF InOrder
    <3>2. j \in DOMAIN s
      BY <1>1, <2>1
    <3> QED BY <1>1, <3>1, <3>2
  <2>2. CASE i = l
    <3>1. PICK j \in DOMAIN s : s[j] = m
      BY <1>1, <1>5, <2>2 DEF ToSet
    <3>2. j \in 1 .. i - 1
      BY <1>1, <2>2
    <3> QED BY <1>1, <3>1, <3>2
  <2> QED BY <1>2, <2>1, <2>2
<1>6. ToSet(t) = ToSet(s) \cup {n}
  <2>1. DOMAIN t = DOMAIN s \cup {l}
    BY <1>1
  <2>2. ToSet(s) = {s[i] : i \in DOMAIN s}
    BY DEF ToSet
  <2>3. ToSet(t) = {t[i] : i \in DOMAIN s \cup {l}}
    BY <2>1 DEF ToSet
  <2> HIDE DEF l
  <2> QED BY <1>1, <2>2, <2>3
<1>7. InOrder(p, t)
  BY <1>4, <1>5 DEF InOrder
<1> QED BY <1>6, <1>7 DEF t

(* The steps that n waits for have been visited.                           *)
LEMMA AfterWell ==
    ASSUME NEW p \in Plans, WellNamed(p), NEW open \in SUBSET Names(p),
           NEW table \in [Names(p) -> [Walks(p) -> Walks(p)]],
           VisitsWell(p, open, table),
           NEW n \in Names(p), \A m \in Waits(p, n) : Chained(p, open, m),
           NEW d \in Walks(p), ~ d.cyclic, Walking(p, open, d)
    PROVE  LET a == After(table, d, StepOf(p, n).depends_on)
           IN  /\ a \in Walks(p)
               /\ Walking(p, open, a)
               /\ a.cyclic \/ Waits(p, n) \subseteq ToSet(a.ordered)
               /\ a.cyclic \/ ToSet(d.ordered) \subseteq ToSet(a.ordered)
<1> DEFINE deps == StepOf(p, n).depends_on
           W == Walks(p)
<1>1. deps \in Seq(Names(p)) /\ Waits(p, n) = {deps[i] : i \in DOMAIN deps}
  BY WaitsAreSteps DEF Waits, ToSet
<1>0. d \in W /\ table \in [Names(p) -> [W -> W]]
  OBVIOUS
<1> HIDE DEF deps, W
<1>2. PICK q \in [0 .. Len(deps) -> W] :
         Along(table, d, deps, q) /\ After(table, d, deps) = q[Len(deps)]
  <2> DEFINE N == Names(p)
  <2>1. deps \in Seq(N) /\ table \in [N -> [W -> W]]
    BY <1>0, <1>1
  <2> HIDE DEF N
  <2> QED BY <1>0, <2>1, AfterByPlace
<1> DEFINE Met(i) == {deps[j] : j \in 1 .. i} \cup ToSet(d.ordered)
           P(i) == /\ Walking(p, open, q[i])
                   /\ q[i].cyclic \/ Met(i) \subseteq ToSet(q[i].ordered)
           Good == {i \in Nat : i <= Len(deps) => P(i)}
<1>3. 0 \in Good
  BY <1>2 DEF Along
<1>4. ASSUME NEW i \in Nat, i \in Good PROVE i + 1 \in Good
  <2> SUFFICES ASSUME i + 1 <= Len(deps) PROVE P(i + 1)
    OBVIOUS
  <2> DEFINE k == i + 1
  <2>0. Len(deps) \in Nat /\ DOMAIN deps = 1 .. Len(deps)
    BY <1>1
  <2>1. /\ k \in 1 .. Len(deps) /\ k - 1 = i /\ P(i) /\ deps[k] \in Names(p)
        /\ i \in 0 .. Len(deps) /\ k \in DOMAIN deps
    <3>1. i <= Len(deps) /\ k \in 1 .. Len(deps) /\ k - 1 = i
      BY <2>0
    <3>2. P(i)
      BY <1>4, <3>1
    <3> HIDE DEF P, k, Good
    <3>3. deps[k] \in Names(p)
      BY <1>1, <3>1
    <3> QED BY <2>0, <3>1, <3>2, <3>3
  <2>2. q[k] = table[deps[k]][q[i]] /\ q[i] \in W
    BY <1>2, <2>1 DEF Along
  <2>3. Chained(p, open, deps[k])
    BY <1>1, <2>1
  <2>4. Walking(p, open, q[k]) /\ Further(q[i], deps[k], q[k])
    BY <2>1, <2>2, <2>3 DEF VisitsWell, W
  <2>5. Met(k) = Met(i) \cup {deps[k]}
    <3>1. 1 .. k = (1 .. i) \cup {k}
      OBVIOUS
    <3> QED BY <3>1
  <2> HIDE DEF Met, k, Good
  <2>6. q[k].cyclic \/ Met(k) \subseteq ToSet(q[k].ordered)
    BY <2>1, <2>4, <2>5 DEF Further
  <2> QED BY <2>4, <2>6 DEF k
<1> HIDE DEF Good
<1>5. Good = Nat
  <2>1. Good \in SUBSET Nat
    BY DEF Good
  <2> QED BY <1>3, <1>4, <2>1, NatSteps
<1>6. P(Len(deps)) /\ Len(deps) \in 0 .. Len(deps) /\ DOMAIN deps = 1 .. Len(deps)
  <2>1. Len(deps) \in Nat /\ DOMAIN deps = 1 .. Len(deps)
    BY <1>1
  <2> HIDE DEF P
  <2> QED BY <1>5, <2>1 DEF Good
<1> QED BY <1>1, <1>2, <1>6 DEF deps, W

LEMMA OnceWell ==
    ASSUME NEW p \in Plans, WellNamed(p), NEW open \in SUBSET Names(p),
           NEW n \in Names(p), NEW d \in Walks(p), NEW table,
           n \notin open =>
             /\ table \in [Names(p) -> [Walks(p) -> Walks(p)]]
             /\ VisitsWell(p, open \cup {n}, table),
           Chained(p, open, n), Walking(p, open, d)
    PROVE  LET e == VisitOnce(p, open, n, d, table)
           IN  Walking(p, open, e) /\ Further(d, n, e)
<1> DEFINE e == VisitOnce(p, open, n, d, table)
<1>1. CASE d.cyclic \/ n \in ToSet(d.ordered)
  <2>1. e = d
    BY <1>1 DEF VisitOnce
  <2> QED BY <1>1, <2>1 DEF Further
<1>2. CASE ~ d.cyclic /\ n \notin ToSet(d.ordered) /\ n \in open
  <2>1. e.cyclic
    BY <1>2 DEF VisitOnce, Walks
  <2>2. WaitForEachOther(p, open)
    <3>1. open \cup {n} = open /\ open # {}
      BY <1>2
    <3>2. \A x \in open : Waits(p, x) \cap open # {}
      BY <3>1 DEF Chained
    <3> QED BY <3>1, <3>2 DEF WaitForEachOther, Waits
  <2>3. Circular(p)
    BY <2>2 DEF Circular
  <2> HIDE DEF e
  <2>4. Walking(p, open, e) /\ Further(d, n, e)
    BY <2>1, <2>3 DEF Walking, Further
  <2> QED BY <2>4 DEF e
<1>3. CASE ~ d.cyclic /\ n \notin ToSet(d.ordered) /\ n \notin open
  <2> DEFINE wider == open \cup {n}
             a == After(table, d, StepOf(p, n).depends_on)
  <2>1. \A m \in Waits(p, n) : Chained(p, wider, m)
    <3>1. ASSUME NEW m \in Waits(p, n), NEW x \in wider
          PROVE  Waits(p, x) \cap (wider \cup {m}) # {}
      <4>1. CASE x \in open
        BY <4>1 DEF Chained
      <4>2. CASE x = n
        BY <3>1, <4>2
      <4> QED BY <4>1, <4>2
    <3> QED BY <3>1 DEF Chained
  <2>2. Walking(p, wider, d)
    BY <1>3 DEF Walking
  <2>3. /\ a \in Walks(p)
        /\ Walking(p, wider, a)
        /\ a.cyclic \/ Waits(p, n) \subseteq ToSet(a.ordered)
        /\ a.cyclic \/ ToSet(d.ordered) \subseteq ToSet(a.ordered)
    BY <1>3, <2>1, <2>2, AfterWell
  <2>4. e = [a EXCEPT !.ordered = Append(@, n)]
    BY <1>3 DEF VisitOnce
  <2> HIDE DEF a, e
  <2>5. e.cyclic = a.cyclic /\ e.ordered = Append(a.ordered, n)
    BY <2>3, <2>4, Appending
  <2>6. ASSUME a.cyclic PROVE Walking(p, open, e) /\ Further(d, n, e)
    BY <2>3, <2>5, <2>6 DEF Walking, Further
  <2>7. ASSUME ~ a.cyclic PROVE Walking(p, open, e) /\ Further(d, n, e)
    <3>1. /\ InOrder(p, a.ordered) /\ n \notin ToSet(a.ordered)
          /\ a.ordered \in Seq(Names(p))
          /\ ToSet(a.ordered) \cap open = {}
      BY <2>3, <2>7 DEF Walking, Walks
    <3>2. /\ InOrder(p, e.ordered)
          /\ ToSet(e.ordered) = ToSet(a.ordered) \cup {n}
      BY <2>3, <2>5, <2>7, <3>1, OrderGrows
    <3> QED BY <1>3, <2>3, <2>5, <2>7, <3>1, <3>2 DEF Walking, Further
  <2> QED BY <2>6, <2>7 DEF e
<1> QED BY <1>1, <1>2, <1>3

LEMMA VisitsGoWell ==
    ASSUME NEW p \in Plans, WellNamed(p), NEW g,
           VisitEquation(p, SUBSET Names(p), g)
    PROVE  \A open \in SUBSET Names(p) : VisitsWell(p, open, g[open])
<1> DEFINE N == Names(p)
           Good == {open \in SUBSET N : VisitsWell(p, open, g[open])}
<1>0. \A open \in SUBSET N : g[open] \in [N -> [Walks(p) -> Walks(p)]]
  BY VisitsAreWalks
<1>1. ASSUME NEW open \in SUBSET N,
             \A n \in N \ open : open \cup {n} \in Good
      PROVE  open \in Good
  <2>1. g[open] = VisitRow(p, open, g)
    BY DEF VisitEquation
  <2>2. ASSUME NEW n \in N, NEW d \in Walks(p),
               Chained(p, open, n), Walking(p, open, d)
        PROVE  LET e == g[open][n][d]
               IN  Walking(p, open, e) /\ Further(d, n, e)
    <3>1. n \notin open => /\ g[open \cup {n}] \in [N -> [Walks(p) -> Walks(p)]]
                           /\ VisitsWell(p, open \cup {n}, g[open \cup {n}])
      BY <1>0, <1>1
    <3>2. g[open][n][d] = VisitOnce(p, open, n, d, g[open \cup {n}])
      BY <2>1 DEF VisitRow
    <3> DEFINE table == g[open \cup {n}]
    <3> HIDE DEF table
    <3> QED BY <2>2, <3>1, <3>2, OnceWell DEF table
  <2> QED BY <2>2 DEF VisitsWell
<1>2. Good = SUBSET N
  <2>1. Good \in SUBSET (SUBSET N) /\ IsFiniteSet(N)
    BY NamesAreFinite
  <2> HIDE DEF Good, N
  <2> QED BY <1>1, <2>1, ClosingIn
<1> QED BY <1>2

-----------------------------------------------------------------------------
(* What the whole walk gives *)

LEMMA VisitedWell ==
    ASSUME NEW p \in Plans, WellNamed(p), NEW n \in Names(p), NEW d \in Walks(p)
    PROVE  /\ Visited(p, d, n) \in Walks(p)
           /\ Walking(p, {}, d) =>
                Walking(p, {}, Visited(p, d, n)) /\ Further(d, n, Visited(p, d, n))
<1>1. PICK g : /\ VisitEquation(p, SUBSET Names(p), g)
               /\ Visited(p, d, n) = g[{}][n][d]
  BY VisitExists, VisitedUnfolds
<1>2. {} \in SUBSET Names(p) /\ Chained(p, {}, n)
  BY DEF Chained
<1>3. g[{}] \in [Names(p) -> [Walks(p) -> Walks(p)]]
  BY <1>1, <1>2, VisitsAreWalks
<1>4. VisitsWell(p, {}, g[{}])
  BY <1>1, <1>2, VisitsGoWell
<1>5. Walking(p, {}, d) =>
        Walking(p, {}, g[{}][n][d]) /\ Further(d, n, g[{}][n][d])
  BY <1>2, <1>4 DEF VisitsWell
<1>6. g[{}][n][d] \in Walks(p)
  BY <1>3
<1> QED BY <1>1, <1>5, <1>6

SortStep(p, s, g) ==
    IF s = {} THEN Unordered ELSE Visited(p, g[s \ {Max(s)}], p[Max(s)].name)

SortEquation(p, g) == g = [s \in SUBSET DOMAIN p |-> SortStep(p, s, g)]

LEMMA SortedUnfolds ==
    ASSUME NEW p
    PROVE  Sorted(p) = (CHOOSE g : SortEquation(p, g))[DOMAIN p]
BY DEF Sorted, FoldLeft, MapThenFoldSet, SortEquation, SortStep

LEMMA SortedWell ==
    ASSUME NEW p \in Plans, WellNamed(p)
    PROVE  LET d == Sorted(p)
           IN  /\ d \in Walks(p)
               /\ Walking(p, {}, d)
               /\ d.cyclic \/ ToSet(d.ordered) = Names(p)
<1> DEFINE n == Len(p)
           W == Walks(p)
           D == [e \in (1 .. n) \X W |-> Visited(p, e[2], p[e[1]].name)]
<1>0. /\ n \in Nat /\ DOMAIN p = 1 .. n
      /\ \A i \in 1 .. n : p[i].name \in Names(p)
  <2>1. p \in Seq(ToSet(p))
    BY PlansAssumption
  <2> QED BY <2>1 DEF Names
<1> HIDE DEF n
<1>1. Unordered \in W /\ Walking(p, {}, Unordered)
  <2>1. <<>> \in Seq(Names(p)) /\ DOMAIN <<>> = {}
    OBVIOUS
  <2> QED BY <2>1 DEF Unordered, Walks, Walking, InOrder
<1>2. PICK k \in [SUBSET (1 .. n) -> W] :
         FoldEquation(D, Unordered, SUBSET (1 .. n), k)
  <2>1. D \in [(1 .. n) \X W -> W]
    BY <1>0, VisitedWell
  <2> HIDE DEF D, W
  <2> QED BY <1>0, <1>1, <2>1, FoldExists
<1>3. SortEquation(p, k)
  <2>1. ASSUME NEW s \in SUBSET (1 .. n)
        PROVE  FoldStep(D, Unordered, s, k) = SortStep(p, s, k)
    <3>1. CASE s = {}
      BY <3>1 DEF FoldStep, SortStep
    <3>2. CASE s # {}
      <4>1. Max(s) \in 1 .. n /\ k[s \ {Max(s)}] \in W
        BY <1>0, <1>2, <3>2, MaxOf
      <4>2. D[<<Max(s), k[s \ {Max(s)}]>>] =
              Visited(p, k[s \ {Max(s)}], p[Max(s)].name)
        <5> HIDE DEF W
        <5> QED BY <4>1 DEF D
      <4> QED BY <3>2, <4>2 DEF FoldStep, SortStep
    <3> QED BY <3>1, <3>2
  <2> HIDE DEF D
  <2> QED BY <1>0, <1>2, <2>1 DEF FoldEquation, SortEquation
<1>4. PICK h : SortEquation(p, h) /\ Sorted(p) = h[1 .. n]
  BY <1>0, <1>3, SortedUnfolds
<1> HIDE DEF D
<1> DEFINE P(i) == LET d == h[1 .. i]
                   IN  /\ d \in Walks(p)
                       /\ Walking(p, {}, d)
                       /\ \/ d.cyclic
                          \/ {p[j].name : j \in 1 .. i} \subseteq ToSet(d.ordered)
           Good == {i \in Nat : i <= n => P(i)}
<1>5. 0 \in Good
  <2>1. 1 .. 0 = {}
    OBVIOUS
  <2>2. h[1 .. 0] = Unordered
    BY <1>4, <2>1 DEF SortEquation, SortStep
  <2> QED BY <1>1, <2>1, <2>2
<1>6. ASSUME NEW i \in Nat, i \in Good PROVE i + 1 \in Good
  <2> SUFFICES ASSUME i + 1 <= n PROVE P(i + 1)
    OBVIOUS
  <2> DEFINE k1 == i + 1
             d == h[1 .. i]
             e == h[1 .. k1]
             m == p[k1].name
  <2>1. k1 \in 1 .. n /\ k1 - 1 = i /\ P(i)
    <3>1. i <= n /\ k1 \in 1 .. n /\ k1 - 1 = i
      BY <1>0
    <3> QED BY <1>6, <3>1
  <2>2. /\ 1 .. k1 \in SUBSET (1 .. n)
        /\ 1 .. k1 # {}
        /\ Max(1 .. k1) = k1
        /\ (1 .. k1) \ {k1} = 1 .. i
    <3> HIDE DEF k1
    <3> QED BY <1>0, <2>1, LastPlace
  <2>3. e = Visited(p, d, m)
    <3>1. e = SortStep(p, 1 .. k1, h)
      BY <1>0, <1>4, <2>2 DEF SortEquation
    <3> HIDE DEF k1, e
    <3> QED BY <2>2, <3>1 DEF SortStep
  <2>4. m \in Names(p)
    BY <1>0, <2>1
  <2>5. {p[j].name : j \in 1 .. k1} = {p[j].name : j \in 1 .. i} \cup {m}
    <3>1. 1 .. k1 = (1 .. i) \cup {k1}
      BY <2>1
    <3> HIDE DEF k1
    <3> QED BY <3>1
  <2>6. d \in Walks(p) /\ Walking(p, {}, d)
    BY <2>1
  <2>7. d.cyclic \/ {p[j].name : j \in 1 .. i} \subseteq ToSet(d.ordered)
    BY <2>1
  <2> HIDE DEF d, m, Good
  <2>8. e \in Walks(p) /\ Walking(p, {}, e) /\ Further(d, m, e)
    <3> HIDE DEF e
    <3> QED BY <2>3, <2>4, <2>6, VisitedWell
  <2>9. e.cyclic \/ {p[j].name : j \in 1 .. k1} \subseteq ToSet(e.ordered)
    <3> HIDE DEF e
    <3> QED BY <2>5, <2>7, <2>8 DEF Further
  <2> QED BY <2>8, <2>9
<1> HIDE DEF Good
<1>7. Good = Nat
  <2>1. Good \in SUBSET Nat
    BY DEF Good
  <2> QED BY <1>5, <1>6, <2>1, NatSteps
<1>8. P(n)
  <2> HIDE DEF P
  <2> QED BY <1>0, <1>7 DEF Good
<1> DEFINE d == Sorted(p)
<1>9. d \in Walks(p) /\ Walking(p, {}, d)
  BY <1>4, <1>8
<1>10. d.cyclic \/ Names(p) \subseteq ToSet(d.ordered)
  <2>1. Names(p) = {p[j].name : j \in 1 .. n}
    BY <1>0 DEF Names
  <2> QED BY <1>4, <1>8, <2>1
<1> HIDE DEF d
<1>11. ToSet(d.ordered) \subseteq Names(p)
  <2>1. d.ordered \in Seq(Names(p))
    BY <1>9 DEF Walks
  <2> QED BY <2>1 DEF ToSet
<1> QED BY <1>9, <1>10, <1>11 DEF d

(* Who comes first of some that wait for each other waits for none of them.*)
LEMMA OrderBreaksCircles ==
    ASSUME NEW p, NEW s \in Seq(Names(p)), InOrder(p, s), ToSet(s) = Names(p)
    PROVE  ~ Circular(p)
<1> SUFFICES ASSUME Circular(p) PROVE FALSE
  OBVIOUS
<1>1. PICK some \in SUBSET Names(p) :
        some # {} /\ \A n \in some : Waits(p, n) \cap some # {}
  BY DEF Circular, WaitForEachOther, Waits
<1> DEFINE R == {i \in DOMAIN s : s[i] \in some}
<1>2. DOMAIN s = 1 .. Len(s) /\ Len(s) \in Nat
  OBVIOUS
<1>3. PICK i \in R : \A j \in R : i <= j
  <2>1. R \in SUBSET Nat
    BY <1>2
  <2>2. R # {}
    BY <1>1 DEF ToSet
  <2> HIDE DEF R
  <2> QED BY <2>1, <2>2, LeastOf
<1>4. PICK m \in Waits(p, s[i]) : m \in some
  BY <1>1
<1>5. PICK j \in 1 .. i - 1 : s[j] = m
  BY <1>4 DEF InOrder
<1>6. j \in R /\ j < i /\ i \in Nat /\ j \in Nat
  <2>1. j \in 1 .. Len(s)
    BY <1>2, <1>3
  <2> QED BY <1>2, <1>4, <1>5, <2>1
<1> HIDE DEF R
<1> QED BY <1>3, <1>6

LEMMA OrderedOnce ==
    ASSUME NEW p, WellNamed(p), NEW s \in Seq(Names(p)), InOrder(p, s),
           ToSet(s) = Names(p)
    PROVE  Len(s) = Len(p)
<1>1. DOMAIN s = 1 .. Len(s) /\ Len(s) \in Nat
  OBVIOUS
<1> DEFINE S == DOMAIN s
<1>2. s \in Bijection(S, Names(p))
  <2>1. s \in [S -> Names(p)]
    BY <1>1
  <2>2. \A i, j \in S : s[i] = s[j] => i = j
    BY DEF InOrder
  <2>3. \A n \in Names(p) : \E i \in S : s[i] = n
    BY DEF ToSet
  <2> HIDE DEF S
  <2> QED BY <2>1, <2>2, <2>3
      DEF Bijection, Injection, Surjection, IsInjective
<1>3. IsFiniteSet(S) /\ Cardinality(S) = Len(s)
  <2>1. 1 \in Int /\ Len(s) \in Int
    BY <1>1
  <2>2. /\ IsFiniteSet(1 .. Len(s))
        /\ Cardinality(1 .. Len(s)) = IF 1 > Len(s) THEN 0 ELSE Len(s) - 1 + 1
    BY <2>1, FS_Interval
  <2> QED BY <1>1, <2>2
<1>4. Cardinality(S) = Cardinality(Names(p))
  <2> HIDE DEF S
  <2>1. ExistsBijection(S, Names(p))
    BY <1>2 DEF ExistsBijection
  <2> QED BY <1>3, <2>1, FS_Bijection
<1> QED BY <1>3, <1>4 DEF WellNamed

(* What execution_order says, for any plan.                                *)
LEMMA ExecutionOrder ==
    ASSUME NEW p \in Plans
    PROVE  /\ Unplannable(p) <=> ~ WellNamed(p) \/ Circular(p)
           /\ ~ Unplannable(p) =>
                /\ Sorted(p).ordered \in Seq(Names(p))
                /\ InOrder(p, Sorted(p).ordered)
                /\ ToSet(Sorted(p).ordered) = Names(p)
                /\ Len(Sorted(p).ordered) = Len(p)
<1>1. CASE ~ WellNamed(p)
  BY <1>1 DEF Unplannable
<1>2. CASE WellNamed(p)
  <2> DEFINE d == Sorted(p)
  <2>1. /\ d \in Walks(p)
        /\ Walking(p, {}, d)
        /\ d.cyclic \/ ToSet(d.ordered) = Names(p)
    BY <1>2, SortedWell
  <2>2. Unplannable(p) = d.cyclic
    BY <1>2 DEF Unplannable
  <2> HIDE DEF d
  <2>3. CASE d.cyclic
    BY <1>2, <2>1, <2>2, <2>3 DEF Walking
  <2>4. CASE ~ d.cyclic
    <3>1. d.ordered \in Seq(Names(p)) /\ InOrder(p, d.ordered)
      BY <2>1, <2>4 DEF Walking, Walks
    <3>2. ~ Circular(p) /\ Len(d.ordered) = Len(p)
      BY <1>2, <2>1, <2>4, <3>1, OrderBreaksCircles, OrderedOnce
    <3> QED BY <1>2, <2>1, <2>2, <2>4, <3>1, <3>2 DEF d
  <2> QED BY <2>3, <2>4
<1> QED BY <1>1, <1>2

-----------------------------------------------------------------------------
(* The walk of estimate_plan *)

(* A plan was refused if it could not be planned, and is otherwise gone    *)
(* through in the order of its walk.                                       *)
OrderInv ==
    /\ pc = "idle" => plan = None
    /\ pc # "idle" =>
         /\ plan \in Plans
         /\ pc = "raised" <=> Unplannable(plan)
         /\ pc # "raised" => order = Sorted(plan).ordered

(* A cost is a number exactly if the step found a model.                   *)
Paid(c) == IF c.model_id = None THEN c.cost_rub = None ELSE c.cost_rub \in Nat

(* The steps that have a cost are the first of the order.                  *)
CostsInv ==
    /\ pc \in {"idle", "raised"} => costs = <<>>
    /\ pc \notin {"idle", "raised"} => Len(costs) <= Len(order)
    /\ \A i \in DOMAIN costs : costs[i].name = order[i] /\ Paid(costs[i])

PricingInv == pc = "pricing" => Len(costs) < Len(order)

(* The verdict was made when every step had its cost.                      *)
VerdictInv ==
    result # None =>
      /\ pc = "done"
      /\ Len(costs) = Len(order)
      /\ result.verdict = "go" <=> Blockers = {}

PlanInv == OrderInv /\ CostsInv /\ PricingInv /\ VerdictInv

LEMMA InitPlan == FreeInit => PlanInv
<1> SUFFICES ASSUME FreeInit PROVE PlanInv
  OBVIOUS
<1>1. pc = "idle" /\ plan = None /\ costs = <<>> /\ result = None
  BY DEF FreeInit, Init
<1>2. DOMAIN costs = {}
  BY <1>1
<1> QED BY <1>1, <1>2 DEF PlanInv, OrderInv, CostsInv, PricingInv, VerdictInv

LEMMA PlanKept ==
    ASSUME PlanInv, UNCHANGED planVars
    PROVE  PlanInv'
<1>1. OrderInv'
  BY DEF PlanInv, OrderInv, planVars
<1>2. CostsInv'
  BY DEF PlanInv, CostsInv, planVars
<1>3. Blockers' = Blockers
  BY DEF planVars, Blockers, Total, LeftToday
<1>4. VerdictInv' /\ PricingInv'
  BY <1>3 DEF PlanInv, PricingInv, VerdictInv, planVars
<1> QED BY <1>1, <1>2, <1>4 DEF PlanInv

(* A step that was priced comes to the others, in its place.               *)
LEMMA CostRecorded ==
    ASSUME FreeInv, PlanInv, pc \notin {"idle", "raised"},
           pc' = "ready", result = None,
           Len(costs) < Len(order),
           NEW model, NEW cost, Paid(StepCost(model, cost)),
           costs' = Append(costs, StepCost(model, cost)),
           UNCHANGED <<plan, order, result>>
    PROVE  PlanInv'
<1> DEFINE new == StepCost(model, cost)
           last == Len(costs) + 1
<1>1. new.name = order[last]
  BY DEF StepCost, StepName
<1>2. /\ Len(costs) \in Nat /\ Len(costs') = last
      /\ DOMAIN costs = 1 .. Len(costs) /\ DOMAIN costs' = 1 .. last
      /\ \A i \in 1 .. Len(costs) : costs'[i] = costs[i]
      /\ costs'[last] = new
  <2>1. IsSeq(costs) /\ costs' = Append(costs, new)
    BY DEF FreeInv, StepsInv
  <2> HIDE DEF new
  <2> QED BY <2>1, Appended
<1>3. Paid(new)
  OBVIOUS
<1> HIDE DEF new
<1>4. order \in Seq(Names(plan))
  BY ExecutionOrder DEF PlanInv, OrderInv
<1>5. Len(costs') <= Len(order')
  BY <1>2, <1>4
<1>6. ASSUME NEW i \in DOMAIN costs'
      PROVE  costs'[i].name = order'[i] /\ Paid(costs'[i])
  <2>1. i \in DOMAIN costs \/ i = last
    BY <1>2
  <2> HIDE DEF last
  <2> QED BY <1>1, <1>2, <1>3, <2>1 DEF PlanInv, CostsInv
<1>7. CostsInv'
  BY <1>5, <1>6 DEF CostsInv, Paid
<1>8. OrderInv' /\ PricingInv' /\ VerdictInv'
  BY DEF PlanInv, OrderInv, PricingInv, VerdictInv
<1> QED BY <1>7, <1>8 DEF PlanInv

LEMMA PlanStep ==
    ASSUME FreeInv, PlanInv, Next
    PROVE  PlanInv'
<1>1. ASSUME NEW p \in Plans, EstimatePlan(p) PROVE PlanInv'
  <2>1. /\ pc = "idle" /\ plan' = p /\ costs' = costs /\ result' = result
        /\ \/ Unplannable(p) /\ pc' = "raised"
           \/ ~ Unplannable(p) /\ pc' = "ready" /\ order' = Sorted(p).ordered
    BY <1>1 DEF EstimatePlan
  <2>2. costs = <<>> /\ result = None
    BY <2>1 DEF PlanInv, CostsInv, VerdictInv
  <2>3. OrderInv'
    BY <2>1 DEF OrderInv
  <2>4. CostsInv'
    <3>1. DOMAIN costs' = {} /\ Len(costs') = 0 /\ costs' = <<>>
      BY <2>1, <2>2
    <3>2. pc' = "ready" => Len(order') \in Nat
      BY <2>1, ExecutionOrder
    <3> QED BY <2>1, <3>1, <3>2 DEF CostsInv
  <2>5. PricingInv' /\ VerdictInv'
    BY <2>1, <2>2 DEF PricingInv, VerdictInv
  <2> QED BY <2>3, <2>4, <2>5 DEF PlanInv
<1>2. pc # "done" => result = None
  BY DEF PlanInv, VerdictInv
<1>3. CASE BlockStep
  <2>1. /\ pc = "ready" /\ pc' = pc /\ Len(costs) < Len(order)
        /\ costs' = Append(costs, StepCost(None, None))
        /\ UNCHANGED <<plan, order, result>>
    BY <1>3 DEF BlockStep
  <2>2. Paid(StepCost(None, None))
    BY DEF StepCost, Paid
  <2> QED BY <1>2, <2>1, <2>2, CostRecorded
<1>4. CASE PriceStep
  <2>1. /\ pc = "ready" /\ pc' = "pricing" /\ Len(costs) < Len(order)
        /\ UNCHANGED <<plan, account, order, costs, result>>
    BY <1>4 DEF PriceStep
  <2>2. OrderInv'
    BY <2>1 DEF PlanInv, OrderInv
  <2>3. CostsInv'
    BY <2>1 DEF PlanInv, CostsInv
  <2> QED BY <1>2, <2>1, <2>2, <2>3 DEF PlanInv, PricingInv, VerdictInv
<1>5. CASE \E id \in DOMAIN bodies, answer \in Answers \cup {Failed} :
             Answered(id, answer)
  BY <1>5, PlanKept DEF Answered
<1>6. CASE ChooseModel
  <2>1. /\ pc = "pricing" /\ pc' = "ready"
        /\ costs' = Append(costs, StepRouted)
        /\ UNCHANGED <<plan, order, result>>
    BY <1>6 DEF ChooseModel
  <2>2. Len(costs) < Len(order)
    BY <2>1 DEF PlanInv, PricingInv
  <2>3. AnswersOK /\ DOMAIN answers = DOMAIN bodies
    BY <1>6 DEF FreeInv, InFlightInv, ChooseModel, AllAnswered
  <2>4. CASE Priced(StepCeiling) = {}
    <3>1. Paid(StepCost(None, None)) /\ StepRouted = StepCost(None, None)
      BY <2>4 DEF StepCost, Paid, StepRouted
    <3> QED BY <1>2, <2>1, <2>2, <3>1, CostRecorded
  <2>5. CASE Priced(StepCeiling) # {}
    <3> DEFINE model == Best(StepCeiling)
               cost == CostOf(Estimates[model])
    <3>1. model \in Priced(StepCeiling) /\ cost \in Nat
      BY <2>3, <2>5, BestIsCheapest, CostsAreNumbers, CeilingsAssumption
    <3>2. model # None
      BY <2>3, <3>1, CatalogAssumption DEF AnswersOK, Priced
    <3>3. StepRouted = StepCost(model, cost)
      BY <2>5 DEF StepRouted
    <3> HIDE DEF model, cost
    <3>4. Paid(StepCost(model, cost))
      BY <3>1, <3>2 DEF StepCost, Paid
    <3> QED BY <1>2, <2>1, <2>2, <3>3, <3>4, CostRecorded
  <2> QED BY <2>4, <2>5
<1>7. CASE Conclude
  <2>1. /\ pc = "ready" /\ pc' = "done" /\ Len(costs) = Len(order)
        /\ UNCHANGED <<plan, account, order, costs>>
        /\ result'.verdict = "go" <=> Blockers = {}
    BY <1>7 DEF Conclude
  <2>2. OrderInv' /\ CostsInv'
    BY <2>1 DEF PlanInv, OrderInv, CostsInv
  <2>3. Blockers' = Blockers
    BY <2>1 DEF Blockers, Total, LeftToday
  <2> QED BY <2>1, <2>2, <2>3 DEF PlanInv, PricingInv, VerdictInv
<1> QED
  BY <1>1, <1>3, <1>4, <1>5, <1>6, <1>7 DEF Next, Proceed

LEMMA PlanInductive == FreeInv /\ PlanInv /\ [FreeNext]_allVars => PlanInv'
<1> SUFFICES ASSUME FreeInv, PlanInv, [FreeNext]_allVars
             PROVE  PlanInv'
  OBVIOUS
<1>1. CASE Planning
  BY <1>1, PlanStep DEF Planning
<1>2. CASE Reporting \/ Drifting \/ VerifyingClaims \/ UNCHANGED allVars
  <2>1. UNCHANGED planVars
    BY <1>2 DEF Reporting, Drifting, VerifyingClaims, allVars, vars
  <2> QED BY <2>1, PlanKept
<1> QED BY <1>1, <1>2 DEF FreeNext

LEMMA PlanInvariant == FreeSpec => []PlanInv
BY InitPlan, PlanInductive, FreeInvariant, PTL DEF FreeSpec

(* Whatever steps wait for whichever others: the plan is refused exactly   *)
(* if it cannot be ordered, and otherwise priced in an order in which      *)
(* every step comes after all it waits for (OrderIsTopological,            *)
(* execution_order in planner.py).                                         *)
THEOREM PlansAreOrdered == FreeSpec => []OrderIsTopological
<1>1. PlanInv => OrderIsTopological
  <2> SUFFICES ASSUME PlanInv, plan # None
               PROVE  /\ pc = "raised" <=> ~ WellNamed(plan) \/ Circular(plan)
                      /\ pc # "raised" =>
                           /\ ToSet(order) = Names(plan)
                           /\ Len(order) = Len(plan)
                           /\ \A i \in DOMAIN order :
                                \A n \in Waits(plan, order[i]) :
                                  \E j \in 1 .. i - 1 : order[j] = n
    BY DEF OrderIsTopological, Circular, Waits
  <2>1. /\ plan \in Plans
        /\ pc = "raised" <=> Unplannable(plan)
        /\ pc # "raised" => order = Sorted(plan).ordered
    BY DEF PlanInv, OrderInv
  <2>2. Unplannable(plan) <=> ~ WellNamed(plan) \/ Circular(plan)
    BY <2>1, ExecutionOrder
  <2>3. ~ Unplannable(plan) =>
          /\ InOrder(plan, Sorted(plan).ordered)
          /\ ToSet(Sorted(plan).ordered) = Names(plan)
          /\ Len(Sorted(plan).ordered) = Len(plan)
    BY <2>1, ExecutionOrder
  <2>4. pc # "raised" =>
          /\ InOrder(plan, order)
          /\ ToSet(order) = Names(plan)
          /\ Len(order) = Len(plan)
    BY <2>1, <2>3
  <2> QED BY <2>1, <2>2, <2>4 DEF InOrder
<1> QED BY <1>1, PlanInvariant, PTL

(* The sum of what is in the costs, and the sum of what the chosen dry     *)
(* runs said.                                                              *)
LEMMA TotalIsSpent ==
    ASSUME FreeInv, PlanInv, \A i \in DOMAIN costs : costs[i].model_id # None
    PROVE  SumFunction(Spent) = Total /\ Total \in Nat
<1> DEFINE S == DOMAIN costs
           paid == [i \in DOMAIN costs |->
                      IF costs[i].cost_rub = None THEN 0 ELSE costs[i].cost_rub]
<1>1. IsFiniteSet(S)
  <2>1. DOMAIN costs = 1 .. Len(costs) /\ Len(costs) \in Nat
    BY DEF FreeInv, StepsInv, IsSeq
  <2> QED BY <2>1, FS_Interval
<1>2. ASSUME NEW i \in S
      PROVE  /\ costs[i].cost_rub \in Nat
             /\ costs[i].cost_rub = CostOf(quotes[i][costs[i].model_id])
  <2>1. LeastPaid(StepOf(plan, costs[i].name).intent, costs[i], quotes[i])
    BY StepByStep DEF FreeInv, StepsInv
  <2>2. Paid(costs[i])
    BY DEF PlanInv, CostsInv
  <2> QED BY <2>1, <2>2 DEF LeastPaid, Paid
<1>3. \A i \in S : paid[i] \in Nat /\ paid[i] \in Int /\ Spent[i] = paid[i]
  BY <1>2, NoneAssumption DEF Spent
<1>4. /\ Total = SumFunctionOnSet(paid, S)
      /\ SumFunction(Spent) = SumFunctionOnSet(Spent, S)
  BY DEF Total, SumFunction, Spent
<1> HIDE DEF paid, S
<1>5. SumFunctionOnSet(Spent, S) = SumFunctionOnSet(paid, S)
  BY <1>1, <1>3, SumSame
<1>6. SumFunctionOnSet(paid, S) \in Nat
  BY <1>1, <1>3, SumIsNat
<1> QED BY <1>4, <1>5, <1>6

LEMMA NoBlockers ==
    Blockers = {} <=>
      /\ \A i \in DOMAIN costs : costs[i].model_id # None
      /\ ~ (Total > account.balance)
      /\ account.daily_limit # None => ~ (Total > LeftToday)
      /\ PlanCeiling # None => ~ (Total > PlanCeiling)
<1> DEFINE over == Total > account.balance
           day == account.daily_limit # None /\ Total > LeftToday
           plans == PlanCeiling # None /\ Total > PlanCeiling
           gaps == {c.name : c \in {costs[i] : i \in {j \in DOMAIN costs :
                                      costs[j].model_id = None}}}
<1>1. gaps = {} <=> \A i \in DOMAIN costs : costs[i].model_id # None
  OBVIOUS
<1>2. Blockers = gaps \cup {b \in {"balance"} : over}
                      \cup {b \in {"daily"} : day}
                      \cup {b \in {"ceiling"} : plans}
  BY DEF Blockers
<1> HIDE DEF over, day, plans, gaps
<1>3. Blockers = {} <=> gaps = {} /\ ~ over /\ ~ day /\ ~ plans
  BY <1>2
<1> QED BY <1>1, <1>3 DEF over, day, plans

(* For any plan, account and ceilings, "go" means that the whole is        *)
(* covered, and is not withheld otherwise (GoIsCovered, planner.py).       *)
THEOREM GoMeansCovered == FreeSpec => []GoIsCovered
<1>1. ASSUME FreeInv, PlanInv PROVE GoIsCovered
  <2> SUFFICES ASSUME result # None
               PROVE  Blockers = {} <=>
                        /\ \A n \in Names(plan) : \E i \in DOMAIN costs :
                             costs[i].name = n /\ costs[i].model_id # None
                        /\ LET spent == SumFunction(Spent)
                           IN  /\ spent <= account.balance
                               /\ account.daily_limit # None =>
                                    spent = 0 \/ spent + account.spent_today
                                                   <= account.daily_limit
                               /\ PlanCeiling # None => spent <= PlanCeiling
    BY <1>1 DEF GoIsCovered, PlanInv, VerdictInv
  <2> DEFINE found == \A i \in DOMAIN costs : costs[i].model_id # None
  <2>1. /\ plan \in Plans /\ ~ Unplannable(plan) /\ order = Sorted(plan).ordered
        /\ Len(costs) = Len(order)
    BY <1>1 DEF PlanInv, OrderInv, VerdictInv
  <2>2. /\ order \in Seq(Names(plan)) /\ InOrder(plan, order)
        /\ ToSet(order) = Names(plan)
    BY <2>1, ExecutionOrder
  <2>3. DOMAIN costs = DOMAIN order
    <3>1. DOMAIN costs = 1 .. Len(costs)
      BY <1>1 DEF FreeInv, StepsInv, IsSeq
    <3> QED BY <2>1, <2>2, <3>1
  <2>4. found <=> \A n \in Names(plan) : \E i \in DOMAIN costs :
                    costs[i].name = n /\ costs[i].model_id # None
    <3>1. \A i \in DOMAIN costs : costs[i].name = order[i]
      BY <1>1 DEF PlanInv, CostsInv
    <3>2. ASSUME found, NEW n \in Names(plan)
          PROVE  \E i \in DOMAIN costs :
                   costs[i].name = n /\ costs[i].model_id # None
      BY <2>2, <2>3, <3>1, <3>2 DEF ToSet
    <3>3. ASSUME NEW i \in DOMAIN costs,
                 \A n \in Names(plan) : \E j \in DOMAIN costs :
                   costs[j].name = n /\ costs[j].model_id # None
          PROVE  costs[i].model_id # None
      <4>1. order[i] \in Names(plan)
        BY <2>2, <2>3
      <4>2. PICK j \in DOMAIN costs :
              costs[j].name = order[i] /\ costs[j].model_id # None
        BY <3>3, <4>1
      <4>3. j = i
        BY <2>2, <2>3, <3>1, <4>2 DEF InOrder
      <4> QED BY <4>2, <4>3
    <3> QED BY <3>2, <3>3
  <2> HIDE DEF found
  <2>5. CASE ~ found
    BY <2>4, <2>5, NoBlockers DEF found
  <2>6. CASE found
    <3> DEFINE spent == SumFunction(Spent)
    <3>1. spent = Total /\ spent \in Nat
      BY <1>1, <2>6, TotalIsSpent DEF found
    <3>2. /\ account.balance \in Int /\ account.spent_today \in Int
          /\ account.daily_limit \in Int \cup {None}
          /\ PlanCeiling \in Nat \cup {None}
      BY <1>1, AccountsAssumption, CeilingsAssumption DEF FreeInv, JobsApart
    <3>3. ASSUME account.daily_limit # None
          PROVE  ~ (spent > LeftToday) <=>
                   spent = 0 \/ spent + account.spent_today <= account.daily_limit
      BY <3>1, <3>2, <3>3 DEF LeftToday
    <3>4. PlanCeiling # None => (~ (spent > PlanCeiling) <=> spent <= PlanCeiling)
      BY <3>1, <3>2
    <3>5. ~ (spent > account.balance) <=> spent <= account.balance
      BY <3>1, <3>2
    <3> HIDE DEF spent
    <3>6. Blockers = {} <=>
            /\ spent <= account.balance
            /\ account.daily_limit # None =>
                 spent = 0 \/ spent + account.spent_today <= account.daily_limit
            /\ PlanCeiling # None => spent <= PlanCeiling
      BY <2>6, <3>1, <3>3, <3>4, <3>5, NoBlockers DEF found
    <3> QED BY <2>4, <2>6, <3>6 DEF spent
  <2> QED BY <2>5, <2>6
<1> QED BY <1>1, PlanInvariant, FreeInvariant, PTL

-----------------------------------------------------------------------------
(* The sums of the overspend report *)

(* The price of the cheapest usable answer, if there is one.               *)
CheapestOf(quoted) ==
    LET usable == {id \in DOMAIN quoted : Usable(quoted[id], None)}
    IN  {CostOf(quoted[id]) : id \in {b \in usable :
           \A o \in usable : CostOf(quoted[b]) <= CostOf(quoted[o])}}

(* What a verdict on a generation says is so.                              *)
Fair(g, item, quoted) ==
    /\ item.paid = g.cost /\ item.paid \in Nat
    /\ item.skipped <=> g.refunded \/ CheapestOf(quoted) = {}
    /\ ~ item.skipped => /\ CheapestOf(quoted) = {item.cheapest}
                         /\ item.cheapest \in Nat

(* A history is a list of charges.                                         *)
HistoryInv ==
    /\ Len(history) \in Nat
    /\ \A i \in 1 .. Len(history) : history[i].cost \in Nat

(* Every verdict so far is fair to its generation.                         *)
VerdictsInv ==
    /\ history # None => HistoryInv
    /\ pc # "pricing" /\ bodies # <<>> => ~ Generation.refunded
    /\ \A i \in DOMAIN items : Fair(history[i], items[i], compared[i].answers)

LEMMA CheapestIsBest ==
    ASSUME AnswersOK, DOMAIN answers = DOMAIN bodies
    PROVE  IF Priced(None) = {} THEN CheapestOf(answers) = {}
           ELSE /\ CheapestOf(answers) = {CostOf(Estimates[Best(None)])}
                /\ CostOf(Estimates[Best(None)]) \in Nat
                /\ Best(None) # None
<1> DEFINE cost(id) == CostOf(answers[id])
           P == Priced(None)
<1>0. None \in Nat \cup {None}
  OBVIOUS
<1>1. P = {id \in DOMAIN answers : Usable(answers[id], None)}
  BY <1>0, PricedIsUsable
<1>2. CheapestOf(answers) =
        {cost(id) : id \in {b \in P : \A o \in P : cost(b) <= cost(o)}}
  BY <1>1 DEF CheapestOf
<1>3. CASE P = {}
  BY <1>2, <1>3
<1>4. CASE P # {}
  <2>1. \A id \in P : cost(id) \in Nat
    BY <1>0, CostsAreNumbers
  <2>2. /\ Best(None) \in P /\ Estimates[Best(None)] = answers[Best(None)]
        /\ \A id \in P : cost(Best(None)) <= cost(id)
    BY <1>0, <1>4, BestIsCheapest
  <2>3. Best(None) # None
    BY <1>1, <2>2, CatalogAssumption DEF AnswersOK
  <2> HIDE DEF P, cost
  <2>4. \A b \in P : (\A o \in P : cost(b) <= cost(o)) => cost(b) = cost(Best(None))
    BY <2>1, <2>2
  <2>5. CheapestOf(answers) = {cost(Best(None))}
    BY <1>2, <2>2, <2>4
  <2> QED BY <1>4, <2>1, <2>2, <2>3, <2>5 DEF P, cost
<1> QED BY <1>3, <1>4

LEMMA NothingIsCheapest == CheapestOf(<<>>) = {}
<1>1. DOMAIN <<>> = {}
  OBVIOUS
<1> QED BY <1>1 DEF CheapestOf

(* A verdict that is fair comes to the others. *)
LEMMA VerdictRecorded ==
    ASSUME ReportInv, VerdictsInv, history # None, history' = history,
           NEW verdict, NEW b, NEW a,
           items' = Append(items, verdict),
           compared' = Append(compared, [bodies |-> b, answers |-> a]),
           Fair(Generation, verdict, a), bodies' = <<>>
    PROVE  VerdictsInv'
<1> DEFINE new  == [bodies |-> b, answers |-> a]
           last == Len(items) + 1
<1>1. IsSeq(items) /\ IsSeq(compared) /\ Len(items) = Len(compared)
  BY DEF ReportInv
<1>2. /\ Len(items) \in Nat /\ DOMAIN items = 1 .. Len(items)
      /\ DOMAIN items' = 1 .. last
      /\ \A i \in 1 .. Len(items) : items'[i] = items[i]
      /\ items'[last] = verdict
  BY <1>1, Appended
<1>3. compared' = Append(compared, new)
  OBVIOUS
<1>4. new.answers = a
  OBVIOUS
<1> HIDE DEF new
<1>5. /\ \A i \in 1 .. Len(items) : compared'[i] = compared[i]
      /\ compared'[last] = new
  BY <1>1, <1>3, Appended
<1>6. Fair(history'[last], items'[last], compared'[last].answers)
  BY <1>2, <1>4, <1>5 DEF Generation
<1>7. \A i \in 1 .. Len(items) : Fair(history'[i], items'[i], compared'[i].answers)
  BY <1>2, <1>5 DEF VerdictsInv
<1>8. \A i \in 1 .. last : i \in 1 .. Len(items) \/ i = last
  BY <1>2
<1>9. \A i \in DOMAIN items' : Fair(history'[i], items'[i], compared'[i].answers)
  BY <1>2, <1>6, <1>7, <1>8
<1>10. (history # None => HistoryInv)'
  BY DEF VerdictsInv, HistoryInv
<1> QED BY <1>9, <1>10 DEF VerdictsInv, Fair, CheapestOf, Usable, CostOf

LEMMA ParsedCosts ==
    ASSUME NEW raw \in Histories
    PROVE  /\ Len(ParseGenerations(raw)) \in Nat
           /\ \A i \in 1 .. Len(ParseGenerations(raw)) :
                ParseGenerations(raw)[i].cost \in Nat
<1> DEFINE X == ToSet(raw)
           objects == Among(raw, X \ {Other})
<1>1. raw \in Seq(X) /\ \A e \in X \ {Other} : Parsed(e).cost \in Nat
  BY HistoriesAssumption
<1>2. objects \in Seq(X \cap (X \ {Other}))
  <2> HIDE DEF X
  <2> QED BY <1>1, AmongIsSeq
<1>3. ParseGenerations(raw) = [i \in DOMAIN objects |-> Parsed(objects[i])]
  BY DEF ParseGenerations
<1> HIDE DEF X, objects
<1>4. /\ Len(objects) \in Nat /\ DOMAIN objects = 1 .. Len(objects)
      /\ \A i \in 1 .. Len(objects) : objects[i] \in X \ {Other}
  BY <1>2
<1>5. Len(ParseGenerations(raw)) = Len(objects)
  BY <1>3, <1>4
<1>6. \A i \in 1 .. Len(objects) : ParseGenerations(raw)[i] = Parsed(objects[i])
  BY <1>3, <1>4
<1> QED BY <1>1, <1>4, <1>5, <1>6

LEMMA VerdictsKept ==
    ASSUME VerdictsInv, UNCHANGED reportVars,
           pc' # "pricing" /\ bodies' # <<>> => ~ Generation.refunded
    PROVE  VerdictsInv'
<1>1. /\ history' = history /\ items' = items /\ compared' = compared
      /\ Generation' = Generation
  BY DEF reportVars, Generation
<1>2. (history # None => HistoryInv)'
  BY <1>1 DEF VerdictsInv, HistoryInv
<1>3. \A i \in DOMAIN items' : Fair(history'[i], items'[i], compared'[i].answers)
  BY <1>1 DEF VerdictsInv
<1> QED BY <1>1, <1>2, <1>3 DEF VerdictsInv, Fair, CheapestOf, Usable, CostOf

LEMMA VerdictsStep ==
    ASSUME FreeInv, VerdictsInv, [FreeNext]_allVars
    PROVE  VerdictsInv'
<1> USE DEF FreeInv
<1>1. ASSUME UNCHANGED <<vars, reportVars>> PROVE VerdictsInv'
  <2>1. UNCHANGED <<pc, bodies, reportVars>>
    BY <1>1 DEF vars, planVars, routing
  <2> QED BY <2>1, VerdictsKept DEF VerdictsInv
<1>2. ASSUME Planning PROVE VerdictsInv'
  <2>1. UNCHANGED reportVars /\ job = "plan" /\ job' = job
    BY <1>2 DEF Planning
  <2>2. pc' # "pricing" /\ bodies' # <<>> => ~ Generation.refunded
    <3>1. history' = None
      BY <2>1 DEF JobsApart, reportVars
    <3>2. InFlightInv'
      BY FreeInductive
    <3> QED BY <3>1, <3>2 DEF InFlightInv
  <2> QED BY <2>1, <2>2, VerdictsKept
<1>3. ASSUME Reporting PROVE VerdictsInv'
  <2>1. job = "overspend" /\ UNCHANGED planVars
    BY <1>3 DEF Reporting
  <2>2. pc = "idle" /\ pc' = "idle"
    BY <2>1 DEF JobsApart, planVars
  <2>3. ASSUME NEW raw \in Histories, ReadHistory(raw) PROVE VerdictsInv'
    <3>1. /\ items' = <<>> /\ bodies' = <<>>
          /\ history' = ParseGenerations(raw)
      BY <2>2, <2>3 DEF ReadHistory, routing, JobsApart, InFlightInv
    <3>2. HistoryInv'
      BY <3>1, ParsedCosts DEF HistoryInv
    <3>3. DOMAIN items' = {}
      BY <3>1
    <3> QED BY <3>1, <3>2, <3>3 DEF VerdictsInv
  <2>4. ASSUME InReport
        PROVE  /\ history # None /\ Generation.cost \in Nat
    <3>1. Len(items) \in Nat
      BY Appended DEF ReportInv
    <3>2. history # None /\ HistoryInv /\ Len(items) < Len(history)
      BY <2>4 DEF InReport, VerdictsInv
    <3>3. Len(items) + 1 \in 1 .. Len(history)
      BY <3>1, <3>2 DEF HistoryInv
    <3> QED BY <3>2, <3>3 DEF HistoryInv, Generation
  <2>5. ASSUME SkipGeneration PROVE VerdictsInv'
    <3>1. /\ InReport /\ bodies' = <<>> /\ history' = history
          /\ items' = Append(items, Verdict(None, None))
          /\ compared' = Append(compared, [bodies |-> <<>>, answers |-> <<>>])
      BY <2>5 DEF SkipGeneration, routing
    <3>2. Fair(Generation, Verdict(None, None), <<>>)
      BY <2>4, <3>1, NothingIsCheapest DEF Fair, Verdict
    <3> QED BY <2>4, <3>1, <3>2, VerdictRecorded
  <2>6. ASSUME PriceGeneration PROVE VerdictsInv'
    <3>1. UNCHANGED reportVars /\ ~ Generation.refunded
      BY <2>6 DEF PriceGeneration, Analysable
    <3> QED BY <3>1, VerdictsKept
  <2>7. ASSUME NEW id, NEW answer \in Answers \cup {Failed},
               GenerationEstimated(id, answer)
        PROVE  VerdictsInv'
    <3>1. UNCHANGED <<reportVars, bodies>>
      BY <2>7 DEF GenerationEstimated, Estimated
    <3> QED BY <2>2, <3>1, VerdictsKept DEF VerdictsInv
  <2>8. ASSUME CompareGeneration PROVE VerdictsInv'
    <3> DEFINE verdict == IF Priced(None) = {} THEN Verdict(None, None)
                          ELSE Verdict(Best(None), CostOf(Estimates[Best(None)]))
    <3>0. AnswersOK /\ DOMAIN answers = DOMAIN bodies
      BY <2>8 DEF InFlightInv, CompareGeneration, AllAnswered
    <3>1. /\ InReport /\ bodies # <<>> /\ bodies' = <<>> /\ history' = history
          /\ items' = Append(items, verdict)
          /\ compared' = Append(compared, [bodies |-> bodies, answers |-> answers])
      BY <2>8 DEF CompareGeneration, AllAnswered, Routed
    <3>2. ~ Generation.refunded
      BY <2>2, <3>1 DEF VerdictsInv
    <3>3. Fair(Generation, verdict, answers)
      <4>1. Generation.cost \in Nat
        BY <2>4, <3>1
      <4>2. CASE Priced(None) = {}
        <5>1. verdict = Verdict(None, None) /\ CheapestOf(answers) = {}
          BY <3>0, <4>2, CheapestIsBest
        <5> QED BY <4>1, <5>1 DEF Fair, Verdict
      <4>3. CASE Priced(None) # {}
        <5> DEFINE best == Best(None)
                   cost == CostOf(Estimates[best])
        <5>1. /\ verdict = Verdict(best, cost)
              /\ CheapestOf(answers) = {cost} /\ cost \in Nat /\ best # None
          BY <3>0, <4>3, CheapestIsBest
        <5> HIDE DEF best, cost
        <5> QED BY <3>2, <4>1, <5>1 DEF Fair, Verdict
      <4> QED BY <4>2, <4>3
    <3> HIDE DEF verdict
    <3> QED BY <2>4, <3>1, <3>3, VerdictRecorded
  <2>9. Report \/ \E raw \in Histories : ReadHistory(raw)
    BY <1>3 DEF Reporting
  <2> QED BY <2>3, <2>5, <2>6, <2>7, <2>8, <2>9 DEF Report
<1>4. UNCHANGED <<vars, reportVars>> \/ Planning \/ Reporting
  BY DEF FreeNext, allVars, Drifting, VerifyingClaims
<1> QED BY <1>1, <1>2, <1>3, <1>4

-----------------------------------------------------------------------------
(* The sums *)

LEMMA SavingIsPart ==
    ASSUME NEW item, item.paid \in Nat, item.cheapest \in Nat
    PROVE  /\ Saving(item) \in Nat
           /\ Saving(item) <= item.paid
           /\ item.paid <= Saving(item) + item.cheapest
           /\ Cardinality({rub \in 1 .. item.paid : rub > item.cheapest}) =
                Saving(item)
<1> DEFINE p == item.paid
           c == item.cheapest
<1>1. Saving(item) = IF p > c THEN p - c ELSE 0
  BY DEF Saving
<1>2. {rub \in 1 .. p : rub > c} = (c + 1) .. p
  OBVIOUS
<1>4. p \in Nat /\ c \in Nat
  OBVIOUS
<1> HIDE DEF p, c
<1>3. Cardinality((c + 1) .. p) = IF c + 1 > p THEN 0 ELSE p - (c + 1) + 1
  <2>1. c + 1 \in Int /\ p \in Int
    BY <1>4
  <2> QED BY <2>1, FS_Interval
<1>5. Saving(item) \in Nat /\ Saving(item) <= p /\ p <= Saving(item) + c
  BY <1>1, <1>4
<1>6. Cardinality((c + 1) .. p) = Saving(item)
  BY <1>1, <1>3, <1>4
<1> QED BY <1>2, <1>5, <1>6 DEF p, c

LEMMA SumsAreReal ==
    ASSUME VerdictsInv, ReportInv
    PROVE  /\ OverspendRub <= PaidRub
           /\ OverspendRub >= PaidRub - OptimalRub
           /\ OverspendRub = SumFunction(
                [i \in DOMAIN items |->
                   Cardinality({rub \in 1 .. items[i].paid :
                     ~ items[i].skipped /\ rub > items[i].cheapest})])
<1> DEFINE paid     == [i \in Counted |-> items[i].paid]
           cheapest == [i \in Counted |-> items[i].cheapest]
           saved    == [i \in Counted |-> Saving(items[i])]
           both     == [i \in Counted |-> Saving(items[i]) + items[i].cheapest]
           rubs     == [i \in DOMAIN items |->
                          Cardinality({rub \in 1 .. items[i].paid :
                            ~ items[i].skipped /\ rub > items[i].cheapest})]
           Sum(f)   == SumFunctionOnSet(f, Counted)
<1>1. /\ IsFiniteSet(DOMAIN items) /\ Counted \in SUBSET DOMAIN items
      /\ IsFiniteSet(Counted)
  <2>1. Len(items) \in Nat /\ DOMAIN items = 1 .. Len(items)
    BY Appended DEF ReportInv
  <2>2. 1 \in Int /\ Len(items) \in Int
    BY <2>1
  <2>3. IsFiniteSet(1 .. Len(items))
    BY <2>2, FS_Interval
  <2>4. Counted \in SUBSET DOMAIN items
    BY DEF Counted
  <2> QED BY <2>1, <2>3, <2>4, FS_Subset
<1>2. ASSUME NEW i \in Counted
      PROVE  /\ paid[i] \in Nat /\ cheapest[i] \in Nat /\ saved[i] \in Nat
             /\ both[i] = saved[i] + cheapest[i]
             /\ saved[i] <= paid[i] /\ paid[i] <= both[i]
             /\ rubs[i] = saved[i]
  <2> DEFINE item == items[i]
  <2>1. i \in DOMAIN items /\ ~ item.skipped
    BY DEF Counted
  <2>2. item.paid \in Nat /\ item.cheapest \in Nat
    BY <2>1 DEF VerdictsInv, Fair
  <2>3. /\ paid[i] = item.paid /\ cheapest[i] = item.cheapest
        /\ saved[i] = Saving(item) /\ both[i] = Saving(item) + item.cheapest
        /\ rubs[i] = Cardinality({rub \in 1 .. item.paid :
                                   ~ item.skipped /\ rub > item.cheapest})
    BY <2>1
  <2>4. {rub \in 1 .. item.paid : ~ item.skipped /\ rub > item.cheapest} =
          {rub \in 1 .. item.paid : rub > item.cheapest}
    BY <2>1
  <2> HIDE DEF item, paid, cheapest, saved, both, rubs
  <2>5. /\ Saving(item) \in Nat
        /\ Saving(item) <= item.paid
        /\ item.paid <= Saving(item) + item.cheapest
        /\ Cardinality({rub \in 1 .. item.paid : rub > item.cheapest}) =
             Saving(item)
    BY <2>2, SavingIsPart
  <2> QED BY <2>2, <2>3, <2>4, <2>5
<1>3. ASSUME NEW i \in DOMAIN items, i \notin Counted PROVE rubs[i] = 0
  <2>1. items[i].skipped
    BY <1>3 DEF Counted
  <2>2. {rub \in 1 .. items[i].paid :
           ~ items[i].skipped /\ rub > items[i].cheapest} = {}
    BY <2>1
  <2> QED BY <2>2, FS_EmptySet
<1>4. /\ PaidRub = Sum(paid) /\ OptimalRub = Sum(cheapest)
      /\ OverspendRub = Sum(saved)
      /\ SumFunction(rubs) = SumFunctionOnSet(rubs, DOMAIN items)
  BY DEF PaidRub, OptimalRub, OverspendRub, SumFunction
<1>5. \A i \in DOMAIN items : rubs[i] \in Int /\ (i \notin Counted => rubs[i] = 0)
  <2> HIDE DEF paid, cheapest, saved, both, rubs
  <2> QED BY <1>2, <1>3
<1> HIDE DEF paid, cheapest, saved, both, rubs
<1>6. Sum(saved) <= Sum(paid)
  <2>1. \A i \in Counted : saved[i] \in Int /\ paid[i] \in Int /\ saved[i] <= paid[i]
    BY <1>2
  <2> QED BY <1>1, <2>1, SumMonotone
<1>7. Sum(paid) <= Sum(both) /\ Sum(both) = Sum(saved) + Sum(cheapest)
  <2>1. \A i \in Counted : paid[i] \in Int /\ both[i] \in Int /\ paid[i] <= both[i]
    BY <1>2
  <2>2. \A i \in Counted : /\ saved[i] \in Int /\ cheapest[i] \in Int
                            /\ both[i] = saved[i] + cheapest[i]
    BY <1>2
  <2>3. Sum(paid) <= Sum(both)
    BY <1>1, <2>1, SumMonotone
  <2> QED BY <1>1, <2>2, <2>3, SumPlus
<1>8. Sum(paid) \in Int /\ Sum(saved) \in Int /\ Sum(cheapest) \in Int
  <2>1. \A i \in Counted : paid[i] \in Int /\ saved[i] \in Int /\ cheapest[i] \in Int
    BY <1>2
  <2> QED BY <1>1, <2>1, SumIsInt
<1>9. SumFunctionOnSet(rubs, DOMAIN items) = Sum(saved)
  <2>1. SumFunctionOnSet(rubs, DOMAIN items) = Sum(rubs)
    BY <1>1, <1>5, SumWhere
  <2>2. \A i \in Counted : saved[i] \in Int /\ rubs[i] = saved[i]
    BY <1>2
  <2> QED BY <1>1, <2>1, <2>2, SumSame
<1> HIDE DEF Sum
<1>10. Sum(saved) >= Sum(paid) - Sum(cheapest)
  BY <1>7, <1>8
<1> QED BY <1>4, <1>6, <1>9, <1>10 DEF rubs

(* For any history: each verdict is on what was paid and on the lowest     *)
(* usable answer to honest requests for the intent put together from the   *)
(* generation, and the sums are those of the verdicts and say no more than *)
(* the differences do (SavingsAddUp, overspend.py).                        *)
THEOREM ReportAddsUp == FreeSpec => []SavingsAddUp
<1>1. FreeInv /\ VerdictsInv => SavingsAddUp
  <2> SUFFICES ASSUME FreeInv, VerdictsInv PROVE SavingsAddUp
    OBVIOUS
  <2>1. \A i \in DOMAIN items : Fair(history[i], items[i], compared[i].answers)
    BY DEF VerdictsInv
  <2>2. \A i : LowestAnswer(i) = CheapestOf(compared[i].answers)
    BY DEF LowestAnswer, CheapestOf
  <2>3. \A i \in DOMAIN items :
         /\ items[i].paid = history[i].cost
         /\ items[i].skipped <=> history[i].refunded \/ LowestAnswer(i) = {}
         /\ ~ items[i].skipped => LowestAnswer(i) = {items[i].cheapest}
    BY <2>1, <2>2 DEF Fair
  <2>4. ASSUME NEW i \in DOMAIN items, ~ items[i].skipped
        PROVE  /\ ~ Unanalysable(history[i])
               /\ Honest(compared[i].bodies, ReconstructIntent(history[i]))
               /\ DOMAIN compared[i].answers = DOMAIN compared[i].bodies
    <3>1. i \in DOMAIN compared
      BY Appended DEF FreeInv, ReportInv
    <3>2. Alike(history[i], compared[i])
      BY <3>1 DEF FreeInv, ReportInv, AllAlike
    <3>3. compared[i].bodies # <<>>
      <4>1. CheapestOf(compared[i].answers) # {}
        BY <2>2, <2>3, <2>4
      <4> QED BY <3>2, <4>1, NothingIsCheapest DEF Alike
    <3> QED BY <3>2, <3>3, RequestsAreHonest DEF Alike
  <2> QED BY <2>3, <2>4, SumsAreReal DEF FreeInv, SavingsAddUp
<1>2. FreeInit => VerdictsInv
  <2> SUFFICES ASSUME FreeInit PROVE VerdictsInv
    OBVIOUS
  <2>1. history = None /\ items = <<>> /\ bodies = <<>> /\ DOMAIN items = {}
    BY DEF FreeInit, Init, RouterInit, ReportInit
  <2> QED BY <2>1 DEF VerdictsInv
<1>3. FreeInv /\ VerdictsInv /\ [FreeNext]_allVars => VerdictsInv'
  BY VerdictsStep
<1> QED BY <1>1, <1>2, <1>3, FreeInvariant, PTL DEF FreeSpec

-----------------------------------------------------------------------------
(* The verification of the claims *)

(* Places in an increasing order. *)
Increasing(s) == \A i, j \in DOMAIN s : i < j => s[i] < s[j]

LEMMA ResolvedInOrder ==
    ASSUME NEW selectors, ToSet(selectors) \subseteq Checks
    PROVE  /\ Resolved(selectors) \in Seq(Checks)
           /\ Increasing(Resolved(selectors))
           /\ ToSet(Resolved(selectors)) = ToSet(selectors)
<1>1. PICK g : /\ g[0] = <<>>
               /\ \A i \in Checks :
                    g[i] = IF i \in ToSet(selectors) THEN Append(g[i - 1], i)
                           ELSE g[i - 1]
               /\ Resolved(selectors) = g[10]
  <2> DEFINE all == [n \in Checks |-> n]
  <2>1. /\ all \in Seq(Checks) /\ Len(all) = 10
        /\ \A n \in 1 .. 10 : n \in Checks /\ all[n] = n
    BY DEF Checks
  <2>2. Resolved(selectors) = Among(all, ToSet(selectors))
    BY DEF Resolved
  <2> HIDE DEF all
  <2>3. PICK g : /\ g[0] = <<>>
                 /\ \A i \in 1 .. Len(all) :
                      g[i] = IF all[i] \in ToSet(selectors)
                             THEN Append(g[i - 1], all[i]) ELSE g[i - 1]
                 /\ Among(all, ToSet(selectors)) = g[Len(all)]
    BY <2>1, AmongByPlace
  <2> QED BY <2>1, <2>2, <2>3 DEF Checks
<1> DEFINE W == ToSet(selectors)
           P(i) == /\ g[i] \in Seq(1 .. i)
                   /\ Increasing(g[i])
                   /\ ToSet(g[i]) = W \cap (1 .. i)
           Good == {i \in Nat : i <= 10 => P(i)}
<1> HIDE DEF W
<1>2. 0 \in Good
  <2>1. 1 .. 0 = {} /\ DOMAIN <<>> = {} /\ <<>> \in Seq({})
    OBVIOUS
  <2>2. P(0)
    BY <1>1, <2>1 DEF Increasing, ToSet
  <2> QED BY <2>2
<1>3. ASSUME NEW i \in Nat, i \in Good PROVE i + 1 \in Good
  <2> SUFFICES ASSUME i + 1 <= 10 PROVE P(i + 1)
    OBVIOUS
  <2>1. /\ g[i] \in Seq(1 .. i) /\ Increasing(g[i]) /\ ToSet(g[i]) = W \cap (1 .. i)
        /\ g[i + 1] = IF i + 1 \in W THEN Append(g[i], i + 1) ELSE g[i]
    <3>1. i <= 10 /\ i + 1 \in Checks /\ (i + 1) - 1 = i
      BY DEF Checks
    <3>2. P(i)
      BY <1>3, <3>1
    <3> QED BY <1>1, <3>1, <3>2 DEF W
  <2>2. CASE i + 1 \in W
    <3> DEFINE s == g[i]
               t == Append(s, i + 1)
    <3>1. t \in Seq(1 .. i + 1) /\ DOMAIN t = DOMAIN s \cup {Len(s) + 1}
      BY <2>1
    <3>2. /\ \A k \in DOMAIN s : t[k] = s[k] /\ s[k] \in 1 .. i
          /\ t[Len(s) + 1] = i + 1 /\ DOMAIN s = 1 .. Len(s)
          /\ Len(s) \in Nat
      BY <2>1
    <3>3. Increasing(t)
      BY <2>1, <3>1, <3>2 DEF Increasing
    <3>4. ToSet(t) = ToSet(s) \cup {i + 1}
      BY <3>1, <3>2 DEF ToSet
    <3>5. ToSet(t) = W \cap (1 .. i + 1)
      BY <2>1, <2>2, <3>4
    <3>6. g[i + 1] = t
      BY <2>1, <2>2
    <3> HIDE DEF t
    <3> QED BY <3>1, <3>3, <3>5, <3>6
  <2>3. CASE i + 1 \notin W
    BY <2>1, <2>3
  <2> QED BY <2>2, <2>3
<1> HIDE DEF Good
<1>4. Good = Nat
  <2>1. Good \in SUBSET Nat
    BY DEF Good
  <2> QED BY <1>2, <1>3, <2>1, NatSteps
<1>5. P(10)
  <2>1. 10 \in Good
    BY <1>4
  <2> QED BY <2>1 DEF Good
<1> QED BY <1>1, <1>5 DEF W, Checks

LEMMA PlaceInOrder ==
    ASSUME NEW S \in SUBSET Nat, NEW s \in Seq(S), Increasing(s), ToSet(s) = S
    PROVE  /\ Len(s) = Cardinality(S)
           /\ \A i \in DOMAIN s :
                (CHOOSE c \in S : Cardinality({d \in S : d < c}) = i - 1) = s[i]
<1> DEFINE First(k) == {s[j] : j \in 1 .. k}
           P(k) == IsFiniteSet(First(k)) /\ Cardinality(First(k)) = k
           Good == {k \in Nat : k <= Len(s) => P(k)}
<1>0. /\ DOMAIN s = 1 .. Len(s) /\ Len(s) \in Nat
      /\ \A i \in 1 .. Len(s) : s[i] \in S /\ s[i] \in Nat
      /\ \A i, j \in 1 .. Len(s) : i < j => s[i] < s[j]
  <2> HIDE DEF First, P, Good
  <2>1. DOMAIN s = 1 .. Len(s) /\ Len(s) \in Nat
    OBVIOUS
  <2>2. \A i \in 1 .. Len(s) : s[i] \in S
    OBVIOUS
  <2> QED BY <2>1, <2>2 DEF Increasing
<1>1. 0 \in Good
  <2>1. First(0) = {}
    OBVIOUS
  <2> QED BY <2>1, FS_EmptySet
<1>2. ASSUME NEW k \in Nat, k \in Good PROVE k + 1 \in Good
  <2> SUFFICES ASSUME k + 1 <= Len(s) PROVE P(k + 1)
    OBVIOUS
  <2>1. P(k)
    BY <1>2
  <2>2. First(k + 1) = First(k) \cup {s[k + 1]}
    <3>1. 1 .. k + 1 = (1 .. k) \cup {k + 1}
      OBVIOUS
    <3> QED BY <3>1
  <2>3. s[k + 1] \notin First(k)
    <3> HIDE DEF Good, First
    <3>1. ASSUME NEW j \in 1 .. k PROVE s[j] < s[k + 1] /\ s[j] \in Nat
      BY <1>0
    <3>2. s[k + 1] \in Nat
      BY <1>0
    <3> QED BY <3>1, <3>2 DEF First
  <2> HIDE DEF First, Good
  <2>4. IsFiniteSet(First(k)) /\ Cardinality(First(k)) = k
    BY <2>1
  <2>5. LET next == First(k) \cup {s[k + 1]}
        IN  IsFiniteSet(next) /\ Cardinality(next) = Cardinality(First(k)) + 1
    BY <2>3, <2>4, FS_AddElement
  <2> QED BY <2>2, <2>4, <2>5
<1>3. ASSUME NEW k \in 0 .. Len(s) PROVE P(k)
  <2> HIDE DEF Good, P
  <2>1. Good \in SUBSET Nat
    BY DEF Good
  <2>2. Good = Nat
    BY <1>1, <1>2, <2>1, NatSteps
  <2> QED BY <2>2 DEF Good
<1>4. S = First(Len(s))
  BY DEF ToSet
<1>5. ASSUME NEW i \in DOMAIN s
      PROVE  {d \in S : d < s[i]} = First(i - 1)
  <2>1. \A j \in DOMAIN s : s[j] < s[i] <=> j < i
    <3> HIDE DEF Good, First
    <3> QED BY <1>0
  <2>2. {d \in S : d < s[i]} = {s[j] : j \in {k \in DOMAIN s : k < i}}
    BY <2>1 DEF ToSet
  <2>3. {k \in DOMAIN s : k < i} = 1 .. i - 1
    OBVIOUS
  <2> QED BY <2>2, <2>3
<1> HIDE DEF First
<1>6. ASSUME NEW i \in DOMAIN s
      PROVE  Cardinality({d \in S : d < s[i]}) = i - 1
  <2>1. i - 1 \in 0 .. Len(s)
    OBVIOUS
  <2> QED BY <1>3, <1>5, <2>1
<1>7. ASSUME NEW i \in DOMAIN s
      PROVE  (CHOOSE c \in S : Cardinality({d \in S : d < c}) = i - 1) = s[i]
  <2> DEFINE n == CHOOSE c \in S : Cardinality({d \in S : d < c}) = i - 1
  <2>1. s[i] \in S /\ Cardinality({d \in S : d < s[i]}) = i - 1
    BY <1>6
  <2>2. n \in S /\ Cardinality({d \in S : d < n}) = i - 1
    BY <2>1
  <2> HIDE DEF n, Good
  <2>3. PICK j \in DOMAIN s : n = s[j]
    BY <2>2 DEF ToSet
  <2>4. Cardinality({d \in S : d < s[j]}) = j - 1
    BY <1>6
  <2>5. j - 1 = i - 1
    BY <2>2, <2>3, <2>4
  <2>6. j = i
    BY <2>5
  <2> QED BY <2>3, <2>6 DEF n
<1>8. Len(s) \in 0 .. Len(s)
  OBVIOUS
<1> QED BY <1>3, <1>4, <1>7, <1>8

Outcomes == {"match", "differs", "error"}

LEMMA HeldIs ==
    ASSUME NEW claim
    PROVE  /\ Held(claim) \in Outcomes
           /\ ~ claim => Held(claim) # "match"
BY DEF Held, Outcomes

LEMMA MeasuredAs ==
    ASSUME NEW n \in Checks, NEW heard \in Answerable(n)
    PROVE  /\ Measure(n, heard) \in Outcomes \cup {"raised"}
           /\ Unanswered \in ToSet(heard) => Measure(n, heard) # "match"
<1> DEFINE specs  == SpecsOf(offer.catalog)
           prices == FlattenPrices(offer.prices)
           m      == Measure(n, heard)
           Goal   == /\ m \in Outcomes \cup {"raised"}
                     /\ Unanswered \in ToSet(heard) => m # "match"
<1>1. CASE n \in {1, 2, 3, 8, 10}
  <2>1. PICK a : heard = <<a>>
    BY <1>1 DEF Answerable
  <2>2. ToSet(heard) = {a} /\ heard[1] = a
    BY <2>1 DEF ToSet
  <2>3. m \in Outcomes \cup {"raised"} /\ (a = Unanswered => m # "match")
    <3>1. CASE n = 1
      <4>1. m = CheckMcpStrict(a)
        BY <2>2, <3>1 DEF Measure
      <4> QED BY <4>1, HeldIs DEF CheckMcpStrict, Outcomes
    <3>2. CASE n = 2
      <4>1. m = CheckValidTrueWithRejected(a)
        BY <2>2, <3>2 DEF Measure
      <4> QED BY <4>1, HeldIs DEF CheckValidTrueWithRejected, Outcomes
    <3>3. CASE n = 3
      <4>1. m = CheckPriceFieldUnderstates(specs, a)
        BY <2>2, <3>3 DEF Measure
      <4> HIDE DEF specs, m
      <4> QED BY <4>1, HeldIs DEF CheckPriceFieldUnderstates, Outcomes
    <3>4. CASE n = 8
      <4>1. m = CheckInboxEconomics(a)
        BY <2>2, <3>4 DEF Measure
      <4> QED BY <4>1, HeldIs DEF CheckInboxEconomics, Outcomes
    <3>5. CASE n = 10
      <4>1. m = CheckMcpParamCoverage(offer.params, a)
        BY <2>2, <3>5 DEF Measure
      <4> QED BY <4>1, HeldIs DEF CheckMcpParamCoverage, Outcomes
    <3> QED BY <1>1, <3>1, <3>2, <3>3, <3>4, <3>5
  <2> QED BY <2>2, <2>3
<1>2. CASE n \in {4, 5}
  <2>1. heard = <<>> /\ ToSet(heard) = {}
    BY <1>2 DEF Answerable, ToSet
  <2>2. m \in {CheckCatalogPriceDrift(specs, prices),
             CheckCatalogSelfContradiction(specs, offer.prose)}
    BY <1>2 DEF Measure
  <2> HIDE DEF specs, prices, m
  <2> QED BY <2>1, <2>2, HeldIs DEF CheckCatalogPriceDrift,
          CheckCatalogSelfContradiction, Outcomes, m
<1>3. CASE n \in {6, 9}
  <2>1. PICK a, b : heard = <<a, b>>
    BY <1>3 DEF Answerable
  <2>2. ToSet(heard) = {a, b} /\ heard[1] = a /\ heard[2] = b
    BY <2>1 DEF ToSet
  <2>3. m \in {CheckDurationMultiplier(a, b), CheckEditPricing(specs, a, b)}
    BY <1>3, <2>2 DEF Measure
  <2> HIDE DEF specs, m
  <2> QED BY <2>2, <2>3, HeldIs DEF CheckDurationMultiplier, CheckEditPricing,
          Outcomes, m
<1>4. CASE n = 7
  <2>1. heard \in [DOMAIN Targets -> BOOLEAN \cup {Unanswered}]
    BY <1>4 DEF Answerable
  <2>2. m = CheckUndocumentedEndpoints(offer.documented, heard)
    BY <1>4 DEF Measure
  <2>3. ASSUME Unanswered \in ToSet(heard)
        PROVE  \E i \in DOMAIN Targets : heard[i] # TRUE
    BY <2>1, <2>3, UnansweredAssumption DEF ToSet
  <2> HIDE DEF m
  <2> QED BY <2>2, <2>3, HeldIs DEF CheckUndocumentedEndpoints, m
<1> QED BY <1>1, <1>2, <1>3, <1>4 DEF Checks

Selected(selectors) ==
    IF selectors = <<>> THEN [n \in Checks |-> n] ELSE Resolved(selectors)

Asked(selectors) == IF selectors = <<>> THEN Checks ELSE ToSet(selectors)

LEMMA SelectedInOrder ==
    ASSUME NEW selectors, ToSet(selectors) \subseteq Checks
    PROVE  /\ Selected(selectors) \in Seq(Checks)
           /\ Increasing(Selected(selectors))
           /\ ToSet(Selected(selectors)) = Asked(selectors)
<1>1. CASE selectors = <<>>
  <2> DEFINE all == [n \in Checks |-> n]
  <2>1. all \in Seq(Checks) /\ DOMAIN all = Checks /\ \A n \in Checks : all[n] = n
    BY DEF Checks
  <2>2. Increasing(all)
    BY <2>1 DEF Increasing
  <2>3. ToSet(all) = Checks
    BY <2>1 DEF ToSet
  <2> HIDE DEF all
  <2>4. Selected(selectors) = all /\ Asked(selectors) = Checks
    BY <1>1 DEF Selected, Asked, all
  <2> QED BY <2>1, <2>2, <2>3, <2>4
<1>2. CASE selectors # <<>>
  BY <1>2, ResolvedInOrder DEF Selected, Asked
<1> QED BY <1>1, <1>2

(* Nothing has been asked for, or something that does not exist, or the    *)
(* checks are the selected ones.                                           *)
SelectionInv ==
    \/ only = None /\ exit = None /\ offer = None
    \/ only # None /\ exit \in {1, 2} /\ offer = None
    \/ /\ only # None
       /\ ToSet(only) \subseteq Checks
       /\ checks = Selected(only)

(* A row is of the check in its place, unless that one raised.             *)
RowsInv ==
    /\ results \in Seq([n : Nat, outcome : Outcomes])
    /\ Len(results) <= Len(checks)
    /\ \A i \in DOMAIN results :
         IF checks[i] \in raised THEN results[i] = [n |-> i, outcome |-> "error"]
         ELSE results[i].n = checks[i]
    /\ raised \subseteq lost
    /\ \A n \in lost :
         \E i \in DOMAIN results : checks[i] = n /\ results[i].outcome # "match"

(* The exit code is that of a run with all its rows.                       *)
ExitInv ==
    /\ offer = None => results = <<>> /\ lost = {}
    /\ exit \in {None, 0, 1, 2}
    /\ exit # None /\ offer # None => Len(results) = Len(checks)
    /\ exit = 0 => offer # None /\ Odd = {}

VerifyInv == SelectionInv /\ RowsInv /\ ExitInv

LEMMA VerifyInitial == VerifyInit => VerifyInv
<1> SUFFICES ASSUME VerifyInit PROVE VerifyInv
  OBVIOUS
<1>1. /\ only = None /\ checks = <<>> /\ offer = None
      /\ results = <<>> /\ lost = {} /\ raised = {} /\ exit = None
  BY DEF VerifyInit
<1>2. SelectionInv
  BY <1>1 DEF SelectionInv
<1>3. RowsInv
  BY <1>1 DEF RowsInv
<1>4. ExitInv
  BY <1>1, NoneAssumption DEF ExitInv
<1> QED BY <1>2, <1>3, <1>4 DEF VerifyInv

LEMMA SelectionStep ==
    ASSUME VerifyInv, NEW selectors \in Selections, Verify(selectors)
    PROVE  VerifyInv'
<1>1. /\ only = None /\ only' = selectors /\ only' # None
      /\ UNCHANGED <<offer, results, lost, raised>>
  BY SelectionsAssumption DEF Verify
<1>2. exit = None /\ offer = None
  BY <1>1 DEF VerifyInv, SelectionInv
<1>3. results = <<>> /\ lost = {} /\ raised = {}
  BY <1>2 DEF VerifyInv, ExitInv, RowsInv
<1>4. \/ /\ ToSet(selectors) \subseteq Checks
         /\ checks' = Selected(selectors)
         /\ exit' = exit
      \/ exit' \in {1, 2} /\ checks' = checks
  BY DEF Verify, Selected
<1>5. SelectionInv'
  BY <1>1, <1>2, <1>4 DEF SelectionInv
<1>6. RowsInv'
  <2>1. 0 <= Len(checks')
    <3>1. CASE checks' = checks
      BY <1>3, <3>1 DEF VerifyInv, RowsInv
    <3>2. CASE ToSet(selectors) \subseteq Checks /\ checks' = Selected(selectors)
      <4>1. Selected(selectors) \in Seq(Checks)
        BY <3>2, SelectedInOrder
      <4> QED BY <3>2, <4>1
    <3> QED BY <1>4, <3>1, <3>2
  <2> QED BY <1>1, <1>3, <2>1 DEF RowsInv
<1>7. ExitInv'
  BY <1>1, <1>2, <1>3, <1>4, NoneAssumption DEF ExitInv
<1> QED BY <1>5, <1>6, <1>7 DEF VerifyInv

LEMMA FetchStep ==
    ASSUME VerifyInv, NEW o \in Offers, FetchOffer(o)
    PROVE  VerifyInv'
<1>1. /\ only # None /\ exit = None /\ offer = None
      /\ UNCHANGED <<only, checks, results, lost, raised, exit>>
  BY DEF FetchOffer, Verifying
<1>2. SelectionInv'
  BY <1>1, NoneAssumption DEF VerifyInv, SelectionInv
<1>3. RowsInv'
  BY <1>1 DEF VerifyInv, RowsInv
<1>4. ExitInv'
  BY <1>1, NoneAssumption DEF VerifyInv, ExitInv
<1> QED BY <1>2, <1>3, <1>4 DEF VerifyInv

(* While checks are run they are the selected ones.                        *)
LEMMA Underway ==
    ASSUME VerifyInv, Verifying
    PROVE  /\ ToSet(only) \subseteq Checks
           /\ checks = Selected(only)
           /\ checks \in Seq(Checks)
           /\ Increasing(checks)
BY SelectedInOrder, NoneAssumption DEF VerifyInv, SelectionInv, Verifying

LEMMA CheckStep ==
    ASSUME VerifyInv, RunCheck
    PROVE  VerifyInv'
<1> DEFINE k == Len(results) + 1
           n == checks[k]
<1>1. PICK heard \in Answerable(n) :
        /\ results' = Append(results, Row(n, Measure(n, heard)))
        /\ lost' = IF Unanswered \in ToSet(heard) \/ Measure(n, heard) = "raised"
                   THEN lost \cup {n} ELSE lost
        /\ raised' = IF Measure(n, heard) = "raised" THEN raised \cup {n} ELSE raised
  BY DEF RunCheck
<1>2. /\ Verifying /\ offer # None /\ Len(results) < Len(checks)
      /\ UNCHANGED <<only, checks, offer, exit>>
  BY DEF RunCheck, Checking
<1>3. checks \in Seq(Checks) /\ Increasing(checks)
  BY <1>2, Underway
<1>4. /\ results \in Seq([n : Nat, outcome : Outcomes])
      /\ Len(results) \in Nat /\ k \in 1 .. Len(checks) /\ n \in Checks
  BY <1>2, <1>3 DEF VerifyInv, RowsInv
<1> DEFINE m == Measure(n, heard)
           row == Row(n, m)
<1>5. /\ m \in Outcomes \cup {"raised"}
      /\ Unanswered \in ToSet(heard) => m # "match"
  BY <1>4, MeasuredAs
<1>6. /\ row \in [n : Nat, outcome : Outcomes]
      /\ m = "raised" => row = [n |-> k, outcome |-> "error"]
      /\ m # "raised" => row.outcome = m /\ row.n = n
  <2> HIDE DEF m
  <2>1. n \in Nat /\ k \in Nat
    BY <1>4 DEF Checks
  <2> HIDE DEF n, k
  <2> QED BY <1>5, <2>1 DEF Row, Outcomes, k
<1>7. SelectionInv'
  BY <1>2 DEF VerifyInv, SelectionInv
<1>8. RowsInv'
  <2> HIDE DEF m, row
  <2>1. /\ results' \in Seq([n : Nat, outcome : Outcomes])
        /\ Len(results') = k /\ DOMAIN results' = 1 .. k
        /\ DOMAIN results = 1 .. k - 1
        /\ \A i \in 1 .. k - 1 : results'[i] = results[i]
        /\ results'[k] = row
    BY <1>1, <1>4, <1>6 DEF m, row
  <2>2. /\ lost' = IF Unanswered \in ToSet(heard) \/ m = "raised"
                   THEN lost \cup {n} ELSE lost
        /\ raised' = IF m = "raised" THEN raised \cup {n} ELSE raised
    BY <1>1 DEF m
  <2>3. \A i \in 1 .. k - 1 : checks[i] # n
    <3> HIDE DEF k
    <3>1. \A i \in 1 .. k - 1 : i \in DOMAIN checks /\ k \in DOMAIN checks /\ i < k
      BY <1>3, <1>4
    <3>2. \A i \in 1 .. k - 1 : checks[i] < checks[k] /\ checks[i] \in Nat
      BY <1>3, <3>1 DEF Increasing, Checks
    <3> QED BY <3>2
  <2>6. n \notin raised
    BY <2>1, <2>3 DEF VerifyInv, RowsInv
  <2>7. ASSUME NEW i \in 1 .. k
        PROVE  IF checks[i] \in raised'
               THEN results'[i] = [n |-> i, outcome |-> "error"]
               ELSE results'[i].n = checks[i]
    <3>1. CASE i < k
      <4>1. i \in DOMAIN results /\ i \in 1 .. k - 1 /\ results'[i] = results[i]
        BY <1>4, <2>1, <3>1
      <4>2. checks[i] \in raised' <=> checks[i] \in raised
        BY <2>2, <2>3, <4>1
      <4> QED BY <4>1, <4>2 DEF VerifyInv, RowsInv
    <3>2. CASE i = k
      BY <1>5, <1>6, <2>1, <2>2, <2>6, <3>2
    <3> QED BY <1>4, <3>1, <3>2
  <2>8. raised' \subseteq lost'
    BY <2>2 DEF VerifyInv, RowsInv
  <2>4. ASSUME NEW c \in lost'
        PROVE  \E i \in 1 .. k : checks[i] = c /\ results'[i].outcome # "match"
    <3>1. CASE c \in lost
      <4>1. PICK i \in DOMAIN results :
              checks[i] = c /\ results[i].outcome # "match"
        BY <3>1 DEF VerifyInv, RowsInv
      <4>2. i \in 1 .. k /\ results'[i] = results[i]
        BY <1>4, <2>1
      <4> QED BY <4>1, <4>2
    <3>2. CASE c \notin lost
      <4>1. c = n /\ (Unanswered \in ToSet(heard) \/ m = "raised")
        BY <2>2, <2>4, <3>2
      <4>2. row.outcome # "match"
        BY <1>5, <1>6, <4>1
      <4> WITNESS k \in 1 .. k
      <4> QED BY <2>1, <4>1, <4>2
    <3> QED BY <3>1, <3>2
  <2>5. k <= Len(checks') /\ checks' = checks /\ only' = only
    BY <1>2, <1>4
  <2> HIDE DEF n, k
  <2> QED BY <2>1, <2>4, <2>5, <2>7, <2>8 DEF RowsInv
<1>9. ExitInv'
  BY <1>2, NoneAssumption DEF VerifyInv, ExitInv, Verifying
<1> QED BY <1>7, <1>8, <1>9 DEF VerifyInv

LEMMA EndStep ==
    ASSUME VerifyInv, VerifyAborts \/ VerifyEnds
    PROVE  VerifyInv'
<1>1. /\ Verifying
      /\ UNCHANGED <<only, checks, offer, results, lost, raised>>
      /\ exit' \in {0, 1, 2}
      /\ offer # None => Len(results) = Len(checks)
      /\ exit' = 0 => offer # None /\ Odd = {}
  BY DEF VerifyAborts, VerifyEnds, ExitCode
<1>2. Odd' = Odd
  BY <1>1 DEF Odd
<1>3. SelectionInv'
  BY <1>1, Underway DEF VerifyInv, SelectionInv, Verifying
<1>4. RowsInv'
  BY <1>1 DEF VerifyInv, RowsInv
<1>5. ExitInv'
  BY <1>1, <1>2 DEF VerifyInv, ExitInv
<1> QED BY <1>3, <1>4, <1>5 DEF VerifyInv

LEMMA VerifyInductive == VerifyInv /\ [VerifyNext]_verifyVars => VerifyInv'
<1> SUFFICES ASSUME VerifyInv, [VerifyNext]_verifyVars PROVE VerifyInv'
  OBVIOUS
<1>1. CASE UNCHANGED verifyVars
  BY <1>1 DEF verifyVars, VerifyInv, SelectionInv, RowsInv, ExitInv, Odd
<1>2. CASE VerifyNext
  BY <1>2, SelectionStep, FetchStep, CheckStep, EndStep DEF VerifyNext
<1> QED BY <1>1, <1>2

(* For any provider and selection: the report has one row per claim that   *)
(* was asked for, each once and in order, under its number; the row of a   *)
(* check that raised has the number of its place and is an error           *)
(* (RowsAnswerSelection, verify.py).                                       *)
THEOREM RowsTellTheirCheck == FreeSpec => []RowsAnswerSelection
<1>1. VerifyInv => RowsAnswerSelection
  <2> SUFFICES ASSUME VerifyInv, exit # None, offer # None
               PROVE  LET asked == IF only = <<>> THEN Checks ELSE ToSet(only)
                      IN  /\ Len(results) = Cardinality(asked)
                          /\ \A i \in DOMAIN results :
                               LET n == CHOOSE c \in asked :
                                     Cardinality({d \in asked : d < c}) = i - 1
                               IN  IF n \in raised
                                   THEN results[i] = [n |-> i, outcome |-> "error"]
                                   ELSE results[i].n = n
    BY DEF RowsAnswerSelection
  <2>1. ToSet(only) \subseteq Checks /\ checks = Selected(only)
    BY DEF VerifyInv, SelectionInv
  <2>2. checks \in Seq(Checks) /\ Increasing(checks) /\ ToSet(checks) = Asked(only)
    BY <2>1, SelectedInOrder
  <2> DEFINE S == Asked(only)
  <2>3. S \in SUBSET Nat /\ checks \in Seq(S)
    <3>1. checks \in Seq(ToSet(checks))
      BY <2>2 DEF ToSet
    <3> QED BY <2>1, <2>2, <3>1 DEF Asked, Checks
  <2> HIDE DEF S
  <2>4. /\ Len(checks) = Cardinality(S)
        /\ \A i \in DOMAIN checks :
             (CHOOSE c \in S : Cardinality({d \in S : d < c}) = i - 1) = checks[i]
    BY <2>2, <2>3, PlaceInOrder DEF S
  <2>5. Len(results) = Len(checks) /\ DOMAIN results = DOMAIN checks
    BY <2>2 DEF VerifyInv, ExitInv, RowsInv
  <2>6. \A i \in DOMAIN results :
         IF checks[i] \in raised THEN results[i] = [n |-> i, outcome |-> "error"]
         ELSE results[i].n = checks[i]
    BY DEF VerifyInv, RowsInv
  <2>7. S = IF only = <<>> THEN Checks ELSE ToSet(only)
    BY DEF S, Asked
  <2> QED BY <2>4, <2>5, <2>6, <2>7
<1>2. FreeInit => VerifyInv
  BY VerifyInitial DEF FreeInit
<1>3. VerifyInv /\ [FreeNext]_allVars => VerifyInv'
  BY VerifyInductive DEF FreeNext, allVars, Planning, Reporting, Drifting,
     VerifyingClaims
<1> QED BY <1>1, <1>2, <1>3, PTL DEF FreeSpec

(* The command exits with 0 only if every claim that was asked for was     *)
(* measured and holds (ExitZeroMeansSound, verify.py and cli.py).          *)
THEOREM ZeroIsEarned == FreeSpec => []ExitZeroMeansSound
<1>1. VerifyInv => ExitZeroMeansSound
  <2> SUFFICES ASSUME VerifyInv, exit = 0 PROVE ExitZeroMeansSound
    BY DEF ExitZeroMeansSound
  <2>1. offer # None /\ exit # None /\ exit # 2 /\ Odd = {} /\ Len(results) = Len(checks)
    BY NoneAssumption DEF VerifyInv, ExitInv
  <2>2. ToSet(only) \subseteq Checks /\ checks = Selected(only)
    BY <2>1 DEF VerifyInv, SelectionInv
  <2>3. checks \in Seq(Checks) /\ ToSet(checks) = Asked(only)
    BY <2>2, SelectedInOrder
  <2>4. \A i \in DOMAIN results : results[i].outcome = "match"
    BY <2>1 DEF Odd
  <2>5. lost = {} /\ raised = {}
    BY <2>4 DEF VerifyInv, RowsInv
  <2>6. \A i \in DOMAIN results : results[i].n = checks[i]
    BY <2>5 DEF VerifyInv, RowsInv
  <2>7. DOMAIN results = DOMAIN checks
    BY <2>1, <2>3 DEF VerifyInv, RowsInv
  <2>8. {results[i].n : i \in DOMAIN results} = Asked(only)
    BY <2>3, <2>6, <2>7 DEF ToSet
  <2> QED BY <2>2, <2>4, <2>5, <2>8 DEF ExitZeroMeansSound, Asked
<1>2. FreeInit => VerifyInv
  BY VerifyInitial DEF FreeInit
<1>3. VerifyInv /\ [FreeNext]_allVars => VerifyInv'
  BY VerifyInductive DEF FreeNext, allVars, Planning, Reporting, Drifting,
     VerifyingClaims
<1> QED BY <1>1, <1>2, <1>3, PTL DEF FreeSpec

-----------------------------------------------------------------------------
(* The drift log is history, and its rows are readings *)

(* A reading of a catalog and a price list that were on offer in that      *)
(* order since the job began.                                              *)
IsReading(row) ==
    \E i, j \in since .. Len(markets) :
        i <= j /\ row = ReadingOf[markets[i].catalog][markets[j].sent]

Rows ==
    UNION {{ReadingOf[m.catalog][n.sent] : n \in Markets} : m \in Markets}

DriftTypes ==
    /\ markets \in Seq(Markets)
    /\ since \in 1 .. Len(markets)
    /\ remote \in Seq(Rows)
    /\ jobpc \in {"off", "catalog", "prices", "compare", "push"}

(* What the checkout holds at each step of the job.                        *)
CheckoutHolds ==
    /\ jobpc \in {"catalog", "prices"} => local = remote
    /\ jobpc = "prices" =>
         \E i \in since .. Len(markets) : seen = markets[i].catalog
    /\ jobpc \in {"compare", "push"} =>
         \E row \in Rows : IsReading(row) /\ local = Append(remote, row)
    /\ jobpc = "push" /\ remote # <<>> => Last(local) # Last(remote)

DriftInv == DriftTypes /\ CheckoutHolds

-----------------------------------------------------------------------------

LEMMA DriftInitial == DriftInit => DriftInv
<1> SUFFICES ASSUME DriftInit PROVE DriftInv
  OBVIOUS
<1>1. PICK m \in Markets : markets = <<m>>
  BY DEF DriftInit
<1>2. ASSUME NEW n \in Markets PROVE ReadingOf[n.catalog][n.sent] \in Rows
  BY DEF Rows
<1>3. remote \in Seq(Rows)
  <2>1. CASE remote = <<>>
    BY <2>1
  <2>2. CASE \E n \in Markets : remote = <<ReadingOf[n.catalog][n.sent]>>
    BY <1>2, <2>2
  <2> QED
    BY <2>1, <2>2 DEF DriftInit
<1> QED
  BY <1>1, <1>3 DEF DriftInit, DriftInv, DriftTypes, CheckoutHolds

(* A reading stays one while the provider moves on.                        *)
LEMMA ReadingLasts ==
    ASSUME DriftTypes, NEW m \in Markets,
           markets' = Append(markets, m), since' = since,
           NEW row, IsReading(row)
    PROVE  IsReading(row)'
<1>1. PICK i, j \in since .. Len(markets) :
         i <= j /\ row = ReadingOf[markets[i].catalog][markets[j].sent]
  BY DEF IsReading
<1>2. /\ i \in since' .. Len(markets') /\ j \in since' .. Len(markets')
      /\ markets'[i] = markets[i] /\ markets'[j] = markets[j]
  BY DEF DriftTypes
<1> DEFINE Of(a, b) == ReadingOf[a.catalog][b.sent]
<1>3. Of(markets'[i], markets'[j]) = Of(markets[i], markets[j])
  BY <1>2
<1> QED
  BY <1>1, <1>2, <1>3 DEF IsReading

(* Whatever the provider has on offer, in whatever order it was fetched,   *)
(* what the job appends to its checkout is a reading.                      *)
LEMMA ReadingTaken ==
    ASSUME DriftInv, TakeReading
    PROVE  DriftInv'
<1>1. PICK i \in since .. Len(markets) : seen = markets[i].catalog
  BY DEF TakeReading, DriftInv, CheckoutHolds
<1>2. /\ Len(markets) \in since .. Len(markets)
      /\ Live = markets[Len(markets)]
      /\ i <= Len(markets)
      /\ markets[i] \in Markets /\ Live \in Markets
  BY DEF DriftInv, DriftTypes, Live, Last
<1>3. ReadingOf[seen][Live.sent] \in Rows
  BY <1>1, <1>2 DEF Rows
<1>4. PICK row \in Rows : row = ReadingOf[seen][Live.sent]
  BY <1>3
<1>5. row = ReadingOf[markets[i].catalog][markets[Len(markets)].sent]
  BY <1>1, <1>2, <1>4
<1>6. IsReading(row)'
  BY <1>2, <1>5 DEF IsReading, TakeReading
<1>7. local' = Append(remote', row)
  BY <1>4 DEF TakeReading, DriftInv, CheckoutHolds
<1>8. DriftTypes'
  BY DEF TakeReading, DriftInv, DriftTypes
<1> QED
  BY <1>6, <1>7, <1>8 DEF TakeReading, DriftInv, CheckoutHolds

(* Every step of the job and of the provider keeps the invariant.          *)
LEMMA DriftInductive == DriftInv /\ [DriftNext]_driftVars => DriftInv'
<1> SUFFICES ASSUME DriftInv, [DriftNext]_driftVars PROVE DriftInv'
  OBVIOUS
<1> USE DEF DriftInv
<1>1. CASE StartJob
  BY <1>1 DEF StartJob, DriftTypes, CheckoutHolds
<1>2. CASE FetchCatalog
  <2>1. /\ Len(markets) \in since .. Len(markets)
        /\ seen' = markets[Len(markets)].catalog
    BY <1>2 DEF FetchCatalog, DriftTypes, Live, Last
  <2> QED
    BY <1>2, <2>1 DEF FetchCatalog, DriftTypes, CheckoutHolds
<1>3. CASE TakeReading
  BY <1>3, ReadingTaken
<1>4. CASE CompareRows
  <2>1. CASE Repeats
    BY <1>4, <2>1 DEF CompareRows, EndJob, DriftTypes, CheckoutHolds
  <2>2. CASE ~ Repeats
    <3>1. PICK row \in Rows : IsReading(row) /\ local = Append(remote, row)
      BY <1>4 DEF CompareRows, CheckoutHolds
    <3>2. ASSUME remote # <<>>
          PROVE  /\ Len(local) >= 2
                 /\ Last(remote) = local[Len(local) - 1]
      BY <3>1, <3>2 DEF DriftTypes, Last
    <3>3. remote # <<>> => Last(local) # Last(remote)
      BY <2>2, <3>2 DEF Repeats
    <3>4. IsReading(row)'
      BY <1>4, <2>2, <3>1 DEF IsReading, CompareRows
    <3>5. (remote # <<>> => Last(local) # Last(remote))'
      BY <1>4, <2>2, <3>3 DEF CompareRows
    <3>6. DriftTypes' /\ jobpc' = "push" /\ local' = Append(remote', row)
      BY <1>4, <2>2, <3>1 DEF CompareRows, DriftTypes
    <3> QED
      BY <3>4, <3>5, <3>6 DEF CheckoutHolds
  <2> QED
    BY <2>1, <2>2
<1>5. CASE Push
  <2>1. PICK row \in Rows : local = Append(remote, row)
    BY <1>5 DEF Push, CheckoutHolds
  <2>2. remote' \in Seq(Rows)
    BY <1>5, <2>1 DEF Push, DriftTypes
  <2> QED
    BY <1>5, <2>2 DEF Push, EndJob, DriftTypes, CheckoutHolds
<1>6. CASE JobFails
  BY <1>6 DEF JobFails, EndJob, DriftTypes, CheckoutHolds
<1>7. ASSUME NEW m \in Markets, ProviderMoves(m)
      PROVE  DriftInv'
  <2>1. /\ markets' = Append(markets, m)
        /\ UNCHANGED <<remote, local, jobpc, seen, since>>
    BY <1>7 DEF ProviderMoves
  <2>2. DriftTypes'
    BY <2>1 DEF DriftTypes
  <2>3. ASSUME NEW row \in Rows, IsReading(row) PROVE IsReading(row)'
    BY <2>1, <2>3, ReadingLasts
  <2>4. ASSUME NEW i \in since .. Len(markets)
        PROVE  i \in since' .. Len(markets') /\ markets'[i] = markets[i]
    BY <2>1 DEF DriftTypes
  <2>5. (jobpc = "prices" =>
           \E i \in since .. Len(markets) : seen = markets[i].catalog)'
    BY <2>1, <2>4 DEF CheckoutHolds
  <2>6. (jobpc \in {"compare", "push"} =>
           \E row \in Rows : IsReading(row) /\ local = Append(remote, row))'
    BY <2>1, <2>3 DEF CheckoutHolds
  <2>7. (jobpc = "push" /\ remote # <<>> => Last(local) # Last(remote))'
    BY <2>1 DEF CheckoutHolds
  <2> QED
    BY <2>1, <2>2, <2>5, <2>6, <2>7 DEF CheckoutHolds
<1>8. CASE UNCHANGED driftVars
  BY <1>8 DEF driftVars, DriftTypes, CheckoutHolds, IsReading
<1> QED
  BY <1>1, <1>2, <1>3, <1>4, <1>5, <1>6, <1>7, <1>8 DEF DriftNext

-----------------------------------------------------------------------------

(* The drift job of a process is a drift job.                              *)
LEMMA DriftSteps == [FreeNext]_allVars => [DriftNext]_driftVars
BY DEF FreeNext, Planning, Reporting, Drifting, VerifyingClaims, allVars

LEMMA DriftInvariant == FreeSpec => []DriftInv
<1>1. FreeInit => DriftInv
  BY DriftInitial DEF FreeInit
<1>2. DriftInv /\ [FreeNext]_allVars => DriftInv'
  BY DriftSteps, DriftInductive
<1> QED BY <1>1, <1>2, PTL DEF FreeSpec

(* Only the push changes the log, and what it adds is the row of its job.  *)
LEMMA PushAppends ==
    ASSUME DriftInv, Push
    PROVE  /\ Len(remote') = Len(remote) + 1
           /\ remote' = Append(remote, Last(remote'))
           /\ remote # <<>> => Last(remote') # Last(remote)
           /\ \E i, j \in since .. Len(markets) :
                i <= j /\ Last(remote') =
                             ReadingOf[markets[i].catalog][markets[j].sent]
<1>1. PICK row \in Rows : IsReading(row) /\ local = Append(remote, row)
  BY DEF Push, DriftInv, CheckoutHolds
<1>2. remote' = local
  BY DEF Push
<1>3. /\ Len(remote') = Len(remote) + 1
      /\ Last(remote') = row
      /\ remote' = Append(remote, Last(remote'))
  BY <1>1, <1>2 DEF DriftInv, DriftTypes, Last
<1>4. remote # <<>> => Last(remote') # Last(remote)
  BY <1>2 DEF Push, DriftInv, CheckoutHolds
<1> QED
  BY <1>1, <1>3, <1>4 DEF IsReading

(* The log is history, whatever the provider offers and however often the  *)
(* job fails: rows are added one at a time, none repeats the one before,   *)
(* and each is a reading of what was on offer while its job ran            *)
(* (drift.yml:43-83, cli.py:58-90).                                        *)
THEOREM LogIsHistory == FreeSpec => LogGrowsByChanges
<1>1. DriftInv /\ [DriftNext]_driftVars =>
        [/\ Len(remote') = Len(remote) + 1
         /\ remote' = Append(remote, Last(remote'))
         /\ remote # <<>> => Last(remote') # Last(remote)
         /\ \E i, j \in since .. Len(markets) :
              i <= j /\ Last(remote') =
                           ReadingOf[markets[i].catalog][markets[j].sent]
        ]_remote
  <2> SUFFICES ASSUME DriftInv, [DriftNext]_driftVars, remote' # remote
               PROVE  Push
    BY PushAppends
  <2> QED
    BY DEF DriftNext, StartJob, FetchCatalog, TakeReading, CompareRows,
           EndJob, JobFails, ProviderMoves, driftVars
<1>2. [FreeNext]_allVars => [DriftNext]_driftVars
  BY DriftSteps
<1> QED
  BY <1>1, <1>2, DriftInvariant, PTL DEF FreeSpec, LogGrowsByChanges

-----------------------------------------------------------------------------
(* The gap between the catalog and the price list *)

LEMMA HighestOf ==
    ASSUME NEW S, IsFiniteSet(S), S # {}, \A x \in S : x \in Int
    PROVE  Highest(S) \in S /\ \A x \in S : x <= Highest(S)
<1> DEFINE Tops(T) == {x \in T : \A y \in T : y <= x}
           Bad == {T \in SUBSET S : T # {} /\ Tops(T) = {}}
<1>1. Bad = {}
  <2> SUFFICES ASSUME Bad # {} PROVE FALSE
    OBVIOUS
  <2>1. PICK T \in Bad : \A x \in T : T \ {x} \notin Bad
    <3>1. Bad \in SUBSET (SUBSET S)
      OBVIOUS
    <3> HIDE DEF Bad
    <3> QED BY <3>1, SmallestOf
  <2>2. PICK x \in T : TRUE
    BY <2>1
  <2>3. CASE T \ {x} = {}
    <3>1. \A y \in T : y = x
      BY <2>3
    <3>2. x \in Tops(T)
      BY <2>2, <3>1
    <3> QED BY <2>1, <3>2
  <2>4. CASE T \ {x} # {}
    <3>1. PICK y \in T \ {x} : \A z \in T \ {x} : z <= y
      BY <2>1, <2>2, <2>4
    <3>2. x \in Int /\ y \in Int /\ \A z \in T : z \in Int
      BY <2>1
    <3>3. y \in Tops(T) \/ x \in Tops(T)
      <4>1. CASE x <= y
        BY <3>1, <4>1
      <4>2. CASE y <= x
        <5>1. \A z \in T : z <= x
          BY <3>1, <3>2, <4>2
        <5> QED BY <5>1
      <4> QED BY <3>2, <4>1, <4>2
    <3> QED BY <2>1, <3>3
  <2> QED BY <2>3, <2>4
<1>2. \E x \in S : \A y \in S : y <= x
  <2>1. S \notin Bad
    BY <1>1
  <2> QED BY <2>1
<1> QED BY <1>2 DEF Highest

-----------------------------------------------------------------------------
(* What a catalog gives *)

(* The specs an entry stands for, and the names they have.                 *)
SpecsFrom(e) ==
    LET parent == SpecFromEntry(e)
    IN  {parent} \cup {TierSpec(parent, name) : name \in TierNames(parent)}

NamesFrom(e) ==
    LET parent == SpecFromEntry(e)
    IN  {parent.model_id} \cup TierNames(parent)

SpecsIn(catalog) == UNION {SpecsFrom(e) : e \in ToSet(catalog)}

NamesIn(catalog) == UNION {NamesFrom(e) : e \in ToSet(catalog)}

RegistriesOf(catalog) ==
    {f \in UNION {[D -> SpecsIn(catalog)] : D \in SUBSET NamesIn(catalog)} :
       IsFiniteSet(DOMAIN f)}

LEMMA EntryKeeps ==
    ASSUME NEW catalog, NEW f \in RegistriesOf(catalog), NEW e \in ToSet(catalog),
           IsFiniteSet(e.tiers), IsFiniteSet(DOMAIN e.tier_prices)
    PROVE  WithEntry(f, e) \in RegistriesOf(catalog)
<1> DEFINE parent == SpecFromEntry(e)
           tiers == ExpandTiers(parent)
           N == DOMAIN f \cup {parent.model_id} \cup DOMAIN tiers
           R == SpecsIn(catalog)
           I == NamesIn(catalog)
           new == WithEntry(f, e)
<1>1. /\ DOMAIN tiers = TierNames(parent)
      /\ \A id \in TierNames(parent) : tiers[id] = TierSpec(parent, id)
  BY DEF ExpandTiers
<1>2. /\ f \in [DOMAIN f -> R] /\ DOMAIN f \in SUBSET I
      /\ IsFiniteSet(DOMAIN f)
  BY DEF RegistriesOf
<1>3. SpecsFrom(e) \subseteq R /\ NamesFrom(e) \subseteq I
  BY DEF SpecsIn, NamesIn
<1>4. /\ parent \in R /\ parent.model_id \in I
      /\ TierNames(parent) \subseteq I
      /\ \A id \in TierNames(parent) : TierSpec(parent, id) \in R
  BY <1>3 DEF SpecsFrom, NamesFrom
<1>5. IsFiniteSet(TierNames(parent))
  <2>1. parent.tiers = e.tiers /\ parent.tier_prices = e.tier_prices
    BY DEF SpecFromEntry
  <2> DEFINE all == e.tiers \cup DOMAIN e.tier_prices
  <2>2. IsFiniteSet(all)
    BY FS_Union
  <2>3. TierNames(parent) \in SUBSET all
    BY <2>1 DEF TierNames
  <2> HIDE DEF all
  <2> QED BY <2>2, <2>3, FS_Subset
<1>6. new = [id \in N |-> IF id \in DOMAIN tiers THEN tiers[id]
                          ELSE IF id = parent.model_id THEN parent ELSE f[id]]
  BY DEF WithEntry
<1> HIDE DEF parent, tiers, R, I, new
<1>7. IsFiniteSet(N)
  <2>1. IsFiniteSet(DOMAIN f \cup {parent.model_id})
    BY <1>2, FS_AddElement
  <2> QED BY <1>1, <1>5, <2>1, FS_Union
<1>8. N \in SUBSET I
  BY <1>1, <1>2, <1>4
<1>9. \A id \in N : (IF id \in DOMAIN tiers THEN tiers[id]
                     ELSE IF id = parent.model_id THEN parent ELSE f[id]) \in R
  BY <1>1, <1>2, <1>4
<1> HIDE DEF N
<1>10. new \in [N -> R] /\ DOMAIN new = N
  BY <1>6, <1>9
<1> QED BY <1>7, <1>8, <1>10 DEF RegistriesOf, new, R, I

SpecsStep(catalog, s, g) ==
    IF s = {} THEN <<>> ELSE WithEntry(g[s \ {Max(s)}], catalog[Max(s)])

SpecsEquation(catalog, g) ==
    g = [s \in SUBSET DOMAIN catalog |-> SpecsStep(catalog, s, g)]

LEMMA SpecsUnfold ==
    ASSUME NEW catalog
    PROVE  SpecsOf(catalog) = (CHOOSE g : SpecsEquation(catalog, g))[DOMAIN catalog]
BY DEF SpecsOf, FoldLeft, MapThenFoldSet, SpecsEquation, SpecsStep

LEMMA SpecsAreFromEntries ==
    ASSUME NEW m \in Markets
    PROVE  SpecsOf(m.catalog) \in RegistriesOf(m.catalog)
<1> DEFINE catalog == m.catalog
           n == Len(catalog)
           V == RegistriesOf(catalog)
           D == [e \in (1 .. n) \X V |-> WithEntry(e[2], catalog[e[1]])]
<1>0. /\ n \in Nat /\ DOMAIN catalog = 1 .. n
      /\ \A i \in 1 .. n : catalog[i] \in ToSet(catalog)
  BY MarketsAssumption
<1>1. \A i \in 1 .. n, v \in V : WithEntry(v, catalog[i]) \in V
  BY <1>0, MarketsAssumption, EntryKeeps DEF PriceTable
<1>2. <<>> \in V
  <2>1. <<>> \in [{} -> SpecsIn(catalog)] /\ DOMAIN <<>> = {}
    OBVIOUS
  <2> QED BY <2>1, FS_EmptySet DEF RegistriesOf
<1> HIDE DEF n, V
<1>3. PICK k \in [SUBSET (1 .. n) -> V] : FoldEquation(D, <<>>, SUBSET (1 .. n), k)
  <2>1. D \in [(1 .. n) \X V -> V]
    BY <1>1
  <2> HIDE DEF D
  <2> QED BY <1>0, <1>2, <2>1, FoldExists
<1>4. SpecsEquation(catalog, k)
  <2>1. ASSUME NEW s \in SUBSET (1 .. n)
        PROVE  FoldStep(D, <<>>, s, k) = SpecsStep(catalog, s, k)
    <3>1. CASE s = {}
      BY <3>1 DEF FoldStep, SpecsStep
    <3>2. CASE s # {}
      <4>1. Max(s) \in 1 .. n /\ k[s \ {Max(s)}] \in V
        BY <1>0, <1>3, <3>2, MaxOf
      <4>2. D[<<Max(s), k[s \ {Max(s)}]>>] =
              WithEntry(k[s \ {Max(s)}], catalog[Max(s)])
        BY <4>1 DEF D
      <4> QED BY <3>2, <4>2 DEF FoldStep, SpecsStep
    <3> QED BY <3>1, <3>2
  <2> HIDE DEF D
  <2> QED BY <1>0, <1>3, <2>1 DEF FoldEquation, SpecsEquation
<1>5. PICK h : SpecsEquation(catalog, h) /\ SpecsOf(catalog) = h[1 .. n]
  BY <1>0, <1>4, SpecsUnfold
<1> HIDE DEF D
<1> DEFINE Bad == {s \in SUBSET (1 .. n) : h[s] \notin V}
<1>6. Bad = {}
  <2> SUFFICES ASSUME Bad # {} PROVE FALSE
    OBVIOUS
  <2>1. PICK s \in Bad : \A x \in s : s \ {x} \notin Bad
    <3>1. Bad \in SUBSET (SUBSET (1 .. n)) /\ IsFiniteSet(1 .. n)
      BY <1>0, FS_Interval
    <3> HIDE DEF Bad
    <3> QED BY <3>1, SmallestOf
  <2>2. h[s] = SpecsStep(catalog, s, h)
    BY <1>0, <1>5 DEF SpecsEquation
  <2>3. s # {}
    BY <1>2, <2>1, <2>2 DEF SpecsStep
  <2>4. Max(s) \in s /\ Max(s) \in 1 .. n /\ s \ {Max(s)} \in SUBSET (1 .. n)
    BY <1>0, <2>1, <2>3, MaxOf
  <2>5. h[s \ {Max(s)}] \in V
    BY <2>1, <2>4
  <2> QED BY <1>1, <2>1, <2>2, <2>3, <2>4, <2>5 DEF SpecsStep
<1> QED BY <1>5, <1>6 DEF V

LEMMA CatalogGives ==
    ASSUME NEW m \in Markets
    PROVE  LET specs == SpecsOf(m.catalog)
           IN  /\ IsFiniteSet(DOMAIN specs)
               /\ \A p \in DOMAIN specs :
                    /\ PriceTable(specs[p].tier_prices)
                    /\ DOMAIN specs[p].tier_prices = {}
                         \/ specs[p].is_tier_of = None
<1> DEFINE specs == SpecsOf(m.catalog)
<1>1. /\ IsFiniteSet(DOMAIN specs)
      /\ \A p \in DOMAIN specs : specs[p] \in SpecsIn(m.catalog)
  BY SpecsAreFromEntries DEF RegistriesOf
<1>2. ASSUME NEW spec \in SpecsIn(m.catalog)
      PROVE  /\ PriceTable(spec.tier_prices)
             /\ DOMAIN spec.tier_prices = {} \/ spec.is_tier_of = None
  <2>1. PICK e \in ToSet(m.catalog) : spec \in SpecsFrom(e)
    BY DEF SpecsIn
  <2> DEFINE parent == SpecFromEntry(e)
  <2>2. parent.tier_prices = e.tier_prices /\ parent.is_tier_of = None
    BY DEF SpecFromEntry
  <2>3. CASE spec = parent
    BY <2>1, <2>2, <2>3, MarketsAssumption
  <2>4. ASSUME NEW name \in TierNames(parent), spec = TierSpec(parent, name)
        PROVE  spec.tier_prices = <<>>
    BY <2>4 DEF TierSpec, SpecFromEntry
  <2>5. PriceTable(<<>>) /\ DOMAIN <<>> = {}
    <3>1. DOMAIN <<>> = {} /\ <<>> \in [{} -> Int]
      OBVIOUS
    <3> QED BY <3>1, FS_EmptySet DEF PriceTable
  <2>6. spec = parent \/ \E name \in TierNames(parent) : spec = TierSpec(parent, name)
    BY <2>1 DEF SpecsFrom
  <2> HIDE DEF parent
  <2> QED BY <2>3, <2>4, <2>5, <2>6
<1> HIDE DEF specs
<1>3. \A p \in DOMAIN specs :
        /\ PriceTable(specs[p].tier_prices)
        /\ DOMAIN specs[p].tier_prices = {} \/ specs[p].is_tier_of = None
  BY <1>1, <1>2
<1> QED BY <1>1, <1>3 DEF specs

-----------------------------------------------------------------------------
(* What a price list gives *)

PriceRows(list) == [category : {c.category : c \in ToSet(list)}, price : Int]

PricedIn(list) == UNION {DOMAIN c.entries : c \in ToSet(list)}

FlatLists(list) ==
    {f \in UNION {[D -> PriceRows(list)] : D \in SUBSET PricedIn(list)} :
       IsFiniteSet(DOMAIN f)}

WithCategory(flat, c) ==
    [id \in DOMAIN flat \cup DOMAIN c.entries |->
       IF id \in DOMAIN c.entries
       THEN [category |-> c.category, price |-> c.entries[id]]
       ELSE flat[id]]

LEMMA CategoryKeeps ==
    ASSUME NEW list, NEW f \in FlatLists(list), NEW c \in ToSet(list),
           PriceTable(c.entries)
    PROVE  WithCategory(f, c) \in FlatLists(list)
<1> DEFINE N == DOMAIN f \cup DOMAIN c.entries
           R == PriceRows(list)
           I == PricedIn(list)
           row(id) == [category |-> c.category, price |-> c.entries[id]]
           new == WithCategory(f, c)
<1>1. /\ f \in [DOMAIN f -> R] /\ DOMAIN f \in SUBSET I
      /\ IsFiniteSet(DOMAIN f)
  BY DEF FlatLists
<1>2. DOMAIN c.entries \subseteq I
  BY DEF PricedIn
<1>3. \A id \in DOMAIN c.entries : row(id) \in R
  BY DEF PriceTable, PriceRows
<1>4. IsFiniteSet(N)
  BY <1>1, FS_Union DEF PriceTable
<1>5. new = [id \in N |-> IF id \in DOMAIN c.entries THEN row(id) ELSE f[id]]
  BY DEF WithCategory
<1> HIDE DEF R, I, row, new
<1>6. \A id \in N : (IF id \in DOMAIN c.entries THEN row(id) ELSE f[id]) \in R
  BY <1>1, <1>3
<1>7. N \in SUBSET I
  BY <1>1, <1>2
<1> HIDE DEF N
<1>8. new \in [N -> R] /\ DOMAIN new = N
  BY <1>5, <1>6
<1> QED BY <1>4, <1>7, <1>8 DEF FlatLists, new, R, I

FlatStep(list, s, g) ==
    IF s = {} THEN <<>> ELSE WithCategory(g[s \ {Max(s)}], list[Max(s)])

FlatEquation(list, g) == g = [s \in SUBSET DOMAIN list |-> FlatStep(list, s, g)]

LEMMA FlatUnfolds ==
    ASSUME NEW list
    PROVE  FlattenPrices(list) = (CHOOSE g : FlatEquation(list, g))[DOMAIN list]
BY DEF FlattenPrices, FoldLeft, MapThenFoldSet, FlatEquation, FlatStep,
       WithCategory

LEMMA PricesAreFlat ==
    ASSUME NEW m \in Markets
    PROVE  FlattenPrices(m.sent.prices) \in FlatLists(m.sent.prices)
<1> DEFINE list == m.sent.prices
           n == Len(list)
           V == FlatLists(list)
           D == [e \in (1 .. n) \X V |-> WithCategory(e[2], list[e[1]])]
<1>0. /\ n \in Nat /\ DOMAIN list = 1 .. n
      /\ \A i \in 1 .. n : list[i] \in ToSet(list)
  BY MarketsAssumption
<1>1. \A i \in 1 .. n, v \in V : WithCategory(v, list[i]) \in V
  BY <1>0, MarketsAssumption, CategoryKeeps
<1>2. <<>> \in V
  <2>1. <<>> \in [{} -> PriceRows(list)] /\ DOMAIN <<>> = {}
    OBVIOUS
  <2> QED BY <2>1, FS_EmptySet DEF FlatLists
<1> HIDE DEF n, V
<1>3. PICK k \in [SUBSET (1 .. n) -> V] : FoldEquation(D, <<>>, SUBSET (1 .. n), k)
  <2>1. D \in [(1 .. n) \X V -> V]
    BY <1>1
  <2> HIDE DEF D
  <2> QED BY <1>0, <1>2, <2>1, FoldExists
<1>4. FlatEquation(list, k)
  <2>1. ASSUME NEW s \in SUBSET (1 .. n)
        PROVE  FoldStep(D, <<>>, s, k) = FlatStep(list, s, k)
    <3>1. CASE s = {}
      BY <3>1 DEF FoldStep, FlatStep
    <3>2. CASE s # {}
      <4>1. Max(s) \in 1 .. n /\ k[s \ {Max(s)}] \in V
        BY <1>0, <1>3, <3>2, MaxOf
      <4>2. D[<<Max(s), k[s \ {Max(s)}]>>] =
              WithCategory(k[s \ {Max(s)}], list[Max(s)])
        BY <4>1 DEF D
      <4> QED BY <3>2, <4>2 DEF FoldStep, FlatStep
    <3> QED BY <3>1, <3>2
  <2> HIDE DEF D
  <2> QED BY <1>0, <1>3, <2>1 DEF FoldEquation, FlatEquation
<1>5. PICK h : FlatEquation(list, h) /\ FlattenPrices(list) = h[1 .. n]
  BY <1>0, <1>4, FlatUnfolds
<1> HIDE DEF D
<1> DEFINE Bad == {s \in SUBSET (1 .. n) : h[s] \notin V}
<1>6. Bad = {}
  <2> SUFFICES ASSUME Bad # {} PROVE FALSE
    OBVIOUS
  <2>1. PICK s \in Bad : \A x \in s : s \ {x} \notin Bad
    <3>1. Bad \in SUBSET (SUBSET (1 .. n)) /\ IsFiniteSet(1 .. n)
      BY <1>0, FS_Interval
    <3> HIDE DEF Bad
    <3> QED BY <3>1, SmallestOf
  <2>2. h[s] = FlatStep(list, s, h)
    BY <1>0, <1>5 DEF FlatEquation
  <2>3. s # {}
    BY <1>2, <2>1, <2>2 DEF FlatStep
  <2>4. Max(s) \in s /\ Max(s) \in 1 .. n /\ s \ {Max(s)} \in SUBSET (1 .. n)
    BY <1>0, <2>1, <2>3, MaxOf
  <2>5. h[s \ {Max(s)}] \in V
    BY <2>1, <2>4
  <2> QED BY <1>1, <2>1, <2>2, <2>3, <2>4, <2>5 DEF FlatStep
<1> QED BY <1>5, <1>6 DEF V

LEMMA PriceListGives ==
    ASSUME NEW m \in Markets
    PROVE  LET prices == FlattenPrices(m.sent.prices)
           IN  /\ IsFiniteSet(DOMAIN prices)
               /\ \A id \in DOMAIN prices : prices[id].price \in Int
<1> DEFINE prices == FlattenPrices(m.sent.prices)
<1>1. /\ IsFiniteSet(DOMAIN prices)
      /\ \A id \in DOMAIN prices : prices[id] \in PriceRows(m.sent.prices)
  BY PricesAreFlat DEF FlatLists
<1> HIDE DEF prices
<1> QED BY <1>1 DEF PriceRows, prices

-----------------------------------------------------------------------------
(* The gap *)

(* A ceiling from the declared tiers of p, raised, is below what id costs. *)
Lacks(specs, prices, p, id, raise) ==
    \A t \in DOMAIN specs[p].tier_prices :
      specs[p].tier_prices[t] + raise < prices[id].price

LEMMA GapOfParent ==
    ASSUME NEW specs, NEW prices, NEW p \in TierParents(specs),
           PriceTable(specs[p].tier_prices),
           IsFiniteSet(DOMAIN prices),
           \A id \in DOMAIN prices : prices[id].price \in Int
    PROVE  /\ Gap(specs, prices, p) \in Nat
           /\ \A id \in UnlistedOf(specs, prices, p) :
                ~ Lacks(specs, prices, p, id, Gap(specs, prices, p))
           /\ Gap(specs, prices, p) > 0 =>
                \E id \in UnlistedOf(specs, prices, p) :
                  Lacks(specs, prices, p, id, Gap(specs, prices, p) - 1)
<1> DEFINE table == specs[p].tier_prices
           T == {table[t] : t \in DOMAIN table}
           U == UnlistedOf(specs, prices, p)
           C == {prices[id].price : id \in U}
           A == {DeclaredMax(specs[p])} \cup C
           gap == Gap(specs, prices, p)
<1>1. /\ IsFiniteSet(DOMAIN table) /\ DOMAIN table # {}
      /\ \A t \in DOMAIN table : table[t] \in Int
  BY DEF PriceTable, TierParents
<1>2. IsFiniteSet(T) /\ T # {} /\ \A x \in T : x \in Int
  <2> DEFINE f == [t \in DOMAIN table |-> table[t]]
  <2>1. f \in Surjection(DOMAIN table, T)
    BY DEF Surjection
  <2>2. \A x \in T : x \in Int
    BY <1>1
  <2>3. T # {}
    BY <1>1
  <2> HIDE DEF f, T, table
  <2> QED BY <1>1, <2>1, <2>2, <2>3, FS_Surjection
<1>3. DeclaredMax(specs[p]) = Highest(T)
  BY DEF DeclaredMax
<1>4. /\ DeclaredMax(specs[p]) \in T
      /\ \A x \in T : x <= DeclaredMax(specs[p])
  <2> HIDE DEF T
  <2> QED BY <1>2, <1>3, HighestOf
<1>5. U \in SUBSET DOMAIN prices
  BY DEF UnlistedOf
<1>6. IsFiniteSet(C) /\ \A x \in C : x \in Int
  <2> DEFINE f == [id \in U |-> prices[id].price]
  <2>1. f \in Surjection(U, C)
    BY DEF Surjection
  <2>2. IsFiniteSet(U)
    BY <1>5, FS_Subset
  <2>3. \A x \in C : x \in Int
    BY <1>5
  <2> HIDE DEF f, C, U
  <2> QED BY <2>1, <2>2, <2>3, FS_Surjection
<1>7. gap = Highest(A) - DeclaredMax(specs[p])
  BY DEF Gap
<1> DEFINE declared == DeclaredMax(specs[p])
<1> HIDE DEF declared, T, C, U
<1>8. Highest(A) \in A /\ \A x \in A : x <= Highest(A)
  <2>1. IsFiniteSet(C \cup {declared})
    BY <1>6, FS_AddElement
  <2>2. A = C \cup {declared}
    BY DEF declared
  <2>3. A # {} /\ \A x \in A : x \in Int
    BY <1>2, <1>4, <1>6, <2>2 DEF declared
  <2> HIDE DEF A
  <2> QED BY <2>1, <2>2, <2>3, HighestOf
<1> DEFINE top == Highest(A)
<1>9. /\ top \in Int /\ declared \in Int /\ declared <= top
      /\ gap = top - declared
      /\ top = declared \/ top \in C
      /\ \A x \in C : x <= top
  <2>1. declared \in A /\ C \subseteq A /\ A = {declared} \cup C
    BY DEF declared
  <2>2. declared \in Int
    BY <1>2, <1>4 DEF declared
  <2>3. top \in A
    BY <1>8
  <2>4. gap = top - declared
    BY <1>7 DEF declared
  <2>5. declared <= top /\ \A x \in C : x <= top
    BY <1>8, <2>1
  <2> HIDE DEF top, A, gap
  <2> QED BY <1>6, <2>1, <2>2, <2>3, <2>4, <2>5
<1> HIDE DEF top, A, gap
<1>10. gap \in Nat
  BY <1>9
<1>11. ASSUME NEW id \in U, Lacks(specs, prices, p, id, gap)
       PROVE  FALSE
  <2>1. PICK t \in DOMAIN table : table[t] = declared
    BY <1>4 DEF T, declared
  <2>2. declared + gap < prices[id].price
    BY <1>11, <2>1 DEF Lacks
  <2>3. prices[id].price \in C
    BY DEF C
  <2>4. prices[id].price <= top /\ prices[id].price \in Int
    BY <1>6, <1>9, <2>3
  <2> QED BY <1>9, <2>2, <2>4
<1>12. ASSUME gap > 0
       PROVE  \E id \in U : Lacks(specs, prices, p, id, gap - 1)
  <2>1. top \in C
    BY <1>9, <1>12
  <2>2. PICK id \in U : prices[id].price = top
    BY <2>1 DEF C
  <2>3. ASSUME NEW t \in DOMAIN table
        PROVE  table[t] + (gap - 1) < prices[id].price
    <3>1. table[t] \in T /\ table[t] \in Int
      BY <1>1 DEF T
    <3>2. table[t] <= declared
      BY <1>4, <3>1 DEF declared
    <3> HIDE DEF table
    <3> QED BY <1>9, <2>2, <3>1, <3>2
  <2> QED BY <2>3 DEF Lacks
<1> QED BY <1>10, <1>11, <1>12 DEF gap, U

LEMMA GapIsWidest ==
    ASSUME NEW specs, NEW prices, IsFiniteSet(DOMAIN specs),
           \A p \in DOMAIN specs : PriceTable(specs[p].tier_prices),
           IsFiniteSet(DOMAIN prices),
           \A id \in DOMAIN prices : prices[id].price \in Int
    PROVE  LET gap == CeilingGap(specs, prices)
           IN  /\ gap \in Nat
               /\ \A p \in TierParents(specs) : Gap(specs, prices, p) <= gap
               /\ gap > 0 => \E p \in TierParents(specs) :
                               gap = Gap(specs, prices, p)
<1> DEFINE P == TierParents(specs)
           G == {Gap(specs, prices, p) : p \in P}
           A == {0} \cup G
<1>1. \A p \in P : Gap(specs, prices, p) \in Nat
  BY GapOfParent DEF TierParents
<1>2. IsFiniteSet(G)
  <2> DEFINE f == [p \in P |-> Gap(specs, prices, p)]
  <2>1. f \in Surjection(P, G)
    BY DEF Surjection
  <2>2. P \in SUBSET DOMAIN specs
    BY DEF TierParents
  <2>3. IsFiniteSet(P)
    BY <2>2, FS_Subset
  <2> HIDE DEF f, P, G
  <2> QED BY <2>1, <2>3, FS_Surjection
<1>3. \A x \in A : x \in Nat /\ x \in Int
  BY <1>1
<1>4. IsFiniteSet(A)
  <2>1. IsFiniteSet(G \cup {0}) /\ A = G \cup {0}
    BY <1>2, FS_AddElement
  <2> QED BY <2>1
<1>5. Highest(A) \in A /\ \A x \in A : x <= Highest(A)
  <2>1. A # {}
    OBVIOUS
  <2> HIDE DEF A
  <2> QED BY <1>3, <1>4, <2>1, HighestOf
<1>6. CeilingGap(specs, prices) = Highest(A)
  BY DEF CeilingGap
<1> DEFINE gap == CeilingGap(specs, prices)
<1>7. gap \in Nat
  BY <1>3, <1>5, <1>6
<1>8. \A p \in P : Gap(specs, prices, p) <= gap
  BY <1>5, <1>6
<1>9. gap > 0 => \E p \in P : gap = Gap(specs, prices, p)
  <2>1. gap \in A
    BY <1>5, <1>6
  <2>2. gap = 0 \/ gap \in G
    BY <2>1
  <2>3. gap > 0 => gap \in G
    <3> HIDE DEF gap, G
    <3> QED BY <2>2
  <2> HIDE DEF gap
  <2> QED BY <2>3
<1> QED BY <1>7, <1>8, <1>9

(* The model that is named with a gap is one that has it.                  *)
LEMMA GapModelHasGap ==
    ASSUME NEW specs, NEW prices, DOMAIN specs \subseteq DOMAIN IdRank,
           CeilingGap(specs, prices) \in Nat, CeilingGap(specs, prices) > 0,
           NEW p \in TierParents(specs), CeilingGap(specs, prices) = Gap(specs, prices, p)
    PROVE  /\ CeilingGapModel(specs, prices) \in TierParents(specs)
           /\ Gap(specs, prices, CeilingGapModel(specs, prices)) =
                CeilingGap(specs, prices)
<1> DEFINE widest == {o \in TierParents(specs) :
                        Gap(specs, prices, o) = CeilingGap(specs, prices)}
           ranks == {IdRank[o] : o \in widest}
<1>1. p \in widest
  OBVIOUS
<1>2. widest \subseteq DOMAIN IdRank
  BY DEF TierParents
<1> HIDE DEF widest
<1>3. ranks \in SUBSET Nat /\ ranks # {}
  BY <1>1, <1>2, RankAssumption
<1>4. PICK r \in ranks : \A q \in ranks : r <= q
  BY <1>3, LeastOf
<1>5. PICK first \in widest : IdRank[first] = r
  BY <1>4
<1>6. \A o \in widest : IdRank[first] <= IdRank[o]
  BY <1>4, <1>5
<1>7. CeilingGapModel(specs, prices) =
        CHOOSE q \in widest : \A o \in widest : IdRank[q] <= IdRank[o]
  BY <1>1 DEF CeilingGapModel, widest
<1>8. CeilingGapModel(specs, prices) \in widest
  BY <1>5, <1>6, <1>7
<1> QED BY <1>8 DEF widest

(* For any catalog and price list: a ceiling raised by the gap covers      *)
(* every tier the catalog does not know, and none less does for the model  *)
(* that is named with it (GapCoversUnlisted, reconcile.py).                *)
THEOREM GapIsTight == FreeSpec => []GapCoversUnlisted
<1>1. ASSUME DriftInv PROVE GapCoversUnlisted
  <2> DEFINE m == Live
             specs == SpecsOf(m.catalog)
             prices == FlattenPrices(m.sent.prices)
             gap == CeilingGap(specs, prices)
             widest == CeilingGapModel(specs, prices)
             lacks(p, raise) ==
               \E id \in DOMAIN prices \ DOMAIN specs :
                 /\ specs[p].tier_prices # <<>>
                 /\ <<p, id>> \in NamedAfter
                 /\ Lacks(specs, prices, p, id, raise)
  <2>1. m \in Markets
    BY <1>1 DEF DriftInv, DriftTypes, Live, Last
  <2>2. /\ ReadingOf[m.catalog][m.sent].ceiling_gap = gap
        /\ ReadingOf[m.catalog][m.sent].ceiling_gap_model = widest
    BY <2>1 DEF ReadingOf, Reading
  <2>3. /\ IsFiniteSet(DOMAIN specs)
        /\ \A p \in DOMAIN specs :
             /\ PriceTable(specs[p].tier_prices)
             /\ DOMAIN specs[p].tier_prices = {} \/ specs[p].is_tier_of = None
    BY <2>1, CatalogGives
  <2>4. /\ IsFiniteSet(DOMAIN prices)
        /\ \A id \in DOMAIN prices : prices[id].price \in Int
    BY <2>1, PriceListGives
  <2>10. DOMAIN specs \subseteq DOMAIN IdRank
    BY <2>1, MarketsAssumption
  <2>5. ASSUME ReadingOf[m.catalog][m.sent].ceiling_gap = gap,
               ReadingOf[m.catalog][m.sent].ceiling_gap_model = widest,
               \A p \in DOMAIN specs : ~ lacks(p, gap),
               gap > 0 => widest \in DOMAIN specs /\ lacks(widest, gap - 1)
        PROVE  GapCoversUnlisted
    BY <2>5, Zenon DEF GapCoversUnlisted, Lacks
  <2> HIDE DEF m, specs, prices, gap, widest
  <2>6. \A p \in DOMAIN specs :
          p \in TierParents(specs) <=> specs[p].tier_prices # <<>>
    <3>1. ASSUME NEW t, PriceTable(t)
          PROVE  t # <<>> <=> DOMAIN t # {}
      BY <3>1 DEF PriceTable
    <3> QED BY <2>3, <3>1 DEF TierParents
  <2>7. /\ gap \in Nat
        /\ \A p \in TierParents(specs) : Gap(specs, prices, p) <= gap
        /\ gap > 0 => \E p \in TierParents(specs) : gap = Gap(specs, prices, p)
    BY <2>3, <2>4, GapIsWidest DEF gap
  <2>8. ASSUME NEW p \in DOMAIN specs PROVE ~ lacks(p, gap)
    <3> SUFFICES ASSUME NEW id \in DOMAIN prices \ DOMAIN specs,
                        specs[p].tier_prices # <<>>,
                        <<p, id>> \in NamedAfter,
                        Lacks(specs, prices, p, id, gap)
                 PROVE  FALSE
      OBVIOUS
    <3>1. p \in TierParents(specs) /\ id \in UnlistedOf(specs, prices, p)
      BY <2>6 DEF UnlistedOf
    <3> DEFINE own == Gap(specs, prices, p)
    <3>2. own \in Nat /\ own <= gap /\ ~ Lacks(specs, prices, p, id, own)
      BY <2>3, <2>4, <2>7, <3>1, GapOfParent
    <3> HIDE DEF own
    <3>3. ASSUME NEW t \in DOMAIN specs[p].tier_prices
          PROVE  specs[p].tier_prices[t] + own < prices[id].price
      <4> DEFINE a == specs[p].tier_prices[t]
                 b == prices[id].price
      <4>1. a \in Int /\ b \in Int
        BY <2>3, <2>4, <3>3 DEF PriceTable
      <4>2. a + gap < b
        BY DEF Lacks
      <4> HIDE DEF a, b
      <4>3. a + own < b
        BY <2>7, <3>2, <4>1, <4>2
      <4> QED BY <4>3 DEF a, b
    <3> QED BY <3>2, <3>3 DEF Lacks
  <2>9. ASSUME gap > 0 PROVE widest \in DOMAIN specs /\ lacks(widest, gap - 1)
    <3>1. widest \in TierParents(specs) /\ gap = Gap(specs, prices, widest)
      BY <2>7, <2>9, <2>10, GapModelHasGap DEF gap, widest
    <3>2. widest \in DOMAIN specs /\ PriceTable(specs[widest].tier_prices)
      BY <2>3, <3>1 DEF TierParents
    <3>3. PICK id \in UnlistedOf(specs, prices, widest) :
            Lacks(specs, prices, widest, id, gap - 1)
      BY <2>4, <2>9, <3>1, <3>2, GapOfParent
    <3>4. /\ id \in DOMAIN prices \ DOMAIN specs /\ <<widest, id>> \in NamedAfter
          /\ specs[widest].tier_prices # <<>>
      BY <2>6, <3>1, <3>2 DEF UnlistedOf
    <3> QED BY <3>2, <3>3, <3>4
  <2> QED BY <2>2, <2>5, <2>8, <2>9 DEF m, specs, prices, gap, widest
<1> QED BY <1>1, DriftInvariant, PTL
=============================================================================
