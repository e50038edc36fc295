------------------------------ MODULE Compiler ------------------------------
(***************************************************************************)
(* compile_request (mainager/preflight/compiler.py): the body of a request *)
(* that serves an intent on a model, if the model can serve it.            *)
(*                                                                         *)
(* A body is a function from the names of its parameters to their values.  *)
(* A prompt is its length; of a source image only the presence counts.     *)
(***************************************************************************)
EXTENDS Registry

(* A model is found under its own id; no parameter of a model is called as *)
(* what the request itself carries, which would replace it in the body; and*)
(* only who takes a generation_type lists values of it.                    *)
ASSUME CatalogAssumption ==
    /\ None \notin DOMAIN Specs
    /\ IsFiniteSet(DOMAIN Specs)
    /\ \A id \in DOMAIN Specs :
         /\ Specs[id].model_id = id
         /\ Accepted(Specs[id]) \cap {"model", "strict"} = {}
         /\ "generation_type" \in DOMAIN Specs[id].enums =>
              "generation_type" \in Accepted(Specs[id])

ImageSourceParams ==
    <<"image_input", "image_urls", "first_frame_url", "reference_image_urls",
      "character_image_url", "image_url">>

ListValued == {"image_input", "image_urls", "reference_image_urls"}

(* The parameters of an intent that are sent under their own name.         *)
Options == {"aspect_ratio", "resolution", "duration"}

(* Parameters that belong to the request and not to a model.               *)
Envelope == {"type", "model", "prompt", "strict", "idempotency_key"}

(* The first one required, else the first one accepted, else None.         *)
ImageSourceParam(spec) ==
    LET places(params) == {i \in DOMAIN ImageSourceParams :
                             ImageSourceParams[i] \in params}
        first(S) == ImageSourceParams[CHOOSE i \in S : \A j \in S : i <= j]
        accepted == places(Accepted(spec))
        required == places(spec.required)
    IN  IF accepted = {} THEN None
        ELSE IF required = {} THEN first(accepted) ELSE first(required)

Stated(intent) == {p \in Options : intent[p] # None}

(* The catalog gives enum values and ranges for some parameters only, and  *)
(* of these a duration is held against its range and the other options     *)
(* against their values.                                                   *)
Allows(spec, p, value) ==
    /\ p \in {"aspect_ratio", "resolution"} \cap DOMAIN spec.enums =>
         value \in spec.enums[p]
    /\ p \in {"duration"} \cap DOMAIN spec.limits => value \in spec.limits[p]

EnumOf(spec, p) == IF p \in DOMAIN spec.enums THEN spec.enums[p] ELSE {}

TakesImage(intent, spec) ==
    LET p == ImageSourceParam(spec)
    IN  intent.source_image =>
          /\ p # None
          /\ p \in ListValued /\ p \in DOMAIN spec.limits => spec.limits[p] >= 1

(* An extra parameter is looked at for its name only.                      *)
TakesOptions(intent, spec) ==
    /\ Stated(intent) \cup DOMAIN intent.extra_params \subseteq Accepted(spec)
    /\ \A p \in Stated(intent) : Allows(spec, p, intent[p])

(* Later parts of the body replace earlier ones; an extra parameter also   *)
(* replaces what was checked under its name.                               *)
BodyWith(intent, spec, extra) ==
    LET fixed  == [type |-> intent.media_type, model |-> spec.model_id,
                   prompt |-> intent.prompt, strict |-> TRUE]
        images == {p \in {ImageSourceParam(spec)} : intent.source_image}
        kinds  == {p \in {"generation_type"} :
                     /\ intent.source_image
                     /\ "image-to-video" \in EnumOf(spec, p)}
        keys   == {p \in {"idempotency_key"} : intent[p] # None}
    IN  [p \in DOMAIN fixed \cup images \cup kinds \cup Stated(intent)
                \cup DOMAIN extra \cup keys |->
           IF p \in keys \cup (Stated(intent) \ DOMAIN extra) THEN intent[p]
           ELSE IF p \in DOMAIN extra THEN extra[p]
           ELSE IF p \in kinds THEN "image-to-video"
           ELSE IF p \in images THEN "url"
           ELSE fixed[p]]

\* A fault: extra parameters are looked at and not sent.
BodyWithoutExtras(intent, spec) == BodyWith(intent, spec, <<>>)

Body(intent, spec) == BodyWith(intent, spec, intent.extra_params)

(* Groups of which the body may touch one.                                 *)
GroupsTouched(body, spec) ==
    LET present == DOMAIN body \ {"type", "model", "prompt", "strict"}
        groups  == IF "mutually_exclusive" \in DOMAIN spec.limits
                   THEN spec.limits.mutually_exclusive ELSE {}
    IN  {g \in groups : g \cap present # {}}

(* compile_request raises nothing.                                         *)
Compiles(intent, spec) ==
    /\ spec.media_type = intent.media_type
    /\ "prompt_max" \in DOMAIN spec.limits =>
         intent.prompt <= spec.limits.prompt_max
    /\ TakesImage(intent, spec)
    /\ TakesOptions(intent, spec)
    /\ spec.required \subseteq DOMAIN Body(intent, spec)
    /\ Cardinality(GroupsTouched(Body(intent, spec), spec)) <= 1
=============================================================================
