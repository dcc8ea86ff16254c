------------------------------- MODULE Codec -------------------------------
(***************************************************************************)
(* The envelope codec (envelope.go, envelope_codec.go), the dead-letter    *)
(* block (deadletter.go) and the poison record (poison_record.go) over     *)
(* abstract JSON.  An object is the sequence of its members in document    *)
(* order, duplicates included; names and texts are members of small sets.  *)
(* data has one level: what its map does to a member it does to the        *)
(* members of a nested object too.                                         *)
(* Warnings, which only reach the log, and the fields that no code reads   *)
(* back (trace_id, id, lang, created_at) are left out.                     *)
(***************************************************************************)
EXTENDS Integers, SequencesExt

CONSTANTS
  Floats,          \* the integers that a float64 holds
  Overflow         \* the least integer that no float64 comes near

ASSUME FloatAssumption ==
  /\ Overflow \in Nat
  /\ Floats \subseteq {n \in Int : -Overflow < n /\ n < Overflow}
  /\ 0 \in Floats

\* JSON values, tagged with their type; Invalid is a text that is not JSON.
Str(s)   == [is |-> "string", of |-> s]
Num(n)   == [is |-> "number", of |-> n]
Obj(ms)  == [is |-> "object", of |-> ms]
Null     == [is |-> "null", of |-> <<>>]
Array    == [is |-> "array", of |-> <<>>]
Invalid  == [is |-> "invalid", of |-> <<>>]

Member(k, v) == [key |-> k, val |-> v]

\* The blank texts: empty, or only ASCII whitespace.
IsBlankASCII(s) == s \in {"", " "}

SchemaVersion == 1

-----------------------------------------------------------------------------
(* Reading an object.                                                       *)

\* The keys that are typed, and the type each occurrence of them must have.
EnvelopeTypes   == [data |-> "object", attempts |-> "number", meta |-> "object",
                    dead_letter |-> "object"]
MetaTypes       == [queue |-> "string", schema_version |-> "number"]
DeadLetterTypes == [original_queue |-> "string", attempts |-> "number"]

ForbiddenTopLevelKeys == {"timestamp"}
ForbiddenMetaKeys     == {"max_retries", "attempts", "source", "ts"}

Keys(ms) == {ms[i].key : i \in DOMAIN ms}

\* The last occurrence of a key wins; a missing key reads like null.
Value(ms, k) ==
  IF k \in Keys(ms) THEN ms[Max({i \in DOMAIN ms : ms[i].key = k})].val ELSE Null

\* assignValue: every occurrence is type-checked, null resets to the zero value.
WellTyped(ms, types) ==
  \A i \in DOMAIN ms : ms[i].key \in DOMAIN types => ms[i].val.is \in {types[ms[i].key], "null"}

\* json.Unmarshal refuses a number beyond the range of a float64.
InRange(ms) ==
  \A i \in DOMAIN ms :
    ms[i].val.is = "number" => -Overflow < ms[i].val.of /\ ms[i].val.of < Overflow

\* The nested objects are decoded at each of their occurrences.
NestedWellTyped(ms) ==
  \A i \in DOMAIN ms : ms[i].val.is = "object" =>
    /\ ms[i].key = "data" => InRange(ms[i].val.of)
    /\ ms[i].key = "meta" => WellTyped(ms[i].val.of, MetaTypes)
    /\ ms[i].key = "dead_letter" => WellTyped(ms[i].val.of, DeadLetterTypes)

Text(v)    == IF v.is = "string" THEN v.of ELSE ""
Integer(v) == IF v.is = "number" THEN v.of ELSE 0
Members(v) == IF v.is = "object" THEN v.of ELSE <<>>

\* The members to carry along: neither known nor forbidden, each with its last value.
Unknown(ms, known) == {Member(k, Value(ms, k)) : k \in Keys(ms) \ known}

Distance(m, n) == IF m < n THEN n - m ELSE m - n

\* A number becomes a float64: the nearest one, either of two that are equally near.
Float64(n) == CHOOSE m \in Floats : \A k \in Floats : Distance(m, n) <= Distance(k, n)

\* An any holds a number as a float64 and the other values as they are.
AsAny(v) == IF v.is = "number" THEN Num(Float64(v.of)) ELSE v

\* The map[string]any of an object, as json.Marshal writes it back: its keys once each
\* and in an order of their own; null stays null.
AsMap(v) ==
  IF v.is = "object" THEN Obj(SetToSeq({Member(e.key, AsAny(e.val)) : e \in Unknown(v.of, {})}))
  ELSE v

\* Only a string job is a job; a blank one gives way to a string urn, verbatim.
Identity(ms) ==
  LET job == Text(Value(ms, "job"))
      urn == Value(ms, "urn")
  IN IF urn.is = "string" /\ IsBlankASCII(job) THEN urn.of ELSE job

\* decodeDeadLetter: unknown members are not carried.
DecodeDeadLetter(v) ==
  IF v.is # "object" THEN <<>>
  ELSE << [queue    |-> Text(Value(v.of, "original_queue")),
           attempts |-> Integer(Value(v.of, "attempts"))] >>

\* The Envelope of the members of an object; the last meta block replaces the others.
EnvelopeOf(ms) ==
  LET meta == Members(Value(ms, "meta"))
  IN [ job        |-> Identity(ms),
       data       |-> AsMap(Value(ms, "data")),
       queue      |-> Text(Value(meta, "queue")),
       version    |-> Integer(Value(meta, "schema_version")),
       attempts   |-> Integer(Value(ms, "attempts")),
       dead       |-> DecodeDeadLetter(Value(ms, "dead_letter")),
       extras     |-> Unknown(ms, {"job", "urn"} \cup DOMAIN EnvelopeTypes
                                    \cup ForbiddenTopLevelKeys),
       metaExtras |-> Unknown(meta, DOMAIN MetaTypes \cup ForbiddenMetaKeys) ]

ZeroEnvelope ==
  [ job |-> "", data |-> Null, queue |-> "", version |-> 0, attempts |-> 0, dead |-> <<>>,
    extras |-> {}, metaExtras |-> {} ]

\* A body whose typed members all have their type; null decodes like an empty object.
Decodable(body) ==
  body = Null \/ (body.is = "object" /\ WellTyped(body.of, EnvelopeTypes) /\ NestedWellTyped(body.of))

\* Decode: err is "none", "noident" (ErrNoIdentity, with the envelope) or "bad".
Decode(body) ==
  IF ~Decodable(body) THEN [err |-> "bad", env |-> ZeroEnvelope]
  ELSE [err |-> IF IsBlankASCII(Identity(Members(body))) THEN "noident" ELSE "none",
        env |-> EnvelopeOf(Members(body))]

-----------------------------------------------------------------------------
(* Writing an envelope and a dead-letter record.                            *)

\* checkExtras: what Encode refuses.
CheckExtras(env) ==
  /\ Keys(SetToSeq(env.extras)) \cap (ForbiddenTopLevelKeys \cup {"urn"}) = {}
  /\ Keys(SetToSeq(env.metaExtras)) \cap (ForbiddenMetaKeys \cup DOMAIN MetaTypes) = {}

DeadLetterBlock(d) ==
  Obj(<< Member("original_queue", Str(d.queue)), Member("attempts", Num(d.attempts)) >>)

\* Mutant: the unknown meta keys are not written back.
EncodeCoreMeta(env) ==
  Obj(<< Member("job", Str(env.job)), Member("data", env.data),
         Member("meta", Obj(<< Member("queue", Str(env.queue)),
                               Member("schema_version", Num(env.version)) >>)),
         Member("attempts", Num(env.attempts)) >>
      \o [i \in DOMAIN env.dead |-> Member("dead_letter", DeadLetterBlock(env.dead[i]))]
      \o SetToSeq(env.extras))

\* Encode: the known fields in canonical order, then the unknown keys.
Encode(env) ==
  Obj(<< Member("job", Str(env.job)), Member("data", env.data),
         Member("meta", Obj(<< Member("queue", Str(env.queue)),
                               Member("schema_version", Num(env.version)) >>
                            \o SetToSeq(env.metaExtras))),
         Member("attempts", Num(env.attempts)) >>
      \o [i \in DOMAIN env.dead |-> Member("dead_letter", DeadLetterBlock(env.dead[i]))]
      \o SetToSeq(env.extras))

\* Make: a fresh envelope with the caller's data, whose integers may be wider than a
\* float64; WithMeta entries that Encode would refuse are refused here.
Make(urn, queue, data, meta) ==
  [ job |-> urn, data |-> IF data = Null THEN Obj(<<>>) ELSE data, queue |-> queue, version |-> SchemaVersion,
    attempts |-> 0, dead |-> <<>>, extras |-> {}, metaExtras |-> meta ]

Annotate(env, queue, attempts) ==
  [env EXCEPT !.dead = <<[queue |-> queue, attempts |-> attempts]>>]

\* isSpliceableObject: a JSON object without a dead_letter of its own.
IsSpliceableObject(body) == body.is = "object" /\ "dead_letter" \notin Keys(body.of)

\* buildPoisonRecord: the members as they are plus the block, or the text in "raw".
PoisonRecord(body, queue, attempts) ==
  LET block == Member("dead_letter", DeadLetterBlock([queue |-> queue, attempts |-> attempts]))
  IN IF IsSpliceableObject(body) THEN Obj(Append(body.of, block))
     ELSE Obj(<<Member("raw", Str(body)), block>>)
=============================================================================
