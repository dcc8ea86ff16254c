------------------------------- MODULE MCWire -------------------------------
(***************************************************************************)
(* Foreign bodies for the model checker: every identity, meta block and    *)
(* remainder below in combination, and a few bodies under every set of     *)
(* properties that a producer of the transport may attach.                 *)
(***************************************************************************)
EXTENDS Wire

Identities ==
  { <<Member("job", Str("A"))>>,
    <<Member("urn", Str("A")), Member("job", Str(" "))>>,
    <<Member("job", Str("A")), Member("urn", Str("B")), Member("job", Str("C"))>>,
    <<Member("job", Num(1)), Member("urn", Str(""))>> }

Metas ==
  { <<>>,
    <<Member("queue", Str("q")), Member("schema_version", Num(1))>>,
    <<Member("schema_version", Num(2)), Member("x", Str("x"))>>,
    <<Member("queue", Str("q")), Member("attempts", Num(7)), Member("x", Array)>>,
    <<Member("queue", Num(1))>> }

\* Data with a repeated key, whose last value no float64 holds.
Wide == <<Member("data", Obj(<<Member("n", Num(1)), Member("x", Str("x")), Member("n", Num(5))>>))>>

Rests ==
  { <<>>, Wide,
    <<Member("attempts", Num(2)), Member("attempts", Num(1))>>,
    <<Member("attempts", Num(-2)), Member("x", Num(1)), Member("x", Str("x"))>>,
    <<Member("timestamp", Num(1)), Member("attempts", Str("x"))>>,
    <<Member("dead_letter", Obj(<<Member("original_queue", Str("q"))>>)), Member("data", Null)>>,
    <<Member("dead_letter", Num(1))>>,
    <<Member("data", Obj(<<Member("n", Num(7)), Member("n", Num(1))>>))>> }

Body(id, meta, rest) == Obj(id \o <<Member("meta", Obj(meta))>> \o rest)

Bodies ==
  {Body(id, meta, rest) : id \in Identities, meta \in Metas, rest \in Rests}
    \cup {Null, Array, Invalid, Obj(<<>>)}

FewBodies ==
  { Body(<<Member("job", Str("A"))>>, meta, <<Member("attempts", Num(1))>>) : meta \in Metas }
    \cup {Invalid, Body(<<Member("job", Str("A"))>>, <<Member("schema_version", Num(2))>>, Wide)}

Versions == {Null, Str(" "), Str("x"), Txt(1), Txt(2)}
Counts   == {Null, Str("x"), Txt(-3), Txt(0), Txt(2)}

\* The properties a producer of the transport may attach, as far as Pop reads them.
PropsOf ==
  [ kafka   |-> [job : {Null}, version : Versions, attempts : Counts, replay : {Null}],
    pulsar  |-> [job : {Null, Str(" "), Str("A"), Str("B")}, version : Versions,
                 attempts : Counts, replay : {Null}],
    sqs     |-> [job : {Null}, version : Versions, attempts : {Null}, replay : {Null}],
    azure   |-> [job : {Null}, version : Versions \cup {Num(1), Num(0), Array},
                 attempts : {Null}, replay : {Null}],
    artemis |-> [job : {Null}, version : Versions \cup {Num(1)}, attempts : {Null}, replay : {Null}],
    amqp    |-> [job : {Null}, version : {Null}, attempts : {Null}, replay : {Null}] ]

MCForeign ==
  [ u \in DOMAIN PropsOf |->
      {[body |-> b, props |-> NoProps] : b \in Bodies}
        \cup {[body |-> b, props |-> p] : b \in FewBodies, p \in PropsOf[u]} ]

\* Floats of two bits: whole up to 4, every other integer up to 6, none from 7 on.
MCFloats == (-4 .. 4) \cup {-6, 6}

\* No data, and an integer that a float64 does not hold.
MCPayloads == {Null, Obj(<<Member("n", Num(5))>>)}

MCMeta == {{}, {Member("x", Str("x"))}}

\* No backoff, a rounded one, one that a cap stops, one that overflows.
MCBackoffs ==
  { [base |-> 0, multiplier |-> 2, max |-> 0], [base |-> 3, multiplier |-> 0, max |-> 0],
    [base |-> 1, multiplier |-> 3, max |-> 5], [base |-> 3, multiplier |-> 20, max |-> 0] }
=============================================================================
