------------------------------- MODULE Marshal -------------------------------
(***************************************************************************)
(* The generated Size and MarshalToSizedBuffer methods of the *.pb.go      *)
(* files. Like Unmarshal they differ from message to message only in a     *)
(* table: which fields are written, in which form and under which tag.     *)
(* Size adds the fields up in ascending order; MarshalToSizedBuffer writes *)
(* them in descending order, from the end of the buffer to its start.      *)
(***************************************************************************)
EXTENDS Integers, Sequences, FiniteSets, SequencesExt

CONSTANTS
    MarshalOf,  \* type -> its fields as MarshalToSizedBuffer writes them
    SizeOf,     \* type -> its fields as Size counts them
    Group,      \* 2^7
    Groups,     \* bytes of the longest varint
    Word        \* 2^64

\* Faulty sov: a number that just fills its groups gets another one.
SovRoundsUp(x) == Cardinality({k \in 1..(Groups - 1) : x + 1 >= Group ^ k}) + 1

\* sovX: the bytes of a varint.
Sov(x) == Cardinality({k \in 1..(Groups - 1) : x >= Group ^ k}) + 1

\* encodeVarintX: low groups first, into the Sov(x) bytes reserved for them; a
\* group is followed by another, and says so, while the rest needs one.
EncodeVarint(x) ==
    [k \in 1..Sov(x) |->
        ((x \div (Group ^ (k - 1))) % Group) + (IF x >= Group ^ k THEN Group ELSE 0)]

Unsigned(x) == x % Word
Lengthed(tag, bytes) == EncodeVarint(tag) \o EncodeVarint(Len(bytes)) \o bytes
Held(msg, e) == IF e.name \in DOMAIN msg THEN msg[e.name] ELSE <<>>
Packed(xs) == FlattenSeq([i \in 1..Len(xs) |-> EncodeVarint(Unsigned(xs[i]))])

\* MarshalToSizedBuffer: a field at its zero value is left out, except an
\* embedded message, which is written even if it is empty.
RECURSIVE Encoded(_, _)
EncodedField(msg, e) ==
    IF e.form = "message" THEN Lengthed(e.tag, Encoded(e.of, Held(msg, e)))
    ELSE IF e.name \notin DOMAIN msg THEN <<>>
    ELSE CASE e.form = "bytes" -> Lengthed(e.tag, msg[e.name])
           [] e.form = "varint" -> EncodeVarint(e.tag) \o EncodeVarint(Unsigned(msg[e.name]))
           [] e.form = "bool" -> EncodeVarint(e.tag) \o <<1>>
           [] e.form = "packed" -> Lengthed(e.tag, Packed(msg[e.name]))
           [] e.form = "bytes list" ->
                  FlattenSeq([i \in DOMAIN msg[e.name] |-> Lengthed(e.tag, msg[e.name][i])])
           [] e.form = "message list" ->
                  FlattenSeq([i \in DOMAIN msg[e.name] |->
                                 Lengthed(e.tag, Encoded(e.of, msg[e.name][i]))])
Encoded(type, msg) ==
    FoldLeft(LAMBDA written, e : EncodedField(msg, e) \o written, <<>>, MarshalOf[type])

\* Size, field by field; here tag is the number of bytes the tag takes.
RECURSIVE Size(_, _)
SizeOfField(msg, e) ==
    LET sized(l) == e.tag + l + Sov(l)
        total(s) == FoldLeft(LAMBDA a, b : a + b, 0, s)
    IN  IF e.form = "message" THEN sized(Size(e.of, Held(msg, e)))
        ELSE IF e.name \notin DOMAIN msg THEN 0
        ELSE LET x == msg[e.name]
             IN  CASE e.form = "bytes" -> sized(Len(x))
                   [] e.form = "varint" -> e.tag + Sov(Unsigned(x))
                   [] e.form = "bool" -> e.tag + 1
                   [] e.form = "packed" ->
                          sized(total([i \in DOMAIN x |-> Sov(Unsigned(x[i]))]))
                   [] e.form = "bytes list" -> total([i \in DOMAIN x |-> sized(Len(x[i]))])
                   [] e.form = "message list" ->
                          total([i \in DOMAIN x |-> sized(Size(e.of, x[i]))])
Size(type, msg) == FoldLeft(LAMBDA n, e : n + SizeOfField(msg, e), 0, SizeOf[type])

\* Marshal: a buffer of Size bytes filled from its end, cut to what was written.
\* Into a buffer that is too small the last write panics: nothing is encoded.
Marshalled(type, msg) ==
    LET size == Size(type, msg)
        written == Encoded(type, msg)
    IN  IF size < Len(written) THEN <<>>
        ELSE SubSeq([i \in 1..(size - Len(written)) |-> 0] \o written, 1, Len(written))

=============================================================================
