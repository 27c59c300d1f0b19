------------------------------ MODULE Unmarshal ------------------------------
(***************************************************************************)
(* The generated Unmarshal methods of the *.pb.go files: one loop over a   *)
(* byte slice, with a switch on the field number that differs from message *)
(* to message only in its table of fields. A step is one iteration of the  *)
(* loop; the recursive call on an embedded message is a frame on a stack.  *)
(*                                                                         *)
(* Positions count bytes from 0, as iNdEx does. Every error return leaves  *)
(* the caller with an error and nothing else, so all of them are one mode. *)
(***************************************************************************)
EXTENDS Integers, Sequences

CONSTANTS
    Types,      \* message types
    FieldsOf,   \* type -> field number -> field: the cases of its switch
    Group,      \* 2^7: what a byte of a varint carries
    Word,       \* 2^64: uint64, and int read as two's complement
    Narrow,     \* 2^32: uint32, and enums as int32
    Groups,     \* bytes of the longest varint: shift < 64 in steps of 7
    Inputs(_)   \* type -> calls: bytes, the message behind them, "sound", "broken" or "cut"

\* A varint covers a word with its last group and not before; a slice is
\* indexed by int.
ASSUME WireAssumption ==
    /\ Group \in Nat \ {0, 1} /\ Word \in Nat \ {0} /\ Narrow \in Nat \ {0} /\ Groups \in Nat \ {0}
    /\ \A t \in Types : \A x \in Inputs(t) :
           x.type = t /\ x.buf \in Seq(Nat) /\ 2 * Len(x.buf) < Word

VARIABLES
    input,   \* the call: message type, dAtA, and what was encoded
    pos,     \* iNdEx, from the start of the outermost slice
    frames,  \* calls of Unmarshal: type, end of the slice, field of the caller, message so far
    mode,    \* "field", "skip" (in skipX), "packed", "done" or "failed"
    depth,   \* open groups, in skipX
    limit    \* postIndex and field of a packed block
wireVars == <<input, pos, frames, mode, depth, limit>>

buf == input.buf
Frame == frames[Len(frames)]
End == Frame.end
Past == End + 1   \* where a read that cannot be completed leads

-----------------------------------------------------------------------------
(* Varints *)

\* The bytes up to the first without the continuation bit, if the slice and
\* the word hold that many.
Terminal(i) ==
    {k \in 0..(Groups - 1) :
        /\ i + k < End /\ buf[i + k + 1] < Group
        /\ \A j \in 0..(k - 1) : buf[i + j + 1] >= Group}

\* The position after the varint at i; Past for ErrIntOverflow and
\* ErrUnexpectedEOF.
After(i) == IF Terminal(i) = {} THEN Past ELSE i + (CHOOSE k \in Terminal(i) : TRUE) + 1

\* Its value: groups from the low end, what is shifted out of the word lost.
Value(i) ==
    LET acc[j \in 0..Groups] ==
            IF j = 0 THEN 0 ELSE acc[j - 1] + (buf[i + j] % Group) * Group ^ (j - 1)
    IN  acc[After(i) - i] % Word

ToSigned(v, width) == IF 2 * v < width THEN v ELSE v - width

\* postIndex of the length at i: Past if the length is negative as an int,
\* if adding it overflows, or if it reaches beyond the slice.
PostIndex(i) ==
    IF After(i) = Past \/ Value(i) \notin 0..(End - After(i)) THEN Past ELSE After(i) + Value(i)

-----------------------------------------------------------------------------
(* The field at iNdEx *)

Next1 == After(pos)
Tag == Value(pos)
FieldNum == ToSigned((Tag \div 8) % Narrow, Narrow)
WireType == Tag % 8
Known == FieldNum \in DOMAIN FieldsOf[Frame.type]
Field == FieldsOf[Frame.type][FieldNum]

\* What an integer field makes of the bits of a varint.
Converted(kind, v) ==
    IF kind = "bool" THEN v # 0
    ELSE IF kind = "uint32" THEN v % Narrow
    ELSE IF kind = "enum" THEN ToSigned(v % Narrow, Narrow)
    ELSE IF kind = "int64" THEN ToSigned(v, Word)
    ELSE v

\* A message as the fields that do not hold their zero value.
Zero(f) ==
    IF f.many \/ f.kind \in {"bytes", "message"} THEN <<>> ELSE IF f.kind = "bool" THEN FALSE ELSE 0
Get(msg, f) == IF f.name \in DOMAIN msg THEN msg[f.name] ELSE Zero(f)
Set(msg, f, x) ==
    IF x = Zero(f) THEN [n \in DOMAIN msg \ {f.name} |-> msg[n]]
    ELSE [n \in DOMAIN msg \cup {f.name} |-> IF n = f.name THEN x ELSE msg[n]]

\* A repeated field grows, any other is overwritten.
Put(msg, f, x) == Set(msg, f, IF f.many THEN Append(Get(msg, f), x) ELSE x)

Rest == SubSeq(frames, 1, Len(frames) - 1)
WithMessage(fr, msg) == [type |-> fr.type, end |-> fr.end, field |-> fr.field, msg |-> msg]
Stored(f, x) == Append(Rest, WithMessage(Frame, Put(Frame.msg, f, x)))
IsVarint(f) == f.kind \notin {"bytes", "message"}

-----------------------------------------------------------------------------
(* Steps *)

\* The head of an iteration: a tag that can be read, of a field that may stand
\* in a message.
AtField == mode = "field" /\ pos < End
LegalTag == Next1 <= End /\ WireType # 4 /\ FieldNum > 0

\* case n of an integer field: one varint, in a repeated field one element.
ReadVarint ==
    /\ AtField /\ LegalTag /\ Known /\ IsVarint(Field)
    /\ WireType = 0 /\ After(Next1) <= End
    /\ frames' = Stored(Field, Converted(Field.kind, Value(Next1)))
    /\ pos' = After(Next1)
    /\ UNCHANGED <<input, mode, depth, limit>>

\* case n of a string or bytes field: a length and that many bytes, copied.
ReadBytes ==
    /\ AtField /\ LegalTag /\ Known /\ Field.kind = "bytes"
    /\ WireType = 2 /\ PostIndex(Next1) <= End
    /\ frames' = Stored(Field, SubSeq(buf, After(Next1) + 1, PostIndex(Next1)))
    /\ pos' = PostIndex(Next1)
    /\ UNCHANGED <<input, mode, depth, limit>>

\* case n of an embedded message: Unmarshal is called on the bytes of the
\* message, into the one already there or, in a repeated field, a new one.
EnterMessage ==
    /\ AtField /\ LegalTag /\ Known /\ Field.kind = "message"
    /\ WireType = 2 /\ PostIndex(Next1) <= End
    /\ frames' = Append(frames, [type |-> Field.of, end |-> PostIndex(Next1), field |-> Field,
                                 msg |-> IF Field.many THEN <<>> ELSE Get(Frame.msg, Field)])
    /\ pos' = After(Next1)
    /\ UNCHANGED <<input, mode, depth, limit>>

\* case n of a repeated integer field: a block of varints.
EnterPacked ==
    /\ AtField /\ LegalTag /\ Known /\ IsVarint(Field) /\ Field.many
    /\ WireType = 2 /\ PostIndex(Next1) <= End
    /\ mode' = "packed"
    /\ limit' = [end |-> PostIndex(Next1), field |-> Field]
    /\ pos' = After(Next1)
    /\ UNCHANGED <<input, frames, depth>>

\* One element of the block: bounded by the slice, not by the block.
PackedElement ==
    /\ mode = "packed" /\ pos < limit.end /\ Next1 <= End
    /\ frames' = Stored(limit.field, Converted(limit.field.kind, Tag))
    /\ pos' = Next1
    /\ UNCHANGED <<input, mode, depth, limit>>

PackedEnd ==
    /\ mode = "packed" /\ pos >= limit.end
    /\ mode' = "field"
    /\ UNCHANGED <<input, pos, frames, depth, limit>>

\* default: skipX from the tag on.
EnterSkip ==
    /\ AtField /\ LegalTag /\ ~Known
    /\ mode' = "skip" /\ depth' = 0
    /\ UNCHANGED <<input, pos, frames, limit>>

\* Where an element of each wire type ends in skipX, and how many groups are
\* open after it.
SkipTargets ==
    {<<0, After(Next1), depth>>, <<1, Next1 + 8, depth>>, <<2, PostIndex(Next1), depth>>,
     <<3, Next1, depth + 1>>, <<4, Next1, depth - 1>>, <<5, Next1 + 4, depth>>}
SkipTo ==
    IF pos >= End \/ Next1 > End THEN {}
    ELSE {t \in SkipTargets : t[1] = WireType /\ t[2] <= End /\ t[3] >= 0}

\* Faulty SkipElement: Unmarshal does not move on by what skipX returns.
SkipNothing ==
    /\ mode = "skip"
    /\ SkipTo # {}
    /\ mode' = "field" /\ depth' = 0
    /\ UNCHANGED <<input, pos, frames, limit>>

\* skipX: one element; it returns when no group is open.
SkipElement ==
    /\ mode = "skip"
    /\ \E t \in SkipTo :
           /\ pos' = t[2] /\ depth' = t[3]
           /\ mode' = IF t[3] = 0 THEN "field" ELSE "skip"
    /\ UNCHANGED <<input, frames, limit>>

\* The loop is over: the message is complete, and the caller's too if there
\* is none.
Return ==
    /\ mode = "field" /\ pos >= End
    /\ IF Len(frames) = 1 THEN mode' = "done" /\ UNCHANGED frames
       ELSE LET caller == Rest[Len(Rest)]
            IN  /\ frames' = Append(SubSeq(Rest, 1, Len(Rest) - 1),
                                    WithMessage(caller, Put(caller.msg, Frame.field, Frame.msg)))
                /\ UNCHANGED mode
    /\ UNCHANGED <<input, pos, depth, limit>>

\* The error returns: a tag or a value that cannot be read, an end group, a
\* field number that is not positive, a wire type that is not the field's.
WrongWireType ==
    \/ WireType = 0 /\ ~IsVarint(Field)
    \/ WireType = 2 /\ IsVarint(Field) /\ ~Field.many
    \/ WireType \notin {0, 2}
BadField ==
    \/ ~LegalTag
    \/ /\ LegalTag /\ Known
       /\ \/ WrongWireType
          \/ WireType = 0 /\ After(Next1) > End
          \/ WireType = 2 /\ PostIndex(Next1) > End
Fail ==
    /\ \/ AtField /\ BadField
       \/ mode = "packed" /\ pos < limit.end /\ Next1 > End
       \/ mode = "skip" /\ SkipTo = {}
    /\ mode' = "failed"
    /\ UNCHANGED <<input, pos, frames, depth, limit>>

NoField == [name |-> "", kind |-> "", many |-> FALSE, of |-> <<>>]
WireInit ==
    /\ \E t \in Types : input \in Inputs(t)
    /\ pos = 0 /\ mode = "field" /\ depth = 0
    /\ frames = <<[type |-> input.type, end |-> Len(input.buf), field |-> NoField, msg |-> <<>>]>>
    /\ limit = [end |-> 0, field |-> NoField]

WireNext ==
    \/ ReadVarint \/ ReadBytes \/ EnterMessage \/ EnterPacked \/ PackedElement \/ PackedEnd
    \/ EnterSkip \/ SkipElement \/ Return \/ Fail

\* Unmarshal is a sequential function: nothing keeps it from its next step.
WireSpec == WireInit /\ [][WireNext]_wireVars /\ WF_wireVars(WireNext)

-----------------------------------------------------------------------------
(* Properties *)

\* Every index the loop reads at lies in the slice of the call it is in, and
\* the slices of nested calls lie in one another: no input makes a generated
\* Unmarshal read out of range.
ReadsInBounds ==
    /\ pos \in Nat
    /\ \A i \in 1..Len(frames) :
           /\ pos <= frames[i].end /\ frames[i].end <= Len(buf)
           /\ \A j \in 1..i : frames[i].end <= frames[j].end

\* Every encoding a Marshal method produces, and every such encoding with
\* fields of a later version in front of it, is decoded without error into the
\* message it was made from; with something in front that is no field at all it
\* is refused.
RoundTrip ==
    /\ input.form = "sound" =>
           mode # "failed" /\ (mode = "done" => frames[1].msg = input.msg)
    /\ input.form = "broken" => mode # "done"

\* Unmarshal returns on every input, well formed or not.
Terminates == <>(mode \in {"done", "failed"})

=============================================================================
