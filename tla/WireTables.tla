----------------------------- MODULE WireTables -----------------------------
(***************************************************************************)
(* The vocabulary of the *Wire modules, which hold, message by message,    *)
(* what its generated Unmarshal, MarshalToSizedBuffer and Size methods do  *)
(* with each field.                                                        *)
(***************************************************************************)
EXTENDS Integers, Sequences

(* A case of the switch in Unmarshal. Text and Bytes differ in the Go type *)
(* only: both are copied byte for byte.                                    *)
Case(name, kind, many, of) == [name |-> name, kind |-> kind, many |-> many, of |-> of]
Text(name) == Case(name, "bytes", FALSE, <<>>)
Texts(name) == Case(name, "bytes", TRUE, <<>>)
Bytes(name) == Case(name, "bytes", FALSE, <<>>)
BytesList(name) == Case(name, "bytes", TRUE, <<>>)
Bool(name) == Case(name, "bool", FALSE, <<>>)
Int64(name) == Case(name, "int64", FALSE, <<>>)
Uint64(name) == Case(name, "uint64", FALSE, <<>>)
Uint64s(name) == Case(name, "uint64", TRUE, <<>>)
Uint32(name) == Case(name, "uint32", FALSE, <<>>)
Uint32s(name) == Case(name, "uint32", TRUE, <<>>)
Enum(name) == Case(name, "enum", FALSE, <<>>)
Message(name, of) == Case(name, "message", FALSE, of)
Messages(name, of) == Case(name, "message", TRUE, of)

(* A field in MarshalToSizedBuffer, with the tag its literal bytes spell   *)
(* as a varint, or in Size, with the bytes of the tag.                     *)
Written(name, form, tag, of) == [name |-> name, form |-> form, tag |-> tag, of |-> of]
Slice(name, tag) == Written(name, "bytes", tag, <<>>)
Slices(name, tag) == Written(name, "bytes list", tag, <<>>)
Varint(name, tag) == Written(name, "varint", tag, <<>>)
Varints(name, tag) == Written(name, "packed", tag, <<>>)
Flag(name, tag) == Written(name, "bool", tag, <<>>)
Nested(name, tag, of) == Written(name, "message", tag, of)
NestedAll(name, tag, of) == Written(name, "message list", tag, of)

=============================================================================
