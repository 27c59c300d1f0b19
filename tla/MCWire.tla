------------------------------- MODULE MCWire -------------------------------
(***************************************************************************)
(* The generated codec of all 188 messages: every message is marshalled in *)
(* a number of samples and the bytes, whole, extended, damaged or cut off, *)
(* are handed to Unmarshal.                                                *)
(***************************************************************************)
EXTENDS Unmarshal, FiniteSets

CONSTANTS Damaged   \* modules whose messages are also cut off at every byte

Coin == INSTANCE CoinWire
Credentials == INSTANCE CredentialsWire
Disclosure == INSTANCE DisclosureWire
Governance == INSTANCE GovernanceWire
Identity == INSTANCE IdentityWire
Institutions == INSTANCE InstitutionsWire
Voting == INSTANCE VotingWire

Cases ==
    [coin |-> Coin!CoinCases, credentials |-> Credentials!CredentialsCases,
     disclosure |-> Disclosure!DisclosureCases, governance |-> Governance!GovernanceCases,
     identity |-> Identity!IdentityCases, institutions |-> Institutions!InstitutionsCases,
     voting |-> Voting!VotingCases]
Marshals ==
    [coin |-> Coin!CoinMarshals, credentials |-> Credentials!CredentialsMarshals,
     disclosure |-> Disclosure!DisclosureMarshals, governance |-> Governance!GovernanceMarshals,
     identity |-> Identity!IdentityMarshals, institutions |-> Institutions!InstitutionsMarshals,
     voting |-> Voting!VotingMarshals]
Sizes ==
    [coin |-> Coin!CoinSizes, credentials |-> Credentials!CredentialsSizes,
     disclosure |-> Disclosure!DisclosureSizes, governance |-> Governance!GovernanceSizes,
     identity |-> Identity!IdentitySizes, institutions |-> Institutions!InstitutionsSizes,
     voting |-> Voting!VotingSizes]

AllTypes == UNION {{<<m, t>> : t \in DOMAIN Cases[m]} : m \in DOMAIN Cases}
AllFields == [t \in AllTypes |-> Cases[t[1]][t[2]]]
AllMarshals == [t \in AllTypes |-> Marshals[t[1]][t[2]]]
AllSizes == [t \in AllTypes |-> Sizes[t[1]][t[2]]]
Enc == INSTANCE Marshal WITH MarshalOf <- AllMarshals, SizeOf <- AllSizes

-----------------------------------------------------------------------------
(* Samples: a message with the fields ns set, each to a small value or to one *)
(* at the edge of its type; a repeated field gets one element or two.         *)

Fields(t) == AllFields[t]
Small == [bytes |-> <<7>>, bool |-> TRUE, int64 |-> 1, uint64 |-> 1, uint32 |-> 1, enum |-> 1]
Edge ==
    [bytes |-> [i \in 1..Group |-> i - 1], bool |-> TRUE, int64 |-> -1,
     uint64 |-> Word - 1, uint32 |-> Narrow - 1, enum |-> -1]
Full == [Small EXCEPT !.bytes = [i \in 1..(Group - 1) |-> 0], !.uint64 = Group, !.uint32 = Group - 1]

RECURSIVE Sample(_, _, _)
Element(f, of) == IF f.kind = "message" THEN Sample(f.of, DOMAIN Fields(f.of), Small) ELSE of[f.kind]
Sample(t, ns, of) ==
    LET f(name) == CHOOSE f \in {Fields(t)[n] : n \in ns} : f.name = name
        value(f0) == IF ~f0.many THEN Element(f0, of)
                     ELSE IF of = Small THEN <<Element(f0, of)>>
                     ELSE <<Element(f0, Small), Element(f0, of)>>
        \* an embedded message without fields is its zero value
        names == {Fields(t)[n].name : n \in {k \in ns : Fields(t)[k].kind = "message" =>
                                                           value(Fields(t)[k]) # <<>>}}
    IN  [name \in names |-> value(f(name))]

Samples(t) ==
    {Sample(t, DOMAIN Fields(t), of) : of \in {Small, Edge, Full}}
        \cup {Sample(t, {n}, Small) : n \in DOMAIN Fields(t)} \cup {<<>>}
Whole(t) == Sample(t, DOMAIN Fields(t), Small)

-----------------------------------------------------------------------------
(* What else arrives on the wire *)

TagOf(n, wire) == Enc!EncodeVarint(8 * n + wire)
Later == 100   \* a field number no message has yet

\* A field of a later version, of every wire type; groups nest.
Unknown ==
    LET zeros(n) == [i \in 1..n |-> 0]
        group(x) == TagOf(Later, 3) \o x \o TagOf(Later, 4)
    IN  {TagOf(Later, 0) \o Enc!EncodeVarint(Word - 1), TagOf(Later, 1) \o zeros(8),
         TagOf(Later, 2) \o <<2, 9, 9>>, TagOf(Later, 5) \o zeros(4),
         group(TagOf(1, 0) \o <<5>> \o group(<<>>) \o TagOf(1, 2) \o <<1, 1>>)}

\* No field: a tag beyond a word, an end without a group, field number 0, wire
\* types that do not exist, a group without an end, lengths that are negative
\* or lead out of the slice.
Broken ==
    {[i \in 1..Groups |-> Group] \o <<1>>, TagOf(Later, 4), TagOf(0, 0) \o <<0>>,
     TagOf(Later, 6), TagOf(Later, 7), TagOf(Later, 3),
     TagOf(Later, 2) \o Enc!EncodeVarint(Word - 1), TagOf(Later, 2) \o Enc!EncodeVarint(Group * Group)}
WrongType(t) == {TagOf(n, w) \o <<0>> : n \in DOMAIN Fields(t), w \in {1, 5}}

\* Repeated integers may also come one by one, or end in a broken varint.
PackedFields(t) == {n \in DOMAIN Fields(t) : Fields(t)[n].many /\ IsVarint(Fields(t)[n])}
Unpacked(t) ==
    {[type |-> t, buf |-> TagOf(n, 0) \o <<3>> \o TagOf(n, 0) \o <<4>>,
      msg |-> [name \in {Fields(t)[n].name} |-> <<3, 4>>], form |-> "sound"] : n \in PackedFields(t)}
BrokenPack(t) ==
    {[type |-> t, buf |-> TagOf(n, 2) \o <<1, Group>>, msg |-> <<>>, form |-> "broken"] :
        n \in PackedFields(t)}

InputsOf(t) ==
    LET whole == Whole(t)
        bytes == Enc!Marshalled(t, whole)
        call(b, form) == [type |-> t, buf |-> b, msg |-> whole, form |-> form]
    IN  {[type |-> t, buf |-> Enc!Marshalled(t, m), msg |-> m, form |-> "sound"] : m \in Samples(t)}
            \cup {call(u \o bytes, "sound") : u \in Unknown}
            \cup {call(b \o bytes, "broken") : b \in Broken}
            \cup {call(b, "broken") : b \in WrongType(t)}
            \cup Unpacked(t) \cup BrokenPack(t)
            \cup (IF t[1] \in Damaged
                  THEN {call(SubSeq(bytes, 1, n), "cut") : n \in 0..(Len(bytes) - 1)} ELSE {})

=============================================================================
