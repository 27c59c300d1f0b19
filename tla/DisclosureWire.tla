--------------------------- MODULE DisclosureWire ---------------------------
(* The generated codec of x/disclosure, message by message: see WireTables. *)
EXTENDS WireTables, TLC

-----------------------------------------------------------------------------
(* disclosure.pb.go *)

Params_Unmarshal == <<Uint32("MaxProofSizeBytes")>>
Params_Marshal == <<Varint("MaxProofSizeBytes", \h08)>>
Params_Size == <<Varint("MaxProofSizeBytes", 1)>>

-----------------------------------------------------------------------------
(* genesis.pb.go *)

GenesisState_Unmarshal == <<Message("Params", <<"disclosure", "Params">>)>>
GenesisState_Marshal == <<Nested("Params", \h0a, <<"disclosure", "Params">>)>>
GenesisState_Size == <<Nested("Params", 1, <<"disclosure", "Params">>)>>

-----------------------------------------------------------------------------
(* query.pb.go *)

QueryParamsRequest_Unmarshal == <<>>
QueryParamsRequest_Marshal == <<>>
QueryParamsRequest_Size == <<>>

QueryParamsResponse_Unmarshal == <<Message("Params", <<"disclosure", "Params">>)>>
QueryParamsResponse_Marshal == <<Nested("Params", \h0a, <<"disclosure", "Params">>)>>
QueryParamsResponse_Size == <<Nested("Params", 1, <<"disclosure", "Params">>)>>

QueryVerifyDisclosureRequest_Unmarshal ==
    <<Bytes("CredentialHash"), Bytes("Proof"), Bytes("Nonce"), Bytes("DisclosurePolicyHash")>>
QueryVerifyDisclosureRequest_Marshal ==
    <<Slice("DisclosurePolicyHash", \h22), Slice("Nonce", \h1a), Slice("Proof", \h12),
      Slice("CredentialHash", \h0a)>>
QueryVerifyDisclosureRequest_Size ==
    <<Slice("CredentialHash", 1), Slice("Proof", 1), Slice("Nonce", 1),
      Slice("DisclosurePolicyHash", 1)>>

QueryVerifyDisclosureResponse_Unmarshal ==
    <<Bool("Valid"), Text("Reason"), Text("IssuerDid"), Text("TemplateId"), Enum("Level"),
      Uint32s("RevealedIndices"), Bytes("DisclosurePolicyHash")>>
QueryVerifyDisclosureResponse_Marshal ==
    <<Slice("DisclosurePolicyHash", \h3a), Varints("RevealedIndices", \h32),
      Varint("Level", \h28), Slice("TemplateId", \h22), Slice("IssuerDid", \h1a),
      Slice("Reason", \h12), Flag("Valid", \h08)>>
QueryVerifyDisclosureResponse_Size ==
    <<Flag("Valid", 1), Slice("Reason", 1), Slice("IssuerDid", 1), Slice("TemplateId", 1),
      Varint("Level", 1), Varints("RevealedIndices", 1), Slice("DisclosurePolicyHash", 1)>>

-----------------------------------------------------------------------------
(* tx.pb.go *)

MsgUpdateParams_Unmarshal ==
    <<Text("Authority"), Message("Params", <<"disclosure", "Params">>)>>
MsgUpdateParams_Marshal ==
    <<Nested("Params", \h12, <<"disclosure", "Params">>), Slice("Authority", \h0a)>>
MsgUpdateParams_Size ==
    <<Slice("Authority", 1), Nested("Params", 1, <<"disclosure", "Params">>)>>

MsgUpdateParamsResponse_Unmarshal == <<>>
MsgUpdateParamsResponse_Marshal == <<>>
MsgUpdateParamsResponse_Size == <<>>

-----------------------------------------------------------------------------
(* The messages of the module, by type. *)

DisclosureCases ==
    [Params |-> Params_Unmarshal,
     GenesisState |-> GenesisState_Unmarshal,
     QueryParamsRequest |-> QueryParamsRequest_Unmarshal,
     QueryParamsResponse |-> QueryParamsResponse_Unmarshal,
     QueryVerifyDisclosureRequest |-> QueryVerifyDisclosureRequest_Unmarshal,
     QueryVerifyDisclosureResponse |-> QueryVerifyDisclosureResponse_Unmarshal,
     MsgUpdateParams |-> MsgUpdateParams_Unmarshal,
     MsgUpdateParamsResponse |-> MsgUpdateParamsResponse_Unmarshal]

DisclosureMarshals ==
    [Params |-> Params_Marshal,
     GenesisState |-> GenesisState_Marshal,
     QueryParamsRequest |-> QueryParamsRequest_Marshal,
     QueryParamsResponse |-> QueryParamsResponse_Marshal,
     QueryVerifyDisclosureRequest |-> QueryVerifyDisclosureRequest_Marshal,
     QueryVerifyDisclosureResponse |-> QueryVerifyDisclosureResponse_Marshal,
     MsgUpdateParams |-> MsgUpdateParams_Marshal,
     MsgUpdateParamsResponse |-> MsgUpdateParamsResponse_Marshal]

DisclosureSizes ==
    [Params |-> Params_Size,
     GenesisState |-> GenesisState_Size,
     QueryParamsRequest |-> QueryParamsRequest_Size,
     QueryParamsResponse |-> QueryParamsResponse_Size,
     QueryVerifyDisclosureRequest |-> QueryVerifyDisclosureRequest_Size,
     QueryVerifyDisclosureResponse |-> QueryVerifyDisclosureResponse_Size,
     MsgUpdateParams |-> MsgUpdateParams_Size,
     MsgUpdateParamsResponse |-> MsgUpdateParamsResponse_Size]

=============================================================================
