-------------------------- MODULE CredentialsWire ---------------------------
(* The generated codec of x/credentials, message by message: see WireTables. *)
EXTENDS WireTables, TLC

-----------------------------------------------------------------------------
(* credentials.pb.go *)

CredentialTemplate_Unmarshal ==
    <<Text("Id"), Uint32("Version"), Text("OwnerDid"), Bytes("SchemaHash"), Text("Name"),
      Enum("Status"), Int64("CreatedAt"), Int64("UpdatedAt"), Bytes("IssuerBbsPubkey"),
      Uint32("MessageCount"), Uint32s("DisclosableIndices"), Bytes("DisclosurePolicyHash")>>
CredentialTemplate_Marshal ==
    <<Slice("DisclosurePolicyHash", \h62), Varints("DisclosableIndices", \h5a),
      Varint("MessageCount", \h50), Slice("IssuerBbsPubkey", \h4a), Varint("UpdatedAt", \h40),
      Varint("CreatedAt", \h38), Varint("Status", \h30), Slice("Name", \h2a),
      Slice("SchemaHash", \h22), Slice("OwnerDid", \h1a), Varint("Version", \h10),
      Slice("Id", \h0a)>>
CredentialTemplate_Size ==
    <<Slice("Id", 1), Varint("Version", 1), Slice("OwnerDid", 1), Slice("SchemaHash", 1),
      Slice("Name", 1), Varint("Status", 1), Varint("CreatedAt", 1), Varint("UpdatedAt", 1),
      Slice("IssuerBbsPubkey", 1), Varint("MessageCount", 1), Varints("DisclosableIndices", 1),
      Slice("DisclosurePolicyHash", 1)>>

CredentialAnchor_Unmarshal ==
    <<Bytes("CredentialHash"), Text("TemplateId"), Uint32("TemplateVersion"), Text("IssuerDid"),
      Text("SubjectDid"), Int64("IssuedAt"), Enum("Status")>>
CredentialAnchor_Marshal ==
    <<Varint("Status", \h38), Varint("IssuedAt", \h30), Slice("SubjectDid", \h2a),
      Slice("IssuerDid", \h22), Varint("TemplateVersion", \h18), Slice("TemplateId", \h12),
      Slice("CredentialHash", \h0a)>>
CredentialAnchor_Size ==
    <<Slice("CredentialHash", 1), Slice("TemplateId", 1), Varint("TemplateVersion", 1),
      Slice("IssuerDid", 1), Slice("SubjectDid", 1), Varint("IssuedAt", 1),
      Varint("Status", 1)>>

AgreementSignature_Unmarshal == <<Text("SignerDid"), Int64("SignedAt")>>
AgreementSignature_Marshal == <<Varint("SignedAt", \h10), Slice("SignerDid", \h0a)>>
AgreementSignature_Size == <<Slice("SignerDid", 1), Varint("SignedAt", 1)>>

Agreement_Unmarshal ==
    <<Bytes("Hash"), Text("Creator"), Texts("RequiredSigners"),
      Messages("Signatures", <<"credentials", "AgreementSignature">>), Int64("Deadline"),
      Enum("Status"), Int64("CreatedAt")>>
Agreement_Marshal ==
    <<Varint("CreatedAt", \h38), Varint("Status", \h30), Varint("Deadline", \h28),
      NestedAll("Signatures", \h22, <<"credentials", "AgreementSignature">>),
      Slices("RequiredSigners", \h1a), Slice("Creator", \h12), Slice("Hash", \h0a)>>
Agreement_Size ==
    <<Slice("Hash", 1), Slice("Creator", 1), Slices("RequiredSigners", 1),
      NestedAll("Signatures", 1, <<"credentials", "AgreementSignature">>),
      Varint("Deadline", 1), Varint("Status", 1), Varint("CreatedAt", 1)>>

PersonalAnchor_Unmarshal == <<Text("OwnerDid"), Bytes("AnchorHash"), Int64("AnchoredAt")>>
PersonalAnchor_Marshal ==
    <<Varint("AnchoredAt", \h18), Slice("AnchorHash", \h12), Slice("OwnerDid", \h0a)>>
PersonalAnchor_Size == <<Slice("OwnerDid", 1), Slice("AnchorHash", 1), Varint("AnchoredAt", 1)>>

Params_Unmarshal == <<Uint32("MaxAgreementSigners")>>
Params_Marshal == <<Varint("MaxAgreementSigners", \h08)>>
Params_Size == <<Varint("MaxAgreementSigners", 1)>>

-----------------------------------------------------------------------------
(* genesis.pb.go *)

GenesisState_Unmarshal ==
    <<Message("Params", <<"credentials", "Params">>),
      Messages("Templates", <<"credentials", "CredentialTemplate">>),
      Messages("Anchors", <<"credentials", "CredentialAnchor">>),
      Messages("Agreements", <<"credentials", "Agreement">>),
      Messages("PersonalAnchors", <<"credentials", "PersonalAnchor">>)>>
GenesisState_Marshal ==
    <<NestedAll("PersonalAnchors", \h2a, <<"credentials", "PersonalAnchor">>),
      NestedAll("Agreements", \h22, <<"credentials", "Agreement">>),
      NestedAll("Anchors", \h1a, <<"credentials", "CredentialAnchor">>),
      NestedAll("Templates", \h12, <<"credentials", "CredentialTemplate">>),
      Nested("Params", \h0a, <<"credentials", "Params">>)>>
GenesisState_Size ==
    <<Nested("Params", 1, <<"credentials", "Params">>),
      NestedAll("Templates", 1, <<"credentials", "CredentialTemplate">>),
      NestedAll("Anchors", 1, <<"credentials", "CredentialAnchor">>),
      NestedAll("Agreements", 1, <<"credentials", "Agreement">>),
      NestedAll("PersonalAnchors", 1, <<"credentials", "PersonalAnchor">>)>>

-----------------------------------------------------------------------------
(* query.pb.go *)

QueryParamsRequest_Unmarshal == <<>>
QueryParamsRequest_Marshal == <<>>
QueryParamsRequest_Size == <<>>

QueryParamsResponse_Unmarshal == <<Message("Params", <<"credentials", "Params">>)>>
QueryParamsResponse_Marshal == <<Nested("Params", \h0a, <<"credentials", "Params">>)>>
QueryParamsResponse_Size == <<Nested("Params", 1, <<"credentials", "Params">>)>>

QueryTemplateRequest_Unmarshal == <<Text("Id")>>
QueryTemplateRequest_Marshal == <<Slice("Id", \h0a)>>
QueryTemplateRequest_Size == <<Slice("Id", 1)>>

QueryTemplateResponse_Unmarshal ==
    <<Message("Template", <<"credentials", "CredentialTemplate">>)>>
QueryTemplateResponse_Marshal ==
    <<Nested("Template", \h0a, <<"credentials", "CredentialTemplate">>)>>
QueryTemplateResponse_Size == <<Nested("Template", 1, <<"credentials", "CredentialTemplate">>)>>

QueryCredentialRequest_Unmarshal == <<Text("CredentialHashHex")>>
QueryCredentialRequest_Marshal == <<Slice("CredentialHashHex", \h0a)>>
QueryCredentialRequest_Size == <<Slice("CredentialHashHex", 1)>>

QueryCredentialResponse_Unmarshal ==
    <<Message("Anchor", <<"credentials", "CredentialAnchor">>)>>
QueryCredentialResponse_Marshal ==
    <<Nested("Anchor", \h0a, <<"credentials", "CredentialAnchor">>)>>
QueryCredentialResponse_Size == <<Nested("Anchor", 1, <<"credentials", "CredentialAnchor">>)>>

QueryAgreementRequest_Unmarshal == <<Text("HashHex")>>
QueryAgreementRequest_Marshal == <<Slice("HashHex", \h0a)>>
QueryAgreementRequest_Size == <<Slice("HashHex", 1)>>

QueryAgreementResponse_Unmarshal == <<Message("Agreement", <<"credentials", "Agreement">>)>>
QueryAgreementResponse_Marshal == <<Nested("Agreement", \h0a, <<"credentials", "Agreement">>)>>
QueryAgreementResponse_Size == <<Nested("Agreement", 1, <<"credentials", "Agreement">>)>>

QueryPersonalAnchorRequest_Unmarshal == <<Text("OwnerDid"), Text("AnchorHashHex")>>
QueryPersonalAnchorRequest_Marshal == <<Slice("AnchorHashHex", \h12), Slice("OwnerDid", \h0a)>>
QueryPersonalAnchorRequest_Size == <<Slice("OwnerDid", 1), Slice("AnchorHashHex", 1)>>

QueryPersonalAnchorResponse_Unmarshal ==
    <<Message("Anchor", <<"credentials", "PersonalAnchor">>)>>
QueryPersonalAnchorResponse_Marshal ==
    <<Nested("Anchor", \h0a, <<"credentials", "PersonalAnchor">>)>>
QueryPersonalAnchorResponse_Size == <<Nested("Anchor", 1, <<"credentials", "PersonalAnchor">>)>>

-----------------------------------------------------------------------------
(* tx.pb.go *)

MsgRegisterCredentialTemplate_Unmarshal ==
    <<Text("Creator"), Text("Id"), Text("OwnerDid"), Bytes("SchemaHash"), Text("Name"),
      Bytes("IssuerBbsPubkey"), Uint32("MessageCount"), Uint32s("DisclosableIndices")>>
MsgRegisterCredentialTemplate_Marshal ==
    <<Varints("DisclosableIndices", \h42), Varint("MessageCount", \h38),
      Slice("IssuerBbsPubkey", \h32), Slice("Name", \h2a), Slice("SchemaHash", \h22),
      Slice("OwnerDid", \h1a), Slice("Id", \h12), Slice("Creator", \h0a)>>
MsgRegisterCredentialTemplate_Size ==
    <<Slice("Creator", 1), Slice("Id", 1), Slice("OwnerDid", 1), Slice("SchemaHash", 1),
      Slice("Name", 1), Slice("IssuerBbsPubkey", 1), Varint("MessageCount", 1),
      Varints("DisclosableIndices", 1)>>

MsgRegisterCredentialTemplateResponse_Unmarshal == <<Bytes("DisclosurePolicyHash")>>
MsgRegisterCredentialTemplateResponse_Marshal == <<Slice("DisclosurePolicyHash", \h0a)>>
MsgRegisterCredentialTemplateResponse_Size == <<Slice("DisclosurePolicyHash", 1)>>

MsgUpdateCredentialTemplate_Unmarshal ==
    <<Text("Creator"), Text("Id"), Bytes("SchemaHash"), Text("Name"), Uint32("MessageCount"),
      Uint32s("DisclosableIndices")>>
MsgUpdateCredentialTemplate_Marshal ==
    <<Varints("DisclosableIndices", \h32), Varint("MessageCount", \h28), Slice("Name", \h22),
      Slice("SchemaHash", \h1a), Slice("Id", \h12), Slice("Creator", \h0a)>>
MsgUpdateCredentialTemplate_Size ==
    <<Slice("Creator", 1), Slice("Id", 1), Slice("SchemaHash", 1), Slice("Name", 1),
      Varint("MessageCount", 1), Varints("DisclosableIndices", 1)>>

MsgUpdateCredentialTemplateResponse_Unmarshal ==
    <<Uint32("Version"), Bytes("DisclosurePolicyHash")>>
MsgUpdateCredentialTemplateResponse_Marshal ==
    <<Slice("DisclosurePolicyHash", \h12), Varint("Version", \h08)>>
MsgUpdateCredentialTemplateResponse_Size ==
    <<Varint("Version", 1), Slice("DisclosurePolicyHash", 1)>>

MsgDeprecateCredentialTemplate_Unmarshal == <<Text("Creator"), Text("Id")>>
MsgDeprecateCredentialTemplate_Marshal == <<Slice("Id", \h12), Slice("Creator", \h0a)>>
MsgDeprecateCredentialTemplate_Size == <<Slice("Creator", 1), Slice("Id", 1)>>

MsgDeprecateCredentialTemplateResponse_Unmarshal == <<>>
MsgDeprecateCredentialTemplateResponse_Marshal == <<>>
MsgDeprecateCredentialTemplateResponse_Size == <<>>

MsgAnchorCredential_Unmarshal ==
    <<Text("Issuer"), Text("IssuerDid"), Text("SubjectDid"), Text("TemplateId"),
      Uint32("TemplateVersion"), Bytes("CredentialHash"), Bytes("IssuerSig")>>
MsgAnchorCredential_Marshal ==
    <<Slice("IssuerSig", \h3a), Slice("CredentialHash", \h32), Varint("TemplateVersion", \h28),
      Slice("TemplateId", \h22), Slice("SubjectDid", \h1a), Slice("IssuerDid", \h12),
      Slice("Issuer", \h0a)>>
MsgAnchorCredential_Size ==
    <<Slice("Issuer", 1), Slice("IssuerDid", 1), Slice("SubjectDid", 1), Slice("TemplateId", 1),
      Varint("TemplateVersion", 1), Slice("CredentialHash", 1), Slice("IssuerSig", 1)>>

MsgAnchorCredentialResponse_Unmarshal == <<>>
MsgAnchorCredentialResponse_Marshal == <<>>
MsgAnchorCredentialResponse_Size == <<>>

MsgRevokeCredential_Unmarshal == <<Text("Issuer"), Bytes("CredentialHash")>>
MsgRevokeCredential_Marshal == <<Slice("CredentialHash", \h12), Slice("Issuer", \h0a)>>
MsgRevokeCredential_Size == <<Slice("Issuer", 1), Slice("CredentialHash", 1)>>

MsgRevokeCredentialResponse_Unmarshal == <<>>
MsgRevokeCredentialResponse_Marshal == <<>>
MsgRevokeCredentialResponse_Size == <<>>

MsgCreateAgreement_Unmarshal ==
    <<Text("Creator"), Bytes("Hash"), Texts("RequiredSigners"), Int64("Deadline")>>
MsgCreateAgreement_Marshal ==
    <<Varint("Deadline", \h20), Slices("RequiredSigners", \h1a), Slice("Hash", \h12),
      Slice("Creator", \h0a)>>
MsgCreateAgreement_Size ==
    <<Slice("Creator", 1), Slice("Hash", 1), Slices("RequiredSigners", 1),
      Varint("Deadline", 1)>>

MsgCreateAgreementResponse_Unmarshal == <<>>
MsgCreateAgreementResponse_Marshal == <<>>
MsgCreateAgreementResponse_Size == <<>>

MsgSignAgreement_Unmarshal ==
    <<Text("Signer"), Bytes("Hash"), Text("SignerDid"), Bytes("Signature")>>
MsgSignAgreement_Marshal ==
    <<Slice("Signature", \h22), Slice("SignerDid", \h1a), Slice("Hash", \h12),
      Slice("Signer", \h0a)>>
MsgSignAgreement_Size ==
    <<Slice("Signer", 1), Slice("Hash", 1), Slice("SignerDid", 1), Slice("Signature", 1)>>

MsgSignAgreementResponse_Unmarshal == <<Bool("Completed")>>
MsgSignAgreementResponse_Marshal == <<Flag("Completed", \h08)>>
MsgSignAgreementResponse_Size == <<Flag("Completed", 1)>>

MsgCancelAgreement_Unmarshal == <<Text("Creator"), Bytes("Hash")>>
MsgCancelAgreement_Marshal == <<Slice("Hash", \h12), Slice("Creator", \h0a)>>
MsgCancelAgreement_Size == <<Slice("Creator", 1), Slice("Hash", 1)>>

MsgCancelAgreementResponse_Unmarshal == <<>>
MsgCancelAgreementResponse_Marshal == <<>>
MsgCancelAgreementResponse_Size == <<>>

MsgAnchorPersonal_Unmarshal ==
    <<Text("Owner"), Text("OwnerDid"), Bytes("AnchorHash"), Bytes("Signature")>>
MsgAnchorPersonal_Marshal ==
    <<Slice("Signature", \h22), Slice("AnchorHash", \h1a), Slice("OwnerDid", \h12),
      Slice("Owner", \h0a)>>
MsgAnchorPersonal_Size ==
    <<Slice("Owner", 1), Slice("OwnerDid", 1), Slice("AnchorHash", 1), Slice("Signature", 1)>>

MsgAnchorPersonalResponse_Unmarshal == <<>>
MsgAnchorPersonalResponse_Marshal == <<>>
MsgAnchorPersonalResponse_Size == <<>>

MsgUpdateParams_Unmarshal ==
    <<Text("Authority"), Message("Params", <<"credentials", "Params">>)>>
MsgUpdateParams_Marshal ==
    <<Nested("Params", \h12, <<"credentials", "Params">>), Slice("Authority", \h0a)>>
MsgUpdateParams_Size ==
    <<Slice("Authority", 1), Nested("Params", 1, <<"credentials", "Params">>)>>

MsgUpdateParamsResponse_Unmarshal == <<>>
MsgUpdateParamsResponse_Marshal == <<>>
MsgUpdateParamsResponse_Size == <<>>

-----------------------------------------------------------------------------
(* The messages of the module, by type. *)

CredentialsCases ==
    [CredentialTemplate |-> CredentialTemplate_Unmarshal,
     CredentialAnchor |-> CredentialAnchor_Unmarshal,
     AgreementSignature |-> AgreementSignature_Unmarshal,
     Agreement |-> Agreement_Unmarshal,
     PersonalAnchor |-> PersonalAnchor_Unmarshal,
     Params |-> Params_Unmarshal,
     GenesisState |-> GenesisState_Unmarshal,
     QueryParamsRequest |-> QueryParamsRequest_Unmarshal,
     QueryParamsResponse |-> QueryParamsResponse_Unmarshal,
     QueryTemplateRequest |-> QueryTemplateRequest_Unmarshal,
     QueryTemplateResponse |-> QueryTemplateResponse_Unmarshal,
     QueryCredentialRequest |-> QueryCredentialRequest_Unmarshal,
     QueryCredentialResponse |-> QueryCredentialResponse_Unmarshal,
     QueryAgreementRequest |-> QueryAgreementRequest_Unmarshal,
     QueryAgreementResponse |-> QueryAgreementResponse_Unmarshal,
     QueryPersonalAnchorRequest |-> QueryPersonalAnchorRequest_Unmarshal,
     QueryPersonalAnchorResponse |-> QueryPersonalAnchorResponse_Unmarshal,
     MsgRegisterCredentialTemplate |-> MsgRegisterCredentialTemplate_Unmarshal,
     MsgRegisterCredentialTemplateResponse |-> MsgRegisterCredentialTemplateResponse_Unmarshal,
     MsgUpdateCredentialTemplate |-> MsgUpdateCredentialTemplate_Unmarshal,
     MsgUpdateCredentialTemplateResponse |-> MsgUpdateCredentialTemplateResponse_Unmarshal,
     MsgDeprecateCredentialTemplate |-> MsgDeprecateCredentialTemplate_Unmarshal,
     MsgDeprecateCredentialTemplateResponse |-> MsgDeprecateCredentialTemplateResponse_Unmarshal,
     MsgAnchorCredential |-> MsgAnchorCredential_Unmarshal,
     MsgAnchorCredentialResponse |-> MsgAnchorCredentialResponse_Unmarshal,
     MsgRevokeCredential |-> MsgRevokeCredential_Unmarshal,
     MsgRevokeCredentialResponse |-> MsgRevokeCredentialResponse_Unmarshal,
     MsgCreateAgreement |-> MsgCreateAgreement_Unmarshal,
     MsgCreateAgreementResponse |-> MsgCreateAgreementResponse_Unmarshal,
     MsgSignAgreement |-> MsgSignAgreement_Unmarshal,
     MsgSignAgreementResponse |-> MsgSignAgreementResponse_Unmarshal,
     MsgCancelAgreement |-> MsgCancelAgreement_Unmarshal,
     MsgCancelAgreementResponse |-> MsgCancelAgreementResponse_Unmarshal,
     MsgAnchorPersonal |-> MsgAnchorPersonal_Unmarshal,
     MsgAnchorPersonalResponse |-> MsgAnchorPersonalResponse_Unmarshal,
     MsgUpdateParams |-> MsgUpdateParams_Unmarshal,
     MsgUpdateParamsResponse |-> MsgUpdateParamsResponse_Unmarshal]

CredentialsMarshals ==
    [CredentialTemplate |-> CredentialTemplate_Marshal,
     CredentialAnchor |-> CredentialAnchor_Marshal,
     AgreementSignature |-> AgreementSignature_Marshal,
     Agreement |-> Agreement_Marshal,
     PersonalAnchor |-> PersonalAnchor_Marshal,
     Params |-> Params_Marshal,
     GenesisState |-> GenesisState_Marshal,
     QueryParamsRequest |-> QueryParamsRequest_Marshal,
     QueryParamsResponse |-> QueryParamsResponse_Marshal,
     QueryTemplateRequest |-> QueryTemplateRequest_Marshal,
     QueryTemplateResponse |-> QueryTemplateResponse_Marshal,
     QueryCredentialRequest |-> QueryCredentialRequest_Marshal,
     QueryCredentialResponse |-> QueryCredentialResponse_Marshal,
     QueryAgreementRequest |-> QueryAgreementRequest_Marshal,
     QueryAgreementResponse |-> QueryAgreementResponse_Marshal,
     QueryPersonalAnchorRequest |-> QueryPersonalAnchorRequest_Marshal,
     QueryPersonalAnchorResponse |-> QueryPersonalAnchorResponse_Marshal,
     MsgRegisterCredentialTemplate |-> MsgRegisterCredentialTemplate_Marshal,
     MsgRegisterCredentialTemplateResponse |-> MsgRegisterCredentialTemplateResponse_Marshal,
     MsgUpdateCredentialTemplate |-> MsgUpdateCredentialTemplate_Marshal,
     MsgUpdateCredentialTemplateResponse |-> MsgUpdateCredentialTemplateResponse_Marshal,
     MsgDeprecateCredentialTemplate |-> MsgDeprecateCredentialTemplate_Marshal,
     MsgDeprecateCredentialTemplateResponse |-> MsgDeprecateCredentialTemplateResponse_Marshal,
     MsgAnchorCredential |-> MsgAnchorCredential_Marshal,
     MsgAnchorCredentialResponse |-> MsgAnchorCredentialResponse_Marshal,
     MsgRevokeCredential |-> MsgRevokeCredential_Marshal,
     MsgRevokeCredentialResponse |-> MsgRevokeCredentialResponse_Marshal,
     MsgCreateAgreement |-> MsgCreateAgreement_Marshal,
     MsgCreateAgreementResponse |-> MsgCreateAgreementResponse_Marshal,
     MsgSignAgreement |-> MsgSignAgreement_Marshal,
     MsgSignAgreementResponse |-> MsgSignAgreementResponse_Marshal,
     MsgCancelAgreement |-> MsgCancelAgreement_Marshal,
     MsgCancelAgreementResponse |-> MsgCancelAgreementResponse_Marshal,
     MsgAnchorPersonal |-> MsgAnchorPersonal_Marshal,
     MsgAnchorPersonalResponse |-> MsgAnchorPersonalResponse_Marshal,
     MsgUpdateParams |-> MsgUpdateParams_Marshal,
     MsgUpdateParamsResponse |-> MsgUpdateParamsResponse_Marshal]

CredentialsSizes ==
    [CredentialTemplate |-> CredentialTemplate_Size,
     CredentialAnchor |-> CredentialAnchor_Size,
     AgreementSignature |-> AgreementSignature_Size,
     Agreement |-> Agreement_Size,
     PersonalAnchor |-> PersonalAnchor_Size,
     Params |-> Params_Size,
     GenesisState |-> GenesisState_Size,
     QueryParamsRequest |-> QueryParamsRequest_Size,
     QueryParamsResponse |-> QueryParamsResponse_Size,
     QueryTemplateRequest |-> QueryTemplateRequest_Size,
     QueryTemplateResponse |-> QueryTemplateResponse_Size,
     QueryCredentialRequest |-> QueryCredentialRequest_Size,
     QueryCredentialResponse |-> QueryCredentialResponse_Size,
     QueryAgreementRequest |-> QueryAgreementRequest_Size,
     QueryAgreementResponse |-> QueryAgreementResponse_Size,
     QueryPersonalAnchorRequest |-> QueryPersonalAnchorRequest_Size,
     QueryPersonalAnchorResponse |-> QueryPersonalAnchorResponse_Size,
     MsgRegisterCredentialTemplate |-> MsgRegisterCredentialTemplate_Size,
     MsgRegisterCredentialTemplateResponse |-> MsgRegisterCredentialTemplateResponse_Size,
     MsgUpdateCredentialTemplate |-> MsgUpdateCredentialTemplate_Size,
     MsgUpdateCredentialTemplateResponse |-> MsgUpdateCredentialTemplateResponse_Size,
     MsgDeprecateCredentialTemplate |-> MsgDeprecateCredentialTemplate_Size,
     MsgDeprecateCredentialTemplateResponse |-> MsgDeprecateCredentialTemplateResponse_Size,
     MsgAnchorCredential |-> MsgAnchorCredential_Size,
     MsgAnchorCredentialResponse |-> MsgAnchorCredentialResponse_Size,
     MsgRevokeCredential |-> MsgRevokeCredential_Size,
     MsgRevokeCredentialResponse |-> MsgRevokeCredentialResponse_Size,
     MsgCreateAgreement |-> MsgCreateAgreement_Size,
     MsgCreateAgreementResponse |-> MsgCreateAgreementResponse_Size,
     MsgSignAgreement |-> MsgSignAgreement_Size,
     MsgSignAgreementResponse |-> MsgSignAgreementResponse_Size,
     MsgCancelAgreement |-> MsgCancelAgreement_Size,
     MsgCancelAgreementResponse |-> MsgCancelAgreementResponse_Size,
     MsgAnchorPersonal |-> MsgAnchorPersonal_Size,
     MsgAnchorPersonalResponse |-> MsgAnchorPersonalResponse_Size,
     MsgUpdateParams |-> MsgUpdateParams_Size,
     MsgUpdateParamsResponse |-> MsgUpdateParamsResponse_Size]

=============================================================================
