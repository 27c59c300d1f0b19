---------------------------- MODULE IdentityWire ----------------------------
(* The generated codec of x/identity, message by message: see WireTables. *)
EXTENDS WireTables, TLC

-----------------------------------------------------------------------------
(* genesis.pb.go *)

StoreEntry_Unmarshal == <<Bytes("Key"), Bytes("Value")>>
StoreEntry_Marshal == <<Slice("Value", \h12), Slice("Key", \h0a)>>
StoreEntry_Size == <<Slice("Key", 1), Slice("Value", 1)>>

GenesisState_Unmarshal ==
    <<Message("Params", <<"identity", "Params">>),
      Messages("Identities", <<"identity", "DIDDocument">>), Uint64("IdentityCount"),
      Messages("TrustedIssuers", <<"identity", "TrustedIssuer">>),
      Messages("StoreEntries", <<"identity", "StoreEntry">>),
      Messages("GuardianSets", <<"identity", "GuardianSet">>),
      Messages("RecoveryRequests", <<"identity", "RecoveryRequest">>)>>
GenesisState_Marshal ==
    <<NestedAll("RecoveryRequests", \h3a, <<"identity", "RecoveryRequest">>),
      NestedAll("GuardianSets", \h32, <<"identity", "GuardianSet">>),
      NestedAll("StoreEntries", \h2a, <<"identity", "StoreEntry">>),
      NestedAll("TrustedIssuers", \h22, <<"identity", "TrustedIssuer">>),
      Varint("IdentityCount", \h18),
      NestedAll("Identities", \h12, <<"identity", "DIDDocument">>),
      Nested("Params", \h0a, <<"identity", "Params">>)>>
GenesisState_Size ==
    <<Nested("Params", 1, <<"identity", "Params">>),
      NestedAll("Identities", 1, <<"identity", "DIDDocument">>), Varint("IdentityCount", 1),
      NestedAll("TrustedIssuers", 1, <<"identity", "TrustedIssuer">>),
      NestedAll("StoreEntries", 1, <<"identity", "StoreEntry">>),
      NestedAll("GuardianSets", 1, <<"identity", "GuardianSet">>),
      NestedAll("RecoveryRequests", 1, <<"identity", "RecoveryRequest">>)>>

-----------------------------------------------------------------------------
(* identity.pb.go *)

DIDDocument_Unmarshal ==
    <<Text("Did"), Text("Controller"), Bytes("PubKey"), Bytes("UniquenessHash"),
      Int64("CreatedAt"), Enum("Status"), Enum("KeyType")>>
DIDDocument_Marshal ==
    <<Varint("KeyType", \h38), Varint("Status", \h30), Varint("CreatedAt", \h28),
      Slice("UniquenessHash", \h22), Slice("PubKey", \h1a), Slice("Controller", \h12),
      Slice("Did", \h0a)>>
DIDDocument_Size ==
    <<Slice("Did", 1), Slice("Controller", 1), Slice("PubKey", 1), Slice("UniquenessHash", 1),
      Varint("CreatedAt", 1), Varint("Status", 1), Varint("KeyType", 1)>>

TrustedIssuer_Unmarshal == <<Text("Did"), Bytes("PubKey"), Bool("Active")>>
TrustedIssuer_Marshal == <<Flag("Active", \h18), Slice("PubKey", \h12), Slice("Did", \h0a)>>
TrustedIssuer_Size == <<Slice("Did", 1), Slice("PubKey", 1), Flag("Active", 1)>>

GuardianSet_Unmarshal ==
    <<Text("Did"), BytesList("Commitments"), Uint32("Threshold"), Int64("UpdatedAt")>>
GuardianSet_Marshal ==
    <<Varint("UpdatedAt", \h20), Varint("Threshold", \h18), Slices("Commitments", \h12),
      Slice("Did", \h0a)>>
GuardianSet_Size ==
    <<Slice("Did", 1), Slices("Commitments", 1), Varint("Threshold", 1),
      Varint("UpdatedAt", 1)>>

RecoveryRequest_Unmarshal ==
    <<Bytes("RecoveryId"), Text("Did"), Bytes("ProposedNewPubKey"),
      Text("ProposedNewController"), Enum("KeyType"), Enum("Method"), Texts("Approvals"),
      Bytes("Nonce"), Int64("InitiatedAt"), Int64("ExecuteAfter"), Int64("ExpiresAt"),
      Text("DepositUphi"), Enum("Status"), Text("AttestorDid"), Text("FeeUphi"),
      Texts("Rejections"), Int64("FrozenAt")>>
RecoveryRequest_Marshal ==
    <<Varint("FrozenAt", \h88), Slices("Rejections", \h82), Slice("FeeUphi", \h7a),
      Slice("AttestorDid", \h72), Varint("Status", \h68), Slice("DepositUphi", \h62),
      Varint("ExpiresAt", \h58), Varint("ExecuteAfter", \h50), Varint("InitiatedAt", \h48),
      Slice("Nonce", \h42), Slices("Approvals", \h3a), Varint("Method", \h30),
      Varint("KeyType", \h28), Slice("ProposedNewController", \h22),
      Slice("ProposedNewPubKey", \h1a), Slice("Did", \h12), Slice("RecoveryId", \h0a)>>
RecoveryRequest_Size ==
    <<Slice("RecoveryId", 1), Slice("Did", 1), Slice("ProposedNewPubKey", 1),
      Slice("ProposedNewController", 1), Varint("KeyType", 1), Varint("Method", 1),
      Slices("Approvals", 1), Slice("Nonce", 1), Varint("InitiatedAt", 1),
      Varint("ExecuteAfter", 1), Varint("ExpiresAt", 1), Slice("DepositUphi", 1),
      Varint("Status", 1), Slice("AttestorDid", 1), Slice("FeeUphi", 1),
      Slices("Rejections", 2), Varint("FrozenAt", 2)>>

Params_Unmarshal ==
    <<Int64("MinIdentityAgeSeconds"), Uint64("BootstrapThreshold"), Bool("BootstrapPhase"),
      Texts("WebauthnAllowedOrigins"), Text("WebauthnRpId"), Uint32("MaxGuardians"),
      Texts("UvSensitiveMsgTypeUrls"), Text("UvLargeTransferUphi"),
      Int64("RecoveryDelaySeconds"), Int64("RecoveryRequestTtlSeconds"),
      Uint32("MaxOpenRecoveryRequests"), Text("RecoveryDepositUphi"),
      Text("ReauthRecoveryFeeUphi")>>
Params_Marshal ==
    <<Slice("ReauthRecoveryFeeUphi", \h6a), Slice("RecoveryDepositUphi", \h62),
      Varint("MaxOpenRecoveryRequests", \h58), Varint("RecoveryRequestTtlSeconds", \h50),
      Varint("RecoveryDelaySeconds", \h48), Slice("UvLargeTransferUphi", \h42),
      Slices("UvSensitiveMsgTypeUrls", \h3a), Varint("MaxGuardians", \h30),
      Slice("WebauthnRpId", \h2a), Slices("WebauthnAllowedOrigins", \h22),
      Flag("BootstrapPhase", \h18), Varint("BootstrapThreshold", \h10),
      Varint("MinIdentityAgeSeconds", \h08)>>
Params_Size ==
    <<Varint("MinIdentityAgeSeconds", 1), Varint("BootstrapThreshold", 1),
      Flag("BootstrapPhase", 1), Slices("WebauthnAllowedOrigins", 1), Slice("WebauthnRpId", 1),
      Varint("MaxGuardians", 1), Slices("UvSensitiveMsgTypeUrls", 1),
      Slice("UvLargeTransferUphi", 1), Varint("RecoveryDelaySeconds", 1),
      Varint("RecoveryRequestTtlSeconds", 1), Varint("MaxOpenRecoveryRequests", 1),
      Slice("RecoveryDepositUphi", 1), Slice("ReauthRecoveryFeeUphi", 1)>>

-----------------------------------------------------------------------------
(* query.pb.go *)

QueryParamsRequest_Unmarshal == <<>>
QueryParamsRequest_Marshal == <<>>
QueryParamsRequest_Size == <<>>

QueryParamsResponse_Unmarshal == <<Message("Params", <<"identity", "Params">>)>>
QueryParamsResponse_Marshal == <<Nested("Params", \h0a, <<"identity", "Params">>)>>
QueryParamsResponse_Size == <<Nested("Params", 1, <<"identity", "Params">>)>>

QueryIdentityRequest_Unmarshal == <<Text("Did")>>
QueryIdentityRequest_Marshal == <<Slice("Did", \h0a)>>
QueryIdentityRequest_Size == <<Slice("Did", 1)>>

QueryIdentityResponse_Unmarshal == <<Message("Identity", <<"identity", "DIDDocument">>)>>
QueryIdentityResponse_Marshal == <<Nested("Identity", \h0a, <<"identity", "DIDDocument">>)>>
QueryIdentityResponse_Size == <<Nested("Identity", 1, <<"identity", "DIDDocument">>)>>

QueryIdentityCountRequest_Unmarshal == <<>>
QueryIdentityCountRequest_Marshal == <<>>
QueryIdentityCountRequest_Size == <<>>

QueryIdentityCountResponse_Unmarshal == <<Uint64("Count")>>
QueryIdentityCountResponse_Marshal == <<Varint("Count", \h08)>>
QueryIdentityCountResponse_Size == <<Varint("Count", 1)>>

QueryGuardiansRequest_Unmarshal == <<Text("Did")>>
QueryGuardiansRequest_Marshal == <<Slice("Did", \h0a)>>
QueryGuardiansRequest_Size == <<Slice("Did", 1)>>

QueryGuardiansResponse_Unmarshal ==
    <<Uint32("CommitmentCount"), Uint32("Threshold"), Int64("UpdatedAt")>>
QueryGuardiansResponse_Marshal ==
    <<Varint("UpdatedAt", \h18), Varint("Threshold", \h10), Varint("CommitmentCount", \h08)>>
QueryGuardiansResponse_Size ==
    <<Varint("CommitmentCount", 1), Varint("Threshold", 1), Varint("UpdatedAt", 1)>>

QueryRecoveryRequestRequest_Unmarshal == <<Bytes("RecoveryId")>>
QueryRecoveryRequestRequest_Marshal == <<Slice("RecoveryId", \h0a)>>
QueryRecoveryRequestRequest_Size == <<Slice("RecoveryId", 1)>>

QueryRecoveryRequestResponse_Unmarshal ==
    <<Message("Request", <<"identity", "RecoveryRequest">>)>>
QueryRecoveryRequestResponse_Marshal ==
    <<Nested("Request", \h0a, <<"identity", "RecoveryRequest">>)>>
QueryRecoveryRequestResponse_Size == <<Nested("Request", 1, <<"identity", "RecoveryRequest">>)>>

QueryRecoveryRequestsByDIDRequest_Unmarshal == <<Text("Did")>>
QueryRecoveryRequestsByDIDRequest_Marshal == <<Slice("Did", \h0a)>>
QueryRecoveryRequestsByDIDRequest_Size == <<Slice("Did", 1)>>

QueryRecoveryRequestsByDIDResponse_Unmarshal ==
    <<Messages("Requests", <<"identity", "RecoveryRequest">>)>>
QueryRecoveryRequestsByDIDResponse_Marshal ==
    <<NestedAll("Requests", \h0a, <<"identity", "RecoveryRequest">>)>>
QueryRecoveryRequestsByDIDResponse_Size ==
    <<NestedAll("Requests", 1, <<"identity", "RecoveryRequest">>)>>

-----------------------------------------------------------------------------
(* tx.pb.go *)

MsgRegisterIdentity_Unmarshal ==
    <<Text("Creator"), Text("Did"), Bytes("PubKey"), Bytes("UniquenessHash"), Text("IssuerDid"),
      Bytes("IssuerSig"), Bytes("Nonce"), Bytes("PopSig"), Enum("KeyType")>>
MsgRegisterIdentity_Marshal ==
    <<Varint("KeyType", \h48), Slice("PopSig", \h42), Slice("Nonce", \h3a),
      Slice("IssuerSig", \h32), Slice("IssuerDid", \h2a), Slice("UniquenessHash", \h22),
      Slice("PubKey", \h1a), Slice("Did", \h12), Slice("Creator", \h0a)>>
MsgRegisterIdentity_Size ==
    <<Slice("Creator", 1), Slice("Did", 1), Slice("PubKey", 1), Slice("UniquenessHash", 1),
      Slice("IssuerDid", 1), Slice("IssuerSig", 1), Slice("Nonce", 1), Slice("PopSig", 1),
      Varint("KeyType", 1)>>

MsgRegisterIdentityResponse_Unmarshal == <<>>
MsgRegisterIdentityResponse_Marshal == <<>>
MsgRegisterIdentityResponse_Size == <<>>

MsgRotateIdentityKey_Unmarshal ==
    <<Text("Creator"), Text("Did"), Bytes("NewPubKey"), Bytes("PopSig")>>
MsgRotateIdentityKey_Marshal ==
    <<Slice("PopSig", \h22), Slice("NewPubKey", \h1a), Slice("Did", \h12),
      Slice("Creator", \h0a)>>
MsgRotateIdentityKey_Size ==
    <<Slice("Creator", 1), Slice("Did", 1), Slice("NewPubKey", 1), Slice("PopSig", 1)>>

MsgRotateIdentityKeyResponse_Unmarshal == <<>>
MsgRotateIdentityKeyResponse_Marshal == <<>>
MsgRotateIdentityKeyResponse_Size == <<>>

MsgUpdateStatus_Unmarshal == <<Text("Authority"), Text("Did"), Enum("NewStatus")>>
MsgUpdateStatus_Marshal ==
    <<Varint("NewStatus", \h18), Slice("Did", \h12), Slice("Authority", \h0a)>>
MsgUpdateStatus_Size == <<Slice("Authority", 1), Slice("Did", 1), Varint("NewStatus", 1)>>

MsgUpdateStatusResponse_Unmarshal == <<>>
MsgUpdateStatusResponse_Marshal == <<>>
MsgUpdateStatusResponse_Size == <<>>

MsgSetGuardians_Unmarshal ==
    <<Text("Controller"), Text("Did"), BytesList("Commitments"), Uint32("Threshold")>>
MsgSetGuardians_Marshal ==
    <<Varint("Threshold", \h20), Slices("Commitments", \h1a), Slice("Did", \h12),
      Slice("Controller", \h0a)>>
MsgSetGuardians_Size ==
    <<Slice("Controller", 1), Slice("Did", 1), Slices("Commitments", 1),
      Varint("Threshold", 1)>>

MsgSetGuardiansResponse_Unmarshal == <<>>
MsgSetGuardiansResponse_Marshal == <<>>
MsgSetGuardiansResponse_Size == <<>>

MsgInitiateRecovery_Unmarshal ==
    <<Text("Creator"), Text("Did"), Bytes("ProposedNewPubKey"), Enum("KeyType"), Enum("Method"),
      Bytes("Nonce"), Bytes("PopSig"), Bytes("ReauthAttestation"), Text("AttestorDid")>>
MsgInitiateRecovery_Marshal ==
    <<Slice("AttestorDid", \h4a), Slice("ReauthAttestation", \h42), Slice("PopSig", \h3a),
      Slice("Nonce", \h32), Varint("Method", \h28), Varint("KeyType", \h20),
      Slice("ProposedNewPubKey", \h1a), Slice("Did", \h12), Slice("Creator", \h0a)>>
MsgInitiateRecovery_Size ==
    <<Slice("Creator", 1), Slice("Did", 1), Slice("ProposedNewPubKey", 1), Varint("KeyType", 1),
      Varint("Method", 1), Slice("Nonce", 1), Slice("PopSig", 1), Slice("ReauthAttestation", 1),
      Slice("AttestorDid", 1)>>

MsgInitiateRecoveryResponse_Unmarshal == <<Bytes("RecoveryId")>>
MsgInitiateRecoveryResponse_Marshal == <<Slice("RecoveryId", \h0a)>>
MsgInitiateRecoveryResponse_Size == <<Slice("RecoveryId", 1)>>

MsgApproveRecovery_Unmarshal ==
    <<Text("Creator"), Bytes("RecoveryId"), Text("GuardianDid"), Bytes("Salt")>>
MsgApproveRecovery_Marshal ==
    <<Slice("Salt", \h22), Slice("GuardianDid", \h1a), Slice("RecoveryId", \h12),
      Slice("Creator", \h0a)>>
MsgApproveRecovery_Size ==
    <<Slice("Creator", 1), Slice("RecoveryId", 1), Slice("GuardianDid", 1), Slice("Salt", 1)>>

MsgApproveRecoveryResponse_Unmarshal == <<>>
MsgApproveRecoveryResponse_Marshal == <<>>
MsgApproveRecoveryResponse_Size == <<>>

MsgRejectRecovery_Unmarshal ==
    <<Text("Creator"), Bytes("RecoveryId"), Text("GuardianDid"), Bytes("Salt")>>
MsgRejectRecovery_Marshal ==
    <<Slice("Salt", \h22), Slice("GuardianDid", \h1a), Slice("RecoveryId", \h12),
      Slice("Creator", \h0a)>>
MsgRejectRecovery_Size ==
    <<Slice("Creator", 1), Slice("RecoveryId", 1), Slice("GuardianDid", 1), Slice("Salt", 1)>>

MsgRejectRecoveryResponse_Unmarshal == <<>>
MsgRejectRecoveryResponse_Marshal == <<>>
MsgRejectRecoveryResponse_Size == <<>>

MsgExecuteRecovery_Unmarshal == <<Text("Creator"), Bytes("RecoveryId")>>
MsgExecuteRecovery_Marshal == <<Slice("RecoveryId", \h12), Slice("Creator", \h0a)>>
MsgExecuteRecovery_Size == <<Slice("Creator", 1), Slice("RecoveryId", 1)>>

MsgExecuteRecoveryResponse_Unmarshal == <<>>
MsgExecuteRecoveryResponse_Marshal == <<>>
MsgExecuteRecoveryResponse_Size == <<>>

MsgCancelRecovery_Unmarshal == <<Text("Creator"), Bytes("RecoveryId")>>
MsgCancelRecovery_Marshal == <<Slice("RecoveryId", \h12), Slice("Creator", \h0a)>>
MsgCancelRecovery_Size == <<Slice("Creator", 1), Slice("RecoveryId", 1)>>

MsgCancelRecoveryResponse_Unmarshal == <<>>
MsgCancelRecoveryResponse_Marshal == <<>>
MsgCancelRecoveryResponse_Size == <<>>

MsgRevokeIdentity_Unmarshal == <<Text("Creator"), Text("Did")>>
MsgRevokeIdentity_Marshal == <<Slice("Did", \h12), Slice("Creator", \h0a)>>
MsgRevokeIdentity_Size == <<Slice("Creator", 1), Slice("Did", 1)>>

MsgRevokeIdentityResponse_Unmarshal == <<>>
MsgRevokeIdentityResponse_Marshal == <<>>
MsgRevokeIdentityResponse_Size == <<>>

MsgUpdateParams_Unmarshal == <<Text("Authority"), Message("Params", <<"identity", "Params">>)>>
MsgUpdateParams_Marshal ==
    <<Nested("Params", \h12, <<"identity", "Params">>), Slice("Authority", \h0a)>>
MsgUpdateParams_Size == <<Slice("Authority", 1), Nested("Params", 1, <<"identity", "Params">>)>>

MsgUpdateParamsResponse_Unmarshal == <<>>
MsgUpdateParamsResponse_Marshal == <<>>
MsgUpdateParamsResponse_Size == <<>>

MsgRegisterTrustedIssuer_Unmarshal ==
    <<Text("Authority"), Message("Issuer", <<"identity", "TrustedIssuer">>)>>
MsgRegisterTrustedIssuer_Marshal ==
    <<Nested("Issuer", \h12, <<"identity", "TrustedIssuer">>), Slice("Authority", \h0a)>>
MsgRegisterTrustedIssuer_Size ==
    <<Slice("Authority", 1), Nested("Issuer", 1, <<"identity", "TrustedIssuer">>)>>

MsgRegisterTrustedIssuerResponse_Unmarshal == <<>>
MsgRegisterTrustedIssuerResponse_Marshal == <<>>
MsgRegisterTrustedIssuerResponse_Size == <<>>

MsgRevokeTrustedIssuer_Unmarshal == <<Text("Authority"), Text("Did")>>
MsgRevokeTrustedIssuer_Marshal == <<Slice("Did", \h12), Slice("Authority", \h0a)>>
MsgRevokeTrustedIssuer_Size == <<Slice("Authority", 1), Slice("Did", 1)>>

MsgRevokeTrustedIssuerResponse_Unmarshal == <<>>
MsgRevokeTrustedIssuerResponse_Marshal == <<>>
MsgRevokeTrustedIssuerResponse_Size == <<>>

-----------------------------------------------------------------------------
(* The messages of the module, by type. *)

IdentityCases ==
    [StoreEntry |-> StoreEntry_Unmarshal,
     GenesisState |-> GenesisState_Unmarshal,
     DIDDocument |-> DIDDocument_Unmarshal,
     TrustedIssuer |-> TrustedIssuer_Unmarshal,
     GuardianSet |-> GuardianSet_Unmarshal,
     RecoveryRequest |-> RecoveryRequest_Unmarshal,
     Params |-> Params_Unmarshal,
     QueryParamsRequest |-> QueryParamsRequest_Unmarshal,
     QueryParamsResponse |-> QueryParamsResponse_Unmarshal,
     QueryIdentityRequest |-> QueryIdentityRequest_Unmarshal,
     QueryIdentityResponse |-> QueryIdentityResponse_Unmarshal,
     QueryIdentityCountRequest |-> QueryIdentityCountRequest_Unmarshal,
     QueryIdentityCountResponse |-> QueryIdentityCountResponse_Unmarshal,
     QueryGuardiansRequest |-> QueryGuardiansRequest_Unmarshal,
     QueryGuardiansResponse |-> QueryGuardiansResponse_Unmarshal,
     QueryRecoveryRequestRequest |-> QueryRecoveryRequestRequest_Unmarshal,
     QueryRecoveryRequestResponse |-> QueryRecoveryRequestResponse_Unmarshal,
     QueryRecoveryRequestsByDIDRequest |-> QueryRecoveryRequestsByDIDRequest_Unmarshal,
     QueryRecoveryRequestsByDIDResponse |-> QueryRecoveryRequestsByDIDResponse_Unmarshal,
     MsgRegisterIdentity |-> MsgRegisterIdentity_Unmarshal,
     MsgRegisterIdentityResponse |-> MsgRegisterIdentityResponse_Unmarshal,
     MsgRotateIdentityKey |-> MsgRotateIdentityKey_Unmarshal,
     MsgRotateIdentityKeyResponse |-> MsgRotateIdentityKeyResponse_Unmarshal,
     MsgUpdateStatus |-> MsgUpdateStatus_Unmarshal,
     MsgUpdateStatusResponse |-> MsgUpdateStatusResponse_Unmarshal,
     MsgSetGuardians |-> MsgSetGuardians_Unmarshal,
     MsgSetGuardiansResponse |-> MsgSetGuardiansResponse_Unmarshal,
     MsgInitiateRecovery |-> MsgInitiateRecovery_Unmarshal,
     MsgInitiateRecoveryResponse |-> MsgInitiateRecoveryResponse_Unmarshal,
     MsgApproveRecovery |-> MsgApproveRecovery_Unmarshal,
     MsgApproveRecoveryResponse |-> MsgApproveRecoveryResponse_Unmarshal,
     MsgRejectRecovery |-> MsgRejectRecovery_Unmarshal,
     MsgRejectRecoveryResponse |-> MsgRejectRecoveryResponse_Unmarshal,
     MsgExecuteRecovery |-> MsgExecuteRecovery_Unmarshal,
     MsgExecuteRecoveryResponse |-> MsgExecuteRecoveryResponse_Unmarshal,
     MsgCancelRecovery |-> MsgCancelRecovery_Unmarshal,
     MsgCancelRecoveryResponse |-> MsgCancelRecoveryResponse_Unmarshal,
     MsgRevokeIdentity |-> MsgRevokeIdentity_Unmarshal,
     MsgRevokeIdentityResponse |-> MsgRevokeIdentityResponse_Unmarshal,
     MsgUpdateParams |-> MsgUpdateParams_Unmarshal,
     MsgUpdateParamsResponse |-> MsgUpdateParamsResponse_Unmarshal,
     MsgRegisterTrustedIssuer |-> MsgRegisterTrustedIssuer_Unmarshal,
     MsgRegisterTrustedIssuerResponse |-> MsgRegisterTrustedIssuerResponse_Unmarshal,
     MsgRevokeTrustedIssuer |-> MsgRevokeTrustedIssuer_Unmarshal,
     MsgRevokeTrustedIssuerResponse |-> MsgRevokeTrustedIssuerResponse_Unmarshal]

IdentityMarshals ==
    [StoreEntry |-> StoreEntry_Marshal,
     GenesisState |-> GenesisState_Marshal,
     DIDDocument |-> DIDDocument_Marshal,
     TrustedIssuer |-> TrustedIssuer_Marshal,
     GuardianSet |-> GuardianSet_Marshal,
     RecoveryRequest |-> RecoveryRequest_Marshal,
     Params |-> Params_Marshal,
     QueryParamsRequest |-> QueryParamsRequest_Marshal,
     QueryParamsResponse |-> QueryParamsResponse_Marshal,
     QueryIdentityRequest |-> QueryIdentityRequest_Marshal,
     QueryIdentityResponse |-> QueryIdentityResponse_Marshal,
     QueryIdentityCountRequest |-> QueryIdentityCountRequest_Marshal,
     QueryIdentityCountResponse |-> QueryIdentityCountResponse_Marshal,
     QueryGuardiansRequest |-> QueryGuardiansRequest_Marshal,
     QueryGuardiansResponse |-> QueryGuardiansResponse_Marshal,
     QueryRecoveryRequestRequest |-> QueryRecoveryRequestRequest_Marshal,
     QueryRecoveryRequestResponse |-> QueryRecoveryRequestResponse_Marshal,
     QueryRecoveryRequestsByDIDRequest |-> QueryRecoveryRequestsByDIDRequest_Marshal,
     QueryRecoveryRequestsByDIDResponse |-> QueryRecoveryRequestsByDIDResponse_Marshal,
     MsgRegisterIdentity |-> MsgRegisterIdentity_Marshal,
     MsgRegisterIdentityResponse |-> MsgRegisterIdentityResponse_Marshal,
     MsgRotateIdentityKey |-> MsgRotateIdentityKey_Marshal,
     MsgRotateIdentityKeyResponse |-> MsgRotateIdentityKeyResponse_Marshal,
     MsgUpdateStatus |-> MsgUpdateStatus_Marshal,
     MsgUpdateStatusResponse |-> MsgUpdateStatusResponse_Marshal,
     MsgSetGuardians |-> MsgSetGuardians_Marshal,
     MsgSetGuardiansResponse |-> MsgSetGuardiansResponse_Marshal,
     MsgInitiateRecovery |-> MsgInitiateRecovery_Marshal,
     MsgInitiateRecoveryResponse |-> MsgInitiateRecoveryResponse_Marshal,
     MsgApproveRecovery |-> MsgApproveRecovery_Marshal,
     MsgApproveRecoveryResponse |-> MsgApproveRecoveryResponse_Marshal,
     MsgRejectRecovery |-> MsgRejectRecovery_Marshal,
     MsgRejectRecoveryResponse |-> MsgRejectRecoveryResponse_Marshal,
     MsgExecuteRecovery |-> MsgExecuteRecovery_Marshal,
     MsgExecuteRecoveryResponse |-> MsgExecuteRecoveryResponse_Marshal,
     MsgCancelRecovery |-> MsgCancelRecovery_Marshal,
     MsgCancelRecoveryResponse |-> MsgCancelRecoveryResponse_Marshal,
     MsgRevokeIdentity |-> MsgRevokeIdentity_Marshal,
     MsgRevokeIdentityResponse |-> MsgRevokeIdentityResponse_Marshal,
     MsgUpdateParams |-> MsgUpdateParams_Marshal,
     MsgUpdateParamsResponse |-> MsgUpdateParamsResponse_Marshal,
     MsgRegisterTrustedIssuer |-> MsgRegisterTrustedIssuer_Marshal,
     MsgRegisterTrustedIssuerResponse |-> MsgRegisterTrustedIssuerResponse_Marshal,
     MsgRevokeTrustedIssuer |-> MsgRevokeTrustedIssuer_Marshal,
     MsgRevokeTrustedIssuerResponse |-> MsgRevokeTrustedIssuerResponse_Marshal]

IdentitySizes ==
    [StoreEntry |-> StoreEntry_Size,
     GenesisState |-> GenesisState_Size,
     DIDDocument |-> DIDDocument_Size,
     TrustedIssuer |-> TrustedIssuer_Size,
     GuardianSet |-> GuardianSet_Size,
     RecoveryRequest |-> RecoveryRequest_Size,
     Params |-> Params_Size,
     QueryParamsRequest |-> QueryParamsRequest_Size,
     QueryParamsResponse |-> QueryParamsResponse_Size,
     QueryIdentityRequest |-> QueryIdentityRequest_Size,
     QueryIdentityResponse |-> QueryIdentityResponse_Size,
     QueryIdentityCountRequest |-> QueryIdentityCountRequest_Size,
     QueryIdentityCountResponse |-> QueryIdentityCountResponse_Size,
     QueryGuardiansRequest |-> QueryGuardiansRequest_Size,
     QueryGuardiansResponse |-> QueryGuardiansResponse_Size,
     QueryRecoveryRequestRequest |-> QueryRecoveryRequestRequest_Size,
     QueryRecoveryRequestResponse |-> QueryRecoveryRequestResponse_Size,
     QueryRecoveryRequestsByDIDRequest |-> QueryRecoveryRequestsByDIDRequest_Size,
     QueryRecoveryRequestsByDIDResponse |-> QueryRecoveryRequestsByDIDResponse_Size,
     MsgRegisterIdentity |-> MsgRegisterIdentity_Size,
     MsgRegisterIdentityResponse |-> MsgRegisterIdentityResponse_Size,
     MsgRotateIdentityKey |-> MsgRotateIdentityKey_Size,
     MsgRotateIdentityKeyResponse |-> MsgRotateIdentityKeyResponse_Size,
     MsgUpdateStatus |-> MsgUpdateStatus_Size,
     MsgUpdateStatusResponse |-> MsgUpdateStatusResponse_Size,
     MsgSetGuardians |-> MsgSetGuardians_Size,
     MsgSetGuardiansResponse |-> MsgSetGuardiansResponse_Size,
     MsgInitiateRecovery |-> MsgInitiateRecovery_Size,
     MsgInitiateRecoveryResponse |-> MsgInitiateRecoveryResponse_Size,
     MsgApproveRecovery |-> MsgApproveRecovery_Size,
     MsgApproveRecoveryResponse |-> MsgApproveRecoveryResponse_Size,
     MsgRejectRecovery |-> MsgRejectRecovery_Size,
     MsgRejectRecoveryResponse |-> MsgRejectRecoveryResponse_Size,
     MsgExecuteRecovery |-> MsgExecuteRecovery_Size,
     MsgExecuteRecoveryResponse |-> MsgExecuteRecoveryResponse_Size,
     MsgCancelRecovery |-> MsgCancelRecovery_Size,
     MsgCancelRecoveryResponse |-> MsgCancelRecoveryResponse_Size,
     MsgRevokeIdentity |-> MsgRevokeIdentity_Size,
     MsgRevokeIdentityResponse |-> MsgRevokeIdentityResponse_Size,
     MsgUpdateParams |-> MsgUpdateParams_Size,
     MsgUpdateParamsResponse |-> MsgUpdateParamsResponse_Size,
     MsgRegisterTrustedIssuer |-> MsgRegisterTrustedIssuer_Size,
     MsgRegisterTrustedIssuerResponse |-> MsgRegisterTrustedIssuerResponse_Size,
     MsgRevokeTrustedIssuer |-> MsgRevokeTrustedIssuer_Size,
     MsgRevokeTrustedIssuerResponse |-> MsgRevokeTrustedIssuerResponse_Size]

=============================================================================
