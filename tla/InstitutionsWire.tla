-------------------------- MODULE InstitutionsWire --------------------------
(* The generated codec of x/institutions, message by message: see WireTables. *)
EXTENDS WireTables, TLC

-----------------------------------------------------------------------------
(* genesis.pb.go *)

StoreEntry_Unmarshal == <<Bytes("Key"), Bytes("Value")>>
StoreEntry_Marshal == <<Slice("Value", \h12), Slice("Key", \h0a)>>
StoreEntry_Size == <<Slice("Key", 1), Slice("Value", 1)>>

GenesisState_Unmarshal ==
    <<Message("Params", <<"institutions", "Params">>),
      Messages("Institutions", <<"institutions", "Institution">>),
      Messages("RoleGrants", <<"institutions", "RoleGrant">>),
      Messages("FxRequests", <<"institutions", "FxEntryRequest">>),
      Messages("DepositMarkers", <<"institutions", "StoreEntry">>),
      Messages("CapCounters", <<"institutions", "StoreEntry">>),
      Messages("Approvals", <<"institutions", "StoreEntry">>),
      Messages("StoreEntries", <<"institutions", "StoreEntry">>)>>
GenesisState_Marshal ==
    <<NestedAll("StoreEntries", \h42, <<"institutions", "StoreEntry">>),
      NestedAll("Approvals", \h3a, <<"institutions", "StoreEntry">>),
      NestedAll("CapCounters", \h32, <<"institutions", "StoreEntry">>),
      NestedAll("DepositMarkers", \h2a, <<"institutions", "StoreEntry">>),
      NestedAll("FxRequests", \h22, <<"institutions", "FxEntryRequest">>),
      NestedAll("RoleGrants", \h1a, <<"institutions", "RoleGrant">>),
      NestedAll("Institutions", \h12, <<"institutions", "Institution">>),
      Nested("Params", \h0a, <<"institutions", "Params">>)>>
GenesisState_Size ==
    <<Nested("Params", 1, <<"institutions", "Params">>),
      NestedAll("Institutions", 1, <<"institutions", "Institution">>),
      NestedAll("RoleGrants", 1, <<"institutions", "RoleGrant">>),
      NestedAll("FxRequests", 1, <<"institutions", "FxEntryRequest">>),
      NestedAll("DepositMarkers", 1, <<"institutions", "StoreEntry">>),
      NestedAll("CapCounters", 1, <<"institutions", "StoreEntry">>),
      NestedAll("Approvals", 1, <<"institutions", "StoreEntry">>),
      NestedAll("StoreEntries", 1, <<"institutions", "StoreEntry">>)>>

-----------------------------------------------------------------------------
(* institutions.pb.go *)

Institution_Unmarshal ==
    <<Text("Id"), Text("License"), Text("Admin"), Text("VaultAccount"), Text("VaultApi"),
      Text("Bond"), Enum("Status"), Text("VaultBalance"), Text("AttestedReserve"),
      Bool("PausedMint"), Message("AppConfig", <<"institutions", "InstitutionAppConfig">>),
      Message("Params", <<"institutions", "InstitutionParams">>), Enum("InstitutionType"),
      Bytes("DepositPubkey"), Int64("LastAttestedAt")>>
Institution_Marshal ==
    <<Varint("LastAttestedAt", \h78), Slice("DepositPubkey", \h72),
      Varint("InstitutionType", \h68),
      Nested("Params", \h62, <<"institutions", "InstitutionParams">>),
      Nested("AppConfig", \h5a, <<"institutions", "InstitutionAppConfig">>),
      Flag("PausedMint", \h50), Slice("AttestedReserve", \h4a), Slice("VaultBalance", \h42),
      Varint("Status", \h38), Slice("Bond", \h32), Slice("VaultApi", \h2a),
      Slice("VaultAccount", \h22), Slice("Admin", \h1a), Slice("License", \h12),
      Slice("Id", \h0a)>>
Institution_Size ==
    <<Slice("Id", 1), Slice("License", 1), Slice("Admin", 1), Slice("VaultAccount", 1),
      Slice("VaultApi", 1), Slice("Bond", 1), Varint("Status", 1), Slice("VaultBalance", 1),
      Slice("AttestedReserve", 1), Flag("PausedMint", 1),
      Nested("AppConfig", 1, <<"institutions", "InstitutionAppConfig">>),
      Nested("Params", 1, <<"institutions", "InstitutionParams">>),
      Varint("InstitutionType", 1), Slice("DepositPubkey", 1), Varint("LastAttestedAt", 1)>>

AppServices_Unmarshal ==
    <<Bool("MintEnabled"), Bool("RedeemEnabled"), Bool("WithdrawEnabled"),
      Bool("ShowLiveScanLink"), Bool("ShowSupportContact"), Bool("ShowGuide")>>
AppServices_Marshal ==
    <<Flag("ShowGuide", \h30), Flag("ShowSupportContact", \h28), Flag("ShowLiveScanLink", \h20),
      Flag("WithdrawEnabled", \h18), Flag("RedeemEnabled", \h10), Flag("MintEnabled", \h08)>>
AppServices_Size ==
    <<Flag("MintEnabled", 1), Flag("RedeemEnabled", 1), Flag("WithdrawEnabled", 1),
      Flag("ShowLiveScanLink", 1), Flag("ShowSupportContact", 1), Flag("ShowGuide", 1)>>

InstitutionAppConfig_Unmarshal ==
    <<Message("Services", <<"institutions", "AppServices">>), Text("LiveScanUrl"),
      Text("LiveScanDomain"), Text("DisplayNameFa"), Text("DisplayNameEn"), Bytes("LogoHash"),
      Text("SupportContact")>>
InstitutionAppConfig_Marshal ==
    <<Slice("SupportContact", \h3a), Slice("LogoHash", \h32), Slice("DisplayNameEn", \h2a),
      Slice("DisplayNameFa", \h22), Slice("LiveScanDomain", \h1a), Slice("LiveScanUrl", \h12),
      Nested("Services", \h0a, <<"institutions", "AppServices">>)>>
InstitutionAppConfig_Size ==
    <<Nested("Services", 1, <<"institutions", "AppServices">>), Slice("LiveScanUrl", 1),
      Slice("LiveScanDomain", 1), Slice("DisplayNameFa", 1), Slice("DisplayNameEn", 1),
      Slice("LogoHash", 1), Slice("SupportContact", 1)>>

Caps_Unmarshal ==
    <<Text("MintDaily"), Text("MintPerTx"), Text("MintPerUser"), Text("RedeemDaily"),
      Text("RedeemPerTx"), Text("RedeemPerUser")>>
Caps_Marshal ==
    <<Slice("RedeemPerUser", \h32), Slice("RedeemPerTx", \h2a), Slice("RedeemDaily", \h22),
      Slice("MintPerUser", \h1a), Slice("MintPerTx", \h12), Slice("MintDaily", \h0a)>>
Caps_Size ==
    <<Slice("MintDaily", 1), Slice("MintPerTx", 1), Slice("MintPerUser", 1),
      Slice("RedeemDaily", 1), Slice("RedeemPerTx", 1), Slice("RedeemPerUser", 1)>>

AutoSuspendRules_Unmarshal == 3 :> Uint64("MaxVaultAttestationLatencyS")
AutoSuspendRules_Marshal == <<Varint("MaxVaultAttestationLatencyS", \h18)>>
AutoSuspendRules_Size == <<Varint("MaxVaultAttestationLatencyS", 1)>>

KycTierLimit_Unmarshal == <<Uint32("Tier"), Text("DailyLimitToman")>>
KycTierLimit_Marshal == <<Slice("DailyLimitToman", \h12), Varint("Tier", \h08)>>
KycTierLimit_Size == <<Varint("Tier", 1), Slice("DailyLimitToman", 1)>>

InstitutionParams_Unmarshal ==
    1 :> Message("Caps", <<"institutions", "Caps">>) @@
    2 :> Messages("KycTierLimits", <<"institutions", "KycTierLimit">>) @@
    3 :> Message("AutoSuspendRules", <<"institutions", "AutoSuspendRules">>) @@
    4 :> Text("VaultApiEndpoint") @@ 6 :> Uint32("SensitiveThreshold")
InstitutionParams_Marshal ==
    <<Varint("SensitiveThreshold", \h30), Slice("VaultApiEndpoint", \h22),
      Nested("AutoSuspendRules", \h1a, <<"institutions", "AutoSuspendRules">>),
      NestedAll("KycTierLimits", \h12, <<"institutions", "KycTierLimit">>),
      Nested("Caps", \h0a, <<"institutions", "Caps">>)>>
InstitutionParams_Size ==
    <<Nested("Caps", 1, <<"institutions", "Caps">>),
      NestedAll("KycTierLimits", 1, <<"institutions", "KycTierLimit">>),
      Nested("AutoSuspendRules", 1, <<"institutions", "AutoSuspendRules">>),
      Slice("VaultApiEndpoint", 1), Varint("SensitiveThreshold", 1)>>

RoleGrant_Unmarshal == <<Text("Institution"), Text("Address"), Enum("Role")>>
RoleGrant_Marshal ==
    <<Varint("Role", \h18), Slice("Address", \h12), Slice("Institution", \h0a)>>
RoleGrant_Size == <<Slice("Institution", 1), Slice("Address", 1), Varint("Role", 1)>>

FxEntryRequest_Unmarshal ==
    <<Text("FxId"), Text("Applicant"), Text("License"), Text("GuarantorId"), Enum("Status")>>
FxEntryRequest_Marshal ==
    <<Varint("Status", \h28), Slice("GuarantorId", \h22), Slice("License", \h1a),
      Slice("Applicant", \h12), Slice("FxId", \h0a)>>
FxEntryRequest_Size ==
    <<Slice("FxId", 1), Slice("Applicant", 1), Slice("License", 1), Slice("GuarantorId", 1),
      Varint("Status", 1)>>

EmergencyRedemption_Unmarshal ==
    <<Bool("Active"), Int64("StartedAt"), Text("CapBeforeDay30"), Text("CapFromDay30"),
      Text("CapFromDay60")>>
EmergencyRedemption_Marshal ==
    <<Slice("CapFromDay60", \h2a), Slice("CapFromDay30", \h22), Slice("CapBeforeDay30", \h1a),
      Varint("StartedAt", \h10), Flag("Active", \h08)>>
EmergencyRedemption_Size ==
    <<Flag("Active", 1), Varint("StartedAt", 1), Slice("CapBeforeDay30", 1),
      Slice("CapFromDay30", 1), Slice("CapFromDay60", 1)>>

Params_Unmarshal ==
    <<Text("Operator"), Uint64("PhiToToman"), Text("RedeemFloorPerTx"),
      Message("EmergencyRedemption", <<"institutions", "EmergencyRedemption">>),
      Text("PenaltyDestination"), Text("LargeMintThresholdToman"), Text("MintCeilingPerTx"),
      Text("MintCeilingDaily"), Text("RedeemDailyCapPerDidUphi"), Uint32("ProtocolFeeBps"),
      Uint64("MaxAttestationStalenessSeconds")>>
Params_Marshal ==
    <<Varint("MaxAttestationStalenessSeconds", \h58), Varint("ProtocolFeeBps", \h50),
      Slice("RedeemDailyCapPerDidUphi", \h4a), Slice("MintCeilingDaily", \h42),
      Slice("MintCeilingPerTx", \h3a), Slice("LargeMintThresholdToman", \h32),
      Slice("PenaltyDestination", \h2a),
      Nested("EmergencyRedemption", \h22, <<"institutions", "EmergencyRedemption">>),
      Slice("RedeemFloorPerTx", \h1a), Varint("PhiToToman", \h10), Slice("Operator", \h0a)>>
Params_Size ==
    <<Slice("Operator", 1), Varint("PhiToToman", 1), Slice("RedeemFloorPerTx", 1),
      Nested("EmergencyRedemption", 1, <<"institutions", "EmergencyRedemption">>),
      Slice("PenaltyDestination", 1), Slice("LargeMintThresholdToman", 1),
      Slice("MintCeilingPerTx", 1), Slice("MintCeilingDaily", 1),
      Slice("RedeemDailyCapPerDidUphi", 1), Varint("ProtocolFeeBps", 1),
      Varint("MaxAttestationStalenessSeconds", 1)>>

-----------------------------------------------------------------------------
(* query.pb.go *)

QueryParamsRequest_Unmarshal == <<>>
QueryParamsRequest_Marshal == <<>>
QueryParamsRequest_Size == <<>>

QueryParamsResponse_Unmarshal == <<Message("Params", <<"institutions", "Params">>)>>
QueryParamsResponse_Marshal == <<Nested("Params", \h0a, <<"institutions", "Params">>)>>
QueryParamsResponse_Size == <<Nested("Params", 1, <<"institutions", "Params">>)>>

QueryInstitutionRequest_Unmarshal == <<Text("Id")>>
QueryInstitutionRequest_Marshal == <<Slice("Id", \h0a)>>
QueryInstitutionRequest_Size == <<Slice("Id", 1)>>

QueryInstitutionResponse_Unmarshal ==
    <<Message("Institution", <<"institutions", "Institution">>), Bool("AttestationStale"),
      Uint64("EffectiveStalenessSeconds")>>
QueryInstitutionResponse_Marshal ==
    <<Varint("EffectiveStalenessSeconds", \h18), Flag("AttestationStale", \h10),
      Nested("Institution", \h0a, <<"institutions", "Institution">>)>>
QueryInstitutionResponse_Size ==
    <<Nested("Institution", 1, <<"institutions", "Institution">>), Flag("AttestationStale", 1),
      Varint("EffectiveStalenessSeconds", 1)>>

QueryInstitutionsRequest_Unmarshal == <<>>
QueryInstitutionsRequest_Marshal == <<>>
QueryInstitutionsRequest_Size == <<>>

QueryInstitutionsResponse_Unmarshal ==
    <<Messages("Institutions", <<"institutions", "Institution">>)>>
QueryInstitutionsResponse_Marshal ==
    <<NestedAll("Institutions", \h0a, <<"institutions", "Institution">>)>>
QueryInstitutionsResponse_Size ==
    <<NestedAll("Institutions", 1, <<"institutions", "Institution">>)>>

QuerySolvencyRequest_Unmarshal == <<>>
QuerySolvencyRequest_Marshal == <<>>
QuerySolvencyRequest_Size == <<>>

QuerySolvencyResponse_Unmarshal ==
    <<Text("TotalSupplyUphi"), Text("SumVaultBalanceToman"), Bool("Solvent")>>
QuerySolvencyResponse_Marshal ==
    <<Flag("Solvent", \h18), Slice("SumVaultBalanceToman", \h12),
      Slice("TotalSupplyUphi", \h0a)>>
QuerySolvencyResponse_Size ==
    <<Slice("TotalSupplyUphi", 1), Slice("SumVaultBalanceToman", 1), Flag("Solvent", 1)>>

-----------------------------------------------------------------------------
(* tx.pb.go *)

MsgRegisterInstitution_Unmarshal ==
    <<Text("Operator"), Text("Id"), Text("License"), Text("Admin"), Text("VaultAccount"),
      Text("VaultApi"), Text("Bond"), Enum("InstitutionType")>>
MsgRegisterInstitution_Marshal ==
    <<Varint("InstitutionType", \h40), Slice("Bond", \h3a), Slice("VaultApi", \h32),
      Slice("VaultAccount", \h2a), Slice("Admin", \h22), Slice("License", \h1a),
      Slice("Id", \h12), Slice("Operator", \h0a)>>
MsgRegisterInstitution_Size ==
    <<Slice("Operator", 1), Slice("Id", 1), Slice("License", 1), Slice("Admin", 1),
      Slice("VaultAccount", 1), Slice("VaultApi", 1), Slice("Bond", 1),
      Varint("InstitutionType", 1)>>

MsgRegisterInstitutionResponse_Unmarshal == <<>>
MsgRegisterInstitutionResponse_Marshal == <<>>
MsgRegisterInstitutionResponse_Size == <<>>

MsgRemoveInstitution_Unmarshal == <<Text("Operator"), Text("Id")>>
MsgRemoveInstitution_Marshal == <<Slice("Id", \h12), Slice("Operator", \h0a)>>
MsgRemoveInstitution_Size == <<Slice("Operator", 1), Slice("Id", 1)>>

MsgRemoveInstitutionResponse_Unmarshal == <<>>
MsgRemoveInstitutionResponse_Marshal == <<>>
MsgRemoveInstitutionResponse_Size == <<>>

MsgInstitutionMint_Unmarshal ==
    <<Text("Admin"), Text("Institution"), Text("Recipient"), Text("AmountToman"),
      Bytes("DepositProof"), Text("DepositRef"), Text("FxCurrency"), Text("FxAmount"),
      Text("FxTxRef"), Uint32("KycTier")>>
MsgInstitutionMint_Marshal ==
    <<Varint("KycTier", \h50), Slice("FxTxRef", \h4a), Slice("FxAmount", \h42),
      Slice("FxCurrency", \h3a), Slice("DepositRef", \h32), Slice("DepositProof", \h2a),
      Slice("AmountToman", \h22), Slice("Recipient", \h1a), Slice("Institution", \h12),
      Slice("Admin", \h0a)>>
MsgInstitutionMint_Size ==
    <<Slice("Admin", 1), Slice("Institution", 1), Slice("Recipient", 1),
      Slice("AmountToman", 1), Slice("DepositProof", 1), Slice("DepositRef", 1),
      Slice("FxCurrency", 1), Slice("FxAmount", 1), Slice("FxTxRef", 1), Varint("KycTier", 1)>>

MsgInstitutionMintResponse_Unmarshal == <<Text("MintedUphi")>>
MsgInstitutionMintResponse_Marshal == <<Slice("MintedUphi", \h0a)>>
MsgInstitutionMintResponse_Size == <<Slice("MintedUphi", 1)>>

MsgInstitutionRedeem_Unmarshal ==
    <<Text("Admin"), Text("Institution"), Text("Holder"), Text("AmountToman"),
      Text("RedeemRef"), Text("FxCurrency"), Text("FxAmount"), Text("FxTxRef"),
      Uint32("KycTier")>>
MsgInstitutionRedeem_Marshal ==
    <<Varint("KycTier", \h48), Slice("FxTxRef", \h42), Slice("FxAmount", \h3a),
      Slice("FxCurrency", \h32), Slice("RedeemRef", \h2a), Slice("AmountToman", \h22),
      Slice("Holder", \h1a), Slice("Institution", \h12), Slice("Admin", \h0a)>>
MsgInstitutionRedeem_Size ==
    <<Slice("Admin", 1), Slice("Institution", 1), Slice("Holder", 1), Slice("AmountToman", 1),
      Slice("RedeemRef", 1), Slice("FxCurrency", 1), Slice("FxAmount", 1), Slice("FxTxRef", 1),
      Varint("KycTier", 1)>>

MsgInstitutionRedeemResponse_Unmarshal == <<Text("BurnedUphi")>>
MsgInstitutionRedeemResponse_Marshal == <<Slice("BurnedUphi", \h0a)>>
MsgInstitutionRedeemResponse_Size == <<Slice("BurnedUphi", 1)>>

MsgPublishInstitutionAttestation_Unmarshal ==
    <<Text("Admin"), Text("Institution"), Text("AttestedReserve"), Bytes("ReportHash")>>
MsgPublishInstitutionAttestation_Marshal ==
    <<Slice("ReportHash", \h22), Slice("AttestedReserve", \h1a), Slice("Institution", \h12),
      Slice("Admin", \h0a)>>
MsgPublishInstitutionAttestation_Size ==
    <<Slice("Admin", 1), Slice("Institution", 1), Slice("AttestedReserve", 1),
      Slice("ReportHash", 1)>>

MsgPublishInstitutionAttestationResponse_Unmarshal == <<>>
MsgPublishInstitutionAttestationResponse_Marshal == <<>>
MsgPublishInstitutionAttestationResponse_Size == <<>>

MsgFreezeInstitution_Unmarshal == <<Text("Operator"), Text("Id"), Bool("Frozen")>>
MsgFreezeInstitution_Marshal ==
    <<Flag("Frozen", \h18), Slice("Id", \h12), Slice("Operator", \h0a)>>
MsgFreezeInstitution_Size == <<Slice("Operator", 1), Slice("Id", 1), Flag("Frozen", 1)>>

MsgFreezeInstitutionResponse_Unmarshal == <<>>
MsgFreezeInstitutionResponse_Marshal == <<>>
MsgFreezeInstitutionResponse_Size == <<>>

MsgUpdateParams_Unmarshal ==
    <<Text("Authority"), Message("Params", <<"institutions", "Params">>)>>
MsgUpdateParams_Marshal ==
    <<Nested("Params", \h12, <<"institutions", "Params">>), Slice("Authority", \h0a)>>
MsgUpdateParams_Size ==
    <<Slice("Authority", 1), Nested("Params", 1, <<"institutions", "Params">>)>>

MsgUpdateParamsResponse_Unmarshal == <<>>
MsgUpdateParamsResponse_Marshal == <<>>
MsgUpdateParamsResponse_Size == <<>>

MsgSetEmergencyRedemption_Unmarshal ==
    <<Text("Authority"), Bool("Active"), Text("CapBeforeDay30"), Text("CapFromDay30"),
      Text("CapFromDay60")>>
MsgSetEmergencyRedemption_Marshal ==
    <<Slice("CapFromDay60", \h2a), Slice("CapFromDay30", \h22), Slice("CapBeforeDay30", \h1a),
      Flag("Active", \h10), Slice("Authority", \h0a)>>
MsgSetEmergencyRedemption_Size ==
    <<Slice("Authority", 1), Flag("Active", 1), Slice("CapBeforeDay30", 1),
      Slice("CapFromDay30", 1), Slice("CapFromDay60", 1)>>

MsgSetEmergencyRedemptionResponse_Unmarshal == <<>>
MsgSetEmergencyRedemptionResponse_Marshal == <<>>
MsgSetEmergencyRedemptionResponse_Size == <<>>

MsgGrantInstitutionRole_Unmarshal ==
    <<Text("Signer"), Text("Institution"), Text("Grantee"), Enum("Role")>>
MsgGrantInstitutionRole_Marshal ==
    <<Varint("Role", \h20), Slice("Grantee", \h1a), Slice("Institution", \h12),
      Slice("Signer", \h0a)>>
MsgGrantInstitutionRole_Size ==
    <<Slice("Signer", 1), Slice("Institution", 1), Slice("Grantee", 1), Varint("Role", 1)>>

MsgGrantInstitutionRoleResponse_Unmarshal ==
    <<Bool("Executed"), Uint32("Approvals"), Uint32("Threshold")>>
MsgGrantInstitutionRoleResponse_Marshal ==
    <<Varint("Threshold", \h18), Varint("Approvals", \h10), Flag("Executed", \h08)>>
MsgGrantInstitutionRoleResponse_Size ==
    <<Flag("Executed", 1), Varint("Approvals", 1), Varint("Threshold", 1)>>

MsgRevokeInstitutionRole_Unmarshal == <<Text("Signer"), Text("Institution"), Text("Grantee")>>
MsgRevokeInstitutionRole_Marshal ==
    <<Slice("Grantee", \h1a), Slice("Institution", \h12), Slice("Signer", \h0a)>>
MsgRevokeInstitutionRole_Size ==
    <<Slice("Signer", 1), Slice("Institution", 1), Slice("Grantee", 1)>>

MsgRevokeInstitutionRoleResponse_Unmarshal ==
    <<Bool("Executed"), Uint32("Approvals"), Uint32("Threshold")>>
MsgRevokeInstitutionRoleResponse_Marshal ==
    <<Varint("Threshold", \h18), Varint("Approvals", \h10), Flag("Executed", \h08)>>
MsgRevokeInstitutionRoleResponse_Size ==
    <<Flag("Executed", 1), Varint("Approvals", 1), Varint("Threshold", 1)>>

MsgUpdateInstitutionAppConfig_Unmarshal ==
    <<Text("Signer"), Text("Institution"),
      Message("Config", <<"institutions", "InstitutionAppConfig">>)>>
MsgUpdateInstitutionAppConfig_Marshal ==
    <<Nested("Config", \h1a, <<"institutions", "InstitutionAppConfig">>),
      Slice("Institution", \h12), Slice("Signer", \h0a)>>
MsgUpdateInstitutionAppConfig_Size ==
    <<Slice("Signer", 1), Slice("Institution", 1),
      Nested("Config", 1, <<"institutions", "InstitutionAppConfig">>)>>

MsgUpdateInstitutionAppConfigResponse_Unmarshal ==
    <<Bool("Executed"), Uint32("Approvals"), Uint32("Threshold")>>
MsgUpdateInstitutionAppConfigResponse_Marshal ==
    <<Varint("Threshold", \h18), Varint("Approvals", \h10), Flag("Executed", \h08)>>
MsgUpdateInstitutionAppConfigResponse_Size ==
    <<Flag("Executed", 1), Varint("Approvals", 1), Varint("Threshold", 1)>>

MsgUpdateInstitutionParams_Unmarshal ==
    <<Text("Signer"), Text("Institution"),
      Message("Params", <<"institutions", "InstitutionParams">>)>>
MsgUpdateInstitutionParams_Marshal ==
    <<Nested("Params", \h1a, <<"institutions", "InstitutionParams">>),
      Slice("Institution", \h12), Slice("Signer", \h0a)>>
MsgUpdateInstitutionParams_Size ==
    <<Slice("Signer", 1), Slice("Institution", 1),
      Nested("Params", 1, <<"institutions", "InstitutionParams">>)>>

MsgUpdateInstitutionParamsResponse_Unmarshal ==
    <<Bool("Executed"), Uint32("Approvals"), Uint32("Threshold")>>
MsgUpdateInstitutionParamsResponse_Marshal ==
    <<Varint("Threshold", \h18), Varint("Approvals", \h10), Flag("Executed", \h08)>>
MsgUpdateInstitutionParamsResponse_Size ==
    <<Flag("Executed", 1), Varint("Approvals", 1), Varint("Threshold", 1)>>

MsgSetInstitutionDepositKey_Unmarshal ==
    <<Text("Signer"), Text("Institution"), Bytes("DepositPubkey")>>
MsgSetInstitutionDepositKey_Marshal ==
    <<Slice("DepositPubkey", \h1a), Slice("Institution", \h12), Slice("Signer", \h0a)>>
MsgSetInstitutionDepositKey_Size ==
    <<Slice("Signer", 1), Slice("Institution", 1), Slice("DepositPubkey", 1)>>

MsgSetInstitutionDepositKeyResponse_Unmarshal ==
    <<Bool("Executed"), Uint32("Approvals"), Uint32("Threshold")>>
MsgSetInstitutionDepositKeyResponse_Marshal ==
    <<Varint("Threshold", \h18), Varint("Approvals", \h10), Flag("Executed", \h08)>>
MsgSetInstitutionDepositKeyResponse_Size ==
    <<Flag("Executed", 1), Varint("Approvals", 1), Varint("Threshold", 1)>>

MsgRequestFxEntry_Unmarshal ==
    <<Text("Applicant"), Text("FxId"), Text("License"), Text("GuarantorId")>>
MsgRequestFxEntry_Marshal ==
    <<Slice("GuarantorId", \h22), Slice("License", \h1a), Slice("FxId", \h12),
      Slice("Applicant", \h0a)>>
MsgRequestFxEntry_Size ==
    <<Slice("Applicant", 1), Slice("FxId", 1), Slice("License", 1), Slice("GuarantorId", 1)>>

MsgRequestFxEntryResponse_Unmarshal == <<>>
MsgRequestFxEntryResponse_Marshal == <<>>
MsgRequestFxEntryResponse_Size == <<>>

MsgGuaranteeFxEntry_Unmarshal == <<Text("GuarantorAdmin"), Text("FxId"), Bool("Approve")>>
MsgGuaranteeFxEntry_Marshal ==
    <<Flag("Approve", \h18), Slice("FxId", \h12), Slice("GuarantorAdmin", \h0a)>>
MsgGuaranteeFxEntry_Size == <<Slice("GuarantorAdmin", 1), Slice("FxId", 1), Flag("Approve", 1)>>

MsgGuaranteeFxEntryResponse_Unmarshal == <<>>
MsgGuaranteeFxEntryResponse_Marshal == <<>>
MsgGuaranteeFxEntryResponse_Size == <<>>

MsgFinalizeFxEntry_Unmarshal == <<Text("Operator"), Text("FxId"), Uint64("ProposalId")>>
MsgFinalizeFxEntry_Marshal ==
    <<Varint("ProposalId", \h18), Slice("FxId", \h12), Slice("Operator", \h0a)>>
MsgFinalizeFxEntry_Size == <<Slice("Operator", 1), Slice("FxId", 1), Varint("ProposalId", 1)>>

MsgFinalizeFxEntryResponse_Unmarshal == <<>>
MsgFinalizeFxEntryResponse_Marshal == <<>>
MsgFinalizeFxEntryResponse_Size == <<>>

-----------------------------------------------------------------------------
(* The messages of the module, by type. *)

InstitutionsCases ==
    [StoreEntry |-> StoreEntry_Unmarshal,
     GenesisState |-> GenesisState_Unmarshal,
     Institution |-> Institution_Unmarshal,
     AppServices |-> AppServices_Unmarshal,
     InstitutionAppConfig |-> InstitutionAppConfig_Unmarshal,
     Caps |-> Caps_Unmarshal,
     AutoSuspendRules |-> AutoSuspendRules_Unmarshal,
     KycTierLimit |-> KycTierLimit_Unmarshal,
     InstitutionParams |-> InstitutionParams_Unmarshal,
     RoleGrant |-> RoleGrant_Unmarshal,
     FxEntryRequest |-> FxEntryRequest_Unmarshal,
     EmergencyRedemption |-> EmergencyRedemption_Unmarshal,
     Params |-> Params_Unmarshal,
     QueryParamsRequest |-> QueryParamsRequest_Unmarshal,
     QueryParamsResponse |-> QueryParamsResponse_Unmarshal,
     QueryInstitutionRequest |-> QueryInstitutionRequest_Unmarshal,
     QueryInstitutionResponse |-> QueryInstitutionResponse_Unmarshal,
     QueryInstitutionsRequest |-> QueryInstitutionsRequest_Unmarshal,
     QueryInstitutionsResponse |-> QueryInstitutionsResponse_Unmarshal,
     QuerySolvencyRequest |-> QuerySolvencyRequest_Unmarshal,
     QuerySolvencyResponse |-> QuerySolvencyResponse_Unmarshal,
     MsgRegisterInstitution |-> MsgRegisterInstitution_Unmarshal,
     MsgRegisterInstitutionResponse |-> MsgRegisterInstitutionResponse_Unmarshal,
     MsgRemoveInstitution |-> MsgRemoveInstitution_Unmarshal,
     MsgRemoveInstitutionResponse |-> MsgRemoveInstitutionResponse_Unmarshal,
     MsgInstitutionMint |-> MsgInstitutionMint_Unmarshal,
     MsgInstitutionMintResponse |-> MsgInstitutionMintResponse_Unmarshal,
     MsgInstitutionRedeem |-> MsgInstitutionRedeem_Unmarshal,
     MsgInstitutionRedeemResponse |-> MsgInstitutionRedeemResponse_Unmarshal,
     MsgPublishInstitutionAttestation |-> MsgPublishInstitutionAttestation_Unmarshal,
     MsgPublishInstitutionAttestationResponse |-> MsgPublishInstitutionAttestationResponse_Unmarshal,
     MsgFreezeInstitution |-> MsgFreezeInstitution_Unmarshal,
     MsgFreezeInstitutionResponse |-> MsgFreezeInstitutionResponse_Unmarshal,
     MsgUpdateParams |-> MsgUpdateParams_Unmarshal,
     MsgUpdateParamsResponse |-> MsgUpdateParamsResponse_Unmarshal,
     MsgSetEmergencyRedemption |-> MsgSetEmergencyRedemption_Unmarshal,
     MsgSetEmergencyRedemptionResponse |-> MsgSetEmergencyRedemptionResponse_Unmarshal,
     MsgGrantInstitutionRole |-> MsgGrantInstitutionRole_Unmarshal,
     MsgGrantInstitutionRoleResponse |-> MsgGrantInstitutionRoleResponse_Unmarshal,
     MsgRevokeInstitutionRole |-> MsgRevokeInstitutionRole_Unmarshal,
     MsgRevokeInstitutionRoleResponse |-> MsgRevokeInstitutionRoleResponse_Unmarshal,
     MsgUpdateInstitutionAppConfig |-> MsgUpdateInstitutionAppConfig_Unmarshal,
     MsgUpdateInstitutionAppConfigResponse |-> MsgUpdateInstitutionAppConfigResponse_Unmarshal,
     MsgUpdateInstitutionParams |-> MsgUpdateInstitutionParams_Unmarshal,
     MsgUpdateInstitutionParamsResponse |-> MsgUpdateInstitutionParamsResponse_Unmarshal,
     MsgSetInstitutionDepositKey |-> MsgSetInstitutionDepositKey_Unmarshal,
     MsgSetInstitutionDepositKeyResponse |-> MsgSetInstitutionDepositKeyResponse_Unmarshal,
     MsgRequestFxEntry |-> MsgRequestFxEntry_Unmarshal,
     MsgRequestFxEntryResponse |-> MsgRequestFxEntryResponse_Unmarshal,
     MsgGuaranteeFxEntry |-> MsgGuaranteeFxEntry_Unmarshal,
     MsgGuaranteeFxEntryResponse |-> MsgGuaranteeFxEntryResponse_Unmarshal,
     MsgFinalizeFxEntry |-> MsgFinalizeFxEntry_Unmarshal,
     MsgFinalizeFxEntryResponse |-> MsgFinalizeFxEntryResponse_Unmarshal]

InstitutionsMarshals ==
    [StoreEntry |-> StoreEntry_Marshal,
     GenesisState |-> GenesisState_Marshal,
     Institution |-> Institution_Marshal,
     AppServices |-> AppServices_Marshal,
     InstitutionAppConfig |-> InstitutionAppConfig_Marshal,
     Caps |-> Caps_Marshal,
     AutoSuspendRules |-> AutoSuspendRules_Marshal,
     KycTierLimit |-> KycTierLimit_Marshal,
     InstitutionParams |-> InstitutionParams_Marshal,
     RoleGrant |-> RoleGrant_Marshal,
     FxEntryRequest |-> FxEntryRequest_Marshal,
     EmergencyRedemption |-> EmergencyRedemption_Marshal,
     Params |-> Params_Marshal,
     QueryParamsRequest |-> QueryParamsRequest_Marshal,
     QueryParamsResponse |-> QueryParamsResponse_Marshal,
     QueryInstitutionRequest |-> QueryInstitutionRequest_Marshal,
     QueryInstitutionResponse |-> QueryInstitutionResponse_Marshal,
     QueryInstitutionsRequest |-> QueryInstitutionsRequest_Marshal,
     QueryInstitutionsResponse |-> QueryInstitutionsResponse_Marshal,
     QuerySolvencyRequest |-> QuerySolvencyRequest_Marshal,
     QuerySolvencyResponse |-> QuerySolvencyResponse_Marshal,
     MsgRegisterInstitution |-> MsgRegisterInstitution_Marshal,
     MsgRegisterInstitutionResponse |-> MsgRegisterInstitutionResponse_Marshal,
     MsgRemoveInstitution |-> MsgRemoveInstitution_Marshal,
     MsgRemoveInstitutionResponse |-> MsgRemoveInstitutionResponse_Marshal,
     MsgInstitutionMint |-> MsgInstitutionMint_Marshal,
     MsgInstitutionMintResponse |-> MsgInstitutionMintResponse_Marshal,
     MsgInstitutionRedeem |-> MsgInstitutionRedeem_Marshal,
     MsgInstitutionRedeemResponse |-> MsgInstitutionRedeemResponse_Marshal,
     MsgPublishInstitutionAttestation |-> MsgPublishInstitutionAttestation_Marshal,
     MsgPublishInstitutionAttestationResponse |-> MsgPublishInstitutionAttestationResponse_Marshal,
     MsgFreezeInstitution |-> MsgFreezeInstitution_Marshal,
     MsgFreezeInstitutionResponse |-> MsgFreezeInstitutionResponse_Marshal,
     MsgUpdateParams |-> MsgUpdateParams_Marshal,
     MsgUpdateParamsResponse |-> MsgUpdateParamsResponse_Marshal,
     MsgSetEmergencyRedemption |-> MsgSetEmergencyRedemption_Marshal,
     MsgSetEmergencyRedemptionResponse |-> MsgSetEmergencyRedemptionResponse_Marshal,
     MsgGrantInstitutionRole |-> MsgGrantInstitutionRole_Marshal,
     MsgGrantInstitutionRoleResponse |-> MsgGrantInstitutionRoleResponse_Marshal,
     MsgRevokeInstitutionRole |-> MsgRevokeInstitutionRole_Marshal,
     MsgRevokeInstitutionRoleResponse |-> MsgRevokeInstitutionRoleResponse_Marshal,
     MsgUpdateInstitutionAppConfig |-> MsgUpdateInstitutionAppConfig_Marshal,
     MsgUpdateInstitutionAppConfigResponse |-> MsgUpdateInstitutionAppConfigResponse_Marshal,
     MsgUpdateInstitutionParams |-> MsgUpdateInstitutionParams_Marshal,
     MsgUpdateInstitutionParamsResponse |-> MsgUpdateInstitutionParamsResponse_Marshal,
     MsgSetInstitutionDepositKey |-> MsgSetInstitutionDepositKey_Marshal,
     MsgSetInstitutionDepositKeyResponse |-> MsgSetInstitutionDepositKeyResponse_Marshal,
     MsgRequestFxEntry |-> MsgRequestFxEntry_Marshal,
     MsgRequestFxEntryResponse |-> MsgRequestFxEntryResponse_Marshal,
     MsgGuaranteeFxEntry |-> MsgGuaranteeFxEntry_Marshal,
     MsgGuaranteeFxEntryResponse |-> MsgGuaranteeFxEntryResponse_Marshal,
     MsgFinalizeFxEntry |-> MsgFinalizeFxEntry_Marshal,
     MsgFinalizeFxEntryResponse |-> MsgFinalizeFxEntryResponse_Marshal]

InstitutionsSizes ==
    [StoreEntry |-> StoreEntry_Size,
     GenesisState |-> GenesisState_Size,
     Institution |-> Institution_Size,
     AppServices |-> AppServices_Size,
     InstitutionAppConfig |-> InstitutionAppConfig_Size,
     Caps |-> Caps_Size,
     AutoSuspendRules |-> AutoSuspendRules_Size,
     KycTierLimit |-> KycTierLimit_Size,
     InstitutionParams |-> InstitutionParams_Size,
     RoleGrant |-> RoleGrant_Size,
     FxEntryRequest |-> FxEntryRequest_Size,
     EmergencyRedemption |-> EmergencyRedemption_Size,
     Params |-> Params_Size,
     QueryParamsRequest |-> QueryParamsRequest_Size,
     QueryParamsResponse |-> QueryParamsResponse_Size,
     QueryInstitutionRequest |-> QueryInstitutionRequest_Size,
     QueryInstitutionResponse |-> QueryInstitutionResponse_Size,
     QueryInstitutionsRequest |-> QueryInstitutionsRequest_Size,
     QueryInstitutionsResponse |-> QueryInstitutionsResponse_Size,
     QuerySolvencyRequest |-> QuerySolvencyRequest_Size,
     QuerySolvencyResponse |-> QuerySolvencyResponse_Size,
     MsgRegisterInstitution |-> MsgRegisterInstitution_Size,
     MsgRegisterInstitutionResponse |-> MsgRegisterInstitutionResponse_Size,
     MsgRemoveInstitution |-> MsgRemoveInstitution_Size,
     MsgRemoveInstitutionResponse |-> MsgRemoveInstitutionResponse_Size,
     MsgInstitutionMint |-> MsgInstitutionMint_Size,
     MsgInstitutionMintResponse |-> MsgInstitutionMintResponse_Size,
     MsgInstitutionRedeem |-> MsgInstitutionRedeem_Size,
     MsgInstitutionRedeemResponse |-> MsgInstitutionRedeemResponse_Size,
     MsgPublishInstitutionAttestation |-> MsgPublishInstitutionAttestation_Size,
     MsgPublishInstitutionAttestationResponse |-> MsgPublishInstitutionAttestationResponse_Size,
     MsgFreezeInstitution |-> MsgFreezeInstitution_Size,
     MsgFreezeInstitutionResponse |-> MsgFreezeInstitutionResponse_Size,
     MsgUpdateParams |-> MsgUpdateParams_Size,
     MsgUpdateParamsResponse |-> MsgUpdateParamsResponse_Size,
     MsgSetEmergencyRedemption |-> MsgSetEmergencyRedemption_Size,
     MsgSetEmergencyRedemptionResponse |-> MsgSetEmergencyRedemptionResponse_Size,
     MsgGrantInstitutionRole |-> MsgGrantInstitutionRole_Size,
     MsgGrantInstitutionRoleResponse |-> MsgGrantInstitutionRoleResponse_Size,
     MsgRevokeInstitutionRole |-> MsgRevokeInstitutionRole_Size,
     MsgRevokeInstitutionRoleResponse |-> MsgRevokeInstitutionRoleResponse_Size,
     MsgUpdateInstitutionAppConfig |-> MsgUpdateInstitutionAppConfig_Size,
     MsgUpdateInstitutionAppConfigResponse |-> MsgUpdateInstitutionAppConfigResponse_Size,
     MsgUpdateInstitutionParams |-> MsgUpdateInstitutionParams_Size,
     MsgUpdateInstitutionParamsResponse |-> MsgUpdateInstitutionParamsResponse_Size,
     MsgSetInstitutionDepositKey |-> MsgSetInstitutionDepositKey_Size,
     MsgSetInstitutionDepositKeyResponse |-> MsgSetInstitutionDepositKeyResponse_Size,
     MsgRequestFxEntry |-> MsgRequestFxEntry_Size,
     MsgRequestFxEntryResponse |-> MsgRequestFxEntryResponse_Size,
     MsgGuaranteeFxEntry |-> MsgGuaranteeFxEntry_Size,
     MsgGuaranteeFxEntryResponse |-> MsgGuaranteeFxEntryResponse_Size,
     MsgFinalizeFxEntry |-> MsgFinalizeFxEntry_Size,
     MsgFinalizeFxEntryResponse |-> MsgFinalizeFxEntryResponse_Size]

=============================================================================
