------------------------------ MODULE CoinWire ------------------------------
(* The generated codec of x/coin, message by message: see WireTables. *)
EXTENDS WireTables, TLC

-----------------------------------------------------------------------------
(* coin.pb.go *)

FeeEntry_Unmarshal == <<Text("MsgTypeUrl"), Text("Fee")>>
FeeEntry_Marshal == <<Slice("Fee", \h12), Slice("MsgTypeUrl", \h0a)>>
FeeEntry_Size == <<Slice("MsgTypeUrl", 1), Slice("Fee", 1)>>

SplitEntry_Unmarshal == <<Text("MsgTypeUrl"), Uint32("ValidatorBps"), Uint32("CompanyBps")>>
SplitEntry_Marshal ==
    <<Varint("CompanyBps", \h18), Varint("ValidatorBps", \h10), Slice("MsgTypeUrl", \h0a)>>
SplitEntry_Size ==
    <<Slice("MsgTypeUrl", 1), Varint("ValidatorBps", 1), Varint("CompanyBps", 1)>>

Params_Unmarshal ==
    <<Messages("Fees", <<"coin", "FeeEntry">>), Text("DefaultFee"), Text("MicroThreshold"),
      Uint64("MicroDailyQuota"), Int64("CoinAgeThresholdSeconds"), Uint32("YoungPenaltyBps"),
      Uint32("OldPenaltyBps"), Messages("Splits", <<"coin", "SplitEntry">>),
      Text("CompanyPayoutAddress"), Text("AgreementExtraSignerFee"),
      Uint32("AgreementFreeSigners"), Uint32("MaxCoinAgeLots")>>
Params_Marshal ==
    <<Varint("MaxCoinAgeLots", \h60), Varint("AgreementFreeSigners", \h58),
      Slice("AgreementExtraSignerFee", \h52), Slice("CompanyPayoutAddress", \h4a),
      NestedAll("Splits", \h42, <<"coin", "SplitEntry">>), Varint("OldPenaltyBps", \h38),
      Varint("YoungPenaltyBps", \h30), Varint("CoinAgeThresholdSeconds", \h28),
      Varint("MicroDailyQuota", \h20), Slice("MicroThreshold", \h1a), Slice("DefaultFee", \h12),
      NestedAll("Fees", \h0a, <<"coin", "FeeEntry">>)>>
Params_Size ==
    <<NestedAll("Fees", 1, <<"coin", "FeeEntry">>), Slice("DefaultFee", 1),
      Slice("MicroThreshold", 1), Varint("MicroDailyQuota", 1),
      Varint("CoinAgeThresholdSeconds", 1), Varint("YoungPenaltyBps", 1),
      Varint("OldPenaltyBps", 1), NestedAll("Splits", 1, <<"coin", "SplitEntry">>),
      Slice("CompanyPayoutAddress", 1), Slice("AgreementExtraSignerFee", 1),
      Varint("AgreementFreeSigners", 1), Varint("MaxCoinAgeLots", 1)>>

CoinLot_Unmarshal == <<Text("Amount"), Int64("AcquiredAt")>>
CoinLot_Marshal == <<Varint("AcquiredAt", \h10), Slice("Amount", \h0a)>>
CoinLot_Size == <<Slice("Amount", 1), Varint("AcquiredAt", 1)>>

CoinAge_Unmarshal == 1 :> Text("Address") @@ 5 :> Messages("Lots", <<"coin", "CoinLot">>)
CoinAge_Marshal == <<NestedAll("Lots", \h2a, <<"coin", "CoinLot">>), Slice("Address", \h0a)>>
CoinAge_Size == <<Slice("Address", 1), NestedAll("Lots", 1, <<"coin", "CoinLot">>)>>

-----------------------------------------------------------------------------
(* genesis.pb.go *)

StoreEntry_Unmarshal == <<Bytes("Key"), Bytes("Value")>>
StoreEntry_Marshal == <<Slice("Value", \h12), Slice("Key", \h0a)>>
StoreEntry_Size == <<Slice("Key", 1), Slice("Value", 1)>>

GenesisState_Unmarshal ==
    <<Message("Params", <<"coin", "Params">>), Messages("CoinAges", <<"coin", "CoinAge">>),
      Messages("StoreEntries", <<"coin", "StoreEntry">>)>>
GenesisState_Marshal ==
    <<NestedAll("StoreEntries", \h1a, <<"coin", "StoreEntry">>),
      NestedAll("CoinAges", \h12, <<"coin", "CoinAge">>),
      Nested("Params", \h0a, <<"coin", "Params">>)>>
GenesisState_Size ==
    <<Nested("Params", 1, <<"coin", "Params">>),
      NestedAll("CoinAges", 1, <<"coin", "CoinAge">>),
      NestedAll("StoreEntries", 1, <<"coin", "StoreEntry">>)>>

-----------------------------------------------------------------------------
(* query.pb.go *)

QueryParamsRequest_Unmarshal == <<>>
QueryParamsRequest_Marshal == <<>>
QueryParamsRequest_Size == <<>>

QueryParamsResponse_Unmarshal == <<Message("Params", <<"coin", "Params">>)>>
QueryParamsResponse_Marshal == <<Nested("Params", \h0a, <<"coin", "Params">>)>>
QueryParamsResponse_Size == <<Nested("Params", 1, <<"coin", "Params">>)>>

QueryCoinAgeRequest_Unmarshal == <<Text("Address")>>
QueryCoinAgeRequest_Marshal == <<Slice("Address", \h0a)>>
QueryCoinAgeRequest_Size == <<Slice("Address", 1)>>

QueryCoinAgeResponse_Unmarshal == <<Message("CoinAge", <<"coin", "CoinAge">>)>>
QueryCoinAgeResponse_Marshal == <<Nested("CoinAge", \h0a, <<"coin", "CoinAge">>)>>
QueryCoinAgeResponse_Size == <<Nested("CoinAge", 1, <<"coin", "CoinAge">>)>>

-----------------------------------------------------------------------------
(* tx.pb.go *)

MsgTransfer_Unmarshal == <<Text("From"), Text("To"), Text("Amount")>>
MsgTransfer_Marshal == <<Slice("Amount", \h1a), Slice("To", \h12), Slice("From", \h0a)>>
MsgTransfer_Size == <<Slice("From", 1), Slice("To", 1), Slice("Amount", 1)>>

MsgTransferResponse_Unmarshal == <<Text("Burned")>>
MsgTransferResponse_Marshal == <<Slice("Burned", \h0a)>>
MsgTransferResponse_Size == <<Slice("Burned", 1)>>

MsgUpdateParams_Unmarshal == <<Text("Authority"), Message("Params", <<"coin", "Params">>)>>
MsgUpdateParams_Marshal ==
    <<Nested("Params", \h12, <<"coin", "Params">>), Slice("Authority", \h0a)>>
MsgUpdateParams_Size == <<Slice("Authority", 1), Nested("Params", 1, <<"coin", "Params">>)>>

MsgUpdateParamsResponse_Unmarshal == <<>>
MsgUpdateParamsResponse_Marshal == <<>>
MsgUpdateParamsResponse_Size == <<>>

MsgWithdrawRevenue_Unmarshal == <<Text("Authority"), Text("Amount")>>
MsgWithdrawRevenue_Marshal == <<Slice("Amount", \h12), Slice("Authority", \h0a)>>
MsgWithdrawRevenue_Size == <<Slice("Authority", 1), Slice("Amount", 1)>>

MsgWithdrawRevenueResponse_Unmarshal == <<>>
MsgWithdrawRevenueResponse_Marshal == <<>>
MsgWithdrawRevenueResponse_Size == <<>>

-----------------------------------------------------------------------------
(* The messages of the module, by type. *)

CoinCases ==
    [FeeEntry |-> FeeEntry_Unmarshal,
     SplitEntry |-> SplitEntry_Unmarshal,
     Params |-> Params_Unmarshal,
     CoinLot |-> CoinLot_Unmarshal,
     CoinAge |-> CoinAge_Unmarshal,
     StoreEntry |-> StoreEntry_Unmarshal,
     GenesisState |-> GenesisState_Unmarshal,
     QueryParamsRequest |-> QueryParamsRequest_Unmarshal,
     QueryParamsResponse |-> QueryParamsResponse_Unmarshal,
     QueryCoinAgeRequest |-> QueryCoinAgeRequest_Unmarshal,
     QueryCoinAgeResponse |-> QueryCoinAgeResponse_Unmarshal,
     MsgTransfer |-> MsgTransfer_Unmarshal,
     MsgTransferResponse |-> MsgTransferResponse_Unmarshal,
     MsgUpdateParams |-> MsgUpdateParams_Unmarshal,
     MsgUpdateParamsResponse |-> MsgUpdateParamsResponse_Unmarshal,
     MsgWithdrawRevenue |-> MsgWithdrawRevenue_Unmarshal,
     MsgWithdrawRevenueResponse |-> MsgWithdrawRevenueResponse_Unmarshal]

CoinMarshals ==
    [FeeEntry |-> FeeEntry_Marshal,
     SplitEntry |-> SplitEntry_Marshal,
     Params |-> Params_Marshal,
     CoinLot |-> CoinLot_Marshal,
     CoinAge |-> CoinAge_Marshal,
     StoreEntry |-> StoreEntry_Marshal,
     GenesisState |-> GenesisState_Marshal,
     QueryParamsRequest |-> QueryParamsRequest_Marshal,
     QueryParamsResponse |-> QueryParamsResponse_Marshal,
     QueryCoinAgeRequest |-> QueryCoinAgeRequest_Marshal,
     QueryCoinAgeResponse |-> QueryCoinAgeResponse_Marshal,
     MsgTransfer |-> MsgTransfer_Marshal,
     MsgTransferResponse |-> MsgTransferResponse_Marshal,
     MsgUpdateParams |-> MsgUpdateParams_Marshal,
     MsgUpdateParamsResponse |-> MsgUpdateParamsResponse_Marshal,
     MsgWithdrawRevenue |-> MsgWithdrawRevenue_Marshal,
     MsgWithdrawRevenueResponse |-> MsgWithdrawRevenueResponse_Marshal]

CoinSizes ==
    [FeeEntry |-> FeeEntry_Size,
     SplitEntry |-> SplitEntry_Size,
     Params |-> Params_Size,
     CoinLot |-> CoinLot_Size,
     CoinAge |-> CoinAge_Size,
     StoreEntry |-> StoreEntry_Size,
     GenesisState |-> GenesisState_Size,
     QueryParamsRequest |-> QueryParamsRequest_Size,
     QueryParamsResponse |-> QueryParamsResponse_Size,
     QueryCoinAgeRequest |-> QueryCoinAgeRequest_Size,
     QueryCoinAgeResponse |-> QueryCoinAgeResponse_Size,
     MsgTransfer |-> MsgTransfer_Size,
     MsgTransferResponse |-> MsgTransferResponse_Size,
     MsgUpdateParams |-> MsgUpdateParams_Size,
     MsgUpdateParamsResponse |-> MsgUpdateParamsResponse_Size,
     MsgWithdrawRevenue |-> MsgWithdrawRevenue_Size,
     MsgWithdrawRevenueResponse |-> MsgWithdrawRevenueResponse_Size]

=============================================================================
