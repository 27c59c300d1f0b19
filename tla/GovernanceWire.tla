--------------------------- MODULE GovernanceWire ---------------------------
(* The generated codec of x/governance, message by message: see WireTables. *)
EXTENDS WireTables, TLC

-----------------------------------------------------------------------------
(* genesis.pb.go *)

StoreEntry_Unmarshal == <<Bytes("Key"), Bytes("Value")>>
StoreEntry_Marshal == <<Slice("Value", \h12), Slice("Key", \h0a)>>
StoreEntry_Size == <<Slice("Key", 1), Slice("Value", 1)>>

GenesisState_Unmarshal ==
    <<Message("Params", <<"governance", "Params">>),
      Messages("StoreEntries", <<"governance", "StoreEntry">>)>>
GenesisState_Marshal ==
    <<NestedAll("StoreEntries", \h12, <<"governance", "StoreEntry">>),
      Nested("Params", \h0a, <<"governance", "Params">>)>>
GenesisState_Size ==
    <<Nested("Params", 1, <<"governance", "Params">>),
      NestedAll("StoreEntries", 1, <<"governance", "StoreEntry">>)>>

-----------------------------------------------------------------------------
(* governance.pb.go *)

VoteRouteEntry_Unmarshal == <<Text("MsgTypeUrl"), Enum("Route")>>
VoteRouteEntry_Marshal == <<Varint("Route", \h10), Slice("MsgTypeUrl", \h0a)>>
VoteRouteEntry_Size == <<Slice("MsgTypeUrl", 1), Varint("Route", 1)>>

Params_Unmarshal == <<Messages("VoteRoutes", <<"governance", "VoteRouteEntry">>)>>
Params_Marshal == <<NestedAll("VoteRoutes", \h0a, <<"governance", "VoteRouteEntry">>)>>
Params_Size == <<NestedAll("VoteRoutes", 1, <<"governance", "VoteRouteEntry">>)>>

-----------------------------------------------------------------------------
(* query.pb.go *)

QueryParamsRequest_Unmarshal == <<>>
QueryParamsRequest_Marshal == <<>>
QueryParamsRequest_Size == <<>>

QueryParamsResponse_Unmarshal == <<Message("Params", <<"governance", "Params">>)>>
QueryParamsResponse_Marshal == <<Nested("Params", \h0a, <<"governance", "Params">>)>>
QueryParamsResponse_Size == <<Nested("Params", 1, <<"governance", "Params">>)>>

-----------------------------------------------------------------------------
(* tx.pb.go *)

MsgUpdateParams_Unmarshal ==
    <<Text("Authority"), Message("Params", <<"governance", "Params">>)>>
MsgUpdateParams_Marshal ==
    <<Nested("Params", \h12, <<"governance", "Params">>), Slice("Authority", \h0a)>>
MsgUpdateParams_Size ==
    <<Slice("Authority", 1), Nested("Params", 1, <<"governance", "Params">>)>>

MsgUpdateParamsResponse_Unmarshal == <<>>
MsgUpdateParamsResponse_Marshal == <<>>
MsgUpdateParamsResponse_Size == <<>>

-----------------------------------------------------------------------------
(* The messages of the module, by type. *)

GovernanceCases ==
    [StoreEntry |-> StoreEntry_Unmarshal,
     GenesisState |-> GenesisState_Unmarshal,
     VoteRouteEntry |-> VoteRouteEntry_Unmarshal,
     Params |-> Params_Unmarshal,
     QueryParamsRequest |-> QueryParamsRequest_Unmarshal,
     QueryParamsResponse |-> QueryParamsResponse_Unmarshal,
     MsgUpdateParams |-> MsgUpdateParams_Unmarshal,
     MsgUpdateParamsResponse |-> MsgUpdateParamsResponse_Unmarshal]

GovernanceMarshals ==
    [StoreEntry |-> StoreEntry_Marshal,
     GenesisState |-> GenesisState_Marshal,
     VoteRouteEntry |-> VoteRouteEntry_Marshal,
     Params |-> Params_Marshal,
     QueryParamsRequest |-> QueryParamsRequest_Marshal,
     QueryParamsResponse |-> QueryParamsResponse_Marshal,
     MsgUpdateParams |-> MsgUpdateParams_Marshal,
     MsgUpdateParamsResponse |-> MsgUpdateParamsResponse_Marshal]

GovernanceSizes ==
    [StoreEntry |-> StoreEntry_Size,
     GenesisState |-> GenesisState_Size,
     VoteRouteEntry |-> VoteRouteEntry_Size,
     Params |-> Params_Size,
     QueryParamsRequest |-> QueryParamsRequest_Size,
     QueryParamsResponse |-> QueryParamsResponse_Size,
     MsgUpdateParams |-> MsgUpdateParams_Size,
     MsgUpdateParamsResponse |-> MsgUpdateParamsResponse_Size]

=============================================================================
