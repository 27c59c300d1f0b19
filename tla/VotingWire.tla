----------------------------- MODULE VotingWire -----------------------------
(* The generated codec of x/voting, message by message: see WireTables. *)
EXTENDS WireTables, TLC

-----------------------------------------------------------------------------
(* genesis.pb.go *)

GenesisState_Unmarshal ==
    <<Message("Params", <<"voting", "Params">>),
      Messages("Elections", <<"voting", "Election">>),
      Messages("Ballots", <<"voting", "Ballot">>)>>
GenesisState_Marshal ==
    <<NestedAll("Ballots", \h1a, <<"voting", "Ballot">>),
      NestedAll("Elections", \h12, <<"voting", "Election">>),
      Nested("Params", \h0a, <<"voting", "Params">>)>>
GenesisState_Size ==
    <<Nested("Params", 1, <<"voting", "Params">>),
      NestedAll("Elections", 1, <<"voting", "Election">>),
      NestedAll("Ballots", 1, <<"voting", "Ballot">>)>>

-----------------------------------------------------------------------------
(* query.pb.go *)

QueryParamsRequest_Unmarshal == <<>>
QueryParamsRequest_Marshal == <<>>
QueryParamsRequest_Size == <<>>

QueryParamsResponse_Unmarshal == <<Message("Params", <<"voting", "Params">>)>>
QueryParamsResponse_Marshal == <<Nested("Params", \h0a, <<"voting", "Params">>)>>
QueryParamsResponse_Size == <<Nested("Params", 1, <<"voting", "Params">>)>>

QueryElectionRequest_Unmarshal == <<Text("Id")>>
QueryElectionRequest_Marshal == <<Slice("Id", \h0a)>>
QueryElectionRequest_Size == <<Slice("Id", 1)>>

QueryElectionResponse_Unmarshal == <<Message("Election", <<"voting", "Election">>)>>
QueryElectionResponse_Marshal == <<Nested("Election", \h0a, <<"voting", "Election">>)>>
QueryElectionResponse_Size == <<Nested("Election", 1, <<"voting", "Election">>)>>

QueryVotedRequest_Unmarshal == <<Text("ElectionId"), Text("NullifierHex")>>
QueryVotedRequest_Marshal == <<Slice("NullifierHex", \h12), Slice("ElectionId", \h0a)>>
QueryVotedRequest_Size == <<Slice("ElectionId", 1), Slice("NullifierHex", 1)>>

QueryVotedResponse_Unmarshal == <<Bool("Voted")>>
QueryVotedResponse_Marshal == <<Flag("Voted", \h08)>>
QueryVotedResponse_Size == <<Flag("Voted", 1)>>

-----------------------------------------------------------------------------
(* tx.pb.go *)

MsgCreateElection_Unmarshal ==
    <<Text("Creator"), Text("Id"), Text("Title"), Texts("Options"), Text("RequiredTemplateId"),
      Text("RequiredIssuerDid"), Int64("VotingStart"), Int64("VotingEnd")>>
MsgCreateElection_Marshal ==
    <<Varint("VotingEnd", \h40), Varint("VotingStart", \h38), Slice("RequiredIssuerDid", \h32),
      Slice("RequiredTemplateId", \h2a), Slices("Options", \h22), Slice("Title", \h1a),
      Slice("Id", \h12), Slice("Creator", \h0a)>>
MsgCreateElection_Size ==
    <<Slice("Creator", 1), Slice("Id", 1), Slice("Title", 1), Slices("Options", 1),
      Slice("RequiredTemplateId", 1), Slice("RequiredIssuerDid", 1), Varint("VotingStart", 1),
      Varint("VotingEnd", 1)>>

MsgCreateElectionResponse_Unmarshal == <<>>
MsgCreateElectionResponse_Marshal == <<>>
MsgCreateElectionResponse_Size == <<>>

MsgCastVote_Unmarshal ==
    <<Text("Voter"), Text("ElectionId"), Bytes("Nullifier"), Bytes("EligibilityProof"),
      Uint32("OptionIndex")>>
MsgCastVote_Marshal ==
    <<Varint("OptionIndex", \h28), Slice("EligibilityProof", \h22), Slice("Nullifier", \h1a),
      Slice("ElectionId", \h12), Slice("Voter", \h0a)>>
MsgCastVote_Size ==
    <<Slice("Voter", 1), Slice("ElectionId", 1), Slice("Nullifier", 1),
      Slice("EligibilityProof", 1), Varint("OptionIndex", 1)>>

MsgCastVoteResponse_Unmarshal == <<>>
MsgCastVoteResponse_Marshal == <<>>
MsgCastVoteResponse_Size == <<>>

MsgCloseElection_Unmarshal == <<Text("Creator"), Text("ElectionId")>>
MsgCloseElection_Marshal == <<Slice("ElectionId", \h12), Slice("Creator", \h0a)>>
MsgCloseElection_Size == <<Slice("Creator", 1), Slice("ElectionId", 1)>>

MsgCloseElectionResponse_Unmarshal == <<>>
MsgCloseElectionResponse_Marshal == <<>>
MsgCloseElectionResponse_Size == <<>>

MsgCancelElection_Unmarshal == <<Text("Creator"), Text("ElectionId")>>
MsgCancelElection_Marshal == <<Slice("ElectionId", \h12), Slice("Creator", \h0a)>>
MsgCancelElection_Size == <<Slice("Creator", 1), Slice("ElectionId", 1)>>

MsgCancelElectionResponse_Unmarshal == <<>>
MsgCancelElectionResponse_Marshal == <<>>
MsgCancelElectionResponse_Size == <<>>

MsgUpdateParams_Unmarshal == <<Text("Authority"), Message("Params", <<"voting", "Params">>)>>
MsgUpdateParams_Marshal ==
    <<Nested("Params", \h12, <<"voting", "Params">>), Slice("Authority", \h0a)>>
MsgUpdateParams_Size == <<Slice("Authority", 1), Nested("Params", 1, <<"voting", "Params">>)>>

MsgUpdateParamsResponse_Unmarshal == <<>>
MsgUpdateParamsResponse_Marshal == <<>>
MsgUpdateParamsResponse_Size == <<>>

-----------------------------------------------------------------------------
(* voting.pb.go *)

Election_Unmarshal ==
    <<Text("Id"), Text("Creator"), Text("Title"), Texts("Options"), Text("RequiredTemplateId"),
      Text("RequiredIssuerDid"), Int64("VotingStart"), Int64("VotingEnd"), Enum("Status"),
      Uint64s("OptionTallies"), Uint64("TotalVotes"), Int64("CreatedAt")>>
Election_Marshal ==
    <<Varint("CreatedAt", \h60), Varint("TotalVotes", \h58), Varints("OptionTallies", \h52),
      Varint("Status", \h48), Varint("VotingEnd", \h40), Varint("VotingStart", \h38),
      Slice("RequiredIssuerDid", \h32), Slice("RequiredTemplateId", \h2a),
      Slices("Options", \h22), Slice("Title", \h1a), Slice("Creator", \h12), Slice("Id", \h0a)>>
Election_Size ==
    <<Slice("Id", 1), Slice("Creator", 1), Slice("Title", 1), Slices("Options", 1),
      Slice("RequiredTemplateId", 1), Slice("RequiredIssuerDid", 1), Varint("VotingStart", 1),
      Varint("VotingEnd", 1), Varint("Status", 1), Varints("OptionTallies", 1),
      Varint("TotalVotes", 1), Varint("CreatedAt", 1)>>

Ballot_Unmarshal ==
    <<Text("ElectionId"), Bytes("Nullifier"), Uint32("OptionIndex"), Int64("CastAt")>>
Ballot_Marshal ==
    <<Varint("CastAt", \h20), Varint("OptionIndex", \h18), Slice("Nullifier", \h12),
      Slice("ElectionId", \h0a)>>
Ballot_Size ==
    <<Slice("ElectionId", 1), Slice("Nullifier", 1), Varint("OptionIndex", 1),
      Varint("CastAt", 1)>>

Params_Unmarshal ==
    <<Uint32("MaxOptions"), Int64("MinVotingPeriodSeconds"), Uint32("MaxProofSizeBytes"),
      Int64("MaxVotingPeriodSeconds")>>
Params_Marshal ==
    <<Varint("MaxVotingPeriodSeconds", \h20), Varint("MaxProofSizeBytes", \h18),
      Varint("MinVotingPeriodSeconds", \h10), Varint("MaxOptions", \h08)>>
Params_Size ==
    <<Varint("MaxOptions", 1), Varint("MinVotingPeriodSeconds", 1),
      Varint("MaxProofSizeBytes", 1), Varint("MaxVotingPeriodSeconds", 1)>>

-----------------------------------------------------------------------------
(* The messages of the module, by type. *)

VotingCases ==
    [GenesisState |-> GenesisState_Unmarshal,
     QueryParamsRequest |-> QueryParamsRequest_Unmarshal,
     QueryParamsResponse |-> QueryParamsResponse_Unmarshal,
     QueryElectionRequest |-> QueryElectionRequest_Unmarshal,
     QueryElectionResponse |-> QueryElectionResponse_Unmarshal,
     QueryVotedRequest |-> QueryVotedRequest_Unmarshal,
     QueryVotedResponse |-> QueryVotedResponse_Unmarshal,
     MsgCreateElection |-> MsgCreateElection_Unmarshal,
     MsgCreateElectionResponse |-> MsgCreateElectionResponse_Unmarshal,
     MsgCastVote |-> MsgCastVote_Unmarshal,
     MsgCastVoteResponse |-> MsgCastVoteResponse_Unmarshal,
     MsgCloseElection |-> MsgCloseElection_Unmarshal,
     MsgCloseElectionResponse |-> MsgCloseElectionResponse_Unmarshal,
     MsgCancelElection |-> MsgCancelElection_Unmarshal,
     MsgCancelElectionResponse |-> MsgCancelElectionResponse_Unmarshal,
     MsgUpdateParams |-> MsgUpdateParams_Unmarshal,
     MsgUpdateParamsResponse |-> MsgUpdateParamsResponse_Unmarshal,
     Election |-> Election_Unmarshal,
     Ballot |-> Ballot_Unmarshal,
     Params |-> Params_Unmarshal]

VotingMarshals ==
    [GenesisState |-> GenesisState_Marshal,
     QueryParamsRequest |-> QueryParamsRequest_Marshal,
     QueryParamsResponse |-> QueryParamsResponse_Marshal,
     QueryElectionRequest |-> QueryElectionRequest_Marshal,
     QueryElectionResponse |-> QueryElectionResponse_Marshal,
     QueryVotedRequest |-> QueryVotedRequest_Marshal,
     QueryVotedResponse |-> QueryVotedResponse_Marshal,
     MsgCreateElection |-> MsgCreateElection_Marshal,
     MsgCreateElectionResponse |-> MsgCreateElectionResponse_Marshal,
     MsgCastVote |-> MsgCastVote_Marshal,
     MsgCastVoteResponse |-> MsgCastVoteResponse_Marshal,
     MsgCloseElection |-> MsgCloseElection_Marshal,
     MsgCloseElectionResponse |-> MsgCloseElectionResponse_Marshal,
     MsgCancelElection |-> MsgCancelElection_Marshal,
     MsgCancelElectionResponse |-> MsgCancelElectionResponse_Marshal,
     MsgUpdateParams |-> MsgUpdateParams_Marshal,
     MsgUpdateParamsResponse |-> MsgUpdateParamsResponse_Marshal,
     Election |-> Election_Marshal,
     Ballot |-> Ballot_Marshal,
     Params |-> Params_Marshal]

VotingSizes ==
    [GenesisState |-> GenesisState_Size,
     QueryParamsRequest |-> QueryParamsRequest_Size,
     QueryParamsResponse |-> QueryParamsResponse_Size,
     QueryElectionRequest |-> QueryElectionRequest_Size,
     QueryElectionResponse |-> QueryElectionResponse_Size,
     QueryVotedRequest |-> QueryVotedRequest_Size,
     QueryVotedResponse |-> QueryVotedResponse_Size,
     MsgCreateElection |-> MsgCreateElection_Size,
     MsgCreateElectionResponse |-> MsgCreateElectionResponse_Size,
     MsgCastVote |-> MsgCastVote_Size,
     MsgCastVoteResponse |-> MsgCastVoteResponse_Size,
     MsgCloseElection |-> MsgCloseElection_Size,
     MsgCloseElectionResponse |-> MsgCloseElectionResponse_Size,
     MsgCancelElection |-> MsgCancelElection_Size,
     MsgCancelElectionResponse |-> MsgCancelElectionResponse_Size,
     MsgUpdateParams |-> MsgUpdateParams_Size,
     MsgUpdateParamsResponse |-> MsgUpdateParamsResponse_Size,
     Election |-> Election_Size,
     Ballot |-> Ballot_Size,
     Params |-> Params_Size]

=============================================================================
