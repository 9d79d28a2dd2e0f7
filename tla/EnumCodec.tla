------------------------------ MODULE EnumCodec ------------------------------
(***************************************************************************)
(* The byte encodings of the governance enums (src/runtime-sdk/src/types): *)
(* Role, Action, ProposalState and Vote.  Each is written to storage by    *)
(* one hand-written table (marshal_binary, to_u8) and read back by another *)
(* (from_bytes, the cbor Decode impls); the tables are kept here as the    *)
(* code keeps them, one per function, so that a reader of storage gets     *)
(* back what a writer stored only if the tables agree.  A byte string is a *)
(* sequence of naturals below 256.                                         *)
(***************************************************************************)
EXTENDS Naturals, Sequences

\* the error the decoders return for an unknown or ill-sized input
Malformed == "Malformed"

\* Role::marshal_binary (ROLE_SIZE = 1): not the declaration order
MarshalRole(r) ==
    [Admin |-> 0, MintProposer |-> 1, MintVoter |-> 2, BurnProposer |-> 3,
     BurnVoter |-> 4, WhitelistProposer |-> 5, WhitelistVoter |-> 6,
     BlacklistProposer |-> 7, BlacklistVoter |-> 8, WhitelistedUser |-> 9,
     BlacklistedUser |-> 10, User |-> 11][r]

\* Role::from_bytes, used by Role::try_from and so by the ROLES key parser
\* AddressWithRole::try_from
RoleFromBytes(data) ==
    LET t == <<"Admin", "MintProposer", "MintVoter", "BurnProposer", "BurnVoter",
               "WhitelistProposer", "WhitelistVoter", "BlacklistProposer",
               "BlacklistVoter", "WhitelistedUser", "BlacklistedUser", "User">>
    IN  IF Len(data) = 1 /\ data[1] < Len(t) THEN t[data[1] + 1] ELSE Malformed

\* Faulty variant: the cbor decoder's table with MintProposer and
\* MintVoter swapped.
RoleCborDecodeSwapped(bytes) ==
    LET t == <<"Admin", "MintVoter", "MintProposer", "BurnProposer", "BurnVoter",
               "WhitelistProposer", "WhitelistVoter", "BlacklistProposer",
               "BlacklistVoter", "WhitelistedUser", "BlacklistedUser", "User">>
    IN  IF Len(bytes) = 1 /\ bytes[1] < Len(t) THEN t[bytes[1] + 1] ELSE Malformed

\* cbor::Decode for Role: a one-byte ByteString by its own match (how
\* Account.role is read back)
RoleCborDecode(bytes) ==
    LET t == <<"Admin", "MintProposer", "MintVoter", "BurnProposer", "BurnVoter",
               "WhitelistProposer", "WhitelistVoter", "BlacklistProposer",
               "BlacklistVoter", "WhitelistedUser", "BlacklistedUser", "User">>
    IN  IF Len(bytes) = 1 /\ bytes[1] < Len(t) THEN t[bytes[1] + 1] ELSE Malformed

\* Action::marshal_binary and cbor::Decode for Action
MarshalAction(a) ==
    [NoAction |-> 0, SetRoles |-> 1, Mint |-> 2, Burn |-> 3, Whitelist |-> 4,
     Blacklist |-> 5, Config |-> 6][a]
ActionCborDecode(bytes) ==
    LET t == <<"NoAction", "SetRoles", "Mint", "Burn", "Whitelist", "Blacklist", "Config">>
    IN  IF Len(bytes) = 1 /\ bytes[1] < Len(t) THEN t[bytes[1] + 1] ELSE Malformed

\* ProposalState::marshal_binary and cbor::Decode for ProposalState
MarshalState(s) ==
    [Active |-> 0, Passed |-> 1, Rejected |-> 2, Expired |-> 3, Cancelled |-> 4][s]
StateCborDecode(bytes) ==
    LET t == <<"Active", "Passed", "Rejected", "Expired", "Cancelled">>
    IN  IF Len(bytes) = 1 /\ bytes[1] < Len(t) THEN t[bytes[1] + 1] ELSE Malformed

\* Vote::to_u8 (an Unsigned, not a ByteString) and cbor::Decode for Vote
VoteToU8(v) == [VoteYes |-> 0, VoteNo |-> 1, VoteAbstain |-> 2][v]
VoteCborDecode(u) ==
    CASE u = 0 -> "VoteYes" [] u = 1 -> "VoteNo" [] u = 2 -> "VoteAbstain"
      [] OTHER -> Malformed

=============================================================================
