----------------------------- MODULE Governance -----------------------------
(***************************************************************************)
(* The governance and native-token handlers of the accounts module         *)
(* (src/runtime-sdk/src/modules/accounts/mod.rs): role assignment by the   *)
(* chain initiator (InitOwners), proposals (Propose), voting with quorum   *)
(* tallies and application of the proposed action (VoteST), and the       *)
(* direct token calls Transfer, MintST and BurnST.                         *)
(*                                                                         *)
(* A handler that returns an error runs inside the transaction overlay,    *)
(* which the dispatcher rolls back, so a failing call leaves this state    *)
(* unchanged: each action below is the successful path of its handler and  *)
(* its guard is the conjunction of the handler's error conditions.  Gas,   *)
(* fees and nonces charged outside the overlay are the Dispatcher module's *)
(* concern.  Only the native denomination is modelled.                     *)
(***************************************************************************)
EXTENDS Naturals, FiniteSets, Functions, EnumCodec

CONSTANTS
    Addr,             \* account addresses (model values)
    ChainInitiator,   \* params.chain_initiator
    NoAddr,           \* ProposalData.address = None
    NoAmount,         \* ProposalData.amount = None
    NoRole,           \* ProposalData.role = None
    MaxU128,          \* stand-in for u128::MAX in checked_add
    MaxProposals,     \* bound on the proposal counter (u32 in the code)
    Amounts,          \* token amounts offered to calls and proposals
    GenesisBalance,   \* genesis.balances (native denomination)
    GenesisRole,      \* roles carried by genesis.accounts
    RoleChoices,      \* roles offered to SetRoles proposals
    InitOwnersBodies, \* bodies offered to InitOwners: Addr-partial role maps
    ConfigChoices,    \* quorum maps offered to Config proposals
    TransfersDisabled, MintstDisabled, BurnstDisabled

ASSUME ChainInitiator \in Addr /\ MaxProposals \in Nat /\ MaxU128 \in Nat

Roles == {"Admin", "MintProposer", "BurnProposer", "WhitelistProposer",
          "BlacklistProposer", "MintVoter", "BurnVoter", "WhitelistVoter",
          "BlacklistVoter", "WhitelistedUser", "BlacklistedUser", "User"}
Actions == {"NoAction", "SetRoles", "Mint", "Burn", "Whitelist", "Blacklist",
            "Config"}
Votes == {"VoteYes", "VoteNo", "VoteAbstain"}
NoVote == "none"
States == {"Active", "Passed", "Rejected", "Expired", "Cancelled"}
\* the five stored quorum keys; SetRoles reads the Config key
QuorumKeys == {"Mint", "Burn", "Whitelist", "Blacklist", "Config"}
ProposalIds == 1..MaxProposals

VARIABLES
    role,        \* ACCOUNTS: Account.role per address
    roleIndex,   \* ROLES: the role bytes of the (address, role) -> true keys
    initDone,    \* ACCOUNTS: Account.init of the chain initiator
    proposalId,  \* PROPOSALS "proposal_id" counter
    proposals,   \* PROPOSALS: id -> Proposal (default where never written)
    quorum,      \* PROPOSALS "proposal_*_quorum" keys
    balance,     \* BALANCES of the native denomination
    totalSupply  \* TOTAL_SUPPLY of the native denomination

vars == <<role, roleIndex, initDone, proposalId, proposals, quorum, balance,
          totalSupply>>

-----------------------------------------------------------------------------
(* Proposals.  content is (action, data) with only the data fields the     *)
(* action reads; voteOption None and an empty map behave alike and are    *)
(* both NoVote for every address.                                         *)

NoVotes == [a \in Addr |-> NoVote]
NoResults == [o \in Votes |-> 0]

Content(act, addr, amt, r, cfg) ==
    [action |-> act, address |-> addr, amount |-> amt, role |-> r, cfg |-> cfg]

\* Proposal::default(): state Active, action NoAction, no results, no votes
DefaultProposal ==
    [state |-> "Active", content |-> Content("NoAction", NoAddr, NoAmount, NoRole, <<>>),
     results |-> NoResults, voteOption |-> NoVotes]

\* get_voter_with_action / get_proposer_with_action
VoterRole(act) ==
    CASE act = "SetRoles" -> "Admin" [] act = "Config" -> "Admin"
      [] act = "Mint" -> "MintVoter" [] act = "Burn" -> "BurnVoter"
      [] act = "Whitelist" -> "WhitelistVoter" [] act = "Blacklist" -> "BlacklistVoter"
      [] act = "NoAction" -> NoRole
ProposerRole(act) ==
    CASE act = "SetRoles" -> "Admin" [] act = "Config" -> "Admin"
      [] act = "Mint" -> "MintProposer" [] act = "Burn" -> "BurnProposer"
      [] act = "Whitelist" -> "WhitelistProposer" [] act = "Blacklist" -> "BlacklistProposer"
      [] act = "NoAction" -> NoRole

\* get_quorum: stored value or 100; SetRoles shares the Config key
QuorumOf(act) == IF act = "SetRoles" THEN quorum["Config"] ELSE quorum[act]

-----------------------------------------------------------------------------
(* Roles *)

\* authenticate_tx: a BlacklistedUser payer is NotAuthenticated, so none of
\* its calls reach a handler
Authenticated(a) == role[a] # "BlacklistedUser"

\* Faulty variant: the removal loop of add_role_to_address left out.
AddRoleToAddressKeep(idx, a, r) ==
    [idx EXCEPT ![a] = IF r = "User" THEN @ ELSE @ \cup {MarshalRole(r)}]

\* add_role_to_address: remove the key of every role of Role::iter() under
\* the address, then insert the new role's byte unless it is User
AddRoleToAddress(idx, a, r) ==
    [idx EXCEPT ![a] = (@ \ {MarshalRole(x) : x \in Roles})
                        \cup (IF r = "User" THEN {} ELSE {MarshalRole(r)})]

\* AddressWithRole::try_from: the role part of a ROLES key is parsed with
\* Role::try_from and kept as its marshal_binary
AddressWithRole(b) == MarshalRole(RoleFromBytes(<<b>>))

\* get_addresses_in_role / get_addrsno_in_role / get_voters_num_with_action:
\* the parsed ROLES keys whose role byte is the voter role's, counted with
\* `addresses.len() as u16`, which keeps the count modulo 2^16
VotersNum(act) ==
    Cardinality({a \in Addr : \E b \in roleIndex[a] :
                                  AddressWithRole(b) = MarshalRole(VoterRole(act))}) % 2^16

\* set_role followed by add_role_to_address
SetRoleAndIndex(a, r) ==
    /\ role' = [role EXCEPT ![a] = r]
    /\ roleIndex' = AddRoleToAddress(roleIndex, a, r)

-----------------------------------------------------------------------------
(* Token primitives: add_amount / sub_amount / inc_ and dec_total_supply *)

\* Faulty variant: mint without the checked_add overflow guard.
MintUnchecked(to, amt) ==
    /\ balance' = [balance EXCEPT ![to] = @ + amt]
    /\ totalSupply' = totalSupply + amt

\* Faulty variant: saturating instead of checked additions.
MintSaturating(to, amt) ==
    LET Sat(x) == IF x > MaxU128 THEN MaxU128 ELSE x
    IN  /\ balance' = [balance EXCEPT ![to] = Sat(@ + amt)]
        /\ totalSupply' = Sat(totalSupply + amt)

Mint(to, amt) ==
    /\ balance[to] + amt <= MaxU128
    /\ totalSupply + amt <= MaxU128
    /\ balance' = [balance EXCEPT ![to] = @ + amt]
    /\ totalSupply' = totalSupply + amt

\* Faulty variant: burn that forgets dec_total_supply.
BurnKeepSupply(from, amt) ==
    /\ balance[from] >= amt
    /\ balance' = [balance EXCEPT ![from] = @ - amt]
    /\ totalSupply' = totalSupply

Burn(from, amt) ==
    /\ balance[from] >= amt
    /\ balance' = [balance EXCEPT ![from] = @ - amt]
    /\ totalSupply' = totalSupply - amt

\* transfer: sub_amount(from) then add_amount(to) on the updated balances
Transfer(from, to, amt) ==
    LET debited == [balance EXCEPT ![from] = @ - amt]
    IN  /\ balance[from] >= amt
        /\ debited[to] + amt <= MaxU128
        /\ balance' = [debited EXCEPT ![to] = @ + amt]

\* check_invariants for the native denomination: the balances of all
\* accounts add up to the total supply
CheckInvariants == SumFunction(balance) = totalSupply

-----------------------------------------------------------------------------
(* Tally of tx_votest *)

\* Faulty variant: the Yes threshold without rounding up.
YesThresholdFloor(n, q) == (n * q) \div 100

\* round-up thresholds (p*q + 99) / 100 for Yes and No
YesThreshold(n, q) == (n * q + 99) \div 100
NoThreshold(n, q) == (n * (100 - q) + 99) \div 100
\* vote_count as f32 >= voter_total as f32 * 0.5
AbstainReached(count, n) == 2 * count >= n

\* Faulty variant: no VoteDup check.
HasVotedNever(p, a) == FALSE

HasVoted(p, a) == p.voteOption[a] # NoVote
IsActive(p) == p.state = "Active"
\* terminal transition: set the state and clear voteOption
Close(p, s) == [p EXCEPT !.state = s, !.voteOption = NoVotes]

\* Faulty variant: the Blacklist arm copied from the Whitelist arm.
ApplyActionCopiedArm(c) ==
    \/ /\ c.action \in {"Mint", "Burn"}
       /\ c.address # NoAddr /\ c.amount # NoAmount
       /\ IF c.action = "Mint" THEN Mint(c.address, c.amount)
                               ELSE Burn(c.address, c.amount)
       /\ UNCHANGED <<role, roleIndex, quorum>>
    \/ /\ c.action \in {"Whitelist", "Blacklist", "SetRoles"}
       /\ c.address # NoAddr
       /\ c.action = "SetRoles" => c.role # NoRole
       /\ SetRoleAndIndex(c.address,
              CASE c.action \in {"Whitelist", "Blacklist"} -> "WhitelistedUser"
                [] c.action = "SetRoles" -> c.role)
       /\ UNCHANGED <<balance, totalSupply, quorum>>
    \/ /\ c.action = "Config"
       /\ quorum' = [k \in QuorumKeys |-> IF k \in DOMAIN c.cfg THEN c.cfg[k] ELSE quorum[k]]
       /\ UNCHANGED <<role, roleIndex, balance, totalSupply>>

\* The match on the action in the Yes branch once the threshold is reached.
ApplyAction(c) ==
    \/ /\ c.action \in {"Mint", "Burn"}
       /\ c.address # NoAddr /\ c.amount # NoAmount
       /\ IF c.action = "Mint" THEN Mint(c.address, c.amount)
                               ELSE Burn(c.address, c.amount)
       /\ UNCHANGED <<role, roleIndex, quorum>>
    \/ /\ c.action \in {"Whitelist", "Blacklist", "SetRoles"}
       /\ c.address # NoAddr
       /\ c.action = "SetRoles" => c.role # NoRole
       /\ SetRoleAndIndex(c.address,
              CASE c.action = "Whitelist" -> "WhitelistedUser"
                [] c.action = "Blacklist" -> "BlacklistedUser"
                [] c.action = "SetRoles" -> c.role)
       /\ UNCHANGED <<balance, totalSupply, quorum>>
    \/ /\ c.action = "Config"
       /\ quorum' = [k \in QuorumKeys |-> IF k \in DOMAIN c.cfg THEN c.cfg[k] ELSE quorum[k]]
       /\ UNCHANGED <<role, roleIndex, balance, totalSupply>>

-----------------------------------------------------------------------------
(* Handlers *)

\* tx_propose.  The counter increment precedes the checks but is rolled back
\* with them; the id bound stands for the u32 CounterOverflow check.
\* Faulty variant: Config proposals accepted without the <= 100 range check.
TargetValidNoRange(c) ==
    CASE c.action \in {"Mint", "Burn"} ->
             c.address # NoAddr /\ role[c.address] = "WhitelistedUser"
      [] c.action = "SetRoles" -> TRUE
      [] c.action = "Config" -> DOMAIN c.cfg # {}
      [] c.action = "Whitelist" ->
             c.address # NoAddr /\ role[c.address] # "BlacklistedUser"
      [] c.action = "Blacklist" ->
             c.address # NoAddr /\ role[c.address] = "User"
      [] c.action = "NoAction" -> FALSE

TargetValid(c) ==
    CASE c.action \in {"Mint", "Burn"} ->
             c.address # NoAddr /\ role[c.address] = "WhitelistedUser"
      [] c.action = "SetRoles" -> TRUE
      [] c.action = "Config" ->
             DOMAIN c.cfg # {} /\ \A k \in DOMAIN c.cfg : c.cfg[k] <= 100
      [] c.action = "Whitelist" ->
             c.address # NoAddr /\ role[c.address] # "BlacklistedUser"
      [] c.action = "Blacklist" ->
             c.address # NoAddr /\ role[c.address] = "User"
      [] c.action = "NoAction" -> FALSE

\* Faulty variant: the proposal stored under the counter read before the
\* increment (ids would still start at 1, then repeat).
ProposalSlotStale(n) == IF n = 0 THEN 1 ELSE n

\* get_and_increment_proposal_id: the id of the new proposal
ProposalSlot(n) == n + 1

Propose(a, c) ==
    /\ Authenticated(a)
    /\ proposalId < MaxProposals
    /\ ProposerRole(c.action) # NoRole /\ VoterRole(c.action) # NoRole
    /\ role[a] \in {ProposerRole(c.action), VoterRole(c.action)}
    /\ TargetValid(c)
    /\ proposalId' = proposalId + 1
    /\ proposals' = [proposals EXCEPT ![ProposalSlot(proposalId)] =
                        [DefaultProposal EXCEPT !.content = c]]
    /\ UNCHANGED <<role, roleIndex, initDone, quorum, balance, totalSupply>>

\* tx_votest on proposal id with option o by caller a
VoteST(a, id, o) ==
    LET p == proposals[id]
        act == p.content.action
        n == VotersNum(act)
        q == QuorumOf(act)
        count == p.results[o] + 1
        voted == [p EXCEPT !.voteOption[a] = o, !.results[o] = count]
        Save(np) == proposals' = [proposals EXCEPT ![id] = np]
    IN  /\ Authenticated(a)
        /\ ~HasVoted(p, a)
        /\ IsActive(p)
        /\ VoterRole(act) # NoRole /\ role[a] = VoterRole(act)
        /\ q <= 100
        /\ \/ /\ o = "VoteYes" /\ count >= YesThreshold(n, q)
              /\ ApplyAction(p.content)
              /\ Save(Close(voted, "Passed"))
           \/ /\ o = "VoteNo" /\ count >= NoThreshold(n, q)
              /\ Save(Close(voted, "Rejected"))
              /\ UNCHANGED <<role, roleIndex, quorum, balance, totalSupply>>
           \/ /\ o = "VoteAbstain" /\ AbstainReached(count, n)
              /\ Save(Close(voted, "Cancelled"))
              /\ UNCHANGED <<role, roleIndex, quorum, balance, totalSupply>>
           \/ /\ \/ o = "VoteYes" /\ count < YesThreshold(n, q)
                 \/ o = "VoteNo" /\ count < NoThreshold(n, q)
                 \/ o = "VoteAbstain" /\ ~AbstainReached(count, n)
              /\ Save(voted)
              /\ UNCHANGED <<role, roleIndex, quorum, balance, totalSupply>>
        /\ UNCHANGED <<initDone, proposalId>>

\* tx_initowners: only the chain initiator, only once; a second call is Ok
\* and changes nothing.  body is a map address -> role (later pairs of the
\* list win, as the calls are sequential).
InitOwners(a, body) ==
    /\ Authenticated(a)
    /\ a = ChainInitiator
    /\ ~initDone
    /\ initDone' = TRUE
    /\ role' = [x \in Addr |-> IF x \in DOMAIN body THEN body[x] ELSE role[x]]
    /\ roleIndex' = [x \in Addr |-> IF x \in DOMAIN body
                                    THEN AddRoleToAddress(roleIndex, x, body[x])[x]
                                    ELSE roleIndex[x]]
    /\ UNCHANGED <<proposalId, proposals, quorum, balance, totalSupply>>

\* tx_transfer
TxTransfer(a, to, amt) ==
    /\ Authenticated(a)
    /\ ~TransfersDisabled
    /\ Transfer(a, to, amt)
    /\ UNCHANGED <<role, roleIndex, initDone, proposalId, proposals, quorum, totalSupply>>

\* tx_mintst: no check on the caller
TxMintST(a, to, amt) ==
    /\ Authenticated(a)
    /\ ~MintstDisabled
    /\ Mint(to, amt)
    /\ UNCHANGED <<role, roleIndex, initDone, proposalId, proposals, quorum>>

\* tx_burnst: the chain initiator burns from its own balance
TxBurnST(a, amt) ==
    /\ Authenticated(a)
    /\ ~BurnstDisabled
    /\ a = ChainInitiator
    /\ Burn(a, amt)
    /\ UNCHANGED <<role, roleIndex, initDone, proposalId, proposals, quorum>>

-----------------------------------------------------------------------------

\* genesis: accounts (with their roles) and balances are written; the ROLES
\* index is not, and init asserts the computed supply equals the declared one
Init ==
    /\ role = GenesisRole
    /\ roleIndex = [a \in Addr |-> {}]
    /\ initDone = FALSE
    /\ proposalId = 0
    /\ proposals = [i \in ProposalIds |-> DefaultProposal]
    /\ quorum = [k \in QuorumKeys |-> 100]
    /\ balance = GenesisBalance
    /\ totalSupply = SumFunction(GenesisBalance)

AddrOpt == Addr \cup {NoAddr}
ProposalContents ==
    {Content(act, ad, am, NoRole, <<>>) :
        act \in {"Mint", "Burn"}, ad \in AddrOpt, am \in Amounts \cup {NoAmount}}
    \cup {Content(act, ad, NoAmount, NoRole, <<>>) :
        act \in {"Whitelist", "Blacklist"}, ad \in AddrOpt}
    \cup {Content("SetRoles", ad, NoAmount, r, <<>>) :
        ad \in AddrOpt, r \in RoleChoices \cup {NoRole}}
    \cup {Content("Config", NoAddr, NoAmount, NoRole, cfg) : cfg \in ConfigChoices}

Next ==
    \E a \in Addr :
        \/ \E c \in ProposalContents : Propose(a, c)
        \/ \E id \in ProposalIds, o \in Votes : VoteST(a, id, o)
        \/ \E body \in InitOwnersBodies : InitOwners(a, body)
        \/ \E to \in Addr, amt \in Amounts : TxTransfer(a, to, amt)
        \/ \E to \in Addr, amt \in Amounts : TxMintST(a, to, amt)
        \/ \E amt \in Amounts : TxBurnST(a, amt)

Spec == Init /\ [][Next]_vars

-----------------------------------------------------------------------------
(* Properties *)

TypeOK ==
    /\ role \in [Addr -> Roles]
    /\ roleIndex \in [Addr -> SUBSET (0..255)]
    /\ initDone \in BOOLEAN
    /\ proposalId \in 0..MaxProposals
    /\ quorum \in [QuorumKeys -> 0..100]
    /\ balance \in [Addr -> 0..MaxU128]
    /\ totalSupply \in 0..MaxU128
    /\ \A i \in ProposalIds :
          /\ proposals[i].state \in States
          /\ proposals[i].content.action \in Actions
          /\ proposals[i].results \in [Votes -> Nat]
          /\ proposals[i].voteOption \in [Addr -> Votes \cup {NoVote}]

\* Number of accounts whose Account.role is r (not the ROLES index).
Holders(r) == Cardinality({a \in Addr : role[a] = r})

\* I5 and the use tx_votest makes of it: the ROLES keys of every address,
\* parsed back with Role::from_bytes, are exactly its Account.role (none for
\* User), so that get_voters_num_with_action counts the accounts that can
\* vote.
RoleIndexConsistent ==
    \A a \in Addr :
        {RoleFromBytes(<<b>>) : b \in roleIndex[a]} =
            IF role[a] = "User" THEN {} ELSE {role[a]}

\* What the accounts module stores it reads back: every Account.role and
\* every stored proposal's state, action, SetRoles role and recorded votes
\* survive their cbor Encode (marshal_binary, to_u8) and Decode, whose
\* tables are kept by hand in two places (types/role.rs warns that the
\* order matters).  As the spec's codec test asks, a role byte no role
\* marshals to (12..255) is refused by both readers.
StoredRecordsRoundTrip ==
    /\ \A a \in Addr : RoleCborDecode(<<MarshalRole(role[a])>>) = role[a]
    /\ \A b \in 12..255 : RoleFromBytes(<<b>>) = Malformed /\ RoleCborDecode(<<b>>) = Malformed
    /\ \A i \in ProposalIds :
         LET p == proposals[i]
         IN  /\ StateCborDecode(<<MarshalState(p.state)>>) = p.state
             /\ ActionCborDecode(<<MarshalAction(p.content.action)>>) = p.content.action
             /\ p.content.role \in Roles =>
                  RoleCborDecode(<<MarshalRole(p.content.role)>>) = p.content.role
             /\ \A a \in Addr : p.voteOption[a] \in Votes =>
                  VoteCborDecode(VoteToU8(p.voteOption[a])) = p.voteOption[a]

\* The per-option tally kept by add_vote in results agrees with the votes
\* recorded in voteOption while a proposal is Active: no address's vote is
\* counted twice and none is lost (the VoteDup check of tx_votest).
TallyMatchesRecord ==
    \A i \in ProposalIds :
        proposals[i].state = "Active" =>
            \A o \in Votes :
                proposals[i].results[o] =
                    Cardinality({a \in Addr : proposals[i].voteOption[a] = o})

\* A Yes vote that passes a proposal comes with at least Q% of the
\* accounts whose role lets them vote on the action voting Yes, Q being the
\* quorum in force: the round-up threshold of tx_votest, computed on the
\* ROLES index count, never lets a minority pass a proposal.
PassedWithQuorum ==
    [][\A i \in ProposalIds :
          LET act == proposals[i].content.action
          IN  proposals[i].state = "Active" /\ proposals'[i].state = "Passed" =>
                100 * proposals'[i].results["VoteYes"]
                    >= QuorumOf(act) * Holders(VoterRole(act))]_vars

\* I1, as check_invariants tests it: after every transfer, mint and burn,
\* direct or applied by a passed proposal, the check passes.
SupplyConserved == CheckInvariants

\* The target constraints of the role matrix (tx_propose, mod.rs 1201 and
\* following) hold when a passed proposal is applied: Mint and Burn act on
\* a WhitelistedUser, Whitelist never on a BlacklistedUser, Blacklist only
\* on a User.
ApplyRespectsTarget ==
    [][\A i \in ProposalIds :
          LET c == proposals[i].content
          IN  proposals[i].state = "Active" /\ proposals'[i].state = "Passed" =>
                CASE c.action \in {"Mint", "Burn"} -> role[c.address] = "WhitelistedUser"
                  [] c.action = "Whitelist" -> role[c.address] # "BlacklistedUser"
                  [] c.action = "Blacklist" -> role[c.address] = "User"
                  [] OTHER -> TRUE]_vars

\* The vote that passes a proposal applies its action in the same step,
\* completely: a Mint or Burn moves the target's balance and the total
\* supply by the amount, a Whitelist, Blacklist or SetRoles gives the target
\* its role, a Config sets every quorum it names.  Together with the
\* rollback of tx_votest when the application fails (the vote is then not
\* recorded and the proposal stays Active), no proposal is Passed whose
\* action did not take effect.
PassedActionApplied ==
    [][\A i \in ProposalIds :
          LET c == proposals[i].content
          IN  proposals[i].state = "Active" /\ proposals'[i].state = "Passed" =>
                CASE c.action = "Mint" ->
                         /\ totalSupply' = totalSupply + c.amount
                         /\ balance'[c.address] = balance[c.address] + c.amount
                  [] c.action = "Burn" ->
                         /\ totalSupply' = totalSupply - c.amount
                         /\ balance'[c.address] = balance[c.address] - c.amount
                  [] c.action = "Whitelist" -> role'[c.address] = "WhitelistedUser"
                  [] c.action = "Blacklist" -> role'[c.address] = "BlacklistedUser"
                  [] c.action = "SetRoles" -> role'[c.address] = c.role
                  [] c.action = "Config" -> \A k \in DOMAIN c.cfg : quorum'[k] = c.cfg[k]
                  [] OTHER -> FALSE]_vars

-----------------------------------------------------------------------------
(* Refinement: the proposal store seen as the lifecycle of ProposalLifecycle. *)
(* An id above the counter has never been handed out; the accounts that     *)
(* voted are those with a voteOption.                                       *)

Lifecycle == INSTANCE ProposalLifecycle WITH
    Ids <- ProposalIds,
    Contents <- ProposalContents,
    NoContent <- DefaultProposal.content,
    Options <- Votes,
    opened <- proposalId,
    status <- [i \in ProposalIds |->
                 IF i > proposalId THEN "absent" ELSE proposals[i].state],
    content <- [i \in ProposalIds |-> proposals[i].content],
    tally <- [i \in ProposalIds |-> proposals[i].results],
    voters <- [i \in ProposalIds |->
                 {a \in Addr : proposals[i].voteOption[a] # NoVote}]

\* I6 and the proposal rules of spec 4.2, as one refinement: tx_propose
\* stores each new proposal under a fresh id, tx_votest records a first
\* vote of an account only on an Active proposal and counts it once, the
\* deciding vote closes the proposal with the outcome of its option and
\* clears voteOption (I6: terminal proposals have no vote records), and no
\* handler changes a closed proposal or the content of any proposal.
ImplementsProposalLifecycle == Lifecycle!Spec

=============================================================================
