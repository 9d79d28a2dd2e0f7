--------------------------- MODULE MC_Governance ---------------------------
(* Model of the governance handlers with three accounts, a1 being the     *)
(* chain initiator.  Genesis gives a1 two tokens and every account the   *)
(* default role User, so roles come from InitOwners and SetRoles.        *)
EXTENDS Governance, TLC

CONSTANTS a1, a2, a3

MCAddr == {a1, a2, a3}
MCGenesisBalance == [a \in MCAddr |-> IF a = a1 THEN 2 ELSE 0]
\* genesis.accounts carrying roles: two mint voters and a whitelisted a1
MCGenesisCommittee ==
    (a1 :> "WhitelistedUser" @@ a2 :> "MintVoter" @@ a3 :> "MintVoter")

MCGenesisRole == [a \in MCAddr |-> "User"]

\* owner sets: three admins (Config/SetRoles tallies with N = 3), and a
\* mint committee with a whitelisted holder
MCInitOwnersBodies ==
    { (a1 :> "Admin" @@ a2 :> "Admin" @@ a3 :> "Admin"),
      (a1 :> "Admin" @@ a2 :> "MintVoter" @@ a3 :> "WhitelistedUser") }

\* token committees: a1 (holding the genesis tokens) whitelisted, with a
\* burn voter and a mint voter; and list voters with a plain user target
MCTokenBodies ==
    { (a1 :> "WhitelistedUser" @@ a2 :> "BurnVoter" @@ a3 :> "MintVoter"),
      (a1 :> "WhitelistVoter" @@ a2 :> "BlacklistVoter") }

MCRoleChoices == {"User", "BurnVoter", "WhitelistedUser"}

\* one valid quorum change per kind of tally, and one out of range
MCConfigChoices == { ("Config" :> 50), ("Mint" :> 0), ("Mint" :> 101) }
=============================================================================
