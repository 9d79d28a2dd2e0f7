CONSTANTS
    a1 = a1
    a2 = a2
    a3 = a3
    Addr <- MCAddr
    ChainInitiator = a1
    NoAddr = NoAddr
    NoAmount = NoAmount
    NoRole = NoRole
    MaxU128 = 4
    MaxProposals = 3
    Amounts = {1, 2}
    GenesisBalance <- MCGenesisBalance
    GenesisRole <- MCGenesisRole
    RoleChoices <- MCRoleChoices
    InitOwnersBodies <- MCTokenBodies
    ConfigChoices <- MCConfigChoices
    TransfersDisabled = FALSE
    MintstDisabled = FALSE
    BurnstDisabled = FALSE
SPECIFICATION Spec
INVARIANT SupplyConserved
PROPERTY PassedActionApplied
CHECK_DEADLOCK FALSE
