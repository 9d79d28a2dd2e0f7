CONSTANTS
    a1 = a1
    a2 = a2
    a3 = a3
    Addr <- MCAddr
    ChainInitiator = a1
    NoAddr = NoAddr
    NoAmount = NoAmount
    NoRole = NoRole
    MaxU128 = 3
    MaxProposals = 2
    Amounts = {1}
    GenesisBalance <- MCGenesisBalance
    GenesisRole <- MCGenesisCommittee
    RoleChoices <- MCRoleChoices
    InitOwnersBodies <- MCInitOwnersBodies
    ConfigChoices <- MCConfigChoices
    TransfersDisabled = TRUE
    MintstDisabled = TRUE
    BurnstDisabled = TRUE
SPECIFICATION Spec
PROPERTY PassedWithQuorum
CHECK_DEADLOCK FALSE
