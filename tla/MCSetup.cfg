CONSTANTS
    Kinds = {"user", "group"}
    RoleLists <- MCRoleLists
    BindingLists <- MCBindingLists
    TenantLists <- MCTenantLists
    ProviderStates = {"up", "down", "hangs"}
    FlagSets <- MCFlagSets
SPECIFICATION SetupSpec
INVARIANTS
    SetupTypeOK
    MTLSHasCA
    OwnConfiguration
    FailureContained
    RegistersOnce
    FlagsServed
PROPERTY
    StartEnds
CHECK_DEADLOCK FALSE
