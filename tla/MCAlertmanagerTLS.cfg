CONSTANTS
    Kinds = {"user", "group"}
    RoleLists <- MCRoleLists
    BindingLists <- MCBindingLists
    TenantLists <- MCTenantLists
    ProviderStates = {"up"}
    FlagSets <- MCFlagSets
SPECIFICATION SetupSpec
INVARIANT
    AlertmanagerTLS
CHECK_DEADLOCK FALSE
