CONSTANTS
    Kinds = {"user", "group"}
    RoleLists <- MCRoleLists
    BindingLists <- MCBindingLists
    TenantLists <- MCTenantLists
    ProviderStates = {"up"}
    FlagSets <- MCFlagSets
    People <- MCPeople
    Unknown = "z"
SPECIFICATION Spec
INVARIANTS
    TypeOK
    UpstreamAuthorized
    LegitimateServed
    TenantHeader
    LoginLands
    ServerErrorsReported
    CountedAsAnswered
PROPERTY
    Answered
CHECK_DEADLOCK FALSE
