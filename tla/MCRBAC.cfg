CONSTANTS
    Kinds = {"user", "group", "robot"}
    RoleLists <- MCRoleLists
    BindingLists <- MCBindingLists
SPECIFICATION RBACSpec
INVARIANTS
    RBACTypeOK
    AuthorizeExact
CHECK_DEADLOCK FALSE
