SPECIFICATION FairSpec
CONSTANTS
    MaxCrashes = 1
    AppCollections = {"authn_info", "ident"}
INVARIANTS
    TypeOK
    NothingLeft
    OnlyUnseenChangesAreLost
PROPERTIES
    DueAccountsAreDealtWith
CHECK_DEADLOCK FALSE
