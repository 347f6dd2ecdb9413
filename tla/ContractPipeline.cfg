SPECIFICATION Spec
CONSTANTS
    p = p
    c = c
    q = q
    none = none
    Channels = {p, c, q}
    NoChannel = none
    Parent <- MCParent
    Namespace <- MCNamespace
    Decls <- MCDecls
    Mounts <- MCMounts
    Variables <- MCVariables
    ErrorCode <- MCErrorCode
    ChannelRaises <- MCChannelRaises
    Exception <- MCException
    Type <- MCType
    Function <- MCFunction
    MaxOpen = 1
    MaxDecls = 3
    MaxMounts = 2
    Options <- MCOptions
    Identifier <- MCIdentifier
    ApiClass <- MCApiClass
    Files <- MCFiles
    ContractFile = "openrpc"
    Documents <- MCDocuments
    MaxGenerations = 2
CHECK_DEADLOCK FALSE
INVARIANTS
    OperationsServedOnce
    FailureIsFinal
    ContractReadable
    PublicNamesDistinct
    RegenerationExact
