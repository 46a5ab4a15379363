SPECIFICATION Spec
CONSTANTS
    s1 = s1
    s2 = s2
    SecretOrder <- MCSecretOrder
    Secrets <- MCSecrets
    Names <- MCNames
    IndexLists <- MCIndexLists
    DiscoveryAnswers <- MCDiscoveryAnswers
    NoName = NoName
    EmptyName = EmptyName
    Unnamed = Unnamed
    None = None
INVARIANTS
    TypeOK
    TablesAsSupplied
    TablesAreReachable
    RequestsAreAuthenticated
PROPERTY
    SecretIsPinned
