SPECIFICATION Spec
CONSTANTS
    Events <- MCEvents
    Projections <- MCProjections
    Lower <- MCLower
    ObjectIn <- MCObjectIn
    InstantIn <- MCInstantIn
    NumberIn <- MCNumberIn
    Underscored <- MCUnderscored
    NotFinite = NotFinite
    Unspecified = Unspecified
    None = None
INVARIANTS
    TypeOK
    ProjectionChangesNothing
    RawParsedOnce
    OneBagPerField
    TimeIsPlausible
