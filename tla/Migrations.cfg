\* Fresh installations and upgrades over older releases, stopped
\* anywhere, with rows that violate a unique index to come.
SPECIFICATION Spec
CONSTANTS
    Objects <- AllObjects
    Releases <- SomeReleases
    UniqueIndexes <- NewUniqueIndexes
    MaxStops = 2
INVARIANTS
    TypeOK
    MissingOnlyBehindAdd
    CompleteUnlessStopped
PROPERTIES
    ServesAgain
