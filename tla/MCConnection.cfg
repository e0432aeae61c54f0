SPECIFICATION FairSpec
CONSTANTS
    Capability <- Extensions
    Offers <- SomeOffers
INVARIANTS
    TypeOK
    CacheIsCurrent
    CacheIsOfThisTransport
    UsesWhatIsOffered
    FlagMeansOn
    FailureKeepsTheCache
    LineIsSentOnce
PROPERTIES
    CallsEnd
