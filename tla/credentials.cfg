SPECIFICATION Spec
CONSTANTS
    Secret = {s1, s2}
    SecretKey = {k1, k2}
    Job = {1, 2}
    MaxSettings = 2
    MaxRequests = 2
    MaxRestarts = 1
    NoBlob = NoBlob
INVARIANTS
    TypeOK
    OffersWhatWasSet
PROPERTIES
    RequestsEnd
CHECK_DEADLOCK FALSE
