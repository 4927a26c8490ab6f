CONSTANTS
    Mode <- MCMode
    handshake_timeout = 2
    idle_timeout = 2
    MaxPending = 1
    MaxUncounted = 2
SPECIFICATION Spec
INVARIANTS
    TypeOK
    HandshakeBounded
    ConnectedMeansTold
    ClearedDeadlineOnly
    AtMostOneUncounted
PROPERTIES
    ExpiresOnlyStalled
    BothLoopsEnd
    SilenceEndsIt
