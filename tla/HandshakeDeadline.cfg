CONSTANTS
    Mode <- MCMode
    handshake_timeout = 2
    idle_timeout = 3
    MaxPending = 1
    MaxUncounted = 2
SPECIFICATION Spec
INVARIANT
    HandshakeDeadlineOnly
