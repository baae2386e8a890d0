SPECIFICATION Spec
CONSTANTS
    Nothing = Nothing
    pair = pair
    bad = bad
    Call <- MCCall
    Size <- MCSize
    Unrenderable <- MCUnrenderable
    MAX_STOMP_RETRY = 3
INVARIANTS
    TypeOK
    OncePerTry
    SendsAreCounted
    ReturnedIsSentOrGivenUp
PROPERTIES
    ImplementsPublisher
    EveryCallEnds
CHECK_DEADLOCK FALSE
