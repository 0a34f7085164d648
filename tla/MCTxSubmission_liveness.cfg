\* One asynchronous error per connection, as errorChan is made for.
CONSTANTS
    Requests = {r1, r2}
    TimeoutTooLarge = FALSE
    ConnErrors = 1
SPECIFICATION FairSpec
PROPERTIES
    EveryRequestServed
    NothingLeftBehind
    ImplementsContract
