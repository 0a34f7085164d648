\* Both requests interleave; a connection may raise one error more than
\* errorChan holds.
CONSTANTS
    Requests = {r1, r2}
    TimeoutTooLarge = FALSE
    ConnErrors = 2
SYMMETRY Symmetry
SPECIFICATION Spec
INVARIANTS
    AcceptedMeansInMempool
    RejectionIsTheNodes
    CollectorsAgree
    TotalsAtRest
    NoAnswerWhileConnected
PROPERTIES
    OutcomeIsFinal
