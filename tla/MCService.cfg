\* One submission, two queries for its transaction, and a node that may have it from
\* elsewhere: every interleaving of the two routes, the node and the blocks.
CONSTANTS
    Requests = {r1}
    TimeoutTooLarge = FALSE
    ConnErrors = 1
    TxOf <- OneTx
    Queries = {q1, q2}
    NoHash = NoHash
SYMMETRY Symmetry
SPECIFICATION ServiceSpec
INVARIANTS
    AcceptedIsFound
    GoneStaysGone
