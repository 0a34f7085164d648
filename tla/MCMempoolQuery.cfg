\* Two queries, for one transaction or for two.
CONSTANTS
    Queries = {q1, q2}
    Txs = {t1, t2}
    NoHash = NoHash
SPECIFICATION FairSpec
INVARIANTS
    AnswerWasTrue
    NoConnectionLeft
PROPERTIES
    EveryQueryServed
