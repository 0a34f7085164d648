\* Two handlers with every set of scripts, and scrapes at any time.
CONSTANTS
    Handlers = {h1, h2}
    Transactions <- SomeTransactions
SYMMETRY Symmetry
SPECIFICATION Spec
INVARIANTS
    TypeOK
    LabelsTellContent
    ScrapeIsBetween
    PageCountsTransactions
