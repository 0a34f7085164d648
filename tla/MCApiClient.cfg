\* One request: a call with every context against every kind of configuration,
\* or a request of somebody else of every method and path.
CONSTANTS
    Requests = {c1}
    Healthchecks = FALSE
    Configurations <- AllConfigurations
    Calls <- AllCalls
SPECIFICATION ClientFairSpec
INVARIANTS
    ClientTypeOK
    AnswersCarryCors
    LogTellsTheAnswer
    OutcomeTellsTheAnswer
    MostSpecificWins
PROPERTIES
    AnswerStands
    EverybodyReturns
