CONSTANTS
    Asks = {ask1, ask2}
    Approvals = {yes}
    NoRun = NoRun
    RecentLimit = 1
    MaxHistory = 1
    MaxServed = 2
SPECIFICATION Spec
SYMMETRY Alike
INVARIANTS LogIsGapFree SummaryCoversPrefix AnswersFollowQuestions AloneIsClean
CHECK_DEADLOCK FALSE
