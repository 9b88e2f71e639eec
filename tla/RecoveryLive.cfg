SPECIFICATION FairSpec
CONSTANTS
    AutoResumeMax = 1
    ContinuationMax = 1
    ReviewCyclesMax = 2
    MaxQuotaFallbacks = 1
    MaxRestarts = 1
    MaxQuestions = 1
    Requests = {"answer", "resume", "cancel"}
CHECK_DEADLOCK FALSE
PROPERTIES QuestionSettles OwedResumed
