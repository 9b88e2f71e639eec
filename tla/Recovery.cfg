SPECIFICATION Spec
CONSTANTS
    AutoResumeMax = 1
    ContinuationMax = 0
    ReviewCyclesMax = 1
    MaxQuotaFallbacks = 0
    MaxRestarts = 2
    MaxQuestions = 1
    Requests = {"steer", "answer", "resume", "courier"}
CHECK_DEADLOCK FALSE
INVARIANTS TypeOK NotesKept QuestionTimed NoSilentRestart 
