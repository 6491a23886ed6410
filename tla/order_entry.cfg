SPECIFICATION LiveSpec
CONSTANTS
    Order = {o1}
    Symbol = {s1, s2}
    MaxVersion = 2
    MaxCalls = 1
INVARIANTS TypeOK SilenceMeansCancelled
PROPERTIES AnswersAreTrue AnswersCome
CHECK_DEADLOCK FALSE
