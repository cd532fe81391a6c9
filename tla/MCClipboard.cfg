SPECIFICATION Spec
CONSTANTS
    Client = {a, b}
    Remote = {r}
    Null = Null
    Options <- MCOptions
    Slots = 1
    MaxMoves = 4
INVARIANTS OwnersAgree AnsweredOnce RightAnswers CachesFit
PROPERTY Answered
CHECK_DEADLOCK FALSE
