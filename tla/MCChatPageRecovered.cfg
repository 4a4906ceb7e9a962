CONSTANTS
    Turns = {1, 2}
    Conversations = {1}
    NoConversation = 0
    HistoryLimit = 2
    Notes = {}
    Waiting = {}
    NoteLimit = 1
    NoTurn = 0
SPECIFICATION Spec
INVARIANT ShownAnswersQuestion
CHECK_DEADLOCK FALSE
