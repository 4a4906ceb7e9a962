CONSTANTS
    Turns = {1, 2, 3}
    Conversations = {1, 2}
    NoConversation = 0
    HistoryLimit = 2
    Notes = {1, 2}
    Waiting = {1}
    NoteLimit = 1
    NoTurn = 0
SPECIFICATION MCSpec
INVARIANTS TypeOK AnswerFollowsQuestion ReadNoticeIsDelivered SeenAnswersAreInHistory
CHECK_DEADLOCK FALSE
PROPERTY PageComesBack
