\* Two conversations, two questions, two fetches of each conversation in flight.
\* When every question is asked and every fetch is over the model stops.
CONSTANTS
    Convs = {c1, c2}
    Questions = {q1, q2}
    None = none
    MaxFetches = 2
SPECIFICATION Spec
INVARIANTS
    OneChatCall
    NoMessageTwice
    AnswersAreBacked
    ThinkingIsDriven
PROPERTIES
    ComposerIsFreed
    ChatStoreSpec
CHECK_DEADLOCK FALSE
