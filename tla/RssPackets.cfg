CONSTANTS
    Radix = 20
    Messages <- AllMessages
    Counts <- AnyCounts
SPECIFICATION Spec
INVARIANTS
    CursorInside
    CommandRead
    CutIsPrefix
    AnswersExact
    MetadataRelayed
