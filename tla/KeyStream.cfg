\* Giving a name, typing, pasting and changing modes in a line of three bytes.
\* The session may end.
SPECIFICATION Spec
CONSTANTS
    Keys <- AllKeys
    Pastes <- PlainPastes
    Names <- TwoNames
    InputSize = 4
    NameSize = 4
    NameWidth = 2
    Anonymous <- Nobody
    HistSize = 1
    MaxAhead = 1
    MaxTyped = 4
CHECK_DEADLOCK FALSE
INVARIANTS InputWhole OnlyEnterSends PasteEnds
PROPERTIES MessageReadsBack DraftKept
