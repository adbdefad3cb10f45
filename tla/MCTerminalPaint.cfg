SPECIFICATION ConsoleSpec
CONSTANTS
    s_maxLines = 4
    s_maxColumns = 3
    Columns = 2
    Rows = 2
    PartialRow = FALSE
    Chars <- MCChars
    Junk <- MCZeroed
    Calls <- MCCalls
    MaxCalls = 0
    Digits <- MCDigits
    Echoed <- MCEchoed
INVARIANT PaintsInside
