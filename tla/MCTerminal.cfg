SPECIFICATION ConsoleSpec
CONSTANTS
    s_maxLines = 3
    s_maxColumns = 3
    Columns = 2
    Rows = 2
    PartialRow = TRUE
    Chars <- MCChars
    Junk <- MCJunk
    Calls <- MCCalls
    MaxCalls = 2
    Digits <- MCDigits
    Echoed <- MCEchoed
INVARIANTS ViewportInside ScrollbackKept ScreenFollowsText PrintfRenders
