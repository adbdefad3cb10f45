SPECIFICATION ShellSpec
CONSTANTS
    capacity = 2
    MaxKeys = 4
    lineSize = 3
    Scancodes <- MCScancodes
    Keys <- MCKeys
    scancode_to_ascii <- MCAscii
    exit_command <- MCExit
    clear_command <- MCClear
    Junk <- MCJunk
INVARIANTS TypeOK SizeCountsKeys WindowIntact ShellTypeOK LineIsWhatWasTyped ShellSeesHistory
PROPERTIES InOrder KeysDelivered EnterAnswered
