CONSTANTS
    VGA_COLS = 5
    VGA_ROWS = 2
    CMD_BUF_SIZE = 6
    Keys = {"d", "-", "1"}
    Digits = {"1"}
    MAX_DIGITS = 2
    PROMPT <- MCPrompt
    DISKREAD <- MCDiskread
    Named <- MCNamed
    Outputs <- MCOutputs
SPECIFICATION Spec
INVARIANTS
    CursorOnScreen
    ScreenShowsCommand
    NothingHeldAtPrompt
