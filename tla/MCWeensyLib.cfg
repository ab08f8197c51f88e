CONSTANTS
    Word = 256
    RAND_MAX = 7
    CONSOLE_ROWS = 2
    CONSOLE_COLUMNS = 3
    Printers = {p1, p2}
    Texts <- LibTexts
    Positions <- LibPositions
    MaxPrinted = 7
    MaxBytes = 5
    Values <- LibValues
    Widths <- LibWidths
    DigitChars <- LibDigits
    MaxDigits = 3
    MaxBlock = 4
SYMMETRY LibSymmetry
SPECIFICATION Spec
INVARIANTS
    LibraryAgrees
    ConsoleShowsText
    NoStuckModifier
CHECK_DEADLOCK FALSE
