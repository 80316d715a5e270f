CONSTANTS
    a = a
    b = b
    blank = blank
    Lines = {a, b, blank}
    Blank = blank
    LineHash <- MCLineHash
    MaxLines = 3
    Replacements <- MCReplacements
    MaxEdits = 2
SPECIFICATION Spec
INVARIANTS
    TypeOK
    SpliceMatchesReference
    EchoMatchesFile
CHECK_DEADLOCK FALSE
