CONSTANTS
    a = a
    b = b
    link = link
    None = None
    Files = {a, b}
    Links = {link}
    Requests <- MCRequests
    MaxBlocks = 3
    AutoTokens = 2
    MaxVersions = 2
    MaxRequests = 2
INIT Init
NEXT Next
INVARIANTS
    TypeOK
    ViewWasOnDisk
    OneVersionPerFile
    TagIsComplete
CHECK_DEADLOCK FALSE
