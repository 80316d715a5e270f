CONSTANTS
    a = a
    link = link
    Names = {a, link}
    Cwd = Cwd
    Root = Root
    Via = Via
    DirNames = {Cwd, Root, Via}
    Leads <- MCLeads
    NoRoot = NoRoot
    Links <- MCLinks
    MayExist <- MCMayExist
    Paths <- MCPaths
    MaxEntries = 3
SPECIFICATION Spec
INVARIANTS
    TypeOK
    ErrorMeansUntouched
    AnswerMatchesDisk
    AbsolutePathsNeverRace
\* A call ends with its answer.
CHECK_DEADLOCK FALSE
