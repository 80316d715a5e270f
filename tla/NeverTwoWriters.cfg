CONSTANTS
    a = a
    link = link
    Names = {a, link}
    Cwd = Cwd
    Root = Root
    Via = Via
    DirNames = {Cwd, Root, Via}
    Leads <- MCLeads
    NoRoot = NoRoot
    Links <- MCLinks
    MayExist <- MCMayExist
    Paths <- MCPathsUnderRoot
    MaxEntries = 2
SPECIFICATION Spec
INVARIANT NeverTwoWriters
\* A call ends with its answer.
CHECK_DEADLOCK FALSE
