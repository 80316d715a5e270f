\* Two hash edits that take turns, an append and a whole-file write that take no
\* guard; three of the four are called, in any order, with crashes and a file
\* another program deletes.
CONSTANTS
    e1 = e1
    e2 = e2
    app = app
    put = put
    p1 = p1
    p2 = p2
    canonical = canonical
    other = other
    Keys = {canonical, other}
    Canonical = canonical
    Spelled <- MCSpelled
    Ops = {e1, e2, app, put}
    Kind <- MCKind
    Procs = {p1, p2}
    Proc <- MCProc
    Breaks <- MCBreaks
    MaxStarted = 3
    Original = Original
    Nil = Nil
SPECIFICATION Spec
INVARIANTS
    TypeOK
    RefusedEditLeavesNoTrace
    WholeReplacement
    NoTempLeft
PROPERTIES
    NoLostEdit
    LossOnlyInWindow
    EveryWriteEnds
\* Every operation ends.
CHECK_DEADLOCK FALSE
