---------------------------- MODULE MCFileWrite ----------------------------
(* The TLC instance of FileWrite: two hash edits of one process, an append  *)
(* and a whole-file write that changes the lines the edits anchor to.       *)
EXTENDS FileWrite

CONSTANTS e1, e2, app, put, p1, p2, canonical, other

MCKind == [w \in Ops |-> CASE w \in {e1, e2} -> "edit"
                           [] w = app -> "append"
                           [] w = put -> "put"]
MCProc == [w \in Ops |-> IF w = put THEN p2 ELSE p1]
MCBreaks == [w \in Ops |-> {put}]
MCSpelled == [w \in Ops |-> IF w = e1 THEN canonical ELSE other]
=============================================================================
