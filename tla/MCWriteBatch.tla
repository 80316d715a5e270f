---------------------------- MODULE MCWriteBatch ----------------------------
(* TLC instances of WriteBatch: "a" in the server's directory and in the    *)
(* root of the call, each with a link to it; Via is a link to the root.  The *)
(* client spells the root's "a" absolutely, relatively, through its link and *)
(* through the link to its directory.                                       *)
EXTENDS WriteBatch

CONSTANTS a, link, Via

MCLeads == [d \in DirNames |-> IF d = Via THEN Root ELSE d]
MCLinks == [f \in Files |-> IF f[2] = link THEN <<f[1], a>> ELSE f]
MCMayExist == {<<Cwd, a>>, <<Root, a>>}
MCPaths == {<<NoRoot, a>>, <<Root, a>>, <<Root, link>>, <<Via, a>>}
MCPathsUnderRoot == {<<NoRoot, a>>, <<Root, a>>}
=============================================================================
