---------------------------- MODULE MCMcpServer ----------------------------
(* The TLC instance of McpServer: see the .cfg for the constants.           *)
EXTENDS McpServer
=============================================================================
