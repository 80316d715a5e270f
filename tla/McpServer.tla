------------------------------ MODULE McpServer ------------------------------
(***************************************************************************)
(* The message loop of src/src/mcp/mod.rs around the tool calls of         *)
(* ToolTimeout: which directory the server works in, and the roots/list    *)
(* request by which a client may move it.                                  *)
(*                                                                         *)
(* The loop reads a line only when the call under way has been answered,   *)
(* so every message is handled in a state where main = "idle"; the workers *)
(* of abandoned calls run on.  Messages that change nothing here (ping,    *)
(* tools/list, notifications, lines that do not parse, replies to no       *)
(* request) are left out.                                                  *)
(***************************************************************************)
EXTENDS ToolTimeout

CONSTANTS LaunchDir,         \* the directory run() settles in at start
          RootDirs           \* the directories a client may name as roots

VARIABLES
    scopeExplicit,      \* was --scope given?
    toolDispatched,     \* has a tools/call been read?
    rootsPending,       \* is a roots/list request unanswered?
    cwd,                \* the process's working directory
    home                \* history: the cwd each worker was started under

serverVars == <<scopeExplicit, toolDispatched, rootsPending, cwd, home>>

NoRoot == "no usable root"

\* Every variable has its type, and a client is never asked for its roots when
\* --scope has already settled the directory.
ServerTypeOK ==
    /\ TypeOK
    /\ scopeExplicit \in BOOLEAN /\ toolDispatched \in BOOLEAN
    /\ rootsPending \in BOOLEAN
    /\ cwd \in RootDirs \union {LaunchDir}
    /\ home \in [Calls -> RootDirs \union {LaunchDir}]
    /\ rootsPending => ~scopeExplicit

ServerInit ==
    /\ Init
    /\ scopeExplicit \in BOOLEAN
    /\ toolDispatched = FALSE /\ rootsPending = FALSE
    /\ cwd = LaunchDir
    /\ home = [c \in Calls |-> LaunchDir]

\* Mutant: roots are asked for in spite of --scope.
InitializeAlways ==
    /\ main = "idle"
    /\ ~rootsPending
    /\ rootsPending' = TRUE
    /\ UNCHANGED <<vars, scopeExplicit, toolDispatched, cwd, home>>

\* An initialize request is answered; roots/list is asked for unless --scope
\* was given, an earlier one is open, or the client does not offer roots.
Initialize ==
    /\ main = "idle"
    /\ ~scopeExplicit /\ ~rootsPending
    /\ rootsPending' = TRUE
    /\ UNCHANGED <<vars, scopeExplicit, toolDispatched, cwd, home>>

\* Mutant: a late reply is applied like an early one.
HandoffAnyTime == ~scopeExplicit

RootsHandoffAllowed == ~scopeExplicit /\ ~toolDispatched

\* The reply to roots/list, with the first root that is a directory.
RootsReply(root) ==
    /\ main = "idle" /\ rootsPending
    /\ rootsPending' = FALSE
    /\ cwd' = IF root # NoRoot /\ RootsHandoffAllowed THEN root ELSE cwd
    /\ UNCHANGED <<vars, scopeExplicit, toolDispatched, home>>

\* The flag is raised before the call is handled, refused calls included.
ToolCall(c) ==
    /\ Refuse(c) \/ Accept(c)
    /\ toolDispatched' = TRUE
    /\ UNCHANGED <<scopeExplicit, rootsPending, cwd, home>>

ThreadStep ==
    /\ Main \/ \E c \in Calls : Worker(c)
    /\ home' = IF main = "spawn" /\ main' = "waiting"
               THEN [home EXCEPT ![cur] = cwd] ELSE home
    /\ UNCHANGED <<scopeExplicit, toolDispatched, rootsPending, cwd>>

ServerNext == \/ Initialize
              \/ \E root \in RootDirs \union {NoRoot} : RootsReply(root)
              \/ \E c \in Calls : ToolCall(c)
              \/ ThreadStep

\* Fairness is that of the threads: nothing is assumed of the client.
ServerSpec == ServerInit /\ [][ServerNext]_<<vars, serverVars>> /\ Fairness

\* The working directory is process-global: a tool, abandoned or not, that is
\* still running resolves relative paths against the directory it was started
\* in (doc of roots_handoff_allowed, mcp/mod.rs:225-233).
GroundHolds ==
    \A c \in Calls : worker[c] = "working" => home[c] = cwd

=============================================================================
