---------------------------- MODULE AbandonedPool ----------------------------
(***************************************************************************)
(* What the tool-call timeout of src/src/timeout.rs promises the MCP       *)
(* server, with no threads in it: one call at a time is under way, a call  *)
(* is answered once, a call that outlives its deadline is abandoned and    *)
(* keeps a slot until its work ends, and a call is refused exactly when    *)
(* every slot is held by an abandoned one.  ToolTimeout implements it.     *)
(***************************************************************************)
CONSTANTS Calls,                  \* the tool calls a client may send
          Full(_),                \* does a set of abandoned calls fill the slots?
          NoCall                  \* "no call is under way"

VARIABLES pending,                \* the call under way
          abandoned,              \* the calls holding a slot
          answer                  \* what the client was told of each call

vars == <<pending, abandoned, answer>>

Init == /\ pending = NoCall
        /\ abandoned = {}
        /\ answer = [c \in Calls |-> "none"]

Admit(c) == /\ pending = NoCall /\ answer[c] = "none" /\ ~Full(abandoned)
            /\ pending' = c
            /\ UNCHANGED <<abandoned, answer>>

Refuse(c) == /\ pending = NoCall /\ answer[c] = "none" /\ Full(abandoned)
             /\ answer' = [answer EXCEPT ![c] = "busy"]
             /\ UNCHANGED <<pending, abandoned>>

\* The work ended first: its value, its panic, or (when the end and the
\* deadline coincide) a timeout that costs no slot.
Complete(r) == /\ pending # NoCall
               /\ answer' = [answer EXCEPT ![pending] = r]
               /\ pending' = NoCall
               /\ UNCHANGED abandoned

Abandon == /\ pending # NoCall
           /\ abandoned' = abandoned \union {pending}
           /\ answer' = [answer EXCEPT ![pending] = "timeout"]
           /\ pending' = NoCall

Release(c) == /\ c \in abandoned
              /\ abandoned' = abandoned \ {c}
              /\ UNCHANGED <<pending, answer>>

Resolve == Abandon \/ \E r \in {"ok", "panic", "timeout"} : Complete(r)

Next == \/ \E c \in Calls : Admit(c) \/ Refuse(c) \/ Release(c)
        \/ Resolve

\* A call under way is answered, whatever its work does.
Spec == Init /\ [][Next]_vars /\ WF_vars(Resolve)
=============================================================================
