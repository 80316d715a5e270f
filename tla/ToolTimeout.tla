----------------------------- MODULE ToolTimeout -----------------------------
(***************************************************************************)
(* The per-request timeout of src/src/timeout.rs and the handler that uses *)
(* it, handle_tool_call of src/src/mcp/mod.rs.                             *)
(*                                                                         *)
(* The server's main thread serves one call at a time.  For each call it   *)
(* spawns a worker thread, waits for the worker's value on a one-place     *)
(* channel, and gives up at a deadline.  A worker it gives up on cannot be *)
(* killed: it is counted in ThreadTracker until its work ends, and at      *)
(* MAX_ABANDONED_THREADS new calls are refused.  ThreadCoord decides the   *)
(* race between the deadline and the end of the work with one compare-and- *)
(* swap on each side.                                                      *)
(*                                                                         *)
(* Every step is one access to memory the threads share.  The deadline may *)
(* fire at any moment of the wait, also when the value is already in the   *)
(* channel.  A worker's work may never end.                                *)
(***************************************************************************)
EXTENDS Integers, FiniteSets

CONSTANTS Calls,             \* the tool calls a client may send
          NoCall,            \* "no call is under way"
          MaxAbandoned,      \* MAX_ABANDONED_THREADS (8)
          WarnAt             \* ABANDONED_THREAD_WARN (3)

ASSUME CallsAssumption == IsFiniteSet(Calls) /\ NoCall \notin Calls
ASSUME LimitsAssumption == MaxAbandoned \in Nat \ {0} /\ WarnAt \in Nat \ {0}

VARIABLES
    main,       \* where the main thread is
    cur,        \* the call it serves
    seen,       \* record_timeout's result, the main thread's local n
    worker,     \* where each call's worker thread is
    chan,       \* each call's channel: empty, full, or sender dropped
    coord,      \* ThreadCoord.state of each call
    acked,      \* ThreadCoord.timeout_acked of each call
    count,      \* ThreadTracker.count
    answer,     \* the response written for each call
    warnings    \* warning lines printed on stderr

mainVars == <<main, cur, seen>>
vars == <<main, cur, seen, worker, chan, coord, acked, count, answer, warnings>>

\* Every variable has its type: the counter, which is unsigned in the code,
\* never goes below zero, and a call is under way unless the loop is reading.
TypeOK ==
    /\ main \in {"idle", "spawn", "waiting", "joining", "claim", "record",
                 "ack", "reply"}
    /\ cur \in Calls \union {NoCall}
    /\ (main = "idle") <=> (cur = NoCall)
    /\ seen \in Nat
    /\ worker \in [Calls -> {"none", "working", "finish", "await_ack",
                             "decrement", "exiting", "exited"}]
    /\ chan \in [Calls -> {"empty", "full", "closed"}]
    /\ coord \in [Calls -> {"RUNNING", "TIMED_OUT", "FINISHED"}]
    /\ acked \in [Calls -> BOOLEAN]
    /\ count \in Nat
    /\ answer \in [Calls -> {"none", "ok", "panic", "timeout", "busy"}]
    /\ warnings \in Nat

Init ==
    /\ main = "idle" /\ cur = NoCall /\ seen = 0
    /\ worker = [c \in Calls |-> "none"]
    /\ chan = [c \in Calls |-> "empty"]
    /\ coord = [c \in Calls |-> "RUNNING"]
    /\ acked = [c \in Calls |-> FALSE]
    /\ count = 0
    /\ answer = [c \in Calls |-> "none"]
    /\ warnings = 0

-----------------------------------------------------------------------------
(* The main thread.                                                        *)

\* Mutants: one thread too many; one too few.
IsAtCapLate == count > MaxAbandoned
IsAtCapEarly == count >= MaxAbandoned - 1

IsAtCap == count >= MaxAbandoned

\* The response of the call under way is written and the loop reads on.
Respond(r) == /\ answer' = [answer EXCEPT ![cur] = r]
              /\ main' = "idle" /\ cur' = NoCall /\ seen' = 0

Refuse(c) ==
    /\ main = "idle" /\ answer[c] = "none" /\ IsAtCap
    /\ answer' = [answer EXCEPT ![c] = "busy"]
    /\ UNCHANGED <<main, cur, seen, worker, chan, coord, acked, count, warnings>>

Accept(c) ==
    /\ main = "idle" /\ answer[c] = "none" /\ ~IsAtCap
    /\ main' = "spawn" /\ cur' = c
    /\ UNCHANGED <<seen, worker, chan, coord, acked, count, answer, warnings>>

Spawn ==
    /\ main = "spawn"
    /\ worker' = [worker EXCEPT ![cur] = "working"]
    /\ main' = "waiting"
    /\ UNCHANGED <<cur, seen, chan, coord, acked, count, answer, warnings>>

ReceiveValue ==
    /\ main = "waiting" /\ chan[cur] = "full"
    /\ chan' = [chan EXCEPT ![cur] = "empty"]
    /\ main' = "joining"
    /\ UNCHANGED <<cur, seen, worker, coord, acked, count, answer, warnings>>

Join ==
    /\ main = "joining" /\ worker[cur] = "exited"
    /\ Respond("ok")
    /\ UNCHANGED <<worker, chan, coord, acked, count, warnings>>

\* RecvError: the sender is gone and left nothing.  The worker is not joined.
Disconnected ==
    /\ main = "waiting" /\ chan[cur] = "closed"
    /\ Respond("panic")
    /\ UNCHANGED <<worker, chan, coord, acked, count, warnings>>

Deadline ==
    /\ main = "waiting"
    /\ main' = "claim"
    /\ UNCHANGED <<cur, seen, worker, chan, coord, acked, count, answer, warnings>>

ClaimTimeout ==
    /\ main = "claim" /\ coord[cur] = "RUNNING"
    /\ coord' = [coord EXCEPT ![cur] = "TIMED_OUT"]
    /\ main' = "record"
    /\ UNCHANGED <<cur, seen, worker, chan, acked, count, answer, warnings>>

\* The worker reached FINISHED first: a timeout, but nothing is counted.
ClaimTimeoutLost ==
    /\ main = "claim" /\ coord[cur] # "RUNNING"
    /\ Respond("timeout")
    /\ UNCHANGED <<worker, chan, coord, acked, count, warnings>>

RecordTimeout ==
    /\ main = "record"
    /\ count' = count + 1 /\ seen' = count + 1
    /\ main' = "ack"
    /\ UNCHANGED <<cur, worker, chan, coord, acked, answer, warnings>>

\* Mutant: the flag is forgotten.
AckForgotten ==
    /\ main = "ack"
    /\ main' = "reply"
    /\ UNCHANGED <<cur, seen, worker, chan, coord, acked, count, answer, warnings>>

AckTimeout ==
    /\ main = "ack"
    /\ acked' = [acked EXCEPT ![cur] = TRUE]
    /\ main' = "reply"
    /\ UNCHANGED <<cur, seen, worker, chan, coord, count, answer, warnings>>

ReplyTimeout ==
    /\ main = "reply"
    /\ warnings' = IF seen = WarnAt THEN warnings + 1 ELSE warnings
    /\ Respond("timeout")
    /\ UNCHANGED <<worker, chan, coord, acked, count>>

Main == \/ Spawn \/ ReceiveValue \/ Join \/ Disconnected \/ Deadline
        \/ ClaimTimeout \/ ClaimTimeoutLost
        \/ RecordTimeout \/ AckTimeout \/ ReplyTimeout

-----------------------------------------------------------------------------
(* A worker thread.                                                        *)

\* The receiver lives until spawn_with_timeout returns.
ReceiverAlive(w) == cur = w

WorkReturns(w) ==
    /\ worker[w] = "working"
    /\ worker' = [worker EXCEPT ![w] = "finish"]
    /\ chan' = [chan EXCEPT ![w] = IF ReceiverAlive(w) THEN "full" ELSE @]
    /\ UNCHANGED <<mainVars, coord, acked, count, answer, warnings>>

WorkPanics(w) ==
    /\ worker[w] = "working"
    /\ worker' = [worker EXCEPT ![w] = "finish"]
    /\ UNCHANGED <<mainVars, chan, coord, acked, count, answer, warnings>>

ClaimFinish(w) ==
    /\ worker[w] = "finish" /\ coord[w] = "RUNNING"
    /\ coord' = [coord EXCEPT ![w] = "FINISHED"]
    /\ worker' = [worker EXCEPT ![w] = "exiting"]
    /\ UNCHANGED <<mainVars, chan, acked, count, answer, warnings>>

\* Mutant: the loser of the compare-and-swap leaves as if it had won.
LoserLeaves(w) ==
    /\ worker[w] = "finish" /\ coord[w] # "RUNNING"
    /\ worker' = [worker EXCEPT ![w] = "exiting"]
    /\ UNCHANGED <<mainVars, chan, coord, acked, count, answer, warnings>>

ClaimFinishLost(w) ==
    /\ worker[w] = "finish" /\ coord[w] # "RUNNING"
    /\ worker' = [worker EXCEPT ![w] = "await_ack"]
    /\ UNCHANGED <<mainVars, chan, coord, acked, count, answer, warnings>>

\* The spin loop of wait_for_timeout_ack falls through.
SeeAck(w) ==
    /\ worker[w] = "await_ack" /\ acked[w]
    /\ worker' = [worker EXCEPT ![w] = "decrement"]
    /\ UNCHANGED <<mainVars, chan, coord, acked, count, answer, warnings>>

RecordFinish(w) ==
    /\ worker[w] = "decrement"
    /\ count' = count - 1
    /\ worker' = [worker EXCEPT ![w] = "exiting"]
    /\ UNCHANGED <<mainVars, chan, coord, acked, answer, warnings>>

\* The closure's captures, the sender among them, are dropped at its end.
Exit(w) ==
    /\ worker[w] = "exiting"
    /\ worker' = [worker EXCEPT ![w] = "exited"]
    /\ chan' = [chan EXCEPT ![w] = IF @ = "empty" THEN "closed" ELSE @]
    /\ UNCHANGED <<mainVars, coord, acked, count, answer, warnings>>

WindDown(w) == \/ ClaimFinish(w) \/ ClaimFinishLost(w) \/ SeeAck(w)
               \/ RecordFinish(w) \/ Exit(w)

Worker(w) == WorkReturns(w) \/ WorkPanics(w) \/ WindDown(w)

Next == \/ Main
        \/ \E c \in Calls : Refuse(c) \/ Accept(c) \/ Worker(c)

\* The scheduler runs every thread that can run and the deadline's clock
\* advances.  Nothing is assumed of the client, which may stop sending, or of
\* the work, which may hang.
Fairness == WF_vars(Main) /\ \A w \in Calls : WF_vars(WindDown(w))

Spec == Init /\ [][Next]_vars /\ Fairness

-----------------------------------------------------------------------------
(* Properties.                                                             *)

\* The calls the counter stands for: abandoned, counted, not yet given back.
Charged == {c \in Calls :
              /\ coord[c] = "TIMED_OUT"
              /\ worker[c] \notin {"exiting", "exited"}
              /\ ~(main = "record" /\ cur = c)}

\* ThreadTracker.count is incremented and decremented exactly once for each
\* abandoned call, in that order, however the deadline and the end of the
\* work race (timeout.rs:13-16); so it never wraps below zero.
CountExact == count = Cardinality(Charged)

\* However many calls arrive, no more than MAX_ABANDONED_THREADS threads run
\* a tool's work: the one call under way is admitted into a free slot.
WorkBounded ==
    Cardinality({c \in Calls : worker[c] = "working"}) <= MaxAbandoned

\* A worker that waits for timeout_acked is always one the main thread has
\* claimed and is bound to acknowledge: it cannot spin on a call that was
\* answered otherwise, and it never gives a slot back before it was taken.
SpinIsCovered ==
    \A c \in Calls :
      worker[c] \in {"await_ack", "decrement"} =>
        \/ acked[c]
        \/ worker[c] = "await_ack" /\ cur = c /\ main \in {"record", "ack"}

\* Once a tool's work has ended, its thread exits: it is not stuck in the
\* handshake with the main thread, and its slot comes back.
SlotReturned == \A c \in Calls : (worker[c] = "finish") ~> (worker[c] = "exited")

\* The abstract pool: a call is abandoned when the main thread wins the
\* compare-and-swap, and its slot is free again once the worker has counted
\* down.
Claimed == main \in {"record", "ack", "reply"}
FillsSlots(S) == Cardinality(S) >= MaxAbandoned
Pool == INSTANCE AbandonedPool WITH
          Full <- FillsSlots,
          pending <- IF Claimed THEN NoCall ELSE cur,
          abandoned <- {c \in Calls : /\ coord[c] = "TIMED_OUT"
                                      /\ worker[c] \notin {"exiting", "exited"}},
          answer <- [c \in Calls |-> IF Claimed /\ c = cur THEN "timeout"
                                     ELSE answer[c]]

\* Each call gets one answer and gets it even if its work hangs; it is refused
\* only when MAX_ABANDONED_THREADS abandoned calls still hold a slot; a slot
\* is taken only by a call answered with a timeout.
ImplementsPool == Pool!Spec
=============================================================================
