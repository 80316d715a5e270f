--------------------------- MODULE McpServerProofs ---------------------------
(***************************************************************************)
(* Proofs about ToolTimeout and McpServer, for any set of calls, limits    *)
(* and directories.                                                        *)
(*                                                                         *)
(* The threads first: the counter is exact, tool work is bounded, the spin *)
(* is covered, and every step is a step of AbandonedPool or a stutter.     *)
(* The counter's exactness is not inductive by itself: that a worker about *)
(* to count down is still counted rests on the order of the handshake,     *)
(* which Handshake and MainHandshake describe.                             *)
(*                                                                         *)
(* Then the server: every step of it is a step of ToolTimeout or leaves    *)
(* its variables alone, so what holds of the threads holds in the server   *)
(* too.  That the ground does not move under a running tool needs one fact *)
(* more: as long as no tools/call has been read, no thread was started.    *)
(***************************************************************************)
EXTENDS McpServer, FiniteSetTheorems, TLAPS

\* What the compare-and-swap and the acknowledgement say of one call.
Handshake(c) ==
    /\ worker[c] = "none" =>
         coord[c] = "RUNNING" /\ chan[c] = "empty"
    /\ worker[c] # "none" /\ c # cur => answer[c] # "none"
    /\ coord[c] = "RUNNING" => worker[c] \in {"none", "working", "finish"}
    /\ coord[c] = "RUNNING" /\ worker[c] # "none" =>
         cur = c /\ main \in {"waiting", "joining", "claim"}
    /\ coord[c] = "FINISHED" => worker[c] \in {"exiting", "exited"}
    /\ coord[c] = "TIMED_OUT" =>
         acked[c] \/ (cur = c /\ main \in {"record", "ack"})
    /\ coord[c] = "TIMED_OUT" /\ ~acked[c] =>
         worker[c] \in {"working", "finish", "await_ack"}
    /\ worker[c] \in {"await_ack", "decrement"} => coord[c] = "TIMED_OUT"
    /\ acked[c] =>
         coord[c] = "TIMED_OUT" /\ ~(cur = c /\ main \in {"record", "ack"})
    /\ chan[c] = "full" => worker[c] \notin {"none", "working"}
    /\ chan[c] = "closed" => worker[c] = "exited"

\* What each stage of the main thread knows of the call it serves.
MainHandshake ==
    /\ main = "spawn" => worker[cur] = "none"
    /\ main \in {"waiting", "joining", "claim"} =>
         worker[cur] # "none" /\ coord[cur] # "TIMED_OUT"
    /\ main = "joining" => worker[cur] # "working"
    /\ main \in {"record", "ack", "reply"} => coord[cur] = "TIMED_OUT"
    /\ main # "idle" => answer[cur] = "none"

\* A call is let in only while a slot is free, and takes one at most.
Room ==
    /\ count <= MaxAbandoned
    /\ main \in {"spawn", "waiting", "joining", "claim", "record"} =>
         count < MaxAbandoned

IInv == /\ TypeOK
        /\ \A c \in Calls : Handshake(c)
        /\ MainHandshake
        /\ CountExact
        /\ Room

-----------------------------------------------------------------------------

LEMMA ChargedFinite == IsFiniteSet(Charged)
  BY CallsAssumption, FS_Subset DEF Charged

LEMMA InitIInv == Init => IInv
  <1> SUFFICES ASSUME Init PROVE IInv
    OBVIOUS
  <1>1. TypeOK
    BY CallsAssumption DEF Init, TypeOK
  <1>2. (\A c \in Calls : Handshake(c)) /\ MainHandshake
    BY DEF Init, Handshake, MainHandshake
  <1>3. Charged = {}
    BY DEF Init, Charged
  <1>4. CountExact
    BY <1>3, FS_EmptySet DEF Init, CountExact
  <1>5. Room
    BY LimitsAssumption DEF Init, Room
  <1> QED
    BY <1>1, <1>2, <1>4, <1>5 DEF IInv

\* The set of counted calls changes only where the counter does.
LEMMA ChargedStep ==
  ASSUME IInv, [Next]_vars
  PROVE  \/ /\ RecordTimeout
            /\ cur \notin Charged /\ Charged' = Charged \union {cur}
         \/ \E w \in Calls : /\ RecordFinish(w)
                             /\ w \in Charged /\ Charged' = Charged \ {w}
         \/ count' = count /\ Charged' = Charged
  <1> USE DEF IInv, TypeOK, Charged
  <1>1. CASE RecordTimeout
    <2>1. coord[cur] = "TIMED_OUT" /\ cur \in Calls
      BY <1>1 DEF RecordTimeout, MainHandshake
    <2>2. worker[cur] \notin {"exiting", "exited"}
      BY <1>1, <2>1 DEF RecordTimeout, Handshake
    <2> QED
      BY <1>1, <2>1, <2>2 DEF RecordTimeout
  <1>2. ASSUME NEW w \in Calls, RecordFinish(w)
        PROVE  w \in Charged /\ Charged' = Charged \ {w}
    <2>1. coord[w] = "TIMED_OUT" /\ ~(main = "record" /\ cur = w)
      BY <1>2 DEF RecordFinish, Handshake
    <2> QED
      BY <1>2, <2>1 DEF RecordFinish, mainVars
  <1>3. CASE ClaimTimeout
    BY <1>3 DEF ClaimTimeout
  <1>4. CASE Spawn
    BY <1>4 DEF Spawn, MainHandshake, Handshake
  <1>5. CASE ReceiveValue \/ Deadline \/ AckTimeout
    BY <1>5 DEF ReceiveValue, Deadline, AckTimeout
  <1>6. CASE Join \/ Disconnected \/ ClaimTimeoutLost \/ ReplyTimeout
    BY <1>6 DEF Join, Disconnected, ClaimTimeoutLost, ReplyTimeout, Respond
  <1>7. ASSUME NEW c \in Calls, Refuse(c) \/ Accept(c)
        PROVE  count' = count /\ Charged' = Charged
    BY <1>7 DEF Refuse, Accept
  <1>8. ASSUME NEW w \in Calls,
               WorkReturns(w) \/ WorkPanics(w) \/ SeeAck(w) \/ Exit(w)
        PROVE  count' = count /\ Charged' = Charged
    BY <1>8 DEF WorkReturns, WorkPanics, SeeAck, Exit, mainVars
  <1>9. ASSUME NEW w \in Calls, ClaimFinish(w) \/ ClaimFinishLost(w)
        PROVE  count' = count /\ Charged' = Charged
    BY <1>9 DEF ClaimFinish, ClaimFinishLost, mainVars
  <1>10. CASE UNCHANGED vars
    BY <1>10 DEF vars
  <1> QED
    BY <1>1, <1>2, <1>3, <1>4, <1>5, <1>6, <1>7, <1>8, <1>9, <1>10
    DEF Next, Main, Worker, WindDown

LEMMA CountStep ==
  ASSUME IInv, [Next]_vars
  PROVE  CountExact' /\ count' \in Nat
  <1>1. /\ IsFiniteSet(Charged) /\ count = Cardinality(Charged)
        /\ count \in Nat
    BY ChargedFinite DEF IInv, TypeOK, CountExact
  <1>2. CASE RecordTimeout /\ cur \notin Charged /\ Charged' = Charged \union {cur}
    <2>1. Cardinality(Charged \union {cur}) = Cardinality(Charged) + 1
      BY <1>1, <1>2, FS_AddElement
    <2> QED
      BY <1>1, <1>2, <2>1 DEF RecordTimeout, CountExact
  <1>3. ASSUME NEW w \in Calls, RecordFinish(w), w \in Charged,
               Charged' = Charged \ {w}
        PROVE  CountExact' /\ count' \in Nat
    <2>1. Cardinality(Charged \ {w}) = Cardinality(Charged) - 1
      BY <1>1, <1>3, FS_RemoveElement
    <2>2. IsFiniteSet(Charged \ {w})
      BY <1>1, FS_RemoveElement
    <2>3. Cardinality(Charged \ {w}) \in Nat
      BY <2>2, FS_CardinalityType
    <2> QED
      BY <1>1, <1>3, <2>1, <2>3 DEF RecordFinish, CountExact
  <1>4. CASE count' = count /\ Charged' = Charged
    BY <1>1, <1>4 DEF CountExact
  <1> QED
    BY <1>2, <1>3, <1>4, ChargedStep

LEMMA TypeStep ==
  ASSUME IInv, [Next]_vars
  PROVE  TypeOK'
  <1> USE CallsAssumption DEF IInv, TypeOK
  <1>0. count' \in Nat
    BY CountStep
  <1>1. CASE Main
    <2> USE DEF Respond
    <2>1. CASE Spawn \/ ReceiveValue \/ Deadline
      BY <2>1 DEF Spawn, ReceiveValue, Deadline
    <2>2. CASE Join \/ Disconnected
      BY <2>2 DEF Join, Disconnected
    <2>3. CASE ClaimTimeout \/ ClaimTimeoutLost
      BY <2>3 DEF ClaimTimeout, ClaimTimeoutLost
    <2>4. CASE RecordTimeout
      BY <1>0, <2>4 DEF RecordTimeout
    <2>5. CASE AckTimeout
      <3>1. acked' \in [Calls -> BOOLEAN]
        BY <2>5 DEF AckTimeout
      <3> QED
        BY <2>5, <3>1 DEF AckTimeout
    <2>6. CASE ReplyTimeout
      BY <2>6 DEF ReplyTimeout
    <2> QED
      BY <1>1, <2>1, <2>2, <2>3, <2>4, <2>5, <2>6 DEF Main
  <1>2. ASSUME NEW c \in Calls, Refuse(c) \/ Accept(c)
        PROVE  TypeOK'
    BY <1>2 DEF Refuse, Accept
  <1>3. ASSUME NEW w \in Calls, Worker(w)
        PROVE  TypeOK'
    BY <1>0, <1>3 DEF Worker, WindDown, WorkReturns, WorkPanics, ClaimFinish,
      ClaimFinishLost, SeeAck, RecordFinish, Exit, mainVars
  <1>4. CASE UNCHANGED vars
    BY <1>4 DEF vars
  <1> QED
    BY <1>1, <1>2, <1>3, <1>4 DEF Next

LEMMA HandshakeStep ==
  ASSUME IInv, [Next]_vars
  PROVE  (\A c \in Calls : Handshake(c))' /\ MainHandshake'
  <1> USE CallsAssumption DEF IInv, TypeOK, Handshake, MainHandshake
  <1>1. CASE Spawn
    BY <1>1 DEF Spawn
  <1>2. CASE ReceiveValue
    BY <1>2 DEF ReceiveValue
  <1>3. CASE Join \/ Disconnected
    BY <1>3 DEF Join, Disconnected, Respond
  <1>4. CASE Deadline
    BY <1>4 DEF Deadline
  <1>5. CASE ClaimTimeout
    BY <1>5 DEF ClaimTimeout
  <1>6. CASE ClaimTimeoutLost
    BY <1>6 DEF ClaimTimeoutLost, Respond
  <1>7. CASE RecordTimeout
    BY <1>7 DEF RecordTimeout
  <1>8. CASE AckTimeout
    BY <1>8 DEF AckTimeout
  <1>9. CASE ReplyTimeout
    BY <1>9 DEF ReplyTimeout, Respond
  <1>10. ASSUME NEW c \in Calls, Refuse(c) \/ Accept(c)
         PROVE  (\A d \in Calls : Handshake(d))' /\ MainHandshake'
    BY <1>10 DEF Refuse, Accept
  <1>11. ASSUME NEW w \in Calls, WorkReturns(w) \/ WorkPanics(w)
         PROVE  (\A d \in Calls : Handshake(d))' /\ MainHandshake'
    BY <1>11 DEF WorkReturns, WorkPanics, mainVars
  <1>12. ASSUME NEW w \in Calls, ClaimFinish(w) \/ ClaimFinishLost(w)
         PROVE  (\A d \in Calls : Handshake(d))' /\ MainHandshake'
    BY <1>12 DEF ClaimFinish, ClaimFinishLost, mainVars
  <1>13. ASSUME NEW w \in Calls, SeeAck(w) \/ RecordFinish(w) \/ Exit(w)
         PROVE  (\A d \in Calls : Handshake(d))' /\ MainHandshake'
    BY <1>13 DEF SeeAck, RecordFinish, Exit, mainVars
  <1>14. CASE UNCHANGED vars
    BY <1>14 DEF vars
  <1> QED
    BY <1>1, <1>2, <1>3, <1>4, <1>5, <1>6, <1>7, <1>8, <1>9, <1>10, <1>11,
       <1>12, <1>13, <1>14 DEF Next, Main, Worker, WindDown

LEMMA RoomStep ==
  ASSUME IInv, [Next]_vars
  PROVE  Room'
  <1> USE LimitsAssumption DEF IInv, TypeOK, Room
  <1>1. CASE Main
    BY <1>1 DEF Main, Spawn, ReceiveValue, Join, Disconnected, Deadline,
      ClaimTimeout, ClaimTimeoutLost, RecordTimeout, AckTimeout, ReplyTimeout,
      Respond
  <1>2. ASSUME NEW c \in Calls, Refuse(c) \/ Accept(c)
        PROVE  Room'
    BY <1>2 DEF Refuse, Accept, IsAtCap
  <1>3. ASSUME NEW w \in Calls, RecordFinish(w)
        PROVE  Room'
    BY <1>3 DEF RecordFinish, mainVars
  <1>4. ASSUME NEW w \in Calls, Worker(w), ~RecordFinish(w)
        PROVE  Room'
    BY <1>4 DEF Worker, WindDown, WorkReturns, WorkPanics, ClaimFinish,
      ClaimFinishLost, SeeAck, Exit, mainVars
  <1>5. CASE UNCHANGED vars
    BY <1>5 DEF vars
  <1> QED
    BY <1>1, <1>2, <1>3, <1>4, <1>5 DEF Next

\* The inductive invariant holds in every reachable state.
THEOREM Invariant == Spec => []IInv
  <1>1. Init => IInv
    BY InitIInv
  <1>2. IInv /\ [Next]_vars => IInv'
    BY TypeStep, HandshakeStep, CountStep, RoomStep DEF IInv
  <1> QED
    BY <1>1, <1>2, PTL DEF Spec

\* Every variable keeps to its values; above all the counter, an unsigned
\* word in the code, never falls below zero.
THEOREM TypeCorrect == Spec => []TypeOK
  <1>1. IInv => TypeOK
    BY DEF IInv
  <1> QED
    BY <1>1, Invariant, PTL

\* ThreadTracker.count is, at every moment, the number of abandoned calls that
\* were counted and whose thread has not yet counted down (timeout.rs:13-16).
THEOREM CountIsExact == Spec => []CountExact
  <1>1. IInv => CountExact
    BY DEF IInv
  <1> QED
    BY <1>1, Invariant, PTL

\* A worker that spins on timeout_acked spins on a call the main thread has
\* claimed and has yet to acknowledge.
THEOREM SpinCovered == Spec => []SpinIsCovered
  <1>1. IInv => SpinIsCovered
    BY DEF IInv, SpinIsCovered, Handshake
  <1> QED
    BY <1>1, Invariant, PTL

\* However many calls arrive and hang, at most MAX_ABANDONED_THREADS threads
\* run tool work, the one under way included.
THEOREM WorkIsBounded == Spec => []WorkBounded
  <1> DEFINE Busy == {c \in Calls : worker[c] = "working"}
  <1>1. ASSUME IInv PROVE WorkBounded
    <2>1. /\ IsFiniteSet(Charged) /\ Cardinality(Charged) = count
          /\ count \in Nat /\ MaxAbandoned \in Nat
      BY <1>1, ChargedFinite, LimitsAssumption DEF IInv, CountExact, TypeOK
    <2>2. CASE main \in {"spawn", "waiting", "joining", "claim", "record"}
      <3>1. Busy \subseteq Charged \union {cur}
        BY <1>1, <2>2 DEF IInv, TypeOK, Handshake, Charged
      <3>2. /\ IsFiniteSet(Charged \union {cur})
            /\ Cardinality(Charged \union {cur}) <= count + 1
        BY <2>1, FS_AddElement
      <3>3. Cardinality(Busy) <= Cardinality(Charged \union {cur})
        BY <3>1, <3>2, FS_Subset
      <3>4. /\ IsFiniteSet(Busy) /\ Cardinality(Busy) \in Nat
            /\ Cardinality(Charged \union {cur}) \in Nat
        BY <3>1, <3>2, FS_Subset, FS_CardinalityType
      <3>5. count < MaxAbandoned
        BY <1>1, <2>2 DEF IInv, Room
      <3> QED
        BY <2>1, <3>2, <3>3, <3>4, <3>5 DEF WorkBounded
    <2>3. CASE main \notin {"spawn", "waiting", "joining", "claim", "record"}
      <3>1. Busy \subseteq Charged
        BY <1>1, <2>3 DEF IInv, TypeOK, Handshake, Charged
      <3>2. Cardinality(Busy) <= Cardinality(Charged) /\ IsFiniteSet(Busy)
        BY <2>1, <3>1, FS_Subset
      <3>3. Cardinality(Busy) \in Nat
        BY <3>2, FS_CardinalityType
      <3>4. count <= MaxAbandoned
        BY <1>1 DEF IInv, Room
      <3> QED
        BY <2>1, <3>2, <3>3, <3>4 DEF WorkBounded
    <2> QED
      BY <2>2, <2>3
  <1> QED
    BY <1>1, Invariant, PTL

-----------------------------------------------------------------------------
(* ToolTimeout implements AbandonedPool (its safety part).                 *)

PoolAbandoned == {c \in Calls : /\ coord[c] = "TIMED_OUT"
                               /\ worker[c] \notin {"exiting", "exited"}}
PoolPending == IF Claimed THEN NoCall ELSE cur
PoolAnswer == [c \in Calls |-> IF Claimed /\ c = cur THEN "timeout" ELSE answer[c]]

LEMMA PoolInit == Init => Pool!Init
  BY DEF Init, Pool!Init, Claimed

\* The counter read by is_at_cap is the pool's occupancy.
LEMMA PoolFull ==
  ASSUME IInv, main = "idle"
  PROVE  FillsSlots(PoolAbandoned) <=> IsAtCap
  <1>1. PoolAbandoned = Charged
    BY DEF PoolAbandoned, Charged
  <1> QED
    BY <1>1 DEF IInv, CountExact, IsAtCap, FillsSlots

LEMMA PoolStep ==
  ASSUME IInv, [Next]_vars
  PROVE  [Pool!Next]_(Pool!vars)
  <1> USE CallsAssumption DEF IInv, TypeOK, Pool!vars, PoolAbandoned, Claimed
  <1>1. ASSUME NEW c \in Calls, Refuse(c)
        PROVE  Pool!Refuse(c)
    BY <1>1, PoolFull DEF Refuse, Pool!Refuse
  <1>2. ASSUME NEW c \in Calls, Accept(c)
        PROVE  Pool!Admit(c)
    BY <1>2, PoolFull DEF Accept, Pool!Admit
  <1>3. CASE Join
    <2>1. Pool!Complete("ok")
      BY <1>3 DEF Join, Respond, Pool!Complete
    <2> QED
      BY <2>1 DEF Pool!Next, Pool!Resolve
  <1>4. CASE Disconnected
    <2>1. Pool!Complete("panic")
      BY <1>4 DEF Disconnected, Respond, Pool!Complete
    <2> QED
      BY <2>1 DEF Pool!Next, Pool!Resolve
  <1>5. CASE ClaimTimeoutLost
    <2>1. Pool!Complete("timeout")
      BY <1>5 DEF ClaimTimeoutLost, Respond, Pool!Complete
    <2> QED
      BY <2>1 DEF Pool!Next, Pool!Resolve
  <1>6. CASE ClaimTimeout
    <2>1. worker[cur] \notin {"exiting", "exited"} /\ cur \in Calls
      BY <1>6 DEF ClaimTimeout, Handshake
    <2>2. PoolAbandoned' = PoolAbandoned \union {cur}
      BY <1>6, <2>1 DEF ClaimTimeout
    <2>3. Pool!Abandon
      BY <1>6, <2>1, <2>2 DEF ClaimTimeout, Pool!Abandon
    <2> QED
      BY <2>3 DEF Pool!Next, Pool!Resolve
  <1>7. ASSUME NEW w \in Calls, RecordFinish(w)
        PROVE  Pool!Release(w)
    <2>1. PoolAbandoned' = PoolAbandoned \ {w} /\ w \in PoolAbandoned
      BY <1>7 DEF RecordFinish, Handshake
    <2> QED
      BY <1>7, <2>1 DEF RecordFinish, Pool!Release, mainVars
  <1>8. CASE Spawn \/ ReceiveValue \/ Deadline
    <2>1. PoolAbandoned' = PoolAbandoned
      BY <1>8 DEF Spawn, ReceiveValue, Deadline, MainHandshake, Handshake
    <2> QED
      BY <1>8, <2>1 DEF Spawn, ReceiveValue, Deadline
  <1>9. CASE RecordTimeout \/ AckTimeout \/ ReplyTimeout
    BY <1>9 DEF RecordTimeout, AckTimeout, ReplyTimeout, Respond
  <1>10. ASSUME NEW w \in Calls, WorkReturns(w) \/ WorkPanics(w) \/ SeeAck(w) \/ Exit(w)
         PROVE  UNCHANGED Pool!vars
    BY <1>10 DEF WorkReturns, WorkPanics, SeeAck, Exit, mainVars
  <1>11. ASSUME NEW w \in Calls, ClaimFinish(w) \/ ClaimFinishLost(w)
         PROVE  UNCHANGED Pool!vars
    BY <1>11 DEF ClaimFinish, ClaimFinishLost, mainVars
  <1>12. CASE UNCHANGED vars
    BY <1>12 DEF vars
  <1> QED
    BY <1>1, <1>2, <1>3, <1>4, <1>5, <1>6, <1>7, <1>8, <1>9, <1>10, <1>11, <1>12
    DEF Next, Main, Worker, WindDown, Pool!Next

\* Whatever the interleaving, calls are answered once, refused only when every
\* slot is held by an abandoned call, and take a slot only with a timeout.
THEOREM ImplementsPoolSafety == Spec => Pool!Init /\ [][Pool!Next]_(Pool!vars)
  <1>1. Init => Pool!Init
    BY PoolInit
  <1>2. IInv /\ [Next]_vars => [Pool!Next]_(Pool!vars)
    BY PoolStep
  <1> QED
    BY <1>1, <1>2, Invariant, PTL DEF Spec

-----------------------------------------------------------------------------

ServerType ==
    /\ scopeExplicit \in BOOLEAN /\ toolDispatched \in BOOLEAN
    /\ rootsPending \in BOOLEAN
    /\ cwd \in RootDirs \union {LaunchDir}
    /\ home \in [Calls -> RootDirs \union {LaunchDir}]
    /\ rootsPending => ~scopeExplicit

\* No thread before the first tools/call.
Quiet == ~toolDispatched => main = "idle" /\ \A c \in Calls : worker[c] = "none"

\* Every worker there is, whatever it is at, was started where the server is.
Settled == \A c \in Calls : worker[c] # "none" => home[c] = cwd

ServerIInv == IInv /\ ServerType /\ Quiet /\ Settled

-----------------------------------------------------------------------------

LEMMA ServerInitIInv == ServerInit => ServerIInv
  <1> SUFFICES ASSUME ServerInit PROVE ServerIInv
    OBVIOUS
  <1>1. IInv
    BY InitIInv DEF ServerInit
  <1>2. ServerType /\ Quiet /\ Settled
    BY DEF ServerInit, Init, ServerType, Quiet, Settled
  <1> QED
    BY <1>1, <1>2 DEF ServerIInv

LEMMA ServerStepIsThreadStep ==
  ASSUME [ServerNext]_<<vars, serverVars>>
  PROVE  [Next]_vars
  <1>1. CASE Initialize
    BY <1>1 DEF Initialize
  <1>2. ASSUME NEW root, RootsReply(root) PROVE UNCHANGED vars
    BY <1>2 DEF RootsReply
  <1>3. ASSUME NEW c \in Calls, ToolCall(c) PROVE Next
    BY <1>3 DEF ToolCall, Next
  <1>4. CASE ThreadStep
    BY <1>4 DEF ThreadStep, Next
  <1> QED
    BY <1>1, <1>2, <1>3, <1>4 DEF ServerNext

\* The only step that starts a thread is Spawn, for the call under way.
LEMMA StartedBySpawn ==
  ASSUME IInv, Main \/ \E c \in Calls : Worker(c)
  PROVE  /\ main # "idle" \/ \E c \in Calls : worker[c] # "none"
         /\ \A c \in Calls :
              worker'[c] # "none" =>
                \/ worker[c] # "none"
                \/ main = "spawn" /\ main' = "waiting" /\ c = cur
  <1> USE DEF IInv, TypeOK
  <1>1. CASE Spawn
    BY <1>1 DEF Spawn
  <1>2. CASE Main /\ ~Spawn
    BY <1>2 DEF Main, ReceiveValue, Join, Disconnected, Deadline, ClaimTimeout,
                ClaimTimeoutLost, RecordTimeout, AckTimeout, ReplyTimeout, Respond
  <1>3. ASSUME NEW w \in Calls, Worker(w)
        PROVE  /\ worker[w] # "none"
               /\ \A c \in Calls \ {w} : worker'[c] = worker[c]
    BY <1>3 DEF Worker, WindDown, WorkReturns, WorkPanics, ClaimFinish,
                ClaimFinishLost, SeeAck, RecordFinish, Exit
  <1> QED
    BY <1>1, <1>2, <1>3

LEMMA ServerStep ==
  ASSUME ServerIInv, [ServerNext]_<<vars, serverVars>>
  PROVE  (ServerType /\ Quiet /\ Settled)'
  <1> USE DEF ServerIInv, ServerType, Quiet, Settled
  <1>1. CASE Initialize
    BY <1>1 DEF Initialize, vars
  <1>2. ASSUME NEW root \in RootDirs \union {NoRoot}, RootsReply(root)
        PROVE  (ServerType /\ Quiet /\ Settled)'
    \* The directory moves only while there is no thread.
    BY <1>2 DEF RootsReply, RootsHandoffAllowed, vars
  <1>3. ASSUME NEW c \in Calls, ToolCall(c)
        PROVE  (ServerType /\ Quiet /\ Settled)'
    BY <1>3 DEF ToolCall, Refuse, Accept
  <1>4. CASE ThreadStep
    <2>1. toolDispatched /\ toolDispatched'
      BY <1>4, StartedBySpawn DEF ThreadStep
    <2>2. ServerType' /\ Quiet'
      BY <1>4, <2>1 DEF ThreadStep
    <2>3. ASSUME NEW c \in Calls, worker'[c] # "none" PROVE home'[c] = cwd'
      <3>1. CASE main = "spawn" /\ main' = "waiting"
        <4>1. home' = [home EXCEPT ![cur] = cwd] /\ cwd' = cwd
          BY <1>4, <3>1 DEF ThreadStep
        <4>2. c = cur \/ worker[c] # "none"
          BY <1>4, <2>3, StartedBySpawn DEF ThreadStep
        <4> QED
          BY <4>1, <4>2
      <3>2. CASE ~(main = "spawn" /\ main' = "waiting")
        <4>1. home' = home /\ cwd' = cwd
          BY <1>4, <3>2 DEF ThreadStep
        <4>2. worker[c] # "none"
          BY <1>4, <2>3, <3>2, StartedBySpawn DEF ThreadStep
        <4> QED
          BY <4>1, <4>2
      <3> QED
        BY <3>1, <3>2
    <2> QED
      BY <2>2, <2>3
  <1>5. CASE UNCHANGED <<vars, serverVars>>
    BY <1>5 DEF vars, serverVars
  <1> QED
    BY <1>1, <1>2, <1>3, <1>4, <1>5 DEF ServerNext

\* The threads' inductive invariant and the loop's own hold together.
THEOREM ServerInvariant == ServerSpec => []ServerIInv
  <1>1. ServerInit => ServerIInv
    BY ServerInitIInv
  <1>2. ServerIInv /\ [ServerNext]_<<vars, serverVars>> => ServerIInv'
    <2> SUFFICES ASSUME ServerIInv, [ServerNext]_<<vars, serverVars>>
                 PROVE  ServerIInv'
      OBVIOUS
    <2>1. IInv /\ [Next]_vars
      BY ServerStepIsThreadStep DEF ServerIInv
    <2>2. IInv'
      BY <2>1, TypeStep, HandshakeStep, CountStep, RoomStep DEF IInv
    <2> QED
      BY <2>2, ServerStep DEF ServerIInv
  <1> QED
    BY <1>1, <1>2, PTL DEF ServerSpec

\* The variables of the loop and of the threads keep their types, and roots
\* are never asked for beside --scope.
THEOREM ServerTypeCorrect == ServerSpec => []ServerTypeOK
  <1>1. ServerIInv => ServerTypeOK
    BY DEF ServerIInv, ServerType, ServerTypeOK, IInv
  <1> QED
    BY <1>1, ServerInvariant, PTL

\* A client's reply to roots/list, however late, never moves the working
\* directory under a tool that is still running, abandoned ones included.
THEOREM GroundIsHeld == ServerSpec => []GroundHolds
  <1>1. ServerIInv => GroundHolds
    BY DEF ServerIInv, Settled, GroundHolds
  <1> QED
    BY <1>1, ServerInvariant, PTL

\* The counter of abandoned threads stays exact in the server as a whole.
THEOREM ServerCountExact == ServerSpec => []CountExact
  <1>1. ServerIInv => CountExact
    BY DEF ServerIInv, IInv
  <1> QED
    BY <1>1, ServerInvariant, PTL
=============================================================================
