-------------------------- MODULE GdbTargetProofs --------------------------
(* Proofs about the two-stage process exit, restarts and checkpoints, for   *)
(* traces of any length and any vCont lists.                                *)
EXTENDS GdbTarget, IndexLemmas, TLAPS

\* The operation and the end state agree: a replay that is about to run forward
\* has no end state to lose, because spawn_replay would have answered instead; a
\* job in flight excludes a restart, whose handler needs the backend's lock.
RunInv ==
  /\ phase = "run" /\ op \in ReplayOp => ~end_state
  /\ in_flight => stub \in {"Running", "Closing"}
  /\ in_flight => ~restart_pending
  /\ stub = "Accept" => phase = "none"

\* Ids are handed out once: what is deleted is gone.
TableInv == DOMAIN by_id \cap deleted = {}

ExitInv == EndStateAtExit /\ ExitReplyAtExit /\ RestartHolds

IInv == TypeOK /\ RunInv /\ ExitInv /\ TableInv

----------------------------------------------------------------------------
(* One lemma per part. *)

\* A replay ends on a recorded position; a forward one that reports the exit
\* ends on the last.
LEMMA StopsInTrace ==
  ASSUME position \in Position, NEW s \in Stops
  PROVE  s[1] \in Position /\ (is_forward(op) /\ s[2] = "ProcessExit" => ProcessExits /\ s[1] = LastPos)
<1>1. position \in 0..LastPos /\ LastPos \in Nat
  BY GdbConstants DEF Position
<1> DEFINE reached == IF is_forward(op) THEN position..LastPos ELSE 0..position
           end == IF is_forward(op) THEN LastPos ELSE 0
           boundary == IF ~is_forward(op) THEN "TraceStart"
                       ELSE IF ProcessExits THEN "ProcessExit" ELSE "TraceEnd"
<1>2. reached \subseteq 0..LastPos /\ end \in 0..LastPos
  BY <1>1
<1>3. boundary = "ProcessExit" => ProcessExits
  OBVIOUS
<1>4. \/ s = <<end, boundary>>
      \/ \E p \in reached :
           s \in {<<p, "Complete">>, <<p, "Breakpoint">>, <<p, "Interrupted">>, <<p, "Error">>}
  BY DEF Stops
<1> HIDE DEF reached, boundary
<1> QED
  BY <1>1, <1>2, <1>3, <1>4 DEF Position

Action == {"c", "s", "r", "r0", "t"}

\* The operation that the first n actions of a list ask for.
AskedBy(actions, n) ==
  LET steps == {i \in 1..n : actions[i] # "c"}
  IN  IF steps = {} THEN "Continue"
      ELSE IF actions[Max(steps)] = "r" THEN "RangeStep" ELSE "Step"

\* One more action: a continue changes nothing, a step replaces what was asked.
LEMMA OneMoreAction ==
  ASSUME NEW actions \in Seq(Action), NEW n \in 1..Len(actions), actions[n] # "t"
  PROVE  AskedBy(actions, n) = SetAction(AskedBy(actions, n - 1), actions[n])
<1> DEFINE S == {i \in 1..n : actions[i] # "c"}
           T == {i \in 1..(n - 1) : actions[i] # "c"}
<1>1. actions[n] \in {"c", "s", "r", "r0"} /\ n \in Nat /\ n - 1 \in Nat
  BY DEF Action
<1>2. CASE actions[n] = "c"
  <2>1. S = T
    BY <1>1, <1>2
  <2>2. AskedBy(actions, n) = IF S = {} THEN "Continue"
                              ELSE IF actions[Max(S)] = "r" THEN "RangeStep" ELSE "Step"
    BY DEF AskedBy
  <2>3. AskedBy(actions, n - 1) = IF T = {} THEN "Continue"
                                  ELSE IF actions[Max(T)] = "r" THEN "RangeStep" ELSE "Step"
    BY DEF AskedBy
  <2> HIDE DEF S, T
  <2>4. AskedBy(actions, n) = AskedBy(actions, n - 1)
    BY <2>1, <2>2, <2>3
  <2>5. SetAction(AskedBy(actions, n - 1), "c") = AskedBy(actions, n - 1)
    BY DEF SetAction
  <2> QED BY <1>2, <2>4, <2>5
<1>3. CASE actions[n] # "c"
  <2>1. n \in S /\ S \subseteq 0..n
    BY <1>1, <1>3
  <2>2. Max(S) \in S /\ Max(S) >= n
    BY <1>1, <2>1, MaxOfIndices
  <2>3. Max(S) = n
    BY <1>1, <2>2
  <2>4. AskedBy(actions, n) = IF actions[n] = "r" THEN "RangeStep" ELSE "Step"
    BY <2>1, <2>3 DEF AskedBy
  <2> QED BY <1>1, <1>3, <2>4 DEF SetAction
<1> QED BY <1>2, <1>3

\* The fold over the wire order computes what its actions ask for, whatever was
\* pending before: as far as nothing is refused.
LEMMA PendingIsAsked ==
  ASSUME NEW actions \in Seq(Action), NEW o, NEW N \in 0..Len(actions),
         \A i \in 1..N : actions[i] # "t"
  PROVE  pending_op(o, actions, N) = AskedBy(actions, N)
<1> DEFINE Folds(f) == f = [i \in 0..N |->
                              IF i = 0 THEN clear(o) ELSE SetAction(f[i - 1], actions[i])]
           asks == [i \in 0..N |-> AskedBy(actions, i)]
           f == CHOOSE g : Folds(g)
<1>1. N \in Nat /\ 1..N \subseteq 1..Len(actions)
  OBVIOUS
<1>2. AskedBy(actions, 0) = clear(o)
  BY DEF AskedBy, clear
<1>3. \A i \in 1..N : asks[i] = SetAction(asks[i - 1], actions[i])
  <2> SUFFICES ASSUME NEW i \in 1..N PROVE asks[i] = SetAction(asks[i - 1], actions[i])
    OBVIOUS
  <2>1. AskedBy(actions, i) = SetAction(AskedBy(actions, i - 1), actions[i])
    BY <1>1, OneMoreAction
  <2>2. asks[i] = AskedBy(actions, i) /\ asks[i - 1] = AskedBy(actions, i - 1)
    BY <1>1
  <2> HIDE DEF asks
  <2> QED BY <2>1, <2>2
<1>4. Folds(asks)
  <2>1. asks[0] = clear(o)
    BY <1>1, <1>2
  <2>2. asks = [i \in 0..N |-> asks[i]]
    OBVIOUS
  <2>3. \A i \in 0..N : asks[i] = IF i = 0 THEN clear(o) ELSE SetAction(asks[i - 1], actions[i])
    BY <1>1, <1>3, <2>1
  <2> HIDE DEF asks
  <2> QED BY <2>2, <2>3
<1>5. Folds(f)
  BY <1>4
<1> HIDE DEF f
<1>6. \A n \in Nat : n <= N => f[n] = asks[n]
  <2> DEFINE S == {n \in Nat : n <= N => f[n] = asks[n]}
  <2>1. 0 \in S
    BY <1>1, <1>2, <1>5
  <2>2. ASSUME NEW n \in Nat, n \in S PROVE n + 1 \in S
    <3> SUFFICES ASSUME n + 1 <= N PROVE f[n + 1] = asks[n + 1]
      OBVIOUS
    <3>1. n + 1 \in 1..N /\ n + 1 \in 0..N /\ n + 1 - 1 = n
      BY <1>1
    <3>2. f[n] = asks[n]
      BY <1>1, <2>2
    <3>3. f[n + 1] = SetAction(f[n], actions[n + 1])
      BY <1>5, <3>1
    <3> HIDE DEF asks
    <3>4. asks[n + 1] = SetAction(asks[n], actions[n + 1])
      BY <1>3, <3>1
    <3> QED BY <3>2, <3>3, <3>4
  <2> HIDE DEF S
  <2>3. Nat \subseteq S
    BY <2>1, <2>2, SetInduction
  <2> QED BY <2>3 DEF S
<1>7. pending_op(o, actions, N) = f[N]
  BY DEF pending_op, f, Folds
<1>8. f[N] = AskedBy(actions, N)
  BY <1>1, <1>6
<1> QED BY <1>7, <1>8

\* A vCont starts the forward operation its list asks for.
LEMMA VContOp ==
  ASSUME NEW actions \in ActionLists, VCont(actions)
  PROVE  \E o \in ReplayOp : /\ is_forward(o) /\ o = Intended(actions)
                             /\ spawn_replay(o) /\ asked' = actions /\ pending' = "Continue"
<1>1. actions \in Seq(Action) /\ Len(actions) \in Nat /\ DOMAIN actions = 1..Len(actions)
  BY GdbConstants DEF Action
<1>2. \A i \in 1..Len(actions) : actions[i] # "t"
  BY <1>1 DEF VCont, Refused
<1>3. pending_op(pending, actions, Len(actions)) = AskedBy(actions, Len(actions))
  BY <1>1, <1>2, PendingIsAsked
<1>4. AskedBy(actions, Len(actions)) = Intended(actions)
  BY <1>1 DEF AskedBy, Intended
<1>5. Intended(actions) \in ReplayOp /\ is_forward(Intended(actions))
  BY DEF Intended, ReplayOp, is_forward
<1> QED BY <1>3, <1>4, <1>5 DEF VCont

\* A list that is refused half way leaves a forward operation pending, and nothing
\* else.
LEMMA RefusedPending ==
  ASSUME NEW actions \in ActionLists, VContRefused(actions)
  PROVE  /\ pending' \in {"Continue", "Step", "RangeStep"}
         /\ UNCHANGED <<stub, job, position, end_state, restart_pending, table, reply, history>>
<1>1. actions \in Seq(Action) /\ Len(actions) \in Nat /\ DOMAIN actions = 1..Len(actions)
  BY GdbConstants DEF Action
<1>2. PICK n \in Refused(actions) : /\ \A i \in Refused(actions) : n <= i
                                    /\ pending' = pending_op(pending, actions, n - 1)
  BY DEF VContRefused
<1>3. n \in 1..Len(actions) /\ n - 1 \in 0..Len(actions)
  BY <1>1, <1>2 DEF Refused
<1>4. \A i \in 1..(n - 1) : actions[i] # "t"
  BY <1>1, <1>2, <1>3 DEF Refused
<1>5. pending' = AskedBy(actions, n - 1)
  BY <1>1, <1>2, <1>3, <1>4, PendingIsAsked
<1>6. AskedBy(actions, n - 1) \in {"Continue", "Step", "RangeStep"}
  BY DEF AskedBy
<1> QED BY <1>5, <1>6 DEF VContRefused

\* A restart to a recorded position keeps the types.
LEMMA GoToTypes ==
  ASSUME TypeOK, NEW p \in Position, GoTo(p)
  PROVE  TypeOK'
<1>1. UNCHANGED <<stub, phase, op, result, interrupted, pending, by_id, next_id, deleted, reply,
                  asked>>
  BY DEF GoTo, job, table
<1>2. position' = p /\ restarted_at' = p /\ end_state' = FALSE /\ restart_pending' = TRUE
  BY DEF GoTo
<1>3. end_state' \in BOOLEAN /\ restart_pending' \in BOOLEAN /\ interrupted' \in BOOLEAN
  BY <1>1, <1>2 DEF TypeOK
<1>4. DOMAIN by_id' \subseteq 1..(next_id' - 1) /\ deleted' \subseteq 1..(next_id' - 1)
  BY <1>1 DEF TypeOK
<1>5. \A id \in DOMAIN by_id' : by_id'[id] \in Position
  BY <1>1 DEF TypeOK
<1> QED
  BY <1>1, <1>2, <1>3, <1>4, <1>5 DEF TypeOK

\* Every action keeps the types.
LEMMA TypeStep == IInv /\ [Next]_vars => TypeOK'
<1> SUFFICES ASSUME IInv, [Next]_vars PROVE TypeOK'
  OBVIOUS
<1> USE GdbConstants DEF IInv, TypeOK, Position, ReplayOp, CheckpointId
<1>1. CASE AcceptClient
  BY <1>1 DEF AcceptClient, job, table, history
<1>2. CASE Disconnect
  BY <1>2 DEF Disconnect, in_flight, job, table, history
<1>3. CASE CloseSession
  BY <1>3 DEF CloseSession, job, table, history
<1>4. ASSUME NEW actions \in ActionLists, VCont(actions) PROVE TypeOK'
  BY <1>4, VContOp DEF spawn_replay, Start, is_forward, job, table, history
<1>5. ASSUME NEW o \in {"BackwardContinue", "BackwardStep"}, BackwardResume(o) PROVE TypeOK'
  BY <1>5 DEF BackwardResume, spawn_replay, Start, is_forward, job, table, history
<1>6. CASE Replay
  <2>1. PICK s \in Stops : position' = s[1] /\ NoteEnd(s[2]) /\ result' = map_stop_reason(s[2])
    BY <1>6 DEF Replay
  <2> QED
    BY <1>6, <2>1, StopsInTrace DEF Replay, job, table, history, NoteEnd, map_stop_reason, is_forward
<1>7. CASE ReplayPanics
  BY <1>7 DEF ReplayPanics, job, table, history
<1>8. CASE Answer
  BY <1>8 DEF Answer, job, table, history
<1>9. CASE Swap
  <2>1. /\ interrupted' \in BOOLEAN /\ result' \in {"none", "T00", "T02", "T05", "T09", "W00"}
        /\ phase' = "swapped"
    BY <1>9 DEF Swap
  <2>2. UNCHANGED <<stub, op, position, end_state, restart_pending, pending, by_id, next_id, deleted,
                    reply, asked, restarted_at>>
    BY <1>9 DEF Swap, table, history
  <2> QED BY <2>1, <2>2
<1>10. CASE Send
  BY <1>10 DEF Send, job, table, history
<1>11. CASE Deliver
  BY <1>11 DEF Deliver, job, table, history
<1>12. CASE Interrupt
  BY <1>12 DEF Interrupt, job, table, history
<1>13. CASE RestartAtStart
  BY <1>13, GoToTypes DEF RestartAtStart
<1>14. ASSUME NEW p \in 0..(LastPos + 1), RestartAt(p) PROVE TypeOK'
  BY <1>14, GoToTypes DEF RestartAt
<1>15. ASSUME NEW id \in CheckpointId, RestartAtCheckpoint(id) PROVE TypeOK'
  BY <1>15, GoToTypes DEF RestartAtCheckpoint
<1>16. CASE Checkpoint
  BY <1>16 DEF Checkpoint, job, table, history
<1>17. ASSUME NEW id \in CheckpointId, DeleteCheckpoint(id) PROVE TypeOK'
  BY <1>17 DEF DeleteCheckpoint, job, table, history
<1>18. ASSUME NEW actions \in ActionLists, VContRefused(actions) PROVE TypeOK'
  <2>1. UNCHANGED <<stub, phase, op, result, interrupted, position, end_state, restart_pending,
                    by_id, next_id, deleted, reply, asked, restarted_at>>
    BY <1>18, RefusedPending DEF job, table, history
  <2>2. pending' \in {"Continue", "Step", "RangeStep"}
    BY <1>18, RefusedPending
  <2> QED BY <2>1, <2>2
<1>19. CASE UNCHANGED vars
  BY <1>19 DEF vars, job, table, history
<1> QED
  BY <1>1, <1>2, <1>3, <1>4, <1>5, <1>6, <1>7, <1>8, <1>9, <1>10, <1>11,
     <1>12, <1>13, <1>14, <1>15, <1>16, <1>17, <1>18, <1>19 DEF Next

\* Every action keeps replay, restart and end state apart.
LEMMA RunStep == IInv /\ [Next]_vars => RunInv'
<1> SUFFICES ASSUME IInv, [Next]_vars PROVE RunInv'
  OBVIOUS
<1> USE DEF IInv, RunInv, ReplayOp, in_flight, HasBackend, RestartReady
<1>1. CASE AcceptClient
  BY <1>1 DEF AcceptClient, job, table, history
<1>2. CASE Disconnect
  BY <1>2 DEF Disconnect, in_flight, job, table, history
<1>3. CASE CloseSession
  BY <1>3 DEF CloseSession, job, table, history
<1>4. ASSUME NEW actions \in ActionLists, VCont(actions) PROVE RunInv'
  BY <1>4 DEF VCont, spawn_replay, Start, is_forward, job, table, history
<1>5. ASSUME NEW o \in {"BackwardContinue", "BackwardStep"}, BackwardResume(o) PROVE RunInv'
  BY <1>5 DEF BackwardResume, spawn_replay, Start, is_forward, job, table, history
<1>6. CASE Replay
  BY <1>6 DEF Replay, job, table, history
<1>7. CASE ReplayPanics
  BY <1>7 DEF ReplayPanics, job, table, history
<1>8. CASE Answer
  BY <1>8 DEF Answer, job, table, history
<1>9. CASE Swap
  BY <1>9 DEF Swap, job, table, history
<1>10. CASE Send
  BY <1>10 DEF Send, job, table, history
<1>11. CASE Deliver
  BY <1>11 DEF Deliver, job, table, history
<1>12. CASE Interrupt
  BY <1>12 DEF Interrupt, job, table, history
<1>13. CASE RestartAtStart
  BY <1>13 DEF RestartAtStart, GoTo, job, table, history
<1>14. ASSUME NEW p \in 0..(LastPos + 1), RestartAt(p) PROVE RunInv'
  BY <1>14 DEF RestartAt, GoTo, job, table, history
<1>15. ASSUME NEW id \in CheckpointId, RestartAtCheckpoint(id) PROVE RunInv'
  BY <1>15 DEF RestartAtCheckpoint, GoTo, job, table, history
<1>16. CASE Checkpoint
  BY <1>16 DEF Checkpoint, job, table, history
<1>17. ASSUME NEW id \in CheckpointId, DeleteCheckpoint(id) PROVE RunInv'
  BY <1>17 DEF DeleteCheckpoint, job, table, history
<1>18. ASSUME NEW actions \in ActionLists, VContRefused(actions) PROVE RunInv'
  BY <1>18, RefusedPending DEF job, table, history
<1>19. CASE UNCHANGED vars
  BY <1>19 DEF vars, job, table, history
<1> QED
  BY <1>1, <1>2, <1>3, <1>4, <1>5, <1>6, <1>7, <1>8, <1>9, <1>10, <1>11,
     <1>12, <1>13, <1>14, <1>15, <1>16, <1>17, <1>18, <1>19 DEF Next

\* Every action keeps the end state at the exit and a restart where it went.
LEMMA ExitStep == IInv /\ [Next]_vars => ExitInv'
<1> SUFFICES ASSUME IInv, [Next]_vars PROVE ExitInv'
  OBVIOUS
<1> USE DEF IInv, RunInv, ExitInv, EndStateAtExit, ExitReplyAtExit, RestartHolds, ReplayOp, in_flight,
            HasBackend, RestartReady
<1>1. CASE AcceptClient
  BY <1>1 DEF AcceptClient, job, table, history
<1>2. CASE Disconnect
  BY <1>2 DEF Disconnect, in_flight, job, table, history
<1>3. CASE CloseSession
  BY <1>3 DEF CloseSession, job, table, history
<1>4. ASSUME NEW actions \in ActionLists, VCont(actions) PROVE ExitInv'
  BY <1>4, VContOp DEF spawn_replay, Start, is_forward, job, table, history
<1>5. ASSUME NEW o \in {"BackwardContinue", "BackwardStep"}, BackwardResume(o) PROVE ExitInv'
  BY <1>5 DEF BackwardResume, spawn_replay, Start, is_forward, job, table, history
<1>6. CASE Replay
  <2>1. PICK s \in Stops : position' = s[1] /\ NoteEnd(s[2])
    BY <1>6 DEF Replay
  <2>2. is_forward(op) /\ s[2] = "ProcessExit" => ProcessExits /\ s[1] = LastPos
    BY StopsInTrace DEF TypeOK
  <2> QED
    BY <1>6, <2>1, <2>2 DEF Replay, job, table, history, NoteEnd, ReplayOp
<1>7. CASE ReplayPanics
  BY <1>7 DEF ReplayPanics, job, table, history
<1>8. CASE Answer
  BY <1>8 DEF Answer, job, table, history
<1>9. CASE Swap
  BY <1>9 DEF Swap, job, table, history
<1>10. CASE Send
  BY <1>10 DEF Send, job, table, history
<1>11. CASE Deliver
  BY <1>11 DEF Deliver, job, table, history
<1>12. CASE Interrupt
  BY <1>12 DEF Interrupt, job, table, history
<1>13. CASE RestartAtStart
  BY <1>13 DEF RestartAtStart, GoTo, job, table, history
<1>14. ASSUME NEW p \in 0..(LastPos + 1), RestartAt(p) PROVE ExitInv'
  BY <1>14 DEF RestartAt, GoTo, job, table, history
<1>15. ASSUME NEW id \in CheckpointId, RestartAtCheckpoint(id) PROVE ExitInv'
  BY <1>15 DEF RestartAtCheckpoint, GoTo, job, table, history
<1>16. CASE Checkpoint
  BY <1>16 DEF Checkpoint, job, table, history
<1>17. ASSUME NEW id \in CheckpointId, DeleteCheckpoint(id) PROVE ExitInv'
  BY <1>17 DEF DeleteCheckpoint, job, table, history
<1>18. ASSUME NEW actions \in ActionLists, VContRefused(actions) PROVE ExitInv'
  BY <1>18, RefusedPending DEF job, table, history
<1>19. CASE UNCHANGED vars
  BY <1>19 DEF vars, job, table, history
<1> QED
  BY <1>1, <1>2, <1>3, <1>4, <1>5, <1>6, <1>7, <1>8, <1>9, <1>10, <1>11,
     <1>12, <1>13, <1>14, <1>15, <1>16, <1>17, <1>18, <1>19 DEF Next

\* Every action keeps deleted checkpoints out of the table.
LEMMA TableStep == IInv /\ [Next]_vars => TableInv'
<1> SUFFICES ASSUME IInv, [Next]_vars PROVE TableInv'
  OBVIOUS
<1> USE DEF IInv, TypeOK, TableInv
<1>1. CASE AcceptClient
  BY <1>1 DEF AcceptClient, job, table, history
<1>2. CASE Disconnect
  BY <1>2 DEF Disconnect, in_flight, job, table, history
<1>3. CASE CloseSession
  BY <1>3 DEF CloseSession, job, table, history
<1>4. ASSUME NEW actions \in ActionLists, VCont(actions) PROVE TableInv'
  BY <1>4 DEF VCont, spawn_replay, Start, is_forward, job, table, history
<1>5. ASSUME NEW o \in {"BackwardContinue", "BackwardStep"}, BackwardResume(o) PROVE TableInv'
  BY <1>5 DEF BackwardResume, spawn_replay, Start, is_forward, job, table, history
<1>6. CASE Replay
  BY <1>6 DEF Replay, job, table, history
<1>7. CASE ReplayPanics
  BY <1>7 DEF ReplayPanics, job, table, history
<1>8. CASE Answer
  BY <1>8 DEF Answer, job, table, history
<1>9. CASE Swap
  BY <1>9 DEF Swap, job, table, history
<1>10. CASE Send
  BY <1>10 DEF Send, job, table, history
<1>11. CASE Deliver
  BY <1>11 DEF Deliver, job, table, history
<1>12. CASE Interrupt
  BY <1>12 DEF Interrupt, job, table, history
<1>13. CASE RestartAtStart
  BY <1>13 DEF RestartAtStart, GoTo, job, table, history
<1>14. ASSUME NEW p \in 0..(LastPos + 1), RestartAt(p) PROVE TableInv'
  BY <1>14 DEF RestartAt, GoTo, job, table, history
<1>15. ASSUME NEW id \in CheckpointId, RestartAtCheckpoint(id) PROVE TableInv'
  BY <1>15 DEF RestartAtCheckpoint, GoTo, job, table, history
<1>16. CASE Checkpoint
  BY <1>16 DEF Checkpoint, job, table, history
<1>17. ASSUME NEW id \in CheckpointId, DeleteCheckpoint(id) PROVE TableInv'
  BY <1>17 DEF DeleteCheckpoint, job, table, history
<1>18. ASSUME NEW actions \in ActionLists, VContRefused(actions) PROVE TableInv'
  BY <1>18, RefusedPending DEF job, table, history
<1>19. CASE UNCHANGED vars
  BY <1>19 DEF vars, job, table, history
<1> QED
  BY <1>1, <1>2, <1>3, <1>4, <1>5, <1>6, <1>7, <1>8, <1>9, <1>10, <1>11,
     <1>12, <1>13, <1>14, <1>15, <1>16, <1>17, <1>18, <1>19 DEF Next

\* Every action keeps the running operation the one its packet asked for.
LEMMA AskedStep == IInv /\ RunsWhatWasAsked /\ [Next]_vars => RunsWhatWasAsked'
<1> SUFFICES ASSUME IInv, RunsWhatWasAsked, [Next]_vars PROVE RunsWhatWasAsked'
  OBVIOUS
<1> USE DEF RunsWhatWasAsked, in_flight
<1>1. CASE AcceptClient
  BY <1>1 DEF AcceptClient, job, table, history
<1>2. CASE Disconnect
  BY <1>2 DEF Disconnect, in_flight, job, table, history
<1>3. CASE CloseSession
  BY <1>3 DEF CloseSession, job, table, history
<1>4. ASSUME NEW actions \in ActionLists, VCont(actions) PROVE RunsWhatWasAsked'
  <2>1. PICK o : is_forward(o) /\ o = Intended(actions) /\ spawn_replay(o) /\ asked' = actions
    BY <1>4, VContOp
  <2>2. op' = o \/ ~is_forward(op')
    BY <2>1 DEF spawn_replay, Start, is_forward
  <2> QED BY <2>1, <2>2
<1>5. ASSUME NEW o \in {"BackwardContinue", "BackwardStep"}, BackwardResume(o) PROVE RunsWhatWasAsked'
  <2>1. ~is_forward(op')
    BY <1>5 DEF BackwardResume, spawn_replay, Start, is_forward
  <2> QED BY <2>1
<1>6. CASE Replay
  BY <1>6 DEF Replay, job, table, history
<1>7. CASE ReplayPanics
  BY <1>7 DEF ReplayPanics, job, table, history
<1>8. CASE Answer
  BY <1>8 DEF Answer, job, table, history
<1>9. CASE Swap
  BY <1>9 DEF Swap, job, table, history
<1>10. CASE Send
  BY <1>10 DEF Send, job, table, history
<1>11. CASE Deliver
  BY <1>11 DEF Deliver, job, table, history
<1>12. CASE Interrupt
  BY <1>12 DEF Interrupt, job, table, history
<1>13. ASSUME NEW p, GoTo(p) PROVE RunsWhatWasAsked'
  BY <1>13 DEF GoTo, job, table
<1>14. CASE Checkpoint
  BY <1>14 DEF Checkpoint, job, table, history
<1>15. ASSUME NEW id \in CheckpointId, DeleteCheckpoint(id) PROVE RunsWhatWasAsked'
  BY <1>15 DEF DeleteCheckpoint, job, table, history
<1>16. ASSUME NEW actions \in ActionLists, VContRefused(actions) PROVE RunsWhatWasAsked'
  BY <1>16, RefusedPending DEF job, table, history
<1>17. CASE UNCHANGED vars
  BY <1>17 DEF vars, job, table, history
<1> QED
  BY <1>1, <1>2, <1>3, <1>4, <1>5, <1>6, <1>7, <1>8, <1>9, <1>10, <1>11, <1>12, <1>13,
     <1>14, <1>15, <1>16, <1>17 DEF Next, RestartAtStart, RestartAt, RestartAtCheckpoint

\* How the exit is reported on its way to the client: the replay that entered the
\* end state carries the SIGKILL stop, or the SIGINT of an interrupt that came
\* too late to stop it.
ReportInv ==
  /\ end_state /\ stub = "Stopped" => reply \in {"T09", "T02"}
  /\ end_state /\ phase \in {"exec", "swapped", "sent"} =>
       \/ op \in ReplayOp /\ result \in {"T09", "T02"}
       \/ op = "ExitReply" /\ result = "W00"
  /\ end_state /\ phase = "run" => op = "ExitReply"
  /\ end_state => ~restart_pending

\* Every action keeps the report of the exit.
LEMMA ReportStep == IInv /\ ReportInv /\ [Next]_vars => ReportInv'
<1> SUFFICES ASSUME IInv, ReportInv, [Next]_vars PROVE ReportInv'
  OBVIOUS
<1> USE DEF IInv, RunInv, ReportInv, in_flight, ReplayOp
<1>1. CASE AcceptClient
  BY <1>1 DEF AcceptClient, job, table, history
<1>2. CASE Disconnect
  BY <1>2 DEF Disconnect, in_flight, job, table, history
<1>3. CASE CloseSession
  BY <1>3 DEF CloseSession, job, table, history
<1>4. ASSUME NEW actions \in ActionLists, VCont(actions) PROVE ReportInv'
  BY <1>4, VContOp DEF spawn_replay, Start, is_forward, job, table, history
<1>5. ASSUME NEW o \in {"BackwardContinue", "BackwardStep"}, BackwardResume(o) PROVE ReportInv'
  BY <1>5 DEF BackwardResume, spawn_replay, Start, is_forward, job, table, history
<1>6. CASE Replay
  <2>1. PICK s \in Stops : NoteEnd(s[2]) /\ result' = map_stop_reason(s[2])
    BY <1>6 DEF Replay
  <2>2. end_state' => result' = "T09"
    BY <1>6, <2>1 DEF Replay, NoteEnd, map_stop_reason
  <2> QED BY <1>6, <2>2 DEF Replay
<1>7. CASE ReplayPanics
  BY <1>7 DEF ReplayPanics, job, table, history
<1>8. CASE Answer
  BY <1>8 DEF Answer, job, table, history
<1>9. CASE Swap
  BY <1>9 DEF Swap, job, table, history
<1>10. CASE Send
  BY <1>10 DEF Send, job, table, history
<1>11. CASE Deliver
  BY <1>11 DEF Deliver, job, table, history
<1>12. CASE Interrupt
  BY <1>12 DEF Interrupt, job, table, history
<1>13. ASSUME NEW p, GoTo(p) PROVE ReportInv'
  BY <1>13 DEF GoTo
<1>14. CASE Checkpoint
  BY <1>14 DEF Checkpoint, job, table, history
<1>15. ASSUME NEW id \in CheckpointId, DeleteCheckpoint(id) PROVE ReportInv'
  BY <1>15 DEF DeleteCheckpoint, job, table, history
<1>16. ASSUME NEW actions \in ActionLists, VContRefused(actions) PROVE ReportInv'
  BY <1>16, RefusedPending DEF job, table, history
<1>17. CASE UNCHANGED vars
  BY <1>17 DEF vars, job, table, history
<1> QED
  BY <1>1, <1>2, <1>3, <1>4, <1>5, <1>6, <1>7, <1>8, <1>9, <1>10, <1>11, <1>12, <1>13,
     <1>14, <1>15, <1>16, <1>17 DEF Next, RestartAtStart, RestartAt, RestartAtCheckpoint

----------------------------------------------------------------------------
(* The theorems. *)

\* The inductive invariant holds in every reachable state.
THEOREM TargetInvariant == Spec => []IInv
<1>1. Init => IInv
  <2> SUFFICES ASSUME Init PROVE IInv
    OBVIOUS
  <2>1. end_state \in BOOLEAN /\ restart_pending \in BOOLEAN /\ interrupted \in BOOLEAN
    BY DEF Init
  <2>2. position \in Position /\ restarted_at \in Position /\ next_id \in 1..(MaxCheckpoints + 1)
    BY GdbConstants DEF Init, Position
  <2>3. DOMAIN by_id = {} /\ deleted = {}
    BY DEF Init
  <2>4. asked \in {<<>>} \cup ActionLists
    BY DEF Init
  <2>5. TypeOK
    BY <2>1, <2>2, <2>3, <2>4 DEF Init, TypeOK, ReplayOp
  <2>6. RunInv /\ ExitInv /\ TableInv
    BY DEF Init, RunInv, ExitInv, TableInv, EndStateAtExit, ExitReplyAtExit, RestartHolds, in_flight
  <2> QED
    BY <2>5, <2>6 DEF IInv
<1>2. IInv /\ [Next]_vars => IInv'
  BY TypeStep, RunStep, ExitStep, TableStep DEF IInv
<1> QED
  BY <1>1, <1>2, PTL DEF Spec

\* Positions, checkpoints and pending operations stay what they should be; in
\* particular a restart never leaves the trace.
THEOREM TargetTypes == Spec => []TypeOK
<1>1. IInv => TypeOK
  BY DEF IInv
<1> QED
  BY <1>1, TargetInvariant, PTL

\* The end state is only ever entered, and kept, at the exit of the process.
THEOREM EndStateMeansExit == Spec => []EndStateAtExit
<1>1. IInv => EndStateAtExit
  BY DEF IInv, ExitInv
<1> QED
  BY <1>1, TargetInvariant, PTL

\* W00 is only prepared at the exit of the process.
THEOREM ExitRepliesAtExit == Spec => []ExitReplyAtExit
<1>1. IInv => ExitReplyAtExit
  BY DEF IInv, ExitInv
<1> QED
  BY <1>1, TargetInvariant, PTL

\* A restart is not overtaken by a replay: the stop that answers the next
\* resume is reported where the restart went.
THEOREM RestartsHold == Spec => []RestartHolds
<1>1. IInv => RestartHolds
  BY DEF IInv, ExitInv
<1> QED
  BY <1>1, TargetInvariant, PTL

\* The replay that runs forward is the one its own vCont asked for, for action
\* lists of any length: nothing is left over from an earlier list, refused half way
\* or not, and no continue replaces a step (base.rs clear_resume_actions and
\* set_resume_action_continue).
THEOREM RunsAsAsked == Spec => []RunsWhatWasAsked
<1>1. Init => RunsWhatWasAsked
  BY DEF Init, RunsWhatWasAsked, in_flight
<1> QED
  BY <1>1, AskedStep, TargetInvariant, PTL DEF Spec

\* What is true of the claim that the exit "was already reported as the synthetic
\* SIGKILL stop" (target.rs:224-225): a client in the end state has seen T09, or
\* the T02 of the interrupt that raced the last replay, and nothing else.
THEOREM ExitReported ==
  Spec => [](end_state /\ stub = "Stopped" => reply \in {"T09", "T02"})
<1>1. Init => ReportInv
  BY DEF Init, ReportInv
<1>2. ReportInv => (end_state /\ stub = "Stopped" => reply \in {"T09", "T02"})
  BY DEF ReportInv
<1> QED
  BY <1>1, <1>2, ReportStep, TargetInvariant, PTL DEF Spec

\* A checkpoint keeps its position across sessions until it is deleted, and its
\* id is never given to another.
THEOREM CheckpointsKept == Spec => CheckpointsPersist
<1> DEFINE Kept == /\ \A id \in DOMAIN by_id :
                        IF id \in DOMAIN by_id' THEN by_id'[id] = by_id[id] ELSE id \in deleted'
                   /\ \A id \in deleted : id \notin DOMAIN by_id'
<1>1. IInv /\ [Next]_vars => [Kept]_vars
  <2> SUFFICES ASSUME IInv, Next PROVE Kept
    OBVIOUS
  <2>1. ASSUME by_id' = by_id PROVE Kept
    BY <2>1 DEF IInv, TableInv
  <2>2. CASE Checkpoint
    BY <2>2 DEF Checkpoint, IInv, TypeOK, TableInv
  <2>3. ASSUME NEW id \in CheckpointId, DeleteCheckpoint(id) PROVE Kept
    BY <2>3 DEF DeleteCheckpoint, IInv, TypeOK, TableInv
  <2>4. ASSUME ~Checkpoint, ~\E id \in CheckpointId : DeleteCheckpoint(id) PROVE by_id' = by_id
    BY <2>4 DEF Next, AcceptClient, Disconnect, CloseSession, VCont, VContRefused, BackwardResume, spawn_replay, Replay,
       ReplayPanics, Answer, Swap, Send, Deliver, Interrupt, RestartAtStart, RestartAt,
       RestartAtCheckpoint, GoTo, table
  <2> QED
    BY <2>1, <2>2, <2>3, <2>4
<1> QED
  BY <1>1, TargetInvariant, PTL DEF Spec, CheckpointsPersist

----------------------------------------------------------------------------
(* This layer implements the contract of its clients. *)

\* Every packet and every step of a job is a step of the contract.
LEMMA ContractStep ==
  ASSUME IInv, [Next]_vars
  PROVE  [Contract!Next]_(Contract!vars)
<1> USE DEF IInv, TypeOK, RunInv, in_flight, Session, JobState, Contract!vars
<1>1. CASE AcceptClient
  BY <1>1 DEF AcceptClient, job, Contract!Next, Contract!Open
<1>2. CASE Disconnect
  BY <1>2 DEF Disconnect, Contract!Next, Contract!Leave
<1>3. CASE CloseSession
  BY <1>3 DEF CloseSession, Contract!Next, Contract!Close
<1>4. ASSUME NEW o, spawn_replay(o) PROVE Contract!Next
  BY <1>4 DEF spawn_replay, Start, Contract!Next, Contract!Resume
<1>5. CASE Replay \/ Answer \/ Swap \/ ReplayPanics \/ Interrupt
  <2>1. stub' = stub /\ phase \in {"run", "exec", "swapped"} /\ phase' \in {"run", "exec", "swapped"}
    BY <1>5 DEF Replay, Answer, Swap, ReplayPanics, Interrupt
  <2>2. Session' = Session /\ JobState' = JobState
    BY <2>1
  <2> QED
    BY <2>2
<1>6. CASE Send
  BY <1>6 DEF Send, Contract!Next, Contract!Finish
<1>7. CASE Deliver
  BY <1>7 DEF Deliver, Contract!Next, Contract!Report
<1>8. ASSUME UNCHANGED <<stub, phase>> PROVE [Contract!Next]_(Contract!vars)
  <2>1. Session' = Session /\ JobState' = JobState
    BY <1>8
  <2> QED
    BY <2>1
<1>9. CASE \/ RestartAtStart
           \/ \E p \in 0..(LastPos + 1) : RestartAt(p)
           \/ \E id \in CheckpointId : RestartAtCheckpoint(id)
  BY <1>8, <1>9 DEF RestartAtStart, RestartAt, RestartAtCheckpoint, GoTo, job
<1>10. CASE Checkpoint \/ \E id \in CheckpointId : DeleteCheckpoint(id)
  BY <1>8, <1>10 DEF Checkpoint, DeleteCheckpoint, job
<1>11. CASE UNCHANGED vars
  BY <1>8, <1>11 DEF vars, job
<1>12. CASE \/ \E actions \in ActionLists : VCont(actions)
            \/ \E o \in {"BackwardContinue", "BackwardStep"} : BackwardResume(o)
  BY <1>4, <1>12 DEF VCont, BackwardResume
<1>13. CASE \E actions \in ActionLists : VContRefused(actions)
  BY <1>8, <1>13 DEF VContRefused, job
<1> QED
  BY <1>1, <1>2, <1>3, <1>5, <1>6, <1>7, <1>9, <1>10, <1>11, <1>12, <1>13 DEF Next

\* Packet by packet, restarts, checkpoints and the two-stage exit keep what a
\* client is promised about its resumes.
THEOREM TargetKeepsContract == Spec => ImplementsContract
<1>1. Init => Contract!Init
  BY DEF Init, Contract!Init, Session, JobState, in_flight
<1>2. IInv /\ [Next]_vars => [Contract!Next]_(Contract!vars)
  BY ContractStep
<1> QED
  BY TargetInvariant, <1>1, <1>2, PTL DEF Spec, ImplementsContract, Contract!Spec

=============================================================================
