------------------------- MODULE TargetRunnerProofs -------------------------
(***************************************************************************)
(* Proofs about TargetRunner: the hand-over of the backend between the     *)
(* event loop and its workers, the delivery of stops and of interrupts.    *)
(* Each part of the inductive invariant has its own lemma.                 *)
(***************************************************************************)
EXTENDS TargetRunner, TLAPS

\* TypeOK in two halves, next to the session of the flag, which is part of RefInv:
\* the provers treat the Boolean variables apart.
FlagsOK ==
  /\ replay_running \in BOOLEAN /\ interrupted \in BOOLEAN
  /\ interrupt_epoch \in BOOLEAN /\ slot \in BOOLEAN /\ poked \in BOOLEAN

ValuesOK ==
  /\ loop \in LoopPc /\ after \in {"Idle", "Running", "Check", "Grace"}
  /\ jobs \in 0..MaxJobs /\ base \in 0..jobs /\ sessions \in 0..MaxSessions
  /\ lock \in 0..jobs /\ refs \subseteq 1..jobs
  /\ rx \in [job : 0..jobs, buf : Outcome]
  /\ pc \in [Job -> WorkerPc] /\ kind \in AllJobKinds /\ calls \in 0..MaxCalls
  /\ outcome \in [Job -> Outcome] /\ asked \in [0..MaxJobs -> Nat]

\* Who holds the backend: only the latest job's worker, only while the flag of
\* the current session is up.
RefInv ==
  /\ \A j \in Job : j \in refs <=> pc[j] \in RefPc
  /\ \A j \in Job : lock = j <=> pc[j] \in JobPc
  /\ \A j \in Job : pc[j] = "None" <=> j > jobs
  /\ \A j \in Job : pc[j] \in RefPc => j = jobs /\ j > base /\ replay_running
  /\ \A j \in Job : pc[j] = "PubIdle" /\ j > base => j = jobs /\ replay_running
  /\ replay_running => jobs > base /\ pc[jobs] \in RefPc \cup {"PubIdle"}
  /\ loop \in {"Accept", "Stopped"} => refs = {}

\* The loop is between two waits, or between two stops, also while it is
\* inside request_interrupt.
InWait == loop \in Waiting \/ (loop \in Requesting /\ after \in {"Running", "Check"})
InStop == loop = "Idle" \/ (loop \in Requesting /\ after = "Idle")

\* A buffered result is that of the latest job, whose worker has exited.
ChannelInv ==
  /\ rx.job # 0 => rx.job = jobs /\ jobs > base
  /\ rx.buf # Empty => rx.job # 0 /\ pc[jobs] = "Exited"
  /\ \A j \in Job : pc[j] \in {"Unlock", "DropRef", "PubIdle", "Send"} =>
       outcome[j] \in {"natural", "panic", "on_interrupt"}
  /\ \A j \in Job : pc[j] = "Finished" => outcome[j] \in {"natural", "aborted"}
  /\ InWait => rx.job = jobs /\ jobs > base /\ (rx.buf # Empty \/ pc[jobs] # "Exited")
  /\ InStop => ~replay_running

\* What ^C reached belongs to the job that runs.
SlotInv == LiveSlot /\ (poked => slot)

\* The worker has not swapped the interrupt flag yet.
PreSwap == {"Spawned", "Job", "Published", "Replaying", "Stepping", "Finished"}

\* Whatever can cut a job short was preceded by the flag.
AbortInv ==
  /\ \A j \in Job : pc[j] \in PreSwap /\ (interrupt_epoch \/ poked) => interrupted
  /\ \A j \in Job : pc[j] \in PreSwap /\ loop \in {"ReqEpoch", "ReqPoke"} => interrupted
  /\ \A j \in Job : pc[j] = "Finished" /\ outcome[j] = "aborted" => interrupted
  /\ rx.buf # "aborted"

\* The flag, and the results made of it, belong to a job a client interrupted.
AskInv ==
  /\ loop \in {"Drain", "ReqLoad", "ReqStore", "Teardown"} => asked[jobs] > 0
  /\ interrupted => asked[jobs] > 0
  /\ \A j \in Job : outcome[j] = "on_interrupt" => asked[j] > 0
  /\ rx.buf = "on_interrupt" => asked[rx.job] > 0

\* A session has the channel of its latest job; between sessions there is none.
SessionInv ==
  IF loop \in {"Accept", "Stopped", "Dead"} THEN rx.job = 0
  ELSE jobs > base => rx.job = jobs

\* The inductive invariant.
IInv == TypeOK /\ RefInv /\ ChannelInv /\ SlotInv /\ AbortInv /\ AskInv /\ SessionInv

----------------------------------------------------------------------------
\* Every step of either thread keeps the flags Boolean.
LEMMA FlagStep ==
  ASSUME TypeOK, [Next]_vars
  PROVE  FlagsOK'
<1> USE RunnerConstants DEF TypeOK, FlagsOK, vars, atomics, backend, engine, client, worker
<1>1. CASE AcceptClient
  BY <1>1 DEF AcceptClient, NoChannel
<1>2. CASE StopServer
  BY <1>2 DEF StopServer
<1>3. CASE ResumeRefused
  BY <1>3 DEF ResumeRefused, Ask
<1>4. CASE Disconnect
  BY <1>4 DEF Disconnect, Ask
<1>5. CASE CtrlC
  BY <1>5 DEF CtrlC, Ask, LoopStep
<1>6. CASE VCtrlC
  BY <1>6 DEF VCtrlC, Ask
<1>7. ASSUME NEW k \in JobKind, start(k) PROVE FlagsOK'
  BY <1>7 DEF start, ClearInterrupted, AllJobKinds
<1>8. CASE TakeStop
  BY <1>8 DEF TakeStop, Deliver
<1>9. CASE DrainFull
  BY <1>9 DEF DrainFull, Deliver
<1>10. CASE DrainEmpty
  BY <1>10 DEF DrainEmpty, LoopStep
<1>11. CASE ReqLoad
  BY <1>11 DEF ReqLoad, LoopStep
<1>12. CASE ReqStore
  BY <1>12 DEF ReqStore, LoopStep
<1>13. CASE ReqEpoch
  BY <1>13 DEF ReqEpoch, LoopStep
<1>14. CASE ReqPoke
  BY <1>14 DEF ReqPoke, LoopStep, Replaying
<1>15. CASE InterruptCheck
  BY <1>15 DEF InterruptCheck, LoopStep
<1>16. CASE WaitStop
  BY <1>16 DEF WaitStop, Deliver
<1>17. CASE TeardownCheck
  BY <1>17 DEF TeardownCheck, LoopStep
<1>18. CASE GraceDone
  BY <1>18 DEF GraceDone, LoopStep
<1>19. CASE GraceExpires
  BY <1>19 DEF GraceExpires, LoopStep
<1>20. CASE Unwrap
  BY <1>20 DEF Unwrap, LoopStep, NoChannel
<1>21. ASSUME NEW j \in Job, Worker(j) PROVE FlagsOK'
  <2>1. CASE Acquire(j)
    BY <2>1 DEF Acquire, WorkerStep
  <2>2. CASE RunShort(j)
    BY <2>2 DEF RunShort, Finish, WorkerStep
  <2>3. CASE Publish(j)
    BY <2>3 DEF Publish, WorkerStep
  <2>4. CASE CallReplay(j)
    BY <2>4 DEF CallReplay, WorkerStep
  <2>5. CASE ReplayReturns(j)
    BY <2>5 DEF ReplayReturns, Finish, WorkerStep
  <2>6. CASE ReplayTransparent(j)
    BY <2>6 DEF ReplayTransparent, WorkerStep
  <2>7. CASE PollAborts(j)
    BY <2>7 DEF PollAborts, Finish, WorkerStep
  <2>8. CASE PollSteps(j)
    BY <2>8 DEF PollSteps, WorkerStep
  <2>9. CASE StepInRange(j)
    BY <2>9 DEF StepInRange, WorkerStep
  <2>10. CASE StepEnds(j)
    BY <2>10 DEF StepEnds, Finish, WorkerStep
  <2>11. CASE Panic(j)
    BY <2>11 DEF Panic
  <2>12. CASE Swap(j)
    BY <2>12 DEF Swap, WorkerStep
  <2>13. CASE Unlock(j)
    BY <2>13 DEF Unlock, WorkerStep
  <2>14. CASE DropRef(j)
    BY <2>14 DEF DropRef, WorkerStep
  <2>15. CASE PublishIdle(j)
    BY <2>15 DEF PublishIdle, WorkerStep
  <2>16. CASE Send(j)
    BY <2>16 DEF Send, WorkerStep
  <2> QED
    BY <1>21, <2>1, <2>2, <2>3, <2>4, <2>5, <2>6, <2>7, <2>8, <2>9, <2>10, <2>11, <2>12, <2>13, <2>14, <2>15, <2>16 DEF Worker
<1>22. CASE UNCHANGED vars
  BY <1>22
<1> QED
  BY <1>1, <1>2, <1>3, <1>4, <1>5, <1>6, <1>7, <1>8, <1>9, <1>10, <1>11, <1>12, <1>13, <1>14, <1>15, <1>16, <1>17, <1>18, <1>19, <1>20, <1>21, <1>22 DEF Next, Client, EventLoop, Ended

\* Every step of either thread keeps the types of the rest.
LEMMA ValueStep ==
  ASSUME TypeOK, RefInv, [Next]_vars
  PROVE  ValuesOK'
<1> USE RunnerConstants DEF TypeOK, Job, ValuesOK, RefInv, LoopPc, RefPc, JobPc, WorkerPc, Outcome, Empty, AllJobKinds, vars, atomics, backend, engine, client, worker
<1>1. CASE AcceptClient
  BY <1>1 DEF AcceptClient, NoChannel
<1>2. CASE StopServer
  BY <1>2 DEF StopServer
<1>3. CASE ResumeRefused
  BY <1>3 DEF ResumeRefused, Ask
<1>4. CASE Disconnect
  BY <1>4 DEF Disconnect, Ask
<1>5. CASE CtrlC
  BY <1>5 DEF CtrlC, Ask, LoopStep
<1>6. CASE VCtrlC
  BY <1>6 DEF VCtrlC, Ask
<1>7. ASSUME NEW k \in JobKind, start(k) PROVE ValuesOK'
  BY <1>7 DEF start, ClearInterrupted, AllJobKinds
<1>8. CASE TakeStop
  BY <1>8 DEF TakeStop, Deliver
<1>9. CASE DrainFull
  BY <1>9 DEF DrainFull, Deliver
<1>10. CASE DrainEmpty
  BY <1>10 DEF DrainEmpty, LoopStep
<1>11. CASE ReqLoad
  BY <1>11 DEF ReqLoad, LoopStep
<1>12. CASE ReqStore
  BY <1>12 DEF ReqStore, LoopStep
<1>13. CASE ReqEpoch
  BY <1>13 DEF ReqEpoch, LoopStep
<1>14. CASE ReqPoke
  BY <1>14 DEF ReqPoke, LoopStep, Replaying
<1>15. CASE InterruptCheck
  BY <1>15 DEF InterruptCheck, LoopStep
<1>16. CASE WaitStop
  BY <1>16 DEF WaitStop, Deliver
<1>17. CASE TeardownCheck
  BY <1>17 DEF TeardownCheck, LoopStep
<1>18. CASE GraceDone
  BY <1>18 DEF GraceDone, LoopStep
<1>19. CASE GraceExpires
  BY <1>19 DEF GraceExpires, LoopStep
<1>20. CASE Unwrap
  BY <1>20 DEF Unwrap, LoopStep, NoChannel
<1>21. ASSUME NEW j \in Job, Worker(j) PROVE ValuesOK'
  <2>1. CASE Acquire(j)
    BY <2>1 DEF Acquire, WorkerStep
  <2>2. CASE RunShort(j)
    BY <2>2 DEF RunShort, Finish, WorkerStep
  <2>3. CASE Publish(j)
    BY <2>3 DEF Publish, WorkerStep
  <2>4. CASE CallReplay(j)
    BY <2>4 DEF CallReplay, WorkerStep
  <2>5. CASE ReplayReturns(j)
    BY <2>5 DEF ReplayReturns, Finish, WorkerStep
  <2>6. CASE ReplayTransparent(j)
    BY <2>6 DEF ReplayTransparent, WorkerStep
  <2>7. CASE PollAborts(j)
    BY <2>7 DEF PollAborts, Finish, WorkerStep
  <2>8. CASE PollSteps(j)
    BY <2>8 DEF PollSteps, WorkerStep
  <2>9. CASE StepInRange(j)
    BY <2>9 DEF StepInRange, WorkerStep
  <2>10. CASE StepEnds(j)
    BY <2>10 DEF StepEnds, Finish, WorkerStep
  <2>11. CASE Panic(j)
    BY <2>11 DEF Panic
  <2>12. CASE Swap(j)
    BY <2>12 DEF Swap, WorkerStep
  <2>13. CASE Unlock(j)
    BY <2>13 DEF Unlock, WorkerStep
  <2>14. CASE DropRef(j)
    BY <2>14 DEF DropRef, WorkerStep
  <2>15. CASE PublishIdle(j)
    BY <2>15 DEF PublishIdle, WorkerStep
  <2>16. CASE Send(j)
    BY <2>16 DEF Send, WorkerStep
  <2> QED
    BY <1>21, <2>1, <2>2, <2>3, <2>4, <2>5, <2>6, <2>7, <2>8, <2>9, <2>10, <2>11, <2>12, <2>13, <2>14, <2>15, <2>16 DEF Worker
<1>22. CASE UNCHANGED vars
  BY <1>22
<1> QED
  BY <1>1, <1>2, <1>3, <1>4, <1>5, <1>6, <1>7, <1>8, <1>9, <1>10, <1>11, <1>12, <1>13, <1>14, <1>15, <1>16, <1>17, <1>18, <1>19, <1>20, <1>21, <1>22 DEF Next, Client, EventLoop, Ended

\* Every step keeps the account of who holds the backend.
LEMMA RefStep ==
  ASSUME TypeOK, RefInv, ChannelInv, [Next]_vars
  PROVE  RefInv'
<1> USE RunnerConstants DEF TypeOK, Job, RefInv, RefPc, JobPc, vars, atomics, backend, engine, client, worker
<1>1. CASE AcceptClient
  BY <1>1 DEF AcceptClient, NoChannel
<1>2. CASE StopServer
  BY <1>2 DEF StopServer
<1>3. CASE ResumeRefused
  BY <1>3 DEF ResumeRefused, Ask
<1>4. CASE Disconnect
  BY <1>4 DEF Disconnect, Ask
<1>5. CASE CtrlC
  BY <1>5 DEF CtrlC, Ask, LoopStep
<1>6. CASE VCtrlC
  BY <1>6 DEF VCtrlC, Ask
<1>7. ASSUME NEW k \in JobKind, start(k) PROVE RefInv'
  BY <1>7 DEF start, ClearInterrupted, AllJobKinds
<1>8. CASE TakeStop
  BY <1>8 DEF TakeStop, Deliver
<1>9. CASE DrainFull
  BY <1>9 DEF DrainFull, Deliver
<1>10. CASE DrainEmpty
  BY <1>10 DEF DrainEmpty, LoopStep
<1>11. CASE ReqLoad
  BY <1>11 DEF ReqLoad, LoopStep
<1>12. CASE ReqStore
  BY <1>12 DEF ReqStore, LoopStep
<1>13. CASE ReqEpoch
  BY <1>13 DEF ReqEpoch, LoopStep
<1>14. CASE ReqPoke
  BY <1>14 DEF ReqPoke, LoopStep, Replaying
<1>15. CASE InterruptCheck
  BY <1>15 DEF InterruptCheck, LoopStep
<1>16. CASE WaitStop
  BY <1>16 DEF WaitStop, Deliver
<1>17. CASE TeardownCheck
  BY <1>17 DEF TeardownCheck, LoopStep
<1>18. CASE GraceDone
  BY <1>18 DEF GraceDone, LoopStep
<1>19. CASE GraceExpires
  BY <1>19 DEF GraceExpires, LoopStep
<1>20. CASE Unwrap
  BY <1>20 DEF Unwrap, LoopStep, NoChannel
<1>21. ASSUME NEW j \in Job, Worker(j) PROVE RefInv'
  <2>1. CASE Acquire(j)
    BY <2>1 DEF Acquire, WorkerStep
  <2>2. CASE RunShort(j)
    BY <2>2 DEF RunShort, Finish, WorkerStep
  <2>3. CASE Publish(j)
    BY <2>3 DEF Publish, WorkerStep
  <2>4. CASE CallReplay(j)
    BY <2>4 DEF CallReplay, WorkerStep
  <2>5. CASE ReplayReturns(j)
    BY <2>5 DEF ReplayReturns, Finish, WorkerStep
  <2>6. CASE ReplayTransparent(j)
    BY <2>6 DEF ReplayTransparent, WorkerStep
  <2>7. CASE PollAborts(j)
    BY <2>7 DEF PollAborts, Finish, WorkerStep
  <2>8. CASE PollSteps(j)
    BY <2>8 DEF PollSteps, WorkerStep
  <2>9. CASE StepInRange(j)
    BY <2>9 DEF StepInRange, WorkerStep
  <2>10. CASE StepEnds(j)
    BY <2>10 DEF StepEnds, Finish, WorkerStep
  <2>11. CASE Panic(j)
    BY <2>11 DEF Panic
  <2>12. CASE Swap(j)
    BY <2>12 DEF Swap, WorkerStep
  <2>13. CASE Unlock(j)
    BY <2>13 DEF Unlock, WorkerStep
  <2>14. CASE DropRef(j)
    BY <2>14 DEF DropRef, WorkerStep
  <2>15. CASE PublishIdle(j)
    <3>1. replay_running' <=> replay_running /\ j <= base
      BY <2>15, Zenon DEF PublishIdle
    <3>2. j > base => \A i \in Job : pc[i] \notin RefPc
      BY <2>15 DEF PublishIdle, WorkerStep
    <3> QED
      BY <2>15, <3>1, <3>2 DEF PublishIdle, WorkerStep
  <2>16. CASE Send(j)
    BY <2>16 DEF Send, WorkerStep
  <2> QED
    BY <1>21, <2>1, <2>2, <2>3, <2>4, <2>5, <2>6, <2>7, <2>8, <2>9, <2>10, <2>11, <2>12, <2>13, <2>14, <2>15, <2>16 DEF Worker
<1>22. CASE UNCHANGED vars
  BY <1>22
<1> QED
  BY <1>1, <1>2, <1>3, <1>4, <1>5, <1>6, <1>7, <1>8, <1>9, <1>10, <1>11, <1>12, <1>13, <1>14, <1>15, <1>16, <1>17, <1>18, <1>19, <1>20, <1>21, <1>22 DEF Next, Client, EventLoop, Ended

\* Every step keeps the results in order.
LEMMA ChannelStep ==
  ASSUME TypeOK, RefInv, ChannelInv, AbortInv, [Next]_vars
  PROVE  ChannelInv'
<1> USE RunnerConstants DEF TypeOK, Job, RefInv, RefPc, JobPc, ChannelInv, InWait, InStop, Waiting, Requesting, Empty, vars, atomics, backend, engine, client, worker
<1>1. CASE AcceptClient
  BY <1>1 DEF AcceptClient, NoChannel
<1>2. CASE StopServer
  BY <1>2 DEF StopServer
<1>3. CASE ResumeRefused
  BY <1>3 DEF ResumeRefused, Ask
<1>4. CASE Disconnect
  BY <1>4 DEF Disconnect, Ask
<1>5. CASE CtrlC
  BY <1>5 DEF CtrlC, Ask, LoopStep
<1>6. CASE VCtrlC
  BY <1>6 DEF VCtrlC, Ask
<1>7. ASSUME NEW k \in JobKind, start(k) PROVE ChannelInv'
  BY <1>7 DEF start, ClearInterrupted, AllJobKinds
<1>8. CASE TakeStop
  BY <1>8 DEF TakeStop, Deliver
<1>9. CASE DrainFull
  BY <1>9 DEF DrainFull, Deliver
<1>10. CASE DrainEmpty
  BY <1>10 DEF DrainEmpty, LoopStep
<1>11. CASE ReqLoad
  BY <1>11 DEF ReqLoad, LoopStep
<1>12. CASE ReqStore
  BY <1>12 DEF ReqStore, LoopStep
<1>13. CASE ReqEpoch
  BY <1>13 DEF ReqEpoch, LoopStep
<1>14. CASE ReqPoke
  BY <1>14 DEF ReqPoke, LoopStep, Replaying
<1>15. CASE InterruptCheck
  BY <1>15 DEF InterruptCheck, LoopStep
<1>16. CASE WaitStop
  BY <1>16 DEF WaitStop, Deliver
<1>17. CASE TeardownCheck
  BY <1>17 DEF TeardownCheck, LoopStep
<1>18. CASE GraceDone
  BY <1>18 DEF GraceDone, LoopStep
<1>19. CASE GraceExpires
  BY <1>19 DEF GraceExpires, LoopStep
<1>20. CASE Unwrap
  BY <1>20 DEF Unwrap, LoopStep, NoChannel
<1>21. ASSUME NEW j \in Job, Worker(j) PROVE ChannelInv'
  <2>1. CASE Acquire(j)
    BY <2>1 DEF Acquire, WorkerStep
  <2>2. CASE RunShort(j)
    BY <2>2 DEF RunShort, Finish, WorkerStep
  <2>3. CASE Publish(j)
    BY <2>3 DEF Publish, WorkerStep
  <2>4. CASE CallReplay(j)
    BY <2>4 DEF CallReplay, WorkerStep
  <2>5. CASE ReplayReturns(j)
    BY <2>5 DEF ReplayReturns, Finish, WorkerStep
  <2>6. CASE ReplayTransparent(j)
    BY <2>6 DEF ReplayTransparent, WorkerStep
  <2>7. CASE PollAborts(j)
    BY <2>7 DEF PollAborts, Finish, WorkerStep
  <2>8. CASE PollSteps(j)
    BY <2>8 DEF PollSteps, WorkerStep
  <2>9. CASE StepInRange(j)
    BY <2>9 DEF StepInRange, WorkerStep
  <2>10. CASE StepEnds(j)
    BY <2>10 DEF StepEnds, Finish, WorkerStep
  <2>11. CASE Panic(j)
    BY <2>11 DEF Panic
  <2>12. CASE Swap(j)
    <3>1. ASSUME NEW i \in Job PROVE outcome'[i] = outcome[i] \/ (i = j /\ outcome'[i] = "on_interrupt")
      BY <2>12 DEF Swap
    <3>2. outcome'[j] \in {"natural", "on_interrupt"}
      BY <2>12 DEF Swap, WorkerStep, AbortInv
    <3> QED
      BY <2>12, <3>1, <3>2 DEF Swap, WorkerStep
  <2>13. CASE Unlock(j)
    BY <2>13 DEF Unlock, WorkerStep
  <2>14. CASE DropRef(j)
    BY <2>14 DEF DropRef, WorkerStep
  <2>15. CASE PublishIdle(j)
    BY <2>15 DEF PublishIdle, WorkerStep
  <2>16. CASE Send(j)
    <3>1. CASE rx.job = j
      <4>1. rx'.job = j /\ rx'.buf = outcome[j] /\ j = jobs
        BY <2>16, <3>1 DEF Send
      <4>2. pc' = [pc EXCEPT ![j] = "Exited"] /\ pc[j] = "Send"
        BY <2>16 DEF Send, WorkerStep
      <4>3. rx'.buf # Empty /\ pc'[j] = "Exited" /\ jobs > base
        <5>1. outcome[j] \in {"natural", "panic", "on_interrupt"}
          BY <4>2
        <5>2. pc'[j] = "Exited"
          BY <4>2
        <5>3. jobs > base
          BY <3>1
        <5> QED
          BY <4>1, <5>1, <5>2, <5>3
      <4>4. UNCHANGED <<loop, after, replay_running, jobs, base, outcome>>
        BY <2>16 DEF Send
      <4>5. \A i \in Job : pc'[i] \in {"Unlock", "DropRef", "PubIdle", "Send", "Finished"} => pc'[i] = pc[i]
        BY <4>2
      <4> QED
        BY <4>1, <4>3, <4>4, <4>5
    <3>2. CASE rx.job # j
      BY <2>16, <3>2 DEF Send, WorkerStep
    <3> QED
      BY <3>1, <3>2
  <2> QED
    BY <1>21, <2>1, <2>2, <2>3, <2>4, <2>5, <2>6, <2>7, <2>8, <2>9, <2>10, <2>11, <2>12, <2>13, <2>14, <2>15, <2>16 DEF Worker
<1>22. CASE UNCHANGED vars
  BY <1>22
<1> QED
  BY <1>1, <1>2, <1>3, <1>4, <1>5, <1>6, <1>7, <1>8, <1>9, <1>10, <1>11, <1>12, <1>13, <1>14, <1>15, <1>16, <1>17, <1>18, <1>19, <1>20, <1>21, <1>22 DEF Next, Client, EventLoop, Ended

\* Every step keeps the published cursor alive.
LEMMA SlotStep ==
  ASSUME TypeOK, RefInv, SlotInv, [Next]_vars
  PROVE  SlotInv'
<1> USE RunnerConstants DEF TypeOK, Job, RefInv, JobPc, SlotInv, LiveSlot, vars, atomics, backend, engine, client, worker
<1>1. CASE AcceptClient
  BY <1>1 DEF AcceptClient, NoChannel
<1>2. CASE StopServer
  BY <1>2 DEF StopServer
<1>3. CASE ResumeRefused
  BY <1>3 DEF ResumeRefused, Ask
<1>4. CASE Disconnect
  BY <1>4 DEF Disconnect, Ask
<1>5. CASE CtrlC
  BY <1>5 DEF CtrlC, Ask, LoopStep
<1>6. CASE VCtrlC
  BY <1>6 DEF VCtrlC, Ask
<1>7. ASSUME NEW k \in JobKind, start(k) PROVE SlotInv'
  BY <1>7 DEF start, ClearInterrupted, AllJobKinds
<1>8. CASE TakeStop
  BY <1>8 DEF TakeStop, Deliver
<1>9. CASE DrainFull
  BY <1>9 DEF DrainFull, Deliver
<1>10. CASE DrainEmpty
  BY <1>10 DEF DrainEmpty, LoopStep
<1>11. CASE ReqLoad
  BY <1>11 DEF ReqLoad, LoopStep
<1>12. CASE ReqStore
  BY <1>12 DEF ReqStore, LoopStep
<1>13. CASE ReqEpoch
  BY <1>13 DEF ReqEpoch, LoopStep
<1>14. CASE ReqPoke
  BY <1>14 DEF ReqPoke, LoopStep, Replaying
<1>15. CASE InterruptCheck
  BY <1>15 DEF InterruptCheck, LoopStep
<1>16. CASE WaitStop
  BY <1>16 DEF WaitStop, Deliver
<1>17. CASE TeardownCheck
  BY <1>17 DEF TeardownCheck, LoopStep
<1>18. CASE GraceDone
  BY <1>18 DEF GraceDone, LoopStep
<1>19. CASE GraceExpires
  BY <1>19 DEF GraceExpires, LoopStep
<1>20. CASE Unwrap
  BY <1>20 DEF Unwrap, LoopStep, NoChannel
<1>21. ASSUME NEW j \in Job, Worker(j) PROVE SlotInv'
  <2>1. CASE Acquire(j)
    BY <2>1 DEF Acquire, WorkerStep
  <2>2. CASE RunShort(j)
    BY <2>2 DEF RunShort, Finish, WorkerStep
  <2>3. CASE Publish(j)
    BY <2>3 DEF Publish, WorkerStep
  <2>4. CASE CallReplay(j)
    BY <2>4 DEF CallReplay, WorkerStep
  <2>5. CASE ReplayReturns(j)
    BY <2>5 DEF ReplayReturns, Finish, WorkerStep
  <2>6. CASE ReplayTransparent(j)
    BY <2>6 DEF ReplayTransparent, WorkerStep
  <2>7. CASE PollAborts(j)
    BY <2>7 DEF PollAborts, Finish, WorkerStep
  <2>8. CASE PollSteps(j)
    BY <2>8 DEF PollSteps, WorkerStep
  <2>9. CASE StepInRange(j)
    BY <2>9 DEF StepInRange, WorkerStep
  <2>10. CASE StepEnds(j)
    BY <2>10 DEF StepEnds, Finish, WorkerStep
  <2>11. CASE Panic(j)
    BY <2>11 DEF Panic
  <2>12. CASE Swap(j)
    BY <2>12 DEF Swap, WorkerStep
  <2>13. CASE Unlock(j)
    BY <2>13 DEF Unlock, WorkerStep
  <2>14. CASE DropRef(j)
    BY <2>14 DEF DropRef, WorkerStep
  <2>15. CASE PublishIdle(j)
    BY <2>15 DEF PublishIdle, WorkerStep
  <2>16. CASE Send(j)
    BY <2>16 DEF Send, WorkerStep
  <2> QED
    BY <1>21, <2>1, <2>2, <2>3, <2>4, <2>5, <2>6, <2>7, <2>8, <2>9, <2>10, <2>11, <2>12, <2>13, <2>14, <2>15, <2>16 DEF Worker
<1>22. CASE UNCHANGED vars
  BY <1>22
<1> QED
  BY <1>1, <1>2, <1>3, <1>4, <1>5, <1>6, <1>7, <1>8, <1>9, <1>10, <1>11, <1>12, <1>13, <1>14, <1>15, <1>16, <1>17, <1>18, <1>19, <1>20, <1>21, <1>22 DEF Next, Client, EventLoop, Ended

\* Every step keeps the flag ahead of what it announces.
LEMMA AbortStep ==
  ASSUME TypeOK, RefInv, ChannelInv, SlotInv, AbortInv, [Next]_vars
  PROVE  AbortInv'
<1> USE RunnerConstants DEF TypeOK, Job, RefInv, RefPc, JobPc, ChannelInv, SlotInv, LiveSlot, AbortInv, PreSwap, Empty, vars, atomics, backend, engine, client, worker
<1>1. CASE AcceptClient
  BY <1>1 DEF AcceptClient, NoChannel
<1>2. CASE StopServer
  BY <1>2 DEF StopServer
<1>3. CASE ResumeRefused
  BY <1>3 DEF ResumeRefused, Ask
<1>4. CASE Disconnect
  BY <1>4 DEF Disconnect, Ask
<1>5. CASE CtrlC
  BY <1>5 DEF CtrlC, Ask, LoopStep
<1>6. CASE VCtrlC
  BY <1>6 DEF VCtrlC, Ask
<1>7. ASSUME NEW k \in JobKind, start(k) PROVE AbortInv'
  BY <1>7 DEF start, ClearInterrupted, AllJobKinds
<1>8. CASE TakeStop
  BY <1>8 DEF TakeStop, Deliver
<1>9. CASE DrainFull
  BY <1>9 DEF DrainFull, Deliver
<1>10. CASE DrainEmpty
  BY <1>10 DEF DrainEmpty, LoopStep
<1>11. CASE ReqLoad
  BY <1>11 DEF ReqLoad, LoopStep
<1>12. CASE ReqStore
  BY <1>12 DEF ReqStore, LoopStep
<1>13. CASE ReqEpoch
  BY <1>13 DEF ReqEpoch, LoopStep
<1>14. CASE ReqPoke
  BY <1>14 DEF ReqPoke, LoopStep, Replaying
<1>15. CASE InterruptCheck
  BY <1>15 DEF InterruptCheck, LoopStep
<1>16. CASE WaitStop
  BY <1>16 DEF WaitStop, Deliver
<1>17. CASE TeardownCheck
  BY <1>17 DEF TeardownCheck, LoopStep
<1>18. CASE GraceDone
  BY <1>18 DEF GraceDone, LoopStep
<1>19. CASE GraceExpires
  BY <1>19 DEF GraceExpires, LoopStep
<1>20. CASE Unwrap
  BY <1>20 DEF Unwrap, LoopStep, NoChannel
<1>21. ASSUME NEW j \in Job, Worker(j) PROVE AbortInv'
  <2>1. CASE Acquire(j)
    BY <2>1 DEF Acquire, WorkerStep
  <2>2. CASE RunShort(j)
    BY <2>2 DEF RunShort, Finish, WorkerStep
  <2>3. CASE Publish(j)
    BY <2>3 DEF Publish, WorkerStep
  <2>4. CASE CallReplay(j)
    BY <2>4 DEF CallReplay, WorkerStep
  <2>5. CASE ReplayReturns(j)
    BY <2>5 DEF ReplayReturns, Finish, WorkerStep
  <2>6. CASE ReplayTransparent(j)
    BY <2>6 DEF ReplayTransparent, WorkerStep
  <2>7. CASE PollAborts(j)
    BY <2>7 DEF PollAborts, Finish, WorkerStep
  <2>8. CASE PollSteps(j)
    BY <2>8 DEF PollSteps, WorkerStep
  <2>9. CASE StepInRange(j)
    BY <2>9 DEF StepInRange, WorkerStep
  <2>10. CASE StepEnds(j)
    BY <2>10 DEF StepEnds, Finish, WorkerStep
  <2>11. CASE Panic(j)
    BY <2>11 DEF Panic
  <2>12. CASE Swap(j)
    BY <2>12 DEF Swap, WorkerStep
  <2>13. CASE Unlock(j)
    BY <2>13 DEF Unlock, WorkerStep
  <2>14. CASE DropRef(j)
    BY <2>14 DEF DropRef, WorkerStep
  <2>15. CASE PublishIdle(j)
    BY <2>15 DEF PublishIdle, WorkerStep
  <2>16. CASE Send(j)
    BY <2>16 DEF Send, WorkerStep
  <2> QED
    BY <1>21, <2>1, <2>2, <2>3, <2>4, <2>5, <2>6, <2>7, <2>8, <2>9, <2>10, <2>11, <2>12, <2>13, <2>14, <2>15, <2>16 DEF Worker
<1>22. CASE UNCHANGED vars
  BY <1>22
<1> QED
  BY <1>1, <1>2, <1>3, <1>4, <1>5, <1>6, <1>7, <1>8, <1>9, <1>10, <1>11, <1>12, <1>13, <1>14, <1>15, <1>16, <1>17, <1>18, <1>19, <1>20, <1>21, <1>22 DEF Next, Client, EventLoop, Ended

\* Every step keeps interrupts with the job they were meant for.
LEMMA AskStep ==
  ASSUME TypeOK, RefInv, ChannelInv, AskInv, [Next]_vars
  PROVE  AskInv'
<1> USE RunnerConstants DEF TypeOK, Job, RefInv, RefPc, JobPc, AskInv, Empty, vars, atomics, backend, engine, client, worker
<1>1. CASE AcceptClient
  BY <1>1 DEF AcceptClient, NoChannel
<1>2. CASE StopServer
  BY <1>2 DEF StopServer
<1>3. CASE ResumeRefused
  BY <1>3 DEF ResumeRefused, Ask
<1>4. CASE Disconnect
  BY <1>4 DEF Disconnect, Ask
<1>5. CASE CtrlC
  BY <1>5 DEF CtrlC, Ask, LoopStep
<1>6. CASE VCtrlC
  BY <1>6 DEF VCtrlC, Ask
<1>7. ASSUME NEW k \in JobKind, start(k) PROVE AskInv'
  BY <1>7 DEF start, ClearInterrupted, AllJobKinds
<1>8. CASE TakeStop
  BY <1>8 DEF TakeStop, Deliver
<1>9. CASE DrainFull
  BY <1>9 DEF DrainFull, Deliver
<1>10. CASE DrainEmpty
  BY <1>10 DEF DrainEmpty, LoopStep
<1>11. CASE ReqLoad
  BY <1>11 DEF ReqLoad, LoopStep
<1>12. CASE ReqStore
  BY <1>12 DEF ReqStore, LoopStep
<1>13. CASE ReqEpoch
  BY <1>13 DEF ReqEpoch, LoopStep
<1>14. CASE ReqPoke
  BY <1>14 DEF ReqPoke, LoopStep, Replaying
<1>15. CASE InterruptCheck
  BY <1>15 DEF InterruptCheck, LoopStep
<1>16. CASE WaitStop
  BY <1>16 DEF WaitStop, Deliver
<1>17. CASE TeardownCheck
  BY <1>17 DEF TeardownCheck, LoopStep
<1>18. CASE GraceDone
  BY <1>18 DEF GraceDone, LoopStep
<1>19. CASE GraceExpires
  BY <1>19 DEF GraceExpires, LoopStep
<1>20. CASE Unwrap
  BY <1>20 DEF Unwrap, LoopStep, NoChannel
<1>21. ASSUME NEW j \in Job, Worker(j) PROVE AskInv'
  <2>1. CASE Acquire(j)
    BY <2>1 DEF Acquire, WorkerStep
  <2>2. CASE RunShort(j)
    BY <2>2 DEF RunShort, Finish, WorkerStep
  <2>3. CASE Publish(j)
    BY <2>3 DEF Publish, WorkerStep
  <2>4. CASE CallReplay(j)
    BY <2>4 DEF CallReplay, WorkerStep
  <2>5. CASE ReplayReturns(j)
    BY <2>5 DEF ReplayReturns, Finish, WorkerStep
  <2>6. CASE ReplayTransparent(j)
    BY <2>6 DEF ReplayTransparent, WorkerStep
  <2>7. CASE PollAborts(j)
    BY <2>7 DEF PollAborts, Finish, WorkerStep
  <2>8. CASE PollSteps(j)
    BY <2>8 DEF PollSteps, WorkerStep
  <2>9. CASE StepInRange(j)
    BY <2>9 DEF StepInRange, WorkerStep
  <2>10. CASE StepEnds(j)
    BY <2>10 DEF StepEnds, Finish, WorkerStep
  <2>11. CASE Panic(j)
    BY <2>11 DEF Panic
  <2>12. CASE Swap(j)
    BY <2>12 DEF Swap, WorkerStep
  <2>13. CASE Unlock(j)
    BY <2>13 DEF Unlock, WorkerStep
  <2>14. CASE DropRef(j)
    BY <2>14 DEF DropRef, WorkerStep
  <2>15. CASE PublishIdle(j)
    BY <2>15 DEF PublishIdle, WorkerStep
  <2>16. CASE Send(j)
    BY <2>16 DEF Send, WorkerStep
  <2> QED
    BY <1>21, <2>1, <2>2, <2>3, <2>4, <2>5, <2>6, <2>7, <2>8, <2>9, <2>10, <2>11, <2>12, <2>13, <2>14, <2>15, <2>16 DEF Worker
<1>22. CASE UNCHANGED vars
  BY <1>22
<1> QED
  BY <1>1, <1>2, <1>3, <1>4, <1>5, <1>6, <1>7, <1>8, <1>9, <1>10, <1>11, <1>12, <1>13, <1>14, <1>15, <1>16, <1>17, <1>18, <1>19, <1>20, <1>21, <1>22 DEF Next, Client, EventLoop, Ended

\* Every step keeps the channel of the session.
LEMMA SessionStep ==
  ASSUME TypeOK, ChannelInv, SessionInv, [Next]_vars
  PROVE  SessionInv'
<1> USE RunnerConstants DEF TypeOK, SessionInv, vars, client
<1>1. CASE AcceptClient
  BY <1>1 DEF AcceptClient, NoChannel
<1>2. CASE StopServer
  BY <1>2 DEF StopServer
<1>3. CASE ResumeRefused \/ Disconnect \/ CtrlC \/ VCtrlC
  BY <1>3 DEF ResumeRefused, Disconnect, CtrlC, VCtrlC, LoopStep
<1>4. ASSUME NEW k \in JobKind, start(k) PROVE SessionInv'
  BY <1>4 DEF start
<1>5. CASE TakeStop \/ DrainFull \/ WaitStop
  BY <1>5 DEF TakeStop, DrainFull, WaitStop, Deliver
<1>6. CASE DrainEmpty \/ ReqLoad \/ ReqStore \/ ReqEpoch \/ ReqPoke \/ InterruptCheck
  BY <1>6 DEF DrainEmpty, ReqLoad, ReqStore, ReqEpoch, ReqPoke, InterruptCheck, LoopStep
<1>7. CASE TeardownCheck \/ GraceDone \/ GraceExpires
  BY <1>7 DEF TeardownCheck, GraceDone, GraceExpires, LoopStep
<1>8. CASE Unwrap
  BY <1>8 DEF Unwrap, LoopStep, NoChannel
<1>9. ASSUME NEW j \in Job, Worker(j) PROVE SessionInv'
  <2>1. UNCHANGED <<loop, jobs, base>> /\ rx'.job = rx.job
    BY <1>9 DEF Worker, Acquire, RunShort, Publish, CallReplay, ReplayReturns,
       ReplayTransparent, PollAborts, PollSteps, StepInRange, StepEnds, Panic, Swap,
       Unlock, DropRef, PublishIdle, Send
  <2> QED
    BY <2>1
<1>10. CASE UNCHANGED vars
  BY <1>10
<1> QED
  BY <1>1, <1>2, <1>3, <1>4, <1>5, <1>6, <1>7, <1>8, <1>9, <1>10 DEF Next, Client, EventLoop, Ended

\* The two halves, and the session the flag belongs to, are the type invariant.
LEMMA HalvesOfType == FlagsOK' /\ ValuesOK' /\ RefInv' => TypeOK'
<1> SUFFICES ASSUME FlagsOK', ValuesOK', RefInv' PROVE TypeOK'
  OBVIOUS
<1>1. (replay_running => jobs > base)'
  BY DEF RefInv
<1> QED
  BY <1>1 DEF TypeOK, FlagsOK, ValuesOK

\* The first state satisfies every part.
LEMMA InitIInv == Init => IInv
<1> SUFFICES ASSUME Init PROVE IInv
  OBVIOUS
<1> USE RunnerConstants DEF Init, Job, Empty
<1>1. TypeOK
  <2>1. FlagsOK
    BY DEF FlagsOK
  <2>2. ValuesOK
    BY DEF ValuesOK, NoChannel, LoopPc, RefPc, JobPc, WorkerPc, Outcome, AllJobKinds
  <2>3. replay_running => jobs > base
    OBVIOUS
  <2> QED
    BY <2>1, <2>2, <2>3 DEF TypeOK, FlagsOK, ValuesOK
<1>2. RefInv
  BY DEF RefInv, RefPc, JobPc
<1>3. ChannelInv
  BY DEF ChannelInv, NoChannel, InWait, InStop, Waiting, Requesting
<1>4. SlotInv /\ AbortInv
  BY DEF SlotInv, LiveSlot, AbortInv, PreSwap, NoChannel
<1>5. AskInv /\ SessionInv
  BY DEF AskInv, SessionInv, NoChannel
<1> QED
  BY <1>1, <1>2, <1>3, <1>4, <1>5 DEF IInv

\* The parts above hold of every state the server and its workers reach.
THEOREM RunnerInvariant == Spec => []IInv
<1>1. IInv /\ [Next]_vars => IInv'
  BY FlagStep, ValueStep, HalvesOfType, RefStep, ChannelStep, SlotStep, AbortStep, AskStep, SessionStep DEF IInv
<1> QED
  BY InitIInv, <1>1, PTL DEF Spec

\* Types of the runner's state.
THEOREM RunnerTypes == Spec => []TypeOK
<1>1. IInv => TypeOK
  BY DEF IInv
<1> QED
  BY RunnerInvariant, <1>1, PTL

\* try_lock is sound: an idle flag means the lock is free and no worker holds
\* the backend, in every session and after every panic.
THEOREM IdleIsFree == Spec => []IdleReleasesBackend
<1>1. IInv => IdleReleasesBackend
  <2> SUFFICES ASSUME IInv, ~replay_running PROVE lock = 0 /\ refs = {}
    BY DEF IdleReleasesBackend
  <2> USE RunnerConstants DEF IInv, RefInv, TypeOK, Job
  <2>1. \A j \in Job : pc[j] \notin RefPc
    OBVIOUS
  <2>2. refs = {}
    BY <2>1
  <2>3. lock = 0
    <3>1. lock \in Job => pc[lock] \in JobPc
      OBVIOUS
    <3> QED
      BY <2>1, <3>1 DEF RefPc
  <2> QED
    BY <2>2, <2>3
<1> QED
  BY RunnerInvariant, <1>1, PTL

\* What a teardown that waited in vain had already done: the interrupt handle of
\* the job it waits for has fired.
LossInv ==
  /\ loop = "ReqPoke" => interrupt_epoch
  /\ loop = "Grace" /\ replay_running => interrupt_epoch
  /\ loop = "Unwrap" /\ refs # {} => interrupt_epoch

\* Every step keeps the account of the teardown.
LEMMA LossStep ==
  ASSUME IInv, LossInv, [Next]_vars
  PROVE  LossInv'
<1> USE RunnerConstants DEF LossInv, IInv, TypeOK, Job, vars, atomics, backend, engine, client, worker
<1>1. ~replay_running => refs = {}
  BY DEF RefInv
<1>2. CASE AcceptClient \/ StopServer
  BY <1>2 DEF AcceptClient, StopServer
<1>3. CASE ResumeRefused \/ Disconnect \/ CtrlC \/ VCtrlC
  BY <1>3 DEF ResumeRefused, Disconnect, CtrlC, VCtrlC, LoopStep
<1>4. ASSUME NEW k \in JobKind, start(k) PROVE LossInv'
  BY <1>4 DEF start
<1>5. CASE TakeStop \/ DrainFull \/ WaitStop
  BY <1>5 DEF TakeStop, DrainFull, WaitStop, Deliver
<1>6. CASE DrainEmpty \/ ReqStore \/ ReqEpoch \/ InterruptCheck
  BY <1>6 DEF DrainEmpty, ReqStore, ReqEpoch, InterruptCheck, LoopStep
<1>7. CASE ReqLoad
  BY <1>7 DEF ReqLoad, LoopStep
<1>8. CASE ReqPoke
  BY <1>8 DEF ReqPoke, LoopStep
<1>9. CASE TeardownCheck \/ GraceDone
  BY <1>1, <1>9 DEF TeardownCheck, GraceDone, LoopStep
<1>10. CASE GraceExpires
  BY <1>10 DEF GraceExpires, LoopStep
<1>11. CASE Unwrap
  BY <1>11 DEF Unwrap, LoopStep
<1>12. ASSUME NEW j \in Job, Worker(j) PROVE LossInv'
  <2>1. /\ UNCHANGED <<loop, interrupt_epoch>> /\ refs' \subseteq refs
        /\ replay_running' => replay_running
    BY <1>12 DEF Worker, Acquire, RunShort, Publish, CallReplay, ReplayReturns,
       ReplayTransparent, PollAborts, PollSteps, StepInRange, StepEnds, Panic, Swap,
       Unlock, DropRef, PublishIdle, Send
  <2> QED
    BY <2>1
<1>13. CASE UNCHANGED vars
  BY <1>13
<1> QED
  BY <1>2, <1>3, <1>4, <1>5, <1>6, <1>7, <1>8, <1>9, <1>10, <1>11, <1>12, <1>13 DEF Next, Client, EventLoop, Ended

\* How far DisconnectKeepsServer fails, wherever the deadline of into_backend
\* passes (for every Slow): the server ends only while the latest job, one of the
\* leaving client's own session, still holds the backend although its interrupt
\* handle was fired.  A client that leaves a stopped target, and a worker that an
\* earlier session left behind, never take it down.
THEOREM LossNeedsRunningJob ==
  Spec => [][loop' = "Dead" /\ loop # "Dead" =>
               replay_running /\ interrupt_epoch /\ jobs > base /\ refs = {jobs}]_vars
<1> DEFINE Loss == loop' = "Dead" /\ loop # "Dead" =>
                     replay_running /\ interrupt_epoch /\ jobs > base /\ refs = {jobs}
<1>1. Init => LossInv
  BY DEF Init, LossInv
<1>2. IInv /\ LossInv /\ [Next]_vars => LossInv'
  BY LossStep
<1>3. IInv /\ LossInv /\ [Next]_vars => [Loss]_vars
  <2> SUFFICES ASSUME IInv, LossInv, Next, loop' = "Dead", loop # "Dead"
               PROVE  replay_running /\ interrupt_epoch /\ jobs > base /\ refs = {jobs}
    BY DEF vars
  <2>1. Unwrap /\ refs # {}
    <3>1. CASE Client
      BY <3>1 DEF Client, AcceptClient, StopServer, ResumeRefused, Disconnect, CtrlC, VCtrlC, start, LoopStep
    <3>2. CASE EventLoop
      <4>1. CASE ReqLoad \/ ReqPoke
        BY <4>1 DEF ReqLoad, ReqPoke, LoopStep, IInv, TypeOK
      <4> QED
        BY <3>2, <4>1 DEF EventLoop, TakeStop, DrainFull, WaitStop, Deliver, DrainEmpty, ReqStore,
           ReqEpoch, InterruptCheck, TeardownCheck, GraceDone, GraceExpires, Unwrap, LoopStep
    <3>3. ASSUME NEW j \in Job, Worker(j) PROVE FALSE
      BY <3>3 DEF Worker, Acquire, RunShort, Publish, CallReplay, ReplayReturns,
         ReplayTransparent, PollAborts, PollSteps, StepInRange, StepEnds, Panic, Swap,
         Unlock, DropRef, PublishIdle, Send
    <3>4. CASE Ended
      BY <3>4 DEF Ended, vars
    <3> QED
      BY <3>1, <3>2, <3>3, <3>4 DEF Next
  <2>2. refs \subseteq Job
    BY RunnerConstants DEF IInv, TypeOK, Job
  <2>3. \A j \in refs : j = jobs /\ j > base /\ replay_running
    BY <2>2 DEF IInv, RefInv
  <2>4. interrupt_epoch
    BY <2>1 DEF LossInv, Unwrap, LoopStep
  <2> QED
    BY <2>1, <2>3, <2>4
<1> QED
  BY RunnerInvariant, <1>1, <1>2, <1>3, PTL DEF Spec

\* A client that waited for its stop reply is never refused a resume.
THEOREM ResumeAfterStop == Spec => []StoppedCanResume
<1>1. IInv => StoppedCanResume
  BY DEF IInv, ChannelInv, InStop, StoppedCanResume
<1> QED
  BY RunnerInvariant, <1>1, PTL

\* A client that waits is owed an answer that is still on its way.
THEOREM StopStillComing == Spec => []StopNotLost
<1>1. IInv => StopNotLost
  BY DEF IInv, ChannelInv, InWait, StopNotLost
<1> QED
  BY RunnerInvariant, <1>1, PTL

\* The cursor behind the interrupt slot is alive.
THEOREM SlotAlive == Spec => []LiveSlot
<1>1. IInv => LiveSlot
  BY DEF IInv, SlotInv
<1> QED
  BY RunnerInvariant, <1>1, PTL

\* An aborted replay is reported as an interrupt.
THEOREM AbortsAreInterrupts == Spec => []AbortIsInterrupt
<1>1. IInv => AbortIsInterrupt
  BY DEF IInv, AbortInv, AbortIsInterrupt
<1> QED
  BY RunnerInvariant, <1>1, PTL

\* A late interrupt never leaks into a later job.
THEOREM NoInterruptLeak == Spec => []InterruptBelongsToJob
<1>1. IInv => InterruptBelongsToJob
  BY DEF IInv, AskInv, InterruptBelongsToJob
<1> QED
  BY RunnerInvariant, <1>1, PTL

----------------------------------------------------------------------------
(* The runner implements the contract of its clients. *)

\* A step that leaves the flag, the channel and the last two steps of the
\* workers alone does not change what is known of the job.
LEMMA QuietJob ==
  ASSUME UNCHANGED <<rx, replay_running>>, TypeOK,
         rx.job = 0 \/ (pc'[rx.job] = "Send" <=> pc[rx.job] = "Send")
  PROVE  JobState' = JobState
  BY DEF JobState

\* Every step of the event loop and of the workers is a step of the contract.
LEMMA ContractStep ==
  ASSUME IInv, [Next]_vars
  PROVE  [Contract!Next]_(Contract!vars)
<1> USE RunnerConstants DEF IInv, TypeOK, Contract!vars
<1>1. CASE AcceptClient
  <2>1. Session = "closed" /\ Session' = "open"
    BY <1>1 DEF AcceptClient, Session, Requesting
  <2>2. JobState' = "none"
    BY <1>1 DEF AcceptClient, JobState, NoChannel
  <2> QED
    BY <2>1, <2>2 DEF Contract!Next, Contract!Open
<1>2. CASE StopServer
  <2>1. Session' = Session
    BY <1>2 DEF StopServer, Session, Requesting
  <2>2. JobState' = JobState
    BY <1>2, QuietJob DEF StopServer, worker, atomics
  <2> QED
    BY <2>1, <2>2
<1>3. CASE ResumeRefused \/ Disconnect
  <2>1. Session = "open" /\ Session' = "closing"
    BY <1>3 DEF ResumeRefused, Disconnect, Session, Requesting
  <2>2. JobState' = JobState
    BY <1>3, QuietJob DEF ResumeRefused, Disconnect, worker, atomics
  <2> QED
    BY <2>1, <2>2 DEF Contract!Next, Contract!Leave
<1>4. ASSUME NEW k \in JobKind, start(k) PROVE Contract!Next
  <2>1. Session = "open" /\ Session' = "open"
    BY <1>4 DEF start, Session, Requesting
  <2>2. JobState # "busy"
    BY <1>4 DEF start, JobState
  <2>3. JobState' = "busy"
    BY <1>4 DEF start, JobState
  <2> QED
    BY <2>1, <2>2, <2>3 DEF Contract!Next, Contract!Resume
<1>5. CASE TakeStop \/ DrainFull \/ WaitStop
  <2>1. Session = "open" /\ Session' = "open"
    BY <1>5 DEF TakeStop, DrainFull, WaitStop, Deliver, Session, Requesting
  <2>2. rx.buf # Empty /\ rx'.buf = Empty /\ rx'.job = rx.job /\ pc' = pc
        /\ replay_running' = replay_running
    BY <1>5 DEF TakeStop, DrainFull, WaitStop, Deliver, worker, atomics
  <2>3. rx.job = jobs /\ rx.job # 0 /\ pc[jobs] = "Exited"
    BY <2>2 DEF ChannelInv
  <2>4. ~replay_running
    BY <2>3 DEF RefInv, RefPc, JobPc
  <2>5. JobState = "done" /\ JobState' = "none"
    BY <2>2, <2>3, <2>4 DEF JobState
  <2> QED
    BY <2>1, <2>5 DEF Contract!Next, Contract!Report
<1>6. CASE CtrlC \/ VCtrlC \/ DrainEmpty \/ ReqLoad \/ ReqStore \/ ReqEpoch \/ ReqPoke \/ InterruptCheck
  <2>1. Session' = Session
    BY <1>6 DEF CtrlC, VCtrlC, DrainEmpty, ReqLoad, ReqStore, ReqEpoch, ReqPoke, InterruptCheck,
       LoopStep, Session, Requesting
  <2>2. JobState' = JobState
    BY <1>6, QuietJob DEF CtrlC, VCtrlC, DrainEmpty, ReqLoad, ReqStore, ReqEpoch, ReqPoke,
       InterruptCheck, worker, atomics
  <2> QED
    BY <2>1, <2>2
<1>7. CASE TeardownCheck \/ GraceDone \/ GraceExpires
  <2>1. Session' = Session
    BY <1>7 DEF TeardownCheck, GraceDone, GraceExpires, LoopStep, Session, Requesting
  <2>2. JobState' = JobState
    BY <1>7, QuietJob DEF TeardownCheck, GraceDone, GraceExpires, worker, atomics
  <2> QED
    BY <2>1, <2>2
<1>8. CASE Unwrap
  <2>1. Session = "closing" /\ JobState' = "none"
    BY <1>8 DEF Unwrap, LoopStep, Session, Requesting, JobState, NoChannel
  <2>2. CASE refs = {}
    <3>1. Session' = "closed"
      BY <1>8, <2>2 DEF Unwrap, LoopStep, Session, Requesting
    <3> QED
      BY <2>1, <3>1 DEF Contract!Next, Contract!Close
  <2>3. CASE refs # {}
    <3>1. Session' = "dead"
      BY <1>8, <2>3 DEF Unwrap, LoopStep, Session, Requesting
    <3>2. replay_running /\ jobs > base
      <4>1. PICK j \in Job : j \in refs
        <5>1. refs \subseteq 1..jobs /\ jobs \in 0..MaxJobs
          OBVIOUS
        <5>2. refs \subseteq Job
          BY <5>1 DEF Job
        <5> QED
          BY <2>3, <5>2
      <4>2. pc[j] \in RefPc
        BY <4>1 DEF RefInv
      <4> QED
        BY <4>2 DEF RefInv, Job
    <3>3. rx.job = jobs
      BY <1>8, <3>2 DEF Unwrap, LoopStep, SessionInv
    <3>4. JobState = "busy"
      BY <3>2, <3>3 DEF JobState
    <3> QED
      BY <2>1, <3>1, <3>4 DEF Contract!Next, Contract!Die
  <2> QED
    BY <2>2, <2>3
<1>9. ASSUME NEW j \in Job, Worker(j) PROVE [Contract!Next]_(Contract!vars)
  <2>1. UNCHANGED <<loop, after>>
    BY <1>9 DEF Worker, Acquire, RunShort, Publish, CallReplay, ReplayReturns,
       ReplayTransparent, PollAborts, PollSteps, StepInRange, StepEnds, Panic, Swap,
       Unlock, DropRef, PublishIdle, Send
  <2>2. Session' = Session
    BY <2>1 DEF Session
  <2>3. CASE PublishIdle(j)
    <3>1. pc[j] = "PubIdle" /\ pc' = [pc EXCEPT ![j] = "Send"] /\ rx' = rx
          /\ replay_running' = (replay_running /\ j <= base)
      BY <2>3 DEF PublishIdle, WorkerStep
    <3>2. CASE rx.job = j
      <4>1. replay_running /\ ~replay_running'
        <5>1. j > base /\ base \in Nat /\ j \in Nat
          BY <3>2 DEF ChannelInv, Job
        <5>2. replay_running
          BY <3>1, <5>1 DEF RefInv
        <5>3. ~(j <= base)
          BY <5>1
        <5> QED
          BY <3>1, <5>2, <5>3
      <4>2. JobState = "busy"
        BY <3>2, <4>1 DEF JobState, Job
      <4>3. JobState' = "done"
        BY <3>1, <3>2, <4>1 DEF JobState, Job
      <4> QED
        BY <2>2, <4>2, <4>3 DEF Contract!Next, Contract!Finish
    <3>3. CASE rx.job # j
      <4>1. rx.job # 0 => j <= base
        BY <3>1, <3>3 DEF RefInv, ChannelInv, Job
      <4>2. rx.job # 0 => (replay_running' <=> replay_running)
        BY <3>1, <4>1
      <4>3. rx.job # 0 => pc'[rx.job] = pc[rx.job]
        BY <3>1, <3>3 DEF ChannelInv, Job
      <4>4. JobState' = JobState
        BY <3>1, <4>2, <4>3 DEF JobState
      <4> QED
        BY <2>2, <4>4
    <3> QED
      BY <3>2, <3>3
  <2>4. CASE Send(j)
    <3>1. pc[j] = "Send" /\ pc' = [pc EXCEPT ![j] = "Exited"] /\ replay_running' = replay_running
      BY <2>4 DEF Send, WorkerStep, atomics
    <3>2. CASE rx.job = j
      <4>1. ~replay_running
        BY <3>1, <3>2 DEF RefInv, ChannelInv, RefPc, JobPc, Job
      <4>2. rx'.job = j /\ rx'.buf # Empty
        BY <2>4, <3>1, <3>2 DEF Send, ChannelInv, Empty
      <4>3. JobState = "done" /\ JobState' = "done"
        BY <3>1, <3>2, <4>1, <4>2 DEF JobState, Job
      <4> QED
        BY <2>2, <4>3
    <3>3. CASE rx.job # j
      <4>1. rx' = rx
        BY <2>4, <3>3 DEF Send
      <4>2. rx.job # 0 => pc'[rx.job] = pc[rx.job]
        BY <3>1, <3>3 DEF ChannelInv, Job
      <4>3. JobState' = JobState
        BY <3>1, <4>1, <4>2 DEF JobState
      <4> QED
        BY <2>2, <4>3
    <3> QED
      BY <3>2, <3>3
  <2>5. CASE ~PublishIdle(j) /\ ~Send(j)
    <3>1. UNCHANGED <<rx, replay_running>>
      BY <1>9, <2>5 DEF Worker, Acquire, RunShort, Publish, CallReplay, ReplayReturns,
         ReplayTransparent, PollAborts, PollSteps, StepInRange, StepEnds, Panic, Swap,
         Unlock, DropRef, atomics
    <3>2. \E to \in WorkerPc \ {"Send"} : pc' = [pc EXCEPT ![j] = to] /\ pc[j] # "Send"
      BY <1>9, <2>5 DEF Worker, Acquire, RunShort, Publish, CallReplay, ReplayReturns,
         ReplayTransparent, PollAborts, PollSteps, StepInRange, StepEnds, Panic, Swap,
         Unlock, DropRef, Finish, WorkerStep, WorkerPc, RefPc, JobPc
    <3>3. rx.job = 0 \/ (pc'[rx.job] = "Send" <=> pc[rx.job] = "Send")
      BY <3>2 DEF ChannelInv, Job
    <3>4. JobState' = JobState
      BY <3>1, <3>3, QuietJob
    <3> QED
      BY <2>2, <3>4
  <2> QED
    BY <2>3, <2>4, <2>5
<1>10. CASE UNCHANGED vars
  <2>1. Session' = Session /\ JobState' = JobState
    BY <1>10 DEF vars, worker, atomics, Session, JobState
  <2> QED
    BY <2>1
<1> QED
  BY <1>1, <1>2, <1>3, <1>4, <1>5, <1>6, <1>7, <1>8, <1>9, <1>10 DEF Next, Client, EventLoop, Ended

\* The runner, thread by thread, keeps what a client is promised about its
\* resumes (runner.rs and the event loop of session.rs).
THEOREM RunnerKeepsContract == Spec => ImplementsContract
<1>1. Init => Contract!Init
  BY DEF Init, NoChannel, Contract!Init, Session, JobState, Requesting
<1>2. IInv /\ [Next]_vars => [Contract!Next]_(Contract!vars)
  BY ContractStep
<1> QED
  BY RunnerInvariant, <1>1, <1>2, PTL DEF Spec, ImplementsContract, Contract!Spec

=============================================================================
