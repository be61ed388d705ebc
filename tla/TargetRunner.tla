---------------------------- MODULE TargetRunner ----------------------------
(***************************************************************************)
(* src/gdb/runner.rs (TargetRunner), the event loop of src/gdb/session.rs  *)
(* that drives it, and the interrupt path into a replay: ttd/interrupt.rs  *)
(* (InterruptSlot) and the interrupt epoch of target/process/target_impl.rs.*)
(*                                                                         *)
(* Two kinds of thread: the protocol event loop, and one worker per        *)
(* started job.  They share atomics, the backend mutex and a channel; each *)
(* atomic access is a step of its own.                                     *)
(***************************************************************************)
EXTENDS Integers

CONSTANTS
  JobKind,       \* kinds of job a client starts, a subset of AllJobKinds
  MaxJobs,       \* bound: jobs started in one behaviour
  MaxCalls,      \* bound: engine calls of one job
  MaxAsk,        \* bound: interrupts a client sends during one job
  MaxSessions,   \* bound: connections accepted
  Slow           \* where a worker may be when SHUTDOWN_GRACE runs out

\* "Continue" is one long engine replay (repeated past first-chance
\* exceptions), "RangeStep" many short ones, "Short" a single step or a job
\* that does not replay at all (spawn_exit_reply, spawn_position_stop).
AllJobKinds == {"Continue", "RangeStep", "Short"}

\* Where a worker is: it holds the lock, a reference, or neither.
JobPc == {"Job", "Published", "Replaying", "Stepping", "Finished", "Unlock"}
RefPc == JobPc \cup {"Spawned", "DropRef"}
WorkerPc == RefPc \cup {"None", "PubIdle", "Send", "Exited"}

ASSUME RunnerConstants ==
  /\ JobKind \subseteq AllJobKinds
  /\ Slow \subseteq RefPc \cup {"PubIdle", "Stopping"}
  /\ MaxJobs \in Nat /\ MaxCalls \in Nat \ {0} /\ MaxAsk \in Nat /\ MaxSessions \in Nat

Job == 1..MaxJobs

VARIABLES
  loop,             \* where the event loop is
  after,            \* where request_interrupt returns to
  replay_running,   \* AtomicBool
  interrupted,      \* AtomicBool
  lock,             \* the worker that holds the backend mutex, 0 when free
  refs,             \* the workers that hold an Arc of the backend
  rx,               \* the channel of the latest job, at most one result
  jobs,             \* jobs started so far: the latest job is number jobs
  base,             \* jobs started before the current session
  sessions,         \* sessions accepted so far
  interrupt_epoch,  \* TRUE: not 0
  slot,             \* InterruptSlot: a cursor is published
  poked,            \* engine: the running replay was told to stop
  pc,               \* where each worker is
  kind, calls,      \* the latest job, and the engine calls it made
  outcome,          \* what each worker will send
  asked             \* history: how often a client interrupted (or left) each job

atomics == <<replay_running, interrupted>>
backend == <<lock, refs>>
engine  == <<interrupt_epoch, slot, poked>>
client  == <<jobs, base, sessions, asked>>
worker  == <<pc, kind, calls, outcome>>
vars    == <<loop, after, atomics, backend, rx, engine, client, worker>>

Empty == "empty"
NoChannel == [job |-> 0, buf |-> Empty]

Init ==
  /\ loop = "Accept" /\ after = "Running"
  /\ replay_running = FALSE /\ interrupted = FALSE
  /\ lock = 0 /\ refs = {} /\ rx = NoChannel
  /\ interrupt_epoch = FALSE /\ slot = FALSE /\ poked = FALSE
  /\ jobs = 0 /\ base = 0 /\ sessions = 0 /\ asked = [j \in 0..MaxJobs |-> 0]
  /\ pc = [j \in Job |-> "None"] /\ kind = "Short" /\ calls = 0
  /\ outcome = [j \in Job |-> Empty]

----------------------------------------------------------------------------
(* Event loop: sessions, resumes and stops. *)

\* Mutant: the running flag passes from session to session with the backend.
Mut_ShareFlag ==
  /\ loop = "Accept" /\ sessions < MaxSessions
  /\ loop' = "Idle" /\ sessions' = sessions + 1 /\ base' = jobs
  /\ interrupted' = FALSE /\ rx' = NoChannel
  /\ UNCHANGED <<after, replay_running, backend, engine, jobs, asked, worker>>

\* serve_sessions accepts a client; run_gdb_session builds a new runner.
AcceptClient ==
  /\ loop = "Accept" /\ sessions < MaxSessions
  /\ loop' = "Idle" /\ sessions' = sessions + 1 /\ base' = jobs
  /\ replay_running' = FALSE /\ interrupted' = FALSE /\ rx' = NoChannel
  /\ UNCHANGED <<after, backend, engine, jobs, asked, worker>>

\* The shutdown flag, or the end of the only session of a one-shot server.
StopServer ==
  /\ loop = "Accept"
  /\ loop' = "Stopped"
  /\ UNCHANGED <<after, atomics, backend, rx, engine, client, worker>>

\* Mutant: the flag of the previous job survives into the next.
Mut_KeepFlag == UNCHANGED interrupted

ClearInterrupted == interrupted' = FALSE

\* TargetRunner::start.  gdbstub hands over a resume packet while stopped and,
\* from a client that does not wait for its stop reply, also while running;
\* the compare_exchange has to find no job in flight.
start(k) ==
  /\ loop \in {"Idle", "Running"} /\ jobs < MaxJobs
  /\ ~replay_running
  /\ replay_running' = TRUE
  /\ ClearInterrupted
  /\ lock = 0 /\ interrupt_epoch' = FALSE         \* lock(&backend).begin_resume()
  /\ rx' = [job |-> jobs + 1, buf |-> Empty]
  /\ jobs' = jobs + 1
  /\ pc' = [pc EXCEPT ![jobs + 1] = "Spawned"] /\ kind' = k /\ calls' = 0
  /\ refs' = refs \cup {jobs + 1}
  /\ loop' = "Running"
  /\ UNCHANGED <<after, lock, slot, poked, base, sessions, asked, outcome>>

Ask == asked' = [asked EXCEPT ![jobs] = @ + 1]

\* AlreadyRunning is a target error: gdbstub ends the session.
ResumeRefused ==
  /\ loop \in {"Idle", "Running"}
  /\ replay_running
  /\ loop' = "Teardown" /\ Ask
  /\ UNCHANGED <<after, atomics, backend, rx, engine, jobs, base, sessions, worker>>

\* A result leaves the channel and is reported to the client.  The report of a
\* panic is built under the backend lock (map_worker_result).
Deliver ==
  /\ rx.buf # Empty
  /\ rx.buf = "panic" => lock = 0
  /\ rx' = [rx EXCEPT !.buf = Empty]
  /\ loop' = "Idle"
  /\ UNCHANGED <<after, atomics, backend, engine, client, worker>>

\* wait_for_stop_reason: take_stop_reason.
TakeStop == loop = "Running" /\ Deliver

----------------------------------------------------------------------------
(* Event loop: ^C and vCtrlC. *)

LoopStep(from, to) == loop = from /\ loop' = to

\* A ^C byte calls on_interrupt; a vCtrlC packet, which is also answered while
\* stopped, calls interrupt_replay only.
CtrlC ==
  /\ asked[jobs] < MaxAsk
  /\ LoopStep("Running", "Drain") /\ Ask
  /\ UNCHANGED <<after, atomics, backend, rx, engine, jobs, base, sessions, worker>>

VCtrlC ==
  /\ asked[jobs] < MaxAsk
  /\ loop \in {"Idle", "Running"} /\ loop' = "ReqLoad" /\ after' = loop /\ Ask
  /\ UNCHANGED <<atomics, backend, rx, engine, jobs, base, sessions, worker>>

\* on_interrupt reports a buffered stop first.
DrainFull == loop = "Drain" /\ Deliver

DrainEmpty ==
  /\ rx.buf = Empty
  /\ LoopStep("Drain", "ReqLoad") /\ after' = "Check"
  /\ UNCHANGED <<atomics, backend, rx, engine, client, worker>>

\* request_interrupt: load replay_running, store interrupted, then the
\* backend's handle: bump the epoch, poke the published cursor.
ReqLoad ==
  /\ LoopStep("ReqLoad", IF replay_running THEN "ReqStore" ELSE after)
  /\ UNCHANGED <<after, atomics, backend, rx, engine, client, worker>>

\* Mutant: the handle fires, the flag is forgotten.
Mut_NoFlag ==
  /\ LoopStep("ReqStore", "ReqEpoch")
  /\ UNCHANGED <<after, atomics, backend, rx, engine, client, worker>>

ReqStore ==
  /\ LoopStep("ReqStore", "ReqEpoch")
  /\ interrupted' = TRUE
  /\ UNCHANGED <<after, replay_running, backend, rx, engine, client, worker>>

ReqEpoch ==
  /\ LoopStep("ReqEpoch", "ReqPoke")
  /\ interrupt_epoch' = TRUE
  /\ UNCHANGED <<after, atomics, backend, rx, slot, poked, client, worker>>

Replaying == lock # 0 /\ pc[lock] = "Replaying"

\* Mutant: the poke is repeated until a replay takes it.
Mut_RetryPoke ==
  /\ loop = "ReqPoke" /\ loop' = IF slot /\ Replaying THEN after ELSE loop
  /\ poked' = (poked \/ (slot /\ Replaying))
  /\ UNCHANGED <<after, atomics, backend, rx, interrupt_epoch, slot, client, worker>>

\* InterruptSlot::interrupt.  The engine stops a replay call in progress; on
\* a published cursor that is not replaying the call has no effect.
ReqPoke ==
  /\ LoopStep("ReqPoke", after)
  /\ poked' = (poked \/ (slot /\ Replaying))
  /\ UNCHANGED <<after, atomics, backend, rx, interrupt_epoch, slot, client, worker>>

\* on_interrupt: block for the result only if the job is still in flight.
InterruptCheck ==
  /\ LoopStep("Check", IF replay_running THEN "Blocked" ELSE "Running")
  /\ UNCHANGED <<after, atomics, backend, rx, engine, client, worker>>

\* wait_result.
WaitStop == loop = "Blocked" /\ Deliver

----------------------------------------------------------------------------
(* Event loop: the end of a session. *)

\* The connection breaks, or the client detaches or kills.
Disconnect ==
  /\ loop \in {"Idle", "Running"}
  /\ loop' = "Teardown" /\ Ask
  /\ UNCHANGED <<after, atomics, backend, rx, engine, jobs, base, sessions, worker>>

\* into_backend: interrupt a job in flight and wait for it.
TeardownCheck ==
  /\ LoopStep("Teardown", IF replay_running THEN "ReqLoad" ELSE "Unwrap")
  /\ after' = IF replay_running THEN "Grace" ELSE after
  /\ UNCHANGED <<atomics, backend, rx, engine, client, worker>>

GraceDone ==
  /\ ~replay_running
  /\ LoopStep("Grace", "Unwrap")
  /\ UNCHANGED <<after, atomics, backend, rx, engine, client, worker>>

\* What a worker is busy with; a replay that was told to stop is on its way out.
Stage(j) == IF pc[j] = "Replaying" /\ poked THEN "Stopping" ELSE pc[j]

\* SHUTDOWN_GRACE runs out.  The deadline is a wall clock: it passes wherever a
\* worker may be slow, in a replay, a seek, a step or off the processor.
GraceExpires ==
  /\ replay_running /\ Stage(jobs) \in Slow
  /\ LoopStep("Grace", "Unwrap")
  /\ UNCHANGED <<after, atomics, backend, rx, engine, client, worker>>

\* Arc::try_unwrap: without the backend the server ends (BackendRecovery).
Unwrap ==
  /\ LoopStep("Unwrap", IF refs = {} THEN "Accept" ELSE "Dead")
  /\ rx' = NoChannel
  /\ UNCHANGED <<after, atomics, backend, engine, client, worker>>

----------------------------------------------------------------------------
(* The worker thread of job j. *)

WorkerStep(j, from, to) == pc[j] = from /\ pc' = [pc EXCEPT ![j] = to]

\* lock(&backend).
Acquire(j) ==
  /\ lock = 0 /\ lock' = j
  /\ WorkerStep(j, "Spawned", "Job")
  /\ UNCHANGED <<loop, after, atomics, refs, rx, engine, client, kind, calls, outcome>>

\* The job ends with result o.
Finish(j, from, o) ==
  /\ WorkerStep(j, from, "Finished")
  /\ outcome' = [outcome EXCEPT ![j] = o]

\* A job of one short engine call, or of none.
RunShort(j) ==
  /\ kind = "Short"
  /\ Finish(j, "Job", "natural")
  /\ UNCHANGED <<loop, after, atomics, backend, rx, engine, client, kind, calls>>

\* replay_watchpoint_filtered: InterruptSlot::publish.
Publish(j) ==
  /\ kind = "Continue"
  /\ WorkerStep(j, "Job", "Published")
  /\ slot' = TRUE
  /\ UNCHANGED <<loop, after, atomics, backend, rx, interrupt_epoch, poked, client,
                 kind, calls, outcome>>

\* One engine replay of replay_past_transparent_exceptions.
CallReplay(j) ==
  /\ calls < MaxCalls
  /\ WorkerStep(j, "Published", "Replaying")
  /\ calls' = calls + 1
  /\ UNCHANGED <<loop, after, atomics, backend, rx, engine, client, kind, outcome>>

\* The replay stops for the client (or fails): the guard clears the slot.
ReplayReturns(j) ==
  /\ \E o \in {"natural"} \cup (IF poked THEN {"aborted"} ELSE {}) : Finish(j, "Replaying", o)
  /\ slot' = FALSE /\ poked' = FALSE
  /\ UNCHANGED <<loop, after, atomics, backend, rx, interrupt_epoch, client, kind, calls>>

\* The replay stops at a first-chance exception and is called again.
ReplayTransparent(j) ==
  /\ calls < MaxCalls
  /\ WorkerStep(j, "Replaying", "Published")
  /\ poked' = FALSE
  /\ UNCHANGED <<loop, after, atomics, backend, rx, interrupt_epoch, slot, client,
                 kind, calls, outcome>>

\* step_range: poll the interrupt epoch before every step.
PollAborts(j) ==
  /\ kind = "RangeStep" /\ interrupt_epoch
  /\ Finish(j, "Job", "aborted")
  /\ UNCHANGED <<loop, after, atomics, backend, rx, engine, client, kind, calls>>

PollSteps(j) ==
  /\ kind = "RangeStep" /\ ~interrupt_epoch /\ calls < MaxCalls
  /\ WorkerStep(j, "Job", "Stepping")
  /\ calls' = calls + 1
  /\ UNCHANGED <<loop, after, atomics, backend, rx, engine, client, kind, outcome>>

\* The step stays in the range, or ends the job.
StepInRange(j) ==
  /\ calls < MaxCalls
  /\ WorkerStep(j, "Stepping", "Job")
  /\ UNCHANGED <<loop, after, atomics, backend, rx, engine, client, kind, calls, outcome>>

StepEnds(j) ==
  /\ Finish(j, "Stepping", "natural")
  /\ UNCHANGED <<loop, after, atomics, backend, rx, engine, client, kind, calls>>

\* Mutant: a panic leaves the cursor published.
Mut_PanicKeepsSlot(j) ==
  /\ pc[j] \in {"Job", "Published", "Replaying", "Stepping"}
  /\ pc' = [pc EXCEPT ![j] = "Unlock"] /\ outcome' = [outcome EXCEPT ![j] = "panic"]
  /\ UNCHANGED <<loop, after, atomics, backend, rx, engine, client, kind, calls>>

\* The job panics: catch_unwind skips the swap, unwinding clears the slot.
Panic(j) ==
  /\ pc[j] \in {"Job", "Published", "Replaying", "Stepping"}
  /\ pc' = [pc EXCEPT ![j] = "Unlock"] /\ outcome' = [outcome EXCEPT ![j] = "panic"]
  /\ slot' = FALSE /\ poked' = FALSE
  /\ UNCHANGED <<loop, after, atomics, backend, rx, interrupt_epoch, client, kind, calls>>

\* interrupted.swap(false): an interrupted job reports on_interrupt's result.
Swap(j) ==
  /\ WorkerStep(j, "Finished", "Unlock")
  /\ outcome' = IF interrupted THEN [outcome EXCEPT ![j] = "on_interrupt"] ELSE outcome
  /\ interrupted' = FALSE
  /\ UNCHANGED <<loop, after, replay_running, backend, rx, engine, client, kind, calls>>

\* Mutant: idle is published before the reference is dropped.
Mut_IdleBeforeDrop(j) ==
  /\ WorkerStep(j, "Unlock", "DropRef")
  /\ lock' = 0 /\ replay_running' = (replay_running /\ j <= base)
  /\ UNCHANGED <<loop, after, interrupted, refs, rx, engine, client, kind, calls, outcome>>

Unlock(j) ==
  /\ WorkerStep(j, "Unlock", "DropRef")
  /\ lock' = 0
  /\ UNCHANGED <<loop, after, atomics, refs, rx, engine, client, kind, calls, outcome>>

\* Mutant: the result is sent before idle is published.
Mut_SendFirst(j) ==
  /\ WorkerStep(j, "DropRef", "PubIdle")
  /\ refs' = refs \ {j}
  /\ rx' = IF rx.job = j THEN [rx EXCEPT !.buf = outcome[j]] ELSE rx
  /\ UNCHANGED <<loop, after, atomics, lock, engine, client, kind, calls, outcome>>

DropRef(j) ==
  /\ WorkerStep(j, "DropRef", "PubIdle")
  /\ refs' = refs \ {j}
  /\ UNCHANGED <<loop, after, atomics, lock, rx, engine, client, kind, calls, outcome>>

\* The flag and the channel of a session that has ended are its own.
PublishIdle(j) ==
  /\ WorkerStep(j, "PubIdle", "Send")
  /\ replay_running' = (replay_running /\ j <= base)
  /\ UNCHANGED <<loop, after, interrupted, backend, rx, engine, client, kind, calls, outcome>>

\* Mutant: a worker that panicked sends nothing.
Mut_DropPanic(j) ==
  /\ WorkerStep(j, "Send", "Exited")
  /\ rx' = IF rx.job = j /\ outcome[j] # "panic" THEN [rx EXCEPT !.buf = outcome[j]] ELSE rx
  /\ UNCHANGED <<loop, after, atomics, backend, engine, client, kind, calls, outcome>>

Send(j) ==
  /\ WorkerStep(j, "Send", "Exited")
  /\ rx' = IF rx.job = j THEN [rx EXCEPT !.buf = outcome[j]] ELSE rx
  /\ UNCHANGED <<loop, after, atomics, backend, engine, client, kind, calls, outcome>>

----------------------------------------------------------------------------
Client ==
  \/ AcceptClient \/ StopServer \/ ResumeRefused \/ Disconnect \/ CtrlC \/ VCtrlC
  \/ \E k \in JobKind : start(k)

EventLoop ==
  \/ TakeStop \/ DrainFull \/ DrainEmpty \/ ReqLoad \/ ReqStore \/ ReqEpoch \/ ReqPoke
  \/ InterruptCheck \/ WaitStop \/ TeardownCheck \/ GraceDone \/ GraceExpires \/ Unwrap

Worker(j) ==
  \/ Acquire(j) \/ RunShort(j) \/ Publish(j) \/ CallReplay(j) \/ ReplayReturns(j)
  \/ ReplayTransparent(j) \/ PollAborts(j) \/ PollSteps(j) \/ StepInRange(j) \/ StepEnds(j)
  \/ Panic(j) \/ Swap(j) \/ Unlock(j) \/ DropRef(j) \/ PublishIdle(j) \/ Send(j)

\* The server has ended and its workers have finished.
Ended ==
  /\ loop \in {"Stopped", "Dead"} /\ \A j \in Job : pc[j] \in {"None", "Exited"}
  /\ UNCHANGED vars

Next == Client \/ EventLoop \/ (\E j \in Job : Worker(j)) \/ Ended

\* Threads are scheduled and engine calls return; a client may fall silent.
Fairness == WF_vars(EventLoop) /\ \A j \in Job : WF_vars(Worker(j))

Spec == Init /\ [][Next]_vars
FairSpec == Spec /\ Fairness

----------------------------------------------------------------------------
LoopPc == {"Accept", "Idle", "Running", "Drain", "ReqLoad", "ReqStore", "ReqEpoch",
           "ReqPoke", "Check", "Blocked", "Teardown", "Grace", "Unwrap", "Stopped", "Dead"}
Requesting == {"ReqLoad", "ReqStore", "ReqEpoch", "ReqPoke"}
Outcome == {Empty, "natural", "aborted", "panic", "on_interrupt"}

\* The state is well typed, and a running flag is that of a job of the current
\* session: a late worker of an earlier one never keeps a new client from resuming.
TypeOK ==
  /\ replay_running => jobs > base
  /\ loop \in LoopPc /\ after \in {"Idle", "Running", "Check", "Grace"}
  /\ replay_running \in BOOLEAN /\ interrupted \in BOOLEAN
  /\ jobs \in 0..MaxJobs /\ base \in 0..jobs /\ sessions \in 0..MaxSessions
  /\ lock \in 0..jobs /\ refs \subseteq 1..jobs
  /\ rx \in [job : 0..jobs, buf : Outcome]
  /\ interrupt_epoch \in BOOLEAN /\ slot \in BOOLEAN /\ poked \in BOOLEAN
  /\ pc \in [Job -> WorkerPc] /\ kind \in AllJobKinds /\ calls \in 0..MaxCalls
  /\ outcome \in [Job -> Outcome] /\ asked \in [0..MaxJobs -> Nat]

\* try_lock is sound: when replay_running is false no worker holds the backend
\* lock, nor a reference that would make try_unwrap fail (runner.rs:151-154).
IdleReleasesBackend == ~replay_running => lock = 0 /\ refs = {}

\* Once a stop is reported the target can be resumed: a resume packet that
\* follows its stop reply is never refused with AlreadyRunning.
StoppedCanResume == loop = "Idle" => ~replay_running

Waiting == {"Running", "Drain", "Check", "Blocked"}

\* A client that waits is owed an answer that is still on its way: the channel
\* is that of the latest job, whose result is buffered or not sent yet.
StopNotLost ==
  loop \in Waiting => rx.job = jobs /\ jobs > base /\ (rx.buf # Empty \/ pc[jobs] # "Exited")

\* A replay cut short by an interrupt is never reported as the stop of its own
\* operation: the flag is stored before the handle fires.
AbortIsInterrupt == rx.buf # "aborted"

\* An interrupt stop answers the job that was interrupted: a ^C that came too
\* late for its job does not leak into the next one (runner.rs:94-96).
InterruptBelongsToJob == rx.buf = "on_interrupt" => asked[rx.job] > 0

\* The published cursor is alive: the slot is only set while the worker that
\* published it holds the backend (ttd/interrupt.rs:49-53).
LiveSlot == slot => lock # 0 /\ pc[lock] \in {"Published", "Replaying"}

\* What the threads show a client: where its session is, and its job.
Session ==
  CASE loop \in {"Accept", "Stopped"} -> "closed"
    [] loop = "Dead" -> "dead"
    [] loop \in {"Teardown", "Grace", "Unwrap"} -> "closing"
    [] loop \in Requesting -> (IF after = "Grace" THEN "closing" ELSE "open")
    [] loop \in {"Idle", "Running", "Drain", "Check", "Blocked"} -> "open"

JobState ==
  IF rx.job = 0 THEN "none"
  ELSE IF replay_running THEN "busy"
  ELSE IF rx.buf # Empty \/ pc[rx.job] = "Send" THEN "done" ELSE "none"

Contract == INSTANCE ResumeContract WITH session <- Session, job <- JobState

\* The threads, flags and channels of the runner keep the contract: a result
\* is reported once and only after its job, also when workers of an earlier
\* session are still on their way out (runner.rs start, into_backend).
ImplementsContract == Contract!Spec

\* Every resume is answered and every session end completes, wherever the
\* interrupts of the client fall (at most MaxAsk for one job: the loop serves
\* waiting data first): no thread waits for one that waits for it.
ResumeAnswered == loop \in LoopPc \ {"Idle"} ~> loop \in {"Idle", "Accept", "Stopped", "Dead"}

\* "Abrupt client disconnects ... must not take the whole server down"
\* (session.rs:164-167).
DisconnectKeepsServer == loop # "Dead"

=============================================================================
