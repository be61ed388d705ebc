----------------------------- MODULE GdbTarget -----------------------------
(***************************************************************************)
(* src/gdb/target.rs (GdbTarget), resume.rs, target/base.rs, extended.rs   *)
(* and commands.rs: what a resume packet starts, the two-stage process     *)
(* exit (T09, then W00), restarts and checkpoints, across sessions.        *)
(*                                                                         *)
(* The runner is the one of module TargetRunner, reduced to what it shows  *)
(* this layer: a job runs, executes, may be overridden by an interrupt, is *)
(* sent, and is delivered.  The backend is a position in 0..LastPos.       *)
(***************************************************************************)
EXTENDS Integers, Sequences, SequencesExt

CONSTANTS
  LastPos,          \* the last recorded position
  ProcessExits,     \* the recording ends because the process exited
  ActionLists,      \* vCont action lists a client sends
  MaxCheckpoints    \* bound: checkpoints created

\* A vCont list names "c", "s", "r" (a range), "r0" (an empty range), and "t",
\* which gdbstub refuses when it comes to it (base.rs:151-153).
ASSUME GdbConstants ==
  /\ LastPos \in Nat /\ ProcessExits \in BOOLEAN /\ MaxCheckpoints \in Nat
  /\ ActionLists \subseteq Seq({"c", "s", "r", "r0", "t"})

Position == 0..LastPos
CheckpointId == 1..MaxCheckpoints

VARIABLES
  stub,              \* gdbstub: "Accept", "Stopped", "Running", "Closing"
  phase,             \* the job: "none", "run", "exec", "swapped", "sent"
  op, result,        \* its operation and the stop it will report
  interrupted,       \* the runner's flag
  position,          \* where the backend is
  end_state, restart_pending,
  pending,           \* ResumeState: the operation the next resume takes
  by_id, next_id,    \* CheckpointTable
  reply,             \* the last stop reply of this session
  asked,             \* history: the action list of the latest vCont
  restarted_at,      \* history: where the latest restart went
  deleted            \* history: the checkpoints deleted

job     == <<phase, op, result, interrupted>>
table   == <<by_id, next_id, deleted>>
history == <<asked, restarted_at>>
vars    == <<stub, job, position, end_state, restart_pending, pending, table, reply, history>>

ReplayOp == {"Continue", "Step", "RangeStep", "BackwardContinue", "BackwardStep"}
is_forward(o) == o \in {"Continue", "Step", "RangeStep"}

in_flight == phase \in {"run", "exec", "swapped"}

Init ==
  /\ stub = "Accept" /\ phase = "none" /\ op = "Continue" /\ result = "none"
  /\ interrupted = FALSE /\ position = 0
  /\ end_state = FALSE /\ restart_pending = FALSE /\ pending = "Continue"
  /\ by_id = <<>> /\ next_id = 1 /\ deleted = {}
  /\ reply = "none" /\ asked = <<>> /\ restarted_at = 0

----------------------------------------------------------------------------
(* Sessions. *)

\* GdbTarget::new, ResumeState::default: the position and the checkpoints are
\* kept.
AcceptClient ==
  /\ stub = "Accept"
  /\ stub' = "Stopped"
  /\ end_state' = FALSE /\ restart_pending' = FALSE /\ pending' = "Continue"
  /\ reply' = "none"
  /\ UNCHANGED <<job, position, table, history>>

\* The client leaves, or sends a resume that is refused with
\* ReplayAlreadyRunning: into_backend interrupts the job in flight.
Disconnect ==
  /\ stub \in {"Stopped", "Running"}
  /\ stub' = "Closing" /\ interrupted' = in_flight
  /\ UNCHANGED <<phase, op, result, position, end_state, restart_pending, pending, table,
                 reply, history>>

\* Mutant: the checkpoints end with the session.
Mut_ForgetCheckpoints ==
  /\ stub = "Closing" /\ ~in_flight
  /\ stub' = "Accept" /\ phase' = "none" /\ by_id' = <<>>
  /\ UNCHANGED <<op, result, interrupted, position, end_state, restart_pending, pending,
                 next_id, deleted, reply, history>>

\* into_parts: a result nobody took is dropped with the runner.
CloseSession ==
  /\ stub = "Closing" /\ ~in_flight
  /\ stub' = "Accept" /\ phase' = "none"
  /\ UNCHANGED <<op, result, interrupted, position, end_state, restart_pending, pending,
                 table, reply, history>>

----------------------------------------------------------------------------
(* Resumes. *)

\* set_resume_action_continue, _step and _range_step.
SetAction(o, action) ==
  CASE action = "c" -> o
    [] action \in {"s", "r0"} -> "Step"
    [] action = "r" -> "RangeStep"

\* Mutant: the list starts from what an earlier one left behind.
Mut_NoClear(o) == o

\* clear_resume_actions.
clear(o) == "Continue"

\* What the first n actions of a list, in wire order, make of the pending
\* operation o.
pending_op(o, actions, n) ==
  LET after[i \in 0..n] == IF i = 0 THEN clear(o) ELSE SetAction(after[i - 1], actions[i])
  IN  after[n]

\* The actions gdbstub refuses.
Refused(actions) == {i \in DOMAIN actions : actions[i] = "t"}

\* TargetRunner::start: only with no job in flight.  A result the client did
\* not wait for is dropped with its channel.
Start(o) ==
  /\ ~in_flight
  /\ stub' = "Running" /\ phase' = "run" /\ op' = o /\ result' = "none"
  /\ interrupted' = FALSE

\* Mutant: a backward resume stays in the end state.
Mut_StayInEndState(o) ==
  /\ stub \in {"Stopped", "Running"}
  /\ restart_pending' = FALSE
  /\ end_state' = end_state
  /\ Start(CASE restart_pending /\ is_forward(o) -> "PositionStop"
             [] ~restart_pending /\ end_state /\ is_forward(o) -> "ExitReply"
             [] OTHER -> o)
  /\ UNCHANGED <<position, table, reply, restarted_at>>

\* spawn_replay.
spawn_replay(o) ==
  /\ stub \in {"Stopped", "Running"}
  /\ restart_pending' = FALSE
  /\ end_state' = (end_state /\ is_forward(o))
  /\ Start(CASE restart_pending /\ is_forward(o) -> "PositionStop"
             [] ~restart_pending /\ end_state /\ is_forward(o) -> "ExitReply"
             [] OTHER -> o)
  /\ UNCHANGED <<position, table, reply, restarted_at>>

\* vCont: the actions, then resume, which takes the pending operation.
VCont(actions) ==
  /\ Refused(actions) = {}
  /\ spawn_replay(pending_op(pending, actions, Len(actions)))
  /\ pending' = "Continue" /\ asked' = actions

\* A vCont with an action that gdbstub refuses: those before it were applied,
\* and no resume takes them.  The client gets an error and the session goes on,
\* or ends with it (Disconnect).
VContRefused(actions) ==
  /\ stub \in {"Stopped", "Running"}
  /\ \E n \in Refused(actions) :
       /\ \A i \in Refused(actions) : n <= i
       /\ pending' = pending_op(pending, actions, n - 1)
  /\ UNCHANGED <<stub, job, position, end_state, restart_pending, table, reply, history>>

\* bc and bs, which do not look at the pending operation.
BackwardResume(o) ==
  /\ spawn_replay(o)
  /\ UNCHANGED <<pending, asked>>

----------------------------------------------------------------------------
(* The worker. *)

\* How a replay may end: where, and why.  Only a continue can stop at a
\* breakpoint, which outranks the trace boundary; an interrupted replay stops
\* anywhere, and so does one that fails (a range step after good steps).  That
\* the exit is only reported at the last position is TtdProcess.BoundaryHonest.
Stops ==
  LET reached == IF is_forward(op) THEN position..LastPos ELSE 0..position
      boundary == IF ~is_forward(op) THEN "TraceStart"
                  ELSE IF ProcessExits THEN "ProcessExit" ELSE "TraceEnd"
      end == IF is_forward(op) THEN LastPos ELSE 0
  IN  {<<end, boundary>>}
      \cup {<<p, "Error">> : p \in reached}
      \cup {<<p, "Complete">> : p \in reached \ {end}}
      \cup {<<p, "Breakpoint">> : p \in IF op \in {"Continue", "BackwardContinue"}
                                        THEN reached ELSE {}}
      \cup {<<p, "Interrupted">> : p \in IF interrupted THEN reached \ {end} ELSE {}}

\* map_stop_reason.
map_stop_reason(reason) ==
  CASE reason \in {"ProcessExit", "TraceEnd"} -> "T09"
    [] reason = "TraceStart" -> "T00"
    [] reason = "Interrupted" -> "T02"
    [] OTHER -> "T05"

\* The worker enters the end state.
NoteEnd(reason) == end_state' = (end_state \/ (is_forward(op) /\ reason = "ProcessExit"))

\* The job of spawn_replay: execute_op, the end state, the stop.
Replay ==
  /\ phase = "run" /\ op \in ReplayOp
  /\ \E s \in Stops :
       /\ position' = s[1]
       /\ NoteEnd(s[2])
       /\ result' = map_stop_reason(s[2])
  /\ phase' = "exec"
  /\ UNCHANGED <<stub, op, interrupted, restart_pending, pending, table, reply, history>>

\* Mutant: a worker that panicked sends nothing.
Mut_SilentPanic ==
  /\ phase = "run" /\ op \in ReplayOp
  /\ phase' = "none" /\ result' = "T05"
  /\ UNCHANGED <<stub, op, interrupted, position, end_state, restart_pending, pending, table,
                 reply, history>>

\* A panic is reported as a trap; the flag is not swapped.
ReplayPanics ==
  /\ phase = "run" /\ op \in ReplayOp
  /\ phase' = "swapped" /\ result' = "T05"
  /\ UNCHANGED <<stub, op, interrupted, position, end_state, restart_pending, pending, table,
                 reply, history>>

\* The jobs of spawn_exit_reply and spawn_position_stop.
Answer ==
  /\ phase = "run" /\ op \in {"ExitReply", "PositionStop"}
  /\ phase' = "exec" /\ result' = IF op = "ExitReply" THEN "W00" ELSE "T05"
  /\ UNCHANGED <<stub, op, interrupted, position, end_state, restart_pending, pending, table,
                 reply, history>>

\* The swap of the interrupt flag: only a replay's on_interrupt says SIGINT.
Swap ==
  /\ phase = "exec"
  /\ phase' = "swapped" /\ interrupted' = FALSE
  /\ result' = IF interrupted /\ op \in ReplayOp THEN "T02" ELSE result
  /\ UNCHANGED <<stub, op, position, end_state, restart_pending, pending, table, reply, history>>

\* The backend is released, idle is published, the result is sent.
Send ==
  /\ phase = "swapped"
  /\ phase' = "sent"
  /\ UNCHANGED <<stub, op, result, interrupted, position, end_state,
                 restart_pending, pending, table, reply, history>>

\* The event loop reports the stop; gdbstub ends the session after W00.
Deliver ==
  /\ stub = "Running" /\ phase = "sent"
  /\ stub' = IF result = "W00" THEN "Closing" ELSE "Stopped"
  /\ phase' = "none" /\ reply' = result
  /\ UNCHANGED <<op, result, interrupted, position, end_state, restart_pending, pending,
                 table, history>>

\* ^C and vCtrlC.
Interrupt ==
  /\ stub = "Running" /\ in_flight
  /\ interrupted' = TRUE
  /\ UNCHANGED <<stub, phase, op, result, position, end_state, restart_pending, pending,
                 table, reply, history>>

----------------------------------------------------------------------------
(* Restarts and checkpoints: handlers that need the backend (try_lock). *)

HasBackend == stub \in {"Stopped", "Running"} /\ ~in_flight

\* Mutant: a restart does not take the backend's lock.
Mut_NoLock == stub \in {"Stopped", "Running"}

RestartReady == HasBackend

\* Mutant: a restart stays in the end state.
Mut_RestartKeepsEnd(p) ==
  /\ RestartReady
  /\ position' = p /\ restarted_at' = p
  /\ restart_pending' = TRUE
  /\ UNCHANGED <<stub, job, end_state, pending, table, reply, asked>>

\* goto, clear_end_state, note_restart.
GoTo(p) ==
  /\ RestartReady
  /\ position' = p /\ restarted_at' = p
  /\ end_state' = FALSE /\ restart_pending' = TRUE
  /\ UNCHANGED <<stub, job, pending, table, reply, asked>>

\* vRun without an argument, and R.
RestartAtStart == GoTo(0)

\* Mutant: goto does not clamp.
Mut_NoClamp(p) == GoTo(p)

\* vRun SEQ:STEPS; goto clamps what lies beyond the trace.
RestartAt(p) == GoTo(IF p > LastPos THEN LastPos ELSE p)

\* vRun cN, for a checkpoint that exists.
RestartAtCheckpoint(id) ==
  /\ id \in DOMAIN by_id
  /\ GoTo(by_id[id])

\* qRRCmd checkpoint.
Checkpoint ==
  /\ HasBackend /\ next_id <= MaxCheckpoints
  /\ by_id' = [i \in DOMAIN by_id \cup {next_id} |-> IF i = next_id THEN position ELSE by_id[i]]
  /\ next_id' = next_id + 1
  /\ UNCHANGED <<stub, job, position, end_state, restart_pending, pending, deleted, reply, history>>

\* qRRCmd delete checkpoint.
DeleteCheckpoint(id) ==
  /\ HasBackend /\ id \in DOMAIN by_id
  /\ by_id' = [i \in DOMAIN by_id \ {id} |-> by_id[i]]
  /\ deleted' = deleted \cup {id}
  /\ UNCHANGED <<stub, job, position, end_state, restart_pending, pending, next_id, reply, history>>

----------------------------------------------------------------------------
Next ==
  \/ AcceptClient \/ Disconnect \/ CloseSession
  \/ \E actions \in ActionLists : VCont(actions) \/ VContRefused(actions)
  \/ \E o \in {"BackwardContinue", "BackwardStep"} : BackwardResume(o)
  \/ Replay \/ ReplayPanics \/ Answer \/ Swap \/ Send \/ Deliver \/ Interrupt
  \/ RestartAtStart
  \/ \E p \in 0..(LastPos + 1) : RestartAt(p)
  \/ \E id \in CheckpointId : RestartAtCheckpoint(id)
  \/ Checkpoint
  \/ \E id \in CheckpointId : DeleteCheckpoint(id)

Spec == Init /\ [][Next]_vars

----------------------------------------------------------------------------
TypeOK ==
  /\ stub \in {"Accept", "Stopped", "Running", "Closing"}
  /\ phase \in {"none", "run", "exec", "swapped", "sent"}
  /\ op \in ReplayOp \cup {"ExitReply", "PositionStop"}
  /\ pending \in {"Continue", "Step", "RangeStep"}
  /\ result \in {"none", "T00", "T02", "T05", "T09", "W00"}
  /\ reply \in {"none", "T00", "T02", "T05", "T09", "W00"}
  /\ interrupted \in BOOLEAN /\ end_state \in BOOLEAN /\ restart_pending \in BOOLEAN
  /\ position \in Position /\ restarted_at \in Position
  /\ next_id \in 1..(MaxCheckpoints + 1)
  /\ DOMAIN by_id \subseteq 1..(next_id - 1)
  /\ \A id \in DOMAIN by_id : by_id[id] \in Position
  /\ deleted \subseteq 1..(next_id - 1)
  /\ asked \in {<<>>} \cup ActionLists

\* The end state means what its comment says: a trace that ends with the exit
\* of the process, and a backend that is still there.  No backward resume, no
\* restart and no panic leaves it behind.
EndStateAtExit == end_state => ProcessExits /\ position = LastPos

\* W00 is only prepared for a client whose backend stands at the exit.
ExitReplyAtExit == op = "ExitReply" /\ in_flight => ProcessExits /\ position = LastPos

\* A restart holds until the next resume: nothing moves the backend away, and
\* the stop that answers that resume is reported at the restart position.
RestartHolds ==
  restart_pending \/ (op = "PositionStop" /\ in_flight) => position = restarted_at

\* The operation a vCont list asks for: its last step or range step, else a
\* continue.
Intended(actions) ==
  LET steps == {i \in DOMAIN actions : actions[i] # "c"}
  IN  IF steps = {} THEN "Continue"
      ELSE IF actions[Max(steps)] = "r" THEN "RangeStep" ELSE "Step"

\* The forward replay that runs is the one its own packet asked for: nothing
\* is left over from an earlier list, not even from one that was refused half
\* way (base.rs:165-167), and a trailing wildcard continue does not downgrade a
\* step (base.rs:183-188).
RunsWhatWasAsked == is_forward(op) /\ in_flight => op = Intended(asked)

\* A checkpoint outlives sessions, keeps its position until it is deleted, and
\* a deleted id never names a position again.
CheckpointsPersist ==
  [][/\ \A id \in DOMAIN by_id :
          IF id \in DOMAIN by_id' THEN by_id'[id] = by_id[id] ELSE id \in deleted'
     /\ \A id \in deleted : id \notin DOMAIN by_id']_vars

\* What a client sees of its session and its job.
Session ==
  CASE stub = "Accept" -> "closed"
    [] stub \in {"Stopped", "Running"} -> "open"
    [] stub = "Closing" -> "closing"

JobState ==
  CASE in_flight -> "busy"
    [] phase = "sent" -> "done"
    [] phase = "none" -> "none"

Contract == INSTANCE ResumeContract WITH session <- Session, job <- JobState

\* The packets, restarts and panics of this layer keep the contract that
\* TargetRunner keeps: every job that ends leaves one result, reported once
\* (resume.rs, session.rs wait_for_stop_reason).
ImplementsContract == Contract!Spec

\* "the recorded process exit was already reported as the synthetic SIGKILL
\* stop" (target.rs:224-225): a client in the end state has seen T09.
ExitAnnounced == end_state /\ stub = "Stopped" => reply = "T09"

=============================================================================
