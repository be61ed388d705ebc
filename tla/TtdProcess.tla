----------------------------- MODULE TtdProcess -----------------------------
(***************************************************************************)
(* src/target/process.rs, process/execution.rs, process/target_impl.rs and *)
(* target/cursors.rs: navigation over two lazily positioned engine cursors *)
(* (the persistent one, which replays and serves queries, and the step     *)
(* cursor), and the classification of an engine result as a stop.  With    *)
(* them the job around an operation: execute_op (src/gdb/target.rs), which *)
(* selects the thread the client named, and stop_tid (src/gdb/mapping.rs), *)
(* which picks the thread the stop reply names.                            *)
(*                                                                         *)
(* The engine is external: a call moves its cursor and reports an event,   *)
(* both chosen freely within what the recorded trace allows.               *)
(***************************************************************************)
EXTENDS Integers, Sequences, FiniteSetsExt

CONSTANTS
  LastPos,        \* the lifetime is 0..LastPos
  Valid,          \* the positions the engine can stand on
  Rounded,        \* where SetPosition takes a cursor
  Throws,         \* where a first-chance C++ exception was recorded
  ExitsAtEnd,     \* ends_with_process_exit
  ThreadAt,       \* the OS thread the engine is on at a position, 0 for none
  Threads,        \* the trace's thread list, in lifetime order
  Active,         \* the engine's active list at a position, 0 for a hole
  Tids            \* the threads a client may name, known to the trace or not

ASSUME TraceConstants ==
  /\ LastPos \in Nat
  /\ Valid \subseteq 0..LastPos /\ {0, LastPos} \subseteq Valid
  /\ Rounded \in [0..LastPos -> Valid] /\ \A v \in Valid : Rounded[v] = v
  /\ Throws \subseteq Valid /\ ExitsAtEnd \in BOOLEAN
  /\ ThreadAt \in [Valid -> Nat] /\ Threads \in Seq(Nat \ {0})
  /\ Active \in [Valid -> Seq(Nat)] /\ Tids \subseteq Nat \ {0}

Unknown == -1
Cursors == {"persistent", "step"}

VARIABLES
  pc,              \* "Idle", "Replay" (inside a continue), "Range" (inside a range
                   \* step), "Report" (the operation is over, the reply is not made)
  position,        \* the debug position
  current_thread,  \* current_thread_id, 0 for None
  at,              \* PositionedCursor::at of each cursor, Unknown for None
  real,            \* engine: where each cursor is
  forward,         \* direction of the operation
  previous,        \* the loops' last position
  interrupted,     \* interrupt_epoch # 0
  stop,            \* the outcome of the latest operation
  event,           \* history: the engine event it came from
  pc_tid,          \* the thread whose PC a range step reads, 0 for the cursor's own
  reported,        \* the thread the latest stop reply names, 0 before it is made
  seeks            \* cursor_seeks of the persistent cursor since the last operation

vars == <<pc, position, current_thread, at, real, forward, previous, interrupted, stop,
          event, pc_tid, reported, seeks>>
cursors == <<at, real, seeks>>
outcome == <<stop, event>>
reply == <<pc_tid, reported>>

\* ThreadTable: the OS threads of the trace.
Catalog == {Threads[i] : i \in DOMAIN Threads}

\* TraceMetadata::first_os_tid.
first_os_tid == IF Threads = <<>> THEN 0 ELSE Head(Threads)

Init ==
  /\ pc = "Idle" /\ position = 0 /\ current_thread = first_os_tid
  /\ at = [c \in Cursors |-> Unknown] /\ real = [c \in Cursors |-> 0]
  /\ forward = TRUE /\ previous = Unknown /\ interrupted = FALSE
  /\ stop = "none" /\ event = "none" /\ pc_tid = 0 /\ reported = 0 /\ seeks = 0

----------------------------------------------------------------------------
(* Cursors. *)

\* Mutant: a cursor with a known position is not moved.
Mut_NoSeek(c, p) ==
  IF at[c] # Unknown THEN [at |-> at[c], real |-> real[c]]
  ELSE [at |-> Rounded[p], real |-> Rounded[p]]

\* PositionedCursor::prepare.
prepare(c, p) ==
  IF at[c] = p THEN [at |-> at[c], real |-> real[c]]
  ELSE [at |-> Rounded[p], real |-> Rounded[p]]

\* Mutant: the move is not noted.
Mut_KeepCache(c, p) == at' = at /\ real' = [real EXCEPT ![c] = p]

\* note_position, after a call that ended at p.
Moved(c, p) ==
  /\ at' = [at EXCEPT ![c] = p]
  /\ real' = [real EXCEPT ![c] = p]

\* Mutant: a failed call leaves the cache alone.
Mut_NoInvalidate(c, p) == at' = at /\ real' = [real EXCEPT ![c] = p]

\* invalidate, after a call that failed at some p.
Invalidated(c, p) ==
  /\ at' = [at EXCEPT ![c] = Unknown]
  /\ real' = [real EXCEPT ![c] = p]

\* at_position: prepare the persistent cursor, and count the seek it took.
at_position(pos) ==
  LET p == prepare("persistent", pos) IN
    /\ at' = [at EXCEPT !["persistent"] = p.at]
    /\ real' = [real EXCEPT !["persistent"] = p.real]
    /\ seeks' = IF at["persistent"] = pos THEN seeks ELSE seeks + 1

\* Every query of memory, registers or threads: with_cursor.
Query ==
  /\ pc = "Idle"
  /\ at_position(position)
  /\ UNCHANGED <<pc, position, current_thread, forward, previous, interrupted, outcome, reply>>

\* A request is clamped to the recorded lifetime.
clamp(request) == IF request < 0 THEN 0 ELSE IF request > LastPos THEN LastPos ELSE request

\* Positions a client may ask for, on both sides of the lifetime.
Requests == -1..(LastPos + 1)

\* Mutant: the request becomes the position, wherever the seek landed.
Mut_TrustRequest(request) ==
  /\ pc = "Idle"
  /\ LET p == prepare("persistent", clamp(request)) IN
       /\ Moved("persistent", p.real)
       /\ position' = clamp(request) /\ current_thread' = ThreadAt[p.real]
  /\ stop' = "PositionReached" /\ event' = "none" /\ seeks' = 0 /\ reported' = 0
  /\ UNCHANGED <<pc, forward, previous, interrupted, pc_tid>>

\* goto, for a request anywhere: clamp, seek, adopt_cursor_position.
GoTo(request) ==
  /\ pc = "Idle"
  /\ LET p == prepare("persistent", clamp(request)) IN
       /\ Moved("persistent", p.real)
       /\ position' = p.real /\ current_thread' = ThreadAt[p.real]
  /\ stop' = "PositionReached" /\ event' = "none" /\ seeks' = 0 /\ reported' = 0
  /\ UNCHANGED <<pc, forward, previous, interrupted, pc_tid>>

----------------------------------------------------------------------------
(* Stop reasons. *)

\* StopReason::try_from.
try_from(e) ==
  CASE e = "MemoryWatchpoint" -> "Watchpoint"
    [] e \in {"StepCount", "Gap"} -> "StepComplete"
    [] e = "Position" -> "PositionReached"
    [] e = "Process" -> "ProcessExit"
    [] e = "Thread" -> "TraceEnd"
    [] e = "Exception" -> "Exception"
    [] e = "Interrupted" -> "Interrupted"
    [] OTHER -> "Err"

\* Mutant: the event alone decides at the end of the trace.
Mut_TrustEvent(e, h, fwd, p) ==
  IF h THEN "Breakpoint"
  ELSE IF fwd /\ e = "Process" THEN "ProcessExit"
  ELSE IF ~fwd /\ p <= 0 THEN "TraceStart"
  ELSE "none"

\* classify_continue_stop, where h says that the callback matched a breakpoint
\* (which is when the engine stops at a watchpoint); "none" leaves the decision to try_from.
classify(e, h, fwd, p) ==
  IF h THEN "Breakpoint"
  ELSE IF fwd /\ (e = "Process" \/ (ExitsAtEnd /\ p >= LastPos)) THEN "ProcessExit"
  ELSE IF ~fwd /\ p <= 0 THEN "TraceStart"
  ELSE IF fwd /\ p >= LastPos THEN "TraceEnd"
  ELSE "none"

OrElse(reason, default) == IF reason = "none" THEN default ELSE reason

\* Where a call in direction fwd from p may stop.
Reach(p, fwd) == {v \in Valid : IF fwd THEN v >= p ELSE v <= p}

----------------------------------------------------------------------------
(* Continue: watchpoint_replay. *)

\* begin_resume, then position the persistent cursor.
continue(fwd) ==
  /\ pc = "Idle"
  /\ pc' = "Replay" /\ forward' = fwd /\ previous' = Unknown
  /\ interrupted' = FALSE
  /\ at_position(position)
  /\ stop' = "none" /\ event' = "none" /\ reported' = 0
  /\ UNCHANGED <<position, current_thread, pc_tid>>

\* One engine replay: the limit, a matching watchpoint, an exception, ^C, or
\* a failure the engine reports as an event.
ReplayEvent(p, e) ==
  /\ p \in Reach(real["persistent"], forward)
  /\ CASE e = "Position" -> p = IF forward THEN LastPos ELSE 0
       [] e = "Interrupted" -> interrupted
       [] OTHER -> TRUE

\* replay_past_transparent_exceptions goes on after a C++ throw, unless the
\* position did not change.
Transparent(p, e) == e = "Exception" /\ p \in Throws /\ previous # p

ReplayGoesOn(p, e) ==
  /\ pc = "Replay" /\ ReplayEvent(p, e) /\ Transparent(p, e)
  /\ real' = [real EXCEPT !["persistent"] = p] /\ previous' = p
  /\ UNCHANGED <<pc, position, current_thread, at, forward, interrupted, outcome, reply, seeks>>

\* adopt_cursor_position, then resolve_continue_stop.
ReplayStops(p, e) ==
  /\ pc = "Replay" /\ ReplayEvent(p, e) /\ ~Transparent(p, e)
  /\ pc' = "Report" /\ seeks' = 0
  /\ Moved("persistent", p)
  /\ position' = p /\ current_thread' = ThreadAt[p]
  /\ stop' = OrElse(classify(e, e = "MemoryWatchpoint", forward, p), try_from(e)) /\ event' = e
  /\ previous' = Unknown
  /\ UNCHANGED <<forward, interrupted, reply>>

\* The call itself fails, or the callback panics.
ReplayFails(p) ==
  /\ pc = "Replay" /\ p \in Reach(real["persistent"], forward)
  /\ pc' = "Report" /\ Invalidated("persistent", p) /\ seeks' = 0
  /\ stop' = "Err" /\ event' = "failure" /\ previous' = Unknown
  /\ UNCHANGED <<position, current_thread, forward, interrupted, reply>>

\* ^C.
Interrupt ==
  /\ pc # "Idle" /\ interrupted' = TRUE
  /\ UNCHANGED <<pc, position, current_thread, cursors, forward, previous, outcome, reply>>

----------------------------------------------------------------------------
(* Steps: step_on_step_cursor. *)

\* One step from p ends on the next position, or on p at the trace boundary or
\* when the engine makes no progress.
Neighbour(p, fwd) ==
  LET further == Reach(p, fwd) \ {p}
  IN  {p} \cup (IF further = {} THEN {} ELSE {IF fwd THEN Min(further) ELSE Max(further)})

StepEvents == {"StepCount", "Gap", "Exception", "Thread", "Process", "Error"}

\* A step that leaves the lifetime.  TTD only surfaces the Process event "once
\* the cursor moves past" the last position (process.rs:249-251).
LeavesTrace(p, fwd) == p = IF fwd THEN LastPos ELSE 0

\* Mutant: the step cursor's thread is not adopted.
Mut_KeepThread(p, tid) == tid

\* The thread after a step of thread tid: an engine that reports none keeps it.
StepThread(p, tid) == IF ThreadAt[p] # 0 THEN ThreadAt[p] ELSE tid

\* A completed call: adopt its position and thread.
\* try_from is evaluated first, so an engine error is never classified away.
StepLands(fwd, p, e, tid) ==
  LET from == prepare("step", position) IN
    /\ p \in Neighbour(from.real, fwd)
    /\ e = "Process" => LeavesTrace(from.real, fwd)
    /\ Moved("step", p) /\ seeks' = 0
    /\ position' = p
    /\ current_thread' = StepThread(p, tid)
    /\ stop' = IF try_from(e) = "Err" THEN "Err"
               ELSE OrElse(classify(e, FALSE, fwd, p), try_from(e))
    /\ event' = e

\* A failed call leaves the position and the thread selected before it.
StepFails(fwd, p, tid) ==
  LET from == prepare("step", position) IN
    /\ p \in Neighbour(from.real, fwd)
    /\ Invalidated("step", p) /\ seeks' = 0
    /\ stop' = "Err" /\ event' = "failure"
    /\ current_thread' = tid /\ UNCHANGED position

\* begin_resume, set_current_thread, then one step, whichever thread it runs.
step(fwd, p, tid) ==
  /\ pc = "Idle" /\ pc' = "Report" /\ forward' = fwd /\ interrupted' = FALSE
  /\ \/ \E e \in StepEvents : StepLands(fwd, p, e, tid)
     \/ StepFails(fwd, p, tid)
  /\ reported' = 0 /\ UNCHANGED <<previous, pc_tid>>

\* step_range_tid, for the requested thread and the current one.
resolve_step_range_tid(tid, current) == IF tid \in Catalog THEN tid ELSE current

\* begin_resume, set_current_thread, then step_range up to its loop.
step_range(tid) ==
  /\ pc = "Idle"
  /\ pc' = "Range" /\ forward' = TRUE /\ previous' = position /\ interrupted' = FALSE
  /\ current_thread' = tid /\ pc_tid' = resolve_step_range_tid(tid, current_thread')
  /\ stop' = "none" /\ event' = "none" /\ reported' = 0
  /\ UNCHANGED <<position, cursors>>

RangeInterrupted ==
  /\ pc = "Range" /\ interrupted
  /\ pc' = "Report" /\ stop' = "Interrupted" /\ event' = "Interrupted" /\ previous' = Unknown
  /\ UNCHANGED <<position, current_thread, cursors, forward, interrupted, reply>>

\* Mutant: the loop does not ask for progress.
Mut_NoProgressCheck(inside, p) == inside

\* The loop goes on while the PC is inside the range and the position grows.
KeepsGoing(inside, p) == inside /\ p > previous

\* One iteration; inside: the PC of pc_tid, read on the step cursor, is in the
\* range.  The PC of a thread the trace has never seen is 0, outside of it.
RangeStep(p, inside) ==
  /\ pc = "Range" /\ ~interrupted
  /\ inside => pc_tid \in Catalog \cup {0}
  /\ \/ \E e \in StepEvents : StepLands(TRUE, p, e, current_thread)
     \/ StepFails(TRUE, p, current_thread)
  /\ pc' = IF stop' = "StepComplete" /\ KeepsGoing(inside, p) THEN "Range" ELSE "Report"
  /\ previous' = IF pc' = "Range" THEN p ELSE Unknown
  /\ UNCHANGED <<forward, interrupted, reply>>

----------------------------------------------------------------------------
(* The stop reply. *)

\* The job of spawn_position_stop: no operation, only the reply.
PositionStop ==
  /\ pc = "Idle" /\ pc' = "Report" /\ interrupted' = FALSE /\ reported' = 0
  /\ UNCHANGED <<position, current_thread, cursors, forward, previous, outcome, pc_tid>>

\* active_thread_ids: where the active list has no hole.
active_thread_ids(p) == {i \in DOMAIN Active[p] : Active[p][i] # 0}

\* stop_tid: the current thread, else the first active one, else 1.
stop_tid ==
  IF current_thread # 0 THEN current_thread
  ELSE IF active_thread_ids(position) = {} THEN 1
  ELSE Active[position][Min(active_thread_ids(position))]

\* The job makes its reply; without a current thread it queries the active list.
Report ==
  /\ pc = "Report" /\ pc' = "Idle" /\ reported' = stop_tid
  /\ IF current_thread # 0 THEN UNCHANGED cursors ELSE at_position(position)
  /\ UNCHANGED <<position, current_thread, forward, previous, interrupted, outcome, pc_tid>>

----------------------------------------------------------------------------
ReplayEvents == {"MemoryWatchpoint", "Exception", "Position", "Interrupted", "Error", "Unknown"}

\* A step of the operation in progress.
Progress ==
  \/ \E p \in Valid, e \in ReplayEvents : ReplayGoesOn(p, e) \/ ReplayStops(p, e)
  \/ \E p \in Valid : ReplayFails(p)
  \/ RangeInterrupted \/ Report
  \/ \E p \in Valid, inside \in BOOLEAN : RangeStep(p, inside)

Next ==
  \/ Query \/ Interrupt \/ PositionStop \/ Progress
  \/ \E request \in Requests : GoTo(request)
  \/ \E fwd \in BOOLEAN : continue(fwd)
  \/ \E fwd \in BOOLEAN, p \in Valid, tid \in Tids : step(fwd, p, tid)
  \/ \E tid \in Tids : step_range(tid)

Spec == Init /\ [][Next]_vars

\* Engine calls return.
FairSpec == Spec /\ WF_vars(Progress)

----------------------------------------------------------------------------
StopReasons == {"none", "PositionReached", "Watchpoint", "StepComplete", "ProcessExit",
                "TraceEnd", "TraceStart", "Exception", "Interrupted", "Breakpoint", "Err"}

TypeOK ==
  /\ pc \in {"Idle", "Replay", "Range", "Report"}
  /\ pc_tid \in Nat /\ reported \in Nat /\ seeks \in Nat
  /\ position \in Valid /\ current_thread \in Nat
  /\ at \in [Cursors -> Valid \cup {Unknown}] /\ real \in [Cursors -> Valid]
  /\ previous \in Valid \cup {Unknown}
  /\ forward \in BOOLEAN /\ interrupted \in BOOLEAN
  /\ stop \in StopReasons /\ event \in StepEvents \cup ReplayEvents \cup {"none", "failure"}

\* A cached cursor position is where the engine cursor really is, whatever
\* mixture of steps, replays, jumps, failures and panics came before; inside a
\* replay the persistent cursor is the engine's.
CacheHonest ==
  /\ at["step"] # Unknown => at["step"] = real["step"]
  /\ pc # "Replay" /\ at["persistent"] # Unknown => at["persistent"] = real["persistent"]

\* A query would read at the debug position: registers and memory never come
\* from where a step, a jump or an aborted replay left the cursor.
QueriesAtPosition == pc \in {"Idle", "Report"} => prepare("persistent", position).real = position

\* A step goes from the debug position to a neighbour of it in the right
\* direction, wherever the step cursor was left.
StepsByOne ==
  [][at'["step"] # at["step"] /\ position' # position => position' \in Neighbour(position, forward')]_vars

\* The boundary of the lifetime that the operation ran towards.
AtBoundary == IF forward THEN position = LastPos ELSE position = 0

\* A boundary is only reported where it is, and an exit only at the last
\* position of a trace known to end with one, or from the engine's own event;
\* TraceEnd elsewhere is the end of a thread.  A step or a continue that reached
\* the boundary, in either direction, never looks like an ordinary stop (a
\* breakpoint there outranks it), and away from the boundary an engine error is
\* reported as one (classify_continue_stop and its two callers).
BoundaryHonest == pc \in {"Idle", "Report"} =>
  /\ stop = "TraceStart" => ~forward /\ AtBoundary
  /\ stop = "ProcessExit" => forward /\ AtBoundary /\ (ExitsAtEnd \/ event = "Process")
  /\ stop = "TraceEnd" => event = "Thread" \/ (forward /\ AtBoundary /\ ~ExitsAtEnd)
  /\ AtBoundary /\ event # "none" => stop \notin {"StepComplete", "PositionReached", "Exception"}
  /\ event \in {"Error", "Unknown"} => stop = "Err" \/ AtBoundary

\* The stop reply names the thread the engine stopped on, whichever thread the
\* client asked to step and whatever failed before; only a failed or interrupted
\* operation answers with the thread that was selected for it.
StopNamesThread ==
  reported # 0 /\ ThreadAt[position] # 0 /\ stop \notin {"none", "Err", "Interrupted"}
    => reported = ThreadAt[position]

\* However many queries a stop is followed by, at most one of them seeks: "a
\* stopped target should answer dozens of queries per seek" (stats.rs:6).
OneSeekPerStop == pc # "Replay" => seeks <= 1

\* Range steps and continues end: neither loop can spin, even when the engine
\* reports the same exception again or makes no progress.
OperationsEnd == pc # "Idle" ~> pc = "Idle"

\* "`EventType::Error` and unknown event values are hard errors"
\* (stop_reason.rs:43-45), "never report this as a successful step"
\* (doc/ttd-internals.md).
ErrorsAreErrors == event \in {"Error", "Unknown"} => stop = "Err"

\* "A tid that cannot name a trace thread (unknown, or too wide for TTD's u32
\* namespace) falls back to the current thread; reading the PC of a thread TTD
\* has never seen would return 0 and make the range look immediately exited"
\* (process/target_impl.rs:112-115): a range step reads the PC of a thread of
\* the trace, or of the cursor's own.
RangeReadsKnownThread == pc = "Range" => pc_tid \in Catalog \cup {0}

=============================================================================
