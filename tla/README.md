# TLA+ models of ttd-gdbserver

`ttd-gdbserver` lets GDB and Delve debug a recorded Windows process: it replays
a Time Travel Debugging (TTD) trace and speaks the GDB remote protocol, with
reverse execution. This directory holds TLA+ models of its core, the TLC
configurations that check them, and TLAPS proofs. Paths below are relative to
the repository's root.

## Parts of the system

| Part | State it keeps | Operations | What makes it correct |
|---|---|---|---|
| Event loop and replay worker (`src/gdb/session.rs`, `runner.rs`, `src/ttd/interrupt.rs`) | two atomics, the backend mutex and its reference count, one channel per job, the interrupt epoch, the published cursor | accept, resume, ^C and `vCtrlC`, stop delivery, teardown; the worker's job | every resume is answered once, by its own job; an interrupt reaches the job it was meant for; an idle runner has given the backend back |
| GDB target (`src/gdb/target.rs`, `resume.rs`, `commands.rs`, `checkpoint.rs`, `target/base.rs`, `target/extended.rs`) | pending operation, `end_state`, `restart_pending`, the checkpoint table | `vCont`, `bc`, `bs`, `vRun`, `R`, `qRRCmd` | the operation that runs is the one asked for; T09 then W00 at the exit and only there; a restart holds; checkpoints persist |
| Breakpoint layer (`src/target/breakpoint.rs`, `breakpoint_state.rs`, `watchpoint.rs`, `threads.rs`) | logical breakpoints, the registry of physical watchpoints, counters | set, set data, remove by id, remove by address; matching a hit | replay stops exactly where an acknowledged breakpoint asks for it, whatever engine calls fail |
| Trace navigation (`src/target/process.rs`, `process/`, `cursors.rs`, `stop_reason.rs`) | debug position, current thread, two cursors with cached positions, interrupt epoch | goto, step, range step, continue, queries | queries read at the debug position; a stop says what happened; operations end |
| Trace index (`src/target/process.rs`, `ensure_index`) | two files next to the trace | open, remove, build | memory is only served from a complete index |
| TTD engine (external) | the trace, cursors, watchpoints | replay, seek, query, build index | assumed, see "Abstractions" |
| Read-only packets (`src/gdb/target/base.rs`, `description.rs`, `memory_map.rs`, `monitor_cmd.rs`, `thread_info.rs`, `unknown.rs`, `src/gdb/monitor.rs`, `packet.rs`, `xml.rs`) | a client's partly read `qXfer` object | registers, memory, threads, `qXfer`, `monitor ttd`, `qRRCmd`, at a stop and during a replay | every packet is answered, also while a replay runs for ever; objects arrive whole; answers agree with the trace |
| Trace metadata (`src/target/trace_metadata.rs`, `module_info.rs`, `src/gdb/pe.rs`) | tables read once at open | `exception_at`, module and thread lookups, section offsets | a lookup returns the entry that belongs to the position or address |
| Register tables (`src/gdb/regs.rs`, `src/ttd/types.rs`, `src/ttd/cpp/ttd_cxx.cpp`) | none | encode, decode, `g`, `p` | three tables written by hand in three files agree with the target description, byte by byte |
| Callback panic guard (`src/ttd/callback.rs`, `cursor.rs`, `engine.rs`) | a payload per thread, the installed closure | install, call, stash, re-throw, clear | a panic surfaces in the call it happened in; the engine never keeps a closure that is gone |
| FFI bindings without logic, traits, CLI | none that changes | | not modelled, see below |

The event loop is one thread. It owns the runner, starts one worker thread per
resume, and polls the connection and the worker's channel. The worker holds the
backend mutex for the whole job; everything below the runner (GDB target jobs,
navigation, breakpoints) runs under that mutex. ^C crosses the lock: it sets a
flag, bumps an epoch and pokes the cursor that the worker has published.
Breakpoint callbacks run inside the engine's replay call, on the worker. The
backend and the checkpoint table pass from one session to the next by value.

Hard behaviours: the interleavings of the event loop with a worker that may
panic at any point; an interrupt that is late, early or lost; a client that
disconnects, or resumes without waiting; engine calls that fail in the middle of
a sequence of calls and leave the cursor somewhere; caches of cursor positions;
processes killed in the middle of an index build; callbacks that panic inside the
engine; packets that arrive while the worker holds the backend; a client that
reads a document in chunks of its own choosing. `PROJECT.json` lists each one
at its line under "hazards" with the properties that cover it.

## Modules

| Module | Models | Extends or uses |
|---|---|---|
| `TargetRunner` | event loop, worker threads, interrupt path, teardown | `INSTANCE ResumeContract` |
| `GdbTarget` | resumes, end state, restarts, checkpoints, over sessions | `INSTANCE ResumeContract` |
| `ResumeContract` | abstract: sessions, and what becomes of a resume | |
| `BreakpointState` | breakpoint tables, registry and engine watchpoints, hit matching | `INSTANCE ClientBreakpoints` |
| `ClientBreakpoints` | abstract: the set of acknowledged requests and where replay stops | |
| `TtdProcess` | navigation, cursors, threads, stop reasons | |
| `TraceIndex` | index files over server lifetimes | |
| `CallbackGuard` | closures lent to the engine, and their panics | |
| `RegisterFile` | register tables from the engine's context to the packet | |
| `TraceMetadata` | exceptions, modules, threads: the lookups | |
| `QueryPackets` | the packets that only read, at stops and during replays | extends `RegisterFile`, `TraceMetadata` |
| `MC...` | constants for TLC | the module of the same name |
| `...Proofs` | theorems about the module of the same name | `TLAPS` |
| `IndexLemmas` | lemmas about indices and flattened sequences, for the proofs | `TLAPS` |

Variables and actions keep the source's names where TLA+ allows; the "map" in
`PROJECT.json` gives the lines of each. Definitions named `Mut_...` are
deliberately wrong variants of the definition that follows them, each the shape
of a plausible bug. They are used nowhere; substituted for that definition, each
makes one property fail, which shows that the property can see the bug.

### TargetRunner

One action per atomic access, lock or channel operation: `start` is one event
loop step because no other thread can observe its middle (the previous worker is
past its last access of the flags, the new one does not exist). The worker's
tail is `Swap`, `Unlock`, `DropRef`, `PublishIdle`, `Send`, in the order of
`runner.rs`; each is a step. `request_interrupt` is `ReqLoad`, `ReqStore`,
`ReqEpoch`, `ReqPoke`. Jobs are "Continue" (one or more long engine calls around
which the cursor is published), "RangeStep" (short calls, polls the epoch) and
"Short". Flags and channel are per session in the code; the model resets them in
`AcceptClient`, and workers of an earlier session do not touch the new ones.
`asked` is history: which job a client interrupted or left. `GraceExpires` is the
teardown's deadline, a wall clock: it may pass wherever the constant `Slow`
allows the worker to be (`Stage`; "Stopping" is a replay that was told to stop).
Every session has a flag of its own: `TypeOK` states that a raised
`replay_running` is that of a job of the current session.

### ResumeContract

What a client may rely on, in two variables: the session is closed, open,
closing or dead (the server gave up), and a job is absent, busy or done. A
resume is accepted only when no job is busy; a result is reported once, in the
session that asked for it; a session closes with nothing left over, or the
server dies with a job that would not stop. `TargetRunner` and `GdbTarget` both
implement it, which is what justifies that `GdbTarget` shows the runner only as
running, executed, swapped, sent and delivered: the two models are composed
along this contract.

### GdbTarget

Positions are `0..LastPos`. `Stops` is every way `execute_op` may end: at the
boundary, at a breakpoint, after a step, interrupted, or with an error, which
may come after some of a range step's steps have moved. That an exit is only
reported at the last position is shown in `TtdProcess` (`BoundaryHonest`).
`pending` is `ResumeState`'s operation: `VCont` clears it, applies the action
list and takes it; `VContRefused` is a list with an action that gdbstub refuses
(`t`), which is applied up to there and leaves the operation behind for the next
packet to find. `HasBackend` is `try_lock`.
`Disconnect` also stands for a resume that is refused: gdbstub ends the session
on a target error. A goto that the engine rounds is in `TtdProcess`; here it is
clamped only.

### BreakpointState and ClientBreakpoints

`sync` returns the set of all outcomes of one reconciliation: any subset of the
removals and any subset of the additions succeeds, and range checks reject
before the engine is asked. `physical` is the engine's own set. `Hit` is every
access the recorded program may make; `Stops(h)` says that a registered
watchpoint fires and the callback finds a breakpoint. `Covers` is the reference,
byte by byte, against which `matches_addr` with its saturating arithmetic is
compared. `ClientBreakpoints` knows no ids, watchpoints or failures; the
refinement maps the table to its set of requests and `Stops` to its `stopping`.

A thread filter is an OS thread id; the engine filters on unique ids, and a
recycled OS id maps to its last unique id (`threads.rs`). The properties state
what this gives: the last thread of that id always stops, an earlier one may.

### TtdProcess

`at` is the cached position of each cursor, `real` the engine's. A continue is
`continue`, any number of `ReplayGoesOn` (first-chance exceptions) and one of
`ReplayStops` and `ReplayFails`; a range step is `step_range` and `RangeStep`s;
a step is one action. `classify` and `try_from` are the two halves of the
result mapping, in the order of the code: a continue asks `classify` first, a
step evaluates `try_from` in every case. The engine's `Process` event comes only
from a move out of the lifetime (`LeavesTrace`, from `process.rs:249-251`). An
empty range (start equal to end) is a plain step. A goto may ask for a position
on either side of the lifetime (`Requests`) and is clamped.

Threads are part of the state. `ThreadAt` is the engine's thread at a position,
0 where it has none; a client may name any of `Tids`, known or not.
`StepThread`, `resolve_step_range_tid` and `stop_tid` are the three places that
choose a thread: for the next step, for the PC that a range step reads, and for
the reply. `seeks` counts the seeks of the persistent cursor since the last
operation.

### TraceIndex

Every change on disk is a step, and the server may be killed between any two of
those named in `KillPoints`. The engine's build is external: it keeps `.idxt`
until the index is complete, which is what `ensure_index` relies on. A truncated
index may be reported `Loaded` or `Unloadable`.

### CallbackGuard

An operation installs its closure in the cursor's slot and in the engine, makes
one or more engine calls (a continue that passes first-chance exceptions), and
clears both on every way out, an unwinding panic included. Inside a call any
number of callbacks may panic; the shim keeps the first payload in the slot of
its thread. `DropGuard` is the end of the guard: it takes the payload and throws
it again, whether the call failed or not. Index builds use the same guard with a
closure of their own. Operations exclude each other, as the backend is behind a
lock, and each runs on whichever thread took the job.

### RegisterFile and TraceMetadata

Pure definitions. A byte of a register is `<<field, k>>`: its value is never
looked at, so a packet is right when each of its bytes is the byte of the field
that belongs there. The reference, `DescribedRegisters`, is the order of the
registers in the three XML files. `TraceMetadata` keeps the stable
sort of the exception list and the scan of `exception_at`, the module lookup with
its saturating end, and the choice of the text section of a PE image: the first
whose name starts with `.text`, which an image need not have.

### QueryPackets

The event loop takes a packet (`HandlePacket`) or a stop (`TakeStop`); a client
sends one packet at a time, also during a replay. `Reply` is one handler: the
packets that need no backend answer from constants, the others go through
`try_lock` and answer `Busy` while a job is in flight. A `qXfer` read spans
several packets, with a length of the client's choice each time; `Assemble` is
what the client makes of them. `Answers` covers every subcommand of
`monitor ttd` with its argument checks, and both wire forms of `qRRCmd`. An
answer is a record of what it was computed from.

### Abstractions

Addresses, positions, thread ids and times are small integers; `u64` arithmetic
is kept where it matters (`TopAddr` in `BreakpointState`: saturation and the
failing `checked_add`). The engine chooses freely among what its interface
allows: any watchpoint call may fail, any replay may fail, stop at any reachable
position or move the cursor before it fails. Hex digits, the layout of reply
texts and logging are left out; of the statistics, the watchpoint and seek
counters are kept.

## Runs

`tlc -config <name>.cfg <module>`; module names are in `PROJECT.json`.

| Run | Checks | Shows |
|---|---|---|
| `MCBreakpointState` | `TypeOK`, `Armed`, `RegistryMirrorsEngine`, `StatsBalance`, `NoMissedStop`, `NoSpuriousStop`, `ClientView` (refinement) | tables, registry and engine agree, hits are matched right, and the layer implements `ClientBreakpoints` |
| `MCTargetRunner` | `TypeOK`, `IdleReleasesBackend`, `StoppedCanResume`, `StopNotLost`, `AbortIsInterrupt`, `InterruptBelongsToJob`, `LiveSlot`, `ResumeAnswered` (liveness), `ImplementsContract` (refinement) | the hand-over between the threads; nobody waits for ever; the runner keeps `ResumeContract` |
| `RunnerDisconnect` | `DisconnectKeepsServer`, violated | a disconnect can end the server |
| `MCGdbTarget` | `TypeOK`, `EndStateAtExit`, `ExitReplyAtExit`, `RestartHolds`, `RunsWhatWasAsked`, `CheckpointsPersist` (action), `ImplementsContract` (refinement) | the exit protocol, restarts, checkpoints, and the same contract seen from the packets |
| `GdbLateInterrupt` | `ExitAnnounced`, violated | a late ^C hides the exit stop |
| `MCTtdProcess` | `TypeOK`, `CacheHonest`, `BoundaryHonest`, `QueriesAtPosition`, `StopNamesThread`, `OneSeekPerStop`, `StepsByOne` (action), `OperationsEnd` (liveness) | cursors, positions, threads, stops, termination |
| `TtdReplayError` | `ErrorsAreErrors`, violated | an engine error at a boundary looks like the boundary |
| `RangeFallback` | `RangeReadsKnownThread`, violated | a range step of an unknown thread falls back to that same thread |
| `MCTraceIndex` | `ServesComplete` | kills and failures never lead to a truncated index being used ... |
| `IndexRemoval` | `ServesComplete`, violated | ... except between the two removals |
| `MCCallbackGuard` | `PanicSurfaces`, `NothingStashed`, `CallbackAlive` | panics leave the call they happened in, and closures are not outlived |
| `MCQueryPackets` | `ChunksAssemble`, `RegistersAgree`, `LookupsExact`, `QueryAnswered`, `StopReported` (liveness) | objects arrive whole, tables and lookups are right, every packet is answered and every finished replay reported |

Bounds, and why they are enough:

- `MCBreakpointState`: three ids, so that a failed insertion meets two
  breakpoints it may disarm; 16 addresses with both canonical halves; requests
  that overlap, one of them with an exclusive end that overflows; accesses of
  size 0 (the engine reports such) and 2, which start before a range and cross
  into it; a thread list with a recycled OS id and a requested thread id the
  trace does not have.
- `MCTargetRunner`: two jobs and two sessions, because a leak needs a next job
  and a late worker needs a next session; two engine calls per job, so that an
  interrupt falls between two; one interrupt per job, which may come at any
  step of it. `Slow` holds every stage, so the grace period may end at any step
  of the worker. `RunnerDisconnect` needs one job and one session, and only a
  replay that was not told to stop outlasts the grace period there: a server
  that ends because a thread was off the processor for five seconds would show
  nothing about the code.
- `MCGdbTarget`: positions 0, 1, 2 (both ends and one between), two checkpoints,
  one action list of every shape and one that is refused half way. The number of
  sessions, resumes and interrupts is not bounded.
- `MCTtdProcess`: five positions, one of which no cursor can stand on and one
  without a thread, two throws, known and unknown thread ids; the sequence of
  operations is not bounded.
- `MCTraceIndex`: three kills, enough for one in a removal, one in a build and
  one more.

- `MCCallbackGuard`: two threads, so that a payload could be looked for on the
  wrong one; three operations, each of several calls; four panics, so that one
  call can have two and later calls still more.
- `MCQueryPackets`: chunks of one element and of nine, shorter and longer than
  the objects; a register number on each side of every boundary between register
  classes; a module that ends at the top of the address space; exceptions of
  the same sequence with different step counts. One packet per replay: the
  handlers keep no state between packets but the `qXfer` offset, which belongs
  to the client. The bound matters for `StopReported`: the event loop serves
  waiting data before it looks at the channel, so a client that never pauses
  would never see its stop. The property says that one that pauses does.

`MCBreakpointState` and `MCCallbackGuard` turn deadlock checking off: their
operations are numbered, and a model that has used all its numbers stops. All
other runs check for deadlock; `TargetRunner` has an explicit end, `Ended`.

Fairness: `MCTargetRunner` assumes that the event loop thread and every worker
thread keep running when they can (weak fairness per thread: both are OS
threads, no step of either waits for the client except in the states "Idle" and
"Running", and engine calls return, because every replay has the trace boundary
as its limit). Clients are not fair. An interrupt that misses its replay is part
of the model, so the property does not rely on ^C working. `MCTtdProcess`
assumes that engine calls return, and nothing else: the loops must end by their
own conditions. `MCQueryPackets` assumes that the event loop takes the packet or
the stop that it can take, and that a worker past its replay sends its result. A
replay need never end there, and the client need never send or resume.

## Findings

Five runs are expected to fail; each checks a sentence of the repository's
comments or docs against the code. For each, a theorem says how far the sentence
fails: what remains true of it in every reachable state.

1. `RunnerDisconnect`: the teardown pokes the replay once. A poke that comes
   before the worker has published its cursor, or between two engine calls of a
   continue that passes first-chance exceptions, is lost; after the grace period
   `try_unwrap` fails and the server ends (`session.rs:165-167` promises that a
   disconnect does not take the server down). Proved (`LossNeedsRunningJob`),
   wherever the deadline may pass: the server ends only while the latest job of
   the leaving client's own session still holds the backend after the teardown
   has fired its interrupt. A client that leaves a stopped target never ends
   it, nor does a worker left over from an earlier session.
2. `GdbLateInterrupt`: the worker enters the end state before the interrupt flag
   is looked at. A ^C in between reports T02, and the next forward resume
   answers W00 without the T09 stop that `target.rs:224-225` presumes. Proved
   (`ExitReported`): a client stopped in the end state has seen T09 or that T02,
   never another reply.
3. `TtdReplayError`: a continue classifies by position before it looks at the
   event, so an engine error at a trace boundary is reported as the boundary
   (`stop_reason.rs:43-45` calls such events hard errors). Proved
   (`ErrorsHiddenAtBoundary`): only there, and only for the boundary in the
   direction of the replay; a step never hides one.
   `BoundaryHonest`, which the passing run checks, has the other half: away from
   the boundary an engine error is always reported as one.
4. `IndexRemoval`: the marker `.idxt` is removed before the index it marks; a
   kill or a refused removal in between leaves a truncated index that looks
   complete. Proved (`IndexTrusted`): nothing else does.
5. `RangeFallback`: the packet's thread is selected before a range step looks
   for a known thread, so the fallback to the current thread that
   `target_impl.rs:112-115` describes finds the unknown thread itself; its PC
   reads as 0 and the range step ends after one instruction. Proved
   (`UnknownThreadsStepOnce`): a range step that reads an unknown thread has not
   moved yet, so it is never more than that one instruction.

Remarks without a run:

- `doc/ttd-internals.md` names `TraceMetadata::exception_before`; the method is
  called `exception_at`.
- The comment of the test at `packet.rs:123-125` says that a token that is not
  hex degrades to the raw token; the code, and the test's own assertion, drop it.
- The doc comment of `exception_at` says that a neighbouring `steps` value within
  the same sequence is the same event; this holds at or after the event only.
- `thread_state` looks the thread up in the catalogue of the whole trace, so a
  thread that is gone at the position is still answered; `monitor ttd module`
  uses the module list of the whole trace in the same way.

## Proofs

All theorems hold for every value of the constants that satisfies the named
assumptions of the module (`BreakpointConstants`, `RunnerConstants`,
`GdbConstants`, `TraceConstants`, `IndexConstants`, `GuardConstants`,
`PacketConstants`, `MetadataConstants`), which TLC evaluates in each run. They
give the constants their types and the order of their bounds; one theorem,
`RegistersAsDescribed`, has a hypothesis of its own, see below. Each invariant is
proved from an inductive one, `IInv`, with one lemma per part and one step per
action.

- `BreakpointStateProofs`: `TypeOK`, `Armed`, `RegistryMirrorsEngine`,
  `StatsBalance`, `NoMissedStop`, `NoSpuriousStop`. `Armed` is not inductive:
  `sync` decides by the registry what to add, so a registry that is ahead of the
  engine would never arm a breakpoint. `IInv` adds that registry and engine
  agree, that every registered key is a valid range, without which the
  saturating comparison could differ from the bytes the engine watches, and
  that the engine's set is finite, which counting needs. `NoMissedStop` and
  `NoSpuriousStop` follow from `IInv` alone: the saturating comparison agrees
  with the byte sets wherever a valid range is concerned. `ClientViewHolds` is
  the refinement: these two give `StopsMatch` in every state, and what remains is
  that each operation changes the set of requests the way the client expects,
  duplicates and rejected insertions included.
- `TargetRunnerProofs`: all seven invariants of `MCTargetRunner`. `IInv` has a
  part per concern: `RefInv` (only the latest worker of the current session
  holds lock and reference, and then the flag is up), `ChannelInv` (a buffered
  result is the latest job's and its worker has exited; a waiting loop waits on
  that channel; a stopped one has no job in flight), `SlotInv`, `AbortInv`
  (whatever can cut a job short was preceded by the interrupt flag) and `AskInv`
  (the flag belongs to a job that was interrupted).
  `RunnerKeepsContract` shows that every step, seen through the mapping, is a
  step of `ResumeContract` or none: it needs `RefInv` and `ChannelInv`, because
  the contract's `busy` is read off the flag and the channel together.
  That a raised flag belongs to the current session, part of `TypeOK`, follows
  from `RefInv`: `AcceptClient` begins a session only when no worker holds the
  backend. `LossNeedsRunningJob` needs `LossInv`: what the teardown has done at
  each of its steps.
- `GdbTargetProofs`: `TypeOK`, `EndStateAtExit`, `ExitReplyAtExit`,
  `RestartHolds`, `RunsWhatWasAsked` and the action property
  `CheckpointsPersist`. `IInv` adds that a replay about to run has no end state to
  lose and that a job in flight excludes a pending restart. `RunsWhatWasAsked` is
  about action lists of any length: `AskedBy(actions, n)` is what the first `n`
  actions ask for, `OneMoreAction` shows that `SetAction` keeps it, and the
  induction over `n` gives `PendingIsAsked`: as far as nothing is refused, the
  operation is that of the list alone, whatever an earlier list left behind.
  `ReportInv` follows the reply of the end state from the
  worker through the flag to the client. `TargetKeepsContract` is the refinement. The
  theorems hold for traces that end with a process exit and for those that do
  not.
- `TtdProcessProofs`: `TypeOK`, `CacheHonest`, `QueriesAtPosition`,
  `BoundaryHonest`, `StopNamesThread`, `OneSeekPerStop` and the action property
  `StepsByOne`, for any set of valid positions, any rounding that fixes them and
  any threads. `IInv` adds that an operation that went well leaves the engine's
  thread selected, and that the one seek of a stop left the cursor at the debug
  position, so that no later query seeks again. `BoundaryHonest` is `HonestStop`
  of the latest stop: `ClassifyHonest` shows it for every event that `classify`
  and `try_from` can be given, and `BoundaryStays` that a step from the boundary
  towards the outside stays there, which is what makes a `Process` event an
  event at the boundary. `ErrorsHiddenAtBoundary` splits
  on who reports: a step evaluates `try_from` first and hides nothing, a continue
  only where `classify` answers, which for an error event is the boundary.
- `CallbackGuardProofs`: `TypeOK`, `PanicSurfaces`, `NothingStashed`,
  `CallbackAlive`, for any number of threads, operations and panics. `IInv` adds
  `InCall`: during a call the payload of its thread is the first one raised in
  it, and no other thread has one.
- `QueryPacketsProofs`: `ChunksAssemble`, `LookupsExact`, `RegistersAgree`.
  - `ChunksAssemble` holds for any documents and any chunk lengths. `XferInv`
    says that the client holds a prefix of the object and that the chunk under
    way begins at its end.
  - `LookupsExact` holds for any events, modules and positions. `StableSort`
    shows that the rank of an event is a bijection that respects the order of
    positions, so the sorted list holds every event once and in order;
    `ExceptionAtExact` then shows that a scan that stops at the first later event
    has missed none, and `FindModuleExact` that a module is found exactly
    when one holds the address. `SessionInv` says that a stopped client has
    no replay and that the result it saw is at the backend's position, which is
    what "when" needs.
  - `RegistersAgree`: encoder and decoder write and read their fields in the same
    order (`FieldOrder`), so the decoded context holds the recorded bytes
    (`ContextBytes`); each register number reads the register the description
    gives it (`RegistersMatch`); each register class is a slice of the
    description, and the slices join to the whole packet (`SerializedFile`). The
    hypothesis `BufLen >= 16` is needed: `read_register_value` cuts a value off
    at the end of the buffer it is lent, and an XMM register has 16 bytes.
    gdbstub lends its packet buffer, which is far larger.
- `TraceIndexProofs`: `ServesComplete`, assuming that no kill and no refused
  removal falls between the two removals. That assumption is exactly what
  `IndexRemoval` drops.
- `IndexLemmas`: what the proofs above need about sequences of any length.
  Induction is stated for a set of naturals (`SetInduction`, from the
  well-foundedness of `<`), because an induction principle over a predicate
  cannot be instantiated by the provers. `FlattenUnfold` derives the recursion
  of the library's `FlattenSeq` from its definition, and `FlattenConcat`,
  `FlatExtends` and `FlatOfAll` say how flattened pieces join.

Only model-checked: the liveness properties `ResumeAnswered`, `OperationsEnd`,
`QueryAnswered` and `StopReported`, because fairness and `ENABLED` are out of the
prover's reach. Every invariant, action property and refinement that a passing
run checks is also stated by a theorem.

## Not modelled

- Speculative hits: the engine may call a breakpoint callback for an access that
  the replay then does not stop at, and `hit_bp_id` keeps the id. Whether it does
  is a property of the closed engine that the source does not settle.
- Two servers that open one trace at the same time: `TraceIndex` has one server
  at a time, as the repository's documents presume.
- Hex digits and text layout: packets are records of their parsed fields.
- What memory contains: the engine computes it; the models say at which position
  a query reads and how much it returns.
- `ffi.rs` and the parts of `cpp/` that copy field by field; trait and module
  declarations; `main.rs` beyond starting and stopping the server; `build.rs`.
- gdbstub, the protocol library: modelled only as the order in which it calls
  the handlers.

## Plan

Order of work, the most important behaviour first. Done: 1 to 9, with the proofs
of every safety property.

1. `TargetRunner`: the threads, and proofs of their hand-over.
2. `GdbTarget`: what a client sees of resumes, exits and restarts.
3. `BreakpointState` with `ClientBreakpoints`.
4. `TtdProcess`: navigation and stop reasons.
5. `TraceIndex`.
6. `ResumeContract`, which `TargetRunner` and `GdbTarget` implement.
7. Threads in `TtdProcess`.
8. `QueryPackets` with `RegisterFile` and `TraceMetadata`.
9. `CallbackGuard`.
10. Left: speculative hits in `TtdProcess`; two servers on one trace in
    `TraceIndex`.
