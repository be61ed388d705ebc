---------------------------- MODULE CallbackGuard ----------------------------
(***************************************************************************)
(* src/ttd/callback.rs and the calls around it in ttd/cursor.rs,           *)
(* ttd/engine.rs, target/cursors.rs and ttd/cpp/ttd_cxx.cpp: Rust closures *)
(* handed to the engine for one operation, and their panics, which must    *)
(* not unwind the engine's frames.  A shim stashes the payload in a slot   *)
(* of its thread; the guard of the engine call throws it again once the    *)
(* call has returned.                                                      *)
(*                                                                         *)
(* Operations exclude each other (the backend is behind a lock) but run on *)
(* whichever thread took the job.                                          *)
(***************************************************************************)
EXTENDS Naturals

CONSTANTS
  Thread,      \* OS threads
  MaxOps,      \* bound: operations, each with a closure of its own
  MaxPanics    \* bound: panics, each with a payload of its own

ASSUME GuardConstants == MaxOps \in Nat /\ MaxPanics \in Nat

None == 0      \* no payload, no closure

VARIABLES
  pc,        \* "Idle", "Installed" (between engine calls), "Call" (inside one), "Done",
             \* "Unwind" (a panic is on its way out), "Dropped" (no cursor any more)
  op,        \* "replay" or "build"
  thread,    \* the thread of the operation
  stashed,   \* STASHED of each thread
  slot,      \* ReplayCursor::watchpoint: the closure the box points to
  engine,    \* Cursor::watchpoint_callback_: the closure the engine would call
  borrow,    \* the closure that is alive
  shared,    \* the engine has cursors
  ops,       \* operations so far
  panics,    \* panics so far
  thrown,    \* history: the payload the latest engine call threw
  raised     \* history: the payloads of the panics during it

vars == <<pc, op, thread, stashed, slot, engine, borrow, shared, ops, panics, thrown, raised>>
closures == <<slot, engine, borrow>>

Init ==
  /\ pc = "Idle" /\ op = "build" /\ thread \in Thread
  /\ stashed = [t \in Thread |-> None]
  /\ slot = None /\ engine = None /\ borrow = None /\ shared = FALSE
  /\ ops = 0 /\ panics = 0 /\ thrown = None /\ raised = {}

----------------------------------------------------------------------------
(* Installing and removing a callback. *)

\* install_borrowed_callback, for the closure of operation n.
install_borrowed_callback(n) == slot' = n /\ engine' = n /\ borrow' = n

\* clear_watchpoint_callback, then the closure's borrow ends.
clear_watchpoint_callback == slot' = None /\ engine' = None /\ borrow' = None

\* with_watchpoint_callback, up to the first engine call.
BeginReplay(t) ==
  /\ pc = "Idle" /\ ops < MaxOps
  /\ pc' = "Installed" /\ op' = "replay" /\ thread' = t /\ ops' = ops + 1 /\ shared' = TRUE
  /\ install_borrowed_callback(ops + 1)
  /\ UNCHANGED <<stashed, panics, thrown, raised>>

----------------------------------------------------------------------------
(* One engine call. *)

\* callback_panic_guard: a payload left behind is dropped.
callback_panic_guard(t) == stashed' = [stashed EXCEPT ![t] = None]

\* ReplayCursor::replay enters the engine.
EnterReplay ==
  /\ pc = "Installed" /\ pc' = "Call"
  /\ callback_panic_guard(thread) /\ thrown' = None /\ raised' = {}
  /\ UNCHANGED <<op, thread, closures, shared, ops, panics>>

\* build_index_with_progress, before the engine has cursors: the closure is on
\* the caller's stack.
EnterBuild(t) ==
  /\ pc = "Idle" /\ ~shared /\ ops < MaxOps
  /\ pc' = "Call" /\ op' = "build" /\ thread' = t /\ ops' = ops + 1
  /\ engine' = ops + 1 /\ borrow' = ops + 1
  /\ callback_panic_guard(t) /\ thrown' = None /\ raised' = {}
  /\ UNCHANGED <<slot, shared, panics>>

\* Mutant: a later payload replaces the first.
Mut_KeepLast(t, payload) == stashed' = [stashed EXCEPT ![t] = payload]

\* call_guarded, when the closure panics: the first payload is kept.
call_guarded(t, payload) ==
  stashed' = IF stashed[t] # None THEN stashed ELSE [stashed EXCEPT ![t] = payload]

\* The engine calls back (watchpoint_shim, report) and the closure panics.  The
\* shim asks the engine to stop, which may call back again before it does.
CallbackPanics ==
  /\ pc = "Call" /\ engine # None /\ panics < MaxPanics
  /\ panics' = panics + 1 /\ raised' = raised \cup {panics + 1}
  /\ call_guarded(thread, panics + 1)
  /\ UNCHANGED <<pc, op, thread, closures, shared, ops, thrown>>

\* Mutant: an engine call that fails leaves the payload behind.
Mut_LeavePayload(failed) ==
  /\ IF failed THEN stashed' = stashed /\ thrown' = None
     ELSE stashed' = [stashed EXCEPT ![thread] = None] /\ thrown' = stashed[thread]

\* CallbackPanicGuard::drop, whether the call failed or not: take the payload
\* and throw it again.
DropGuard(failed) ==
  stashed' = [stashed EXCEPT ![thread] = None] /\ thrown' = stashed[thread]

\* The engine call returns; the guard is dropped after the result is made.  After
\* a replay that stopped at a transparent exception there is another call.
Return(failed, again) ==
  /\ pc = "Call" /\ DropGuard(failed)
  /\ pc' = IF thrown' # None THEN "Unwind"
           ELSE IF op = "replay" /\ again /\ ~failed THEN "Installed" ELSE "Done"
  /\ UNCHANGED <<op, thread, closures, shared, ops, panics, raised>>

\* A panic of the replay loop itself, outside the engine.
BodyPanics ==
  /\ pc = "Installed" /\ pc' = "Unwind"
  /\ UNCHANGED <<op, thread, stashed, closures, shared, ops, panics, thrown, raised>>

\* Mutant: the callback is only removed when the operation returns.
Mut_ClearOnReturn ==
  /\ pc \in {"Done", "Unwind"} /\ pc' = "Idle"
  /\ IF pc = "Done" THEN clear_watchpoint_callback ELSE borrow' = None /\ UNCHANGED <<slot, engine>>
  /\ UNCHANGED <<op, thread, stashed, shared, ops, panics, thrown, raised>>

\* The operation is left, by a return or by unwinding: CallbackGuard::drop, and
\* the end of BuildIndex for a build.
Leave ==
  /\ pc \in {"Done", "Unwind"} /\ pc' = "Idle"
  /\ clear_watchpoint_callback
  /\ UNCHANGED <<op, thread, stashed, shared, ops, panics, thrown, raised>>

\* ReplayCursor::drop.
DropCursor ==
  /\ pc = "Idle" /\ shared /\ pc' = "Dropped"
  /\ clear_watchpoint_callback
  /\ UNCHANGED <<op, thread, stashed, shared, ops, panics, thrown, raised>>

----------------------------------------------------------------------------
Next ==
  \/ \E t \in Thread : BeginReplay(t) \/ EnterBuild(t)
  \/ EnterReplay \/ CallbackPanics \/ BodyPanics \/ Leave \/ DropCursor
  \/ \E failed, again \in BOOLEAN : Return(failed, again)

Spec == Init /\ [][Next]_vars

----------------------------------------------------------------------------
Closure == 0..MaxOps
Payload == 0..MaxPanics

TypeOK ==
  /\ pc \in {"Idle", "Installed", "Call", "Done", "Unwind", "Dropped"}
  /\ op \in {"replay", "build"} /\ thread \in Thread
  /\ stashed \in [Thread -> Payload]
  /\ slot \in Closure /\ engine \in Closure /\ borrow \in Closure
  /\ shared \in BOOLEAN /\ ops \in 0..MaxOps /\ panics \in Payload
  /\ thrown \in Payload /\ raised \subseteq 1..panics

\* The first of the payloads raised, None without any; later ones are greater.
IsFirst(payload) ==
  IF raised = {} THEN payload = None ELSE payload \in raised /\ \A x \in raised : payload <= x

\* A panic in a callback leaves the engine call it happened in, as the first
\* payload of that call; a call without a panic throws nothing, whatever
\* happened on the thread before.
PanicSurfaces == pc # "Call" => IsFirst(thrown)

\* Between engine calls no thread holds a payload, so no later operation, on
\* this thread or another, can throw it.
NothingStashed == pc # "Call" => \A t \in Thread : stashed[t] = None

\* The engine only ever holds the closure that is alive: a panic, a failed call
\* or an early return does not leave it a pointer into a frame that is gone.
CallbackAlive == engine # None => engine = borrow /\ (op = "replay" => slot = engine)

=============================================================================
