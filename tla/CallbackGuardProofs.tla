------------------------ MODULE CallbackGuardProofs ------------------------
(* Callback panics and closure lifetimes, for any number of threads,       *)
(* operations and panics.                                                  *)
EXTENDS CallbackGuard, TLAPS

\* Inside an engine call the slot of its thread holds the first payload of that
\* call, and every other slot is empty.
InCall ==
  pc = "Call" => /\ thrown = None /\ IsFirst(stashed[thread])
                 /\ \A t \in Thread \ {thread} : stashed[t] = None

IInv == TypeOK /\ InCall /\ PanicSurfaces /\ NothingStashed /\ CallbackAlive

----------------------------------------------------------------------------
\* Every step keeps the types.
LEMMA TypeStep == TypeOK /\ [Next]_vars => TypeOK'
<1> SUFFICES ASSUME TypeOK, [Next]_vars PROVE TypeOK'
  OBVIOUS
<1> USE GuardConstants DEF TypeOK, None, Closure, Payload
<1>1. ASSUME NEW t \in Thread, BeginReplay(t) PROVE TypeOK'
  BY <1>1 DEF BeginReplay, install_borrowed_callback
<1>2. ASSUME NEW t \in Thread, EnterBuild(t) PROVE TypeOK'
  BY <1>2 DEF EnterBuild, callback_panic_guard
<1>3. CASE EnterReplay
  BY <1>3 DEF EnterReplay, callback_panic_guard, closures
<1>4. CASE CallbackPanics
  <2>1. panics + 1 \in 1..MaxPanics
    BY <1>4 DEF CallbackPanics
  <2>2. raised' \subseteq 1..panics'
    BY <1>4, <2>1 DEF CallbackPanics
  <2>3. stashed' \in [Thread -> Payload]
    BY <1>4, <2>1 DEF CallbackPanics, call_guarded
  <2> QED
    BY <1>4, <2>1, <2>2, <2>3 DEF CallbackPanics, closures
<1>5. CASE BodyPanics
  BY <1>5 DEF BodyPanics, closures
<1>6. ASSUME NEW failed \in BOOLEAN, NEW again \in BOOLEAN, Return(failed, again) PROVE TypeOK'
  BY <1>6 DEF Return, DropGuard, closures
<1>7. CASE Leave
  BY <1>7 DEF Leave, clear_watchpoint_callback
<1>8. CASE DropCursor
  BY <1>8 DEF DropCursor, clear_watchpoint_callback
<1>9. CASE UNCHANGED vars
  BY <1>9 DEF vars
<1> QED
  BY <1>1, <1>2, <1>3, <1>4, <1>5, <1>6, <1>7, <1>8, <1>9 DEF Next

\* Every step keeps the account of the payloads.
LEMMA PayloadStep == IInv /\ [Next]_vars => (InCall /\ PanicSurfaces /\ NothingStashed)'
<1> SUFFICES ASSUME IInv, [Next]_vars PROVE (InCall /\ PanicSurfaces /\ NothingStashed)'
  OBVIOUS
<1> USE DEF IInv, TypeOK, InCall, PanicSurfaces, NothingStashed, IsFirst
<1>1. ASSUME NEW t \in Thread, BeginReplay(t) PROVE (InCall /\ PanicSurfaces /\ NothingStashed)'
  BY <1>1 DEF BeginReplay
<1>2. ASSUME NEW t \in Thread, EnterBuild(t) PROVE (InCall /\ PanicSurfaces /\ NothingStashed)'
  BY <1>2 DEF EnterBuild, callback_panic_guard
<1>3. CASE EnterReplay
  BY <1>3 DEF EnterReplay, callback_panic_guard
<1>4. CASE CallbackPanics
  <2>1. panics + 1 # None /\ \A x \in raised : x # None /\ x <= panics + 1
    BY <1>4, GuardConstants DEF CallbackPanics, Payload, None
  <2>2. CASE raised = {}
    BY <1>4, <2>2, <2>1 DEF CallbackPanics, call_guarded
  <2>3. CASE raised # {}
    <3>1. stashed' = stashed /\ stashed[thread] \in raised
      BY <1>4, <2>1, <2>3 DEF CallbackPanics, call_guarded
    <3> QED
      BY <1>4, <2>1, <2>3, <3>1 DEF CallbackPanics
  <2> QED
    BY <2>2, <2>3
<1>5. CASE BodyPanics
  BY <1>5 DEF BodyPanics
<1>6. ASSUME NEW failed \in BOOLEAN, NEW again \in BOOLEAN, Return(failed, again)
      PROVE  (InCall /\ PanicSurfaces /\ NothingStashed)'
  BY <1>6 DEF Return, DropGuard
<1>7. CASE Leave \/ DropCursor
  BY <1>7 DEF Leave, DropCursor
<1>8. CASE UNCHANGED vars
  BY <1>8 DEF vars
<1> QED
  BY <1>1, <1>2, <1>3, <1>4, <1>5, <1>6, <1>7, <1>8 DEF Next

\* Every step leaves the engine the closure that is alive, or none.
LEMMA AliveStep == IInv /\ [Next]_vars => CallbackAlive'
<1> SUFFICES ASSUME IInv, [Next]_vars PROVE CallbackAlive'
  OBVIOUS
<1> USE DEF IInv, CallbackAlive
<1>1. ASSUME NEW t \in Thread, BeginReplay(t) \/ EnterBuild(t) PROVE CallbackAlive'
  BY <1>1 DEF BeginReplay, EnterBuild, install_borrowed_callback
<1>2. CASE EnterReplay \/ CallbackPanics \/ BodyPanics
  BY <1>2 DEF EnterReplay, CallbackPanics, BodyPanics, closures
<1>3. ASSUME NEW failed \in BOOLEAN, NEW again \in BOOLEAN, Return(failed, again)
      PROVE  CallbackAlive'
  BY <1>3 DEF Return, closures
<1>4. CASE Leave \/ DropCursor
  BY <1>4 DEF Leave, DropCursor, clear_watchpoint_callback
<1>5. CASE UNCHANGED vars
  BY <1>5 DEF vars
<1> QED
  BY <1>1, <1>2, <1>3, <1>4, <1>5 DEF Next

----------------------------------------------------------------------------
(* The theorems. *)

\* The inductive invariant holds in every reachable state.
THEOREM GuardInvariant == Spec => []IInv
<1>1. Init => IInv
  <2> SUFFICES ASSUME Init PROVE IInv
    OBVIOUS
  <2>1. 0 \in Closure /\ 0 \in Payload /\ 0 \in 0..MaxOps
    BY GuardConstants DEF Closure, Payload
  <2>2. stashed \in [Thread -> Payload] /\ raised \subseteq 1..panics
    BY <2>1 DEF Init, None
  <2>3. TypeOK
    BY <2>1, <2>2 DEF Init, TypeOK, None
  <2>4. InCall /\ PanicSurfaces /\ NothingStashed /\ CallbackAlive
    BY DEF Init, InCall, PanicSurfaces, IsFirst, NothingStashed, CallbackAlive
  <2> QED
    BY <2>3, <2>4 DEF IInv
<1>2. IInv /\ [Next]_vars => IInv'
  BY TypeStep, PayloadStep, AliveStep DEF IInv
<1> QED
  BY <1>1, <1>2, PTL DEF Spec

\* Slots and closures stay in range.
THEOREM GuardTypes == Spec => []TypeOK
<1>1. IInv => TypeOK
  BY DEF IInv
<1> QED
  BY <1>1, GuardInvariant, PTL

\* call_guarded and CallbackPanicGuard::drop together: the first panic of an
\* engine call leaves that call, and no other call throws anything.
THEOREM PanicsSurface == Spec => []PanicSurfaces
<1>1. IInv => PanicSurfaces
  BY DEF IInv
<1> QED
  BY <1>1, GuardInvariant, PTL

\* No payload outlives the engine call it was stashed in.
THEOREM NoPayloadLeftBehind == Spec => []NothingStashed
<1>1. IInv => NothingStashed
  BY DEF IInv
<1> QED
  BY <1>1, GuardInvariant, PTL

\* The engine never holds a closure whose borrow has ended.
THEOREM CallbacksAreAlive == Spec => []CallbackAlive
<1>1. IInv => CallbackAlive
  BY DEF IInv
<1> QED
  BY <1>1, GuardInvariant, PTL

=============================================================================
