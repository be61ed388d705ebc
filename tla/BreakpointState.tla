-------------------------- MODULE BreakpointState --------------------------
(***************************************************************************)
(* src/target/breakpoint_state.rs with breakpoint.rs, watchpoint.rs and    *)
(* threads.rs: the client's logical breakpoints, and the physical          *)
(* watchpoints that make the TTD engine report their hits.                 *)
(*                                                                         *)
(* Every operation runs under the backend mutex (TargetRunner), so it is   *)
(* one action; inside it any engine call may fail, in any combination.     *)
(***************************************************************************)
EXTENDS Integers, Sequences, FiniteSets, FiniteSetsExt

CONSTANTS
  TopAddr,               \* u64::MAX
  UserTop, KernelBase,   \* the canonical halves: 0..UserTop, KernelBase..TopAddr
  MAX_WATCHPOINT_BYTES,
  Threads,               \* the trace's thread list: <<[Id, UniqueId], ...>>
  Requested,             \* ranges clients ask for, <<addr, size>>
  RequestedTids,         \* per-thread filters clients ask for; 0 is "any thread"
  AccessSizes,           \* sizes of the accesses the recorded program makes
  MaxId                  \* bound: ids handed out in one model

\* TtdThreadInfo, in the order the engine lists the threads of the trace.
ThreadInfo == [Id : Nat \ {0}, UniqueId : Nat \ {0}]

ASSUME BreakpointConstants ==
  /\ TopAddr \in Nat /\ UserTop \in Nat /\ KernelBase \in Nat
  /\ UserTop < KernelBase /\ KernelBase <= TopAddr
  /\ MAX_WATCHPOINT_BYTES \in Nat
  /\ Threads \in Seq(ThreadInfo)
  /\ Requested \subseteq (0..TopAddr) \X (0..TopAddr)
  /\ RequestedTids \subseteq Nat
  /\ AccessSizes \subseteq Nat
  /\ MaxId \in Nat

VARIABLES
  breakpoints,         \* BreakpointManager: id -> Breakpoint
  next_id,
  applied,             \* WatchpointRegistry: the keys it believes are registered
  physical,            \* the keys registered on the persistent cursor (engine state)
  watchpoint_adds,     \* WatchpointStats
  watchpoint_removes

vars == <<breakpoints, next_id, applied, physical, watchpoint_adds, watchpoint_removes>>

----------------------------------------------------------------------------
(* Breakpoints and watchpoint keys. *)

BreakpointKind == {"Execute", "Read", "Write", "Access"}

DataAccess == {"READ", "WRITE", "EXECUTE"}   \* the mask bits breakpoints use

AccessMask(kind) ==
  CASE kind = "Execute" -> {"EXECUTE"}
    [] kind = "Read"    -> {"READ"}
    [] kind = "Write"   -> {"WRITE"}
    [] kind = "Access"  -> {"READ", "WRITE"}

Breakpoint == [kind : BreakpointKind, addr : 0..TopAddr, size : 0..TopAddr,
               access : SUBSET DataAccess, thread_id : Nat]

WatchpointKey == [addr : 0..TopAddr, size : 0..TopAddr, access : SUBSET DataAccess, tid : Nat]

canonical_address(addr) == addr <= UserTop \/ addr >= KernelBase

\* checked_add fails when the exclusive end does not fit in a u64.
valid_watchpoint_range(addr, size) ==
  /\ size # 0 /\ size <= MAX_WATCHPOINT_BYTES
  /\ addr + size <= TopAddr
  /\ canonical_address(addr) /\ canonical_address(addr + size - 1)

----------------------------------------------------------------------------
(* ThreadTable: a recycled OS tid keeps its last mapping. *)

os_to_uid ==
  [os \in {Threads[i].Id : i \in DOMAIN Threads} |->
     Threads[Max({i \in DOMAIN Threads : Threads[i].Id = os})].UniqueId]

\* Option::None and an OS tid the trace does not have both become 0, "any thread".
uid_for_os_tid(os_tid) == IF os_tid \in DOMAIN os_to_uid THEN os_to_uid[os_tid] ELSE 0

KeyOf(bp) == [addr |-> bp.addr, size |-> bp.size, access |-> bp.access,
              tid |-> uid_for_os_tid(bp.thread_id)]

desired_watchpoints(bps) == {KeyOf(bps[id]) : id \in DOMAIN bps}

----------------------------------------------------------------------------
(* WatchpointRegistry::sync: stale keys are removed first, then missing    *)
(* ones are added; r are the removals and a the additions the engine       *)
(* accepts.  A failed removal stays recorded, a failed addition does not.  *)

Stale(ap, desired)   == ap \ desired
Missing(ap, desired) == desired \ ap

\* The engine rejects any call it likes; add_watchpoint and remove_watchpoint
\* reject an invalid range before they reach it.
Accepted(keys) == SUBSET {k \in keys : valid_watchpoint_range(k.addr, k.size)}

SyncResult(ap, ph, missing, r, a) ==
  [applied |-> (ap \ r) \cup a, physical |-> (ph \ r) \cup a,
   added |-> Cardinality(a), removed |-> Cardinality(r), ok |-> a = missing]

\* Mutant: a stale key is forgotten whether or not the engine let go of it.
Mut_ForgetFailedRemoves(ap, ph, desired) ==
  {[SyncResult(ap, ph, Missing(ap, desired), r, a) EXCEPT !.applied = (ap \cap desired) \cup a] :
     r \in Accepted(Stale(ap, desired)), a \in Accepted(Missing(ap, desired))}

\* Mutant: a removal is counted even if it failed.
Mut_CountAttempts(ap, ph, desired) ==
  {[SyncResult(ap, ph, Missing(ap, desired), r, a) EXCEPT !.removed = Cardinality(Stale(ap, desired))] :
     r \in Accepted(Stale(ap, desired)), a \in Accepted(Missing(ap, desired))}

\* Every outcome of one sync from registry ap and engine state ph.
sync(ap, ph, desired) ==
  {SyncResult(ap, ph, Missing(ap, desired), r, a) :
     r \in Accepted(Stale(ap, desired)), a \in Accepted(Missing(ap, desired))}

----------------------------------------------------------------------------
(* BreakpointManager. *)

\* BreakpointManager::add
Inserted(bp) == [id \in DOMAIN breakpoints \cup {next_id} |->
                   IF id = next_id THEN bp ELSE breakpoints[id]]

\* BreakpointManager::remove and ::remove_exact keep the rest of the table.
Without(ids) == [id \in DOMAIN breakpoints \ ids |-> breakpoints[id]]

\* Mutant: the size is not part of the identity a z packet names.
Mut_MatchAddrOnly(addr, size, access) == {id \in DOMAIN breakpoints : breakpoints[id].addr = addr}

ExactIds(addr, size, access) ==
  {id \in DOMAIN breakpoints :
     /\ breakpoints[id].addr = addr
     /\ breakpoints[id].size = size
     /\ breakpoints[id].access = access}

----------------------------------------------------------------------------
(* Hits: what the watchpoint callback is told, and which breakpoint it     *)
(* finds.  access is one mask bit, or none for an unknown access type.     *)

Hit == {h \in [addr : 0..TopAddr, size : AccessSizes, access : {{}} \cup {{b} : b \in DataAccess},
               thread : DOMAIN Threads] :
          h.addr + h.size <= TopAddr + 1}

AtLeastOne(n) == IF n = 0 THEN 1 ELSE n
saturating_add(a, b) == IF a + b > TopAddr THEN TopAddr ELSE a + b

\* Mutant: a data hit is matched by its first byte only.
Mut_FirstByte(bp, h) ==
  /\ bp.access \cap h.access # {}
  /\ IF bp.kind = "Execute" THEN h.addr = bp.addr
     ELSE bp.addr <= h.addr /\ h.addr < saturating_add(bp.addr, bp.size)

\* Mutant: the access mask is not compared.
Mut_AnyAccess(bp, h) ==
  IF bp.kind = "Execute" THEN h.addr = bp.addr
  ELSE /\ h.addr < saturating_add(bp.addr, bp.size)
       /\ bp.addr < saturating_add(h.addr, AtLeastOne(h.size))

matches_addr(bp, h) ==
  /\ bp.access \cap h.access # {}
  /\ IF bp.kind = "Execute" THEN h.addr = bp.addr
     ELSE /\ h.addr < saturating_add(bp.addr, bp.size)
          /\ bp.addr < saturating_add(h.addr, AtLeastOne(h.size))

Candidates(h, tid) ==
  {id \in DOMAIN breakpoints : /\ matches_addr(breakpoints[id], h)
                               /\ breakpoints[id].thread_id = tid}

\* The breakpoint for the hitting thread first, then a global one; lowest id.
\* 0 when the hit belongs to no breakpoint (replay goes on).
find_by_watchpoint_hit_and_thread(h) ==
  LET own == Candidates(h, Threads[h.thread].Id)
      any == Candidates(h, 0)
  IN  IF own # {} THEN Min(own) ELSE IF any # {} THEN Min(any) ELSE 0

Bytes(addr, size) == addr..(addr + size - 1)

\* Engine: an access is reported if it touches a registered range.
Fires(k, h) ==
  /\ k.access \cap h.access # {}
  /\ Bytes(k.addr, k.size) \cap Bytes(h.addr, AtLeastOne(h.size)) # {}
  /\ k.tid \in {0, Threads[h.thread].UniqueId}

Stops(h) == /\ \E k \in physical : Fires(k, h)
            /\ find_by_watchpoint_hit_and_thread(h) # 0

----------------------------------------------------------------------------
(* Operations. *)

\* A second sync, s2, undoes what the first one, s1, did for a rejected entry.
Commit(s1, bps) ==
  /\ breakpoints' = bps
  /\ applied' = s1.applied /\ physical' = s1.physical
  /\ watchpoint_adds' = watchpoint_adds + s1.added
  /\ watchpoint_removes' = watchpoint_removes + s1.removed

Rollback(s1, s2) ==
  /\ breakpoints' = breakpoints
  /\ applied' = s2.applied /\ physical' = s2.physical
  /\ watchpoint_adds' = watchpoint_adds + s1.added + s2.added
  /\ watchpoint_removes' = watchpoint_removes + s1.removed + s2.removed

\* Mutant: a failed registration returns without the rollback.
Mut_RegisterNoRollback(bp) ==
  /\ next_id <= MaxId
  /\ next_id' = next_id + 1
  /\ \E s1 \in sync(applied, physical, desired_watchpoints(Inserted(bp))) : Commit(s1, Inserted(bp))

\* Mutant: the next breakpoint gets the same id.
Mut_ReuseId(bp) ==
  /\ next_id <= MaxId
  /\ next_id' = next_id
  /\ \E s1 \in sync(applied, physical, desired_watchpoints(Inserted(bp))) :
       s1.ok /\ Commit(s1, Inserted(bp))

\* The common body of set_breakpoint and set_data_breakpoint.
Register(bp) ==
  /\ next_id <= MaxId
  /\ next_id' = next_id + 1
  /\ \E s1 \in sync(applied, physical, desired_watchpoints(Inserted(bp))) :
       \/ s1.ok /\ Commit(s1, Inserted(bp))
       \/ /\ ~s1.ok
          /\ \E s2 \in sync(s1.applied, s1.physical, desired_watchpoints(breakpoints)) :
               Rollback(s1, s2)

NewBreakpoint(addr, size, kind, thread_id) ==
  [kind |-> kind, addr |-> addr, size |-> size, access |-> AccessMask(kind),
   thread_id |-> thread_id]

set_breakpoint(addr, thread_id) == Register(NewBreakpoint(addr, 1, "Execute", thread_id))

set_data_breakpoint(addr, size, kind) == Register(NewBreakpoint(addr, size, kind, 0))

RemoveIds(ids) ==
  /\ ids \cap DOMAIN breakpoints # {}      \* nothing removed: no sync
  /\ \E s \in sync(applied, physical, desired_watchpoints(Without(ids))) : Commit(s, Without(ids))
  /\ UNCHANGED next_id

remove_breakpoint(id) == RemoveIds({id})

remove_breakpoint_exact(addr, size, access) == RemoveIds(ExactIds(addr, size, access))

Init ==
  /\ breakpoints = <<>> /\ next_id = 1
  /\ applied = {} /\ physical = {}
  /\ watchpoint_adds = 0 /\ watchpoint_removes = 0

Next ==
  \/ \E rg \in Requested, t \in RequestedTids : set_breakpoint(rg[1], t)
  \/ \E rg \in Requested, k \in BreakpointKind : set_data_breakpoint(rg[1], rg[2], k)
  \/ \E id \in DOMAIN breakpoints : remove_breakpoint(id)
  \/ \E rg \in Requested, k \in BreakpointKind :
       remove_breakpoint_exact(rg[1], rg[2], AccessMask(k))

Spec == Init /\ [][Next]_vars

----------------------------------------------------------------------------
(* Properties. *)

TypeOK ==
  /\ next_id \in 1..(MaxId + 1)
  /\ DOMAIN breakpoints \subseteq 1..(next_id - 1)
  /\ \A id \in DOMAIN breakpoints : breakpoints[id] \in Breakpoint
  /\ applied \in SUBSET WatchpointKey /\ physical \in SUBSET WatchpointKey
  /\ watchpoint_adds \in Nat /\ watchpoint_removes \in Nat

\* Every breakpoint the client was told is set has its watchpoint on the
\* persistent cursor, whatever engine calls failed since (set_breakpoint's
\* rollback and its second sync disarm nobody else).
Armed == desired_watchpoints(breakpoints) \subseteq physical

\* The registry knows exactly what the cursor holds: a failed removal stays
\* recorded for a retry, a failed addition is not recorded (WatchpointRegistry::sync).
RegistryMirrorsEngine == applied = physical

\* `monitor ttd stats` counts successful physical operations only, so adds
\* minus removes is the number of registered watchpoints (BreakpointState::sync).
StatsBalance == watchpoint_adds - watchpoint_removes = Cardinality(physical)

\* Byte for byte, the accesses a breakpoint is about.  A filter on a recycled
\* OS tid must stop the last thread of that tid and may stop an earlier one.
Covers(bp, h) ==
  /\ bp.access \cap h.access # {}
  /\ IF bp.kind = "Execute" THEN h.addr = bp.addr
     ELSE Bytes(bp.addr, bp.size) \cap Bytes(h.addr, AtLeastOne(h.size)) # {}
  /\ bp.thread_id \in {0, Threads[h.thread].Id}

CoversThread(bp, h) ==
  Covers(bp, h) /\ uid_for_os_tid(bp.thread_id) \in {0, Threads[h.thread].UniqueId}

\* An access that touches an acknowledged breakpoint stops replay: the engine
\* reports it and the callback finds a breakpoint, also at the ends of the
\* address space where the range arithmetic saturates.
NoMissedStop ==
  \A h \in Hit, id \in DOMAIN breakpoints : CoversThread(breakpoints[id], h) => Stops(h)

\* Replay never stops for a breakpoint that is not set: a watchpoint whose
\* removal failed still fires, and its hits are ignored.
NoSpuriousStop ==
  \A h \in Hit : Stops(h) => Covers(breakpoints[find_by_watchpoint_hit_and_thread(h)], h)

ClientRequest ==
  {NewBreakpoint(rg[1], 1, "Execute", t) : rg \in Requested, t \in RequestedTids} \cup
  {NewBreakpoint(rg[1], rg[2], k, 0) : rg \in Requested, k \in BreakpointKind}

Triples == {<<rg[1], rg[2], AccessMask(k)>> : rg \in Requested, k \in BreakpointKind}

NamesRequest(t, bp) == t = <<bp.addr, bp.size, bp.access>>
MustStopAt(bp)      == {h \in Hit : CoversThread(bp, h)}
MayStopAt(bp)       == {h \in Hit : Covers(bp, h)}

Wanted   == {breakpoints[id] : id \in DOMAIN breakpoints}
Stopping == {h \in Hit : Stops(h)}

Client == INSTANCE ClientBreakpoints WITH
  Request <- ClientRequest, Triple <- Triples, Names <- NamesRequest,
  MustStop <- MustStopAt, MayStop <- MayStopAt,
  wanted <- Wanted, stopping <- Stopping

\* The layer implements the client's view: a set of requests in which a
\* rejected insert changes nothing and a z packet clears every duplicate.
ClientView == Client!Spec

============================================================================
