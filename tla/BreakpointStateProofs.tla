----------------------- MODULE BreakpointStateProofs -----------------------
(***************************************************************************)
(* Proofs about BreakpointState, for every address width, thread list, set *)
(* of requests and number of ids.                                          *)
(***************************************************************************)
EXTENDS BreakpointState, TLAPS, FiniteSetTheorems, WellFoundedInduction

\* Every registered key passed add_watchpoint's range check.
RegisteredValid == \A k \in physical : valid_watchpoint_range(k.addr, k.size)

\* The inductive invariant: Armed alone is not inductive, because sync decides
\* what to add and remove by the registry, not by what the engine holds.
IInv ==
  /\ TypeOK
  /\ RegistryMirrorsEngine
  /\ Armed
  /\ RegisteredValid
  /\ IsFiniteSet(physical)
  /\ StatsBalance

----------------------------------------------------------------------------
(* Helpers. *)

\* A nonempty set of thread-list indices has a largest element (os_to_uid).
LEMMA MaxOfIndices ==
  ASSUME NEW n \in Nat, NEW S \in SUBSET (1..n), S # {}
  PROVE  Max(S) \in S
<1> DEFINE T == {x \in Nat : n - x \in S}
<1>1. T \subseteq Nat /\ T # {}
  <2>1. PICK i \in S : TRUE
    OBVIOUS
  <2>2. n - i \in Nat /\ n - (n - i) = i
    OBVIOUS
  <2> QED BY <2>2
<1>2. PICK m \in T : \A y \in T : ~(<<y, m>> \in OpToRel(<, Nat))
  BY <1>1, NatLessThanWellFounded, WFMin
<1>3. \A y \in T : m <= y
  <2> SUFFICES ASSUME NEW y \in T, y < m PROVE FALSE
    OBVIOUS
  <2>1. <<y, m>> \in OpToRel(<, Nat)
    BY DEF OpToRel
  <2> QED BY <1>2, <2>1
<1>4. n - m \in S
  OBVIOUS
<1>5. \A j \in S : n - m >= j
  <2> SUFFICES ASSUME NEW j \in S PROVE n - m >= j
    OBVIOUS
  <2>1. j \in 1..n /\ n - j \in Nat /\ n - (n - j) = j
    OBVIOUS
  <2>2. n - j \in T
    BY <2>1
  <2>3. m <= n - j
    BY <1>3, <2>2
  <2> QED BY <2>1, <2>3
<1> QED BY <1>4, <1>5 DEF Max


\* A nonempty set of ids has a lowest one (find_by_watchpoint_hit_and_thread).
LEMMA MinOfIds ==
  ASSUME NEW S \in SUBSET Nat, S # {}
  PROVE  Min(S) \in S
<1>1. PICK m \in S : \A y \in S : ~(<<y, m>> \in OpToRel(<, Nat))
  BY NatLessThanWellFounded, WFMin
<1>2. \A y \in S : m <= y
  <2> SUFFICES ASSUME NEW y \in S, y < m PROVE FALSE
    OBVIOUS
  <2>1. <<y, m>> \in OpToRel(<, Nat)
    BY DEF OpToRel
  <2> QED BY <1>1, <2>1
<1> QED BY <1>2 DEF Min

\* The translated filter is a thread id or 0 (ThreadTable::uid_for_os_tid).
LEMMA UidType ==
  ASSUME NEW os
  PROVE  uid_for_os_tid(os) \in Nat
<1>1. CASE os \in DOMAIN os_to_uid
  <2> DEFINE I == {i \in DOMAIN Threads : Threads[i].Id = os}
  <2>1. DOMAIN Threads = 1..Len(Threads) /\ Len(Threads) \in Nat
    BY BreakpointConstants
  <2>2. I # {} /\ I \subseteq 1..Len(Threads)
    BY <1>1, <2>1 DEF os_to_uid
  <2>3. Max(I) \in DOMAIN Threads
    BY <2>1, <2>2, MaxOfIndices
  <2> HIDE DEF I
  <2>4. Threads[Max(I)].UniqueId \in Nat
    <3>1. Threads[Max(I)] \in ThreadInfo
      BY <2>3, BreakpointConstants
    <3> QED BY <3>1 DEF ThreadInfo
  <2>5. os_to_uid[os] = Threads[Max(I)].UniqueId
    BY <1>1 DEF os_to_uid, I
  <2> QED BY <1>1, <2>4, <2>5 DEF uid_for_os_tid
<1>2. CASE os \notin DOMAIN os_to_uid
  BY <1>2 DEF uid_for_os_tid
<1> QED BY <1>1, <1>2

\* The key of a well-formed breakpoint is a watchpoint key (desired_watchpoints).
LEMMA KeyType ==
  ASSUME NEW bp \in Breakpoint
  PROVE  KeyOf(bp) \in WatchpointKey
BY UidType DEF Breakpoint, WatchpointKey, KeyOf

\* A table of well-formed breakpoints asks for watchpoint keys only.
LEMMA DesiredType ==
  ASSUME NEW bps, \A id \in DOMAIN bps : bps[id] \in Breakpoint
  PROVE  desired_watchpoints(bps) \subseteq WatchpointKey
BY KeyType DEF desired_watchpoints

\* A finite table asks for finitely many watchpoints.
LEMMA DesiredFinite ==
  ASSUME NEW bps, IsFiniteSet(DOMAIN bps)
  PROVE  IsFiniteSet(desired_watchpoints(bps))
<1> DEFINE key == [id \in DOMAIN bps |-> KeyOf(bps[id])]
<1>1. key \in Surjection(DOMAIN bps, desired_watchpoints(bps))
  BY DEF Surjection, desired_watchpoints
<1> QED BY <1>1, FS_Surjection

\* What one sync may do, whatever calls fail: it keeps registry and engine
\* together, drops no key that is still desired, adds only desired keys with a
\* valid range, and reports success only if everything desired is registered.
LEMMA SyncFacts ==
  ASSUME NEW ap, NEW desired, NEW s \in sync(ap, ap, desired)
  PROVE  /\ s.applied = s.physical
         /\ ap \cap desired \subseteq s.physical
         /\ s.physical \subseteq ap \cup desired
         /\ s.ok => desired \subseteq s.physical
         /\ \A k \in s.physical \ ap : valid_watchpoint_range(k.addr, k.size)
<1>1. PICK r \in Accepted(Stale(ap, desired)), a \in Accepted(Missing(ap, desired)) :
        s = SyncResult(ap, ap, Missing(ap, desired), r, a)
  BY DEF sync
<1>2. /\ s.applied = (ap \ r) \cup a
      /\ s.physical = (ap \ r) \cup a
      /\ s.ok = (a = Missing(ap, desired))
  BY <1>1 DEF SyncResult
<1>3. r \subseteq ap \ desired /\ a \subseteq desired \ ap
  BY <1>1 DEF Accepted, Stale, Missing
<1>4. \A k \in a : valid_watchpoint_range(k.addr, k.size)
  BY <1>1 DEF Accepted
<1> QED BY <1>2, <1>3, <1>4 DEF Missing

\* The cardinality of a union of two disjoint finite sets.
LEMMA DisjointUnion ==
  ASSUME NEW S, NEW T, IsFiniteSet(S), IsFiniteSet(T), S \cap T = {}
  PROVE  /\ IsFiniteSet(S \cup T)
         /\ Cardinality(S \cup T) = Cardinality(S) + Cardinality(T)
<1>1. Cardinality(S) \in Nat /\ Cardinality(T) \in Nat
  BY FS_CardinalityType
<1>2. Cardinality(S \cap T) = 0
  BY FS_EmptySet
<1>3. /\ IsFiniteSet(S \cup T)
      /\ Cardinality(S \cup T) = Cardinality(S) + Cardinality(T) - Cardinality(S \cap T)
  BY FS_Union
<1> QED BY <1>1, <1>2, <1>3

\* A sync counts exactly what it changes on the engine.
LEMMA SyncCounts ==
  ASSUME NEW ap, NEW desired, IsFiniteSet(ap), IsFiniteSet(desired),
         NEW s \in sync(ap, ap, desired)
  PROVE  /\ IsFiniteSet(s.physical)
         /\ s.added \in Nat /\ s.removed \in Nat
         /\ Cardinality(s.physical) = Cardinality(ap) + s.added - s.removed
<1>1. PICK r \in Accepted(Stale(ap, desired)), a \in Accepted(Missing(ap, desired)) :
        s = SyncResult(ap, ap, Missing(ap, desired), r, a)
  BY DEF sync
<1>2. r \subseteq ap /\ a \subseteq desired /\ a \cap ap = {}
  BY <1>1 DEF Accepted, Stale, Missing
<1> DEFINE kept == ap \ r
<1>3. IsFiniteSet(r) /\ IsFiniteSet(a) /\ IsFiniteSet(kept)
  BY <1>2, FS_Subset
<1>4. /\ Cardinality(ap) \in Nat /\ Cardinality(r) \in Nat
      /\ Cardinality(a) \in Nat /\ Cardinality(kept) \in Nat
  BY <1>3, FS_CardinalityType
<1>5. Cardinality(ap) = Cardinality(kept) + Cardinality(r)
  <2>1. kept \cup r = ap /\ kept \cap r = {}
    BY <1>2
  <2> HIDE DEF kept
  <2> QED BY <1>3, <2>1, DisjointUnion
<1>6. /\ IsFiniteSet(kept \cup a)
      /\ Cardinality(kept \cup a) = Cardinality(kept) + Cardinality(a)
  <2>1. kept \cap a = {}
    BY <1>2
  <2> HIDE DEF kept
  <2> QED BY <1>3, <2>1, DisjointUnion
<1>7. s.physical = kept \cup a /\ s.added = Cardinality(a) /\ s.removed = Cardinality(r)
  BY <1>1 DEF SyncResult
<1> HIDE DEF kept
<1> QED BY <1>4, <1>5, <1>6, <1>7

----------------------------------------------------------------------------
(* The inductive invariant. *)

\* A new BreakpointState satisfies the inductive invariant.
LEMMA InitInv == Init => IInv
<1> SUFFICES ASSUME Init PROVE IInv
  OBVIOUS
<1>1. DOMAIN breakpoints = {}
  BY DEF Init
<1>2. TypeOK
  BY <1>1, BreakpointConstants DEF Init, TypeOK
<1>3. Armed
  BY <1>1 DEF Armed, desired_watchpoints
<1>4. IsFiniteSet(physical) /\ StatsBalance
  BY FS_EmptySet DEF Init, StatsBalance
<1> QED BY <1>2, <1>3, <1>4 DEF Init, IInv, RegistryMirrorsEngine, RegisteredValid

\* Inserting a breakpoint keeps the table a table of breakpoints, and adds
\* desired keys without taking any away (BreakpointManager::add).
LEMMA InsertedFacts ==
  ASSUME TypeOK, NEW bp \in Breakpoint
  PROVE  /\ DOMAIN Inserted(bp) = DOMAIN breakpoints \cup {next_id}
         /\ \A id \in DOMAIN Inserted(bp) : Inserted(bp)[id] \in Breakpoint
         /\ desired_watchpoints(breakpoints) \subseteq desired_watchpoints(Inserted(bp))
<1>1. DOMAIN Inserted(bp) = DOMAIN breakpoints \cup {next_id}
  BY DEF Inserted
<1>2. next_id \notin DOMAIN breakpoints
  BY BreakpointConstants DEF TypeOK
<1>3. \A id \in DOMAIN breakpoints : Inserted(bp)[id] = breakpoints[id]
  BY <1>2 DEF Inserted
<1>4. Inserted(bp)[next_id] = bp
  BY DEF Inserted
<1> QED BY <1>1, <1>3, <1>4 DEF desired_watchpoints, TypeOK

\* BreakpointManager::remove and ::remove_exact only shrink the table, and what
\* it asks for.
LEMMA WithoutFacts ==
  ASSUME TypeOK, NEW ids
  PROVE  /\ DOMAIN Without(ids) \subseteq DOMAIN breakpoints
         /\ \A id \in DOMAIN Without(ids) : Without(ids)[id] \in Breakpoint
         /\ desired_watchpoints(Without(ids)) \subseteq desired_watchpoints(breakpoints)
BY DEF Without, desired_watchpoints, TypeOK

\* The table is finite, because ids are.
LEMMA TableFinite ==
  ASSUME TypeOK
  PROVE  IsFiniteSet(DOMAIN breakpoints)
<1>1. next_id - 1 \in Int
  BY BreakpointConstants DEF TypeOK
<1> QED BY <1>1, FS_Interval, FS_Subset DEF TypeOK

\* set_breakpoint and set_data_breakpoint build well-formed breakpoints.
LEMMA RequestType ==
  ASSUME NEW rg \in Requested
  PROVE  /\ \A t \in RequestedTids : NewBreakpoint(rg[1], 1, "Execute", t) \in Breakpoint
         /\ \A k \in BreakpointKind : NewBreakpoint(rg[1], rg[2], k, 0) \in Breakpoint
<1>1. rg[1] \in 0..TopAddr /\ rg[2] \in 0..TopAddr
  BY BreakpointConstants
<1>2. \A k \in BreakpointKind : AccessMask(k) \in SUBSET DataAccess
  BY DEF BreakpointKind, AccessMask, DataAccess
<1>3. \A t \in RequestedTids : t \in Nat
  BY BreakpointConstants
<1> QED BY <1>1, <1>2, <1>3, BreakpointConstants DEF NewBreakpoint, Breakpoint, BreakpointKind

\* What the invariant says of the engine: its watchpoints are well formed, and
\* adds and rems are the counters that belong to them.
EngineOK(ph, adds, rems) ==
  /\ ph \subseteq WatchpointKey
  /\ IsFiniteSet(ph)
  /\ \A k \in ph : valid_watchpoint_range(k.addr, k.size)
  /\ adds \in Nat /\ rems \in Nat
  /\ adds - rems = Cardinality(ph)

\* The engine part of the inductive invariant.
LEMMA EngineFromInv ==
  ASSUME IInv
  PROVE  applied = physical /\ EngineOK(physical, watchpoint_adds, watchpoint_removes)
BY DEF IInv, TypeOK, RegistryMirrorsEngine, RegisteredValid, StatsBalance, EngineOK

\* One sync leaves the engine well formed, with the counters it reports.
LEMMA SyncEngine ==
  ASSUME NEW ph, NEW adds, NEW rems, EngineOK(ph, adds, rems),
         NEW desired \in SUBSET WatchpointKey, IsFiniteSet(desired),
         NEW s \in sync(ph, ph, desired)
  PROVE  EngineOK(s.physical, adds + s.added, rems + s.removed)
<1> USE DEF EngineOK
<1>1. /\ s.physical \subseteq ph \cup desired
      /\ \A k \in s.physical \ ph : valid_watchpoint_range(k.addr, k.size)
  BY SyncFacts
<1>2. /\ IsFiniteSet(s.physical) /\ s.added \in Nat /\ s.removed \in Nat
      /\ Cardinality(s.physical) = Cardinality(ph) + s.added - s.removed
  BY SyncCounts
<1>3. Cardinality(ph) \in Nat
  BY FS_CardinalityType
<1>4. adds + s.added \in Nat /\ rems + s.removed \in Nat
  BY <1>2
<1>5. (adds + s.added) - (rems + s.removed) = Cardinality(s.physical)
  BY <1>2, <1>3
<1>6. \A k \in s.physical : valid_watchpoint_range(k.addr, k.size)
  BY <1>1
<1> QED BY <1>1, <1>2, <1>4, <1>5, <1>6

\* An operation preserves the invariant if it leaves the engine well formed,
\* the registry equal to it, and the new table within it.
LEMMA InvFromEngine ==
  ASSUME NEW bps, NEW ph,
         breakpoints' = bps, applied' = ph, physical' = ph,
         EngineOK(ph, watchpoint_adds', watchpoint_removes'),
         next_id' \in 1..(MaxId + 1), DOMAIN bps \subseteq 1..(next_id' - 1),
         \A id \in DOMAIN bps : bps[id] \in Breakpoint,
         desired_watchpoints(bps) \subseteq ph
  PROVE  IInv'
<1>1. TypeOK'
  BY DEF TypeOK, EngineOK
<1>2. RegistryMirrorsEngine'
  BY DEF RegistryMirrorsEngine
<1>3. Armed'
  BY DEF Armed
<1>4. RegisteredValid'
  BY DEF RegisteredValid, EngineOK
<1>5. IsFiniteSet(physical)'
  BY DEF EngineOK
<1>6. StatsBalance'
  BY DEF StatsBalance, EngineOK
<1> QED BY <1>1, <1>2, <1>3, <1>4, <1>5, <1>6 DEF IInv

\* A removal, whatever engine calls fail in its sync, keeps the invariant.
LEMMA RemoveInv ==
  ASSUME IInv, NEW ids, RemoveIds(ids)
  PROVE  IInv'
<1> DEFINE bps == Without(ids)
<1> DEFINE desired == desired_watchpoints(bps)
<1>1. TypeOK /\ applied = physical /\ desired_watchpoints(breakpoints) \subseteq physical
  BY DEF IInv, RegistryMirrorsEngine, Armed
<1>2. /\ DOMAIN bps \subseteq DOMAIN breakpoints
      /\ \A id \in DOMAIN bps : bps[id] \in Breakpoint
      /\ desired \subseteq desired_watchpoints(breakpoints)
  BY <1>1, WithoutFacts
<1>3. desired \in SUBSET WatchpointKey
  BY <1>2, DesiredType
<1>4. IsFiniteSet(desired)
  BY <1>1, <1>2, TableFinite, FS_Subset, DesiredFinite
<1>5. PICK s \in sync(physical, physical, desired) : Commit(s, bps)
  BY <1>1 DEF RemoveIds
<1> HIDE DEF bps, desired
<1>6. EngineOK(s.physical, watchpoint_adds', watchpoint_removes')
  BY <1>3, <1>4, <1>5, EngineFromInv, SyncEngine DEF Commit
<1>7. desired \subseteq s.physical /\ s.applied = s.physical
  BY <1>1, <1>2, <1>5, SyncFacts
<1>8. next_id' \in 1..(MaxId + 1) /\ DOMAIN bps \subseteq 1..(next_id' - 1)
  BY <1>1, <1>2 DEF RemoveIds, TypeOK
<1> QED BY <1>2, <1>5, <1>6, <1>7, <1>8, InvFromEngine DEF Commit, desired

\* Success: the table grows and everything it wants is registered.
LEMMA RegisterCommitInv ==
  ASSUME IInv, NEW bp \in Breakpoint, next_id <= MaxId, next_id' = next_id + 1,
         NEW s \in sync(applied, physical, desired_watchpoints(Inserted(bp))),
         s.ok, Commit(s, Inserted(bp))
  PROVE  IInv'
<1> DEFINE bps == Inserted(bp)
<1> DEFINE desired == desired_watchpoints(bps)
<1>1. TypeOK /\ applied = physical
  BY DEF IInv, RegistryMirrorsEngine
<1>2. /\ DOMAIN bps = DOMAIN breakpoints \cup {next_id}
      /\ \A id \in DOMAIN bps : bps[id] \in Breakpoint
  BY <1>1, InsertedFacts
<1>3. desired \in SUBSET WatchpointKey
  BY <1>2, DesiredType
<1>4. IsFiniteSet(desired)
  BY <1>1, <1>2, TableFinite, FS_AddElement, DesiredFinite
<1> HIDE DEF bps, desired
<1>5. s \in sync(physical, physical, desired)
  BY <1>1 DEF bps, desired
<1>6. EngineOK(s.physical, watchpoint_adds', watchpoint_removes')
  BY <1>3, <1>4, <1>5, EngineFromInv, SyncEngine DEF Commit
<1>7. desired \subseteq s.physical /\ s.applied = s.physical
  BY <1>5, SyncFacts
<1>8. next_id' \in 1..(MaxId + 1) /\ DOMAIN bps \subseteq 1..(next_id' - 1)
  BY <1>1, <1>2, BreakpointConstants DEF TypeOK
<1> QED BY <1>2, <1>6, <1>7, <1>8, InvFromEngine DEF Commit, desired, bps

\* Failure: neither the failed sync nor the one after it takes away a key the
\* old table wants, because the old table's keys are desired in both.
LEMMA RegisterRollbackInv ==
  ASSUME IInv, NEW bp \in Breakpoint, next_id <= MaxId, next_id' = next_id + 1,
         NEW s1 \in sync(applied, physical, desired_watchpoints(Inserted(bp))),
         NEW s2 \in sync(s1.applied, s1.physical, desired_watchpoints(breakpoints)),
         Rollback(s1, s2)
  PROVE  IInv'
<1> DEFINE tried == desired_watchpoints(Inserted(bp))
<1> DEFINE old == desired_watchpoints(breakpoints)
<1>1. TypeOK /\ applied = physical /\ old \subseteq physical
  BY DEF IInv, RegistryMirrorsEngine, Armed
<1>2. /\ DOMAIN Inserted(bp) = DOMAIN breakpoints \cup {next_id}
      /\ \A id \in DOMAIN Inserted(bp) : Inserted(bp)[id] \in Breakpoint
      /\ old \subseteq tried
  BY <1>1, InsertedFacts
<1>3. tried \in SUBSET WatchpointKey /\ old \in SUBSET WatchpointKey
  BY <1>1, <1>2, DesiredType DEF TypeOK
<1>4. IsFiniteSet(tried) /\ IsFiniteSet(old)
  BY <1>1, <1>2, TableFinite, FS_AddElement, DesiredFinite
<1> HIDE DEF tried, old
<1>5. s1 \in sync(physical, physical, tried)
  BY <1>1 DEF tried
<1>6. s1.applied = s1.physical /\ old \subseteq s1.physical
  BY <1>1, <1>2, <1>5, SyncFacts
<1>7. s2 \in sync(s1.physical, s1.physical, old)
  BY <1>6 DEF old
<1>8. s2.applied = s2.physical /\ old \subseteq s2.physical
  BY <1>6, <1>7, SyncFacts
<1>9. EngineOK(s1.physical, watchpoint_adds + s1.added, watchpoint_removes + s1.removed)
  BY <1>3, <1>4, <1>5, EngineFromInv, SyncEngine
<1>10. EngineOK(s2.physical, watchpoint_adds', watchpoint_removes')
  BY <1>3, <1>4, <1>7, <1>9, SyncEngine DEF Rollback
<1>11. next_id' \in 1..(MaxId + 1) /\ DOMAIN breakpoints \subseteq 1..(next_id' - 1)
  BY <1>1, BreakpointConstants DEF TypeOK
<1> QED BY <1>1, <1>8, <1>10, <1>11, InvFromEngine DEF Rollback, old, TypeOK

\* A registration, committed or rolled back, keeps the invariant.
LEMMA RegisterInv ==
  ASSUME IInv, NEW bp \in Breakpoint, Register(bp)
  PROVE  IInv'
BY RegisterCommitInv, RegisterRollbackInv DEF Register

\* Every operation keeps the inductive invariant.
LEMMA NextInv == IInv /\ [Next]_vars => IInv'
<1> SUFFICES ASSUME IInv, [Next]_vars PROVE IInv'
  OBVIOUS
<1>1. CASE \E rg \in Requested, t \in RequestedTids : set_breakpoint(rg[1], t)
  BY <1>1, RequestType, RegisterInv DEF set_breakpoint
<1>2. CASE \E rg \in Requested, k \in BreakpointKind : set_data_breakpoint(rg[1], rg[2], k)
  BY <1>2, RequestType, RegisterInv DEF set_data_breakpoint
<1>3. CASE \E id \in DOMAIN breakpoints : remove_breakpoint(id)
  BY <1>3, RemoveInv DEF remove_breakpoint
<1>4. CASE \E rg \in Requested, k \in BreakpointKind :
             remove_breakpoint_exact(rg[1], rg[2], AccessMask(k))
  BY <1>4, RemoveInv DEF remove_breakpoint_exact
<1>5. CASE UNCHANGED vars
  BY <1>5 DEF vars, IInv, TypeOK, RegistryMirrorsEngine, Armed, RegisteredValid, StatsBalance
<1> QED BY <1>1, <1>2, <1>3, <1>4, <1>5 DEF Next

\* The inductive invariant holds in every reachable state.
THEOREM InvariantHolds == Spec => []IInv
BY InitInv, NextInv, PTL DEF Spec

\* Type correctness: ids stay below next_id, so no id is handed out twice.
THEOREM TypeCorrect == Spec => []TypeOK
<1>1. IInv => TypeOK
  BY DEF IInv
<1> QED BY <1>1, InvariantHolds, PTL

\* Whatever engine calls fail, in whatever combination, a breakpoint the
\* client was told is set stays physically registered until it is removed.
THEOREM AlwaysArmed == Spec => []Armed
<1>1. IInv => Armed
  BY DEF IInv
<1> QED BY <1>1, InvariantHolds, PTL

\* The registry never loses track of a watchpoint the engine still holds.
THEOREM RegistryExact == Spec => []RegistryMirrorsEngine
<1>1. IInv => RegistryMirrorsEngine
  BY DEF IInv
<1> QED BY <1>1, InvariantHolds, PTL

\* The watchpoint counters account for every registered watchpoint.
THEOREM StatsBalanced == Spec => []StatsBalance
<1>1. IInv => StatsBalance
  BY DEF IInv
<1> QED BY <1>1, InvariantHolds, PTL

----------------------------------------------------------------------------
(* From registered watchpoints to stops. *)

\* The addresses and sizes of a hit are numbers inside the address space.
LEMMA HitType ==
  ASSUME NEW h \in Hit
  PROVE  /\ h.addr \in 0..TopAddr /\ AtLeastOne(h.size) \in Nat \ {0}
         /\ h.thread \in DOMAIN Threads /\ Threads[h.thread].Id # 0
<1>1. /\ h.addr \in 0..TopAddr /\ h.size \in AccessSizes /\ h.thread \in DOMAIN Threads
  BY DEF Hit
<1>2. h.size \in Nat
  BY <1>1, BreakpointConstants
<1>3. Threads[h.thread] \in ThreadInfo
  BY <1>1, BreakpointConstants
<1> QED BY <1>1, <1>2, <1>3 DEF AtLeastOne, ThreadInfo

\* A breakpoint in the table has a range that add_watchpoint accepted.
LEMMA TableValid ==
  ASSUME IInv, NEW id \in DOMAIN breakpoints
  PROVE  LET bp == breakpoints[id] IN
         /\ bp \in Breakpoint /\ KeyOf(bp) \in physical
         /\ bp.addr \in Nat /\ bp.size \in Nat
         /\ bp.size >= 1 /\ bp.addr + bp.size <= TopAddr
<1> DEFINE bp == breakpoints[id]
<1>1. bp \in Breakpoint /\ KeyOf(bp) \in physical
  BY DEF IInv, TypeOK, Armed, desired_watchpoints
<1>2. valid_watchpoint_range(bp.addr, bp.size)
  BY <1>1 DEF IInv, RegisteredValid, KeyOf
<1>3. bp.addr \in Nat /\ bp.size \in Nat
  BY <1>1, BreakpointConstants DEF Breakpoint
<1> QED BY <1>1, <1>2, <1>3 DEF valid_watchpoint_range

\* On registered ranges the saturating comparison of the callback is exactly
\* byte-range overlap, up to the top of the address space.
LEMMA MatchIsOverlap ==
  ASSUME NEW a \in Nat, NEW n \in Nat, n >= 1, a + n <= TopAddr,
         NEW b \in 0..TopAddr, NEW m \in Nat \ {0}
  PROVE  (b < saturating_add(a, n) /\ a < saturating_add(b, m))
           <=> Bytes(a, n) \cap Bytes(b, m) # {}
<1>1. TopAddr \in Nat
  BY BreakpointConstants
<1>2. saturating_add(a, n) = a + n
  BY <1>1 DEF saturating_add
<1>3. ASSUME b < a + n, a < saturating_add(b, m)
      PROVE  Bytes(a, n) \cap Bytes(b, m) # {}
  <2>1. a < b + m
    BY <1>1, <1>3 DEF saturating_add
  <2>2. CASE a <= b
    <3>1. b \in a..(a + n - 1) /\ b \in b..(b + m - 1)
      BY <1>3, <2>2
    <3> QED BY <3>1 DEF Bytes
  <2>3. CASE b <= a
    <3>1. a \in a..(a + n - 1) /\ a \in b..(b + m - 1)
      BY <2>1, <2>3
    <3> QED BY <3>1 DEF Bytes
  <2> QED BY <2>2, <2>3
<1>4. ASSUME NEW x \in Bytes(a, n) \cap Bytes(b, m)
      PROVE  b < a + n /\ a < saturating_add(b, m)
  <2>1. x \in Int /\ a <= x /\ x <= a + n - 1 /\ b <= x /\ x <= b + m - 1
    BY <1>4 DEF Bytes
  <2> QED BY <1>1, <2>1 DEF saturating_add
<1> QED BY <1>2, <1>3, <1>4

\* find_by_watchpoint_hit_and_thread returns 0 or a breakpoint that matches the hit.
LEMMA FindFacts ==
  ASSUME IInv, NEW h \in Hit
  PROVE  LET own == Candidates(h, Threads[h.thread].Id)
             any == Candidates(h, 0)
             f   == find_by_watchpoint_hit_and_thread(h)
         IN  /\ f # 0 => f \in own \cup any
             /\ own \cup any # {} => f # 0
<1> DEFINE own == Candidates(h, Threads[h.thread].Id)
<1> DEFINE any == Candidates(h, 0)
<1>1. own \subseteq DOMAIN breakpoints /\ any \subseteq DOMAIN breakpoints
  BY DEF Candidates
<1>2. DOMAIN breakpoints \subseteq Nat /\ 0 \notin DOMAIN breakpoints
  BY BreakpointConstants DEF IInv, TypeOK
<1>3. own # {} => Min(own) \in own
  BY <1>1, <1>2, MinOfIds
<1>4. any # {} => Min(any) \in any
  BY <1>1, <1>2, MinOfIds
<1>5. find_by_watchpoint_hit_and_thread(h) =
        IF own # {} THEN Min(own) ELSE IF any # {} THEN Min(any) ELSE 0
  BY DEF find_by_watchpoint_hit_and_thread
<1> HIDE DEF own, any
<1>6. LET f == find_by_watchpoint_hit_and_thread(h)
      IN  (f # 0 => f \in own \cup any) /\ (own \cup any # {} => f # 0)
  BY <1>1, <1>2, <1>3, <1>4, <1>5
<1> QED BY <1>6 DEF own, any

\* A registered watchpoint fires and the callback finds a breakpoint.
LEMMA InvMissesNothing == IInv => NoMissedStop
<1> SUFFICES ASSUME IInv, NEW h \in Hit, NEW id \in DOMAIN breakpoints,
                    CoversThread(breakpoints[id], h)
             PROVE  Stops(h)
  BY DEF NoMissedStop
<1> DEFINE bp == breakpoints[id]
<1> DEFINE n == AtLeastOne(h.size)
<1>1. /\ bp \in Breakpoint /\ KeyOf(bp) \in physical /\ bp.addr \in Nat /\ bp.size \in Nat
      /\ bp.size >= 1 /\ bp.addr + bp.size <= TopAddr
  BY TableValid
<1>2. h.addr \in 0..TopAddr /\ n \in Nat \ {0} /\ Threads[h.thread].Id # 0
  BY HitType
<1>3. /\ bp.access \cap h.access # {}
      /\ IF bp.kind = "Execute" THEN h.addr = bp.addr
         ELSE Bytes(bp.addr, bp.size) \cap Bytes(h.addr, n) # {}
      /\ bp.thread_id \in {0, Threads[h.thread].Id}
      /\ uid_for_os_tid(bp.thread_id) \in {0, Threads[h.thread].UniqueId}
  BY DEF CoversThread, Covers
<1> HIDE DEF n, bp
<1>4. Bytes(bp.addr, bp.size) \cap Bytes(h.addr, n) # {}
  <2>1. CASE bp.kind = "Execute"
    <3>1. bp.addr \in Bytes(bp.addr, bp.size) /\ bp.addr \in Bytes(h.addr, n)
      BY <1>1, <1>2, <1>3, <2>1 DEF Bytes
    <3> QED BY <3>1
  <2> QED BY <1>3, <2>1
<1>5. Fires(KeyOf(bp), h)
  BY <1>3, <1>4 DEF Fires, KeyOf, n
<1>6. matches_addr(bp, h)
  BY <1>1, <1>2, <1>3, MatchIsOverlap DEF matches_addr, n
<1>7. id \in Candidates(h, Threads[h.thread].Id) \cup Candidates(h, 0)
  BY <1>3, <1>6 DEF Candidates, bp
<1> QED BY <1>1, <1>5, <1>7, FindFacts DEF Stops

\* The breakpoint that the callback finds covers the access.
LEMMA InvStopsForBreakpoints == IInv => NoSpuriousStop
<1> SUFFICES ASSUME IInv, NEW h \in Hit, Stops(h)
             PROVE  Covers(breakpoints[find_by_watchpoint_hit_and_thread(h)], h)
  BY DEF NoSpuriousStop
<1> DEFINE id == find_by_watchpoint_hit_and_thread(h)
<1> DEFINE bp == breakpoints[id]
<1> DEFINE n == AtLeastOne(h.size)
<1>1. id \in Candidates(h, Threads[h.thread].Id) \cup Candidates(h, 0)
  BY FindFacts DEF Stops
<1>2. /\ id \in DOMAIN breakpoints /\ matches_addr(bp, h)
      /\ bp.thread_id \in {0, Threads[h.thread].Id}
  BY <1>1 DEF Candidates
<1>3. /\ bp.addr \in Nat /\ bp.size \in Nat
      /\ bp.size >= 1 /\ bp.addr + bp.size <= TopAddr
  BY <1>2, TableValid
<1>4. h.addr \in 0..TopAddr /\ n \in Nat \ {0}
  BY HitType
<1> HIDE DEF bp, n
<1> QED BY <1>2, <1>3, <1>4, MatchIsOverlap DEF Covers, matches_addr, bp, n

\* Every access that touches an acknowledged breakpoint stops replay.
THEOREM NothingMissed == Spec => []NoMissedStop
BY InvMissesNothing, InvariantHolds, PTL

\* Replay stops only for an access that some breakpoint in the table covers.
THEOREM NothingSpurious == Spec => []NoSpuriousStop
BY InvStopsForBreakpoints, InvariantHolds, PTL

----------------------------------------------------------------------------
(* The layer implements ClientBreakpoints. *)

\* Where the inductive invariant holds, replay stops where the client's set of
\* requests says.
LEMMA InvMatches == IInv => Client!StopsMatch
<1> SUFFICES ASSUME IInv PROVE Client!StopsMatch
  OBVIOUS
<1>1. ASSUME NEW r \in Wanted PROVE MustStopAt(r) \subseteq Stopping
  BY <1>1, InvMissesNothing DEF Wanted, MustStopAt, Stopping, NoMissedStop
<1>2. ASSUME NEW h \in Stopping PROVE \E r \in Wanted : h \in MayStopAt(r)
  <2>1. h \in Hit /\ Stops(h)
    BY <1>2 DEF Stopping
  <2> DEFINE id == find_by_watchpoint_hit_and_thread(h)
  <2>2. id \in DOMAIN breakpoints
    BY <2>1, FindFacts DEF Stops, Candidates
  <2>3. Covers(breakpoints[id], h)
    BY <2>1, InvStopsForBreakpoints DEF NoSpuriousStop
  <2> QED BY <2>1, <2>2, <2>3 DEF Wanted, MayStopAt
<1> QED BY <1>1, <1>2 DEF Client!StopsMatch

\* An insertion adds one request, or is rejected and leaves the set alone.
LEMMA RegisterView ==
  ASSUME IInv, NEW bp \in Breakpoint, Register(bp)
  PROVE  Wanted' = Wanted \cup {bp} \/ Wanted' = Wanted
<1>1. CASE breakpoints' = Inserted(bp)
  <2>1. next_id \notin DOMAIN breakpoints
    BY BreakpointConstants DEF IInv, TypeOK
  <2>2. /\ DOMAIN Inserted(bp) = DOMAIN breakpoints \cup {next_id}
        /\ \A id \in DOMAIN breakpoints : Inserted(bp)[id] = breakpoints[id]
        /\ Inserted(bp)[next_id] = bp
    BY <2>1 DEF Inserted
  <2>3. Wanted' = {Inserted(bp)[id] : id \in DOMAIN Inserted(bp)}
    BY <1>1 DEF Wanted
  <2> QED BY <2>2, <2>3 DEF Wanted
<1>2. CASE breakpoints' = breakpoints
  BY <1>2 DEF Wanted
<1> QED BY <1>1, <1>2 DEF Register, Commit, Rollback

\* A removal keeps exactly the requests of the ids that stay.
LEMMA RemoveView ==
  ASSUME NEW ids, RemoveIds(ids)
  PROVE  Wanted' = {breakpoints[id] : id \in DOMAIN breakpoints \ ids}
<1>1. breakpoints' = Without(ids)
  BY DEF RemoveIds, Commit
<1>2. /\ DOMAIN Without(ids) = DOMAIN breakpoints \ ids
      /\ \A id \in DOMAIN breakpoints \ ids : Without(ids)[id] = breakpoints[id]
  BY DEF Without
<1>3. Wanted' = {Without(ids)[id] : id \in DOMAIN Without(ids)}
  BY <1>1 DEF Wanted
<1> QED BY <1>2, <1>3

\* Every operation is one the client knows, or invisible to it.
LEMMA ClientStep == IInv /\ IInv' /\ [Next]_vars => [Client!Next]_(Client!vars)
<1> SUFFICES ASSUME IInv, IInv', [Next]_vars PROVE [Client!Next]_(Client!vars)
  OBVIOUS
<1>1. Client!StopsMatch'
  BY InvMatches, PTL
<1>2. ASSUME Wanted' = Wanted PROVE Client!Next
  BY <1>1, <1>2 DEF Client!Next, Client!Reject
<1>3. ASSUME NEW bp \in Breakpoint, bp \in ClientRequest, Register(bp) PROVE Client!Next
  BY <1>1, <1>2, <1>3, RegisterView DEF Client!Next, Client!Insert
<1>4. CASE \E rg \in Requested, t \in RequestedTids : set_breakpoint(rg[1], t)
  <2>1. PICK rg \in Requested, t \in RequestedTids : set_breakpoint(rg[1], t)
    BY <1>4
  <2>2. NewBreakpoint(rg[1], 1, "Execute", t) \in Breakpoint \cap ClientRequest
    BY RequestType DEF ClientRequest
  <2> QED BY <1>3, <2>1, <2>2 DEF set_breakpoint
<1>5. CASE \E rg \in Requested, k \in BreakpointKind : set_data_breakpoint(rg[1], rg[2], k)
  <2>1. PICK rg \in Requested, k \in BreakpointKind : set_data_breakpoint(rg[1], rg[2], k)
    BY <1>5
  <2>2. NewBreakpoint(rg[1], rg[2], k, 0) \in Breakpoint \cap ClientRequest
    BY RequestType DEF ClientRequest
  <2> QED BY <1>3, <2>1, <2>2 DEF set_data_breakpoint
<1>6. CASE \E id \in DOMAIN breakpoints : remove_breakpoint(id)
  <2>1. PICK id \in DOMAIN breakpoints : RemoveIds({id})
    BY <1>6 DEF remove_breakpoint
  <2>2. Wanted' = {breakpoints[j] : j \in DOMAIN breakpoints \ {id}}
    BY <2>1, RemoveView
  <2>3. CASE \E j \in DOMAIN breakpoints \ {id} : breakpoints[j] = breakpoints[id]
    <3>1. Wanted' = Wanted
      BY <2>2, <2>3 DEF Wanted
    <3> QED BY <1>2, <3>1
  <2>4. CASE \A j \in DOMAIN breakpoints \ {id} : breakpoints[j] # breakpoints[id]
    <3>1. breakpoints[id] \in Wanted /\ Wanted' = Wanted \ {breakpoints[id]}
      BY <2>2, <2>4 DEF Wanted
    <3> QED BY <1>1, <3>1 DEF Client!Next, Client!DeleteOne
  <2> QED BY <2>3, <2>4
<1>7. CASE \E rg \in Requested, k \in BreakpointKind :
             remove_breakpoint_exact(rg[1], rg[2], AccessMask(k))
  <2>1. PICK rg \in Requested, k \in BreakpointKind :
               remove_breakpoint_exact(rg[1], rg[2], AccessMask(k))
    BY <1>7
  <2> DEFINE ids == ExactIds(rg[1], rg[2], AccessMask(k))
  <2> DEFINE t == <<rg[1], rg[2], AccessMask(k)>>
  <2>2. Wanted' = {breakpoints[id] : id \in DOMAIN breakpoints \ ids}
    BY <2>1, RemoveView DEF remove_breakpoint_exact
  <2>3. \A id \in DOMAIN breakpoints : id \in ids <=> NamesRequest(t, breakpoints[id])
    BY DEF ExactIds, NamesRequest
  <2>4. t \in Triples
    BY DEF Triples
  <2> HIDE DEF ids, t
  <2>5. Wanted' = {r \in Wanted : ~NamesRequest(t, r)}
    BY <2>2, <2>3 DEF Wanted
  <2> QED BY <1>1, <2>4, <2>5 DEF Client!Next, Client!Delete
<1>8. CASE UNCHANGED vars
  BY <1>2, <1>8 DEF vars, Wanted
<1> QED BY <1>4, <1>5, <1>6, <1>7, <1>8 DEF Next

\* The layer implements ClientBreakpoints: whatever engine calls fail, the
\* client sees a set of requests that its own packets change one at a time.
THEOREM ClientViewHolds == Spec => ClientView
<1>1. Init => Client!Init
  <2> SUFFICES ASSUME Init PROVE Wanted = {} /\ Client!StopsMatch
    BY DEF Client!Init
  <2>1. Wanted = {}
    BY DEF Init, Wanted
  <2> QED BY <2>1, InitInv, InvMatches
<1>2. IInv /\ IInv' /\ [Next]_vars => [Client!Next]_(Client!vars)
  BY ClientStep
<1> QED
  BY InvariantHolds, <1>1, <1>2, PTL DEF Spec, ClientView, Client!Spec

============================================================================
