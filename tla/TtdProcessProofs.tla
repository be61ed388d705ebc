-------------------------- MODULE TtdProcessProofs --------------------------
(* Proofs about the cursor cache and the stop classification, for every    *)
(* trace: any set of positions, any rounding, any sequence of engine       *)
(* events and failures.                                                    *)
EXTENDS TtdProcess, WellFoundedInduction, TLAPS

\* The loops know where they are: a range step runs forward.
LoopInv == pc = "Range" => forward

\* An operation that went well leaves the engine's thread selected, and a reply
\* names the selected thread.
ThreadInv ==
  /\ stop \notin {"none", "Err", "Interrupted"} /\ ThreadAt[position] # 0
       => current_thread = ThreadAt[position]
  /\ reported # 0 => pc = "Idle" /\ (current_thread # 0 => reported = current_thread)

\* The one seek of a stop left the persistent cursor at the debug position.
SeekInv == pc # "Replay" => seeks <= 1 /\ (seeks = 1 => at["persistent"] = position)

IInv == TypeOK /\ CacheHonest /\ LoopInv /\ BoundaryHonest /\ ThreadInv /\ SeekInv

----------------------------------------------------------------------------
(* Facts about one cursor. *)

\* PositionedCursor::prepare leaves the cursor on a position of the trace and
\* notes it.
LEMMA PreparedTypes ==
  ASSUME TypeOK, NEW c \in Cursors, NEW p \in 0..LastPos
  PROVE  prepare(c, p).at \in Valid \cup {Unknown} /\ prepare(c, p).real \in Valid
BY TraceConstants DEF TypeOK, prepare

\* After prepare the cache and the engine agree if they agreed before.
LEMMA PreparedHonest ==
  ASSUME TypeOK, NEW c \in Cursors, NEW p \in 0..LastPos,
         at[c] # Unknown => at[c] = real[c]
  PROVE  prepare(c, p).at = prepare(c, p).real
BY TraceConstants DEF TypeOK, prepare, Unknown

\* A cursor that is prepared for a position of the trace stands on it.
LEMMA PreparedAt ==
  ASSUME TypeOK, NEW c \in Cursors, NEW p \in Valid,
         at[c] # Unknown => at[c] = real[c]
  PROVE  prepare(c, p).real = p
BY TraceConstants DEF TypeOK, prepare, Unknown

\* The positions of a trace lie in its lifetime; None is not one of them.
LEMMA ValidInLifetime == Valid \subseteq 0..LastPos /\ Unknown \notin Valid
BY TraceConstants DEF Unknown

----------------------------------------------------------------------------
(* Type correctness. *)

\* The outcomes of the two classifications are stop reasons.
LEMMA ReasonTypes ==
  ASSUME NEW e, NEW h \in BOOLEAN, NEW fwd \in BOOLEAN, NEW p
  PROVE  OrElse(classify(e, h, fwd, p), try_from(e)) \in StopReasons
BY DEF OrElse, classify, try_from, StopReasons

\* What a step of the step cursor leaves behind.
StepTypesHold ==
  /\ position' \in Valid /\ current_thread' \in Nat
  /\ at' \in [Cursors -> Valid \cup {Unknown}] /\ real' \in [Cursors -> Valid]
  /\ stop' \in StopReasons /\ seeks' = 0
  /\ event' \in StepEvents \cup ReplayEvents \cup {"none", "failure"}

\* A step of the step cursor, successful or not, keeps the types.
LEMMA StepTypes ==
  ASSUME TypeOK, NEW fwd \in BOOLEAN, NEW p \in Valid, NEW tid \in Nat,
         (\E e \in StepEvents : StepLands(fwd, p, e, tid)) \/ StepFails(fwd, p, tid)
  PROVE  StepTypesHold
<1> USE TraceConstants DEF TypeOK, Moved, Invalidated, Cursors, StepThread, StepTypesHold
<1>1. ASSUME NEW e \in StepEvents, StepLands(fwd, p, e, tid) PROVE StepTypesHold
  <2>1. stop' \in StopReasons
    BY <1>1, ReasonTypes DEF StepLands, StopReasons
  <2> QED
    BY <1>1, <2>1 DEF StepLands
<1>2. CASE StepFails(fwd, p, tid)
  BY <1>2 DEF StepFails, StopReasons
<1> QED
  BY <1>1, <1>2

\* The initial thread is one of the trace's, or none.
LEMMA FirstTidTypes == first_os_tid \in Nat
BY TraceConstants DEF first_os_tid

\* The thread whose PC a range step reads is a thread id, or 0.
LEMMA RangeTidTypes ==
  ASSUME NEW tid \in Nat, NEW current \in Nat
  PROVE  resolve_step_range_tid(tid, current) \in Nat
BY DEF resolve_step_range_tid

\* A set of numbers that is not empty has a least element.
LEMMA LeastNumber ==
  ASSUME NEW S, S \subseteq Nat, S # {}
  PROVE  Min(S) \in S
<1> DEFINE Less == {ss \in Nat \X Nat : ss[1] < ss[2]}
<1>1. IsWellFoundedOn(Less, Nat)
  BY NatLessThanWellFounded DEF OpToRel
<1> HIDE DEF Less
<1>2. PICK x \in S : \A y \in S : ~ (<<y, x>> \in Less)
  BY <1>1, WFMin
<1>3. \A y \in S : x <= y
  <2> SUFFICES ASSUME NEW y \in S, y < x PROVE FALSE
    OBVIOUS
  <2>1. <<y, x>> \in Nat \X Nat /\ <<y, x>>[1] < <<y, x>>[2]
    OBVIOUS
  <2> QED
    BY <1>2, <2>1 DEF Less
<1> QED
  BY <1>3 DEF Min

\* A stop reply always names a thread: 0 is no thread id on the wire.
LEMMA StopTidTypes ==
  ASSUME TypeOK
  PROVE  stop_tid \in Nat \ {0} /\ (current_thread # 0 => stop_tid = current_thread)
<1>1. Active[position] \in Seq(Nat)
  BY TraceConstants DEF TypeOK
<1>2. active_thread_ids(position) \subseteq Nat
  BY <1>1 DEF active_thread_ids
<1>3. ASSUME active_thread_ids(position) # {}
      PROVE  Min(active_thread_ids(position)) \in active_thread_ids(position)
  BY <1>2, <1>3, LeastNumber
<1>4. ASSUME NEW i \in active_thread_ids(position) PROVE Active[position][i] \in Nat \ {0}
  BY <1>1 DEF active_thread_ids
<1>5. CASE current_thread # 0
  BY <1>5 DEF stop_tid, TypeOK
<1>6. CASE current_thread = 0 /\ active_thread_ids(position) = {}
  BY <1>6 DEF stop_tid
<1>7. CASE current_thread = 0 /\ active_thread_ids(position) # {}
  BY <1>3, <1>4, <1>7 DEF stop_tid
<1> QED
  BY <1>5, <1>6, <1>7

\* Every operation keeps the types.
LEMMA TypeStep == TypeOK /\ [Next]_vars => TypeOK'
<1> SUFFICES ASSUME TypeOK, [Next]_vars PROVE TypeOK'
  OBVIOUS
<1> USE TraceConstants, ValidInLifetime
<1>1. CASE Query
  BY <1>1, PreparedTypes DEF Query, at_position, TypeOK, Cursors, outcome, reply
<1>2. ASSUME NEW request \in Requests, GoTo(request) PROVE TypeOK'
  <2>1. clamp(request) \in 0..LastPos
    BY <1>2 DEF clamp, Requests
  <2>2. prepare("persistent", clamp(request)).real \in Valid
    BY <2>1, PreparedTypes DEF Cursors
  <2> QED
    BY <1>2, <2>2 DEF GoTo, TypeOK, Moved, Cursors, StopReasons
<1>3. CASE PositionStop
  BY <1>3 DEF PositionStop, TypeOK, cursors, outcome
<1>4. ASSUME NEW fwd \in BOOLEAN, continue(fwd) PROVE TypeOK'
  <2>1. prepare("persistent", position).at \in Valid \cup {Unknown}
        /\ prepare("persistent", position).real \in Valid
    BY PreparedTypes DEF Cursors, TypeOK
  <2>2. seeks' \in Nat
    BY <1>4 DEF continue, at_position, TypeOK
  <2> QED
    BY <1>4, <2>1, <2>2 DEF continue, at_position, TypeOK, Cursors, StopReasons
<1>5. ASSUME NEW p \in Valid, NEW e \in ReplayEvents, ReplayGoesOn(p, e) PROVE TypeOK'
  BY <1>5 DEF ReplayGoesOn, TypeOK, Cursors, outcome, reply
<1>6. ASSUME NEW p \in Valid, NEW e \in ReplayEvents, ReplayStops(p, e) PROVE TypeOK'
  <2>1. stop' \in StopReasons
    BY <1>6, ReasonTypes DEF ReplayStops, TypeOK
  <2> QED
    BY <1>6, <2>1 DEF ReplayStops, TypeOK, Moved, Cursors, reply
<1>7. ASSUME NEW p \in Valid, ReplayFails(p) PROVE TypeOK'
  BY <1>7 DEF ReplayFails, TypeOK, Invalidated, Cursors, StopReasons, reply
<1>8. CASE Interrupt
  BY <1>8 DEF Interrupt, TypeOK, cursors, outcome, reply
<1>9. ASSUME NEW fwd \in BOOLEAN, NEW p \in Valid, NEW tid \in Tids, step(fwd, p, tid) PROVE TypeOK'
  <2>1. tid \in Nat
    OBVIOUS
  <2>2. StepTypesHold
    BY <1>9, <2>1, StepTypes DEF step
  <2> QED
    BY <1>9, <2>2 DEF step, TypeOK, StepTypesHold
<1>10. ASSUME NEW tid \in Tids, step_range(tid) PROVE TypeOK'
  BY <1>10, RangeTidTypes DEF step_range, TypeOK, cursors, StopReasons
<1>11. CASE RangeInterrupted
  BY <1>11 DEF RangeInterrupted, TypeOK, cursors, StopReasons, ReplayEvents, reply
<1>12. ASSUME NEW p \in Valid, NEW inside \in BOOLEAN, RangeStep(p, inside) PROVE TypeOK'
  <2>1. current_thread \in Nat
    BY DEF TypeOK
  <2>2. StepTypesHold
    BY <1>12, <2>1, StepTypes DEF RangeStep
  <2> QED
    BY <1>12, <2>2 DEF RangeStep, TypeOK, reply, StepTypesHold
<1>13. CASE Report
  BY <1>13, PreparedTypes, StopTidTypes DEF Report, at_position, cursors, TypeOK, Cursors, outcome
<1>14. CASE UNCHANGED vars
  BY <1>14 DEF vars, TypeOK
<1> QED
  BY <1>1, <1>2, <1>3, <1>4, <1>5, <1>6, <1>7, <1>8, <1>9, <1>10, <1>11, <1>12, <1>13, <1>14
  DEF Next, Progress

----------------------------------------------------------------------------
(* The cache and the classification. *)

\* One step of step_on_step_cursor, wherever it is called from.
LEMMA StepHonest ==
  ASSUME TypeOK, CacheHonest, NEW fwd \in BOOLEAN, NEW p \in Valid, NEW tid \in Nat,
         (\E e \in StepEvents : StepLands(fwd, p, e, tid)) \/ StepFails(fwd, p, tid)
  PROVE  /\ at'["step"] # Unknown => at'["step"] = real'["step"]
         /\ at'["persistent"] = at["persistent"] /\ real'["persistent"] = real["persistent"]
BY DEF TypeOK, CacheHonest, StepLands, StepFails, Moved, Invalidated, Cursors

\* What BoundaryHonest says of one stop: direction, position, reason and event.
HonestStop(fwd, p, reason, e) ==
  LET boundary == IF fwd THEN p = LastPos ELSE p = 0 IN
    /\ reason = "TraceStart" => ~fwd /\ boundary
    /\ reason = "ProcessExit" => fwd /\ boundary /\ (ExitsAtEnd \/ e = "Process")
    /\ reason = "TraceEnd" => e = "Thread" \/ (fwd /\ boundary /\ ~ExitsAtEnd)
    /\ boundary /\ e # "none" => reason \notin {"StepComplete", "PositionReached", "Exception"}
    /\ e \in {"Error", "Unknown"} => reason = "Err" \/ boundary

\* Every operation has one stop to be honest about.
LEMMA BoundaryIsHonestStop ==
  BoundaryHonest <=> (pc \in {"Idle", "Report"} => HonestStop(forward, position, stop, event))
BY DEF BoundaryHonest, HonestStop, AtBoundary

\* classify_continue_stop, with try_from behind it, is honest about every event; the
\* exit of the process only comes from a step out of the lifetime.
LEMMA ClassifyHonest ==
  ASSUME NEW fwd \in BOOLEAN, NEW p \in Valid, NEW e, NEW h \in BOOLEAN,
         e = "Process" => LeavesTrace(p, fwd), h => e \notin {"Error", "Unknown"}
  PROVE  HonestStop(fwd, p, OrElse(classify(e, h, fwd, p), try_from(e)), e)
<1> DEFINE reason == OrElse(classify(e, h, fwd, p), try_from(e))
           boundary == IF fwd THEN p = LastPos ELSE p = 0
<1>1. p \in 0..LastPos /\ LastPos \in Nat /\ ExitsAtEnd \in BOOLEAN
  BY ValidInLifetime, TraceConstants
<1>2. CASE h
  <2>1. reason = "Breakpoint"
    BY <1>2 DEF OrElse, classify
  <2> QED BY <1>2, <2>1 DEF HonestStop
<1>3. CASE ~h /\ boundary
  <2>1. reason \in {"ProcessExit", "TraceStart", "TraceEnd"}
    BY <1>1, <1>3 DEF OrElse, classify
  <2>2. /\ reason = "TraceStart" => ~fwd
        /\ reason = "ProcessExit" => fwd /\ (ExitsAtEnd \/ e = "Process")
        /\ reason = "TraceEnd" => fwd /\ ~ExitsAtEnd
    BY <1>1, <1>3 DEF OrElse, classify
  <2> HIDE DEF reason
  <2>3. HonestStop(fwd, p, reason, e)
    BY <1>3, <2>1, <2>2 DEF HonestStop
  <2> QED BY <2>3 DEF reason
<1>4. CASE ~h /\ ~boundary
  <2>1. e # "Process"
    BY <1>4 DEF LeavesTrace
  <2>2. reason = try_from(e)
    BY <1>1, <1>4, <2>1 DEF OrElse, classify
  <2>3. try_from(e) # "TraceStart" /\ (try_from(e) = "TraceEnd" => e = "Thread")
    BY DEF try_from
  <2>4. e \in {"Error", "Unknown"} => try_from(e) = "Err"
    BY DEF try_from
  <2>5. try_from(e) = "ProcessExit" => e = "Process"
    BY DEF try_from
  <2> QED BY <1>4, <2>1, <2>2, <2>3, <2>4, <2>5 DEF HonestStop
<1> QED BY <1>2, <1>3, <1>4

\* A step out of the lifetime stays on its boundary.
LEMMA BoundaryStays ==
  ASSUME NEW fwd \in BOOLEAN, NEW from \in Valid, LeavesTrace(from, fwd), NEW p \in Neighbour(from, fwd)
  PROVE  p = from
<1>1. Valid \subseteq 0..LastPos /\ LastPos \in Nat
  BY TraceConstants
<1>2. Reach(from, fwd) \ {from} = {}
  <2>1. CASE fwd
    <3>1. from = LastPos /\ Reach(from, fwd) = {v \in Valid : v >= LastPos}
      BY <2>1 DEF Reach, LeavesTrace
    <3>2. ASSUME NEW v \in Valid, v >= LastPos PROVE v = LastPos
      BY <1>1, <3>2
    <3> QED BY <3>1, <3>2
  <2>2. CASE ~fwd
    <3>1. from = 0 /\ Reach(from, fwd) = {v \in Valid : v <= 0}
      BY <2>2 DEF Reach, LeavesTrace
    <3>2. ASSUME NEW v \in Valid, v <= 0 PROVE v = 0
      BY <1>1, <3>2
    <3> QED BY <3>1, <3>2
  <2> QED BY <2>1, <2>2
<1> QED BY <1>2 DEF Neighbour

\* The stop a step reports says nothing false about the trace boundary.
LEMMA StepBoundary ==
  ASSUME TypeOK, NEW fwd \in BOOLEAN, NEW p \in Valid, NEW tid \in Nat,
         (\E e \in StepEvents : StepLands(fwd, p, e, tid)) \/ StepFails(fwd, p, tid)
  PROVE  HonestStop(fwd, position', stop', event')
<1>1. ASSUME NEW e \in StepEvents, StepLands(fwd, p, e, tid)
      PROVE  HonestStop(fwd, position', stop', event')
  <2> DEFINE from == prepare("step", position).real
  <2>1. /\ p \in Neighbour(from, fwd) /\ (e = "Process" => LeavesTrace(from, fwd))
        /\ position' = p /\ event' = e
        /\ stop' = IF try_from(e) = "Err" THEN "Err" ELSE OrElse(classify(e, FALSE, fwd, p), try_from(e))
    BY <1>1 DEF StepLands
  <2>2. from \in Valid
    BY PreparedTypes, ValidInLifetime DEF TypeOK, Cursors
  <2>3. e = "Process" => LeavesTrace(p, fwd)
    BY <2>1, <2>2, BoundaryStays
  <2>4. HonestStop(fwd, p, OrElse(classify(e, FALSE, fwd, p), try_from(e)), e)
    BY <2>3, ClassifyHonest
  <2>5. HonestStop(fwd, p, "Err", e)
    BY DEF HonestStop
  <2> QED BY <2>1, <2>4, <2>5
<1>2. CASE StepFails(fwd, p, tid)
  BY <1>2 DEF StepFails, HonestStop
<1> QED
  BY <1>1, <1>2

\* Every operation leaves each cached position equal to the cursor it describes.
LEMMA CacheStep == IInv /\ [Next]_vars => (CacheHonest /\ LoopInv)'
<1> SUFFICES ASSUME IInv, [Next]_vars PROVE (CacheHonest /\ LoopInv)'
  OBVIOUS
<1> USE TraceConstants, ValidInLifetime DEF CacheHonest, LoopInv, IInv, TypeOK, Cursors
<1>1. CASE Query
  BY <1>1, PreparedHonest DEF Query, at_position, outcome
<1>2. ASSUME NEW request \in Requests, GoTo(request) PROVE (CacheHonest /\ LoopInv)'
  BY <1>2 DEF GoTo, Moved
<1>3. CASE PositionStop
  BY <1>3 DEF PositionStop, cursors, outcome
<1>4. ASSUME NEW fwd \in BOOLEAN, continue(fwd) PROVE (CacheHonest /\ LoopInv)'
  BY <1>4 DEF continue, at_position
<1>5. ASSUME NEW p \in Valid, NEW e \in ReplayEvents, ReplayGoesOn(p, e)
      PROVE  (CacheHonest /\ LoopInv)'
  BY <1>5 DEF ReplayGoesOn, outcome
<1>6. ASSUME NEW p \in Valid, NEW e \in ReplayEvents, ReplayStops(p, e)
      PROVE  (CacheHonest /\ LoopInv)'
  BY <1>6 DEF ReplayStops, Moved
<1>7. ASSUME NEW p \in Valid, ReplayFails(p) PROVE (CacheHonest /\ LoopInv)'
  BY <1>7 DEF ReplayFails, Invalidated
<1>8. CASE Interrupt
  BY <1>8 DEF Interrupt, cursors, outcome
<1>9. ASSUME NEW fwd \in BOOLEAN, NEW p \in Valid, NEW tid \in Tids, step(fwd, p, tid) PROVE (CacheHonest /\ LoopInv)'
  BY <1>9, StepHonest DEF step
<1>10. ASSUME NEW tid \in Tids, step_range(tid) PROVE (CacheHonest /\ LoopInv)'
  BY <1>10 DEF step_range, cursors
<1>11. CASE RangeInterrupted
  BY <1>11 DEF RangeInterrupted, cursors
<1>12. ASSUME NEW p \in Valid, NEW inside \in BOOLEAN, RangeStep(p, inside)
       PROVE  (CacheHonest /\ LoopInv)'
  BY <1>12, StepHonest DEF RangeStep
<1>13. CASE Report
  BY <1>13, PreparedHonest DEF Report, at_position, cursors, outcome
<1>14. CASE UNCHANGED vars
  BY <1>14 DEF vars
<1> QED
  BY <1>1, <1>2, <1>3, <1>4, <1>5, <1>6, <1>7, <1>8, <1>9, <1>10, <1>11, <1>12, <1>13, <1>14
  DEF Next, Progress

\* No operation reports a boundary that is not there.
LEMMA BoundaryStep == IInv /\ [Next]_vars => BoundaryHonest'
<1> SUFFICES ASSUME IInv, [Next]_vars PROVE BoundaryHonest'
  OBVIOUS
<1> USE TraceConstants DEF IInv
<1>0. /\ BoundaryHonest' <=> (pc' \in {"Idle", "Report"} => HonestStop(forward', position', stop', event'))
      /\ UNCHANGED <<pc, forward, position, stop, event>> => BoundaryHonest'
  BY BoundaryIsHonestStop DEF BoundaryHonest, HonestStop, AtBoundary
<1>1. CASE Query
  BY <1>0, <1>1 DEF Query, outcome
<1>2. ASSUME NEW request \in Requests, GoTo(request) PROVE BoundaryHonest'
  BY <1>0, <1>2 DEF GoTo, HonestStop
<1>3. CASE PositionStop
  <2>1. pc = "Idle" /\ UNCHANGED <<forward, position, stop, event>>
    BY <1>3 DEF PositionStop, outcome
  <2> QED BY <1>0, <2>1, BoundaryIsHonestStop
<1>4. ASSUME NEW fwd \in BOOLEAN, continue(fwd) PROVE BoundaryHonest'
  BY <1>0, <1>4 DEF continue
<1>5. ASSUME NEW p \in Valid, NEW e \in ReplayEvents, ReplayGoesOn(p, e) PROVE BoundaryHonest'
  BY <1>0, <1>5 DEF ReplayGoesOn
<1>6. ASSUME NEW p \in Valid, NEW e \in ReplayEvents, ReplayStops(p, e) PROVE BoundaryHonest'
  <2>1. /\ forward' = forward /\ position' = p /\ event' = e
        /\ stop' = OrElse(classify(e, e = "MemoryWatchpoint", forward, p), try_from(e))
    BY <1>6 DEF ReplayStops
  <2>2. e # "Process" /\ forward \in BOOLEAN /\ (e = "MemoryWatchpoint") \in BOOLEAN
    BY DEF ReplayEvents, TypeOK
  <2>3. HonestStop(forward, p, OrElse(classify(e, e = "MemoryWatchpoint", forward, p), try_from(e)), e)
    BY <2>2, ClassifyHonest
  <2> QED BY <1>0, <2>1, <2>3
<1>7. ASSUME NEW p \in Valid, ReplayFails(p) PROVE BoundaryHonest'
  BY <1>0, <1>7 DEF ReplayFails, HonestStop
<1>8. CASE Interrupt
  BY <1>0, <1>8 DEF Interrupt, outcome
<1>9. ASSUME NEW fwd \in BOOLEAN, NEW p \in Valid, NEW tid \in Tids, step(fwd, p, tid) PROVE BoundaryHonest'
  BY <1>0, <1>9, StepBoundary DEF step
<1>10. ASSUME NEW tid \in Tids, step_range(tid) PROVE BoundaryHonest'
  BY <1>0, <1>10 DEF step_range
<1>11. CASE RangeInterrupted
  BY <1>0, <1>11 DEF RangeInterrupted, HonestStop
<1>12. ASSUME NEW p \in Valid, NEW inside \in BOOLEAN, RangeStep(p, inside) PROVE BoundaryHonest'
  <2>1. current_thread \in Nat
    BY DEF TypeOK
  <2> QED
    BY <1>0, <1>12, <2>1, StepBoundary DEF RangeStep, LoopInv
<1>13. CASE Report
  <2>1. pc = "Report" /\ UNCHANGED <<forward, position, stop, event>>
    BY <1>13 DEF Report, outcome
  <2> QED BY <1>0, <2>1, BoundaryIsHonestStop
<1>14. CASE UNCHANGED vars
  BY <1>0, <1>14 DEF vars
<1> QED
  BY <1>1, <1>2, <1>3, <1>4, <1>5, <1>6, <1>7, <1>8, <1>9, <1>10, <1>11, <1>12, <1>13, <1>14
  DEF Next, Progress

\* A completed step selects the engine's thread, if it has one.
LEMMA StepThreads ==
  ASSUME TypeOK, NEW fwd \in BOOLEAN, NEW p \in Valid, NEW tid \in Nat,
         (\E e \in StepEvents : StepLands(fwd, p, e, tid)) \/ StepFails(fwd, p, tid)
  PROVE  stop' # "Err" /\ ThreadAt[position'] # 0 => current_thread' = ThreadAt[position']
BY DEF StepLands, StepFails, StepThread

\* Every operation and every reply keeps the selected thread honest.
LEMMA ThreadStep == IInv /\ [Next]_vars => ThreadInv'
<1> SUFFICES ASSUME IInv, [Next]_vars PROVE ThreadInv'
  OBVIOUS
<1> USE TraceConstants DEF ThreadInv, IInv
<1>1. CASE Query \/ Interrupt \/ PositionStop
  BY <1>1 DEF Query, Interrupt, PositionStop, outcome, reply
<1>2. ASSUME NEW request \in Requests, GoTo(request) PROVE ThreadInv'
  BY <1>2 DEF GoTo
<1>3. ASSUME NEW fwd \in BOOLEAN, continue(fwd) PROVE ThreadInv'
  BY <1>3 DEF continue
<1>4. ASSUME NEW tid \in Tids, step_range(tid) PROVE ThreadInv'
  BY <1>4 DEF step_range
<1>5. ASSUME NEW p \in Valid, NEW e \in ReplayEvents, ReplayGoesOn(p, e) PROVE ThreadInv'
  BY <1>5 DEF ReplayGoesOn, outcome, reply
<1>6. ASSUME NEW p \in Valid, NEW e \in ReplayEvents, ReplayStops(p, e) PROVE ThreadInv'
  BY <1>6 DEF ReplayStops, reply
<1>7. ASSUME NEW p \in Valid, ReplayFails(p) PROVE ThreadInv'
  BY <1>7 DEF ReplayFails, reply
<1>8. CASE RangeInterrupted
  BY <1>8 DEF RangeInterrupted, reply
<1>9. ASSUME NEW fwd \in BOOLEAN, NEW p \in Valid, NEW tid \in Tids, step(fwd, p, tid)
      PROVE  ThreadInv'
  BY <1>9, StepThreads DEF step
<1>10. ASSUME NEW p \in Valid, NEW inside \in BOOLEAN, RangeStep(p, inside) PROVE ThreadInv'
  <2>1. current_thread \in Nat
    BY DEF TypeOK
  <2> QED
    BY <1>10, <2>1, StepThreads DEF RangeStep, reply
<1>11. CASE Report
  BY <1>11, StopTidTypes DEF Report, outcome
<1>12. CASE UNCHANGED vars
  BY <1>12 DEF vars
<1> QED
  BY <1>1, <1>2, <1>3, <1>4, <1>5, <1>6, <1>7, <1>8, <1>9, <1>10, <1>11, <1>12 DEF Next, Progress

\* Only the first query after an operation seeks.
LEMMA SeekStep == IInv /\ [Next]_vars => SeekInv'
<1> SUFFICES ASSUME IInv, [Next]_vars PROVE SeekInv'
  OBVIOUS
<1> USE TraceConstants, ValidInLifetime DEF SeekInv, IInv, TypeOK, Cursors
<1>1. CASE Query
  BY <1>1 DEF Query, at_position, prepare
<1>2. ASSUME NEW request \in Requests, GoTo(request) PROVE SeekInv'
  BY <1>2 DEF GoTo
<1>3. ASSUME NEW fwd \in BOOLEAN, continue(fwd) PROVE SeekInv'
  BY <1>3 DEF continue
<1>4. ASSUME NEW tid \in Tids, step_range(tid) PROVE SeekInv'
  BY <1>4 DEF step_range, cursors
<1>5. ASSUME NEW p \in Valid, NEW e \in ReplayEvents, ReplayGoesOn(p, e) PROVE SeekInv'
  BY <1>5 DEF ReplayGoesOn
<1>6. ASSUME NEW p \in Valid, NEW e \in ReplayEvents, ReplayStops(p, e) PROVE SeekInv'
  BY <1>6 DEF ReplayStops
<1>7. ASSUME NEW p \in Valid, ReplayFails(p) PROVE SeekInv'
  BY <1>7 DEF ReplayFails
<1>8. CASE RangeInterrupted \/ Interrupt \/ PositionStop
  BY <1>8 DEF RangeInterrupted, Interrupt, PositionStop, cursors
<1>9. ASSUME NEW fwd \in BOOLEAN, NEW p \in Valid, NEW tid \in Tids, step(fwd, p, tid)
      PROVE  SeekInv'
  BY <1>9, StepTypes DEF step, StepTypesHold
<1>10. ASSUME NEW p \in Valid, NEW inside \in BOOLEAN, RangeStep(p, inside) PROVE SeekInv'
  <2>1. pc' # "Replay"
    BY <1>10 DEF RangeStep
  <2>2. seeks' = 0
    BY <1>10 DEF RangeStep, StepLands, StepFails
  <2> QED
    BY <2>1, <2>2
<1>11. CASE Report
  BY <1>11 DEF Report, at_position, prepare, cursors
<1>12. CASE UNCHANGED vars
  BY <1>12 DEF vars
<1> QED
  BY <1>1, <1>2, <1>3, <1>4, <1>5, <1>6, <1>7, <1>8, <1>9, <1>10, <1>11, <1>12 DEF Next, Progress

----------------------------------------------------------------------------
(* The theorems. *)

\* The inductive invariant holds in every reachable state.
THEOREM ProcessInvariant == Spec => []IInv
<1>1. Init => IInv
  <2> SUFFICES ASSUME Init PROVE IInv
    OBVIOUS
  <2>1. TypeOK
    BY FirstTidTypes, TraceConstants DEF Init, TypeOK, StopReasons, Cursors
  <2> QED
    BY <2>1 DEF Init, IInv, CacheHonest, LoopInv, BoundaryHonest, ThreadInv, SeekInv, Cursors
<1>2. IInv /\ [Next]_vars => IInv'
  BY TypeStep, CacheStep, BoundaryStep, ThreadStep, SeekStep DEF IInv
<1> QED
  BY <1>1, <1>2, PTL DEF Spec

\* Positions stay positions the engine can stand on, whatever goto is asked for.
THEOREM ProcessTypes == Spec => []TypeOK
<1>1. IInv => TypeOK
  BY DEF IInv
<1> QED
  BY <1>1, ProcessInvariant, PTL

\* The cached position of a cursor is where the engine cursor really is, after
\* any mixture of steps, replays, jumps, failures and panics.
THEOREM CachesAreHonest == Spec => []CacheHonest
<1>1. IInv => CacheHonest
  BY DEF IInv
<1> QED
  BY <1>1, ProcessInvariant, PTL

\* Memory and registers are read at the debug position (with_cursor).
THEOREM QueriesReadHere == Spec => []QueriesAtPosition
<1>1. IInv => QueriesAtPosition
  BY PreparedAt DEF IInv, QueriesAtPosition, CacheHonest, TypeOK, Cursors
<1> QED
  BY <1>1, ProcessInvariant, PTL

\* Exits and trace boundaries are only reported where they are, an operation that
\* reached one, in either direction, never looks like an ordinary stop, and an
\* engine error away from them is reported as an error: for steps, range steps and
\* continues (classify_continue_stop and its callers).
THEOREM BoundariesAreHonest == Spec => []BoundaryHonest
<1>1. IInv => BoundaryHonest
  BY DEF IInv
<1> QED
  BY <1>1, ProcessInvariant, PTL

\* A stop reply names the thread the engine stopped on, whatever thread the
\* client asked to step and whichever operations failed before.
THEOREM StopsNameThreads == Spec => []StopNamesThread
<1>1. IInv => StopNamesThread
  BY TraceConstants DEF IInv, ThreadInv, StopNamesThread, TypeOK
<1> QED
  BY <1>1, ProcessInvariant, PTL

\* A stopped target seeks at most once, however many queries it answers.
THEOREM OneSeekIsEnough == Spec => []OneSeekPerStop
<1>1. IInv => OneSeekPerStop
  BY DEF IInv, SeekInv, OneSeekPerStop
<1> QED
  BY <1>1, ProcessInvariant, PTL

\* A step moves the debug position to a neighbour of it, in the direction asked
\* for, wherever earlier operations left the step cursor.
THEOREM StepsMoveByOne == Spec => StepsByOne
<1> DEFINE ByOne == at'["step"] # at["step"] /\ position' # position
                      => position' \in Neighbour(position, forward')
<1>1. IInv /\ [Next]_vars => [ByOne]_vars
  <2> SUFFICES ASSUME IInv, Next PROVE ByOne
    OBVIOUS
  <2>1. ASSUME NEW fwd \in BOOLEAN, NEW p \in Valid, NEW tid \in Nat, NEW e \in StepEvents, StepLands(fwd, p, e, tid)
        PROVE  position' \in Neighbour(position, fwd)
    BY <2>1, PreparedAt DEF StepLands, IInv, TypeOK, CacheHonest, Cursors
  <2>2. ASSUME NEW fwd \in BOOLEAN, NEW p \in Valid, NEW tid \in Tids, step(fwd, p, tid) PROVE ByOne
    BY <2>1, <2>2, TraceConstants DEF step, StepFails
  <2>3. ASSUME NEW p \in Valid, NEW inside \in BOOLEAN, RangeStep(p, inside) PROVE ByOne
    <3>1. current_thread \in Nat
      BY DEF IInv, TypeOK
    <3> QED
      BY <2>1, <2>3, <3>1 DEF RangeStep, StepFails, IInv, LoopInv
  <2>4. ASSUME at'["step"] = at["step"] PROVE ByOne
    BY <2>4
  <2>5. ASSUME Query \/ Interrupt \/ PositionStop \/ RangeInterrupted \/ Report
                 \/ (\E tid \in Tids : step_range(tid))
                 \/ (\E fwd \in BOOLEAN : continue(fwd))
        PROVE  ByOne
    BY <2>5 DEF Query, Interrupt, step_range, RangeInterrupted, PositionStop, Report, continue, at_position
  <2>6. ASSUME \/ \E p \in Valid, e \in ReplayEvents : ReplayGoesOn(p, e) \/ ReplayStops(p, e)
               \/ \E p \in Valid : ReplayFails(p)
               \/ \E request \in Requests : GoTo(request)
        PROVE  ByOne
    BY <2>4, <2>6 DEF ReplayGoesOn, ReplayStops, ReplayFails, GoTo, Moved, Invalidated, IInv, TypeOK,
                      Cursors
  <2> QED
    BY <2>2, <2>3, <2>5, <2>6 DEF Next, Progress
<1> QED
  BY <1>1, ProcessInvariant, PTL DEF Spec, StepsByOne


----------------------------------------------------------------------------
(* How far two comments of the code fail. *)

\* An engine error that is not reported as one.
ErrorHidden == event \in {"Error", "Unknown"} /\ stop # "Err"

\* A step reports every engine error: try_from is evaluated first.
LEMMA StepErrors ==
  ASSUME NEW fwd \in BOOLEAN, NEW p \in Valid, NEW tid \in Nat,
         (\E e \in StepEvents : StepLands(fwd, p, e, tid)) \/ StepFails(fwd, p, tid)
  PROVE  ~ErrorHidden'
<1>1. try_from("Error") = "Err" /\ try_from("Unknown") = "Err"
  BY DEF try_from
<1>2. ASSUME NEW e \in StepEvents, StepLands(fwd, p, e, tid) PROVE ~ErrorHidden'
  <2>1. event' = e /\ (try_from(e) = "Err" => stop' = "Err")
    BY <1>2 DEF StepLands
  <2> QED
    BY <1>1, <2>1 DEF ErrorHidden
<1>3. CASE StepFails(fwd, p, tid)
  BY <1>3 DEF StepFails, ErrorHidden
<1> QED
  BY <1>2, <1>3

\* A continue hides one only at the end of the lifetime it runs towards.
LEMMA ReplayErrors ==
  ASSUME TypeOK, NEW p \in Valid, NEW e \in ReplayEvents, ReplayStops(p, e), ErrorHidden'
  PROVE  AtBoundary'
<1>1. /\ event' = e /\ position' = p /\ forward' = forward
      /\ stop' = OrElse(classify(e, e = "MemoryWatchpoint", forward, p), try_from(e))
  BY DEF ReplayStops
<1>2. e \in {"Error", "Unknown"} /\ try_from(e) = "Err"
  BY <1>1 DEF ErrorHidden, try_from
<1>3. classify(e, e = "MemoryWatchpoint", forward, p) # "none"
  BY <1>1, <1>2 DEF ErrorHidden, OrElse
<1>4. IF forward THEN p >= LastPos ELSE p <= 0
  BY <1>2, <1>3 DEF classify
<1>5. p \in 0..LastPos /\ LastPos \in Nat
  BY ValidInLifetime, TraceConstants
<1> QED
  BY <1>1, <1>4, <1>5 DEF AtBoundary

\* How far ErrorsAreErrors fails: an engine error is only reported as a successful
\* stop by an operation that reached the boundary of the lifetime; everywhere else
\* resolve_continue_stop and a step report it.
THEOREM ErrorsHiddenAtBoundary == Spec => [](ErrorHidden => AtBoundary)
<1> DEFINE Hidden == ErrorHidden => AtBoundary
<1>1. Init => Hidden
  BY DEF Init, ErrorHidden
<1>2. IInv /\ Hidden /\ [Next]_vars => Hidden'
  <2> SUFFICES ASSUME IInv, Hidden, [Next]_vars PROVE Hidden'
    OBVIOUS
  <2>1. current_thread \in Nat /\ TypeOK
    BY DEF IInv, TypeOK
  <2>2. ASSUME UNCHANGED <<event, stop, forward, position>> PROVE Hidden'
    BY <2>2 DEF ErrorHidden, AtBoundary
  <2>3. ASSUME event' \notin {"Error", "Unknown"} PROVE Hidden'
    BY <2>3 DEF ErrorHidden
  <2>4. CASE Query \/ Interrupt \/ PositionStop \/ Report \/ UNCHANGED vars
    BY <2>2, <2>4 DEF Query, Interrupt, PositionStop, Report, vars, outcome
  <2>5. ASSUME NEW request \in Requests, GoTo(request) PROVE Hidden'
    BY <2>3, <2>5 DEF GoTo
  <2>6. ASSUME NEW fwd \in BOOLEAN, continue(fwd) PROVE Hidden'
    BY <2>3, <2>6 DEF continue
  <2>7. ASSUME NEW tid \in Tids, step_range(tid) PROVE Hidden'
    BY <2>3, <2>7 DEF step_range
  <2>8. ASSUME NEW fwd \in BOOLEAN, NEW p \in Valid, NEW tid \in Tids, step(fwd, p, tid) PROVE Hidden'
    BY <2>8, StepErrors, TraceConstants DEF step
  <2>9. ASSUME NEW p \in Valid, NEW inside \in BOOLEAN, RangeStep(p, inside) PROVE Hidden'
    BY <2>1, <2>9, StepErrors DEF RangeStep
  <2>10. ASSUME NEW p \in Valid, NEW e \in ReplayEvents, ReplayGoesOn(p, e) PROVE Hidden'
    BY <2>2, <2>10 DEF ReplayGoesOn, outcome
  <2>11. ASSUME NEW p \in Valid, NEW e \in ReplayEvents, ReplayStops(p, e) PROVE Hidden'
    BY <2>1, <2>11, ReplayErrors
  <2>12. CASE RangeInterrupted \/ \E p \in Valid : ReplayFails(p)
    BY <2>3, <2>12 DEF RangeInterrupted, ReplayFails
  <2> QED
    BY <2>4, <2>5, <2>6, <2>7, <2>8, <2>9, <2>10, <2>11, <2>12 DEF Next, Progress
<1> QED
  BY ProcessInvariant, <1>1, <1>2, PTL DEF Spec

\* A range step that reads the PC of an unknown thread has not moved yet.
RangeTid ==
  pc = "Range" /\ pc_tid \notin Catalog \cup {0} => previous = position

\* How far RangeReadsKnownThread fails: the loop that reads the PC of a thread the
\* trace has never seen (resolve_step_range_tid) has not moved yet, so such a range
\* step ends with the instruction under way.
THEOREM UnknownThreadsStepOnce == Spec => []RangeTid
<1>1. Init => RangeTid
  BY DEF Init, RangeTid
<1>2. RangeTid /\ [Next]_vars => RangeTid'
  <2> SUFFICES ASSUME RangeTid, [Next]_vars PROVE RangeTid'
    OBVIOUS
  <2>1. ASSUME pc' # "Range" PROVE RangeTid'
    BY <2>1 DEF RangeTid
  <2>2. CASE Query \/ PositionStop \/ Report \/ RangeInterrupted
    BY <2>1, <2>2 DEF Query, PositionStop, Report, RangeInterrupted
  <2>3. CASE Interrupt \/ UNCHANGED vars
    <3>1. UNCHANGED <<pc, pc_tid, previous, position>>
      BY <2>3 DEF Interrupt, vars, reply
    <3> QED
      BY <3>1 DEF RangeTid
  <2>4. ASSUME NEW request \in Requests, GoTo(request) PROVE RangeTid'
    BY <2>1, <2>4 DEF GoTo
  <2>5. ASSUME NEW fwd \in BOOLEAN, continue(fwd) PROVE RangeTid'
    BY <2>1, <2>5 DEF continue
  <2>6. ASSUME NEW tid \in Tids, step_range(tid) PROVE RangeTid'
    BY <2>6 DEF step_range, RangeTid
  <2>7. ASSUME NEW fwd \in BOOLEAN, NEW p \in Valid, NEW tid \in Tids, step(fwd, p, tid) PROVE RangeTid'
    BY <2>1, <2>7 DEF step
  <2>8. ASSUME NEW p \in Valid, NEW inside \in BOOLEAN, RangeStep(p, inside) PROVE RangeTid'
    <3>1. pc' = "Range" => inside
      BY <2>8 DEF RangeStep, KeepsGoing
    <3>2. pc' = "Range" => pc_tid' \in Catalog \cup {0}
      BY <2>8, <3>1 DEF RangeStep, reply
    <3> QED
      BY <3>2 DEF RangeTid
  <2>9. ASSUME NEW p \in Valid, NEW e \in ReplayEvents, ReplayGoesOn(p, e) \/ ReplayStops(p, e) PROVE RangeTid'
    BY <2>1, <2>9 DEF ReplayGoesOn, ReplayStops
  <2>10. CASE \E p \in Valid : ReplayFails(p)
    BY <2>1, <2>10 DEF ReplayFails
  <2> QED
    BY <2>2, <2>3, <2>4, <2>5, <2>6, <2>7, <2>8, <2>9, <2>10 DEF Next, Progress
<1> QED
  BY <1>1, <1>2, PTL DEF Spec
=============================================================================
