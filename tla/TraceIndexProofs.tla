-------------------------- MODULE TraceIndexProofs --------------------------
(* Proof that a server only serves from a complete index. *)
EXTENDS TraceIndex, TLAPS

\* A truncated index is marked, except between the removal of the marker and
\* that of the index; a build keeps the marker until the index is complete.
MarkedInv ==
  /\ idx = "partial" => idxt \/ pc = "RemoveIdx"
  /\ pc \in {"Marked", "Written", "Complete"} => idxt
  /\ pc = "Opened" => status \in LoadStatus(idx)
  /\ pc = "Complete" => idx = "complete"

IInv ==
  /\ pc \in ServerPc
  /\ idx \in {"absent", "partial", "foreign", "complete"}
  /\ MarkedInv
  /\ ServesComplete

\* Memory is only served from a complete index, however often the server is
\* killed and its builds fail, provided that it is neither killed nor refused
\* between the two removals of remove_index_files.
THEOREM IndexTrusted ==
  ASSUME "RemoveIdx" \notin KillPoints, "RemoveIdx" \notin RemovalFails
  PROVE  Spec => []ServesComplete
<1> USE DEF IInv, MarkedInv, ServesComplete, ServerPc, LoadStatus
<1>1. Init => IInv
  BY DEF Init
<1>2. IInv /\ [Next]_vars => IInv'
  <2> SUFFICES ASSUME IInv, [Next]_vars PROVE IInv'
    OBVIOUS
  <2>1. CASE Open
    BY <2>1 DEF Open
  <2>2. CASE EnsureIndex
    BY <2>2 DEF EnsureIndex, index_needs_build
  <2>3. CASE RemoveIdxt
    BY <2>3 DEF RemoveIdxt
  <2>4. CASE RemoveIdx
    BY <2>4 DEF RemoveIdx
  <2>5. CASE RemoveFails
    BY <2>5 DEF RemoveFails
  <2>6. CASE BuildMarks
    BY <2>6 DEF BuildMarks
  <2>7. CASE BuildWrites
    BY <2>7 DEF BuildWrites
  <2>8. CASE BuildCompletes
    BY <2>8 DEF BuildCompletes
  <2>9. CASE BuildUnmarks
    BY <2>9 DEF BuildUnmarks
  <2>10. CASE BuildFails
    BY <2>10 DEF BuildFails
  <2>11. CASE Stop
    BY <2>11 DEF Stop
  <2>12. CASE Kill
    BY <2>12 DEF Kill
  <2>13. CASE UNCHANGED vars
    BY <2>13 DEF vars
  <2> QED
    BY <2>1, <2>2, <2>3, <2>4, <2>5, <2>6, <2>7, <2>8, <2>9, <2>10, <2>11, <2>12, <2>13 DEF Next
<1>3. IInv => ServesComplete
  OBVIOUS
<1> QED
  BY <1>1, <1>2, <1>3, PTL DEF Spec

=============================================================================
