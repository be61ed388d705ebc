----------------------------- MODULE TraceIndex -----------------------------
(***************************************************************************)
(* src/target/process.rs: open_engine, ensure_index and remove_index_files,*)
(* which make sure that the trace's derived index is complete before it is *)
(* used, over restarts of a server that may be killed at any moment.       *)
(*                                                                         *)
(* The engine is external: it loads `<trace>.idx` when the trace is opened,*)
(* and a build keeps `<trace>.idxt` on disk until the index is complete.   *)
(***************************************************************************)
EXTENDS Integers

CONSTANTS
  KillPoints,     \* where the server may be killed
  RemovalFails,   \* where a file may refuse to be removed
  MaxKills        \* bound: how often the server is killed

ServerPc == {"Down", "Opened", "RemoveIdxt", "RemoveIdx", "Build", "Marked", "Written",
             "Complete", "Serving"}

ASSUME IndexConstants ==
  /\ KillPoints \subseteq ServerPc /\ RemovalFails \subseteq {"RemoveIdxt", "RemoveIdx"}
  /\ MaxKills \in Nat

VARIABLES
  pc,       \* where the server is
  idx,      \* "absent", "partial", "foreign" (of another trace) or "complete"
  idxt,     \* the marker of a build in progress exists
  status,   \* index_state of the opened engine
  kills

vars == <<pc, idx, idxt, status, kills>>

Init ==
  /\ pc = "Down" /\ idx \in {"absent", "foreign", "complete"} /\ idxt = FALSE
  /\ status = "NotPresent" /\ kills = 0

\* What the engine says of an index it finds: a truncated one may look loaded.
LoadStatus(i) ==
  {s \in {"NotPresent", "Loaded", "Unloadable"} :
     /\ s = "NotPresent" <=> i = "absent"
     /\ s = "Loaded" => i \in {"complete", "partial"}
     /\ s = "Unloadable" => i \in {"foreign", "partial"}}

\* ReplayEngine::open.
Open ==
  /\ pc = "Down" /\ pc' = "Opened"
  /\ status' \in LoadStatus(idx)
  /\ UNCHANGED <<idx, idxt, kills>>

\* Mutant: the status alone decides.
Mut_TrustStatus(s, interrupted) == s # "Loaded"

index_needs_build(s, interrupted) == interrupted \/ s # "Loaded"

\* ensure_index, up to the first change on disk.
EnsureIndex ==
  /\ pc = "Opened"
  /\ pc' = IF ~index_needs_build(status, idxt) THEN "Serving"
           ELSE IF idxt THEN "RemoveIdxt" ELSE "Build"
  /\ UNCHANGED <<idx, idxt, status, kills>>

\* remove_index_files: the marker goes first, then the index.
RemoveIdxt ==
  /\ pc = "RemoveIdxt" /\ pc' = "RemoveIdx"
  /\ idxt' = FALSE
  /\ UNCHANGED <<idx, status, kills>>

RemoveIdx ==
  /\ pc = "RemoveIdx" /\ pc' = "Build"
  /\ idx' = "absent"
  /\ UNCHANGED <<idxt, status, kills>>

\* IndexFileAccess: the server gives up.
RemoveFails ==
  /\ pc \in RemovalFails
  /\ pc' = "Down"
  /\ UNCHANGED <<idx, idxt, status, kills>>

\* BuildIndex: mark, write, complete, unmark.
BuildMarks ==
  /\ pc = "Build" /\ pc' = "Marked"
  /\ idxt' = TRUE
  /\ UNCHANGED <<idx, status, kills>>

BuildWrites ==
  /\ pc = "Marked" /\ pc' = "Written"
  /\ idx' = "partial"
  /\ UNCHANGED <<idxt, status, kills>>

BuildCompletes ==
  /\ pc = "Written" /\ pc' = "Complete"
  /\ idx' = "complete"
  /\ UNCHANGED <<idxt, status, kills>>

BuildUnmarks ==
  /\ pc = "Complete" /\ pc' = "Serving"
  /\ idxt' = FALSE /\ status' = "Loaded"
  /\ UNCHANGED <<idx, kills>>

\* IndexBuildFailed: the server gives up.
BuildFails ==
  /\ pc \in {"Build", "Marked", "Written"} /\ pc' = "Down"
  /\ UNCHANGED <<idx, idxt, status, kills>>

\* A clean end; a kill (a second ^C, the task manager, a power failure).
Stop ==
  /\ pc = "Serving" /\ pc' = "Down"
  /\ UNCHANGED <<idx, idxt, status, kills>>

Kill ==
  /\ pc \in KillPoints /\ kills < MaxKills
  /\ pc' = "Down" /\ kills' = kills + 1
  /\ UNCHANGED <<idx, idxt, status>>

Next ==
  \/ Open \/ EnsureIndex \/ RemoveIdxt \/ RemoveIdx \/ RemoveFails
  \/ BuildMarks \/ BuildWrites \/ BuildCompletes \/ BuildUnmarks \/ BuildFails
  \/ Stop \/ Kill

Spec == Init /\ [][Next]_vars

----------------------------------------------------------------------------
\* Memory is only ever served from a complete index, however earlier servers
\* ended: the marker outlives every index that cannot be trusted.
ServesComplete == pc = "Serving" => idx = "complete"

=============================================================================
