--------------------------- MODULE ResumeContract ---------------------------
(***************************************************************************)
(* What a client of the server is promised about its resumes, in terms it  *)
(* can observe: a session is open or not, and a job of that session is in  *)
(* flight, has a result that waits, or neither.                            *)
(*                                                                         *)
(* Both models of the resume path implement this contract: TargetRunner,   *)
(* thread by thread, and GdbTarget, packet by packet.  It is the interface *)
(* along which GdbTarget replaces the runner by a few phases.              *)
(***************************************************************************)

VARIABLES
  session,   \* "closed", "open", "closing", or "dead": the server gave up
  job        \* "none", "busy", or "done": finished and not reported

vars == <<session, job>>

Init == session = "closed" /\ job = "none"

\* A session starts with nothing in flight.
Open == session = "closed" /\ session' = "open" /\ job' = "none"

\* A resume is accepted when no job is in flight.  A client that does not wait
\* for its stop reply loses it.
Resume == session = "open" /\ job # "busy" /\ job' = "busy" /\ UNCHANGED session

\* The job ends; no session is told yet.
Finish == job = "busy" /\ job' = "done" /\ UNCHANGED session

\* A stop is reported once, after its job, while the session is open.  The
\* report of the exit also ends the session.
Report == session = "open" /\ job = "done" /\ session' \in {"open", "closing"} /\ job' = "none"

\* The client leaves, or is thrown out.
Leave == session = "open" /\ session' = "closing" /\ UNCHANGED job

\* The server takes its backend back and can accept again.
Close == session = "closing" /\ session' = "closed" /\ job' = "none"

\* It can fail to: only because a job still runs.
Die == session = "closing" /\ job = "busy" /\ session' = "dead" /\ job' = "none"

Next == Open \/ Resume \/ Finish \/ Report \/ Leave \/ Close \/ Die

Spec == Init /\ [][Next]_vars

=============================================================================
