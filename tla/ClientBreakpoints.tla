------------------------- MODULE ClientBreakpoints -------------------------
(***************************************************************************)
(* What a client of the breakpoint layer relies on: a set of acknowledged  *)
(* requests, and the accesses that stop replay because of them.  Neither   *)
(* ids, nor physical watchpoints, nor engine failures are visible here.    *)
(***************************************************************************)
CONSTANTS
  Request,            \* what can be asked for
  Triple,             \* what a z packet can name: (addr, size, access)
  Names(_, _),        \* Names(t, r): triple t names request r
  MustStop(_),        \* the accesses a request has to stop at
  MayStop(_)          \* the accesses a request may stop at

VARIABLES wanted, stopping

vars == <<wanted, stopping>>

\* Replay stops wherever an acknowledged request requires it, and nowhere else.
StopsMatch ==
  /\ \A r \in wanted : MustStop(r) \subseteq stopping
  /\ \A h \in stopping : \E r \in wanted : h \in MayStop(r)

Init == wanted = {} /\ StopsMatch

Insert == /\ \E r \in Request : wanted' = wanted \cup {r}
          /\ StopsMatch'

\* A rejected request may disturb no acknowledged one.
Reject == wanted' = wanted /\ StopsMatch'

\* Delete by address clears every matching request, however often it was inserted.
Delete == /\ \E t \in Triple : wanted' = {r \in wanted : ~Names(t, r)}
          /\ StopsMatch'

\* Delete by id drops one request, or nothing if it was inserted more than once.
DeleteOne == /\ \E r \in wanted : wanted' = wanted \ {r}
             /\ StopsMatch'

Next == Insert \/ Reject \/ Delete \/ DeleteOne

Spec == Init /\ [][Next]_vars

============================================================================
