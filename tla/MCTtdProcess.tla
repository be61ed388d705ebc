---------------------------- MODULE MCTtdProcess ----------------------------
(* A trace of five positions, one of which the engine cannot stand on, with *)
(* two throws, two positions at which the engine has no current thread and   *)
(* active lists with a hole; a client may name a thread the trace has never *)
(* seen.                                                                    *)
EXTENDS TtdProcess

MCValid == {0, 1, 3, 4}
MCRounded == [p \in 0..4 |-> IF p = 2 THEN 1 ELSE p]
MCThrows == {1, 3}
MCThreadAt == [p \in MCValid |-> CASE p = 1 -> 7 [] p = 3 -> 8 [] OTHER -> 0]
MCThreads == <<7, 8>>
MCActive == [p \in MCValid |-> IF p = 0 THEN <<>> ELSE <<0, 8, 7>>]
MCTids == {8, 9}

=============================================================================
