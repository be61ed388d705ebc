--------------------------- MODULE MCQueryPackets ---------------------------
\* A trace with four stops in two sequences with its exceptions reported out
\* of order, three modules of which the last ends above the address space, a
\* thread that is gone at the end, and a hole in the active list.
EXTENDS QueryPackets

Image(text, size, rva, exec) == [text |-> text, size |-> size, rva |-> rva, exec |-> exec]

MCPositions  == {<<1, 0>>, <<1, 2>>, <<2, 1>>, <<2, 3>>}
MCEvents     == <<[code |-> "av", position |-> <<2, 1>>], [code |-> "throw", position |-> <<1, 1>>],
                  [code |-> "div", position |-> <<2, 0>>], [code |-> "av2", position |-> <<2, 1>>]>>
MCModules    == <<[base |-> 1, size |-> 3, name |-> <<"m", "a", "in">>,
                   sections |-> <<Image(FALSE, 1, 1, TRUE), Image(TRUE, 1, 2, TRUE)>>],
                  [base |-> 5, size |-> 2, name |-> <<"l", "ib">>,
                   sections |-> <<Image(FALSE, 0, 1, TRUE), Image(FALSE, 1, 2, TRUE)>>],
                  [base |-> 9, size |-> 7, name |-> <<"t", "op">>, sections |-> <<>>]>>
MCActiveList == [p \in MCPositions |-> IF p[1] = 1 THEN <<7, 0, 8>> ELSE <<7>>]
MCTargetXml  == <<"t", "a", "r">>
MCCatalog    == {7, 8}
MCRuns       == {<<>>, <<[addr |-> 1, size |-> 2], [addr |-> 3, size |-> 0], [addr |-> 3, size |-> 1]>>,
                 <<[addr |-> 0, size |-> 2], [addr |-> 2, size |-> 2]>>}
=============================================================================
