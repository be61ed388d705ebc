------------------------- MODULE MCBreakpointState -------------------------
(* A 16-byte address space: user half 0..5, hole 6..9, kernel half 10..15. *)
EXTENDS BreakpointState

MCThreads == <<[Id |-> 7, UniqueId |-> 1], [Id |-> 8, UniqueId |-> 2], [Id |-> 7, UniqueId |-> 3]>>

\* A range that ends the user half, and one whose exclusive end does not fit
\* in the address width.
MCRequested == {<<4, 2>>, <<14, 2>>}

============================================================================
