--------------------------- MODULE TraceMetadata ---------------------------
(***************************************************************************)
(* The trace-global tables read once at open time, and the lookups in      *)
(* them: target/trace_metadata.rs, the module lookups of gdb/monitor.rs    *)
(* and gdb/target.rs (GdbTarget::new), gdb/pe.rs and the thread queries of *)
(* target/process/target_impl.rs.                                          *)
(***************************************************************************)
EXTENDS Integers, Sequences, SequencesExt, FiniteSetsExt

CONSTANTS
  Positions,   \* trace positions <<sequence, steps>>
  Events,      \* exception events in the engine's order: [code, position]
  Modules,     \* the engine's module list: [base, size, name, sections]
  Catalog,     \* OS ids of the threads of the whole trace
  ActiveList,  \* position -> the OS ids of the engine's active list; 0 is a hole
  TopAddr      \* the largest address, standing for 2^64 - 1

ASSUME MetadataConstants ==
  /\ Positions \subseteq Nat \X Nat
  /\ Events \in Seq(ToSet(Events)) /\ Modules \in Seq(ToSet(Modules))
  /\ \A i \in DOMAIN Events : Events[i].position \in Nat \X Nat
  /\ \A i \in DOMAIN Modules : Modules[i].base \in 0..TopAddr /\ Modules[i].size \in 0..TopAddr
  /\ TopAddr \in Nat

None == "none"

\* TtdPosition's order.
Leq(p, q) == p[1] < q[1] \/ (p[1] = q[1] /\ p[2] <= q[2])

\* Mutant: the engine's order is taken as it is.
Mut_EngineOrder == Events

\* The order of a stable sort by position, and the place it gives event j.
Before(i, j) == IF Events[i].position = Events[j].position THEN i <= j
                ELSE Leq(Events[i].position, Events[j].position)
Rank(j)      == Quantify(DOMAIN Events, LAMBDA i : Before(i, j))

\* TraceMetadata::new: a stable sort by position.
exceptions ==
  [r \in DOMAIN Events |-> Events[CHOOSE j \in DOMAIN Events : Rank(j) = r]]

\* exception_at: take_while, filter, last.
exception_at(p) ==
  LET taken == {i \in DOMAIN exceptions : \A j \in 1..i : Leq(exceptions[j].position, p)}
      hits  == {i \in taken : exceptions[i].position[1] = p[1]}
  IN IF hits = {} THEN None ELSE exceptions[Max(hits)].code

saturating_add(a, b) == IF a + b > TopAddr THEN TopAddr ELSE a + b

\* monitor ttd module: the first module whose range holds the address, 0 for none.
find_module(addr) ==
  SelectInSeq(Modules, LAMBDA m : addr >= m.base /\ addr - m.base < m.size)

\* The reply names the module and its range.
module(addr) ==
  LET i == find_module(addr)
  IN IF i = 0 THEN None
     ELSE <<Modules[i].base, saturating_add(Modules[i].base, Modules[i].size), Modules[i].name>>

\* TTD reports the recorded executable first.
HasMain     == Modules # <<>>
main_module == Modules[1]

\* GdbTarget::new: the libraries are the other modules.
shared ==
  SelectSeq(Modules, LAMBDA m : ~HasMain \/ main_module.base # m.base \/ main_module.name # m.name)

DEFAULT_TEXT_RVA == 1

\* text_rva_from_section_table, and DEFAULT_TEXT_RVA for an unreadable image,
\* which has no sections here.  A section is [text, size, rva, exec],
\* where text says that its name starts with .text.
text_rva(sections) ==
  LET valid(s) == s.size # 0 /\ s.rva # 0
      text == SelectInSeq(sections, LAMBDA s : valid(s) /\ s.text)
      exec == SelectInSeq(sections, LAMBDA s : valid(s) /\ s.exec)
  IN IF text # 0 THEN sections[text].rva
     ELSE IF exec # 0 THEN sections[exec].rva
     ELSE DEFAULT_TEXT_RVA

TextSegment(m) == saturating_add(m.base, text_rva(m.sections))

\* qOffsets answers 0 for a trace without modules.
text_seg == IF HasMain THEN TextSegment(main_module) ELSE 0

\* build_libraries_xml: one element per library.
libraries_xml == [i \in DOMAIN shared |-> <<shared[i].name, TextSegment(shared[i])>>]

\* active_thread_ids: the engine's list without its holes.
active_thread_ids(p) == SelectSeq(ActiveList[p], LAMBDA tid : tid # 0)

\* thread_info: the entry of an active thread.
thread_info(p, tid) == tid # 0 /\ \E i \in DOMAIN ActiveList[p] : ActiveList[p][i] = tid
=============================================================================
