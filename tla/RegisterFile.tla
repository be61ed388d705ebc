---------------------------- MODULE RegisterFile ----------------------------
(***************************************************************************)
(* From a recorded AMD64 context to the bytes of the g and p packets:      *)
(* Cursor::GetAmd64Context (ttd/cpp/ttd_cxx.cpp), decode_amd64_context     *)
(* (ttd/types.rs), TtdRegisters and TtdRegId (gdb/regs.rs).                *)
(*                                                                         *)
(* A recorded field is <<name, index, half>>; byte k of it is <<field, k>>. *)
(* Its value is never looked at, so a packet is right when each of its     *)
(* bytes is the byte of the field that belongs there.                      *)
(***************************************************************************)
EXTENDS Integers, Sequences, SequencesExt

Single(names)   == [i \in DOMAIN names |-> <<names[i], 0, 0>>]
Halves(name, n) == [i \in 1..2 * n |-> <<name, (i - 1) \div 2, (i - 1) % 2>>]   \* Low, High

\* The widths of AMD64_CONTEXT and of the Rust structs that mirror it.
Width(f) ==
  CASE f[1] = "TagWord" -> 1
    [] f[1] \in {"SegCs", "SegDs", "SegEs", "SegFs", "SegGs", "SegSs", "ControlWord",
                 "StatusWord", "ErrorOpcode", "ErrorSelector", "DataSelector"} -> 2
    [] f[1] \in {"EFlags", "ErrorOffset", "DataOffset", "MxCsr"} -> 4
    [] OTHER -> 8

\* The order in which the C++ side pushes the fields, one 64-bit word each.
GetAmd64Context ==
  Single(<<"Rax", "Rbx", "Rcx", "Rdx", "Rsi", "Rdi", "Rbp", "Rsp", "R8", "R9", "R10",
           "R11", "R12", "R13", "R14", "R15", "Rip", "EFlags",
           "SegCs", "SegDs", "SegEs", "SegFs", "SegGs", "SegSs">>)
  \o Halves("Float", 8) \o Halves("Xmm", 16)
  \o Single(<<"ControlWord", "StatusWord", "TagWord", "ErrorOpcode", "ErrorOffset",
              "ErrorSelector", "DataOffset", "DataSelector", "MxCsr">>)

\* The order in which the Rust side takes the words.
DecodeOrder ==
  Single(<<"Rax", "Rbx", "Rcx", "Rdx", "Rsi", "Rdi", "Rbp", "Rsp", "R8", "R9", "R10",
           "R11", "R12", "R13", "R14", "R15", "Rip", "EFlags",
           "SegCs", "SegDs", "SegEs", "SegFs", "SegGs", "SegSs">>)
  \o Halves("Float", 8) \o Halves("Xmm", 16)
  \o Single(<<"ControlWord", "StatusWord", "TagWord", "ErrorOpcode", "ErrorOffset",
              "ErrorSelector", "DataOffset", "DataSelector", "MxCsr">>)

Zero     == <<<<"zero", 0, 0>>, 0>>
Zeros(n) == [k \in 1..n |-> Zero]
Bytes(f) == [k \in 1..Width(f) |-> <<f, k>>]
Widen(bytes, n) == bytes \o Zeros(n - Len(bytes))

\* The default context: what thread_state serves when there is none.
NoContext == [f \in ToSet(DecodeOrder) |-> Zeros(Width(f))]

\* A word count other than 81, or a word too wide for its field, is no context.
decode_amd64_context(words) ==
  IF Len(words) # 81 \/ \E i \in 1..81 : Width(words[i]) > Width(DecodeOrder[i])
  THEN NoContext
  ELSE [f \in ToSet(DecodeOrder) |->
          Widen(Bytes(words[SelectInSeq(DecodeOrder, LAMBDA g : g = f)]), Width(f))]

\* TtdRegisters::from_ttd: what each GDB register is made of.
from_ttd(ctx, teb) ==
  LET word(name)      == ctx[<<name, 0, 0>>]
      wide(name)      == Widen(word(name), 4)
      half(name, i, h) == ctx[<<name, i, h>>]
  IN [Gpr     |-> [i \in 0..15 |-> word(<<"Rax", "Rbx", "Rcx", "Rdx", "Rsi", "Rdi", "Rbp", "Rsp",
                                         "R8", "R9", "R10", "R11", "R12", "R13", "R14", "R15">>[i + 1])],
      Rip     |-> [i \in {0} |-> word("Rip")],
      Eflags  |-> [i \in {0} |-> word("EFlags")],
      Segment |-> [i \in 0..5 |-> wide(<<"SegCs", "SegSs", "SegDs", "SegEs", "SegFs", "SegGs">>[i + 1])],
      St      |-> [i \in 0..7 |-> half("Float", i, 0) \o SubSeq(half("Float", i, 1), 1, 2)],
      Fpu     |-> [i \in 0..7 |-> wide(<<"ControlWord", "StatusWord", "TagWord", "ErrorSelector",
                                         "ErrorOffset", "DataSelector", "DataOffset", "ErrorOpcode">>[i + 1])],
      Xmm     |-> [i \in 0..15 |-> half("Xmm", i, 0) \o half("Xmm", i, 1)],
      Mxcsr   |-> [i \in {0} |-> word("MxCsr")],
      FsBase  |-> [i \in {0} |-> Zeros(8)],
      GsBase  |-> [i \in {0} |-> teb]]

\* The classes of registers in GDB's order: <<class, registers, bytes of one>>.
CoreClasses == <<<<"Gpr", 16, 8>>, <<"Rip", 1, 8>>, <<"Eflags", 1, 4>>, <<"Segment", 6, 4>>,
                 <<"St", 8, 10>>, <<"Fpu", 8, 4>>, <<"Xmm", 16, 16>>, <<"Mxcsr", 1, 4>>>>

\* X86_64CoreRegs::gdb_serialize (gdbstub_arch).
CoreSerialize(regs) ==
  FlattenSeq([c \in DOMAIN CoreClasses |->
    FlattenSeq([i \in 1..CoreClasses[c][2] |-> regs[CoreClasses[c][1]][i - 1]])])

gdb_serialize(regs) == CoreSerialize(regs) \o regs.FsBase[0] \o regs.GsBase[0]

NoRegister == [class |-> "none", index |-> 0]

\* X86_64CoreRegId::from_raw_id (gdbstub_arch).
CoreFromRawId(id) ==
  IF id < 16 THEN [class |-> "Gpr", index |-> id]
  ELSE IF id = 16 THEN [class |-> "Rip", index |-> 0]
  ELSE IF id = 17 THEN [class |-> "Eflags", index |-> 0]
  ELSE IF id < 24 THEN [class |-> "Segment", index |-> id - 18]
  ELSE IF id < 32 THEN [class |-> "St", index |-> id - 24]
  ELSE IF id < 40 THEN [class |-> "Fpu", index |-> id - 32]
  ELSE IF id < 56 THEN [class |-> "Xmm", index |-> id - 40]
  ELSE [class |-> "Mxcsr", index |-> 0]

\* Mutant: the two segment bases are swapped.
Mut_SwapBases(id) ==
  IF id < 57 THEN CoreFromRawId(id)
  ELSE IF id = 57 THEN [class |-> "GsBase", index |-> 0]
  ELSE IF id = 58 THEN [class |-> "FsBase", index |-> 0]
  ELSE NoRegister

from_raw_id(id) ==
  IF id < 57 THEN CoreFromRawId(id)
  ELSE IF id = 57 THEN [class |-> "FsBase", index |-> 0]
  ELSE IF id = 58 THEN [class |-> "GsBase", index |-> 0]
  ELSE NoRegister

\* to_raw_id, with seg_regnum and fpu_regnum.
to_raw_id(reg) ==
  reg.index + CASE reg.class = "Gpr" -> 0     [] reg.class = "Rip" -> 16
                [] reg.class = "Eflags" -> 17 [] reg.class = "Segment" -> 18
                [] reg.class = "St" -> 24     [] reg.class = "Fpu" -> 32
                [] reg.class = "Xmm" -> 40    [] reg.class = "Mxcsr" -> 56
                [] reg.class = "FsBase" -> 57 [] reg.class = "GsBase" -> 58

\* The register's bytes, cut off at the end of the caller's buffer.
read_register_value(reg, regs, buf) ==
  LET value == regs[reg.class][reg.index]
  IN SubSeq(value, 1, IF Len(value) < buf THEN Len(value) ELSE buf)

----------------------------------------------------------------------------
(* The reference: the registers that 64bit-core.xml, 64bit-sse.xml and     *)
(* 64bit-seg.xml declare, in their order, as <<recorded field, bytes>>.    *)

Plain(names, size) == [i \in DOMAIN names |-> Widen(Bytes(<<names[i], 0, 0>>), size)]
Pair(name, i)      == Bytes(<<name, i, 0>>) \o Bytes(<<name, i, 1>>)

\* Register n of the target description is DescribedRegisters(teb)[n + 1].
DescribedRegisters(teb) ==
  Plain(<<"Rax", "Rbx", "Rcx", "Rdx", "Rsi", "Rdi", "Rbp", "Rsp", "R8", "R9", "R10",
          "R11", "R12", "R13", "R14", "R15", "Rip">>, 8)
  \o Plain(<<"EFlags", "SegCs", "SegSs", "SegDs", "SegEs", "SegFs", "SegGs">>, 4)
  \o [i \in 1..8 |-> SubSeq(Pair("Float", i - 1), 1, 10)]
  \o Plain(<<"ControlWord", "StatusWord", "TagWord", "ErrorSelector", "ErrorOffset",
             "DataSelector", "DataOffset", "ErrorOpcode">>, 4)
  \o [i \in 1..16 |-> Pair("Xmm", i - 1)]
  \o Plain(<<"MxCsr">>, 4)
  \o <<Zeros(8), teb>>

\* The description declares 59 registers.
DescribedCount == 59
=============================================================================
