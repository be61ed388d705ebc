---------------------------- MODULE QueryPackets ----------------------------
(***************************************************************************)
(* The packets that only read: their handlers in gdb/target/ (base,        *)
(* description, memory_map, monitor_cmd, thread_info, unknown),            *)
(* gdb/monitor.rs, gdb/packet.rs and gdb/xml.rs, and the polling loop of   *)
(* gdb/session.rs that answers them between the stops of a replay.         *)
(*                                                                         *)
(* A client has at most one packet under way.  It may also ask while a     *)
(* replay runs; TargetRunner::try_lock then keeps the handlers away from   *)
(* the backend, whose worker is seen here from the outside: in flight,     *)
(* done but not reported yet, or idle (TargetRunner has the details).      *)
(***************************************************************************)
EXTENDS RegisterFile, TraceMetadata

CONSTANTS
  Objects,          \* qXfer objects the client reads: a subset of ObjectNames
  TargetXml,        \* the embedded target description, as a sequence
  Lengths,          \* qXfer lengths the client asks for
  BufLen,           \* the buffer gdbstub lends a handler
  Tids,             \* thread ids the client asks about
  NoTeb,            \* thread ids whose TEB the engine does not know
  RegIds,           \* register numbers the client asks for
  Addrs, Lens,      \* addresses and lengths the client asks for
  EngineRuns,       \* the lists of runs the engine may report for a memory read
  DEFAULT_MEM_LEN, MEM_LEN_CAP, MEM_RANGES_CAP, DEFAULT_EVENTS,
  MaxAsk            \* bound: packets a client sends during one replay

ObjectNames == {"features", "unknown_annex", "libraries", "exec-file", "auxv"}

\* The qXfer objects as sequences: target_xml, GdbTarget::libraries_xml, the
\* path of the main module, and an auxv with AT_ENTRY (9) and AT_NULL (0).
Payload(o) ==
  CASE o = "features"  -> TargetXml
    [] o = "libraries" -> libraries_xml
    [] o = "exec-file" /\ HasMain -> main_module.name
    [] o = "auxv" /\ HasMain      -> <<9, main_module.base, 0, 0>>
    [] OTHER           -> <<>>

ASSUME PacketConstants ==
  /\ Objects \subseteq ObjectNames
  /\ \A o \in Objects : Payload(o) \in Seq(ToSet(Payload(o)))
  /\ Lengths \subseteq Nat \ {0} /\ BufLen \in Nat \ {0} /\ MaxAsk \in Nat
  /\ MEM_RANGES_CAP \in Nat \ {0}
  /\ Addrs \subseteq 0..TopAddr /\ Lens \subseteq Nat /\ RegIds \subseteq Nat
  /\ EngineRuns \subseteq Seq([addr : 0..TopAddr, size : Nat])

VARIABLES
  stub,       \* what gdbstub believes: "Stopped" or "Running"
  worker,     \* "Idle", "InFlight", "Cleared" (idle again, result not sent), "Sent"
  position,   \* where the backend stands
  result,     \* the worker's last result: where it stopped, and the code
              \* attached when it stopped for an exception
  query,      \* the packet under way, NoQuery when there is none
  reply,      \* the answer to the client's last packet, until it sends the next
              \* or the target resumes or stops
  object,     \* the qXfer object being read, None between two reads
  got,        \* what the client has of it
  done,       \* the object it has just completed, None otherwise
  asked       \* packets sent during this replay

xfer == <<object, got, done>>
vars == <<stub, worker, position, result, query, reply, xfer, asked>>

Unset   == "unset"
NoQuery == [op |-> "none"]
NoReply == [to |-> NoQuery, is |-> [kind |-> "none"]]

Init ==
  /\ stub = "Stopped" /\ worker = "Idle"
  /\ position \in Positions
  /\ result = [position |-> position, code |-> Unset]
  /\ query = NoQuery /\ reply = NoReply
  /\ object = None /\ got = <<>> /\ done = None
  /\ asked = 0

----------------------------------------------------------------------------
(* Answers.  Each is a set: the engine decides how much memory it serves. *)

Kind(k) == [kind |-> k]
Error   == Kind("E")
Smaller(a, b) == IF a < b THEN a ELSE b

\* The TEB as 8 bytes; a TEB of 0 means the engine does not know it.
Teb(tid) == IF tid \in NoTeb THEN Zeros(8) ELSE [k \in 1..8 |-> <<<<"Teb", tid, 0>>, k>>]

\* thread_state: only threads of the trace have one.
Context   == decode_amd64_context(GetAmd64Context)
Registers == [tid \in Catalog |-> from_ttd(Context, Teb(tid))]

thread_state(tid) == IF tid \in Catalog THEN {Registers[tid]} ELSE {}

\* g and p.
read_registers(q) ==
  IF thread_state(q.tid) = {} THEN {Error}
  ELSE {[kind |-> "registers", bytes |-> gdb_serialize(r)] : r \in thread_state(q.tid)}

read_register(q) ==
  IF thread_state(q.tid) = {} \/ from_raw_id(q.reg) = NoRegister THEN {Error}
  ELSE {[kind |-> "registers", bytes |-> read_register_value(from_raw_id(q.reg), r, BufLen)] :
          r \in thread_state(q.tid)}

\* m: nothing read is an error, less than asked for is not.
read_addrs(q) ==
  {IF n = 0 /\ q.len # 0 THEN Error ELSE [kind |-> "memory", read |-> n] : n \in 0..q.len}

\* read_ranges_into: the indices of the runs that start in the bytes received.
read_ranges_into(addr, n, runs) ==
  {i \in DOMAIN runs : runs[i].size > 0 /\ addr <= runs[i].addr /\ runs[i].addr - addr < n}

\* qThreadExtraInfo, qGetTIBAddr and qGetTLSAddr.
thread_extra_info(q) ==
  {[kind |-> "thread", tid |-> q.tid, active |-> thread_info(position, q.tid)]}

answer_tib_addr(q) ==
  IF thread_info(position, q.tid) /\ q.tid \notin NoTeb
  THEN {[kind |-> "teb", bytes |-> Teb(q.tid)]} ELSE {Error}

list_active_threads == {[kind |-> "list", tids |-> active_thread_ids(position)]}

\* An argument of a monitor command: absent <<>>, unreadable <<Bad>>, or a number.
Bad == 0 - 1

mem(q) ==
  LET len == IF Len(q.args) = 1 THEN DEFAULT_MEM_LEN ELSE q.args[2]
  IN IF q.args = <<>> THEN {Kind("usage")}
     ELSE IF q.args[1] = Bad \/ len \notin 1..MEM_LEN_CAP THEN {Kind("bad_argument")}
     ELSE {[kind |-> "provenance", addr |-> q.args[1], read |-> n, at |-> position,
            runs |-> {runs[i] : i \in read_ranges_into(q.args[1], n, runs)},
            capped |-> Cardinality(read_ranges_into(q.args[1], n, runs)) = MEM_RANGES_CAP] :
             n \in 0..len, runs \in {r \in EngineRuns : Len(r) <= MEM_RANGES_CAP}}

events(q) ==
  LET n == IF q.args = <<>> THEN DEFAULT_EVENTS ELSE q.args[1]
  IN IF n = Bad THEN {Kind("bad_argument")}
     ELSE {[kind |-> "events", shown |-> SubSeq(exceptions, 1, Smaller(n, Len(exceptions)))]}

MonitorModule(q) ==
  IF q.args = <<>> THEN {Kind("usage")}
  ELSE IF q.args[1] = Bad THEN {Kind("bad_argument")}
  ELSE {[kind |-> "module", found |-> find_module(q.args[1]), range |-> module(q.args[1])]}

info(q) ==
  {[kind |-> "info", current |-> position, modules |-> Len(Modules), events |-> Len(exceptions)]}

\* monitor ttd <sub>; any other text is answered with the usage.
render(q) ==
  CASE q.sub = "info"    -> info(q)
    [] q.sub = "threads" -> {[kind |-> "catalog", tids |-> Catalog]}
    [] q.sub = "module"  -> MonitorModule(q)
    [] q.sub = "mem"     -> mem(q)
    [] q.sub = "events"  -> events(q)
    [] q.sub = "stats"   -> {Kind("stats")}
    [] OTHER             -> {Kind("usage")}

\* The wire form of a qRRCmd: a token is its text and what it decodes to from
\* hex.  New clients send the command literally, then "-1".
Hex(w)     == [raw |-> "hex", text |-> w]
Literal(w) == [raw |-> w, text |-> None]
Encode(style, words) ==
  IF style = "new"
  THEN <<Literal(words[1]), Literal("-1")>> \o [i \in 1..Len(words) - 1 |-> Hex(words[i + 1])]
  ELSE [i \in DOMAIN words |-> Hex(words[i])]

parse_qrrcmd_args(parts) ==
  IF Len(parts) >= 2 /\ parts[2].raw = "-1"
  THEN <<parts[1].raw>> \o [i \in 1..Len(parts) - 2 |->
         IF parts[i + 2].text = None THEN parts[i + 2].raw ELSE parts[i + 2].text]
  ELSE FlattenSeq([i \in DOMAIN parts |-> IF parts[i].text = None THEN <<>> ELSE <<parts[i].text>>])

\* handle_qrrcmd; the checkpoint commands are GdbTarget's.
handle_qrrcmd(q) ==
  LET args == parse_qrrcmd_args(Encode(q.style, q.words))
  IN IF args = <<>> \/ args[1] # "when" THEN {Kind("empty")}
     ELSE {[kind |-> "position", at |-> position]}

\* Mutant: the rest of the object, but never its last byte.
Mut_ShortEnd(data, offset, length) ==
  LET start == Smaller(offset, Len(data))
      end   == Smaller(start + length, Len(data))
  IN SubSeq(data, start + 1, Smaller(end, Len(data) - 1))

\* write_xml_chunk: the bytes of [offset, offset + length), as many as fit.
write_xml_chunk(data, offset, length) ==
  LET start == Smaller(offset, Len(data))
      end   == Smaller(start + length, Len(data))
      n     == Smaller(end - start, BufLen)
  IN SubSeq(data, start + 1, start + n)

\* get_exec_file, get_auxv, get_libraries, target_description_xml.
ReadObject(q) ==
  IF q.object = "unknown_annex" \/ (q.object \in {"exec-file", "auxv"} /\ ~HasMain) THEN {Error}
  ELSE {[kind |-> "chunk", bytes |-> write_xml_chunk(Payload(q.object), q.offset, q.length)]}

\* Packets with one answer: registers and memory cannot be written, signal
\* lists are acknowledged, thread suffixes are declined.
Fixed(q) == CASE q.op = "write" -> {Error} [] q.op = "signals" -> {Kind("OK")}
              [] q.op = "decline" -> {Kind("empty")}

----------------------------------------------------------------------------
(* Handlers. *)

\* Answered from what GdbTarget::new kept, or from nothing at all.
NeedsNoBackend(q) ==
  \/ q.op \in {"offsets", "write", "signals", "decline"}
  \/ q.op = "xfer" /\ q.object \in {"libraries", "features", "unknown_annex"}

\* What a handler says when try_lock finds a job in flight.
Busy(q) ==
  CASE q.op = "threads"            -> [kind |-> "list", tids |-> <<>>]
    [] q.op \in {"extra", "monitor"} -> Kind("running")
    [] q.op = "rr"                 -> Kind("empty")
    [] OTHER                       -> Error

Answers(q) ==
  CASE q.op = "g"       -> read_registers(q)
    [] q.op = "p"       -> read_register(q)
    [] q.op = "m"       -> read_addrs(q)
    [] q.op = "threads" -> list_active_threads
    [] q.op = "extra"   -> thread_extra_info(q)
    [] q.op = "tib"     -> answer_tib_addr(q)
    [] q.op = "xfer"    -> ReadObject(q)
    [] q.op = "offsets" -> {[kind |-> "offsets", text |-> text_seg]}
    [] q.op = "rr"      -> handle_qrrcmd(q)
    [] q.op = "monitor" -> render(q)
    [] OTHER            -> Fixed(q)

\* TargetRunner::try_lock: replay_running is false.
in_flight == worker = "InFlight"

\* Mutant: the handler locks the backend, and so waits for the replay.
Mut_Lock(q) == ~in_flight /\ reply' \in [to : {q}, is : Answers(q)]

Reply(q) ==
  reply' \in [to : {q}, is : IF NeedsNoBackend(q) \/ ~in_flight THEN Answers(q) ELSE {Busy(q)}]

\* The client's side of a qXfer: it appends a chunk, an empty one ends the
\* object ("l"), an error discards it.
Assemble(q, r) ==
  /\ got' = IF r.kind = "chunk" THEN got \o r.bytes ELSE <<>>
  /\ object' = IF r.kind = "chunk" /\ r.bytes # <<>> THEN object ELSE None
  /\ done' = IF r.kind = "chunk" /\ r.bytes = <<>> THEN q.object ELSE None

\* gdbstub hands the packet to its handler and sends the answer.
HandlePacket ==
  /\ query # NoQuery
  /\ Reply(query)
  /\ query' = NoQuery
  /\ IF query.op = "xfer" THEN Assemble(query, reply'.is) ELSE UNCHANGED xfer
  /\ UNCHANGED <<stub, worker, position, result, asked>>

----------------------------------------------------------------------------
(* The client. *)

MonitorArgs == {<<>>, <<Bad>>} \cup {<<a>> : a \in Addrs} \cup {<<a, n>> : a \in Addrs, n \in Lens}

Packets ==
  [op : {"g", "extra", "tib"}, tid : Tids] \cup [op : {"p"}, tid : Tids, reg : RegIds]
  \cup [op : {"m"}, addr : Addrs, len : Lens] \cup [op : {"threads", "offsets", "write", "signals", "decline"}]
  \cup [op : {"rr"}, style : {"old", "new"}, words : {<<"when">>, <<"checkpoint", "1">>, <<"unknown">>}]
  \cup [op : {"monitor"}, sub : {"mem"}, args : MonitorArgs]
  \cup [op : {"monitor"}, sub : {"events"}, args : {<<>>, <<Bad>>, <<1>>}]
  \cup [op : {"monitor"}, sub : {"module"}, args : {<<>>, <<Bad>>} \cup {<<a>> : a \in Addrs}]
  \cup [op : {"monitor"}, sub : {"info", "threads", "stats", "other"}, args : {<<>>}]

MaySend ==
  /\ query = NoQuery
  /\ stub = "Running" => asked < MaxAsk
  /\ reply' = NoReply /\ done' = None
  /\ asked' = IF stub = "Running" THEN asked + 1 ELSE asked

Ask(q) ==
  /\ MaySend
  /\ query' = q
  /\ UNCHANGED <<stub, worker, position, result, object, got>>

\* The next chunk of an object begins where the last one ended.
AskChunk(o, length) ==
  /\ MaySend
  /\ object \in {None, o} /\ object' = o
  /\ got' = IF object = None THEN <<>> ELSE got
  /\ query' = [op |-> "xfer", object |-> o, offset |-> Len(got'), length |-> length]
  /\ UNCHANGED <<stub, worker, position, result>>

----------------------------------------------------------------------------
(* Resumes and stops. *)

Resume ==
  /\ stub = "Stopped" /\ query = NoQuery
  /\ stub' = "Running" /\ worker' = "InFlight" /\ asked' = 0 /\ reply' = NoReply
  /\ UNCHANGED <<position, result, query, xfer>>

\* The worker leaves the backend at p, attaches the recorded code to a stop for
\* an exception (enrich_exception) and clears replay_running, then sends.
WorkerClears(p) ==
  /\ worker = "InFlight" /\ worker' = "Cleared"
  /\ position' = p
  /\ \E exception \in BOOLEAN :
       result' = [position |-> p, code |-> IF exception THEN exception_at(p) ELSE Unset]
  /\ UNCHANGED <<stub, query, reply, xfer, asked>>

WorkerSends ==
  /\ worker = "Cleared" /\ worker' = "Sent"
  /\ UNCHANGED <<stub, position, result, query, reply, xfer, asked>>

\* Mutant: the loop reads from the connection without polling the worker.
Mut_BlockingRead ==
  /\ stub = "Running" /\ worker = "Sent" /\ query = NoQuery /\ reply # NoReply
  /\ stub' = "Stopped" /\ worker' = "Idle" /\ reply' = NoReply
  /\ UNCHANGED <<position, result, query, xfer, asked>>

\* wait_for_stop_reason looks at the channel when no data waits.
TakeStop ==
  /\ stub = "Running" /\ worker = "Sent" /\ query = NoQuery
  /\ stub' = "Stopped" /\ worker' = "Idle" /\ reply' = NoReply
  /\ UNCHANGED <<position, result, query, xfer, asked>>

Next ==
  \/ \E q \in Packets : Ask(q)
  \/ \E o \in Objects, n \in Lengths : AskChunk(o, n)
  \/ HandlePacket
  \/ Resume
  \/ \E p \in Positions : WorkerClears(p)
  \/ WorkerSends
  \/ TakeStop

Spec == Init /\ [][Next]_vars

\* The event loop runs, and a worker that is done sends its result.  Nothing
\* makes a replay end, a client ask or a client resume.
FairSpec == Spec /\ WF_vars(HandlePacket) /\ WF_vars(TakeStop) /\ WF_vars(WorkerSends)

----------------------------------------------------------------------------
(* Properties. *)

\* Whatever lengths a client asks for, and whatever it asks in between, what
\* it assembles of a qXfer object (write_xml_chunk) is the start of the
\* object, and an object it takes for complete is complete.
ChunksAssemble ==
  /\ object # None => IsPrefix(got, Payload(object))
  /\ done # None => got = Payload(done)

\* Every packet is answered, also while a replay runs that never ends:
\* try_lock keeps the event loop off the worker's lock.
QueryAnswered == (query # NoQuery) ~> (query = NoQuery)

\* A finished replay is reported although wait_for_stop_reason serves the
\* client's data first, as long as the client does not send without end.
StopReported == (worker = "Sent") ~> (stub = "Stopped")

Described == [tid \in Catalog |-> DescribedRegisters(Teb(tid))]

\* A register read with p is the register the target description declares
\* under that number, and g is all of them in that order: the C++ encoder,
\* the Rust decoder and the register tables of regs.rs agree.
RegistersExact(to, is) ==
  is.kind = "registers" =>
    LET described == Described[to.tid] IN
    IF to.op = "g" THEN is.bytes = FlattenSeq(described)
    ELSE is.bytes = described[to.reg + 1] /\ to_raw_id(from_raw_id(to.reg)) = to.reg

RegistersAgree == RegistersExact(reply.to, reply.is)

\* The reference for exception_at: the last event of the same sequence at or
\* before p, the later reported of two at one position.
ExceptionAt(p, code) ==
  LET here == {i \in DOMAIN Events : Events[i].position[1] = p[1] /\ Leq(Events[i].position, p)}
      last(i) == \A j \in here : IF Events[j].position = Events[i].position THEN j <= i
                                 ELSE Leq(Events[j].position, Events[i].position)
  IN IF here = {} THEN code = None
     ELSE \E i \in here : last(i) /\ code = Events[i].code

\* The reference for the module lookup, in unbounded integers.
Holds(m, addr) == addr \in m.base..(m.base + m.size - 1)

\* Lookups in the trace's tables answer what the tables say: a stop carries
\* the code of the exception recorded there, whatever the engine's order; rr's
\* "when", in either wire form, tells a stopped client where it stopped; a module
\* is found exactly for the addresses it holds, at the end of the address space
\* too; a run listed by monitor ttd mem holds a received byte.
CodeExact == result.code # Unset => ExceptionAt(result.position, result.code)

WhenExact ==
  stub = "Stopped" /\ reply.to.op = "rr" /\ reply.to.words = <<"when">>
    => reply.is = [kind |-> "position", at |-> result.position]

ModuleExact(to, is) ==
  is.kind = "module" =>
    IF is.found = 0 THEN \A i \in DOMAIN Modules : ~Holds(Modules[i], to.args[1])
    ELSE Holds(Modules[is.found], to.args[1])

ProvenanceExact(is) ==
  is.kind = "provenance" =>
    \A run \in is.runs : \E b \in 0..(is.read - 1) :
      is.addr + b \in run.addr..(run.addr + run.size - 1)

LookupsExact ==
  CodeExact /\ WhenExact /\ ModuleExact(reply.to, reply.is) /\ ProvenanceExact(reply.is)
=============================================================================
