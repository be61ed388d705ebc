------------------------- MODULE QueryPacketsProofs -------------------------
(***************************************************************************)
(* A qXfer object arrives whole, for every object, buffer size and sequence *)
(* of lengths, whatever else happens between two chunks; and lookups in the *)
(* trace's tables are exact, for every trace.                              *)
(***************************************************************************)
EXTENDS QueryPackets, IndexLemmas, SequenceTheorems, FiniteSetTheorems, TLAPS

\* A read under way: the client has the first Len(got) elements, and a chunk
\* it waits for begins there.
XferInv ==
  /\ object \in Objects \cup {None} /\ done \in Objects \cup {None}
  /\ object # None => /\ Len(got) \in 0..Len(Payload(object))
                      /\ got = SubSeq(Payload(object), 1, Len(got))
  /\ done # None => got = Payload(done)
  /\ query.op = "xfer" => /\ object # None
                          /\ query.object = object /\ query.offset = Len(got)
                          /\ query.length \in Lengths

\* Two adjacent pieces of a sequence make one.
LEMMA Adjacent ==
  ASSUME NEW S, NEW s \in Seq(S), NEW k \in 0..Len(s), NEW n \in 0..(Len(s) - k)
  PROVE  SubSeq(s, 1, k) \o SubSeq(s, k + 1, k + n) = SubSeq(s, 1, k + n)
  OBVIOUS

\* write_xml_chunk: at an offset inside the object it returns the next piece,
\* and nothing only at the end.
LEMMA NextChunk ==
  ASSUME NEW S, NEW s \in Seq(S), NEW k \in 0..Len(s), NEW length \in Lengths
  PROVE  \E n \in 0..(Len(s) - k) :
           /\ write_xml_chunk(s, k, length) = SubSeq(s, k + 1, k + n)
           /\ write_xml_chunk(s, k, length) = <<>> => k = Len(s)
<1> DEFINE end == Smaller(k + length, Len(s))
           n   == Smaller(end - k, BufLen)
<1>1. Len(s) \in Nat /\ k \in Nat /\ length \in Nat \ {0} /\ BufLen \in Nat \ {0}
  BY PacketConstants
<1>2. Smaller(k, Len(s)) = k
  BY <1>1 DEF Smaller
<1>3. end \in k..Len(s) /\ (end = k => k = Len(s))
  BY <1>1 DEF Smaller
<1>4. write_xml_chunk(s, k, length) = SubSeq(s, k + 1, k + n)
  BY <1>2 DEF write_xml_chunk
<1> HIDE DEF end
<1>5. n \in 0..(Len(s) - k) /\ (n = 0 => k = Len(s))
  BY <1>1, <1>3 DEF Smaller
<1> HIDE DEF n
<1>6. SubSeq(s, k + 1, k + n) = <<>> => n = 0
  BY <1>1, <1>5
<1> QED BY <1>4, <1>5, <1>6

LEMMA Payloads == \A o \in Objects : Payload(o) \in Seq(ToSet(Payload(o)))
  BY PacketConstants

LEMMA XferInit == Init => XferInv
  BY DEF Init, XferInv, NoQuery

\* The client sends a packet: only AskChunk begins or goes on with a read.
LEMMA XferAsk ==
  ASSUME XferInv, NEW q \in Packets, Ask(q)
  PROVE  XferInv'
<1>1. q.op # "xfer"
  BY DEF Packets
<1>2. query' = q /\ object' = object /\ got' = got /\ done' = None
  BY DEF Ask, MaySend
<1> QED BY <1>1, <1>2 DEF XferInv, Payload

LEMMA XferAskChunk ==
  ASSUME XferInv, NEW o \in Objects, NEW length \in Lengths, AskChunk(o, length)
  PROVE  XferInv'
<1>1. /\ object \in {None, o} /\ object' = o /\ done' = None
      /\ got' = IF object = None THEN <<>> ELSE got
      /\ query' = [op |-> "xfer", object |-> o, offset |-> Len(got'), length |-> length]
  BY DEF AskChunk, MaySend
<1>2. o # None
  BY PacketConstants DEF ObjectNames, None
<1>3. Payload(o) \in Seq(ToSet(Payload(o)))
  BY Payloads
<1>4. Len(got') \in 0..Len(Payload(o)) /\ got' = SubSeq(Payload(o), 1, Len(got'))
  <2>1. CASE object = None
    <3>1. got' = <<>>
      BY <1>1, <2>1
    <3>2. SubSeq(Payload(o), 1, 0) = <<>>
      BY <1>3
    <3> QED BY <3>1, <3>2, <1>3
  <2>2. CASE object = o
    BY <1>1, <1>2, <2>2 DEF XferInv
  <2> QED BY <1>1, <2>1, <2>2
<1>5. Payload(object)' = Payload(o)
  BY <1>1 DEF Payload
<1>6. query'.object = o /\ query'.offset = Len(got') /\ query'.length = length
  BY <1>1
<1> QED BY <1>1, <1>2, <1>4, <1>5, <1>6 DEF XferInv

\* The answer to a qXfer is the next piece of the object, or an error.
LEMMA XferAnswer ==
  ASSUME XferInv, query.op = "xfer", Reply(query)
  PROVE  \/ reply'.is = Error
         \/ reply'.is = [kind |-> "chunk",
                         bytes |-> write_xml_chunk(Payload(object), Len(got), query.length)]
<1>1. reply'.is \in IF NeedsNoBackend(query) \/ ~in_flight THEN Answers(query) ELSE {Busy(query)}
  BY DEF Reply
<1>2. Busy(query) = Error
  BY DEF Busy
<1>3. Answers(query) = ReadObject(query)
  BY DEF Answers
<1>4. query.object = object /\ query.offset = Len(got)
  BY DEF XferInv
<1> QED BY <1>1, <1>2, <1>3, <1>4 DEF ReadObject

LEMMA XferHandle ==
  ASSUME XferInv, HandlePacket
  PROVE  XferInv'
<1>1. query' = NoQuery /\ Reply(query) /\ query'.op # "xfer"
  BY DEF HandlePacket, NoQuery
<1>2. CASE query.op # "xfer"
  <2>1. UNCHANGED <<object, got, done>>
    BY <1>2 DEF HandlePacket, xfer
  <2> QED BY <1>1, <2>1 DEF XferInv, Payload
<1>3. CASE query.op = "xfer"
  <2> DEFINE r == reply'.is
             p == Payload(object)
  <2>1. Assemble(query, r)
    BY <1>3 DEF HandlePacket
  <2>2. /\ object \in Objects /\ query.object = object /\ query.length \in Lengths
        /\ Len(got) \in 0..Len(p) /\ got = SubSeq(p, 1, Len(got))
    BY <1>3 DEF XferInv
  <2>3. p \in Seq(ToSet(p))
    BY <2>2, Payloads
  <2>4. CASE r = Error
    <3>1. object' = None /\ done' = None
      BY <2>1, <2>4 DEF Assemble, Error, Kind
    <3> QED BY <1>1, <3>1 DEF XferInv
  <2>5. CASE r = [kind |-> "chunk", bytes |-> write_xml_chunk(p, Len(got), query.length)]
    <3> HIDE DEF p, r
    <3>1. r.bytes = write_xml_chunk(p, Len(got), query.length)
      BY <2>5
    <3> DEFINE w == write_xml_chunk(p, Len(got), query.length)
    <3>2. \E n \in 0..(Len(p) - Len(got)) :
            w = SubSeq(p, Len(got) + 1, Len(got) + n) /\ (w = <<>> => Len(got) = Len(p))
      BY <2>2, <2>3, NextChunk
    <3>3. PICK n \in 0..(Len(p) - Len(got)) :
            /\ r.bytes = SubSeq(p, Len(got) + 1, Len(got) + n)
            /\ r.bytes = <<>> => Len(got) = Len(p)
      BY <3>1, <3>2
    <3>4. /\ got' = got \o r.bytes
          /\ object' = IF r.bytes # <<>> THEN object ELSE None
          /\ done' = IF r.bytes = <<>> THEN object ELSE None
      BY <2>1, <2>2, <2>5 DEF Assemble
    <3>5. got' = SubSeq(p, 1, Len(got) + n)
      BY <2>2, <2>3, <3>3, <3>4, Adjacent
    <3>6. Len(got) + n \in 0..Len(p)
      BY <2>2, <2>3, <3>3
    <3>7. Len(got') = Len(got) + n
      BY <2>3, <3>5, <3>6
    <3>8. CASE r.bytes = <<>>
      <4>1. n = 0 /\ got' = SubSeq(p, 1, Len(p))
        BY <2>2, <2>3, <3>3, <3>5, <3>8
      <4>2. got' = p
        BY <2>3, <4>1
      <4>3. object' = None /\ done' = object
        BY <3>4, <3>8
      <4>4. Payload(done)' = p
        BY <4>3 DEF Payload, p
      <4> QED BY <1>1, <2>2, <4>2, <4>3, <4>4 DEF XferInv
    <3>9. CASE r.bytes # <<>>
      <4>1. object' = object /\ done' = None
        BY <3>4, <3>9
      <4>2. Payload(object)' = p
        BY <4>1 DEF Payload, p
      <4> QED BY <1>1, <2>2, <3>5, <3>6, <3>7, <4>1, <4>2 DEF XferInv
    <3> QED BY <3>8, <3>9
  <2> QED BY <1>1, <1>3, <2>4, <2>5, XferAnswer
<1> QED BY <1>2, <1>3

LEMMA XferStep == XferInv /\ [Next]_vars => XferInv'
<1> SUFFICES ASSUME XferInv, [Next]_vars PROVE XferInv'
  OBVIOUS
<1>1. ASSUME NEW q \in Packets, Ask(q) PROVE XferInv'
  BY <1>1, XferAsk
<1>2. ASSUME NEW o \in Objects, NEW n \in Lengths, AskChunk(o, n) PROVE XferInv'
  BY <1>2, XferAskChunk
<1>3. CASE HandlePacket
  BY <1>3, XferHandle
<1>4. CASE UNCHANGED <<query, xfer>>
  BY <1>4 DEF XferInv, xfer, Payload
<1>5. CASE Resume
  BY <1>4, <1>5 DEF Resume, xfer
<1>6. ASSUME NEW p \in Positions, WorkerClears(p) PROVE XferInv'
  BY <1>4, <1>6 DEF WorkerClears, xfer
<1>7. CASE WorkerSends
  BY <1>4, <1>7 DEF WorkerSends, xfer
<1>8. CASE TakeStop
  BY <1>4, <1>8 DEF TakeStop, xfer
<1>9. CASE UNCHANGED vars
  BY <1>4, <1>9 DEF vars
<1> QED BY <1>1, <1>2, <1>3, <1>5, <1>6, <1>7, <1>8, <1>9 DEF Next

\* The inductive invariant of qXfer reads (write_xml_chunk and the client that
\* asks for the chunk after the one it has).
THEOREM XferInvariant == Spec => []XferInv
  BY XferInit, XferStep, PTL DEF Spec

\* ChunksAssemble for every object, buffer and choice of lengths: no chunk of
\* write_xml_chunk is lost, repeated or cut short, and the terminator comes
\* only at the end, also when replays and other packets come in between.
THEOREM ObjectsArriveWhole == Spec => []ChunksAssemble
<1>1. XferInv => ChunksAssemble
  <2> SUFFICES ASSUME XferInv PROVE ChunksAssemble
    OBVIOUS
  <2>1. ASSUME object # None PROVE IsPrefix(got, Payload(object))
    <3>1. /\ object \in Objects /\ Len(got) \in 0..Len(Payload(object))
          /\ got = SubSeq(Payload(object), 1, Len(got))
      BY <2>1 DEF XferInv
    <3>2. Payload(object) \in Seq(ToSet(Payload(object)))
      BY <3>1, Payloads
    <3>3. SubSeq(got, 1, Len(got)) = got
      BY <3>1, <3>2
    <3> QED BY <3>1, <3>2, <3>3 DEF IsPrefix
  <2> QED BY <2>1 DEF ChunksAssemble, XferInv
<1> QED BY <1>1, XferInvariant, PTL
----------------------------------------------------------------------------
(* TraceMetadata: the sort of the exception events and the lookup in it. *)

NumEvents == Len(Events)

LEMMA EventIndices ==
  /\ NumEvents \in Nat /\ DOMAIN Events = 1..NumEvents
  /\ \A i \in 1..NumEvents : Events[i].position \in Nat \X Nat
  BY MetadataConstants DEF NumEvents

\* Positions are equal when their parts are.
LEMMA PositionParts ==
  ASSUME NEW p \in Nat \X Nat, NEW q \in Nat \X Nat, p[1] = q[1], p[2] = q[2]
  PROVE  p = q
<1>1. p = <<p[1], p[2]>> /\ q = <<q[1], q[2]>>
  OBVIOUS
<1> QED BY <1>1

\* The stable order is a total order of the events.
LEMMA BeforeOrder ==
  ASSUME NEW i \in 1..NumEvents, NEW j \in 1..NumEvents
  PROVE  /\ Before(i, i)
         /\ Before(i, j) \/ Before(j, i)
         /\ Before(i, j) /\ Before(j, i) => i = j
         /\ \A k \in 1..NumEvents : Before(i, j) /\ Before(j, k) => Before(i, k)
<1> DEFINE x(k) == Events[k].position[1]
           y(k) == Events[k].position[2]
<1>1. \A k \in 1..NumEvents : x(k) \in Nat /\ y(k) \in Nat
  BY EventIndices
<1>2. \A k, l \in 1..NumEvents :
        Before(k, l) <=> \/ x(k) < x(l)
                         \/ x(k) = x(l) /\ y(k) < y(l)
                         \/ x(k) = x(l) /\ y(k) = y(l) /\ k <= l
  <2> SUFFICES ASSUME NEW k \in 1..NumEvents, NEW l \in 1..NumEvents
               PROVE  Before(k, l) <=> \/ x(k) < x(l)
                                       \/ x(k) = x(l) /\ y(k) < y(l)
                                       \/ x(k) = x(l) /\ y(k) = y(l) /\ k <= l
    OBVIOUS
  <2>1. Events[k].position = Events[l].position <=> x(k) = x(l) /\ y(k) = y(l)
    BY EventIndices, PositionParts
  <2>2. Leq(Events[k].position, Events[l].position) <=> x(k) < x(l) \/ (x(k) = x(l) /\ y(k) <= y(l))
    BY DEF Leq
  <2>3. x(k) \in Nat /\ x(l) \in Nat /\ y(k) \in Nat /\ y(l) \in Nat
    BY <1>1
  <2> HIDE DEF x, y
  <2> QED BY <2>1, <2>2, <2>3 DEF Before
<1>3. NumEvents \in Nat
  BY EventIndices
<1> HIDE DEF x, y
<1> QED BY <1>1, <1>2, <1>3

\* The events at or before j, itself included: Rank counts them.
Down(j) == {i \in 1..NumEvents : Before(i, j)}

LEMMA RankBounds ==
  ASSUME NEW j \in 1..NumEvents
  PROVE  /\ IsFiniteSet(Down(j)) /\ Rank(j) = Cardinality(Down(j))
         /\ Rank(j) \in 1..NumEvents
<1>1. IsFiniteSet(1..NumEvents) /\ Cardinality(1..NumEvents) = NumEvents
  BY EventIndices, FS_Interval
<1>2. Down(j) \subseteq 1..NumEvents /\ j \in Down(j)
  BY BeforeOrder DEF Down
<1>3. IsFiniteSet(Down(j)) /\ Cardinality(Down(j)) <= NumEvents
  BY <1>1, <1>2, FS_Subset
<1>4. Cardinality(Down(j)) \in Nat /\ Cardinality(Down(j)) # 0
  BY <1>2, <1>3, FS_CardinalityType, FS_EmptySet
<1>5. Rank(j) = Cardinality(Down(j))
  BY EventIndices DEF Rank, Quantify, Down
<1> QED BY <1>3, <1>4, <1>5, EventIndices

\* An earlier event has a smaller rank.
LEMMA RankMonotone ==
  ASSUME NEW i \in 1..NumEvents, NEW j \in 1..NumEvents, i # j, Before(i, j)
  PROVE  Rank(i) < Rank(j)
<1>1. Down(i) \subseteq Down(j)
  BY BeforeOrder DEF Down
<1>2. j \in Down(j) /\ j \notin Down(i)
  BY BeforeOrder DEF Down
<1>3. Cardinality(Down(i)) <= Cardinality(Down(j)) /\ Cardinality(Down(i)) # Cardinality(Down(j))
  BY <1>1, <1>2, RankBounds, FS_Subset
<1> QED BY <1>3, RankBounds, EventIndices

\* Where the sort takes place r from.
Place(r) == CHOOSE j \in DOMAIN Events : Rank(j) = r

\* The sort is a permutation of the events in the stable order.
LEMMA StableSort ==
  /\ \A r \in 1..NumEvents : Place(r) \in 1..NumEvents /\ exceptions[r] = Events[Place(r)]
  /\ \A r, s \in 1..NumEvents : r <= s => Before(Place(r), Place(s))
  /\ \A j \in 1..NumEvents : Rank(j) \in 1..NumEvents /\ Place(Rank(j)) = j
<1> DEFINE f == [j \in 1..NumEvents |-> Rank(j)]
<1>1. \A i, j \in 1..NumEvents : Rank(i) = Rank(j) => i = j
  <2> SUFFICES ASSUME NEW i \in 1..NumEvents, NEW j \in 1..NumEvents, Rank(i) = Rank(j), i # j
               PROVE  FALSE
    OBVIOUS
  <2>1. Rank(i) < Rank(j) \/ Rank(j) < Rank(i)
    BY BeforeOrder, RankMonotone
  <2> QED BY <2>1, RankBounds, EventIndices
<1>2. f \in Injection(1..NumEvents, 1..NumEvents)
  BY <1>1, RankBounds DEF Injection, IsInjective
<1>3. f \in Surjection(1..NumEvents, 1..NumEvents)
  BY <1>2, EventIndices, FS_Interval, FS_Injection
<1>4. \A r \in 1..NumEvents : \E j \in 1..NumEvents : Rank(j) = r
  BY <1>3 DEF Surjection
<1>5. \A r \in 1..NumEvents : Place(r) \in 1..NumEvents /\ Rank(Place(r)) = r
  BY <1>4, EventIndices DEF Place
<1>6. \A j \in 1..NumEvents : Rank(j) \in 1..NumEvents /\ Place(Rank(j)) = j
  BY <1>1, <1>5, RankBounds
<1>7. ASSUME NEW r \in 1..NumEvents, NEW s \in 1..NumEvents, r <= s
      PROVE  Before(Place(r), Place(s))
  <2>1. CASE Place(r) = Place(s)
    BY <1>5, <2>1, BeforeOrder
  <2>2. CASE Place(r) # Place(s)
    <3> SUFFICES ASSUME ~Before(Place(r), Place(s)) PROVE FALSE
      OBVIOUS
    <3>1. Before(Place(s), Place(r))
      BY <1>5, BeforeOrder
    <3>2. Rank(Place(s)) < Rank(Place(r))
      BY <1>5, <2>2, <3>1, RankMonotone
    <3> QED BY <1>5, <1>7, <3>2, EventIndices
  <2> QED BY <2>1, <2>2
<1>8. \A r \in 1..NumEvents : exceptions[r] = Events[Place(r)]
  BY EventIndices DEF exceptions, Place
<1> QED BY <1>5, <1>6, <1>7, <1>8

\* exception_at returns what the reference says, whatever the engine's order.
LEMMA ExceptionAtExact ==
  ASSUME NEW p \in Nat \X Nat
  PROVE  ExceptionAt(p, exception_at(p))
<1> DEFINE taken == {i \in 1..NumEvents : \A j \in 1..i : Leq(exceptions[j].position, p)}
           hits  == {i \in taken : exceptions[i].position[1] = p[1]}
           here  == {i \in 1..NumEvents : Events[i].position[1] = p[1] /\ Leq(Events[i].position, p)}
<1>1. DOMAIN exceptions = 1..NumEvents
  BY EventIndices DEF exceptions
<1>2. exception_at(p) = IF hits = {} THEN None ELSE exceptions[Max(hits)].code
  BY <1>1 DEF exception_at
<1>3. \A i, j \in 1..NumEvents :
        Before(i, j) /\ Leq(Events[j].position, p) => Leq(Events[i].position, p)
  BY EventIndices DEF Before, Leq
<1>4. \A r \in 1..NumEvents : Leq(Events[Place(r)].position, p) <=> r \in taken
  <2> SUFFICES ASSUME NEW r \in 1..NumEvents
               PROVE  Leq(Events[Place(r)].position, p) <=> r \in taken
    OBVIOUS
  <2>1. r \in 1..r /\ 1..r \subseteq 1..NumEvents
    BY EventIndices
  <2>2. \A j \in 1..r : Before(Place(j), Place(r)) /\ exceptions[j] = Events[Place(j)]
    BY <2>1, StableSort, EventIndices
  <2>3. ASSUME Leq(Events[Place(r)].position, p) PROVE r \in taken
    <3> SUFFICES ASSUME NEW j \in 1..r PROVE Leq(exceptions[j].position, p)
      OBVIOUS
    <3> QED BY <1>3, <2>1, <2>2, <2>3, StableSort
  <2>4. ASSUME r \in taken PROVE Leq(Events[Place(r)].position, p)
    BY <2>1, <2>2, <2>4
  <2> QED BY <2>3, <2>4
<1>5. \A r \in 1..NumEvents : r \in hits <=> Place(r) \in here
  BY <1>4, StableSort
<1>6. \A j \in here : Rank(j) \in hits /\ Place(Rank(j)) = j
  BY <1>5, StableSort
<1>7. hits \subseteq 1..NumEvents
  OBVIOUS
<1>8. ExceptionAt(p, exception_at(p)) =
        IF here = {} THEN exception_at(p) = None
        ELSE \E i \in here :
               /\ \A j \in here : IF Events[j].position = Events[i].position THEN j <= i
                                  ELSE Leq(Events[j].position, Events[i].position)
               /\ exception_at(p) = Events[i].code
  BY EventIndices DEF ExceptionAt
<1> HIDE DEF hits, here, taken
<1>9. CASE hits = {}
  BY <1>2, <1>6, <1>8, <1>9
<1>10. CASE hits # {}
  <2>1. Max(hits) \in hits /\ \A r \in hits : Max(hits) >= r
    <3>1. hits \subseteq 0..NumEvents
      BY <1>7, EventIndices
    <3> QED BY <1>10, <3>1, EventIndices, MaxOfIndices
  <2> DEFINE m == Place(Max(hits))
  <2>2. Max(hits) \in 1..NumEvents
    BY <1>7, <2>1
  <2>3. m \in here /\ exceptions[Max(hits)] = Events[m]
    BY <1>5, <2>1, <2>2, StableSort
  <2>4. \A j \in here : Before(j, m)
    <3> SUFFICES ASSUME NEW j \in here PROVE Before(j, m)
      OBVIOUS
    <3>1. Rank(j) \in hits /\ Rank(j) \in 1..NumEvents /\ Place(Rank(j)) = j
      BY <1>6, <1>7
    <3>2. Rank(j) <= Max(hits)
      BY <2>1, <2>2, <3>1, EventIndices
    <3> QED BY <2>2, <3>1, <3>2, StableSort
  <2>5. exception_at(p) = Events[m].code
    BY <1>2, <1>10, <2>3
  <2> HIDE DEF m
  <2> QED BY <1>8, <2>3, <2>4, <2>5 DEF Before
<1> QED BY <1>9, <1>10

\* A module is found exactly for the addresses it holds.
LEMMA FindModuleExact ==
  ASSUME NEW addr \in Nat
  PROVE  IF find_module(addr) = 0 THEN \A i \in DOMAIN Modules : ~Holds(Modules[i], addr)
         ELSE Holds(Modules[find_module(addr)], addr)
<1> DEFINE I == {i \in 1..Len(Modules) : addr >= Modules[i].base /\ addr - Modules[i].base < Modules[i].size}
<1>1. Len(Modules) \in Nat /\ DOMAIN Modules = 1..Len(Modules)
  BY MetadataConstants
<1>2. \A i \in DOMAIN Modules : Modules[i].base \in Nat /\ Modules[i].size \in Nat
  BY MetadataConstants
<1>3. \A i \in DOMAIN Modules : i \in I <=> Holds(Modules[i], addr)
  BY <1>1, <1>2 DEF Holds
<1>4. find_module(addr) = IF I # {} THEN Min(I) ELSE 0
  BY DEF find_module, SelectInSeq
<1>5. I \subseteq 1..Len(Modules)
  OBVIOUS
<1> HIDE DEF I
<1>6. CASE I = {}
  BY <1>3, <1>4, <1>6
<1>7. CASE I # {}
  <2>1. Min(I) \in I
    BY <1>1, <1>5, <1>7, MinOfIndices
  <2>2. Min(I) \in 1..Len(Modules)
    BY <1>5, <2>1
  <2>3. Min(I) # 0 /\ Min(I) \in DOMAIN Modules
    BY <1>1, <2>2
  <2> QED BY <1>3, <1>4, <1>7, <2>1, <2>3
<1> QED BY <1>6, <1>7

----------------------------------------------------------------------------
(* The answers. *)

\* A qRRCmd "when" is recognised in either wire form.
LEMMA WhenParsed ==
  ASSUME NEW style \in {"old", "new"}
  PROVE  LET args == parse_qrrcmd_args(Encode(style, <<"when">>))
         IN  args # <<>> /\ args[1] = "when"
<1>1. CASE style = "new"
  <2> DEFINE tail == [i \in 1..0 |-> Hex(<<"when">>[i + 1])]
             parts == <<Literal("when"), Literal("-1")>> \o tail
  <2>1. Encode("new", <<"when">>) = parts
    BY DEF Encode
  <2>2. tail \in Seq({}) /\ Len(tail) = 0
    OBVIOUS
  <2> HIDE DEF tail
  <2>3. Len(parts) = 2 /\ parts[1] = Literal("when") /\ parts[2] = Literal("-1")
    BY <2>2
  <2> HIDE DEF parts
  <2>4. parts[1].raw = "when" /\ parts[2].raw = "-1"
    BY <2>3 DEF Literal
  <2> DEFINE more == [i \in 1..0 |-> IF parts[i + 2].text = None THEN parts[i + 2].raw
                                     ELSE parts[i + 2].text]
  <2>5. parse_qrrcmd_args(parts) = <<"when">> \o more
    BY <2>3, <2>4 DEF parse_qrrcmd_args
  <2>6. more \in Seq({}) /\ Len(more) = 0
    OBVIOUS
  <2> HIDE DEF more
  <2>7. <<"when">> \o more # <<>> /\ (<<"when">> \o more)[1] = "when"
    BY <2>6
  <2> QED BY <1>1, <2>1, <2>5, <2>7
<1>2. CASE style = "old"
  <2> DEFINE parts == [i \in 1..1 |-> Hex("when")]
             texts == [i \in 1..1 |-> <<"when">>]
  <2>1. Encode("old", <<"when">>) = parts
    BY DEF Encode
  <2>2. Len(parts) = 1 /\ DOMAIN parts = 1..1 /\ \A i \in 1..1 : parts[i].text = "when"
    BY DEF Hex
  <2> HIDE DEF parts
  <2>3. [i \in DOMAIN parts |-> IF parts[i].text = None THEN <<>> ELSE <<parts[i].text>>] = texts
    BY <2>2 DEF None
  <2>4. parse_qrrcmd_args(parts) = FlattenSeq(texts)
    BY <2>2, <2>3 DEF parse_qrrcmd_args
  <2>5. Len(texts) = 1 /\ texts[1] = <<"when">>
    OBVIOUS
  <2> HIDE DEF texts
  <2>6. FlattenSeq(texts) = <<"when">>
    <3>1. 0 \in Nat /\ Len(texts) = 0 + 1
      BY <2>5
    <3>2. PICK f : Unfolds(f, texts, 0)
      BY <3>1, FlattenUnfold
    <3> QED BY <2>5, <3>2 DEF Unfolds
  <2> QED BY <1>2, <2>1, <2>4, <2>6
<1> QED BY <1>1, <1>2

\* Only a monitor command is answered with a module or with provenance, only g
\* and p with registers.
LEMMA OtherKinds ==
  ASSUME NEW q \in Packets, q.op # "monitor", NEW r \in Answers(q)
  PROVE  r.kind \notin {"module", "provenance"} /\ (r.kind = "registers" => q.op \in {"g", "p"})
<1>1. q.op \in {"g", "extra", "tib", "p", "m", "threads", "offsets", "write", "signals", "decline", "rr"}
  BY DEF Packets
<1>2. CASE q.op = "g"
  <2>1. r \in read_registers(q)
    BY <1>2 DEF Answers
  <2> QED BY <1>2, <2>1 DEF read_registers, Error, Kind
<1>3. CASE q.op = "p"
  <2>1. r \in read_register(q)
    BY <1>3 DEF Answers
  <2> QED BY <1>3, <2>1 DEF read_register, Error, Kind
<1>4. CASE q.op = "m"
  <2>1. r \in read_addrs(q)
    BY <1>4 DEF Answers
  <2> QED BY <2>1 DEF read_addrs, Error, Kind
<1>5. CASE q.op = "extra"
  <2>1. r \in thread_extra_info(q)
    BY <1>5 DEF Answers
  <2> QED BY <2>1 DEF thread_extra_info
<1>6. CASE q.op = "tib"
  <2>1. r \in answer_tib_addr(q)
    BY <1>6 DEF Answers
  <2> QED BY <2>1 DEF answer_tib_addr, Error, Kind
<1>7. CASE q.op \in {"threads", "offsets"}
  BY <1>7 DEF Answers, list_active_threads
<1>8. CASE q.op = "rr"
  <2>1. r \in handle_qrrcmd(q)
    BY <1>8 DEF Answers
  <2> QED BY <2>1 DEF handle_qrrcmd, Kind
<1>9. CASE q.op \in {"write", "signals", "decline"}
  BY <1>9 DEF Answers, Fixed, Error, Kind
<1> QED BY <1>1, <1>2, <1>3, <1>4, <1>5, <1>6, <1>7, <1>8, <1>9

\* monitor ttd module.
LEMMA ModuleAnswer ==
  ASSUME NEW q \in Packets, q.op = "monitor", q.sub = "module", NEW r \in render(q)
  PROVE  ModuleExact(q, r) /\ r.kind \notin {"provenance", "registers"}
<1>1. r \in MonitorModule(q)
  BY DEF render
<1>2. q.args \in {<<>>, <<Bad>>} \cup {<<a>> : a \in Addrs}
  BY DEF Packets
<1>3. CASE r = Kind("usage") \/ r = Kind("bad_argument")
  BY <1>3 DEF Kind, ModuleExact
<1>4. CASE q.args # <<>> /\ q.args[1] # Bad
              /\ r = [kind |-> "module", found |-> find_module(q.args[1]), range |-> module(q.args[1])]
  <2>1. PICK a \in Addrs : q.args = <<a>>
    BY <1>2, <1>4
  <2>2. a \in Nat /\ q.args[1] = a
    BY <2>1, PacketConstants
  <2>3. r.kind = "module" /\ r.found = find_module(a)
    BY <1>4, <2>2
  <2> QED BY <2>2, <2>3, FindModuleExact DEF ModuleExact
<1> QED BY <1>1, <1>3, <1>4 DEF MonitorModule

\* monitor ttd mem: a run that is kept starts in the bytes received.
LEMMA MemAnswer ==
  ASSUME NEW q \in Packets, q.op = "monitor", q.sub = "mem", NEW r \in render(q)
  PROVE  ProvenanceExact(r) /\ r.kind \notin {"module", "registers"}
<1>1. r \in mem(q)
  BY DEF render
<1>2. q.args \in MonitorArgs
  BY DEF Packets
<1> DEFINE len == IF Len(q.args) = 1 THEN DEFAULT_MEM_LEN ELSE q.args[2]
           listed(n, runs) ==
             [kind |-> "provenance", addr |-> q.args[1], read |-> n, at |-> position,
              runs |-> {runs[i] : i \in read_ranges_into(q.args[1], n, runs)},
              capped |-> Cardinality(read_ranges_into(q.args[1], n, runs)) = MEM_RANGES_CAP]
<1>3. mem(q) = IF q.args = <<>> THEN {Kind("usage")}
               ELSE IF q.args[1] = Bad \/ len \notin 1..MEM_LEN_CAP THEN {Kind("bad_argument")}
               ELSE {listed(n, runs) : n \in 0..len,
                                       runs \in {r_ \in EngineRuns : Len(r_) <= MEM_RANGES_CAP}}
  BY DEF mem
<1> HIDE DEF len, listed
<1>4. CASE q.args = <<>> \/ q.args[1] = Bad \/ len \notin 1..MEM_LEN_CAP
  <2>1. r = Kind("usage") \/ r = Kind("bad_argument")
    BY <1>1, <1>3, <1>4
  <2>2. r.kind \notin {"provenance", "module", "registers"}
    BY <2>1 DEF Kind
  <2> QED BY <2>2 DEF ProvenanceExact
<1>5. CASE ~(q.args = <<>> \/ q.args[1] = Bad \/ len \notin 1..MEM_LEN_CAP)
  <2>1. q.args # <<>> /\ q.args[1] # Bad /\ len \in 1..MEM_LEN_CAP
    BY <1>5
  <2>2. q.args[1] \in Nat
    <3>1. PICK a \in Addrs : q.args = <<a>> \/ \E n \in Lens : q.args = <<a, n>>
      BY <1>2, <2>1 DEF MonitorArgs
    <3> QED BY <3>1, PacketConstants, MetadataConstants
  <2>3. PICK n \in 0..len, runs \in EngineRuns : r = listed(n, runs)
    <3>1. r \in {listed(n, runs) : n \in 0..len,
                                   runs \in {r_ \in EngineRuns : Len(r_) <= MEM_RANGES_CAP}}
      BY <1>1, <1>3, <2>1
    <3> QED BY <3>1
  <2>4. /\ r.kind = "provenance" /\ r.addr = q.args[1] /\ r.read = n
        /\ r.runs = {runs[i] : i \in read_ranges_into(q.args[1], n, runs)}
    BY <2>3 DEF listed
  <2>5. \A i \in DOMAIN runs : runs[i].addr \in Nat /\ runs[i].size \in Nat
    <3> DEFINE Run == [addr : 0..TopAddr, size : Nat]
    <3>1. runs \in Seq(Run)
      BY PacketConstants
    <3> HIDE DEF Run
    <3>2. \A i \in DOMAIN runs : runs[i] \in Run
      BY <3>1
    <3> QED BY <3>2, MetadataConstants DEF Run
  <2>6. ASSUME NEW i \in read_ranges_into(q.args[1], n, runs)
        PROVE  \E b \in 0..(n - 1) :
                 q.args[1] + b \in runs[i].addr..(runs[i].addr + runs[i].size - 1)
    <3>1. /\ runs[i].addr \in Nat /\ runs[i].size \in Nat /\ runs[i].size > 0
          /\ q.args[1] <= runs[i].addr /\ runs[i].addr - q.args[1] < n
      BY <2>5 DEF read_ranges_into
    <3>2. runs[i].addr - q.args[1] \in 0..(n - 1) /\ q.args[1] + (runs[i].addr - q.args[1]) = runs[i].addr
      BY <2>1, <2>2, <3>1
    <3>3. runs[i].addr \in runs[i].addr..(runs[i].addr + runs[i].size - 1)
      BY <3>1
    <3> QED BY <3>2, <3>3
  <2>7. r.kind \notin {"module", "registers"}
    BY <2>4
  <2> QED BY <2>4, <2>6, <2>7 DEF ProvenanceExact
<1> QED BY <1>4, <1>5

\* Whatever the handler says, its lookups are exact.
LEMMA AnswerExact ==
  ASSUME NEW q \in Packets, NEW r \in Answers(q) \cup {Busy(q)}
  PROVE  ModuleExact(q, r) /\ ProvenanceExact(r)
<1>1. CASE r = Busy(q)
  <2>1. r.kind \notin {"module", "provenance"}
    BY <1>1 DEF Busy, Kind, Error
  <2> QED BY <2>1 DEF ModuleExact, ProvenanceExact
<1>2. CASE q.op # "monitor" /\ r \in Answers(q)
  BY <1>2, OtherKinds DEF ModuleExact, ProvenanceExact
<1>3. CASE q.op = "monitor" /\ r \in Answers(q)
  <2>1. r \in render(q)
    BY <1>3 DEF Answers
  <2>2. q.sub \in {"mem", "events", "module", "info", "threads", "stats", "other"}
    BY <1>3 DEF Packets
  <2>3. CASE q.sub = "module"
    BY <1>3, <2>1, <2>3, ModuleAnswer DEF ProvenanceExact
  <2>4. CASE q.sub = "mem"
    BY <1>3, <2>1, <2>4, MemAnswer DEF ModuleExact
  <2>5. CASE q.sub = "events"
    <3>1. r \in events(q)
      BY <2>1, <2>5 DEF render
    <3>2. r = Kind("bad_argument") \/ \E shown : r = [kind |-> "events", shown |-> shown]
      BY <3>1, Zenon DEF events
    <3>3. r.kind \in {"events", "bad_argument"}
      BY <3>2 DEF Kind
    <3> QED BY <3>3 DEF ModuleExact, ProvenanceExact
  <2>6. CASE q.sub \in {"info", "threads", "stats", "other"}
    <3>1. r.kind \in {"info", "catalog", "stats", "usage"}
      BY <2>1, <2>6 DEF render, info, Kind
    <3> QED BY <3>1 DEF ModuleExact, ProvenanceExact
  <2> QED BY <2>2, <2>3, <2>4, <2>5, <2>6
<1> QED BY <1>1, <1>2, <1>3

----------------------------------------------------------------------------
(* Lookups stay exact. *)

\* A stopped client has no replay, so nothing moves the backend between its stop
\* and its questions; a packet under way is one a client sends.
SessionInv ==
  /\ position \in Positions /\ result.position = position
  /\ stub = "Stopped" => worker = "Idle"
  /\ query = NoQuery \/ query \in Packets \/ query.op = "xfer"

\* A new packet, a resume and a stop take the last answer away.
LEMMA NoReplyExact ==
  ASSUME CodeExact, reply' = NoReply, UNCHANGED result
  PROVE  LookupsExact'
<1>1. reply'.to.op = "none" /\ reply'.is.kind = "none"
  BY DEF NoReply, NoQuery
<1> QED BY <1>1 DEF LookupsExact, CodeExact, WhenExact, ModuleExact, ProvenanceExact

\* "when", asked by a stopped client, names the position of the stop.
LEMMA WhenAnswer ==
  ASSUME SessionInv, query \in Packets, query.op = "rr", query.words = <<"when">>,
         stub = "Stopped", Reply(query)
  PROVE  reply'.is = [kind |-> "position", at |-> result.position]
<1>1. ~in_flight
  BY DEF SessionInv, in_flight
<1>2. reply'.is \in Answers(query)
  BY <1>1 DEF Reply
<1>3. reply'.is \in handle_qrrcmd(query)
  BY <1>2 DEF Answers
<1>4. query.style \in {"old", "new"}
  BY DEF Packets
<1> DEFINE args == parse_qrrcmd_args(Encode(query.style, <<"when">>))
<1>5. args # <<>> /\ args[1] = "when"
  BY <1>4, WhenParsed
<1>6. handle_qrrcmd(query) = IF args = <<>> \/ args[1] # "when" THEN {Kind("empty")}
                             ELSE {[kind |-> "position", at |-> position]}
  BY DEF handle_qrrcmd
<1> HIDE DEF args
<1> QED BY <1>3, <1>5, <1>6 DEF SessionInv

LEMMA HandleExact ==
  ASSUME XferInv, SessionInv, LookupsExact, HandlePacket
  PROVE  LookupsExact'
<1>1. query # NoQuery /\ Reply(query) /\ UNCHANGED <<stub, result>>
  BY DEF HandlePacket
<1>2. reply'.to = query
  BY <1>1 DEF Reply
<1>3. CodeExact'
  BY <1>1 DEF LookupsExact, CodeExact
<1>4. CASE query.op = "xfer"
  <2>1. reply'.is.kind \in {"E", "chunk"}
    BY <1>1, <1>4, XferAnswer DEF Error, Kind
  <2> QED BY <1>2, <1>3, <1>4, <2>1 DEF LookupsExact, WhenExact, ModuleExact, ProvenanceExact
<1>5. CASE query \in Packets
  <2>1. reply'.is \in Answers(query) \cup {Busy(query)}
    BY <1>1 DEF Reply
  <2>2. ModuleExact(query, reply'.is) /\ ProvenanceExact(reply'.is)
    BY <1>5, <2>1, AnswerExact
  <2>3. ModuleExact(reply.to, reply.is)' /\ ProvenanceExact(reply.is)'
    BY <1>2, <2>2 DEF ModuleExact, ProvenanceExact
  <2>4. WhenExact'
    BY <1>1, <1>2, <1>5, WhenAnswer DEF WhenExact
  <2> QED BY <1>3, <2>3, <2>4 DEF LookupsExact
<1> QED BY <1>1, <1>4, <1>5 DEF SessionInv

\* Every step keeps lookups exact.
LEMMA LookupStep ==
  XferInv /\ SessionInv /\ LookupsExact /\ [Next]_vars => SessionInv' /\ LookupsExact'
<1> SUFFICES ASSUME XferInv, SessionInv, LookupsExact, [Next]_vars
             PROVE  SessionInv' /\ LookupsExact'
  OBVIOUS
<1>1. ASSUME NEW q \in Packets, Ask(q) PROVE SessionInv' /\ LookupsExact'
  <2>1. SessionInv'
    BY <1>1 DEF Ask, MaySend, SessionInv
  <2>2. LookupsExact'
    BY <1>1, NoReplyExact DEF Ask, MaySend, LookupsExact
  <2> QED BY <2>1, <2>2
<1>2. ASSUME NEW o \in Objects, NEW n \in Lengths, AskChunk(o, n) PROVE SessionInv' /\ LookupsExact'
  <2>1. query'.op = "xfer" /\ UNCHANGED <<stub, worker, position, result>> /\ reply' = NoReply
    BY <1>2 DEF AskChunk, MaySend
  <2>2. SessionInv'
    BY <2>1 DEF SessionInv
  <2>3. LookupsExact'
    BY <2>1, NoReplyExact DEF LookupsExact
  <2> QED BY <2>2, <2>3
<1>3. CASE HandlePacket
  <2>1. SessionInv'
    BY <1>3 DEF HandlePacket, SessionInv
  <2>2. LookupsExact'
    BY <1>3, HandleExact
  <2> QED BY <2>1, <2>2
<1>4. CASE Resume
  <2>1. SessionInv'
    BY <1>4 DEF Resume, SessionInv
  <2>2. LookupsExact'
    BY <1>4, NoReplyExact DEF Resume, LookupsExact
  <2> QED BY <2>1, <2>2
<1>5. ASSUME NEW p \in Positions, WorkerClears(p) PROVE SessionInv' /\ LookupsExact'
  <2>1. PICK exception \in BOOLEAN :
          result' = [position |-> p, code |-> IF exception THEN exception_at(p) ELSE Unset]
    BY <1>5 DEF WorkerClears
  <2>2. result'.position = p /\ result'.code \in {exception_at(p), Unset}
    BY <2>1
  <2>3. /\ position' = p /\ worker = "InFlight" /\ UNCHANGED <<stub, query, reply>>
        /\ worker' = "Cleared"
    BY <1>5 DEF WorkerClears
  <2>4. stub' # "Stopped"
    BY <2>3 DEF SessionInv
  <2>5. SessionInv'
    BY <2>2, <2>3, <2>4 DEF SessionInv
  <2>6. ExceptionAt(p, exception_at(p))
    BY MetadataConstants, ExceptionAtExact
  <2>7. CodeExact'
    BY <2>2, <2>6 DEF CodeExact
  <2>8. WhenExact' /\ ModuleExact(reply.to, reply.is)' /\ ProvenanceExact(reply.is)'
    BY <2>3, <2>4 DEF LookupsExact, WhenExact, ModuleExact, ProvenanceExact
  <2> QED BY <2>5, <2>7, <2>8 DEF LookupsExact
<1>6. CASE WorkerSends \/ UNCHANGED vars
  <2>1. UNCHANGED <<stub, position, result, query, reply>> /\ (worker = "Idle" => worker' = "Idle")
    BY <1>6 DEF WorkerSends, vars
  <2>2. SessionInv'
    BY <2>1 DEF SessionInv
  <2>3. LookupsExact'
    BY <2>1 DEF LookupsExact, CodeExact, WhenExact, ModuleExact, ProvenanceExact
  <2> QED BY <2>2, <2>3
<1>7. CASE TakeStop
  <2>1. SessionInv'
    BY <1>7 DEF TakeStop, SessionInv
  <2>2. LookupsExact'
    BY <1>7, NoReplyExact DEF TakeStop, LookupsExact
  <2> QED BY <2>1, <2>2
<1> QED BY <1>1, <1>2, <1>3, <1>4, <1>5, <1>6, <1>7 DEF Next

\* The session's invariant together with the lookups.
THEOREM SessionInvariant == Spec => [](SessionInv /\ LookupsExact)
<1>1. Init => SessionInv /\ LookupsExact
  <2> SUFFICES ASSUME Init PROVE SessionInv /\ LookupsExact
    OBVIOUS
  <2>1. result.code = Unset /\ result.position = position /\ reply = NoReply
    BY DEF Init
  <2>2. reply.to.op = "none" /\ reply.is.kind = "none"
    BY <2>1 DEF NoReply, NoQuery
  <2>3. SessionInv
    BY <2>1 DEF Init, SessionInv
  <2>4. LookupsExact
    BY <2>1, <2>2 DEF LookupsExact, CodeExact, WhenExact, ModuleExact, ProvenanceExact
  <2> QED BY <2>3, <2>4
<1> QED BY <1>1, LookupStep, XferInvariant, PTL DEF Spec

\* LookupsExact for every trace, module list, engine order and interleaving of
\* packets with replays: exception_at over the sorted events, monitor ttd module
\* and mem, and rr's "when" answer what the tables and the backend say.
THEOREM LookupsAreExact == Spec => []LookupsExact
  BY SessionInvariant, PTL

----------------------------------------------------------------------------
(* RegisterFile: from the recorded context to the registers of the target  *)
(* description.                                                            *)

\* The bytes registers are made of: those of the recorded fields and of a TEB.
Recorded == {DecodeOrder[i] : i \in 1..81}
Byte     == {Zero} \cup {<<f, k>> : f \in Recorded \cup {<<"Teb", tid, 0>> : tid \in Catalog},
                                    k \in 1..8}

\* A field is 1, 2, 4 or 8 bytes wide.
LEMMA Widths == \A f : Width(f) \in {1, 2, 4, 8}
  BY DEF Width

LEMMA BytesSeq ==
  ASSUME NEW f \in Recorded
  PROVE  Bytes(f) \in Seq(Byte) /\ Len(Bytes(f)) = Width(f)
<1>1. Width(f) \in {1, 2, 4, 8}
  BY Widths
<1>2. \A k \in 1..8 : <<f, k>> \in Byte
  BY DEF Byte
<1>3. \A k \in 1..Width(f) : <<f, k>> \in Byte
  BY <1>1, <1>2
<1>4. Width(f) \in Nat
  BY <1>1
<1> QED BY <1>3, <1>4 DEF Bytes

LEMMA ZerosSeq ==
  ASSUME NEW n \in Nat
  PROVE  Zeros(n) \in Seq(Byte) /\ Len(Zeros(n)) = n
<1>1. Zero \in Byte
  BY DEF Byte
<1> QED BY <1>1 DEF Zeros

LEMMA TebSeq ==
  ASSUME NEW tid \in Catalog
  PROVE  Teb(tid) \in Seq(Byte) /\ Len(Teb(tid)) = 8
<1>1. \A k \in 1..8 : <<<<"Teb", tid, 0>>, k>> \in Byte
  <2> DEFINE t == <<"Teb", tid, 0>>
  <2>1. t \in Recorded \cup {<<"Teb", i, 0>> : i \in Catalog}
    OBVIOUS
  <2> HIDE DEF t
  <2>2. \A k \in 1..8 : <<t, k>> \in Byte
    BY <2>1 DEF Byte
  <2> QED BY <2>2 DEF t
<1>2. CASE tid \in NoTeb
  BY <1>2, ZerosSeq DEF Teb
<1>3. CASE tid \notin NoTeb
  BY <1>1, <1>3 DEF Teb
<1> QED BY <1>2, <1>3

\* Widening keeps the bytes there are and adds zeros.
LEMMA WidenSeq ==
  ASSUME NEW b \in Seq(Byte), NEW n \in Nat, Len(b) <= n
  PROVE  /\ Widen(b, n) \in Seq(Byte) /\ Len(Widen(b, n)) = n
         /\ Len(b) = n => Widen(b, n) = b
<1> DEFINE z == Zeros(n - Len(b))
<1>1. z \in Seq(Byte) /\ Len(z) = n - Len(b)
  BY ZerosSeq
<1>2. Widen(b, n) = b \o z
  BY DEF Widen
<1> HIDE DEF z
<1>3. b \o z \in Seq(Byte) /\ Len(b \o z) = n
  BY <1>1
<1>4. Len(z) = 0 => b \o z = b
  BY <1>1
<1> QED BY <1>1, <1>2, <1>3, <1>4

LEMMA SingleSeq ==
  ASSUME NEW names, NEW n, SeqOfLen(names, n)
  PROVE  /\ SeqOfLen(Single(names), n)
         /\ \A i \in 1..n : Single(names)[i] = <<names[i], 0, 0>>
<1>1. n \in Nat /\ DOMAIN names = 1..n
  BY DEF SeqOfLen
<1> QED BY <1>1 DEF Single, SeqOfLen

LEMMA HalvesSeq ==
  ASSUME NEW name, NEW n \in Nat
  PROVE  /\ SeqOfLen(Halves(name, n), 2 * n)
         /\ \A i \in 0..(n - 1), h \in 0..1 : Halves(name, n)[2 * i + h + 1] = <<name, i, h>>
<1>1. 2 * n \in Nat
  OBVIOUS
<1>2. SeqOfLen(Halves(name, n), 2 * n)
  BY <1>1 DEF Halves, SeqOfLen
<1>3. ASSUME NEW i \in 0..(n - 1), NEW h \in 0..1
      PROVE  Halves(name, n)[2 * i + h + 1] = <<name, i, h>>
  <2> DEFINE j == 2 * i + h + 1
  <2>1. j \in 1..(2 * n)
    OBVIOUS
  <2>2. (j - 1) \div 2 = i /\ (j - 1) % 2 = h
    OBVIOUS
  <2> HIDE DEF j
  <2>3. Halves(name, n)[j] = <<name, (j - 1) \div 2, (j - 1) % 2>>
    BY <2>1 DEF Halves
  <2> QED BY <2>2, <2>3 DEF j
<1> QED BY <1>2, <1>3

\* The order of the recorded fields, by its four parts.
WordNames  == <<"Rax", "Rbx", "Rcx", "Rdx", "Rsi", "Rdi", "Rbp", "Rsp", "R8", "R9", "R10",
                "R11", "R12", "R13", "R14", "R15", "Rip", "EFlags",
                "SegCs", "SegDs", "SegEs", "SegFs", "SegGs", "SegSs">>
FloatNames == <<"ControlWord", "StatusWord", "TagWord", "ErrorOpcode", "ErrorOffset",
                "ErrorSelector", "DataOffset", "DataSelector", "MxCsr">>

LEMMA FieldOrder ==
  /\ SeqOfLen(DecodeOrder, 81)
  /\ \A i \in 1..24 : DecodeOrder[i] = <<WordNames[i], 0, 0>>
  /\ \A i \in 0..7, h \in 0..1 : DecodeOrder[24 + (2 * i + h + 1)] = <<"Float", i, h>>
  /\ \A i \in 0..15, h \in 0..1 : DecodeOrder[40 + (2 * i + h + 1)] = <<"Xmm", i, h>>
  /\ \A i \in 1..9 : DecodeOrder[72 + i] = <<FloatNames[i], 0, 0>>
<1> DEFINE a == Single(WordNames)
           b == Halves("Float", 8)
           c == Halves("Xmm", 16)
           d == Single(FloatNames)
<1>1. SeqOfLen(WordNames, 24)
  BY DEF WordNames, SeqOfLen
<1>2. SeqOfLen(FloatNames, 9)
  BY DEF FloatNames, SeqOfLen
<1>3. SeqOfLen(a, 24) /\ \A i \in 1..24 : a[i] = <<WordNames[i], 0, 0>>
  BY <1>1, SingleSeq
<1>4. SeqOfLen(d, 9) /\ \A i \in 1..9 : d[i] = <<FloatNames[i], 0, 0>>
  BY <1>2, SingleSeq
<1>5. SeqOfLen(b, 16) /\ \A i \in 0..7, h \in 0..1 : b[2 * i + h + 1] = <<"Float", i, h>>
  <2>1. 2 * 8 = 16 /\ 8 - 1 = 7 /\ 8 \in Nat
    OBVIOUS
  <2>2. SeqOfLen(b, 2 * 8) /\ \A i \in 0..(8 - 1), h \in 0..1 : b[2 * i + h + 1] = <<"Float", i, h>>
    BY <2>1, HalvesSeq
  <2> HIDE DEF b
  <2> QED BY <2>1, <2>2
<1>6. SeqOfLen(c, 32) /\ \A i \in 0..15, h \in 0..1 : c[2 * i + h + 1] = <<"Xmm", i, h>>
  <2>1. 2 * 16 = 32 /\ 16 - 1 = 15 /\ 16 \in Nat
    OBVIOUS
  <2>2. SeqOfLen(c, 2 * 16) /\ \A i \in 0..(16 - 1), h \in 0..1 : c[2 * i + h + 1] = <<"Xmm", i, h>>
    BY <2>1, HalvesSeq
  <2> HIDE DEF c
  <2> QED BY <2>1, <2>2
<1>7. DecodeOrder = a \o b \o c \o d
  BY DEF DecodeOrder, WordNames, FloatNames
<1> DEFINE ab == a \o b
           abc == ab \o c
           abcd == abc \o d
<1> HIDE DEF a, b, c, d
<1>8. JoinOf(ab, a, 24, b, 16)
  BY <1>3, <1>5, Joined
<1> HIDE DEF ab
<1>9. JoinOf(abc, ab, 40, c, 32)
  <2>1. SeqOfLen(ab, 40)
    BY <1>8 DEF JoinOf
  <2> QED BY <1>6, <2>1, Joined
<1> HIDE DEF abc
<1>10. JoinOf(abcd, abc, 72, d, 9)
  <2>1. SeqOfLen(abc, 72)
    BY <1>9 DEF JoinOf
  <2> QED BY <1>4, <2>1, Joined
<1> HIDE DEF abcd
<1>11. DecodeOrder = abcd
  BY <1>7 DEF ab, abc, abcd
<1>12. \A i \in 1..24 : abcd[i] = <<WordNames[i], 0, 0>>
  BY <1>3, <1>8, <1>9, <1>10 DEF JoinOf
<1>13. \A i \in 0..7, h \in 0..1 : abcd[24 + (2 * i + h + 1)] = <<"Float", i, h>>
  <2> SUFFICES ASSUME NEW i \in 0..7, NEW h \in 0..1
               PROVE  abcd[24 + (2 * i + h + 1)] = <<"Float", i, h>>
    OBVIOUS
  <2>1. 2 * i + h + 1 \in 1..16 /\ 24 + (2 * i + h + 1) \in 1..40 /\ 24 + (2 * i + h + 1) \in 1..72
    OBVIOUS
  <2> QED BY <1>5, <1>8, <1>9, <1>10, <2>1 DEF JoinOf
<1>14. \A i \in 0..15, h \in 0..1 : abcd[40 + (2 * i + h + 1)] = <<"Xmm", i, h>>
  <2> SUFFICES ASSUME NEW i \in 0..15, NEW h \in 0..1
               PROVE  abcd[40 + (2 * i + h + 1)] = <<"Xmm", i, h>>
    OBVIOUS
  <2>1. 2 * i + h + 1 \in 1..32 /\ 40 + (2 * i + h + 1) \in 1..72
    OBVIOUS
  <2> QED BY <1>6, <1>9, <1>10, <2>1 DEF JoinOf
<1>15. SeqOfLen(abcd, 81) /\ \A i \in 1..9 : abcd[72 + i] = <<FloatNames[i], 0, 0>>
  BY <1>4, <1>10 DEF JoinOf
<1> QED BY <1>11, <1>12, <1>13, <1>14, <1>15

\* The encoder and the decoder agree, so a context holds the recorded bytes.
LEMMA ContextBytes ==
  ASSUME NEW f \in Recorded
  PROVE  Context[f] = Bytes(f)
<1>1. GetAmd64Context = DecodeOrder
  BY DEF GetAmd64Context, DecodeOrder
<1>2. Len(DecodeOrder) = 81 /\ DOMAIN DecodeOrder = 1..81
  BY FieldOrder, LengthOf
<1>3. \A j \in 1..81 : ~(Width(DecodeOrder[j]) > Width(DecodeOrder[j]))
  <2> SUFFICES ASSUME NEW j \in 1..81 PROVE ~(Width(DecodeOrder[j]) > Width(DecodeOrder[j]))
    OBVIOUS
  <2>1. Width(DecodeOrder[j]) \in Nat
    BY Widths
  <2> QED BY <2>1
<1> DEFINE I == {j \in 1..Len(DecodeOrder) : DecodeOrder[j] = f}
<1>4. f \in ToSet(DecodeOrder)
  BY <1>2 DEF ToSet, Recorded
<1>5. I # {} /\ I \subseteq Nat
  BY <1>2 DEF Recorded
<1>6. DecodeOrder[Min(I)] = f
  <2>1. Min(I) \in I
    BY <1>5, MinOfIndices
  <2> QED BY <2>1
<1>7. SelectInSeq(DecodeOrder, LAMBDA g : g = f) = Min(I)
  BY <1>5 DEF SelectInSeq
<1>8. Context[f] = Widen(Bytes(DecodeOrder[Min(I)]), Width(f))
  <2>1. Context = [g \in ToSet(DecodeOrder) |->
                     Widen(Bytes(DecodeOrder[SelectInSeq(DecodeOrder, LAMBDA g_ : g_ = g)]), Width(g))]
    BY <1>1, <1>2, <1>3 DEF Context, decode_amd64_context
  <2>2. Context[f] = Widen(Bytes(DecodeOrder[SelectInSeq(DecodeOrder, LAMBDA g_ : g_ = f)]), Width(f))
    BY <1>4, <2>1
  <2> QED BY <1>7, <2>2
<1>9. Widen(Bytes(f), Width(f)) = Bytes(f)
  BY BytesSeq, Widths, WidenSeq
<1> QED BY <1>6, <1>8, <1>9

\* The names that a register class or a feature of the description lists.
GprNames == <<"Rax", "Rbx", "Rcx", "Rdx", "Rsi", "Rdi", "Rbp", "Rsp",
              "R8", "R9", "R10", "R11", "R12", "R13", "R14", "R15">>
SegNames == <<"SegCs", "SegSs", "SegDs", "SegEs", "SegFs", "SegGs">>
FpuNames == <<"ControlWord", "StatusWord", "TagWord", "ErrorSelector",
              "ErrorOffset", "DataSelector", "DataOffset", "ErrorOpcode">>

Field(name) == <<name, 0, 0>>

\* Every field a register is made of is recorded, and has the register's width or less.
LEMMA RecordedFields ==
  /\ \A i \in 1..16 : Field(GprNames[i]) \in Recorded /\ Width(Field(GprNames[i])) = 8
  /\ Field("Rip") \in Recorded /\ Width(Field("Rip")) = 8
  /\ Field("EFlags") \in Recorded /\ Width(Field("EFlags")) = 4
  /\ \A i \in 1..6 : Field(SegNames[i]) \in Recorded /\ Width(Field(SegNames[i])) <= 4
  /\ \A i \in 1..8 : Field(FpuNames[i]) \in Recorded /\ Width(Field(FpuNames[i])) <= 4
  /\ Field("MxCsr") \in Recorded /\ Width(Field("MxCsr")) = 4
<1>1. ASSUME NEW j \in 1..24 PROVE Field(WordNames[j]) \in Recorded
  <2>1. DecodeOrder[j] = Field(WordNames[j]) /\ j \in 1..81
    BY FieldOrder DEF Field
  <2> QED BY <2>1 DEF Recorded
<1>2. ASSUME NEW j \in 1..9 PROVE Field(FloatNames[j]) \in Recorded
  <2>1. DecodeOrder[72 + j] = Field(FloatNames[j]) /\ 72 + j \in 1..81
    BY FieldOrder DEF Field
  <2> QED BY <2>1 DEF Recorded
<1>3. \A i \in 1..16 : GprNames[i] = WordNames[i] /\ i \in 1..24
  BY DEF GprNames, WordNames
<1>4. "Rip" = WordNames[17] /\ "EFlags" = WordNames[18]
  BY DEF WordNames
<1>5. \A i \in 1..6 : \E j \in 1..24 : SegNames[i] = WordNames[j]
  BY DEF SegNames, WordNames
<1>6. \A i \in 1..8 : \E j \in 1..9 : FpuNames[i] = FloatNames[j]
  BY DEF FpuNames, FloatNames
<1>7. "MxCsr" = FloatNames[9]
  BY DEF FloatNames
<1>8. \A i \in 1..16 : Width(Field(GprNames[i])) = 8
  BY DEF Width, Field, GprNames
<1>9. \A i \in 1..6 : Width(Field(SegNames[i])) <= 4
  BY DEF Width, Field, SegNames
<1>10. \A i \in 1..8 : Width(Field(FpuNames[i])) <= 4
  BY DEF Width, Field, FpuNames
<1>11. Width(Field("Rip")) = 8 /\ Width(Field("EFlags")) = 4 /\ Width(Field("MxCsr")) = 4
  BY DEF Width, Field
<1>12. \A i \in 1..16 : Field(GprNames[i]) \in Recorded
  BY <1>1, <1>3
<1>13. Field("Rip") \in Recorded /\ Field("EFlags") \in Recorded
  BY <1>1, <1>4
<1>14. \A i \in 1..6 : Field(SegNames[i]) \in Recorded
  BY <1>1, <1>5
<1>15. \A i \in 1..8 : Field(FpuNames[i]) \in Recorded
  BY <1>2, <1>6
<1>16. Field("MxCsr") \in Recorded
  BY <1>2, <1>7
<1> QED BY <1>8, <1>9, <1>10, <1>11, <1>12, <1>13, <1>14, <1>15, <1>16

LEMMA RecordedHalves ==
  /\ \A i \in 0..7, h \in 0..1 : <<"Float", i, h>> \in Recorded /\ Width(<<"Float", i, h>>) = 8
  /\ \A i \in 0..15, h \in 0..1 : <<"Xmm", i, h>> \in Recorded /\ Width(<<"Xmm", i, h>>) = 8
<1>1. ASSUME NEW i \in 0..7, NEW h \in 0..1 PROVE <<"Float", i, h>> \in Recorded
  <2>1. DecodeOrder[24 + (2 * i + h + 1)] = <<"Float", i, h>> /\ 24 + (2 * i + h + 1) \in 1..81
    BY FieldOrder
  <2> QED BY <2>1 DEF Recorded
<1>2. ASSUME NEW i \in 0..15, NEW h \in 0..1 PROVE <<"Xmm", i, h>> \in Recorded
  <2>1. DecodeOrder[40 + (2 * i + h + 1)] = <<"Xmm", i, h>> /\ 40 + (2 * i + h + 1) \in 1..81
    BY FieldOrder
  <2> QED BY <2>1 DEF Recorded
<1>3. \A i, h : Width(<<"Float", i, h>>) = 8 /\ Width(<<"Xmm", i, h>>) = 8
  BY DEF Width
<1> QED BY <1>1, <1>2, <1>3

\* The first n elements of a sequence.
LEMMA StartOf ==
  ASSUME NEW B, NEW s \in Seq(B), NEW n \in Nat, n <= Len(s)
  PROVE  /\ SubSeq(s, 1, n) \in Seq(B) /\ Len(SubSeq(s, 1, n)) = n
         /\ \A i \in 1..n : SubSeq(s, 1, n)[i] = s[i]
<1>1. \A i \in 1..n : s[i] \in B
  OBVIOUS
<1> QED BY <1>1, SubSeqProperties

\* A cut in the second part of a concatenation is a cut of that part.
LEMMA CutOf ==
  ASSUME NEW B, NEW a \in Seq(B), NEW b \in Seq(B), NEW n \in Nat, n <= Len(b)
  PROVE  /\ SubSeq(a \o b, 1, Len(a) + n) = a \o SubSeq(b, 1, n)
         /\ a \o SubSeq(b, 1, n) \in Seq(B) /\ Len(a \o SubSeq(b, 1, n)) = Len(a) + n
<1> DEFINE ab == a \o b
           c  == SubSeq(b, 1, n)
           r  == a \o c
           l  == SubSeq(ab, 1, Len(a) + n)
<1>1. c \in Seq(B) /\ Len(c) = n /\ \A i \in 1..n : c[i] = b[i]
  BY StartOf
<1> HIDE DEF c
<1>2. /\ ab \in Seq(B) /\ Len(ab) = Len(a) + Len(b)
      /\ \A i \in 1..(Len(a) + Len(b)) : ab[i] = IF i <= Len(a) THEN a[i] ELSE b[i - Len(a)]
  BY ConcatProperties
<1>3. /\ r \in Seq(B) /\ Len(r) = Len(a) + n
      /\ \A i \in 1..(Len(a) + n) : r[i] = IF i <= Len(a) THEN a[i] ELSE c[i - Len(a)]
  BY <1>1, ConcatProperties
<1> HIDE DEF ab, r
<1>4. l \in Seq(B) /\ Len(l) = Len(a) + n /\ \A i \in 1..(Len(a) + n) : l[i] = ab[i]
  BY <1>2, StartOf
<1> HIDE DEF l
<1>5. ASSUME NEW i \in 1..Len(l) PROVE l[i] = r[i]
  <2>1. Len(a) \in Nat /\ Len(b) \in Nat /\ i \in 1..(Len(a) + n) /\ i \in 1..(Len(a) + Len(b)) /\ l[i] = ab[i]
    BY <1>4
  <2>2. CASE i <= Len(a)
    BY <1>2, <1>3, <2>1, <2>2
  <2>3. CASE i > Len(a)
    <3>1. i - Len(a) \in 1..n /\ ~(i <= Len(a))
      BY <2>1, <2>3
    <3>2. c[i - Len(a)] = b[i - Len(a)]
      BY <1>1, <3>1
    <3>3. ab[i] = b[i - Len(a)] /\ r[i] = c[i - Len(a)]
      BY <1>2, <1>3, <2>1, <3>1
    <3> QED BY <2>1, <3>2, <3>3
  <2> QED BY <2>1, <2>2, <2>3
<1>6. l = r
  BY <1>3, <1>4, <1>5, SeqEqual
<1> QED BY <1>3, <1>6 DEF l, r, ab, c

LEMMA PlainSeq ==
  ASSUME NEW names, NEW n, SeqOfLen(names, n), NEW size
  PROVE  /\ SeqOfLen(Plain(names, size), n)
         /\ \A i \in 1..n : Plain(names, size)[i] = Widen(Bytes(Field(names[i])), size)
<1>1. n \in Nat /\ DOMAIN names = 1..n
  BY DEF SeqOfLen
<1>2. Plain(names, size) = [i \in 1..n |-> Widen(Bytes(Field(names[i])), size)]
  BY <1>1 DEF Plain, Field
<1> QED BY <1>1, <1>2 DEF SeqOfLen

LEMMA PairBytes ==
  ASSUME NEW name, NEW i, <<name, i, 0>> \in Recorded, <<name, i, 1>> \in Recorded,
         Width(<<name, i, 0>>) = 8, Width(<<name, i, 1>>) = 8
  PROVE  /\ Pair(name, i) \in Seq(Byte) /\ Len(Pair(name, i)) = 16
         /\ SubSeq(Pair(name, i), 1, 10) = Bytes(<<name, i, 0>>) \o SubSeq(Bytes(<<name, i, 1>>), 1, 2)
         /\ SubSeq(Pair(name, i), 1, 10) \in Seq(Byte) /\ Len(SubSeq(Pair(name, i), 1, 10)) = 10
<1> DEFINE a == Bytes(<<name, i, 0>>)
           b == Bytes(<<name, i, 1>>)
<1>1. a \in Seq(Byte) /\ Len(a) = 8 /\ b \in Seq(Byte) /\ Len(b) = 8
  BY BytesSeq
<1> HIDE DEF a, b
<1>2. a \o b \in Seq(Byte) /\ Len(a \o b) = Len(a) + Len(b)
  BY <1>1, ConcatProperties
<1>3. /\ SubSeq(a \o b, 1, Len(a) + 2) = a \o SubSeq(b, 1, 2)
      /\ a \o SubSeq(b, 1, 2) \in Seq(Byte) /\ Len(a \o SubSeq(b, 1, 2)) = Len(a) + 2
  <2>1. 2 \in Nat /\ 2 <= Len(b)
    BY <1>1
  <2> QED BY <1>1, <2>1, CutOf
<1>4. Len(a) + 2 = 10 /\ Len(a) + Len(b) = 16
  BY <1>1
<1> QED BY <1>2, <1>3, <1>4, Zenon DEF Pair, a, b

\* The 80-bit register i of the description.
StBytes(i) == SubSeq(Pair("Float", i), 1, 10)

LEMMA HalvesOf ==
  /\ \A i \in 0..7  : /\ StBytes(i) = Bytes(<<"Float", i, 0>>) \o SubSeq(Bytes(<<"Float", i, 1>>), 1, 2)
                      /\ StBytes(i) \in Seq(Byte) /\ Len(StBytes(i)) = 10
  /\ \A i \in 0..15 : Pair("Xmm", i) \in Seq(Byte) /\ Len(Pair("Xmm", i)) = 16
<1>1. 0 \in 0..1 /\ 1 \in 0..1
  OBVIOUS
<1>2. ASSUME NEW i \in 0..7
      PROVE  /\ StBytes(i) = Bytes(<<"Float", i, 0>>) \o SubSeq(Bytes(<<"Float", i, 1>>), 1, 2)
             /\ StBytes(i) \in Seq(Byte) /\ Len(StBytes(i)) = 10
  <2>1. /\ <<"Float", i, 0>> \in Recorded /\ <<"Float", i, 1>> \in Recorded
        /\ Width(<<"Float", i, 0>>) = 8 /\ Width(<<"Float", i, 1>>) = 8
    BY <1>1, RecordedHalves, Zenon
  <2> QED BY <2>1, PairBytes, Zenon DEF StBytes
<1>3. ASSUME NEW i \in 0..15 PROVE Pair("Xmm", i) \in Seq(Byte) /\ Len(Pair("Xmm", i)) = 16
  <2>1. /\ <<"Xmm", i, 0>> \in Recorded /\ <<"Xmm", i, 1>> \in Recorded
        /\ Width(<<"Xmm", i, 0>>) = 8 /\ Width(<<"Xmm", i, 1>>) = 8
    BY <1>1, RecordedHalves, Zenon
  <2> QED BY <2>1, PairBytes, Zenon
<1> QED BY <1>2, <1>3, Zenon

\* What the register file holds: the recorded bytes, in the classes of regs.rs.
File(teb) == from_ttd(Context, teb)

FileIs(F, teb) ==
  /\ \A i \in 0..15 : F["Gpr"][i] = Bytes(Field(GprNames[i + 1]))
  /\ F["Rip"][0] = Bytes(Field("Rip"))
  /\ F["Eflags"][0] = Bytes(Field("EFlags"))
  /\ \A i \in 0..5  : F["Segment"][i] = Widen(Bytes(Field(SegNames[i + 1])), 4)
  /\ \A i \in 0..7  : F["St"][i] = StBytes(i)
  /\ \A i \in 0..7  : F["Fpu"][i] = Widen(Bytes(Field(FpuNames[i + 1])), 4)
  /\ \A i \in 0..15 : F["Xmm"][i] = Pair("Xmm", i)
  /\ F["Mxcsr"][0] = Bytes(Field("MxCsr"))
  /\ F["FsBase"][0] = Zeros(8)
  /\ F["GsBase"][0] = teb

LEMMA FileElements ==
  ASSUME NEW teb
  PROVE  FileIs(File(teb), teb)
<1> DEFINE ctx == Context
<1>1. \A f \in Recorded : ctx[f] = Bytes(f)
  BY ContextBytes
<1> HIDE DEF ctx
<1>2. /\ \A i \in 0..15 : File(teb)["Gpr"][i] = ctx[Field(GprNames[i + 1])]
      /\ File(teb)["Rip"][0] = ctx[Field("Rip")]
      /\ File(teb)["Eflags"][0] = ctx[Field("EFlags")]
  BY DEF File, from_ttd, ctx, Field, GprNames
<1>3. \A i \in 0..5 : File(teb)["Segment"][i] = Widen(ctx[Field(SegNames[i + 1])], 4)
  BY DEF File, from_ttd, ctx, Field, SegNames
<1>4. \A i \in 0..7 : File(teb)["Fpu"][i] = Widen(ctx[Field(FpuNames[i + 1])], 4)
  BY DEF File, from_ttd, ctx, Field, FpuNames
<1>5. /\ \A i \in 0..7 : File(teb)["St"][i] = ctx[<<"Float", i, 0>>] \o SubSeq(ctx[<<"Float", i, 1>>], 1, 2)
      /\ \A i \in 0..15 : File(teb)["Xmm"][i] = ctx[<<"Xmm", i, 0>>] \o ctx[<<"Xmm", i, 1>>]
  BY DEF File, from_ttd, ctx
<1>6. /\ File(teb)["Mxcsr"][0] = ctx[Field("MxCsr")]
      /\ File(teb)["FsBase"][0] = Zeros(8)
      /\ File(teb)["GsBase"][0] = teb
  BY DEF File, from_ttd, ctx, Field
<1>7. /\ \A i \in 0..15 : i + 1 \in 1..16 /\ Field(GprNames[i + 1]) \in Recorded
      /\ \A i \in 0..5 : i + 1 \in 1..6 /\ Field(SegNames[i + 1]) \in Recorded
      /\ \A i \in 0..7 : i + 1 \in 1..8 /\ Field(FpuNames[i + 1]) \in Recorded
  BY RecordedFields
<1>8. \A i \in 0..15 : File(teb)["Gpr"][i] = Bytes(Field(GprNames[i + 1]))
  BY <1>1, <1>2, <1>7
<1>9. \A i \in 0..5 : File(teb)["Segment"][i] = Widen(Bytes(Field(SegNames[i + 1])), 4)
  BY <1>1, <1>3, <1>7
<1>10. \A i \in 0..7 : File(teb)["Fpu"][i] = Widen(Bytes(Field(FpuNames[i + 1])), 4)
  BY <1>1, <1>4, <1>7
<1>11. ASSUME NEW i \in 0..7
       PROVE  File(teb)["St"][i] = StBytes(i)
  <2>1. 0 \in 0..1 /\ 1 \in 0..1
    OBVIOUS
  <2>2. <<"Float", i, 0>> \in Recorded /\ <<"Float", i, 1>> \in Recorded
    BY <2>1, RecordedHalves, Zenon
  <2>3. ctx[<<"Float", i, 0>>] = Bytes(<<"Float", i, 0>>) /\ ctx[<<"Float", i, 1>>] = Bytes(<<"Float", i, 1>>)
    BY <1>1, <2>2, Zenon
  <2> QED BY <1>5, <2>3, HalvesOf, Zenon
<1>12. ASSUME NEW i \in 0..15 PROVE File(teb)["Xmm"][i] = Pair("Xmm", i)
  <2>1. 0 \in 0..1 /\ 1 \in 0..1
    OBVIOUS
  <2>2. <<"Xmm", i, 0>> \in Recorded /\ <<"Xmm", i, 1>> \in Recorded
    BY <2>1, RecordedHalves, Zenon
  <2>3. ctx[<<"Xmm", i, 0>>] = Bytes(<<"Xmm", i, 0>>) /\ ctx[<<"Xmm", i, 1>>] = Bytes(<<"Xmm", i, 1>>)
    BY <1>1, <2>2, Zenon
  <2> QED BY <1>5, <2>3, Zenon DEF Pair
<1>13. /\ File(teb)["Rip"][0] = Bytes(Field("Rip"))
       /\ File(teb)["Eflags"][0] = Bytes(Field("EFlags"))
       /\ File(teb)["Mxcsr"][0] = Bytes(Field("MxCsr"))
  BY <1>1, <1>2, <1>6, RecordedFields
<1> QED BY <1>6, <1>8, <1>9, <1>10, <1>11, <1>12, <1>13, Zenon DEF FileIs

\* The registers of the description, by its parts.
MainNames == <<"Rax", "Rbx", "Rcx", "Rdx", "Rsi", "Rdi", "Rbp", "Rsp", "R8", "R9", "R10",
               "R11", "R12", "R13", "R14", "R15", "Rip">>
FlagNames == <<"EFlags", "SegCs", "SegSs", "SegDs", "SegEs", "SegFs", "SegGs">>

DescribedAs(D, teb) ==
  /\ SeqOfLen(D, 59)
  /\ \A i \in 1..17 : D[i] = Widen(Bytes(Field(MainNames[i])), 8)
  /\ \A i \in 1..7  : D[17 + i] = Widen(Bytes(Field(FlagNames[i])), 4)
  /\ \A i \in 1..8  : D[24 + i] = StBytes(i - 1)
  /\ \A i \in 1..8  : D[32 + i] = Widen(Bytes(Field(FpuNames[i])), 4)
  /\ \A i \in 1..16 : D[40 + i] = Pair("Xmm", i - 1)
  /\ D[57] = Widen(Bytes(Field("MxCsr")), 4)
  /\ D[58] = Zeros(8) /\ D[59] = teb

LEMMA DescribedElements ==
  ASSUME NEW teb
  PROVE  DescribedAs(DescribedRegisters(teb), teb)
<1> DEFINE a == Plain(MainNames, 8)
           b == Plain(FlagNames, 4)
           c == [i \in 1..8 |-> StBytes(i - 1)]
           d == Plain(FpuNames, 4)
           e == [i \in 1..16 |-> Pair("Xmm", i - 1)]
           f == Plain(<<"MxCsr">>, 4)
           g == <<Zeros(8), teb>>
           ab == a \o b
           abc == ab \o c
           abcd == abc \o d
           abcde == abcd \o e
           abcdef == abcde \o f
           all == abcdef \o g
<1>1. DescribedRegisters(teb) = all
  BY DEF DescribedRegisters, MainNames, FlagNames, FpuNames, StBytes
<1>2. SeqOfLen(a, 17) /\ \A i \in 1..17 : a[i] = Widen(Bytes(Field(MainNames[i])), 8)
  <2>1. SeqOfLen(MainNames, 17)
    BY DEF MainNames, SeqOfLen
  <2> QED BY <2>1, PlainSeq
<1>3. SeqOfLen(b, 7) /\ \A i \in 1..7 : b[i] = Widen(Bytes(Field(FlagNames[i])), 4)
  <2>1. SeqOfLen(FlagNames, 7)
    BY DEF FlagNames, SeqOfLen
  <2> QED BY <2>1, PlainSeq
<1>4. SeqOfLen(d, 8) /\ \A i \in 1..8 : d[i] = Widen(Bytes(Field(FpuNames[i])), 4)
  <2>1. SeqOfLen(FpuNames, 8)
    BY DEF FpuNames, SeqOfLen
  <2> QED BY <2>1, PlainSeq
<1>5. SeqOfLen(f, 1) /\ f[1] = Widen(Bytes(Field("MxCsr")), 4)
  <2> DEFINE m == <<"MxCsr">>
  <2>1. SeqOfLen(m, 1) /\ m[1] = "MxCsr" /\ 1 \in 1..1
    BY DEF SeqOfLen
  <2> HIDE DEF m
  <2>2. SeqOfLen(Plain(m, 4), 1) /\ \A i \in 1..1 : Plain(m, 4)[i] = Widen(Bytes(Field(m[i])), 4)
    BY <2>1, PlainSeq
  <2> QED BY <2>1, <2>2 DEF m
<1>6. SeqOfLen(c, 8) /\ \A i \in 1..8 : c[i] = StBytes(i - 1)
  BY DEF SeqOfLen
<1>7. SeqOfLen(e, 16) /\ \A i \in 1..16 : e[i] = Pair("Xmm", i - 1)
  BY DEF SeqOfLen
<1>8. SeqOfLen(g, 2) /\ g[1] = Zeros(8) /\ g[2] = teb
  <2> DEFINE z == Zeros(8)
  <2> HIDE DEF z
  <2>1. SeqOfLen(<<z, teb>>, 2) /\ <<z, teb>>[1] = z /\ <<z, teb>>[2] = teb
    BY DEF SeqOfLen
  <2> QED BY <2>1 DEF z
<1> HIDE DEF a, b, c, d, e, f, g
<1>9. JoinOf(ab, a, 17, b, 7)
  BY <1>2, <1>3, Joined
<1> HIDE DEF ab
<1>10. JoinOf(abc, ab, 24, c, 8)
  <2>1. SeqOfLen(ab, 24)
    BY <1>9 DEF JoinOf
  <2> QED BY <1>6, <2>1, Joined
<1> HIDE DEF abc
<1>11. JoinOf(abcd, abc, 32, d, 8)
  <2>1. SeqOfLen(abc, 32)
    BY <1>10 DEF JoinOf
  <2> QED BY <1>4, <2>1, Joined
<1> HIDE DEF abcd
<1>12. JoinOf(abcde, abcd, 40, e, 16)
  <2>1. SeqOfLen(abcd, 40)
    BY <1>11 DEF JoinOf
  <2> QED BY <1>7, <2>1, Joined
<1> HIDE DEF abcde
<1>13. JoinOf(abcdef, abcde, 56, f, 1)
  <2>1. SeqOfLen(abcde, 56)
    BY <1>12 DEF JoinOf
  <2> QED BY <1>5, <2>1, Joined
<1> HIDE DEF abcdef
<1>14. JoinOf(all, abcdef, 57, g, 2)
  <2>1. SeqOfLen(abcdef, 57)
    BY <1>13 DEF JoinOf
  <2> QED BY <1>8, <2>1, Joined
<1> HIDE DEF all
<1>15. SeqOfLen(all, 59) /\ all[57 + 1] = g[1] /\ all[57 + 2] = g[2]
  BY <1>14 DEF JoinOf
<1>16. all[57] = f[1]
  <2>1. all[56 + 1] = abcdef[56 + 1] /\ abcdef[56 + 1] = f[1]
    BY <1>13, <1>14 DEF JoinOf
  <2> QED BY <2>1
<1>17. \A i \in 1..56 : all[i] = abcde[i]
  BY <1>13, <1>14 DEF JoinOf
<1>18. \A i \in 1..16 : all[40 + i] = e[i]
  BY <1>12, <1>17 DEF JoinOf
<1>19. \A i \in 1..8 : all[32 + i] = d[i]
  BY <1>11, <1>12, <1>17 DEF JoinOf
<1>20. \A i \in 1..32 : all[i] = abc[i]
  BY <1>11, <1>12, <1>17 DEF JoinOf
<1>21. \A i \in 1..8 : all[24 + i] = c[i]
  BY <1>10, <1>20 DEF JoinOf
<1>22. \A i \in 1..7 : all[17 + i] = b[i]
  BY <1>9, <1>10, <1>20 DEF JoinOf
<1>23. \A i \in 1..17 : all[i] = a[i]
  BY <1>9, <1>10, <1>20 DEF JoinOf
<1>24. all[58] = g[1] /\ all[59] = g[2]
  BY <1>15
<1>25. DescribedAs(all, teb)
  BY <1>2, <1>3, <1>4, <1>5, <1>6, <1>7, <1>8, <1>15, <1>16, <1>18, <1>19, <1>21, <1>22, <1>23, <1>24 DEF DescribedAs
<1> QED BY <1>1, <1>25

Reg(class, index) == [class |-> class, index |-> index]

\* from_raw_id and to_raw_id are inverse on the numbers of the description.
LEMMA RawIds ==
  /\ \A id \in 0..58 : to_raw_id(from_raw_id(id)) = id
  /\ \A id \in Nat : from_raw_id(id) # NoRegister => id \in 0..58
  /\ \A i \in 0..15 : from_raw_id(i) = Reg("Gpr", i)
  /\ from_raw_id(16) = Reg("Rip", 0) /\ from_raw_id(17) = Reg("Eflags", 0)
  /\ \A i \in 0..5  : from_raw_id(18 + i) = Reg("Segment", i)
  /\ \A i \in 0..7  : from_raw_id(24 + i) = Reg("St", i)
  /\ \A i \in 0..7  : from_raw_id(32 + i) = Reg("Fpu", i)
  /\ \A i \in 0..15 : from_raw_id(40 + i) = Reg("Xmm", i)
  /\ from_raw_id(56) = Reg("Mxcsr", 0) /\ from_raw_id(57) = Reg("FsBase", 0) /\ from_raw_id(58) = Reg("GsBase", 0)
<1>1. \A id \in Nat : from_raw_id(id) # NoRegister => id \in 0..58
  BY DEF from_raw_id
<1>2. /\ \A i \in 0..15 : from_raw_id(i) = Reg("Gpr", i)
      /\ from_raw_id(16) = Reg("Rip", 0) /\ from_raw_id(17) = Reg("Eflags", 0)
  BY DEF from_raw_id, CoreFromRawId, Reg
<1>3. /\ \A i \in 0..5  : from_raw_id(18 + i) = Reg("Segment", i)
      /\ \A i \in 0..7  : from_raw_id(24 + i) = Reg("St", i)
  BY DEF from_raw_id, CoreFromRawId, Reg
<1>4. /\ \A i \in 0..7  : from_raw_id(32 + i) = Reg("Fpu", i)
      /\ \A i \in 0..15 : from_raw_id(40 + i) = Reg("Xmm", i)
  BY DEF from_raw_id, CoreFromRawId, Reg
<1>5. from_raw_id(56) = Reg("Mxcsr", 0) /\ from_raw_id(57) = Reg("FsBase", 0) /\ from_raw_id(58) = Reg("GsBase", 0)
  BY DEF from_raw_id, CoreFromRawId, Reg
<1>6. ASSUME NEW id \in 0..58 PROVE to_raw_id(from_raw_id(id)) = id
  BY DEF from_raw_id, CoreFromRawId, to_raw_id
<1> QED BY <1>1, <1>2, <1>3, <1>4, <1>5, <1>6

\* A register as regs.rs keeps it, and the claim made of it.
Value(teb, reg)  == File(teb)[reg.class][reg.index]
Matches(teb, id) ==
  LET v == Value(teb, from_raw_id(id))
  IN v = DescribedRegisters(teb)[id + 1] /\ v \in Seq(Byte) /\ Len(v) \in 0..16

LEMMA FieldBytes ==
  ASSUME NEW name, NEW n \in {4, 8}, Field(name) \in Recorded, Width(Field(name)) <= n
  PROVE  /\ Widen(Bytes(Field(name)), n) \in Seq(Byte) /\ Len(Widen(Bytes(Field(name)), n)) = n
         /\ Width(Field(name)) = n => Widen(Bytes(Field(name)), n) = Bytes(Field(name))
<1> DEFINE b == Bytes(Field(name))
<1>1. b \in Seq(Byte) /\ Len(b) = Width(Field(name)) /\ n \in Nat
  BY BytesSeq
<1> HIDE DEF b
<1>2. /\ Widen(b, n) \in Seq(Byte) /\ Len(Widen(b, n)) = n
      /\ Len(b) = n => Widen(b, n) = b
  BY <1>1, WidenSeq
<1> QED BY <1>1, <1>2 DEF b


\* Every register of the register file is the one the description declares.
LEMMA RegistersMatch ==
  ASSUME NEW teb \in Seq(Byte), Len(teb) = 8
  PROVE  \A id \in 0..58 : Matches(teb, id)
<1> DEFINE D == DescribedRegisters(teb)
           F == File(teb)
<1>1. DescribedAs(D, teb) /\ FileIs(F, teb)
  BY DescribedElements, FileElements
<1> HIDE DEF D, F
<1>2. ASSUME NEW id, NEW class, NEW i, NEW v, from_raw_id(id) = Reg(class, i),
             F[class][i] = v, D[id + 1] = v, v \in Seq(Byte), Len(v) \in 0..16
      PROVE  Matches(teb, id)
  <2>1. from_raw_id(id).class = class /\ from_raw_id(id).index = i
    BY <1>2 DEF Reg
  <2>2. Value(teb, from_raw_id(id)) = v
    BY <1>2, <2>1 DEF Value, F
  <2> QED BY <1>2, <2>2 DEF Matches, D
<1>3. ASSUME NEW i \in 0..15 PROVE Matches(teb, i)
  <2> DEFINE v == Widen(Bytes(Field(GprNames[i + 1])), 8)
             j == i + 1
  <2>1. from_raw_id(i) = Reg("Gpr", i)
    BY RawIds
  <2>2. F["Gpr"][i] = Bytes(Field(GprNames[i + 1]))
    BY <1>1 DEF FileIs
  <2>3. D[j] = Widen(Bytes(Field(MainNames[j])), 8)
    <3>1. j \in 1..17
      OBVIOUS
    <3> HIDE DEF j
    <3> QED BY <1>1, <3>1 DEF DescribedAs
  <2>4. j = i + 1 /\ MainNames[j] = GprNames[i + 1]
    BY DEF MainNames, GprNames
  <2>5. v \in Seq(Byte) /\ Len(v) = 8 /\ v = Bytes(Field(GprNames[i + 1]))
    <3>1. i + 1 \in 1..16
      OBVIOUS
    <3>2. Field(GprNames[i + 1]) \in Recorded /\ Width(Field(GprNames[i + 1])) = 8
      BY <3>1, RecordedFields
    <3> QED BY <3>2, FieldBytes
  <2>7. F["Gpr"][i] = v /\ D[i + 1] = v
    BY <2>2, <2>3, <2>4, <2>5
  <2>8. Len(v) \in 0..16
    BY <2>5
  <2> HIDE DEF v
  <2> QED BY <1>2, <2>1, <2>5, <2>7, <2>8
<1>4. ASSUME NEW i \in 0..5 PROVE Matches(teb, 18 + i)
  <2> DEFINE v == Widen(Bytes(Field(SegNames[i + 1])), 4)
             j == i + 2
  <2>1. from_raw_id(18 + i) = Reg("Segment", i)
    BY RawIds
  <2>2. F["Segment"][i] = Widen(Bytes(Field(SegNames[i + 1])), 4)
    BY <1>1 DEF FileIs
  <2>3. D[17 + j] = Widen(Bytes(Field(FlagNames[j])), 4)
    <3>1. j \in 1..7
      OBVIOUS
    <3> HIDE DEF j
    <3> QED BY <1>1, <3>1 DEF DescribedAs
  <2>4. 17 + j = 18 + i + 1 /\ FlagNames[j] = SegNames[i + 1]
    BY DEF FlagNames, SegNames
  <2>5. v \in Seq(Byte) /\ Len(v) = 4
    <3>1. i + 1 \in 1..6
      OBVIOUS
    <3> QED BY <3>1, RecordedFields, FieldBytes
  <2>7. F["Segment"][i] = v /\ D[18 + i + 1] = v
    BY <2>2, <2>3, <2>4, <2>5
  <2>8. Len(v) \in 0..16
    BY <2>5
  <2> HIDE DEF v
  <2> QED BY <1>2, <2>1, <2>5, <2>7, <2>8
<1>5. ASSUME NEW i \in 0..7 PROVE Matches(teb, 24 + i)
  <2> DEFINE v == StBytes(i)
             j == i + 1
  <2>1. from_raw_id(24 + i) = Reg("St", i)
    BY RawIds
  <2>2. F["St"][i] = StBytes(i)
    BY <1>1 DEF FileIs
  <2>3. D[24 + j] = StBytes(j - 1)
    <3>1. j \in 1..8
      OBVIOUS
    <3> HIDE DEF j
    <3> QED BY <1>1, <3>1 DEF DescribedAs
  <2>4. 24 + j = 24 + i + 1 /\ j - 1 = i
    OBVIOUS
  <2>5. v \in Seq(Byte) /\ Len(v) = 10
    BY HalvesOf, Zenon
  <2>7. F["St"][i] = v /\ D[24 + i + 1] = v
    BY <2>2, <2>3, <2>4, <2>5
  <2>8. Len(v) \in 0..16
    BY <2>5
  <2> HIDE DEF v
  <2> QED BY <1>2, <2>1, <2>5, <2>7, <2>8
<1>6. ASSUME NEW i \in 0..7 PROVE Matches(teb, 32 + i)
  <2> DEFINE v == Widen(Bytes(Field(FpuNames[i + 1])), 4)
             j == i + 1
  <2>1. from_raw_id(32 + i) = Reg("Fpu", i)
    BY RawIds
  <2>2. F["Fpu"][i] = Widen(Bytes(Field(FpuNames[i + 1])), 4)
    BY <1>1 DEF FileIs
  <2>3. D[32 + j] = Widen(Bytes(Field(FpuNames[j])), 4)
    <3>1. j \in 1..8
      OBVIOUS
    <3> HIDE DEF j
    <3> QED BY <1>1, <3>1 DEF DescribedAs
  <2>4. 32 + j = 32 + i + 1
    OBVIOUS
  <2>5. v \in Seq(Byte) /\ Len(v) = 4
    <3>1. i + 1 \in 1..8
      OBVIOUS
    <3> QED BY <3>1, RecordedFields, FieldBytes
  <2>7. F["Fpu"][i] = v /\ D[32 + i + 1] = v
    BY <2>2, <2>3, <2>4, <2>5
  <2>8. Len(v) \in 0..16
    BY <2>5
  <2> HIDE DEF v
  <2> QED BY <1>2, <2>1, <2>5, <2>7, <2>8
<1>7. ASSUME NEW i \in 0..15 PROVE Matches(teb, 40 + i)
  <2> DEFINE v == Pair("Xmm", i)
             j == i + 1
  <2>1. from_raw_id(40 + i) = Reg("Xmm", i)
    BY RawIds
  <2>2. F["Xmm"][i] = Pair("Xmm", i)
    BY <1>1 DEF FileIs
  <2>3. D[40 + j] = Pair("Xmm", j - 1)
    <3>1. j \in 1..16
      OBVIOUS
    <3> HIDE DEF j
    <3> QED BY <1>1, <3>1 DEF DescribedAs
  <2>4. 40 + j = 40 + i + 1 /\ j - 1 = i
    OBVIOUS
  <2>5. v \in Seq(Byte) /\ Len(v) = 16
    BY HalvesOf, Zenon
  <2>7. F["Xmm"][i] = v /\ D[40 + i + 1] = v
    BY <2>2, <2>3, <2>4, <2>5
  <2>8. Len(v) \in 0..16
    BY <2>5
  <2> HIDE DEF v
  <2> QED BY <1>2, <2>1, <2>5, <2>7, <2>8
<1>8. Matches(teb, 16)
  <2> DEFINE v == Widen(Bytes(Field("Rip")), 8)
  <2>1. from_raw_id(16) = Reg("Rip", 0)
    BY RawIds
  <2>2. F["Rip"][0] = Bytes(Field("Rip"))
    BY <1>1 DEF FileIs
  <2>3. D[16 + 1] = v
    BY <1>1 DEF DescribedAs, MainNames
  <2>4. v \in Seq(Byte) /\ Len(v) = 8 /\ v = Bytes(Field("Rip"))
    BY RecordedFields, FieldBytes
  <2>5. F["Rip"][0] = v /\ Len(v) \in 0..16
    BY <2>2, <2>4
  <2> HIDE DEF v
  <2> QED BY <1>2, <2>1, <2>3, <2>4, <2>5
<1>9. Matches(teb, 17)
  <2> DEFINE v == Widen(Bytes(Field("EFlags")), 4)
  <2>1. from_raw_id(17) = Reg("Eflags", 0)
    BY RawIds
  <2>2. F["Eflags"][0] = Bytes(Field("EFlags"))
    BY <1>1 DEF FileIs
  <2>3. D[17 + 1] = v
    BY <1>1 DEF DescribedAs, FlagNames
  <2>4. v \in Seq(Byte) /\ Len(v) = 4 /\ v = Bytes(Field("EFlags"))
    BY RecordedFields, FieldBytes
  <2>5. F["Eflags"][0] = v /\ Len(v) \in 0..16
    BY <2>2, <2>4
  <2> HIDE DEF v
  <2> QED BY <1>2, <2>1, <2>3, <2>4, <2>5
<1>10. Matches(teb, 56)
  <2> DEFINE v == Widen(Bytes(Field("MxCsr")), 4)
  <2>1. from_raw_id(56) = Reg("Mxcsr", 0)
    BY RawIds
  <2>2. F["Mxcsr"][0] = Bytes(Field("MxCsr"))
    BY <1>1 DEF FileIs
  <2>3. D[56 + 1] = v
    BY <1>1 DEF DescribedAs
  <2>4. v \in Seq(Byte) /\ Len(v) = 4 /\ v = Bytes(Field("MxCsr"))
    BY RecordedFields, FieldBytes
  <2>5. F["Mxcsr"][0] = v /\ Len(v) \in 0..16
    BY <2>2, <2>4
  <2> HIDE DEF v
  <2> QED BY <1>2, <2>1, <2>3, <2>4, <2>5
<1>11. Matches(teb, 57)
  <2> DEFINE v == Zeros(8)
  <2>1. from_raw_id(57) = Reg("FsBase", 0)
    BY RawIds
  <2>2. F["FsBase"][0] = Zeros(8)
    BY <1>1 DEF FileIs
  <2>3. D[57 + 1] = v
    BY <1>1 DEF DescribedAs
  <2>4. v \in Seq(Byte) /\ Len(v) = 8 /\ v = Zeros(8)
    BY ZerosSeq
  <2>5. F["FsBase"][0] = v /\ Len(v) \in 0..16
    BY <2>2, <2>4
  <2> HIDE DEF v
  <2> QED BY <1>2, <2>1, <2>3, <2>4, <2>5
<1>12. Matches(teb, 58)
  <2> DEFINE v == teb
  <2>1. from_raw_id(58) = Reg("GsBase", 0)
    BY RawIds
  <2>2. F["GsBase"][0] = teb
    BY <1>1 DEF FileIs
  <2>3. D[58 + 1] = v
    BY <1>1 DEF DescribedAs
  <2>4. v \in Seq(Byte) /\ Len(v) = 8 /\ v = teb
    OBVIOUS
  <2>5. F["GsBase"][0] = v /\ Len(v) \in 0..16
    BY <2>2, <2>4
  <2> HIDE DEF v
  <2> QED BY <1>2, <2>1, <2>3, <2>4, <2>5
<1>13. ASSUME NEW id \in 0..58 PROVE Matches(teb, id)
  <2>1. \/ id \in 0..15 \/ id \in {16, 17, 56, 57, 58}
        \/ (id - 18 \in 0..5 /\ 18 + (id - 18) = id) \/ (id - 24 \in 0..7 /\ 24 + (id - 24) = id)
        \/ (id - 32 \in 0..7 /\ 32 + (id - 32) = id) \/ (id - 40 \in 0..15 /\ 40 + (id - 40) = id)
    OBVIOUS
  <2>2. CASE id \in 0..15
    BY <1>3, <2>2
  <2>3. CASE id \in {16, 17, 56, 57, 58}
    BY <1>8, <1>9, <1>10, <1>11, <1>12, <2>3
  <2>4. CASE id - 18 \in 0..5 /\ 18 + (id - 18) = id
    BY <1>4, <2>4
  <2>5. CASE id - 24 \in 0..7 /\ 24 + (id - 24) = id
    BY <1>5, <2>5
  <2>6. CASE id - 32 \in 0..7 /\ 32 + (id - 32) = id
    BY <1>6, <2>6
  <2>7. CASE id - 40 \in 0..15 /\ 40 + (id - 40) = id
    BY <1>7, <2>7
  <2> QED BY <2>1, <2>2, <2>3, <2>4, <2>5, <2>6, <2>7
<1> QED BY <1>13

\* The registers of a class as one sequence, and the numbers they have.
Class(F, name, n)      == [i \in 1..n |-> F[name][i - 1]]
Numbered(name, last, off) == \A i \in 0..last : from_raw_id(off + i) = Reg(name, i)

LEMMA ClassNumbers ==
  /\ Numbered("Gpr", 15, 0) /\ Numbered("Rip", 0, 16) /\ Numbered("Eflags", 0, 17)
  /\ Numbered("Segment", 5, 18) /\ Numbered("St", 7, 24) /\ Numbered("Fpu", 7, 32)
  /\ Numbered("Xmm", 15, 40) /\ Numbered("Mxcsr", 0, 56)
<1>1. Numbered("Gpr", 15, 0)
  <2>1. \A i \in 0..15 : 0 + i = i
    OBVIOUS
  <2> QED BY <2>1, RawIds DEF Numbered
<1>2. Numbered("Rip", 0, 16) /\ Numbered("Eflags", 0, 17) /\ Numbered("Mxcsr", 0, 56)
  <2>1. \A i \in 0..0 : i = 0 /\ 16 + i = 16 /\ 17 + i = 17 /\ 56 + i = 56
    OBVIOUS
  <2> QED BY <2>1, RawIds DEF Numbered
<1>3. Numbered("Segment", 5, 18)
  BY RawIds DEF Numbered
<1>4. Numbered("St", 7, 24)
  BY RawIds DEF Numbered
<1>5. Numbered("Fpu", 7, 32)
  BY RawIds DEF Numbered
<1>6. Numbered("Xmm", 15, 40)
  BY RawIds DEF Numbered
<1> QED BY <1>1, <1>2, <1>3, <1>4, <1>5, <1>6

\* A class is a slice of the description.
LEMMA ClassSlice ==
  ASSUME NEW teb \in Seq(Byte), Len(teb) = 8, NEW name, NEW last \in Nat, NEW off \in Nat, NEW n,
         n = last + 1, off + last <= 58, Numbered(name, last, off)
  PROVE  SliceOf(Class(File(teb), name, n), DescribedRegisters(teb), off, n)
<1> DEFINE D == DescribedRegisters(teb)
           F == File(teb)
           c == Class(F, name, n)
<1>1. SeqOfLen(c, n) /\ n > 0 /\ \A i \in 1..n : c[i] = F[name][i - 1]
  BY DEF SeqOfLen, Class
<1>2. ASSUME NEW i \in 1..n PROVE c[i] = D[off + i]
  <2> DEFINE id == off + (i - 1)
  <2>1. i - 1 \in 0..last /\ id \in 0..58 /\ id + 1 = off + i
    OBVIOUS
  <2>2. from_raw_id(id) = Reg(name, i - 1)
    BY <2>1 DEF Numbered
  <2> HIDE DEF id
  <2>3. Matches(teb, id)
    BY <2>1, RegistersMatch
  <2>4. from_raw_id(id).class = name /\ from_raw_id(id).index = i - 1
    BY <2>2 DEF Reg
  <2>5. Value(teb, from_raw_id(id)) = F[name][i - 1]
    BY <2>4 DEF Value
  <2>6. F[name][i - 1] = D[id + 1]
    BY <2>3, <2>5 DEF Matches
  <2> HIDE DEF c, D, F
  <2> QED BY <1>1, <2>1, <2>6
<1> HIDE DEF c, D, F
<1>3. SliceOf(c, D, off, n)
  BY <1>1, <1>2 DEF SliceOf
<1> QED BY <1>3 DEF c, D, F

\* The g packet is the described registers, one after the other.
LEMMA SerializedFile ==
  ASSUME NEW teb \in Seq(Byte), Len(teb) = 8
  PROVE  gdb_serialize(File(teb)) = FlattenSeq(DescribedRegisters(teb))
<1> DEFINE D == DescribedRegisters(teb)
           F == File(teb)
<1>1. SeqOfLen(D, 59) /\ D[58] = Zeros(8) /\ D[59] = teb
  BY DescribedElements DEF DescribedAs
<1>2. F["FsBase"][0] = Zeros(8) /\ F["GsBase"][0] = teb
  BY FileElements DEF FileIs
<1>3. D \in Seq(Seq(Byte)) /\ Len(D) = 59
  <2>1. ASSUME NEW j \in 1..59 PROVE D[j] \in Seq(Byte)
    <3>1. j - 1 \in 0..58 /\ j - 1 + 1 = j
      OBVIOUS
    <3>2. Matches(teb, j - 1)
      BY <3>1, RegistersMatch
    <3> QED BY <3>1, <3>2 DEF Matches
  <2> HIDE DEF D
  <2>2. AllIn(D, 59, Seq(Byte))
    BY <2>1 DEF AllIn
  <2> QED BY <1>1, <2>2, SeqTyped
<1>4. /\ SliceOf(Class(F, "Gpr", 16), D, 0, 16)
      /\ SliceOf(Class(F, "Rip", 1), D, 16, 1)
      /\ SliceOf(Class(F, "Eflags", 1), D, 17, 1)
      /\ SliceOf(Class(F, "Segment", 6), D, 18, 6)
      /\ SliceOf(Class(F, "St", 8), D, 24, 8)
      /\ SliceOf(Class(F, "Fpu", 8), D, 32, 8)
      /\ SliceOf(Class(F, "Xmm", 16), D, 40, 16)
      /\ SliceOf(Class(F, "Mxcsr", 1), D, 56, 1)
  <2>1. SliceOf(Class(F, "Gpr", 16), D, 0, 16)
    <3>1. 15 \in Nat /\ 0 \in Nat /\ 16 = 15 + 1 /\ 0 + 15 <= 58
      OBVIOUS
    <3> QED BY <3>1, ClassNumbers, ClassSlice
  <2>2. SliceOf(Class(F, "Rip", 1), D, 16, 1)
    <3>1. 0 \in Nat /\ 16 \in Nat /\ 1 = 0 + 1 /\ 16 + 0 <= 58
      OBVIOUS
    <3> QED BY <3>1, ClassNumbers, ClassSlice
  <2>3. SliceOf(Class(F, "Eflags", 1), D, 17, 1)
    <3>1. 0 \in Nat /\ 17 \in Nat /\ 1 = 0 + 1 /\ 17 + 0 <= 58
      OBVIOUS
    <3> QED BY <3>1, ClassNumbers, ClassSlice
  <2>4. SliceOf(Class(F, "Segment", 6), D, 18, 6)
    <3>1. 5 \in Nat /\ 18 \in Nat /\ 6 = 5 + 1 /\ 18 + 5 <= 58
      OBVIOUS
    <3> QED BY <3>1, ClassNumbers, ClassSlice
  <2>5. SliceOf(Class(F, "St", 8), D, 24, 8)
    <3>1. 7 \in Nat /\ 24 \in Nat /\ 8 = 7 + 1 /\ 24 + 7 <= 58
      OBVIOUS
    <3> QED BY <3>1, ClassNumbers, ClassSlice
  <2>6. SliceOf(Class(F, "Fpu", 8), D, 32, 8)
    <3>1. 7 \in Nat /\ 32 \in Nat /\ 8 = 7 + 1 /\ 32 + 7 <= 58
      OBVIOUS
    <3> QED BY <3>1, ClassNumbers, ClassSlice
  <2>7. SliceOf(Class(F, "Xmm", 16), D, 40, 16)
    <3>1. 15 \in Nat /\ 40 \in Nat /\ 16 = 15 + 1 /\ 40 + 15 <= 58
      OBVIOUS
    <3> QED BY <3>1, ClassNumbers, ClassSlice
  <2>8. SliceOf(Class(F, "Mxcsr", 1), D, 56, 1)
    <3>1. 0 \in Nat /\ 56 \in Nat /\ 1 = 0 + 1 /\ 56 + 0 <= 58
      OBVIOUS
    <3> QED BY <3>1, ClassNumbers, ClassSlice
  <2> QED BY <2>1, <2>2, <2>3, <2>4, <2>5, <2>6, <2>7, <2>8, Zenon
<1> HIDE DEF D, F
<1> DEFINE E == [c \in DOMAIN CoreClasses |->
                  FlattenSeq([i \in 1..CoreClasses[c][2] |-> F[CoreClasses[c][1]][i - 1]])]
<1>5. Len(E) = 7 + 1 /\ CoreSerialize(F) = FlattenSeq(E)
  BY DEF CoreSerialize, CoreClasses
<1>6. \A c \in DOMAIN CoreClasses : E[c] = FlattenSeq(Class(F, CoreClasses[c][1], CoreClasses[c][2]))
  BY DEF Class
<1> HIDE DEF E
<1>7. /\ E[1] = FlattenSeq(Class(F, "Gpr", 16))
      /\ E[2] = FlattenSeq(Class(F, "Rip", 1))
      /\ E[3] = FlattenSeq(Class(F, "Eflags", 1))
      /\ E[4] = FlattenSeq(Class(F, "Segment", 6))
      /\ E[5] = FlattenSeq(Class(F, "St", 8))
      /\ E[6] = FlattenSeq(Class(F, "Fpu", 8))
      /\ E[7] = FlattenSeq(Class(F, "Xmm", 16))
      /\ E[8] = FlattenSeq(Class(F, "Mxcsr", 1))
  <2>1. /\ 1 \in DOMAIN CoreClasses /\ CoreClasses[1][1] = "Gpr" /\ CoreClasses[1][2] = 16
        /\ 2 \in DOMAIN CoreClasses /\ CoreClasses[2][1] = "Rip" /\ CoreClasses[2][2] = 1
        /\ 3 \in DOMAIN CoreClasses /\ CoreClasses[3][1] = "Eflags" /\ CoreClasses[3][2] = 1
        /\ 4 \in DOMAIN CoreClasses /\ CoreClasses[4][1] = "Segment" /\ CoreClasses[4][2] = 6
        /\ 5 \in DOMAIN CoreClasses /\ CoreClasses[5][1] = "St" /\ CoreClasses[5][2] = 8
        /\ 6 \in DOMAIN CoreClasses /\ CoreClasses[6][1] = "Fpu" /\ CoreClasses[6][2] = 8
        /\ 7 \in DOMAIN CoreClasses /\ CoreClasses[7][1] = "Xmm" /\ CoreClasses[7][2] = 16
        /\ 8 \in DOMAIN CoreClasses /\ CoreClasses[8][1] = "Mxcsr" /\ CoreClasses[8][2] = 1
    BY DEF CoreClasses
  <2> QED BY <1>6, <2>1
<1>8. PICK h : Unfolds(h, E, 7)
  BY <1>5, FlattenUnfold
<1>9. h[1] = E[1] /\ FlattenSeq(E) = h[8]
  <2>1. 7 + 1 = 8
    OBVIOUS
  <2> QED BY <1>8, <2>1 DEF Unfolds
<1>0. ASSUME NEW x, NEW n, NEW c, NEW m, FlatOf(x, D, n), SliceOf(c, D, n, m), n + m <= 59
      PROVE  FlatOf(x \o FlattenSeq(c), D, n + m)
  BY <1>0, <1>3, FlatExtends
<1>10. FlatOf(h[1], D, 16)
  BY <1>4, <1>7, <1>9, Zenon DEF FlatOf
<1>11. FlatOf(h[2], D, 17)
  <2>1. 1 \in 1..7 /\ 1 + 1 = 2 /\ 16 + 1 = 17 /\ 16 + 1 <= 59
    OBVIOUS
  <2>2. h[1 + 1] = h[1] \o E[1 + 1]
    BY <1>8, <2>1, Zenon DEF Unfolds
  <2>3. FlatOf(h[1] \o FlattenSeq(Class(F, "Rip", 1)), D, 16 + 1)
    BY <1>0, <1>4, <1>10, <2>1, Zenon
  <2> QED BY <1>7, <2>1, <2>2, <2>3, Zenon
<1>12. FlatOf(h[3], D, 18)
  <2>1. 2 \in 1..7 /\ 2 + 1 = 3 /\ 17 + 1 = 18 /\ 17 + 1 <= 59
    OBVIOUS
  <2>2. h[2 + 1] = h[2] \o E[2 + 1]
    BY <1>8, <2>1, Zenon DEF Unfolds
  <2>3. FlatOf(h[2] \o FlattenSeq(Class(F, "Eflags", 1)), D, 17 + 1)
    BY <1>0, <1>4, <1>11, <2>1, Zenon
  <2> QED BY <1>7, <2>1, <2>2, <2>3, Zenon
<1>13. FlatOf(h[4], D, 24)
  <2>1. 3 \in 1..7 /\ 3 + 1 = 4 /\ 18 + 6 = 24 /\ 18 + 6 <= 59
    OBVIOUS
  <2>2. h[3 + 1] = h[3] \o E[3 + 1]
    BY <1>8, <2>1, Zenon DEF Unfolds
  <2>3. FlatOf(h[3] \o FlattenSeq(Class(F, "Segment", 6)), D, 18 + 6)
    BY <1>0, <1>4, <1>12, <2>1, Zenon
  <2> QED BY <1>7, <2>1, <2>2, <2>3, Zenon
<1>14. FlatOf(h[5], D, 32)
  <2>1. 4 \in 1..7 /\ 4 + 1 = 5 /\ 24 + 8 = 32 /\ 24 + 8 <= 59
    OBVIOUS
  <2>2. h[4 + 1] = h[4] \o E[4 + 1]
    BY <1>8, <2>1, Zenon DEF Unfolds
  <2>3. FlatOf(h[4] \o FlattenSeq(Class(F, "St", 8)), D, 24 + 8)
    BY <1>0, <1>4, <1>13, <2>1, Zenon
  <2> QED BY <1>7, <2>1, <2>2, <2>3, Zenon
<1>15. FlatOf(h[6], D, 40)
  <2>1. 5 \in 1..7 /\ 5 + 1 = 6 /\ 32 + 8 = 40 /\ 32 + 8 <= 59
    OBVIOUS
  <2>2. h[5 + 1] = h[5] \o E[5 + 1]
    BY <1>8, <2>1, Zenon DEF Unfolds
  <2>3. FlatOf(h[5] \o FlattenSeq(Class(F, "Fpu", 8)), D, 32 + 8)
    BY <1>0, <1>4, <1>14, <2>1, Zenon
  <2> QED BY <1>7, <2>1, <2>2, <2>3, Zenon
<1>16. FlatOf(h[7], D, 56)
  <2>1. 6 \in 1..7 /\ 6 + 1 = 7 /\ 40 + 16 = 56 /\ 40 + 16 <= 59
    OBVIOUS
  <2>2. h[6 + 1] = h[6] \o E[6 + 1]
    BY <1>8, <2>1, Zenon DEF Unfolds
  <2>3. FlatOf(h[6] \o FlattenSeq(Class(F, "Xmm", 16)), D, 40 + 16)
    BY <1>0, <1>4, <1>15, <2>1, Zenon
  <2> QED BY <1>7, <2>1, <2>2, <2>3, Zenon
<1>17. FlatOf(h[8], D, 57)
  <2>1. 7 \in 1..7 /\ 7 + 1 = 8 /\ 56 + 1 = 57 /\ 56 + 1 <= 59
    OBVIOUS
  <2>2. h[7 + 1] = h[7] \o E[7 + 1]
    BY <1>8, <2>1, Zenon DEF Unfolds
  <2>3. FlatOf(h[7] \o FlattenSeq(Class(F, "Mxcsr", 1)), D, 56 + 1)
    BY <1>0, <1>4, <1>16, <2>1, Zenon
  <2> QED BY <1>7, <2>1, <2>2, <2>3, Zenon
<1>18. FlatOf(h[8] \o F["FsBase"][0], D, 58)
  <2> DEFINE v == F["FsBase"][0]
             c == <<v>>
             x == h[8]
  <2>1. v = D[57 + 1]
    BY <1>1, <1>2
  <2>2. FlatOf(x, D, 57)
    BY <1>17
  <2> HIDE DEF v, x
  <2>3. SliceOf(c, D, 57, 1)
    BY <2>1 DEF SliceOf, SeqOfLen
  <2>4. FlattenSeq(c) = v
    BY FlattenOne
  <2> HIDE DEF c
  <2>5. 57 + 1 = 58 /\ 57 + 1 <= 59
    OBVIOUS
  <2>6. FlatOf(x \o FlattenSeq(c), D, 57 + 1)
    BY <1>0, <2>2, <2>3, <2>5, Zenon
  <2> QED BY <2>4, <2>5, <2>6, Zenon DEF x, v
<1>19. FlatOf(h[8] \o F["FsBase"][0] \o F["GsBase"][0], D, 59)
  <2> DEFINE v == F["GsBase"][0]
             c == <<v>>
             x == h[8] \o F["FsBase"][0]
  <2>1. v = D[58 + 1]
    BY <1>1, <1>2
  <2>2. FlatOf(x, D, 58)
    BY <1>18
  <2> HIDE DEF v, x
  <2>3. SliceOf(c, D, 58, 1)
    BY <2>1 DEF SliceOf, SeqOfLen
  <2>4. FlattenSeq(c) = v
    BY FlattenOne
  <2> HIDE DEF c
  <2>5. 58 + 1 = 59 /\ 58 + 1 <= 59
    OBVIOUS
  <2>6. FlatOf(x \o FlattenSeq(c), D, 58 + 1)
    BY <1>0, <2>2, <2>3, <2>5, Zenon
  <2> QED BY <2>4, <2>5, <2>6, Zenon DEF x, v
<1>20. gdb_serialize(F) = h[8] \o F["FsBase"][0] \o F["GsBase"][0]
  BY <1>5, <1>9, Zenon DEF gdb_serialize
<1>21. gdb_serialize(F) = FlattenSeq(D)
  BY <1>1, <1>19, <1>20, FlatOfAll, Zenon
<1> QED BY <1>21 DEF D, F

\* The p packet is the described register, whole when the buffer holds 16 bytes.
LEMMA ReadRegister ==
  ASSUME BufLen >= 16, NEW teb \in Seq(Byte), Len(teb) = 8, NEW id \in 0..58
  PROVE  read_register_value(from_raw_id(id), File(teb), BufLen) = DescribedRegisters(teb)[id + 1]
<1> DEFINE v == Value(teb, from_raw_id(id))
<1>1. v = DescribedRegisters(teb)[id + 1] /\ v \in Seq(Byte) /\ Len(v) \in 0..16
  BY RegistersMatch DEF Matches
<1>2. read_register_value(from_raw_id(id), File(teb), BufLen)
        = SubSeq(v, 1, IF Len(v) < BufLen THEN Len(v) ELSE BufLen)
  BY DEF read_register_value, Value
<1> HIDE DEF v
<1>3. (IF Len(v) < BufLen THEN Len(v) ELSE BufLen) = Len(v)
  <2>1. BufLen \in Nat
    BY PacketConstants
  <2> DEFINE n == Len(v)
  <2>2. n \in 0..16
    BY <1>1
  <2> HIDE DEF n
  <2>3. (IF n < BufLen THEN n ELSE BufLen) = n
    BY <2>1, <2>2
  <2> QED BY <2>3 DEF n
<1>4. SubSeq(v, 1, Len(v)) = v
  <2> DEFINE w == SubSeq(v, 1, Len(v))
  <2>1. w \in Seq(Byte) /\ Len(w) = Len(v) /\ \A i \in 1..Len(v) : w[i] = v[i]
    <3>1. Len(v) \in Nat /\ Len(v) <= Len(v)
      BY <1>1
    <3> QED BY <1>1, <3>1, StartOf
  <2> HIDE DEF w
  <2>2. w = v
    BY <1>1, <2>1, SeqEqual
  <2> QED BY <2>2 DEF w
<1> QED BY <1>1, <1>2, <1>3, <1>4

\* Whatever is answered with registers carries the described ones.
LEMMA RegisterAnswer ==
  ASSUME BufLen >= 16, NEW q \in Packets, q.op \in {"g", "p"}, NEW r \in Answers(q)
  PROVE  RegistersExact(q, r)
<1>1. CASE r = Error
  BY <1>1 DEF Error, Kind, RegistersExact
<1>2. ASSUME NEW tid \in Catalog
      PROVE  /\ Registers[tid] = File(Teb(tid)) /\ Described[tid] = DescribedRegisters(Teb(tid))
             /\ Teb(tid) \in Seq(Byte) /\ Len(Teb(tid)) = 8
  <2>1. Registers[tid] = File(Teb(tid)) /\ Described[tid] = DescribedRegisters(Teb(tid))
    BY DEF Registers, File, Described
  <2> QED BY <2>1, TebSeq
<1>3. CASE q.op = "g" /\ r # Error
  <2>1. r \in read_registers(q)
    BY <1>3 DEF Answers
  <2>2. q.tid \in Catalog /\ r = [kind |-> "registers", bytes |-> gdb_serialize(Registers[q.tid])]
    BY <1>3, <2>1 DEF read_registers, thread_state
  <2>3. gdb_serialize(Registers[q.tid]) = FlattenSeq(Described[q.tid])
    BY <1>2, <2>2, SerializedFile
  <2> QED BY <1>3, <2>2, <2>3 DEF RegistersExact
<1>4. CASE q.op = "p" /\ r # Error
  <2>1. r \in read_register(q)
    BY <1>4 DEF Answers
  <2>2. /\ q.tid \in Catalog /\ from_raw_id(q.reg) # NoRegister
        /\ r = [kind |-> "registers", bytes |-> read_register_value(from_raw_id(q.reg), Registers[q.tid], BufLen)]
    BY <1>4, <2>1 DEF read_register, thread_state
  <2>3. q.reg \in RegIds
    BY <1>4 DEF Packets
  <2>4. q.reg \in Nat
    BY <2>3, PacketConstants
  <2>5. q.reg \in 0..58 /\ to_raw_id(from_raw_id(q.reg)) = q.reg
    BY <2>2, <2>4, RawIds
  <2>6. read_register_value(from_raw_id(q.reg), Registers[q.tid], BufLen) = Described[q.tid][q.reg + 1]
    BY <1>2, <2>2, <2>5, ReadRegister
  <2> QED BY <1>4, <2>2, <2>5, <2>6 DEF RegistersExact
<1> QED BY <1>1, <1>3, <1>4


LEMMA OnlyRegisters ==
  ASSUME NEW q \in Packets, q.op \notin {"g", "p"}, NEW r \in Answers(q)
  PROVE  r.kind # "registers"
<1>1. CASE q.op # "monitor"
  BY <1>1, OtherKinds
<1>2. CASE q.op = "monitor"
  <2>1. r \in render(q)
    BY <1>2 DEF Answers
  <2>2. q.sub \in {"mem", "events", "module", "info", "threads", "stats", "other"}
    BY <1>2 DEF Packets
  <2>3. CASE q.sub \in {"module", "mem"}
    BY <1>2, <2>1, <2>3, ModuleAnswer, MemAnswer
  <2>4. CASE q.sub = "events"
    <3>1. r \in events(q)
      BY <2>1, <2>4 DEF render
    <3>2. r = Kind("bad_argument") \/ \E shown : r = [kind |-> "events", shown |-> shown]
      BY <3>1, Zenon DEF events
    <3> QED BY <3>2 DEF Kind
  <2>5. CASE q.sub \in {"info", "threads", "stats", "other"}
    BY <2>1, <2>5 DEF render, info, Kind
  <2> QED BY <2>2, <2>3, <2>4, <2>5
<1> QED BY <1>1, <1>2

LEMMA HandleRegisters ==
  ASSUME BufLen >= 16, XferInv, SessionInv, HandlePacket
  PROVE  RegistersAgree'
<1>1. query # NoQuery /\ Reply(query)
  BY DEF HandlePacket
<1>2. reply'.to = query
  BY <1>1 DEF Reply
<1> SUFFICES RegistersExact(query, reply'.is)
  BY <1>2 DEF RegistersAgree, RegistersExact
<1>3. CASE query.op = "xfer"
  <2>1. reply'.is.kind \in {"E", "chunk"}
    BY <1>1, <1>3, XferAnswer DEF Error, Kind
  <2> QED BY <2>1 DEF RegistersExact
<1>4. CASE query \in Packets
  <2>1. reply'.is \in Answers(query) \cup {Busy(query)}
    BY <1>1 DEF Reply
  <2>2. CASE reply'.is = Busy(query)
    <3>1. reply'.is.kind # "registers"
      BY <2>2 DEF Busy, Kind, Error
    <3> QED BY <3>1 DEF RegistersExact
  <2>3. CASE reply'.is \in Answers(query) /\ query.op \in {"g", "p"}
    BY <1>4, <2>3, RegisterAnswer
  <2>4. CASE reply'.is \in Answers(query) /\ query.op \notin {"g", "p"}
    BY <1>4, <2>4, OnlyRegisters DEF RegistersExact
  <2> QED BY <2>1, <2>2, <2>3, <2>4
<1> QED BY <1>1, <1>3, <1>4 DEF SessionInv

LEMMA RegisterStep ==
  ASSUME BufLen >= 16, XferInv, SessionInv, RegistersAgree, [Next]_vars
  PROVE  RegistersAgree'
<1>1. ASSUME reply' = NoReply PROVE RegistersAgree'
  <2>1. reply'.is.kind = "none"
    BY <1>1 DEF NoReply
  <2> QED BY <2>1 DEF RegistersAgree, RegistersExact
<1>2. ASSUME UNCHANGED reply PROVE RegistersAgree'
  BY <1>2 DEF RegistersAgree, RegistersExact
<1>3. ASSUME NEW q \in Packets, Ask(q) PROVE reply' = NoReply
  BY <1>3 DEF Ask, MaySend
<1>4. ASSUME NEW o \in Objects, NEW n \in Lengths, AskChunk(o, n) PROVE reply' = NoReply
  BY <1>4 DEF AskChunk, MaySend
<1>5. CASE HandlePacket
  BY <1>5, HandleRegisters
<1>6. Resume \/ TakeStop => reply' = NoReply
  BY DEF Resume, TakeStop
<1>7. ASSUME NEW p \in Positions, WorkerClears(p) PROVE UNCHANGED reply
  BY <1>7 DEF WorkerClears
<1>8. WorkerSends \/ UNCHANGED vars => UNCHANGED reply
  BY DEF WorkerSends, vars
<1> QED BY <1>1, <1>2, <1>3, <1>4, <1>5, <1>6, <1>7, <1>8 DEF Next

\* RegistersAgree for every thread catalogue, TEB and register number: p returns
\* the register the target description declares under that number, and g all 59
\* in its order.  The buffer gdbstub lends must hold the widest register (XMM, 16
\* bytes): read_register_value cuts a value off at its end.  gdbstub lends its
\* packet buffer, which is far larger.
THEOREM RegistersAsDescribed ==
  ASSUME BufLen >= 16
  PROVE  Spec => []RegistersAgree
<1>1. Init => SessionInv /\ RegistersAgree
  <2> SUFFICES ASSUME Init PROVE SessionInv /\ RegistersAgree
    OBVIOUS
  <2>1. SessionInv
    BY DEF Init, SessionInv
  <2>2. reply.is.kind = "none"
    BY DEF Init, NoReply
  <2> QED BY <2>1, <2>2 DEF RegistersAgree, RegistersExact
<1>2. XferInv /\ SessionInv /\ RegistersAgree /\ [Next]_vars => RegistersAgree'
  BY RegisterStep
<1> QED BY <1>1, <1>2, SessionInvariant, XferInvariant, PTL DEF Spec
=============================================================================
