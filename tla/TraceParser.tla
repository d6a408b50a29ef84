----------------------------- MODULE TraceParser -----------------------------
(***************************************************************************)
(* The debug tester's trace decompressor (debugtester.c, CheckTrace and    *)
(* ParseTrace).  The trace port packs the bytes of two packet streams, ETM *)
(* and ITM, into frames; the program takes the frames apart, gives each    *)
(* byte to the stream whose ID is current and counts the packets.          *)
(*                                                                         *)
(* The sources and the formatter are hardware and are modelled from what   *)
(* the parser expects of them: each source sends packets of a given set,   *)
(* the formatter may change over to another ID between any two bytes.      *)
(* Values that are only printed (addresses, timestamps, payloads) are left *)
(* out.                                                                    *)
(***************************************************************************)
EXTENDS Integers, Sequences, SequencesExt

CONSTANTS
    EtmPackets,   \* [bytes, counts, bad]: a packet, the counters it is to
    ItmPackets,   \*   advance, and whether the source says to reject it
    ETM_ID, ITM_ID,
    Pairs,        \* byte pairs in a frame before its last byte (the code: 7)
    MaxPackets,   \* packets sent in one capture
    MaxFrames     \* frames of a capture

FrameAssumption == Pairs \in Nat \ {0} /\ MaxPackets \in Nat /\ MaxFrames \in Nat

NULL_ID == 0
TRIGGER_ID == 125
RESERVED_ID == 113
Ids == {NULL_ID, TRIGGER_ID, ETM_ID, ITM_ID}

Counters == {"frames", "triggers", "etm", "itm",
             "p_headers", "i_sync", "branches", "exceptions", "rfe",
             "timestamps", "ignore", "etm_triggers",
             "sync", "overflow", "glb1", "glb2", "ts", "sw", "event",
             "periodic", "itm_exception", "comp"}

VARIABLES parse,  \* the parser: its globals, its error count and its counters
          emit,   \* the sources and the formatter
          i,      \* the pair of the frame being taken apart; Pairs: its last byte
          cut,    \* TRUE when the capture ended inside a frame
          done    \* CheckTrace has returned

vars == <<parse, emit, i, cut, done>>

-----------------------------------------------------------------------------
(* ParseTrace: one byte.  Bit tests are written with \div and %.           *)

Top(b) == b >= 128              \* b & 0x80, the continuation bit
BitOf(b, n) == (b \div 2^n) % 2 = 1
Count(p, k) == [p EXCEPT !.counts[k] = @ + 1]
Error(p) == [p EXCEPT !.errors = @ + 1]
EtmTo(p, state, bytes) == [p EXCEPT !.etm_current = state, !.etm_bytes = bytes]
ItmTo(p, state, bytes) == [p EXCEPT !.itm_current = state, !.itm_bytes = bytes]

\* The header decides the packet.  The second kind of P-header is counted twice.
EtmHeader(p, b) ==
    CASE b = 0            -> EtmTo(p, "sync", p.etm_bytes + 1)
      [] b % 2 = 1        -> IF Top(b) THEN EtmTo(p, "branch", p.etm_bytes + 1)
                             ELSE Count(p, "branches")
      [] b = 8            -> EtmTo(p, "i_sync", p.etm_bytes)
      [] b = 12           -> Count(p, "etm_triggers")
      [] b = 102          -> Count(p, "ignore")
      [] b = 118          -> Count(p, "rfe")
      [] Top(b)           -> IF b % 4 = 0 THEN Count(p, "p_headers")
                             ELSE Count(Count(IF b \div 16 # 8 THEN Error(p) ELSE p,
                                              "p_headers"), "p_headers")
      [] b \in {66, 70}   -> Count(EtmTo(p, "timestamp", 0), "timestamps")
      [] OTHER            -> Error(p)

EtmSync(p, b) ==
    CASE b = 0   -> [p EXCEPT !.etm_bytes = @ + 1]
      [] b = 128 -> EtmTo(p, "idle", 0)
      [] OTHER   -> p

\* Bug variant: a fifth address byte is taken like the others.
EtmBranchUnbounded(p, b) ==
    LET n == p.etm_bytes + 1
    IN  IF Top(b) THEN [p EXCEPT !.etm_bytes = n]
        ELSE Count(EtmTo(p, IF BitOf(b, 6) THEN "exception" ELSE "idle", 0), "branches")
\* The last byte's bit 6 announces exception bytes.
EtmBranch(p, b) ==
    LET n == p.etm_bytes + 1
    IN  IF Top(b)
        THEN LET q == [p EXCEPT !.etm_bytes = n] IN IF n > 6 THEN Error(q) ELSE q
        ELSE LET q == Count(EtmTo(p, IF BitOf(b, 6) THEN "exception" ELSE "idle", 0),
                            "branches")
             IN  IF n = 5 THEN Error(q) ELSE q

\* Five bytes, the first with information whose bits 5 and 6 are the reason.
InfoOK(info) == ~Top(info) /\ info % 32 = 1
EtmISync(p, b) ==
    LET q == [p EXCEPT !.etm_bytes = @ + 1,
                       !.info = IF p.etm_bytes = 0 THEN b ELSE @]
    IN  IF q.etm_bytes # 5 THEN q
        ELSE Count(EtmTo(IF InfoOK(q.info) THEN q ELSE Error(q), "idle", 0), "i_sync")

\* The seventh byte, "should have [7:6]=00", is tested as
\* new_byte & (0xC0 != 0): its lowest bit.
EtmTimestamp(p, b) ==
    LET q == [p EXCEPT !.etm_bytes = @ + 1]
        r == IF q.etm_bytes = 7 /\ BitOf(b, 0)
             THEN [Error(q) EXCEPT !.etm_current = "idle"] ELSE q
    IN  IF Top(b) THEN r ELSE EtmTo(r, "idle", 0)

EtmException(p, b) ==
    LET q == [p EXCEPT !.etm_bytes = @ + 1]
    IN  IF ~Top(b) THEN Count(EtmTo(q, "idle", 0), "exceptions")
        ELSE IF q.etm_bytes > 2 THEN Error(q) ELSE q

ParseEtm(p, b) ==
    CASE p.etm_current = "idle"      -> EtmHeader(p, b)
      [] p.etm_current = "sync"      -> EtmSync(p, b)
      [] p.etm_current = "branch"    -> EtmBranch(p, b)
      [] p.etm_current = "i_sync"    -> EtmISync(p, b)
      [] p.etm_current = "timestamp" -> EtmTimestamp(p, b)
      [] p.etm_current = "exception" -> EtmException(p, b)

ItmStart(p, b, state, bytes) ==
    [ItmTo(p, state, bytes) EXCEPT !.itm_header = b, !.itm_payload = 0]
ItmHeader(p, b) ==
    CASE b = 0      -> ItmTo(p, "sync", 1)
      [] b = 112    -> Count(p, "overflow")
      [] b % 16 = 0 /\ b \notin {0, 112} ->
             IF Top(b) THEN ItmStart(p, b, "local ts", 1) ELSE Count(p, "ts")
      [] b = 148    -> ItmStart(p, b, "glb ts1", 1)
      [] b = 180    -> ItmStart(p, b, "glb ts2", 1)
      [] b % 4 # 0  -> [ItmStart(p, b, "stimulus", 0)
                           EXCEPT !.itm_size = CASE b % 4 = 1 -> 1 [] b % 4 = 2 -> 2
                                                 [] b % 4 = 3 -> 4]
      [] OTHER      -> Error(p)

ItmSync(p, b) ==
    LET q == [p EXCEPT !.itm_bytes = @ + 1]
        r == IF b = 128 THEN Count(ItmTo(q, "idle", 0), "sync") ELSE q
    IN  IF b % 128 # 0 THEN Error(ItmTo(r, "idle", 0)) ELSE r

ItmLocalTs(p, b) ==
    IF ~Top(b) THEN Count(ItmTo(p, "idle", 0), "ts")
    ELSE IF p.itm_bytes + 1 > 5 THEN Error(ItmTo(p, "idle", 0))
         ELSE [p EXCEPT !.itm_bytes = @ + 1]

\* A finished global timestamp leaves its byte count behind.
ItmGlobalTs(p, b, counter, lastBad) ==
    LET n == p.itm_bytes + 1
    IN  IF ~Top(b)
        THEN LET q == Count(ItmTo(p, "idle", n), counter)
             IN  IF n = 5 /\ lastBad THEN Error(q) ELSE q
        ELSE IF n = 5 THEN Error(ItmTo(p, "idle", 0)) ELSE [p EXCEPT !.itm_bytes = n]
\* Its test that the timestamp increases is masked with 0x40 == 0: never made.
ItmGlobalTs1(p, b) == ItmGlobalTs(p, b, "glb1", FALSE)
\* The fifth byte, "can only have bit[0] set", is tested as
\* new_byte & (0xFE != 0): its lowest bit.
ItmGlobalTs2(p, b) == ItmGlobalTs(p, b, "glb2", BitOf(b, 0))

\* Bug variant: the last of the six events is forgotten.
CountFiveEvents(p) ==
    FoldLeft(LAMBDA q, n : IF BitOf(q.itm_payload, n) THEN Count(q, "event") ELSE q,
             p, <<0, 1, 2, 3, 4>>)
\* A hardware source counts by its number; an event packet once per event.
CountEvents(p) ==
    FoldLeft(LAMBDA q, n : IF BitOf(q.itm_payload, n) THEN Count(q, "event") ELSE q,
             p, <<0, 1, 2, 3, 4, 5>>)
HardwareSource(p) ==
    LET source == p.itm_header \div 8
    IN  CASE source = 0 -> CountEvents(p)
          [] source = 1 -> Count(p, "itm_exception")
          [] source = 2 -> Count(p, "periodic")
          [] OTHER -> Count(IF source \div 4 = 3 THEN Error(p) ELSE p, "comp")
\* The low byte of the payload is kept.
ItmStimulus(p, b) ==
    LET q == [p EXCEPT !.itm_bytes = @ + 1,
                       !.itm_payload = IF p.itm_bytes = 0 THEN b ELSE @]
    IN  IF q.itm_bytes # q.itm_size THEN q
        ELSE ItmTo(IF BitOf(q.itm_header, 2) THEN HardwareSource(q) ELSE Count(q, "sw"),
                   "idle", 0)

ParseItm(p, b) ==
    CASE p.itm_current = "idle"     -> ItmHeader(p, b)
      [] p.itm_current = "sync"     -> ItmSync(p, b)
      [] p.itm_current = "local ts" -> ItmLocalTs(p, b)
      [] p.itm_current = "glb ts1"  -> ItmGlobalTs1(p, b)
      [] p.itm_current = "glb ts2"  -> ItmGlobalTs2(p, b)
      [] p.itm_current = "stimulus" -> ItmStimulus(p, b)

ParseTrace(p, b) ==
    CASE p.trace_id = NULL_ID    -> IF b # 0 THEN Error(p) ELSE p
      [] p.trace_id = ETM_ID     -> ParseEtm(Count(p, "etm"), b)
      [] p.trace_id = ITM_ID     -> ParseItm(Count(p, "itm"), b)
      [] p.trace_id = TRIGGER_ID -> Count(p, "triggers")
      [] OTHER                   -> Error(p)

-----------------------------------------------------------------------------
(* CheckTrace's loop over a frame.  In a pair the first byte's bit 0 tells *)
(* an ID from data; the real bit 0 of a data byte, or whether an ID counts *)
(* only after the next byte, is the pair's bit in the frame's last byte.   *)

WithId(p, first) == [p EXCEPT !.trace_id = first \div 2]
\* Bug variant: every new ID counts at once.
DecodePairUndelayed(p, first, second, lsb) ==
    IF first % 2 = 1 THEN ParseTrace(WithId(p, first), second)
    ELSE ParseTrace(ParseTrace(p, first + lsb), second)
DecodePair(p, first, second, lsb) ==
    IF first % 2 = 1
    THEN IF lsb = 1 THEN WithId(ParseTrace(p, second), first)
         ELSE ParseTrace(WithId(p, first), second)
    ELSE ParseTrace(ParseTrace(p, first + lsb), second)
\* The frame's last byte before the bits: an ID there cannot be a delayed one.
DecodeLast(p, first, lsb) ==
    IF first % 2 = 1 THEN IF lsb # 0 THEN Error(p) ELSE WithId(p, first)
    ELSE ParseTrace(p, first + lsb)

-----------------------------------------------------------------------------
(* The sources and the formatter.                                          *)

Sources == {ETM_ID, ITM_ID}
Packets(s) == IF s = ETM_ID THEN EtmPackets ELSE ItmPackets
NoPacket == [bytes |-> <<>>, counts |-> <<>>, bad |-> FALSE]

\* The two timestamps of full length, whose last byte is tested by the mask
\* 0xC0 != 0 or 0xFE != 0: what the compiled program rejects is an odd byte.
FullTimestamp(bytes) == \/ Head(bytes) \in {66, 70} /\ Len(bytes) = 8
                        \/ Head(bytes) = 180 /\ Len(bytes) = 5
Rejected(packet) == IF FullTimestamp(packet.bytes) THEN BitOf(Last(packet.bytes), 0)
                    ELSE packet.bad

\* Source s sends byte n of a packet; the last one settles what is to be counted.
SendByte(e, s, packet, n) ==
    LET last == n = Len(packet.bytes)
        ks == (IF last THEN packet.counts ELSE <<>>) \o <<IF s = ETM_ID THEN "etm" ELSE "itm">>
    IN  [byte |-> packet.bytes[n],
         next |-> [e EXCEPT !.packet[s] = IF last THEN NoPacket ELSE packet,
                            !.sent[s] = IF last THEN 0 ELSE n,
                            !.left = IF n = 1 THEN @ - 1 ELSE @,
                            !.bad = @ \/ (last /\ packet.bad),
                            !.rejected = @ \/ (last /\ Rejected(packet)),
                            !.counts = FoldLeft(LAMBDA c, k : [c EXCEPT ![k] = @ + 1], @, ks)]]

\* The bytes the formatter can take from the source of the current ID.
Bytes(e) ==
    CASE e.id = NULL_ID -> {[byte |-> 0, next |-> e]}
      [] e.id = TRIGGER_ID ->
             {[byte |-> 0, next |-> [e EXCEPT !.counts["triggers"] = @ + 1]]}
      [] e.id \in Sources ->
             IF e.sent[e.id] > 0
             THEN {SendByte(e, e.id, e.packet[e.id], e.sent[e.id] + 1)}
             ELSE {SendByte(e, e.id, packet, 1) :
                       packet \in {q \in Packets(e.id) : e.left > 0}}
      [] OTHER -> {}

AtRest(e) == \A s \in Sources : e.sent[s] = 0

-----------------------------------------------------------------------------
Init ==
    /\ parse = [trace_id |-> RESERVED_ID, errors |-> 0,
                etm_current |-> "idle", etm_bytes |-> 0, info |-> 0,
                itm_current |-> "idle", itm_bytes |-> 0, itm_size |-> 0,
                itm_header |-> 0, itm_payload |-> 0,
                counts |-> [k \in Counters |-> 0]]
    /\ emit = [id |-> RESERVED_ID, packet |-> [s \in Sources |-> NoPacket],
               sent |-> [s \in Sources |-> 0], left |-> MaxPackets,
               bad |-> FALSE, rejected |-> FALSE,
               counts |-> [k \in Counters |-> 0]]
    /\ i = 0 /\ cut = FALSE /\ done = FALSE

\* A frame is taken while no error has been counted; it is counted once.
FrameBegins == i = 0 => parse.errors = 0 /\ parse.counts["frames"] < MaxFrames
Framed(r) == IF i = 0 THEN [r EXCEPT !.counts["frames"] = @ + 1] ELSE r

TakePair(first, second, lsb, next) ==
    /\ ~done /\ i < Pairs /\ FrameBegins
    /\ parse' = DecodePair(Framed(parse), first, second, lsb)
    /\ emit' = Framed(next)
    /\ i' = i + 1 /\ UNCHANGED <<cut, done>>

DataPair ==
    \E x \in Bytes(emit) : \E y \in Bytes(x.next) :
        TakePair(x.byte - (x.byte % 2), y.byte, x.byte % 2, y.next)
\* The byte after the ID belongs to the new source, or still to the old one.
NewId ==
    \E n \in Ids \ {emit.id} : \E y \in Bytes([emit EXCEPT !.id = n]) :
        TakePair(2 * n + 1, y.byte, 0, y.next)
NewIdDelayed ==
    \E n \in Ids \ {emit.id} : \E y \in Bytes(emit) :
        TakePair(2 * n + 1, y.byte, 1, [y.next EXCEPT !.id = n])

LastByte(first, lsb, next) ==
    /\ ~done /\ i = Pairs
    /\ parse' = DecodeLast(parse, first, lsb)
    /\ emit' = next
    /\ i' = 0 /\ UNCHANGED <<cut, done>>
LastData == \E x \in Bytes(emit) : LastByte(x.byte - (x.byte % 2), x.byte % 2, x.next)
LastId == \E n \in Ids \ {emit.id} : LastByte(2 * n + 1, 0, [emit EXCEPT !.id = n])

\* No frame is left, or an error was counted: the counters are reported.
CheckTraceReturns ==
    /\ ~done /\ i = 0 /\ (parse.errors = 0 => AtRest(emit))
    /\ done' = TRUE /\ UNCHANGED <<parse, emit, i, cut>>

\* The capture ends inside a frame: nothing of that frame is parsed.
IncompleteFrame ==
    /\ ~done /\ i = 0 /\ parse.errors = 0
    /\ parse' = Error(parse)
    /\ cut' = TRUE /\ done' = TRUE /\ UNCHANGED <<emit, i>>

Next == DataPair \/ NewId \/ NewIdDelayed \/ LastData \/ LastId
            \/ CheckTraceReturns \/ IncompleteFrame
Spec == Init /\ [][Next]_vars

-----------------------------------------------------------------------------
\* However the two streams are cut up and mixed, each half of the parser is
\* between packets exactly when its source is: no byte goes to the wrong
\* stream, and no packet is ended a byte early or late.  Between packets the
\* counters are the packets sent.
InStep ==
    parse.errors = 0 =>
        /\ parse.trace_id = emit.id
        /\ parse.etm_current = "idle" <=> emit.sent[ETM_ID] = 0
        /\ parse.itm_current = "idle" <=> emit.sent[ITM_ID] = 0
        /\ parse.etm_current = "idle" => parse.etm_bytes = 0
        /\ AtRest(emit) => parse.counts = emit.counts

\* CheckTrace fails the capture exactly when a packet in it is one that a test
\* of the compiled parser rejects, or its end is missing: no test is passed over
\* and none is met by a good byte, wherever the frames and IDs divide a packet.
VerdictAsCompiled ==
    done => (parse.errors > 0 <=> emit.rejected \/ cut)

\* CheckTrace fails the capture exactly when a packet in it is wrong by what the
\* parser's messages say of it ("ITM TS2 byte 5 can only have bit[0] set"), or
\* its end is missing.  False: the masks of two tests are compiled to 1.
VerdictIsRight ==
    done => (parse.errors > 0 <=> emit.bad \/ cut)
=============================================================================
