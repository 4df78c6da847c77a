------------------------------ MODULE WebSocket ------------------------------
(***************************************************************************)
(* The emulator's own WebSocket (emulator/host/src/ws.mjs): frames come in *)
(* as chunks of bytes cut anywhere, messages go out as events.             *)
(*                                                                         *)
(* A byte of a payload is a bit, and masking is its sum with the mask's.   *)
(* The lengths at which the form of a header changes are constants, for    *)
(* those of the code (126, 65536, 8 MiB) are too large to run through.     *)
(* onData is one chunk and then one iteration of its loop at a time; only  *)
(* what the handlers of its events send comes in between.                  *)
(***************************************************************************)
EXTENDS Naturals, Sequences

CONSTANTS
  Short,       \* a payload shorter than this has its length in the header
  Medium,      \* one shorter than this has it in two bytes, others in eight
  MaxPayload,  \* a longer one is refused
  Payloads,    \* what a client's frame of each kind may carry
  Replies,     \* what the server may send
  Masks,       \* what a client may mask it with
  MaxFrames, MaxSends  \* bounds on the frames of client and server

Bits    == 0..1
Data    == {"text", "binary"}
Control == {"close", "ping", "pong", "reserved"}
Opcode  == Data \cup Control \cup {"continuation"}

ASSUME WebSocketAssumption ==
  /\ Short \in Nat /\ Medium \in Nat /\ Short < Medium
  /\ Short <= 126    \* what a header's seven bits hold, with Short + 1
  /\ Medium <= 65536 \* what two bytes hold
  /\ MaxPayload \in Nat
  /\ Payloads \in [Opcode -> SUBSET Seq(Bits)] /\ Replies \subseteq Seq(Bits)
  /\ Masks \subseteq [1..4 -> Bits]
  /\ MaxFrames \in Nat /\ MaxSends \in Nat

VARIABLES
  partial,   \* the client's message whose last fragment is to come, or << >>
  leaving,   \* the client has sent its close frame
  wire,      \* bytes under way to the server
  buffer, fragments, fragmentOpcode, closed,
  reading,   \* onData is in its loop
  out,       \* bytes written to the socket
  sent, got, \* messages the client has sent, and those emitted
  said,      \* frames the server has meant to send, and where each ends in out
  frames, sends

client == <<partial, leaving, sent, frames>>
inbox  == <<buffer, fragments, fragmentOpcode, got>>
vars   == <<client, wire, inbox, closed, reading, out, said, sends>>

Frames   == [fin : BOOLEAN, op : Opcode, data : Seq(Bits)]
Messages == [op : Data, data : Seq(Bits)]

TypeOK ==
  /\ partial \in {<< >>} \cup Messages
  /\ leaving \in BOOLEAN /\ closed \in BOOLEAN /\ reading \in BOOLEAN
  /\ fragments \in Seq(Bits) /\ fragmentOpcode \in {"none"} \cup Data
  /\ sent \in Seq(Messages) /\ got \in Seq(Messages)
  /\ said \in Seq([frame : Frames, end : Nat])
  /\ frames \in 0..MaxFrames /\ sends \in 0..MaxSends

(* A connection that has been upgraded.                                    *)
Init ==
  /\ partial = << >> /\ leaving = FALSE
  /\ wire = << >> /\ buffer = << >>
  /\ fragments = << >> /\ fragmentOpcode = "none"
  /\ closed = FALSE /\ reading = FALSE
  /\ out = << >> /\ said = << >>
  /\ sent = << >> /\ got = << >>
  /\ frames = 0 /\ sends = 0

-----------------------------------------------------------------------------
(* RFC 6455's header: two bytes, the length where the second names a field *)
(* for it, the mask.  A number goes out with its high bytes first, and no  *)
(* payload is as long as 2^64.                                             *)
UInt16(n) == <<n \div 256, n % 256>>

UInt64(n) ==
  LET rest(m) == m \div 65536
      low(m)  == UInt16(m % 65536)
  IN  UInt16(rest(rest(rest(n)))) \o low(rest(rest(n))) \o low(rest(n)) \o low(n)

Header(fin, op, masked, n) ==
  LET second(l) == <<[fin |-> fin, op |-> op], [masked |-> masked, len |-> l]>>
  IN  IF n < Short THEN second(n)
      ELSE IF n < Medium THEN second(Short) \o UInt16(n)
      ELSE second(Short + 1) \o UInt64(n)

(* Mutant: a payload of 126 bytes has its length in the header.            *)
ServerHeaderOffByOne(op, n) ==
  IF n = Short THEN <<[fin |-> TRUE, op |-> op], [masked |-> FALSE, len |-> n]>>
  ELSE Header(TRUE, op, FALSE, n)

(* sendFrame's: a single, final frame, without a mask.                     *)
ServerHeader(op, n) == Header(TRUE, op, FALSE, n)

Masked(data, mask) ==
  [i \in 1..Len(data) |-> (data[i] + mask[((i - 1) % 4) + 1]) % 2]

(* What a client puts on the wire.                                         *)
Encoded(f, mask) == Header(f.fin, f.op, TRUE, Len(f.data)) \o mask \o Masked(f.data, mask)

More   == [kind |-> "more"]
Refuse == [kind |-> "refuse"]

ReadUInt16(bytes, at) == 256 * bytes[at] + bytes[at + 1]

ReadUInt64(bytes, at) ==
  LET word(i) == ReadUInt16(bytes, at + 2 * i)
  IN  65536 * (65536 * (65536 * word(0) + word(1)) + word(2)) + word(3)

(* One complete frame out of the bytes, or what is to be done instead.     *)
FirstFrame(bytes, max) ==
  LET len7 == bytes[2].len
      ext  == IF len7 = Short THEN 2 ELSE IF len7 = Short + 1 THEN 8 ELSE 0
      size == IF ext = 0 THEN len7
              ELSE IF ext = 2 THEN ReadUInt16(bytes, 3) ELSE ReadUInt64(bytes, 3)
      at   == 2 + ext + (IF bytes[2].masked THEN 4 ELSE 0)
      data == SubSeq(bytes, at + 1, at + size)
  IN  IF Len(bytes) < 2 \/ Len(bytes) < 2 + ext THEN More
      ELSE IF ext = 8 /\ size > max THEN Refuse
      ELSE IF Len(bytes) < at + size THEN More
      ELSE [kind  |-> "frame",
            frame |-> [fin  |-> bytes[1].fin,
                       op   |-> bytes[1].op,
                       data |-> IF bytes[2].masked
                                THEN Masked(data, SubSeq(bytes, at - 3, at)) ELSE data],
            rest  |-> SubSeq(bytes, at + size + 1, Len(bytes))]

ReadFrame(bytes) == FirstFrame(bytes, MaxPayload)

-----------------------------------------------------------------------------
(* The client.  A message is one frame or several, with control frames in  *)
(* between them if it likes; after its close frame it sends nothing.       *)
Transmit(f) ==
  /\ frames < MaxFrames /\ ~leaving
  /\ frames' = frames + 1
  /\ \E mask \in Masks : wire' = wire \o Encoded(f, mask)
  /\ leaving' = (f.op = "close")
  /\ UNCHANGED <<inbox, closed, reading, out, said, sends>>

ClientFragment(op, data, fin) ==
  /\ (partial = << >>) = (op # "continuation")
  /\ Transmit([fin |-> fin, op |-> op, data |-> data])
  /\ LET message == IF partial = << >> THEN [op |-> op, data |-> data]
                    ELSE [partial EXCEPT !.data = @ \o data]
     IN  IF fin THEN sent' = Append(sent, message) /\ partial' = << >>
                ELSE partial' = message /\ UNCHANGED sent

ClientControl(op, data) ==
  /\ Transmit([fin |-> TRUE, op |-> op, data |-> data])
  /\ UNCHANGED <<partial, sent>>

-----------------------------------------------------------------------------
(* Nothing is written when the connection is closed.                       *)
SendFrame(op, data) ==
  IF closed THEN UNCHANGED <<out, said>>
  ELSE /\ out' = out \o ServerHeader(op, Len(data)) \o data
       /\ said' = Append(said, [frame |-> [fin |-> TRUE, op |-> op, data |-> data],
                                end   |-> Len(out')])

(* What the code and the reason come to does not matter.                   *)
Close == closed' = TRUE /\ SendFrame("close", <<1>>)

Send(data) ==
  /\ sends < MaxSends
  /\ sends' = sends + 1
  /\ SendFrame("text", data)
  /\ UNCHANGED <<client, wire, inbox, closed, reading>>

Chunk(n) ==
  /\ ~reading
  /\ buffer' = buffer \o SubSeq(wire, 1, n)
  /\ wire' = SubSeq(wire, n + 1, Len(wire))
  /\ reading' = TRUE
  /\ UNCHANGED <<client, fragments, fragmentOpcode, got, closed, out, said, sends>>

(* "data": whatever part of the bytes under way.                           *)
Arrive == \E n \in 1..Len(wire) : Chunk(n)

Emit(pieces, op) ==
  got' = Append(got, [op |-> IF op = "text" THEN "text" ELSE "binary", data |-> pieces])

(* Mutant: a control frame between two fragments drops the first.          *)
HandleControlAndDrop(f) ==
  /\ f.op \in Control
  /\ fragments' = << >>
  /\ IF f.op = "ping" THEN SendFrame("pong", f.data) /\ UNCHANGED closed
     ELSE IF f.op = "pong" THEN UNCHANGED <<out, said, closed>>
     ELSE Close
  /\ UNCHANGED <<fragmentOpcode, got>>

HandleControl(f) ==
  /\ f.op \in Control
  /\ IF f.op = "ping" THEN SendFrame("pong", f.data) /\ UNCHANGED closed
     ELSE IF f.op = "pong" THEN UNCHANGED <<out, said, closed>>
     ELSE Close
  /\ UNCHANGED <<fragments, fragmentOpcode, got>>

HandleData(f) ==
  LET first  == f.op \in Data
      pieces == IF first THEN f.data ELSE fragments \o f.data
      op     == IF first THEN f.op ELSE fragmentOpcode
  IN  /\ f.op \in Data \cup {"continuation"}
      /\ fragmentOpcode' = op
      /\ IF f.fin THEN fragments' = << >> /\ Emit(pieces, op)
                  ELSE fragments' = pieces /\ UNCHANGED got
      /\ UNCHANGED <<closed, out, said>>

(* Mutant: one frame a chunk.                                              *)
IterateOnce ==
  LET r == ReadFrame(buffer)
  IN  /\ reading
      /\ r.kind = "frame"
      /\ buffer' = r.rest
      /\ HandleControl(r.frame) \/ HandleData(r.frame)
      /\ reading' = FALSE
      /\ UNCHANGED <<client, wire, sends>>

(* One turn of onData's loop.                                              *)
Iterate ==
  LET r == ReadFrame(buffer)
  IN  /\ reading
      /\ \/ /\ r.kind = "more"
            /\ reading' = FALSE
            /\ UNCHANGED <<inbox, closed, out, said>>
         \/ /\ r.kind = "refuse"
            /\ reading' = FALSE
            /\ Close
            /\ UNCHANGED inbox
         \/ /\ r.kind = "frame"
            /\ buffer' = r.rest
            /\ HandleControl(r.frame) \/ HandleData(r.frame)
            /\ reading' = ~closed'
      /\ UNCHANGED <<client, wire, sends>>

(* The server stops (server.mjs): the socket is ended, not destroyed.      *)
Stop ==
  /\ ~reading /\ ~closed
  /\ Close
  /\ UNCHANGED <<client, wire, inbox, reading, sends>>

(* "close" and "error": what was under way is lost.                        *)
Reset ==
  /\ ~reading /\ ~closed
  /\ closed' = TRUE
  /\ wire' = << >>
  /\ leaving' = TRUE
  /\ UNCHANGED <<partial, sent, frames, inbox, reading, out, said, sends>>

Next ==
  \/ \E op \in Data \cup {"continuation"}, fin \in BOOLEAN :
       \E data \in Payloads[op] : ClientFragment(op, data, fin)
  \/ \E op \in Control : \E data \in Payloads[op] : ClientControl(op, data)
  \/ \E data \in Replies : Send(data)
  \/ Arrive
  \/ Iterate
  \/ Stop
  \/ Reset

Spec == Init /\ [][Next]_vars

-----------------------------------------------------------------------------
Channel == INSTANCE MessageChannel WITH open <- ~closed

(* However frames are cut into chunks and messages into frames, with pings *)
(* in between: handleFrame's messages are the client's, whole, once and in *)
(* order.                                                                  *)
ImplementsChannel == Channel!Spec

(* onData goes on until no frame is complete: when all bytes have come, and*)
(* the connection is open, all messages have been emitted.                 *)
NothingIsLeft == ~reading /\ ~closed /\ wire = << >> => got = sent

(* What sendFrame writes reads back as the frames it was to send, whatever *)
(* the form of their lengths, and none of them follows a close frame.      *)
AnswersAreFramed ==
  LET start(i) == IF i = 1 THEN 0 ELSE said[i - 1].end
      From(at) == SubSeq(out, at + 1, Len(out))
  IN  /\ \A i \in 1..Len(said) :
           /\ FirstFrame(From(start(i)), Len(out))
                = [kind |-> "frame", frame |-> said[i].frame, rest |-> From(said[i].end)]
           /\ said[i].frame.op = "close" => i = Len(said)
      /\ Len(out) = start(Len(said) + 1)

=============================================================================
