------------------------------ MODULE Framing -------------------------------
(* WebSocket messages as frames: WebSocketChannel::send and sendPing under   *)
(* the channel's mutex, websocket_build_frame, the state machine of          *)
(* websocket_parser_execute with whatever read boundaries the hio gives it,  *)
(* and WebSocketParser, which joins fragments.  What one write call queues   *)
(* arrives as a whole (module Hio).                                          *)
(*                                                                           *)
(* A byte is [k, v, f]: what the writer meant it for, its value, its top     *)
(* bit; payload is bits, so xor adds.  The parser looks at v and f only.     *)
(* The numbers of the format, 125, 256 and 4 bytes of mask, are parameters.  *)
EXTENDS Integers, Sequences

CONSTANTS
    Sender,          \* threads that send a message each
    Lengths,         \* of messages
    Fragment,        \* 0xFFFF, where send cuts messages
    Short,           \* 125
    Radix, Digits2, Digits8,  \* 256, 2 and 8: of an extended length
    MaskLen,         \* 4
    MaxPings,
    MaxRead,         \* bytes that one read returns
    NoSender

(* The numbers that i bytes of a length can tell apart. *)
Weight[i \in Nat] == IF i = 0 THEN 1 ELSE Radix * Weight[i - 1]

ASSUME FramingAssumption ==
    /\ NoSender \notin Sender /\ Lengths \subseteq Nat
    /\ {Fragment, Short, Radix, Digits2, Digits8, MaskLen, MaxRead} \subseteq Nat \ {0}
    /\ MaxPings \in Nat /\ Digits2 <= Digits8
    /\ \A n \in Lengths : n < Weight[Digits8]

VARIABLES
    isClient,        \* WebSocketChannel::type of the sender: clients mask
    spc, off,        \* per sender: "idle", "sending", "done"; bytes of it sent
    len,             \* per sender: length of its message
    holder,          \* mutex_
    pings,
    wire,            \* bytes written and not read
    parser,          \* websocket_parser and WebSocketParser
    messages,        \* what onMessage was called with
    sent             \* messages, in the order in which their senders had mutex_

fvars == <<isClient, spc, off, len, holder, pings, wire, parser, messages, sent>>

CONTINUE == 0
TEXT == 1
PING == 9

-----------------------------------------------------------------------------
(* websocket_build_frame *)

Byte(k, v, f) == [k |-> k, v |-> v, f |-> f]

DigitsOf(n, d) == [i \in 1..d |-> Byte("length", (n \div Weight[d - i]) % Radix, FALSE)]

LengthBytes(n, masked) ==
    IF n <= Short THEN <<Byte("head", n, masked)>>
    ELSE IF n < Weight[Digits2]
         THEN <<Byte("head", Short + 1, masked)>> \o DigitsOf(n, Digits2)
         ELSE <<Byte("head", Short + 2, masked)>> \o DigitsOf(n, Digits8)

(* websocket_decode, which masks as well as unmasks, from offset o on *)
Masked(data, mask, o) ==
    [i \in DOMAIN data |-> (data[i] + mask[(i - 1 + o) % MaskLen]) % 2]

Bytes(k, values) == [i \in DOMAIN values |-> Byte(k, values[i], FALSE)]

Frame(op, fin, data, mask) ==
    <<Byte("start", op, fin)>> \o LengthBytes(Len(data), isClient)
    \o IF isClient
       THEN Bytes("mask", [i \in 1..MaskLen |-> mask[i - 1]])
            \o Bytes("body", Masked(data, mask, 0))
       ELSE Bytes("body", data)

Masks == [0..MaskLen - 1 -> 0..1]

-----------------------------------------------------------------------------
(* Writers. *)

FInit ==
    /\ isClient \in BOOLEAN /\ len \in [Sender -> Lengths]
    /\ spc = [s \in Sender |-> "idle"] /\ off = [s \in Sender |-> 0]
    /\ holder = NoSender /\ pings = 0 /\ wire = <<>> /\ messages = <<>> /\ sent = <<>>
    /\ parser = [state |-> "start", length |-> 0, require |-> 0, fin |-> FALSE, flags |-> 0,
                 masked |-> FALSE, mask |-> [i \in 0..MaskLen - 1 |-> 0], mask_offset |-> 0,
                 frame |-> "BEGIN", opcode |-> 0, message |-> <<>>, out |-> <<>>]

(* A sender's message: bits that tell positions and lengths apart. *)
Payload(s) == [i \in 1..len[s] |-> (i \div 2) % 2]
Message(op, data) == [op |-> op, data |-> data]

Locks(s) ==
    /\ spc[s] = "idle" /\ holder = NoSender
    /\ holder' = s /\ spc' = [spc EXCEPT ![s] = "sending"]
    /\ sent' = Append(sent, Message(TEXT, Payload(s)))
    /\ UNCHANGED <<isClient, off, len, pings, wire, parser, messages>>

(* sendFrame of the next fragment, all of it if it fits; the last unlocks. *)
SendsFragment_unlocking(s) ==
    /\ spc[s] = "sending" /\ holder \in {s, NoSender}
    /\ LET n == IF len[s] - off[s] > Fragment THEN Fragment ELSE len[s] - off[s]
           last == off[s] + n = len[s]
       IN  /\ \E mask \in Masks :
                wire' = wire \o Frame(IF off[s] = 0 THEN TEXT ELSE CONTINUE, last,
                                      SubSeq(Payload(s), off[s] + 1, off[s] + n), mask)
           /\ off' = [off EXCEPT ![s] = @ + n]
           /\ spc' = IF last THEN [spc EXCEPT ![s] = "done"] ELSE spc
           /\ holder' = NoSender
    /\ UNCHANGED <<isClient, len, pings, parser, messages, sent>>

SendsFragment(s) ==
    /\ spc[s] = "sending"
    /\ LET n == IF len[s] - off[s] > Fragment THEN Fragment ELSE len[s] - off[s]
           last == off[s] + n = len[s]
       IN  /\ \E mask \in Masks :
                wire' = wire \o Frame(IF off[s] = 0 THEN TEXT ELSE CONTINUE, last,
                                      SubSeq(Payload(s), off[s] + 1, off[s] + n), mask)
           /\ off' = [off EXCEPT ![s] = @ + n]
           /\ spc' = IF last THEN [spc EXCEPT ![s] = "done"] ELSE spc
           /\ holder' = IF last THEN NoSender ELSE holder
    /\ UNCHANGED <<isClient, len, pings, parser, messages, sent>>

(* sendPing, from the loop's thread; a client's has a fixed mask. *)
sendPing ==
    /\ holder = NoSender /\ pings < MaxPings /\ pings' = pings + 1
    /\ wire' = wire \o Frame(PING, TRUE, <<>>, [i \in 0..MaskLen - 1 |-> i % 2])
    /\ sent' = Append(sent, Message(PING, <<>>))
    /\ UNCHANGED <<isClient, spc, off, len, holder, parser, messages>>

-----------------------------------------------------------------------------
(* The reader. *)

(* on_frame_header *)
frame_header(c) ==
    [c EXCEPT !.opcode = IF c.flags # CONTINUE THEN c.flags ELSE @,
              !.message = IF c.frame \in {"BEGIN", "FIN"} THEN <<>> ELSE @,
              !.frame = "HEADER"]

(* on_frame_body, with websocket_parser_decode *)
frame_body(c, data) ==
    [c EXCEPT !.frame = "BODY",
              !.message = @ \o (IF c.masked THEN Masked(data, c.mask, c.mask_offset) ELSE data),
              !.mask_offset = IF c.masked THEN (@ + Len(data)) % MaskLen ELSE @]

(* on_frame_end *)
frame_end(c) ==
    [c EXCEPT !.frame = IF c.fin THEN "FIN" ELSE "END",
              !.out = IF c.fin THEN Append(@, Message(c.opcode, c.message)) ELSE @]

(* What follows when the length, and the mask if there is one, are known. *)
Headed(c) ==
    IF c.length > 0
    THEN frame_header([c EXCEPT !.state = "body", !.require = c.length])
    ELSE frame_end(frame_header([c EXCEPT !.state = "start"]))

Measured(c) == IF c.masked THEN [c EXCEPT !.state = "mask", !.require = MaskLen] ELSE Headed(c)

(* The cases of the switch; each takes the first byte, or several, of data. *)
StartCase(c, b) ==
    [c EXCEPT !.length = 0, !.mask_offset = 0, !.flags = b.v, !.fin = b.f, !.masked = FALSE,
              !.state = "head"]

HeadCase(c, b) ==
    LET d == [c EXCEPT !.masked = b.f, !.length = b.v]
    IN  IF b.v <= Short THEN Measured(d)
        ELSE [d EXCEPT !.length = 0, !.state = "length",
                       !.require = IF b.v = Short + 2 THEN Digits8 ELSE Digits2]

LengthCase(c, b) ==
    LET d == [c EXCEPT !.length = Radix * @ + b.v, !.require = @ - 1]
    IN  IF d.require = 0 THEN Measured(d) ELSE d

MaskCase(c, b) ==
    LET d == [c EXCEPT !.mask[MaskLen - c.require] = b.v, !.require = @ - 1]
    IN  IF d.require = 0 THEN Headed(d) ELSE d

BodyCase(c, data) ==
    LET d == frame_body(c, [i \in DOMAIN data |-> data[i].v])
    IN  IF c.require = Len(data) THEN frame_end([d EXCEPT !.state = "start", !.require = 0])
        ELSE [d EXCEPT !.require = @ - Len(data)]

(* What a turn of the loop takes: of a body all that is there, else a byte. *)
Portion(c, data) ==
    IF c.state # "body" THEN 1 ELSE IF c.require < Len(data) THEN c.require ELSE Len(data)

ByState(c, data) ==
    CASE c.state = "start" -> StartCase(c, Head(data))
      [] c.state = "head" -> HeadCase(c, Head(data))
      [] c.state = "length" -> LengthCase(c, Head(data))
      [] c.state = "mask" -> MaskCase(c, Head(data))
      [] c.state = "body" -> BodyCase(c, data)

Turn(t) ==
    IF t.rest = <<>> THEN t
    ELSE LET n == Portion(t.parser, t.rest)
         IN  [parser |-> ByState(t.parser, SubSeq(t.rest, 1, n)),
              rest |-> SubSeq(t.rest, n + 1, Len(t.rest))]

(* websocket_parser_execute; its loop takes a byte at least in each turn. *)
execute(c, data) ==
    LET loop[k \in 0..Len(data)] ==
            IF k = 0 THEN [parser |-> c, rest |-> data] ELSE Turn(loop[k - 1])
    IN  loop[Len(data)].parser

(* FeedRecvData of what one read returned *)
Reads(n) ==
    /\ n \in 1..Len(wire)
    /\ LET c == execute(parser, SubSeq(wire, 1, n))
       IN  /\ parser' = [c EXCEPT !.out = <<>>]
           /\ messages' = messages \o c.out
    /\ wire' = SubSeq(wire, n + 1, Len(wire))
    /\ UNCHANGED <<isClient, spc, off, len, holder, pings, sent>>

FNext ==
    \/ \E s \in Sender : Locks(s) \/ SendsFragment(s)
    \/ sendPing
    \/ \E n \in 1..MaxRead : Reads(n)

FSpec == FInit /\ [][FNext]_fvars

-----------------------------------------------------------------------------
(* Properties. *)

(* What the parser has read of a length leaves room for the digits it waits  *)
(* for, so a length is one the format has; it waits for bytes only where     *)
(* there are some to come, and never for more of a body than its length.     *)
LengthFits(c) ==
    /\ c.length \in 0..Weight[Digits8] - 1
    /\ c.state \in {"start", "head"} => c.require = 0
    /\ c.state = "length" => /\ c.require \in 1..Digits8
                             /\ c.length < Weight[Digits8 - c.require]
    /\ c.state = "mask" => c.require \in 1..MaskLen
    /\ c.state = "body" => c.require \in 1..c.length

(* What the variables hold. *)
FTypeOK ==
    /\ spc \in [Sender -> {"idle", "sending", "done"}] /\ holder \in Sender \cup {NoSender}
    /\ \A s \in Sender : off[s] \in 0..len[s] /\ (spc[s] = "done" => off[s] = len[s])
    /\ LengthFits(parser)
    /\ parser.mask_offset \in 0..MaskLen - 1 /\ parser.out = <<>>

(* Wherever reads cut the stream, the parser takes every byte for what the  *)
(* writer meant it to be: no length, mask or payload is taken for another.  *)
InStep == wire # <<>> => Head(wire).k = parser.state

(* onMessage gets whole messages, unmasked and with their opcode, in the    *)
(* order in which the writers had the mutex, and in the end all of them:    *)
(* neither another thread's message nor a PING gets in between fragments.   *)
WholeInOrder ==
    /\ Len(messages) <= Len(sent)
    /\ \A i \in DOMAIN messages : messages[i] = sent[i]
    /\ wire = <<>> /\ holder = NoSender => messages = sent

FramesSound == InStep /\ WholeInOrder
=============================================================================
