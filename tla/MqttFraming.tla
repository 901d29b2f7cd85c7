----------------------------- MODULE MqttFraming -----------------------------
(***************************************************************************)
(* Packets as bytes, in the embedded MQTT broker (mqtt/server.py): how the *)
(* handler of a connection cuts what it reads, in pieces of any size, into *)
(* packets, and writes packets to this client and to a subscriber.  For    *)
(* MqttBroker packets arrive whole; this module is about whether they do.  *)
(*                                                                         *)
(* Base is 128 in the code: a length byte has a digit, and Base added to   *)
(* it if more follow.  A topic and a packet id are one byte each, and a    *)
(* CONNECT or SUBSCRIBE is cut out as a PUBLISH is.  Clients encode as the *)
(* MQTT standard says, at most four digits, so "Malformed MQTT Remaining   *)
(* Length" is never raised.                                                *)
(***************************************************************************)
EXTENDS Naturals, Sequences, FiniteSetsExt, SequencesExt, Subsequences

CONSTANTS
    Base,           \* 128
    Payloads,       \* contents a client publishes
    MaxRead,        \* 1024, the bytes of one read
    MaxPackets      \* bound: packets the client sends

Bytes == 0..(2 * Base - 1)

ASSUME FramingAssumption ==
    /\ Base \in Nat /\ Base >= 2
    /\ Payloads \subseteq Seq(Bytes)
    /\ MaxRead \in Nat \ {0} /\ MaxPackets \in Nat

VARIABLES
    sent,       \* packets the client has sent
    wire,       \* bytes the handler has not read
    data,       \* data, the bytes read and not yet taken
    state,      \* the handler: reading, taking packets from data, or failed
    taken,      \* packets the handler has processed
    written     \* bytes written to the client and to the subscriber

framingVars == <<sent, wire, data, state, taken, written>>

\* The first byte of a packet: its type and, for PUBLISH, the QoS.
Ping == 0
Publish == 1
PublishQos1 == 2
Answer == 3      \* PUBACK and PINGRESP

Topic == 0
Id == 1

ClientPackets ==
    {[head |-> Ping, body |-> <<>>]}
    \union {[head |-> Publish, body |-> <<Topic>> \o c] : c \in Payloads}
    \union {[head |-> PublishQos1, body |-> <<Topic, Id>> \o c] : c \in Payloads}

FramingTypeOK ==
    /\ sent \in Seq(ClientPackets) /\ Len(sent) <= MaxPackets
    /\ wire \in Seq(Bytes) /\ data \in Seq(Bytes)
    /\ state \in {"reading", "taking", "failed"}
    /\ taken \in Seq(ClientPackets)
    /\ written \in [{"client", "subscriber"} -> Seq(Bytes)]

FramingInit ==
    /\ sent = <<>> /\ wire = <<>> /\ data = <<>> /\ taken = <<>>
    /\ state = "reading"
    /\ written = [to \in {"client", "subscriber"} |-> <<>>]
-----------------------------------------------------------------------------
(***************************************************************************)
(* The standard.  The digits of a length come lowest first, and as few of  *)
(* them as will do.                                                        *)
(***************************************************************************)
Number(digits) ==
    LET value[k \in 0..Len(digits)] ==      \* of the last k digits
            IF k = 0 THEN 0
            ELSE (digits[Len(digits) - k + 1] % Base) + Base * value[k - 1]
    IN  value[Len(digits)]

LengthFields ==
    {digits \in UNION {[1..k -> Bytes] : k \in 1..4} :
        /\ \A i \in DOMAIN digits : digits[i] >= Base <=> i < Len(digits)
        /\ Len(digits) > 1 => digits[Len(digits)] # 0}

LengthField ==
    [n \in {Number(digits) : digits \in LengthFields} |->
        CHOOSE digits \in LengthFields : Number(digits) = n]

Encoding(p) == <<p.head>> \o LengthField[Len(p.body)] \o p.body

\* Packets on a connection, one after the other.
Stream(packets) ==
    LET bytes[n \in 0..Len(packets)] ==
            IF n = 0 THEN <<>> ELSE bytes[n - 1] \o Encoding(packets[n])
    IN  bytes[Len(packets)]
-----------------------------------------------------------------------------
(***************************************************************************)
(* The client, and the connection.                                         *)
(***************************************************************************)
Sends(p) ==
    /\ Len(sent) < MaxPackets /\ Len(p.body) \in DOMAIN LengthField
    /\ sent' = Append(sent, p)
    /\ wire' = wire \o Encoding(p)
    /\ UNCHANGED <<data, state, taken, written>>

\* A read returns what has arrived, in pieces the network makes.
Read(n) ==
    /\ state = "reading" /\ n <= Len(wire)
    /\ data' = data \o SubSeq(wire, 1, n)
    /\ wire' = SubSeq(wire, n + 1, Len(wire))
    /\ state' = "taking"
    /\ UNCHANGED <<sent, taken, written>>
-----------------------------------------------------------------------------
(***************************************************************************)
(* Cutting packets.                                                        *)
(***************************************************************************)
\* _decode_length stops at the first byte without Base, or where the bytes end.
LengthBytes(bytes) ==
    LET ends == {i \in DOMAIN bytes : bytes[i] < Base}
    IN SubSeq(bytes, 1, IF ends = {} THEN Len(bytes) ELSE Min(ends))

\* Mutant: the first byte of the packet is not counted.
HeadLenShort == Len(LengthBytes(Tail(data)))
HeadLen == Len(LengthBytes(Tail(data))) + 1
MsgLength == Number(LengthBytes(Tail(data)))

Complete == Len(data) >= 2 /\ MsgLength + HeadLen <= Len(data)

Message == [head |-> data[1], body |-> SubSeq(data, HeadLen + 1, HeadLen + MsgLength)]

WaitForMore ==
    /\ state = "taking" /\ ~Complete
    /\ state' = "reading"
    /\ UNCHANGED <<sent, wire, data, taken, written>>

EncodeLength == [n \in Nat |->
    LET left[i \in 0..(n + 1)] == IF i = 0 THEN n ELSE left[i - 1] \div Base
        size == CHOOSE i \in 1..(n + 1) : left[i] = 0 /\ \A j \in 1..(i - 1) : left[j] # 0
    IN  [i \in 1..size |-> (left[i - 1] % Base) + (IF i < size THEN Base ELSE 0)]]

\* Mutant: the length leaves the packet id out.
MsgShort(head, ident, payload) == <<head>> \o EncodeLength[Len(payload)] \o ident \o payload
\* What _send_msg writes.
Msg(head, ident, payload) ==
    <<head>> \o EncodeLength[Len(ident) + Len(payload)] \o ident \o payload

PacketId(p) == IF p.head = PublishQos1 THEN <<p.body[2]>> ELSE <<>>
\* A publication is forwarded with QoS 0: topic and content, and no packet id.
Payload(p) == <<p.body[1]>> \o SubSeq(p.body, 2 + Len(PacketId(p)), Len(p.body))

Answers(p) == IF p.head = Publish THEN <<>> ELSE Msg(Answer, PacketId(p), <<>>)
Forwards(p) == IF p.head = Ping THEN <<>> ELSE Msg(Publish, <<>>, Payload(p))

\* Mutant: the next packet has to wait for the next read.
TakeOnePacket ==
    /\ state = "taking" /\ Complete
    /\ data' = SubSeq(data, HeadLen + MsgLength + 1, Len(data))
    /\ IF Message.body = <<>> /\ Message.head # Ping
       THEN state' = "failed" /\ UNCHANGED <<taken, written>>
       ELSE /\ state' = "reading"
            /\ taken' = Append(taken, Message)
            /\ written' = [client |-> written["client"] \o Answers(Message),
                           subscriber |-> written["subscriber"] \o Forwards(Message)]
    /\ UNCHANGED <<sent, wire>>

\* The packet is cut out and processed.  A PUBLISH without a body does not
\* parse; the exception ends the handler.
TakePacket ==
    /\ state = "taking" /\ Complete
    /\ data' = SubSeq(data, HeadLen + MsgLength + 1, Len(data))
    /\ IF Message.body = <<>> /\ Message.head # Ping
       THEN state' = "failed" /\ UNCHANGED <<taken, written>>
       ELSE /\ taken' = Append(taken, Message)
            /\ written' = [client |-> written["client"] \o Answers(Message),
                           subscriber |-> written["subscriber"] \o Forwards(Message)]
            /\ UNCHANGED state
    /\ UNCHANGED <<sent, wire>>
-----------------------------------------------------------------------------
Reading == \E n \in 1..MaxRead : Read(n)

FramingNext ==
    \/ \E p \in ClientPackets : Sends(p)
    \/ Reading \/ WaitForMore \/ TakePacket

FramingSpec == FramingInit /\ [][FramingNext]_framingVars
\* What was sent arrives, and the handler goes on.
FramingFairness == WF_framingVars(Reading) /\ WF_framingVars(WaitForMore \/ TakePacket)
FramingFairSpec == FramingSpec /\ FramingFairness
-----------------------------------------------------------------------------
\* The handler fails only at a packet whose length is a multiple of Base: its
\* length field starts with a zero digit, and when that is all that has been
\* read it looks like the whole field of an empty packet.
FailsAtZeroDigits ==
    state = "failed" =>
        LET length == Len(sent[Len(taken) + 1].body) IN length > 0 /\ length % Base = 0

\* However the bytes are split over reads, also inside a length field, the
\* handler never processes anything but the packets sent, whole and in order:
\* a length that is read too early makes it wait or fail
\* (_handle_client_inner, _decode_length), the latter at FailsAtZeroDigits alone.
\* The state is well typed.
PacketsAreWhole ==
    /\ FramingTypeOK
    /\ IsPrefix(taken, sent)
    /\ FailsAtZeroDigits

\* The packets that are answered, and those that are forwarded.
AskingPackets == {p \in ClientPackets : p.head # Publish}
PublishedPackets == {p \in ClientPackets : p.head # Ping}

\* What the broker writes, the client and the subscriber can read: it is what the
\* standard makes of an answer per ping and per QoS 1 publication, with its id,
\* and of all publications with their contents (_send_msg, _encode_length,
\* _parse_publish, _encode_publish).
PeersCanRead ==
    /\ written["client"] =
          LET asked == Only(taken, AskingPackets)
          IN  Stream([i \in DOMAIN asked |-> [head |-> Answer, body |-> PacketId(asked[i])]])
    /\ written["subscriber"] =
          LET published == Only(taken, PublishedPackets)
          IN  Stream([i \in DOMAIN published |-> [head |-> Publish, body |-> Payload(published[i])]])

\* No packet stays in the buffer until the next one comes: all that was sent is
\* processed, unless the handler has failed.
AllIsTaken ==
    \A n \in 1..MaxPackets : Len(sent) >= n ~> Len(taken) >= n \/ state = "failed"
=============================================================================
