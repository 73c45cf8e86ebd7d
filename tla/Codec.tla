-------------------------------- MODULE Codec --------------------------------
(***************************************************************************)
(* The MQTT 3.1.1 codec (pkg/infrastructure/mqtt/packet): the encoder and  *)
(* the decoder of every packet type, the remaining-length varint, the      *)
(* field reader, and Decode and Reader.ReadPacket, which frame packets.    *)
(*                                                                         *)
(* A byte is a number, a string the sequence of its bytes, a packet a      *)
(* record, a field that may be absent a set of at most one value.  Bytes   *)
(* that a decoder refuses close the connection whatever the error, so      *)
(* every error is Bad; a packet that an encoder refuses gives Refused.     *)
(***************************************************************************)
EXTENDS Integers, Sequences, SequencesExt

CONSTANT MaxPacketSize    \* ConnectionConfig.MaxPacketSize

ASSUME CodecAssumption == MaxPacketSize \in Nat

\* Type: a packet type is its position here.
Types == <<"CONNECT", "CONNACK", "PUBLISH", "PUBACK", "PUBREC", "PUBREL", "PUBCOMP",
           "SUBSCRIBE", "SUBACK", "UNSUBSCRIBE", "UNSUBACK", "PINGREQ", "PINGRESP",
           "DISCONNECT">>
Nibble(t) == CHOOSE n \in DOMAIN Types : Types[n] = t

Acks    == {"PUBACK", "PUBREC", "PUBREL", "PUBCOMP", "UNSUBACK"}
Simples == {"PINGREQ", "PINGRESP", "DISCONNECT"}
Bad     == [type |-> "bad"]
Refused == <<>>

\* The bits of a byte are named by their masks.
Bit(b, mask)     == (b \div mask) % 2 = 1
SetBit(mask, on) == IF on THEN mask ELSE 0
From(s, n)       == SubSeq(s, n, Len(s))
----------------------------------------------------------------------------
(***************************************************************************)
(* The remaining length: seven bits a byte, low ones first, the top bit    *)
(* says that another byte follows.                                         *)
(***************************************************************************)
MaxRemainingLength == 268435455
Multiplier == <<1, 128, 16384, 2097152>>

\* remainingLengthSize, whose thresholds are written out.
RemainingLengthSize(n) ==
    IF n < 128 THEN 1 ELSE IF n < 16384 THEN 2 ELSE IF n < 2097152 THEN 3 ELSE 4

\* The loop divides until nothing is left: four times at most, for no length is
\* above maxRemainingLength.
EncodeRemainingLength(n) ==
    LET digits == {i \in 1..4 : i = 1 \/ n \div Multiplier[i] > 0}
    IN  [i \in digits |-> ((n \div Multiplier[i]) % 128) + SetBit(128, i + 1 \in digits)]

\* Where the length ends, 0 if it does not: a fifth byte is refused.
LengthEnd(buf) ==
    LET ends == {i \in 1..4 : i <= Len(buf) /\ ~Bit(buf[i], 128)}
    IN  IF ends = {} THEN 0 ELSE CHOOSE i \in ends : \A j \in ends : i <= j

\* Mutant: the continuation bit is not masked out of the value.
DecodeUnmasked(buf) ==
    LET n        == LengthEnd(buf)
        digit(i) == IF i <= n THEN buf[i] * Multiplier[i] ELSE 0
    IN  [ok |-> n > 0, value |-> digit(1) + digit(2) + digit(3) + digit(4), consumed |-> n]

DecodeRemainingLength(buf) ==
    LET n        == LengthEnd(buf)
        digit(i) == IF i <= n THEN (buf[i] % 128) * Multiplier[i] ELSE 0
    IN  [ok |-> n > 0, value |-> digit(1) + digit(2) + digit(3) + digit(4), consumed |-> n]
----------------------------------------------------------------------------
(***************************************************************************)
(* Fields.  A read gives the value and the bytes that are left.            *)
(***************************************************************************)
Byte == 0..255
Word == {n \in Nat : n < 65536}

Uint16(n)       == <<(n \div 256) % 256, n % 256>>
AppendString(s) == Uint16(Len(s)) \o s
StringSize(s)   == 2 + Len(s)
OptString(f)    == IF f = {} THEN <<>> ELSE AppendString(CHOOSE s \in f : TRUE)
OptSize(f)      == IF f = {} THEN 0 ELSE StringSize(CHOOSE s \in f : TRUE)

Read(val, rest) == [ok |-> TRUE, val |-> val, rest |-> rest]
Short(val)      == [ok |-> FALSE, val |-> val, rest |-> <<>>]
Absent(s)       == Read(0, s)      \* a field that is not there

ByteValue(s)   == IF s = <<>> THEN Short(0) ELSE Read(Head(s), Tail(s))
Uint16Value(s) == IF Len(s) < 2 THEN Short(0) ELSE Read(256 * s[1] + s[2], From(s, 3))

BytesValue(s) ==
    LET n == Uint16Value(s)
    IN  IF ~n.ok \/ Len(n.rest) < n.val THEN Short(<<>>)
        ELSE Read(SubSeq(n.rest, 1, n.val), From(n.rest, n.val + 1))

\* The bytes of one character: neither U+0000, nor a surrogate, nor an overlong form.
Characters ==
    LET next == 128..191
    IN  {<<1..127>>, <<194..223, next>>,
         <<{224}, 160..191, next>>, <<225..236, next, next>>,
         <<{237}, 128..159, next>>, <<238..239, next, next>>,
         <<{240}, 144..191, next, next>>, <<241..243, next, next, next>>,
         <<{244}, 128..143, next, next>>}

Fits(s, i, c) ==
    i + Len(c) - 1 <= Len(s) /\ \A k \in 1..Len(c) : s[i + k - 1] \in c[k]

ValidUTF8(s) ==
    LET valid[i \in 1..(Len(s) + 1)] ==
            \/ i > Len(s)
            \/ \E c \in Characters : Fits(s, i, c) /\ valid[i + Len(c)]
    IN  valid[1]

StringValue(s) ==
    LET b == BytesValue(s) IN IF b.ok /\ ValidUTF8(b.val) THEN b ELSE Short(<<>>)

ContainsWildcard(topic) == Contains(topic, 35) \/ Contains(topic, 43)     \* # and +
----------------------------------------------------------------------------
(***************************************************************************)
(* The fixed header.                                                       *)
(***************************************************************************)
RequiredFlags(t) == IF t \in {"PUBREL", "SUBSCRIBE", "UNSUBSCRIBE"} THEN 2 ELSE 0

ValidateFlags(t, flags) ==
    IF t = "PUBLISH"
    THEN /\ (flags \div 2) % 4 # 3
         /\ Bit(flags, 8) => (flags \div 2) % 4 # 0                 \* DUP at QoS 0
    ELSE flags = RequiredFlags(t)

Encoded(t, flags, length, body) ==
    <<16 * Nibble(t) + flags>> \o EncodeRemainingLength(length) \o body
----------------------------------------------------------------------------
(***************************************************************************)
(* CONNECT and CONNACK.                                                    *)
(***************************************************************************)
ProtocolName == <<77, 81, 84, 84>>     \* "MQTT"

WillQoS(flags) == (flags \div 8) % 4

\* Mutant: a will that is not there may have a QoS.
GhostWill(flags) ==
    /\ ~Bit(flags, 1)
    /\ IF Bit(flags, 4) THEN WillQoS(flags) <= 2 ELSE ~Bit(flags, 32)
    /\ Bit(flags, 64) => Bit(flags, 128)

\* The checks on the connect flags that need no other field: the reserved one, the
\* will's, and a password without a user name.
ConnectFlagsOK(flags) ==
    /\ ~Bit(flags, 1)
    /\ IF Bit(flags, 4) THEN WillQoS(flags) <= 2 ELSE WillQoS(flags) = 0 /\ ~Bit(flags, 32)
    /\ Bit(flags, 64) => Bit(flags, 128)

\* Protocol name and level, flags, keep-alive and client identifier; what follows
\* them depends on the flags.
ConnectHead(body) ==
    LET name      == StringValue(body)
        level     == ByteValue(name.rest)
        flags     == ByteValue(level.rest)
        interval  == Uint16Value(flags.rest)
        id        == StringValue(interval.rest)
    IN  [ok |-> name.ok /\ level.ok /\ flags.ok /\ interval.ok /\ id.ok, name |-> name.val,
         level |-> level.val, flags |-> flags.val, keepAlive |-> interval.val,
         id |-> id.val, rest |-> id.rest]

ConnectTail(flags, s) ==
    LET topic    == IF Bit(flags, 4)   THEN StringValue(s) ELSE Absent(s)
        payload  == IF Bit(flags, 4)   THEN BytesValue(topic.rest) ELSE topic
        username == IF Bit(flags, 128) THEN StringValue(payload.rest) ELSE payload
        password == IF Bit(flags, 64)  THEN BytesValue(username.rest) ELSE username
    IN  [ok |-> topic.ok /\ payload.ok /\ username.ok /\ password.ok, topic |-> topic.val,
         payload |-> payload.val, username |-> username.val, password |-> password.val,
         rest |-> password.rest]

ConnectOf(head, tail) ==
    LET opt(mask, v) == IF Bit(head.flags, mask) THEN {v} ELSE {}
    IN  IF /\ head.ok /\ tail.ok
           /\ head.name = ProtocolName
           /\ ConnectFlagsOK(head.flags)
           /\ tail.rest = <<>>
        THEN [type |-> "CONNECT", level |-> head.level, clean |-> Bit(head.flags, 2),
              keepAlive |-> head.keepAlive, id |-> head.id,
              will |-> opt(4, [topic |-> tail.topic, payload |-> tail.payload,
                               qos |-> WillQoS(head.flags), retain |-> Bit(head.flags, 32)]),
              username |-> opt(128, tail.username), password |-> opt(64, tail.password)]
        ELSE Bad

DecodeConnect(body) ==
    LET head == ConnectHead(body) IN ConnectOf(head, ConnectTail(head.flags, head.rest))

\* The connect flags, will QoS and will retain in the middle.
ConnectFlags(p) ==
    SetBit(2, p.clean) + SetBit(4, p.will # {})
    + (IF p.will = {} THEN 0
       ELSE LET w == CHOOSE w \in p.will : TRUE
            IN  8 * (w.qos % 4) + SetBit(32, w.retain))
    + SetBit(64, p.password # {}) + SetBit(128, p.username # {})

\* The optional fields, in the order they are written.
ConnectOptions(p) ==
    OptString({w.topic : w \in p.will}) \o OptString({w.payload : w \in p.will})
    \o OptString(p.username) \o OptString(p.password)

ConnectLength(p) ==
    StringSize(ProtocolName) + 1 + 1 + 2 + StringSize(p.id)
    + OptSize({w.topic : w \in p.will}) + OptSize({w.payload : w \in p.will})
    + OptSize(p.username) + OptSize(p.password)

EncodeConnect(p) ==
    Encoded("CONNECT", 0, ConnectLength(p),
            AppendString(ProtocolName) \o <<p.level, ConnectFlags(p)>>
            \o Uint16(p.keepAlive) \o AppendString(p.id) \o ConnectOptions(p))

ConnackBytes(p) ==
    Encoded("CONNACK", 0, 2, <<SetBit(1, p.sessionPresent /\ p.code = 0), p.code>>)

DecodeConnack(body) ==
    IF Len(body) = 2 /\ body[1] \in {0, 1}
    THEN [type |-> "CONNACK", sessionPresent |-> body[1] = 1, code |-> body[2]]
    ELSE Bad
----------------------------------------------------------------------------
(***************************************************************************)
(* PUBLISH, the acknowledgements and the packets without a body.           *)
(***************************************************************************)
\* A packet identifier is on the wire only above QoS 0.
HasPacketID(qos) == qos > 0

DecodePublish(flags, body) ==
    LET qos   == (flags \div 2) % 4
        topic == StringValue(body)
        id    == IF HasPacketID(qos) THEN Uint16Value(topic.rest) ELSE Absent(topic.rest)
    IN  IF /\ topic.ok /\ id.ok
           /\ ~ContainsWildcard(topic.val)
           /\ HasPacketID(qos) => id.val # 0
        THEN [type |-> "PUBLISH", dup |-> Bit(flags, 8), qos |-> qos, retain |-> Bit(flags, 1),
              topic |-> topic.val, id |-> id.val, payload |-> id.rest]
        ELSE Bad

PublishFlags(p)  == SetBit(8, p.dup) + 2 * p.qos + SetBit(1, p.retain)
PublishLength(p) == StringSize(p.topic) + Len(p.payload) + (IF p.qos > 0 THEN 2 ELSE 0)

EncodePublish(p) ==
    IF p.qos > 2 \/ (p.qos > 0 /\ p.id = 0) THEN Refused
    ELSE Encoded("PUBLISH", PublishFlags(p), PublishLength(p),
                 AppendString(p.topic) \o (IF p.qos > 0 THEN Uint16(p.id) ELSE <<>>)
                 \o p.payload)

EncodeAck(p) ==
    IF p.id = 0 THEN Refused ELSE Encoded(p.type, RequiredFlags(p.type), 2, Uint16(p.id))

DecodeAck(t, body) ==
    LET id == Uint16Value(body)
    IN  IF Len(body) = 2 /\ id.val # 0 THEN [type |-> t, id |-> id.val] ELSE Bad

EncodeSimple(p) == Encoded(p.type, 0, 0, <<>>)

DecodeSimple(t, body) == IF body = <<>> THEN [type |-> t] ELSE Bad
----------------------------------------------------------------------------
(***************************************************************************)
(* SUBSCRIBE, SUBACK and UNSUBSCRIBE.                                      *)
(***************************************************************************)
\* One turn of the loops of decodeSubscribe and decodeUnsubscribe: a filter, and the
\* QoS that follows it in a SUBSCRIBE.
NextFilter(t, read) ==
    LET filter == StringValue(read.rest)
        qos    == IF t = "SUBSCRIBE" THEN ByteValue(filter.rest) ELSE Absent(filter.rest)
    IN  [ok   |-> filter.ok /\ qos.ok /\ qos.val <= 2,
         val  |-> Append(read.val, [filter |-> filter.val, qos |-> qos.val]),
         rest |-> qos.rest]

\* They end at the first error or when every byte is read: no turn reads none.
FilterLoop(t, body) ==
    LET after[k \in 0..Len(body)] ==
            IF k = 0 THEN Read(<<>>, body)
            ELSE LET read == after[k - 1]
                 IN  IF read.ok /\ read.rest # <<>> THEN NextFilter(t, read) ELSE read
    IN  after

DecodeFilters(t, body) ==
    LET id      == Uint16Value(body)
        filters == FilterLoop(t, id.rest)[Len(id.rest)]
    IN  IF id.ok /\ id.val # 0 /\ filters.ok /\ filters.val # <<>>
        THEN [type |-> t, id |-> id.val, filters |-> filters.val]
        ELSE Bad

Entry(t, f)     == AppendString(f.filter) \o (IF t = "SUBSCRIBE" THEN <<f.qos>> ELSE <<>>)
EntrySize(t, f) == StringSize(f.filter) + (IF t = "SUBSCRIBE" THEN 1 ELSE 0)

\* The loops of the encoders, after each turn: the sizes and then the bytes.
FiltersLength(t, filters) ==
    LET size[k \in 0..Len(filters)] ==
            IF k = 0 THEN 2 ELSE size[k - 1] + EntrySize(t, filters[k])
    IN  size
FiltersBytes(t, filters) ==
    LET bytes[k \in 0..Len(filters)] ==
            IF k = 0 THEN <<>> ELSE bytes[k - 1] \o Entry(t, filters[k])
    IN  bytes

EncodeFilters(p) ==
    IF p.id = 0 \/ p.filters = <<>> THEN Refused
    ELSE Encoded(p.type, RequiredFlags(p.type), FiltersLength(p.type, p.filters)[Len(p.filters)],
                 Uint16(p.id) \o FiltersBytes(p.type, p.filters)[Len(p.filters)])

EncodeSuback(p) ==
    IF p.id = 0 THEN Refused
    ELSE Encoded("SUBACK", 0, 2 + Len(p.codes), Uint16(p.id) \o p.codes)

DecodeSuback(body) ==
    LET id == Uint16Value(body)
    IN  IF Len(body) >= 3 /\ id.val # 0 /\ ToSet(id.rest) \subseteq {0, 1, 2, 128}
        THEN [type |-> "SUBACK", id |-> id.val, codes |-> id.rest]
        ELSE Bad
----------------------------------------------------------------------------
(***************************************************************************)
(* Whole packets.                                                          *)
(***************************************************************************)
Encode(p) ==
    CASE p.type = "CONNECT"     -> EncodeConnect(p)
      [] p.type = "CONNACK"     -> ConnackBytes(p)
      [] p.type = "PUBLISH"     -> EncodePublish(p)
      [] p.type \in Acks        -> EncodeAck(p)
      [] p.type = "SUBACK"      -> EncodeSuback(p)
      [] p.type \in Simples     -> EncodeSimple(p)
      [] p.type \in {"SUBSCRIBE", "UNSUBSCRIBE"} -> EncodeFilters(p)

DecodeBody(t, flags, body) ==
    CASE t = "CONNECT"                      -> DecodeConnect(body)
      [] t = "CONNACK"                      -> DecodeConnack(body)
      [] t = "PUBLISH"                      -> DecodePublish(flags, body)
      [] t \in Acks                         -> DecodeAck(t, body)
      [] t \in {"SUBSCRIBE", "UNSUBSCRIBE"} -> DecodeFilters(t, body)
      [] t = "SUBACK"                       -> DecodeSuback(body)
      [] t \in Simples                      -> DecodeSimple(t, body)

\* The type is not reserved and its flags are right.
HeaderOK(b) == b \div 16 \in DOMAIN Types /\ ValidateFlags(Types[b \div 16], b % 16)

\* Decode, of a buffer that holds the packet and may hold more.
Decode(buf) ==
    LET length == DecodeRemainingLength(Tail(buf))
        start  == 1 + length.consumed
        end    == start + length.value
    IN  IF Len(buf) < 2 \/ ~HeaderOK(buf[1]) THEN Bad
        ELSE IF ~length.ok \/ Len(buf) < end THEN Bad
        ELSE DecodeBody(Types[buf[1] \div 16], buf[1] % 16, SubSeq(buf, start + 1, end))

\* Mutant: the header byte is counted in the remaining length.
ReadShort(stream) ==
    LET size   == LengthEnd(Tail(stream))
        length == DecodeRemainingLength(SubSeq(stream, 2, 1 + size)).value
        end    == size + length
    IN  IF \/ stream = <<>> \/ ~HeaderOK(stream[1])
           \/ size = 0 \/ length > MaxPacketSize \/ Len(stream) < end
        THEN Read(Bad, <<>>)
        ELSE Read(DecodeBody(Types[stream[1] \div 16], stream[1] % 16,
                             SubSeq(stream, 2 + size, end)), From(stream, end + 1))

\* Reader.ReadPacket, of a stream that ends where the sequence ends: the packet,
\* or Bad, and what is left to read after a packet.  The length's bytes are read
\* one at a time, four at most, and a packet that is too large is refused before
\* its body is read.
ReadFrom(stream) ==
    LET size   == LengthEnd(Tail(stream))
        length == DecodeRemainingLength(SubSeq(stream, 2, 1 + size)).value
        end    == 1 + size + length
    IN  IF \/ stream = <<>> \/ ~HeaderOK(stream[1])
           \/ size = 0 \/ length > MaxPacketSize \/ Len(stream) < end
        THEN Read(Bad, <<>>)
        ELSE Read(DecodeBody(Types[stream[1] \div 16], stream[1] % 16,
                             SubSeq(stream, 2 + size, end)), From(stream, end + 1))
----------------------------------------------------------------------------
(***************************************************************************)
(* The packets that the format can carry: strings whose length fits in two *)
(* bytes, identifiers where they belong, a body of at most                 *)
(* MaxRemainingLength bytes.                                               *)
(***************************************************************************)
Blob == {s \in Seq(Byte) : Len(s) \in Word}
Text == {s \in Blob : ValidUTF8(s)}
Optional(S) == {f \in SUBSET S : \A x, y \in f : x = y}

Will == [topic : Text, payload : Blob, qos : 0..2, retain : BOOLEAN]

Connect ==
    {p \in [type : {"CONNECT"}, level : Byte, clean : BOOLEAN, keepAlive : Word, id : Text,
            will : Optional(Will), username : Optional(Text), password : Optional(Blob)] :
        p.password # {} => p.username # {}}

Connack == {p \in [type : {"CONNACK"}, sessionPresent : BOOLEAN, code : Byte] :
               p.sessionPresent => p.code = 0}

Publish ==
    {p \in [type : {"PUBLISH"}, dup : BOOLEAN, qos : 0..2, retain : BOOLEAN, topic : Text,
            id : Word, payload : Seq(Byte)] :
        /\ ~ContainsWildcard(p.topic)
        /\ p.dup => p.qos > 0
        /\ p.id = 0 <=> p.qos = 0
        /\ PublishLength(p) <= MaxRemainingLength}

Ack    == [type : Acks, id : Word \ {0}]
Simple == [type : Simples]

\* SUBSCRIBE, and UNSUBSCRIBE, whose filters have no QoS.
FilterList == Seq([filter : Text, qos : 0..2])

Subscribe ==
    {p \in [type : {"SUBSCRIBE", "UNSUBSCRIBE"}, id : Word \ {0}, filters : FilterList] :
        /\ p.filters # <<>>
        /\ p.type = "UNSUBSCRIBE" => \A i \in 1..Len(p.filters) : p.filters[i].qos = 0
        /\ FiltersLength(p.type, p.filters)[Len(p.filters)] <= MaxRemainingLength}

Suback ==
    {p \in [type : {"SUBACK"}, id : Word \ {0}, codes : Seq({0, 1, 2, 128})] :
        p.codes # <<>> /\ 2 + Len(p.codes) <= MaxRemainingLength}

Packet == Connect \cup Connack \cup Publish \cup Ack \cup Simple \cup Subscribe \cup Suback
----------------------------------------------------------------------------
(***************************************************************************)
(* What the codec gets wrong of given packets, lengths and inputs: each of *)
(* these sets should be empty.                                             *)
(***************************************************************************)
\* Packets that do not come back as they were.
Altered(packets) == {p \in packets : Decode(Encode(p)) # p}

\* Remaining lengths that do not, or not from as many bytes as were reckoned with.
Miscounted(lengths) ==
    {n \in lengths :
        DecodeRemainingLength(EncodeRemainingLength(n))
            # [ok |-> TRUE, value |-> n, consumed |-> RemainingLengthSize(n)]}

\* The length is spelled with as few bytes as possible.
Minimal(buf) ==
    LET length == DecodeRemainingLength(Tail(buf))
    IN  length.consumed = RemainingLengthSize(length.value)

\* Inputs that decode to a packet with another encoding, by more than bytes after
\* the packet, a length that is longer than it needs to be, or a refusing CONNACK
\* that claims a session.
Misread(inputs) ==
    {buf \in inputs :
        \E p \in {Decode(buf)} :
            /\ p # Bad
            /\ ~IsPrefix(Encode(p), buf)
            /\ Minimal(buf)
            /\ ~(p.type = "CONNACK" /\ p.sessionPresent /\ p.code # 0)}

TooLarge(buf) == DecodeRemainingLength(Tail(buf)).value > MaxPacketSize

\* Packets that do not survive on a stream: at its end, followed by another one, or
\* cut off.
Smeared(packets) ==
    LET sent  == {p \in packets : \E e \in {Encode(p)} : ~TooLarge(e)}
        after == {<<>>} \cup {Encode(q) : q \in sent}
    IN  {p \in sent : \E e \in {Encode(p)} :
            \/ \E rest \in after : \E s \in {e \o rest} : ReadFrom(s) # Read(p, rest)
            \/ \E s \in Prefixes(e) \ {e} : ReadFrom(s).val # Bad}

\* Inputs that the stream's reader and the buffer's decoder see differently.
Disputed(inputs) == {buf \in inputs : ~TooLarge(buf) /\ ReadFrom(buf).val # Decode(buf)}
=============================================================================
