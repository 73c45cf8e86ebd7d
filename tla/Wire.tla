-------------------------------- MODULE Wire --------------------------------
(***************************************************************************)
(* A connection with the codec that it reads and writes with, and what the *)
(* connection relies on the codec for, over given packets, lengths and     *)
(* input.                                                                  *)
(***************************************************************************)
EXTENDS Connection, Codec

CONSTANTS Packets,    \* packets to write and to read back
          Lengths,    \* remaining lengths
          Inputs      \* bytes that arrive

ASSUME WireAssumption ==
    /\ Packets \subseteq Packet
    /\ Lengths \subseteq 0..MaxRemainingLength
    /\ Inputs \subseteq Seq(Byte) \ {<<>>}

(***************************************************************************)
(* The three facts speak of the codec alone, and CodecProofs proves them as*)
(* they stand.  For TLC each becomes an invariant, of the states in which  *)
(* the connection uses it; the guard takes nothing away, since a fact that *)
(* is false is false in the initial state.                                 *)
(***************************************************************************)
NoneAltered == Altered(Packets) = {} /\ Miscounted(Lengths) = {}
NoneMisread == Misread(Inputs) = {}
AllFramed   == Smeared(Packets) = {} /\ Disputed(Inputs) = {}

\* Nothing is lost on the wire: a packet that is encoded and decoded is what it
\* was, and so is a remaining length, from as many bytes as remainingLengthSize
\* says it takes.
RoundTrip == sockOpen => NoneAltered

\* The reader is given nothing that the encoders would not have produced: what
\* the decoders take for a packet is that packet's own encoding, up to the three
\* exceptions that Misread names.
Canonical == Blocked => NoneMisread

\* Packets stay apart on the stream: of two that follow one another the first is
\* read first and leaves exactly the second, a stream that breaks off inside a
\* packet gives none, and Reader.ReadPacket and Decode take the same bytes for the
\* same packet, up to the size limit only the reader has.
Framing == Blocked => AllFramed
=============================================================================
