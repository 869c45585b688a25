------------------------------ MODULE Framing ------------------------------
(***************************************************************************)
(* The byte stream between two TcpTransports. writeMessage frames a       *)
(* message as its uint16 length, computed as sizeof(uint16) plus          *)
(* binary::size of the message, then the message serialized, which is  *)
(* its field set alone. The peer's readMessageLength reads two bytes into *)
(* m_incoming_data_length, readMessage then reads that many bytes, and    *)
(* createMessageFromStream decodes a MessageType followed by the fields   *)
(* of that type's schema. Integers go through swapBytesIfNeeded, which    *)
(* swaps only on big-endian hosts: on the little-endian hosts modelled    *)
(* here the wire is little-endian. A field here is one byte.              *)
(***************************************************************************)
EXTENDS Naturals, Sequences, SequencesExt

CONSTANTS
    Types,     \* the registered MessageTypes, small positive numbers
    Values,    \* field values, each a byte
    MaxSends   \* bound on the messages written

ASSUME Types \subseteq Nat \ {0} /\ MaxSends \in Nat \ {0}

VARIABLES
    wire,       \* bytes written to the socket, in order
    pos,        \* bytes the reader has consumed
    rpc,        \* the reader: "length" or "body"
    want,       \* m_incoming_data_length
    sent,       \* messages written: <<type, field values>>
    delivered   \* messages decoded by the reader

vars == <<wire, pos, rpc, want, sent, delivered>>

\* The schemas: MessageType t is registered with t one-byte fields.
Schemas == [t \in Types |-> t]
Bytes == 0..255

\* A little-endian uint16 and its decoding.
U16(n) == <<n % 256, (n \div 256) % 256>>
FromU16(bs) == bs[1] + 256 * bs[2]

Messages == UNION {{t} \X [1..Schemas[t] -> Values] : t \in Types}


(* writeMessage: m_outgoing_data_length = 2 + the fields' size, cast to  *)
(* uint16, then the length and the fields; no MessageType is written.    *)
Frame(m) ==
    LET body == m[2] IN U16((2 + Len(body)) % 65536) \o body

(* createMessageFromStream on the bytes of one frame body: read a        *)
(* MessageType (left 0 if the stream ends first); an unregistered type   *)
(* yields none; else each field reads one byte, and a read past the end  *)
(* leaves the field's default 0.                                          *)
ByteOr0(body, i) == IF i <= Len(body) THEN body[i] ELSE 0
DecodedType(body) == IF Len(body) >= 2 THEN FromU16(SubSeq(body, 1, 2)) ELSE 0

\* MessageFactory::hasDescriptor: m_descriptors.contains(type).
HasDescriptor(t) == t \in Types

\* Maybe<T>: a std::variant<None, T>, here <<>> for None and <<x>> for x.
MaybeNothing == <<>>
MaybeSome(x) == <<x>>

\* Maybe<T>::operator bool: holds_alternative<T>(m_var).
MaybeBool(m) == m # MaybeNothing

\* Maybe<T>::value(): std::get<T>(m_var), once isNone() has not thrown.
MaybeValue(m) == m[1]

Decode(body) ==
    LET t == DecodedType(body) IN
    IF ~HasDescriptor(t) THEN MaybeNothing
    ELSE MaybeSome(<<t, [i \in 1..Schemas[t] |-> ByteOr0(body, 2 + i)]>>)

Init ==
    /\ wire = <<>>
    /\ pos = 0
    /\ rpc = "length"
    /\ want = 0
    /\ sent = <<>>
    /\ delivered = <<>>

\* send(m) and the writeMessage that puts its frame on the socket.
Send(m) ==
    /\ Len(sent) < MaxSends
    /\ wire' = wire \o Frame(m)
    /\ sent' = Append(sent, m)
    /\ UNCHANGED <<pos, rpc, want, delivered>>

\* The async_read of the length completes once two bytes have arrived.
ReadLength ==
    /\ rpc = "length"
    /\ Len(wire) - pos >= 2
    /\ want' = FromU16(SubSeq(wire, pos + 1, pos + 2))
    /\ pos' = pos + 2
    /\ rpc' = "body"
    /\ UNCHANGED <<wire, sent, delivered>>

(* The async_read of m_incoming_data_length bytes completes once they    *)
(* have all arrived; onMessageRead queues the message that               *)
(* createMessageFromStream returns, if it returns one.                   *)
ReadBody ==
    /\ rpc = "body"
    /\ Len(wire) - pos >= want
    /\ LET maybe == Decode(SubSeq(wire, pos + 1, pos + want))
       IN delivered' = IF MaybeBool(maybe) THEN Append(delivered, MaybeValue(maybe))
                       ELSE delivered
    /\ pos' = pos + want
    /\ rpc' = "length"
    /\ UNCHANGED <<wire, want, sent>>

Next ==
    \/ \E m \in Messages : Send(m)
    \/ ReadLength
    \/ ReadBody

Spec == Init /\ [][Next]_vars /\ WF_vars(ReadLength \/ ReadBody)

---------------------------------------------------------------------------
(* Properties *)

(* Spec frame law: for every message sent the peer reads exactly one     *)
(* message equal field-wise to it, in order. Every message written is   *)
(* eventually decoded as the message it was, while the reader runs.     *)
SentEventuallyDelivered ==
    \A k \in 1..MaxSends :
        (Len(sent) >= k) ~> (Len(delivered) >= k /\ delivered[k] = sent[k])
====
