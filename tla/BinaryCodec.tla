----------------------------- MODULE BinaryCodec -----------------------------
(***************************************************************************)
(* The binary codec (include/isml/serialization/serializers/              *)
(* binary_serializer.hpp): BinarySerializer<T>::serialize, deserialize    *)
(* and size for every value shape, and the field set that applies them to *)
(* a message's fields in order (src/message/field/field_set.cpp,          *)
(* include/isml/message/field/value_field.hpp).                           *)
(*                                                                         *)
(* A type is a record: [kind |-> "int" or "enum", bytes, signed],         *)
(* [kind |-> "bool"], [kind |-> "optional", of], [kind |-> "pair", first, *)
(* second], [kind |-> "sequence", of] (std::string and std::vector),      *)
(* [kind |-> "array", of, n], [kind |-> "map", key, mapped] or            *)
(* [kind |-> "set", key]. Its values are integers, booleans, <<>> or      *)
(* <<x>>, <<a, b>>, sequences, functions and sets. A stream is a sequence *)
(* of bytes in 0..255. A deserialize result is [ok, val, rest]; a short   *)
(* read is [ok |-> FALSE].                                                 *)
(***************************************************************************)
EXTENDS Integers, SequencesExt, FiniteSets

CONSTANTS
    Native,     \* std::endian::native: "little" or "big"
    Messages,   \* field lists [type, val] the application fills and sends
    Trailer,    \* the bytes that follow the message in the stream
    Serializers \* the CompositeSerializer<Ss...> a message's fields are
                \* registered with, as sequences of serializer tags

ASSUME Native \in {"little", "big"}

\* BinarySerializerBase::ContainerSize is std::uint16_t.
ContainerSizeBytes == 2

\* A field list's layout: the type of each field, in order.
Layout(fs) == [i \in 1..Len(fs) |-> fs[i].type]

Pow256(i) == 256 ^ i

\* The bytes of a w-byte integer, least significant first (two's
\* complement for a negative one).
LittleEndian(w, v) == [i \in 1..w |-> (v \div Pow256(i - 1)) % 256]

\* The integer whose bytes, least significant first, are b.
FromLittleEndian(w, signed, b) ==
    LET RECURSIVE Low(_)
        Low(i) == IF i = 0 THEN 0 ELSE b[i] * Pow256(i - 1) + Low(i - 1)
        top == IF signed /\ b[w] >= 128 THEN b[w] - 256 ELSE b[w]
    IN Low(w - 1) + top * Pow256(w - 1)

\* The object's bytes as they lie in memory, and back.
InMemory(w, v) == IF Native = "little" THEN LittleEndian(w, v) ELSE Reverse(LittleEndian(w, v))
FromMemory(w, signed, mem) ==
    FromLittleEndian(w, signed, IF Native = "little" THEN mem ELSE Reverse(mem))

(* ByteUtils::swap, on the object's bytes: each mask-and-shift term of   *)
(* the 16-, 32- and 64-bit overloads moves byte i to byte w-1-i, as the   *)
(* floating-point overload's loop does; a 1-byte value is left alone.     *)
(* The object's bytes are the model's unit because TLC's integers stop    *)
(* at 2^31, short of the uint32 results of the masks.                     *)
ByteSwap(bytes) == Reverse(bytes)

\* swapBytesIfNeeded: ByteUtils::swap on a big-endian host only.
SwapBytesIfNeeded(bytes) == IF Native = "big" THEN ByteSwap(bytes) ELSE bytes

\* serialize of an arithmetic value: swapBytesIfNeeded, then
\* stream.write of its sizeof value bytes.
WriteScalar(w, v) == SwapBytesIfNeeded(InMemory(w, v))

\* deserialize of an arithmetic value: stream.read, then swapBytesIfNeeded.
ReadScalar(w, signed, s) ==
    IF Len(s) < w THEN [ok |-> FALSE]
    ELSE [ok |-> TRUE, val |-> FromMemory(w, signed, SwapBytesIfNeeded(SubSeq(s, 1, w))),
          rest |-> SubSeq(s, w + 1, Len(s))]

\* An enum goes as its underlying integer.
SerializeEnum(t, v) == WriteScalar(t.bytes, v)
DeserializeEnum(t, s) == ReadScalar(t.bytes, t.signed, s)

\* size of an arithmetic value: sizeof(T); of an enum: sizeof of its
\* underlying type.
SizeScalar(t) == t.bytes
SizeEnum(t) == t.bytes

Flag(b) == IF b THEN 1 ELSE 0

\* The value a default-constructed object holds: T m_value{}, resize().
RECURSIVE DefaultValue(_)
DefaultValue(t) ==
    CASE t.kind \in {"int", "enum"} -> 0
      [] t.kind = "bool" -> FALSE
      [] t.kind \in {"optional", "sequence", "map"} -> <<>>
      [] t.kind = "pair" -> <<DefaultValue(t.first), DefaultValue(t.second)>>
      [] t.kind = "array" -> [i \in 1..t.n |-> DefaultValue(t.of)]
      [] t.kind = "set" -> {}

\* A container's items in iteration order (std::map and std::set iterate
\* in key order), and the type each is serialized as.
Items(t, v) ==
    CASE t.kind \in {"sequence", "array"} -> v
      [] t.kind = "set" -> SetToSortSeq(v, LAMBDA a, b : a < b)
      [] t.kind = "map" ->
             LET keys == SetToSortSeq(DOMAIN v, LAMBDA a, b : a < b)
             IN [i \in 1..Len(keys) |-> <<keys[i], v[keys[i]]>>]
ItemType(t) ==
    CASE t.kind \in {"sequence", "array"} -> t.of
      [] t.kind = "set" -> t.key
      [] t.kind = "map" -> [kind |-> "pair", first |-> t.key, second |-> t.mapped]

RECURSIVE Serialize(_, _)

SerializePair(t, v) == Serialize(t.first, v[1]) \o Serialize(t.second, v[2])

SerializeOptional(t, v) ==
    WriteScalar(1, Flag(v # <<>>)) \o (IF v # <<>> THEN Serialize(t.of, v[1]) ELSE <<>>)

\* static_cast<ContainerSize>(container.size()), then every item.
SerializeContainer(t, v) ==
    LET e == Items(t, v)
    IN WriteScalar(ContainerSizeBytes, Len(e) % Pow256(ContainerSizeBytes))
       \o FlattenSeq([i \in 1..Len(e) |-> Serialize(ItemType(t), e[i])])

\* The std::array specialisation: static_cast<ContainerSize>(array.size()),
\* then every item.
SerializeArray(t, v) ==
    WriteScalar(ContainerSizeBytes, t.n % Pow256(ContainerSizeBytes))
    \o FlattenSeq([i \in 1..t.n |-> Serialize(t.of, v[i])])

\* binary::serialize: the BinarySerializer specialisation for the type.
Serialize(t, v) ==
    CASE t.kind = "int" -> WriteScalar(t.bytes, v)
      [] t.kind = "bool" -> WriteScalar(1, Flag(v))
      [] t.kind = "enum" -> SerializeEnum(t, v)
      [] t.kind = "pair" -> SerializePair(t, v)
      [] t.kind = "optional" -> SerializeOptional(t, v)
      [] t.kind = "array" -> SerializeArray(t, v)
      [] t.kind \in {"sequence", "map", "set"} -> SerializeContainer(t, v)

RECURSIVE Size(_, _)

SizePair(t, v) == Size(t.first, v[1]) + Size(t.second, v[2])

SizeOptional(t, v) == 1 + (IF v # <<>> THEN Size(t.of, v[1]) ELSE 0)

\* Mutant: the count's own bytes left out.
SizeContainerItemsOnly(t, v) ==
    LET e == Items(t, v)
    IN FoldLeft(LAMBDA sum, x : sum + Size(ItemType(t), x), 0, e)

\* BinarySerializerBase::size: sizeof(ContainerSize) plus every item's.
SizeContainer(t, v) ==
    LET e == Items(t, v)
    IN FoldLeft(LAMBDA sum, x : sum + Size(ItemType(t), x), ContainerSizeBytes, e)

\* The std::array specialisation's size: BinarySerializerBase::size.
SizeArray(t, v) == SizeContainer(t, v)

\* binary::size
Size(t, v) ==
    CASE t.kind = "int" -> SizeScalar(t)
      [] t.kind = "enum" -> SizeEnum(t)
      [] t.kind = "bool" -> 1
      [] t.kind = "pair" -> SizePair(t, v)
      [] t.kind = "optional" -> SizeOptional(t, v)
      [] t.kind = "array" -> SizeArray(t, v)
      [] t.kind \in {"sequence", "map", "set"} -> SizeContainer(t, v)

RECURSIVE Deserialize(_, _, _), ReadInto(_, _, _, _), ReadEntries(_, _, _, _)

\* Both members, in order, into the pair's own.
DeserializePair(t, old, s) ==
    LET a == Deserialize(t.first, old[1], s)
        b == IF a.ok THEN Deserialize(t.second, old[2], a.rest) ELSE a
    IN IF b.ok THEN [b EXCEPT !.val = <<a.val, b.val>>] ELSE b

\* The flag, then a value read into a fresh local; no value leaves the
\* optional as it was.
DeserializeOptional(t, old, s) ==
    LET f == ReadScalar(1, FALSE, s)
        x == Deserialize(t.of, DefaultValue(t.of), f.rest)
    IN CASE ~f.ok -> f
         [] f.val = 0 -> [ok |-> TRUE, val |-> old, rest |-> f.rest]
         [] f.val # 0 /\ ~x.ok -> x
         [] f.val # 0 /\ x.ok -> [x EXCEPT !.val = <<x.val>>]

\* The items of a sequence or array, from the i-th on, each read into the
\* element that is already there.
ReadInto(et, items, i, s) ==
    IF i > Len(items) THEN [ok |-> TRUE, val |-> items, rest |-> s]
    ELSE LET r == Deserialize(et, items[i], s)
         IN IF ~r.ok THEN r ELSE ReadInto(et, [items EXCEPT ![i] = r.val], i + 1, r.rest)

\* Mutant: no resize(), so only the elements already there are read.
DeserializeSequenceNoResize(t, old, s) ==
    LET c == ReadScalar(ContainerSizeBytes, FALSE, s)
    IN IF ~c.ok THEN c ELSE ReadInto(t.of, old, 1, c.rest)

\* resize(item_count) keeps the first elements and value-initialises new
\* ones; every element is then read into.
DeserializeSequence(t, old, s) ==
    LET c == ReadScalar(ContainerSizeBytes, FALSE, s)
    IN IF ~c.ok THEN c
       ELSE ReadInto(t.of, [i \in 1..c.val |->
                              IF i <= Len(old) THEN old[i] ELSE DefaultValue(t.of)],
                     1, c.rest)

\* The count is only assert()ed to be the array's size; the array's own
\* size is read whatever it says.
DeserializeArray(t, old, s) ==
    LET c == ReadScalar(ContainerSizeBytes, FALSE, s)
    IN IF ~c.ok THEN c ELSE ReadInto(t.of, old, 1, c.rest)

\* n more entries into acc, each read into fresh locals; insert() keeps
\* the first of equal keys.
ReadEntries(t, n, acc, s) ==
    IF n = 0 THEN [ok |-> TRUE, val |-> acc, rest |-> s]
    ELSE LET r == Deserialize(ItemType(t), DefaultValue(ItemType(t)), s)
             next == IF t.kind = "set" THEN acc \cup {r.val}
                     ELSE IF r.val[1] \in DOMAIN acc THEN acc
                     ELSE (r.val[1] :> r.val[2]) @@ acc
         IN IF ~r.ok THEN r ELSE ReadEntries(t, n - 1, next, r.rest)

\* The count, clear(), then the entries.
DeserializeAssociative(t, s) ==
    LET c == ReadScalar(ContainerSizeBytes, FALSE, s)
    IN IF ~c.ok THEN c ELSE ReadEntries(t, c.val, DefaultValue(t), c.rest)

\* binary::deserialize into the object's current value 'old'.
Deserialize(t, old, s) ==
    CASE t.kind = "int" -> ReadScalar(t.bytes, t.signed, s)
      [] t.kind = "bool" ->
             LET r == ReadScalar(1, FALSE, s) IN IF r.ok THEN [r EXCEPT !.val = (r.val # 0)] ELSE r
      [] t.kind = "enum" -> DeserializeEnum(t, s)
      [] t.kind = "pair" -> DeserializePair(t, old, s)
      [] t.kind = "optional" -> DeserializeOptional(t, old, s)
      [] t.kind = "sequence" -> DeserializeSequence(t, old, s)
      [] t.kind = "array" -> DeserializeArray(t, old, s)
      [] t.kind \in {"map", "set"} -> DeserializeAssociative(t, s)

(***************************************************************************)
(* A field's Serializer is the CompositeSerializer<Ss...> it was           *)
(* registered with (registerField<Serializer, T>), here the sequence of    *)
(* the tags of Ss. The stream's SerializationContext carries the tag of   *)
(* the serializer it was created for: SerializationContext::create         *)
(* <BinarySerializer> in writeMessage and createMessageFromStream.        *)
(***************************************************************************)
ContextTag == "binary"

\* CompositeSerializer::supportedBy: some Ss has the context's tag.
SupportedBy(ss, tag) == \E i \in 1..Len(ss) : ss[i] = tag

\* CompositeSerializer::serializeUsing<S>: S writes only if it has the tag.
SerializeUsing(c, tag, t, v) == IF c = tag THEN Serialize(t, v) ELSE <<>>

\* CompositeSerializer::deserializeUsing<S>: S reads only if it has the tag.
DeserializeUsing(c, tag, t, r) ==
    IF c = tag /\ r.ok THEN Deserialize(t, r.val, r.rest) ELSE r

(* CompositeSerializer::serialize: IOException when no Ss supports the    *)
(* context, else serializeUsing for each of Ss in order. The result is     *)
(* whether it returned and the bytes it wrote.                             *)
CompositeSerialize(ss, tag, t, v) ==
    IF ~SupportedBy(ss, tag) THEN [ok |-> FALSE, bytes |-> <<>>]
    ELSE [ok |-> TRUE,
          bytes |-> FlattenSeq([i \in 1..Len(ss) |-> SerializeUsing(ss[i], tag, t, v)])]

\* CompositeSerializer::deserialize: the same check, then deserializeUsing
\* for each of Ss in order into the same value.
CompositeDeserialize(ss, tag, t, old, s) ==
    IF ~SupportedBy(ss, tag) THEN [ok |-> FALSE]
    ELSE FoldLeft(LAMBDA r, c : DeserializeUsing(c, tag, t, r),
                  [ok |-> TRUE, val |-> old, rest |-> s], ss)

\* ValueField::serialize: Serializer::serialize(context, m_value, m_name);
\* the binary serializer ignores the name.
FieldSerialize(ss, f) == CompositeSerialize(ss, ContextTag, f.type, f.val)

\* ValueField::serializedSize: binary::size(m_value), whatever Serializer is.
FieldSerializedSize(f) == Size(f.type, f.val)

\* ValueField::deserialize: Serializer::deserialize(context, m_value, m_name),
\* reading into the value the field holds.
FieldDeserialize(ss, f, s) == CompositeDeserialize(ss, ContextTag, f.type, f.val, s)

(* FieldSet::serialize (through Message::serialize and                    *)
(* BinarySerializer<Serializable>): every field's ValueField::serialize,  *)
(* in order; an exception leaves the loop with what was written so far.  *)
SerializeFields(ss, fs) ==
    LET RECURSIVE Go(_, _)
        Go(i, out) ==
            IF i > Len(fs) THEN [ok |-> TRUE, bytes |-> out]
            ELSE LET r == FieldSerialize(ss, fs[i])
                 IN IF ~r.ok THEN [ok |-> FALSE, bytes |-> out]
                    ELSE Go(i + 1, out \o r.bytes)
    IN Go(1, <<>>)

\* FieldSet::serializedSize: the sum of ValueField::serializedSize.
\* Message::serializedSize is what writeMessage takes for the frame's length.
FieldsSize(fs) == FoldLeft(LAMBDA sum, f : sum + FieldSerializedSize(f), 0, fs)

\* FieldSet::deserialize: every field's ValueField::deserialize, in order,
\* into its m_value.
DeserializeFields(ss, fs, s) ==
    LET RECURSIVE Go(_, _, _)
        Go(acc, i, str) ==
            IF i > Len(fs) THEN [ok |-> TRUE, val |-> acc, rest |-> str]
            ELSE LET r == FieldDeserialize(ss, fs[i], str)
                 IN IF ~r.ok THEN r
                    ELSE Go([acc EXCEPT ![i].val = r.val], i + 1, r.rest)
    IN Go(fs, 1, s)

\* Message::serialize, deserialize and serializedSize hand over to the
\* message's FieldSet.
MessageSerialize(ss, fs) == SerializeFields(ss, fs)
MessageDeserialize(ss, fs, s) == DeserializeFields(ss, fs, s)
MessageSerializedSize(fs) == FieldsSize(fs)

(* BinarySerializer<T> for a Serializable T, the one binary::serialize,   *)
(* binary::deserialize and binary::size pick for the Message that         *)
(* writeMessage and createMessageFromStream pass: the object's own        *)
(* serialize, deserialize and serializedSize.                             *)
SerializableSerialize(ss, fs) == MessageSerialize(ss, fs)
SerializableDeserialize(ss, fs, s) == MessageDeserialize(ss, fs, s)
SerializableSize(fs) == MessageSerializedSize(fs)

\* The fields of a message the factory has just created: m_value{}.
Fresh(fs) == [i \in 1..Len(fs) |-> [fs[i] EXCEPT !.val = DefaultValue(fs[i].type)]]

VARIABLES
    message,    \* the sent message's fields
    previous,   \* what an object of the same layout held before it is read into
    serializer  \* the Serializer of the message's ValueFields

vars == <<message, previous, serializer>>

Init ==
    /\ serializer \in Serializers
    /\ message \in Messages
    /\ previous \in {p \in Messages : Layout(p) = Layout(message)}
Next == UNCHANGED vars
Spec == Init /\ [][Next]_vars

-----------------------------------------------------------------------------
(***************************************************************************)
(* Model values: the widths, signs and nestings the field types of the    *)
(* repository's messages use, each with the values at its edges (zero,    *)
(* -1, the smallest and largest). The configurations give Messages and    *)
(* Trailer these definitions.                                             *)
(***************************************************************************)
IntOf(w, s) == [kind |-> "int", bytes |-> w, signed |-> s]
I8  == IntOf(1, TRUE)
U16 == IntOf(2, FALSE)
I32 == IntOf(4, TRUE)
Bool == [kind |-> "bool"]
E8 == [kind |-> "enum", bytes |-> 1, signed |-> FALSE]
Opt(t) == [kind |-> "optional", of |-> t]
PairOf(a, b) == [kind |-> "pair", first |-> a, second |-> b]
VectorOf(t) == [kind |-> "sequence", of |-> t]
ArrayOf(t, n) == [kind |-> "array", of |-> t, n |-> n]
MapOf(k, v) == [kind |-> "map", key |-> k, mapped |-> v]
SetOf(k) == [kind |-> "set", key |-> k]

I8s  == {-128, -1, 0, 1, 127}
U16s == {0, 1, 255, 256, 65535}
I32s == {-2147483647 - 1, -65536, -1, 0, 258, 2147483647}

\* Each field type with the values checked for it.
Fields ==
       {[type |-> I8, val |-> v] : v \in I8s}
    \cup {[type |-> U16, val |-> v] : v \in U16s}
    \cup {[type |-> I32, val |-> v] : v \in I32s}
    \cup {[type |-> Bool, val |-> v] : v \in BOOLEAN}
    \cup {[type |-> E8, val |-> v] : v \in {0, 2, 255}}
    \cup {[type |-> Opt(U16), val |-> v] : v \in {<<>>, <<0>>, <<65535>>}}
    \cup {[type |-> PairOf(Bool, I8), val |-> <<b, v>>] : b \in BOOLEAN, v \in {-1, 1}}
    \cup {[type |-> VectorOf(I8), val |-> v] : v \in {<<>>, <<-1>>, <<1, -128>>}}
    \cup {[type |-> VectorOf(Opt(I8)), val |-> v] : v \in {<<>>, <<<<>>>>, <<<<1>>, <<>>>>}}
    \cup {[type |-> ArrayOf(U16, 2), val |-> <<a, b>>] : a, b \in {0, 256}}
    \cup {[type |-> MapOf(I8, Opt(Bool)), val |-> v]
             : v \in {<<>>, (1 :> <<TRUE>>), (-1 :> <<>>) @@ (1 :> <<FALSE>>)}}
    \cup {[type |-> SetOf(U16), val |-> v] : v \in {{}, {1}, {1, 256}}}
    \cup {[type |-> Opt(PairOf(VectorOf(I8), Opt(I8))), val |-> v]
             : v \in {<<>>, <<<<<<>>, <<>>>>>>, <<<<<<1>>, <<-1>>>>>>}}

\* Messages of one field, and of two fields whose layouts run into each
\* other.
MCMessages ==
    {<<f>> : f \in Fields}
    \cup {<<f, g>> : f \in {x \in Fields : x.type \in {Opt(U16), VectorOf(Opt(I8))}},
                     g \in {x \in Fields : x.type \in {I8, SetOf(U16)}}}

(* CompositeSerializer<BinarySerializer> (what the repository's tests     *)
(* register fields with), one that puts a name-addressed serializer ahead *)
(* of it, and one without it.                                              *)
MCSerializers == {<<"binary">>, <<"json", "binary">>, <<"json">>}

\* The next frame's first bytes.
MCTrailer == <<7, 0>>

-----------------------------------------------------------------------------
\* What writeMessage relies on: the size Message::serializedSize predicts
\* is the number of bytes FieldSet::serialize writes, for every value
\* shape, so the frame's length prefix is right.
\* A serializer that does not support the context throws instead.
SizeIsBytesWritten ==
    LET w == SerializableSerialize(serializer, message)
    IN w.ok => SerializableSize(message) = Len(w.bytes)

\* What the receiving side relies on: deserializing the bytes serialize
\* wrote into a freshly created message gives back every field's value
\* and consumes exactly those bytes, leaving the rest of the stream.
DecodeFreshInvertsEncode ==
    LET w == SerializableSerialize(serializer, message)
    IN w.ok => SerializableDeserialize(serializer, Fresh(message), w.bytes \o Trailer)
                   = [ok |-> TRUE, val |-> message, rest |-> Trailer]

\* The same for an object read into a second time (a Serializable the
\* application reuses for each record): the result is the sent value,
\* whatever the object held before.
DecodeReusedInvertsEncode ==
    LET w == SerializableSerialize(serializer, message)
    IN w.ok => SerializableDeserialize(serializer, previous, w.bytes \o Trailer)
                   = [ok |-> TRUE, val |-> message, rest |-> Trailer]

\* The codec's endian law: a 16-bit and a 32-bit integer go on the wire
\* most significant byte first, on any host.
WireIsBigEndian ==
    /\ Serialize([kind |-> "int", bytes |-> 2, signed |-> FALSE], 258) = <<1, 2>>
    /\ Serialize([kind |-> "int", bytes |-> 4, signed |-> FALSE], 16909060) = <<1, 2, 3, 4>>
=============================================================================
