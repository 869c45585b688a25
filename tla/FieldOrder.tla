----------------------------- MODULE FieldOrder -----------------------------
(***************************************************************************)
(* The order of the fields of a message, which is their wire order: the   *)
(* binary codec writes FieldSet::m_fields front to back and the reader    *)
(* decodes into a fresh message by position.                              *)
(*                                                                         *)
(*  - MessageDescriptor::addFieldDescriptor and FieldSet::add insert each  *)
(*    new element before the last one of a std::list;                      *)
(*  - MessageDescriptor::copy and FieldSet::assign insert each element of *)
(*    the source at the iterator returned by the previous insert;          *)
(*  - addDescriptor(MessageDescriptor) takes its argument by value: a      *)
(*    descriptor passed as an lvalue is copied, a temporary is moved       *)
(*    (swap keeps the list).                                               *)
(*                                                                         *)
(* The sender registers one schema and builds and clones messages; the    *)
(* peer registers the same fields through addDescriptor(type, configure),  *)
(* which moves the descriptor, and decodes each frame into a fresh message.*)
(***************************************************************************)
EXTENDS FieldList

CONSTANTS
    Names,    \* field names
    MaxMsgs   \* bound on the messages built or cloned

ASSUME MaxMsgs \in Nat \ {0}

VARIABLES
    calls,      \* the names passed to registerField, in call order
    schema,     \* m_field_descriptors of the descriptor being configured
    factory,    \* the descriptor stored by the MessageFactory, or <<>>
    registered, \* addDescriptor has stored the descriptor
    msgs        \* messages built or cloned: their m_fields, and the source

vars == <<calls, schema, factory, registered, msgs>>

Msg == [order : Seq(Names), from : Nat]

\* registerField for each call in order, on a fresh descriptor.
Describe(names) == AddAll(<<>>, names)

\* The peer's descriptor is moved into its factory; it decodes into a fresh message.
PeerOrder == AddAll(<<>>, Describe(calls))

Init ==
    /\ calls = <<>>
    /\ schema = <<>>
    /\ factory = <<>>
    /\ registered = FALSE
    /\ msgs = <<>>

(* registerField -> addFieldDescriptor: a name already registered throws *)
(* InvalidArgumentException and leaves the descriptor as it was.         *)
RegisterField(n) ==
    /\ ~registered
    /\ n \notin ToSet(schema)
    /\ calls' = Append(calls, n)
    /\ schema' = InsertBeforeLast(schema, n)
    /\ UNCHANGED <<factory, registered, msgs>>

(* addDescriptor(MessageDescriptor): the parameter is copy-constructed   *)
(* from an lvalue or move-constructed from an rvalue, then moved into    *)
(* m_descriptors.                                                        *)
AddDescriptor(how) ==
    /\ ~registered
    /\ schema # <<>>
    /\ factory' = IF how = "copied" THEN DescriptorCopy(schema) ELSE MoveConstruct(schema)[1]
    /\ registered' = TRUE
    /\ UNCHANGED <<calls, schema, msgs>>

\* MessageFactory::createMessage
CreateMessage ==
    /\ registered
    /\ Len(msgs) < MaxMsgs
    /\ msgs' = Append(msgs, [order |-> AddAll(<<>>, factory), from |-> 0])
    /\ UNCHANGED <<calls, schema, factory, registered>>

(* Message::clone copy-constructs the Message, whose FieldSet copy        *)
(* constructor calls assign(); PubSubMessageChannel::send clones for      *)
(* every subscriber.                                                      *)
Clone(i) ==
    /\ i \in 1..Len(msgs)
    /\ Len(msgs) < MaxMsgs
    /\ msgs' = Append(msgs, [order |-> FieldSetCopy(msgs[i].order), from |-> i])
    /\ UNCHANGED <<calls, schema, factory, registered>>

Next ==
    \/ \E n \in Names : RegisterField(n)
    \/ \E how \in {"copied", "moved"} : AddDescriptor(how)
    \/ CreateMessage
    \/ \E i \in 1..MaxMsgs : Clone(i)

Spec == Init /\ [][Next]_vars

---------------------------------------------------------------------------
(* Properties *)

(* Spec frame law: the peer reads a message equal field-wise to the one  *)
(* sent. The peer decodes by position into a fresh message, so every    *)
(* message sent has the order of a fresh message on the peer.            *)
PeerDecodesWhatWasSent ==
    \A i \in 1..Len(msgs) : msgs[i].order = PeerOrder
====
