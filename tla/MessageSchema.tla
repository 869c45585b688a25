---------------------------- MODULE MessageSchema ----------------------------
(***************************************************************************)
(* The message model: MessageFactory (src/message/message_factory.cpp),   *)
(* MessageDescriptor (src/message/message_descriptor.cpp), Message        *)
(* (src/message/message.cpp) and its FieldSet                             *)
(* (src/message/field/field_set.cpp, include/isml/message/field/          *)
(* field_set.hpp).                                                        *)
(*                                                                         *)
(* The application describes message types and registers them with the    *)
(* factory: addDescriptor(type, configure) builds a MessageDescriptor,    *)
(* lets configure call registerField, and moves it into the factory's     *)
(* unordered_map; addDescriptor(descriptor) takes one built by the caller, *)
(* copied from an lvalue or moved from an rvalue. Messages are built by   *)
(* createMessage, cloned (copy constructor) and moved (move constructor); *)
(* each constructor but the move takes a fresh id from generateId's       *)
(* static std::atomic<MessageId>, a uint32_t that wraps modulo 2^IdBits.  *)
(*                                                                         *)
(* A field is its name and its value type (typeid(T)); values are left    *)
(* out: no property here tells them apart (BinaryCodec models them).     *)
(***************************************************************************)
EXTENDS FieldList, Integers, FiniteSets

CONSTANTS
    Types,       \* MessageType values
    Names,       \* field names
    ValueTypes,  \* the T of registerField<Serializer, T> and field<T>
    IdBits,      \* the width of MessageId
    MaxFields,   \* bound on the registerField calls on one descriptor
    MaxMsgs      \* bound on the messages constructed

ASSUME IdBits \in Nat \ {0} /\ MaxFields \in Nat /\ MaxMsgs \in Nat

\* A FieldDescriptor, and the ValueField its createField() returns.
FieldKinds == [name : Names, vt : ValueTypes]

NoDraft == [type |-> "none", fields |-> <<>>]

VARIABLES
    descriptors, \* MessageFactory::m_descriptors, a function on the registered types
    draft,       \* the MessageDescriptor the application is configuring, or NoDraft
    lastId,      \* generateId's static counter
    msgs         \* messages constructed: m_id, m_type, m_fieldset, and
                 \* whether the object still owns its fields (not moved from)

vars == <<descriptors, draft, lastId, msgs>>

TypeOK ==
    /\ DOMAIN descriptors \subseteq Types
    /\ \A t \in DOMAIN descriptors : descriptors[t] \in Seq(FieldKinds)
    /\ draft = NoDraft \/ (draft.type \in Types /\ draft.fields \in Seq(FieldKinds))
    /\ lastId \in 0..(2^IdBits - 1)
    /\ \A i \in 1..Len(msgs) :
          /\ msgs[i].id \in 0..(2^IdBits - 1) /\ msgs[i].type \in Types
          /\ msgs[i].fields \in Seq(FieldKinds) /\ msgs[i].live \in BOOLEAN

Init ==
    /\ descriptors = <<>>
    /\ draft = NoDraft
    /\ lastId = 0
    /\ msgs = <<>>

\* The names a field list holds: m_field_descriptors_by_name, m_fields_by_name.
NamesOf(list) == {list[i].name : i \in 1..Len(list)}

\* generateId: ++id on a MessageId, which wraps.
GenerateId == (lastId + 1) % (2^IdBits)

\* FieldSet::add: a name already present is refused, the set unchanged.
FieldSetAdd(fields, f) ==
    IF f.name \in NamesOf(fields) THEN fields ELSE InsertBeforeLast(fields, f)

\* FieldSet::contains<T>: the field of that name exists and holds a T.
ContainsT(fields, n, vt) == \E i \in 1..Len(fields) : fields[i] = [name |-> n, vt |-> vt]

\* A Maybe<ValueField<T>&> is the position of the field it refers to in
\* m_fields; Maybe<T&>(None) leaves m_ptr nullptr, here 0.
MaybeNull == 0

\* Maybe<T&>::operator bool: m_ptr != nullptr.
MaybeIsSome(m) == m # MaybeNull

\* FieldSet::get<T>: none, rebound to the field when contains<T>(name).
FieldSetGet(fields, n, vt) ==
    IF ContainsT(fields, n, vt) THEN CHOOSE i \in 1..Len(fields) : fields[i].name = n
    ELSE MaybeNull

\* Message::field<T>: maybe_field.value(), or FieldDoesNotExistException.
FieldAccess(m, n, vt) ==
    IF MaybeIsSome(FieldSetGet(m.fields, n, vt)) THEN "field" ELSE "FieldDoesNotExist"

\* The Message constructor: a fresh id, then createField() for each
\* field descriptor in list order, through FieldSet::add.
NewMessage(t) ==
    [id |-> GenerateId, type |-> t,
     fields |-> FoldLeft(FieldSetAdd, <<>>, descriptors[t]), live |-> TRUE]

(* addDescriptor(type, configure) starts with MessageDescriptor{type};   *)
(* an application building its own descriptor starts the same way.      *)
BeginDescriptor(t) ==
    /\ draft = NoDraft
    /\ draft' = [type |-> t, fields |-> <<>>]
    /\ UNCHANGED <<descriptors, lastId, msgs>>

\* Mutant: addFieldDescriptor without the check for a name already registered.
RegisterFieldNoDupCheck(n, vt) ==
    /\ draft # NoDraft /\ Len(draft.fields) < MaxFields
    /\ draft' = [draft EXCEPT !.fields = InsertBeforeLast(@, [name |-> n, vt |-> vt])]
    /\ UNCHANGED <<descriptors, lastId, msgs>>

(* registerField<Serializer, T>(name) -> addFieldDescriptor: a name      *)
(* already registered throws InvalidArgumentException before the list   *)
(* is touched, so the descriptor is left as it was.                      *)
RegisterField(n, vt) ==
    /\ draft # NoDraft /\ Len(draft.fields) < MaxFields
    /\ IF n \in NamesOf(draft.fields)
       THEN UNCHANGED draft
       ELSE draft' = [draft EXCEPT !.fields = InsertBeforeLast(@, [name |-> n, vt |-> vt])]
    /\ UNCHANGED <<descriptors, lastId, msgs>>

(* The descriptor is destroyed without being added: the exception of a   *)
(* registerField left configure and addDescriptor(type, configure), or   *)
(* the application dropped its own descriptor.                           *)
DropDescriptor ==
    /\ draft # NoDraft
    /\ draft' = NoDraft
    /\ UNCHANGED <<descriptors, lastId, msgs>>

\* Mutant: the descriptor is stored with operator[], replacing an earlier one.
AddDescriptorOverwrite(how) ==
    /\ draft # NoDraft
    /\ descriptors' = (draft.type :> IF how = "copied" THEN DescriptorCopy(draft.fields) ELSE MoveConstruct(draft.fields)[1])
                          @@ descriptors
    /\ draft' = NoDraft
    /\ UNCHANGED <<lastId, msgs>>

(* addDescriptor(MessageDescriptor): the parameter is copy-constructed   *)
(* (copy() rebuilds the list) or move-constructed (swap keeps it), then  *)
(* m_descriptors.insert, which keeps an existing entry and returns false.*)
AddDescriptor(how) ==
    /\ draft # NoDraft
    /\ descriptors' =
          IF draft.type \in DOMAIN descriptors THEN descriptors
          ELSE descriptors @@ (draft.type :> IF how = "copied" THEN DescriptorCopy(draft.fields)
                                                               ELSE MoveConstruct(draft.fields)[1])
    /\ draft' = NoDraft
    /\ UNCHANGED <<lastId, msgs>>

(* MessageFactory::createMessage: an unregistered type throws            *)
(* UnknownMessageTypeException and changes nothing.                      *)
CreateMessage(t) ==
    /\ t \in DOMAIN descriptors /\ Len(msgs) < MaxMsgs
    /\ msgs' = Append(msgs, NewMessage(t))
    /\ lastId' = GenerateId
    /\ UNCHANGED <<descriptors, draft>>

\* Mutant: the copy constructor copies m_id.
CloneKeepsId(i) ==
    /\ msgs[i].live /\ Len(msgs) < MaxMsgs
    /\ msgs' = Append(msgs, [msgs[i] EXCEPT !.fields = FieldSetCopy(@)])
    /\ lastId' = GenerateId
    /\ UNCHANGED <<descriptors, draft>>

(* Message::clone, the copy constructor: a fresh id, and the FieldSet     *)
(* copy constructor's assign() clones each field.                        *)
Clone(i) ==
    /\ msgs[i].live /\ Len(msgs) < MaxMsgs
    /\ msgs' = Append(msgs, [msgs[i] EXCEPT !.id = GenerateId, !.fields = FieldSetCopy(@)])
    /\ lastId' = GenerateId
    /\ UNCHANGED <<descriptors, draft>>

(* The move constructor keeps m_id; the FieldSet move constructor swaps  *)
(* the source's fields with its own empty ones.                          *)
Move(i) ==
    /\ msgs[i].live /\ Len(msgs) < MaxMsgs
    /\ LET mv == FieldSetMove(msgs[i].fields)
       IN msgs' = Append([msgs EXCEPT ![i].fields = mv[2], ![i].live = FALSE],
                         [msgs[i] EXCEPT !.fields = mv[1]])
    /\ UNCHANGED <<descriptors, draft, lastId>>

\* The last Message::Ptr to a message is released.
Release(i) ==
    /\ msgs[i].live
    /\ msgs' = [msgs EXCEPT ![i].fields = <<>>, ![i].live = FALSE]
    /\ UNCHANGED <<descriptors, draft, lastId>>

Next ==
    \/ \E t \in Types : BeginDescriptor(t) \/ CreateMessage(t)
    \/ \E n \in Names, vt \in ValueTypes : RegisterField(n, vt)
    \/ DropDescriptor
    \/ \E how \in {"copied", "moved"} : AddDescriptor(how)
    \/ \E i \in 1..Len(msgs) : Clone(i) \/ Move(i) \/ Release(i)

Spec == Init /\ [][Next]_vars
-----------------------------------------------------------------------------
\* The messages an application can still reach.
Live == {i \in 1..Len(msgs) : msgs[i].live}

(* Spec 3, MessageId: monotonically increasing per process, 0 reserved.  *)
(* Request correlation keys the pending table on the id, so no two live  *)
(* messages, built, cloned or moved, share one, and none has id 0.       *)
MessageIdsUnique ==
    /\ \A i \in Live : msgs[i].id # 0
    /\ \A i, j \in Live : i # j => msgs[i].id # msgs[j].id

(* Spec 4.2: once a type is registered its schema is immutable and a     *)
(* re-registration is rejected; no addDescriptor, whichever overload and *)
(* however the descriptor was passed, replaces or removes a schema.      *)
RegisteredSchemaImmutable ==
    [][\A t \in DOMAIN descriptors :
          t \in DOMAIN descriptors' /\ descriptors'[t] = descriptors[t]]_vars

(* Spec 4.2: field<T>(name) returns the field exactly when the message's *)
(* schema registered that name with value type T, for every message      *)
(* built, cloned or moved, whatever registerField calls threw on the way.*)
TypedAccessMatchesSchema ==
    \A i \in Live, n \in Names, vt \in ValueTypes :
        (FieldAccess(msgs[i], n, vt) = "field")
            <=> [name |-> n, vt |-> vt] \in ToSet(descriptors[msgs[i].type])
=============================================================================
