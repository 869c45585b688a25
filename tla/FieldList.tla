------------------------------ MODULE FieldList ------------------------------
(***************************************************************************)
(* The std::list inserts that order the fields of a descriptor and of a   *)
(* message (src/message/field/field_set.cpp,                              *)
(* src/message/message_descriptor.cpp, src/message/message.cpp). An       *)
(* element is whatever the list holds: a field name, or a record of a     *)
(* field's name and value type.                                           *)
(***************************************************************************)
EXTENDS Naturals, Sequences, SequencesExt

\* Mutant: the new element overwrites the last one instead of going before it.
InsertBeforeLastOverwrite(list, x) ==
    IF list = <<>> THEN <<x>> ELSE [list EXCEPT ![Len(list)] = x]

(* std::list::insert at prev(end()), or at begin() of an empty list: the *)
(* new element goes before the current last one.                         *)
InsertBeforeLast(list, x) ==
    IF list = <<>> THEN <<x>> ELSE InsertAt(list, Len(list), x)

(* The loop of copy()/assign(): `it = insert(it, clone)` leaves it on the *)
(* element just inserted, so the next one goes in front of it.           *)
RECURSIVE CopyList(_, _, _)
CopyList(dst, it, src) ==
    IF src = <<>> THEN dst
    ELSE CopyList(InsertAt(dst, it, Head(src)), it, Tail(src))

\* MessageDescriptor::copy: clear the list, then the copy loop.
Copy(list) == CopyList(<<>>, 1, list)

\* MessageDescriptor(const MessageDescriptor&): copy(other).
DescriptorCopy(list) == Copy(list)

\* FieldSet::clear: m_fields.clear() and m_fields_by_name.clear().
Clear(list) == <<>>

\* FieldSet::assign: clear(), then the copy loop from begin().
Assign(dst, src) == CopyList(Clear(dst), 1, src)

\* FieldSet(const FieldSet&): assign(other) into the new, empty set.
FieldSetCopy(list) == Assign(<<>>, list)

\* FieldSet::swap and MessageDescriptor::swap: std::swap of the members.
SwapLists(a, b) == <<b, a>>

(* FieldSet(FieldSet&&) and MessageDescriptor(MessageDescriptor&&): the  *)
(* new, empty object swaps with the source, which is left empty. The    *)
(* result is the new object's list and the source's.                     *)
MoveConstruct(list) == SwapLists(<<>>, list)

\* FieldSet(FieldSet&&): swap(other) from the new, empty set.
FieldSetMove(list) == SwapLists(<<>>, list)

\* The Message constructor adds a field per descriptor, in list order.
RECURSIVE AddAll(_, _)
AddAll(fields, descriptors) ==
    IF descriptors = <<>> THEN fields
    ELSE AddAll(InsertBeforeLast(fields, Head(descriptors)), Tail(descriptors))
=============================================================================
