------------------------------- MODULE ListSeq -------------------------------
(***************************************************************************)
(* The intrusive lists of include/kernel/list.c, seen as finite sequences  *)
(* of the elements linked between list.head and list.tail.  Every          *)
(* operation either runs with interrupts disabled (list_insert_before,     *)
(* list_remove) or is called with interrupts disabled by the code that     *)
(* uses these operators, so one operation is one step.                     *)
(***************************************************************************)
EXTENDS Sequences, Functions

list_init == << >>

list_empty(list) == list = << >>

list_find(list, elem) == elem \in Range(list)

list_push(list, elem) == <<elem>> \o list

list_append(list, elem) == Append(list, elem)

\* list_pop returns the first element and unlinks it: its result, and the
\* list that remains.
popped(list) == Head(list)
list_pop(list) == Tail(list)

\* An element owns one pair of prev/next pointers: it is linked at most once.
LinkedOnce(list) == IsInjective(list)

=============================================================================
