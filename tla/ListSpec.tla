------------------------------- MODULE ListSpec -------------------------------
(***************************************************************************)
(* What D_linked_list.c promises its callers: a sequence of data pointers  *)
(* and one iterator over it.  rest is what the iterator has still to       *)
(* return; it is Stale once the node the iterator stands on has been       *)
(* removed, and stays so until the iterator is reset.  call is the last    *)
(* call with its argument or its result.                                   *)
(***************************************************************************)
EXTENDS Integers, SequencesExt

CONSTANTS Data, Index, Stale

VARIABLES items, rest, call

Init == items = <<>> /\ rest = <<>> /\ call = <<"create_list">>

\* What arrives in front of the iterator is not returned any more.
AddHead(d) ==
  /\ items' = Cons(d, items)
  /\ rest' = rest
  /\ call' = <<"add_head", d>>

\* What arrives behind it is, unless it has already reached the end.
AddTail(d) ==
  /\ items' = Append(items, d)
  /\ rest' = IF rest \in {Stale, <<>>} THEN rest ELSE Append(rest, d)
  /\ call' = <<"add_tail", d>>

\* The iterator loses its place only with the element it stands on.
TakeOut(i) ==
  LET at == i - (Len(items) - Len(rest))
  IN /\ items' = RemoveAt(items, i)
     /\ rest' = IF rest = Stale \/ at < 1 THEN rest
                ELSE IF at = 1 THEN Stale
                ELSE RemoveAt(rest, at)

RemoveContent(d) ==
  /\ call' = <<"remove_node_content", d>>
  /\ \/ d \notin ToSet(items) /\ UNCHANGED <<items, rest>>
     \/ \E i \in DOMAIN items :
          /\ items[i] = d /\ \A j \in 1..(i - 1) : items[j] # d
          /\ TakeOut(i)

\* An index below 0 counts as 0.
RemoveIndex(index) ==
  LET i == IF index < 0 THEN 1 ELSE index + 1
  IN /\ call' = <<"remove_node_index", index>>
     /\ \/ i > Len(items) /\ UNCHANGED <<items, rest>>
        \/ i <= Len(items) /\ TakeOut(i)

Reset ==
  /\ rest' = items
  /\ call' = <<"reset_iterator">>
  /\ UNCHANGED items

Advance ==
  /\ rest \notin {Stale, <<>>}
  /\ rest' = Tail(rest)
  /\ call' = <<"next", Head(rest)>>
  /\ UNCHANGED items

\* free_list, and create_list for its successor.
Renew ==
  /\ items' = <<>>
  /\ rest' = IF rest = <<>> THEN rest ELSE Stale
  /\ call' = <<"free_list">>

Next ==
  \/ \E d \in Data : AddHead(d) \/ AddTail(d) \/ RemoveContent(d)
  \/ \E index \in Index : RemoveIndex(index)
  \/ Reset \/ Advance \/ Renew

Spec == Init /\ [][Next]_<<items, rest, call>>

=============================================================================
