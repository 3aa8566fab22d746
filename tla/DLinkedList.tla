----------------------------- MODULE DLinkedList -----------------------------
(***************************************************************************)
(* D_linked_list.c at the level of its pointers: a doubly linked list on   *)
(* the heap, and one iterator over it, as run_liso keeps for its           *)
(* connections and http_*.c for their headers.  The list has one user at a *)
(* time, so that a call is one step.                                       *)
(***************************************************************************)
EXTENDS Integers, FiniteSets, SequencesExt

CONSTANTS
  Node,  \* bound: the addresses malloc may give a node
  Data,  \* the data pointers callers store
  NULL,
  Freed, \* the value of a pointer whose node has been freed
  Stale  \* stands in ListSpec for what such an iterator has still to return

ASSUME ListAssumption ==
  /\ IsFiniteSet(Node) /\ Node # {}
  /\ {NULL, Freed} \cap Node = {} /\ NULL # Freed
  /\ Stale \notin Seq(Data)

\* The indices callers pass: below, inside and past the end of the list.
Index == -1..Cardinality(Node)

VARIABLES
  header, tailer, count, \* struct Linked_List
  prev, next, data,      \* struct Linked_List_Node, by address
  alloc,                 \* the nodes malloc has given out
  currptr,               \* the iterator
  fault,                 \* NULL or a freed node has been dereferenced
  call                   \* the last call, for ListSpec

listVars == <<header, tailer, count, prev, next, data, alloc>>
vars == <<listVars, currptr, fault, call>>

\* The nodes met from p on, following link: more than there are addresses if
\* the chain is a cycle.
Chain(p, link) ==
  LET N == Cardinality(Node)
      at[k \in 0..N] == IF k = 0 THEN p
                        ELSE IF at[k - 1] \in Node THEN link[at[k - 1]] ELSE NULL
      length == Cardinality({k \in 0..N : at[k] \in Node})
  IN [k \in 1..length |-> at[k - 1]]

-----------------------------------------------------------------------------

\* A member of the node p points to, read and written; a fault when p points
\* to none.
Load(f, p) == IF p \in Node THEN f[p] ELSE NULL
Store(f, p, v) == IF p \in Node THEN [f EXCEPT ![p] = v] ELSE f
Faults(p) == p \notin alloc

Init ==
  /\ header = NULL /\ tailer = NULL /\ count = 0
  /\ prev = [n \in Node |-> NULL]
  /\ next = [n \in Node |-> NULL]
  /\ data = [n \in Node |-> NULL]
  /\ alloc = {}
  /\ currptr = NULL
  /\ fault = FALSE
  /\ call = <<"create_list">>

\* create_node, and the data its caller gives it; its pointers are NULL.
Blank(f, n) == [f EXCEPT ![n] = NULL]
CreateNode(n, d) ==
  /\ n \in Node \ alloc
  /\ alloc' = alloc \cup {n}
  /\ data' = [data EXCEPT ![n] = d]

AddHead(d, n) ==
  /\ CreateNode(n, d)
  /\ header' = n
  /\ tailer' = IF header = NULL THEN n ELSE tailer
  /\ prev' = IF header = NULL THEN Blank(prev, n) ELSE Store(Blank(prev, n), header, n)
  /\ next' = [next EXCEPT ![n] = header]
  /\ count' = count + 1
  /\ fault' = (fault \/ (header # NULL /\ Faults(header)))
  /\ call' = <<"add_head", d>>
  /\ UNCHANGED currptr

AddTail(d, n) ==
  /\ CreateNode(n, d)
  /\ tailer' = n
  /\ header' = IF tailer = NULL THEN n ELSE header
  /\ next' = IF tailer = NULL THEN Blank(next, n) ELSE Store(Blank(next, n), tailer, n)
  /\ prev' = [prev EXCEPT ![n] = tailer]
  /\ count' = count + 1
  /\ fault' = (fault \/ (tailer # NULL /\ Faults(tailer)))
  /\ call' = <<"add_tail", d>>
  /\ UNCHANGED currptr

\* Whether n is the first or the last node, as remove_node asks.
IsFirst(n) == header = n /\ Load(prev, n) = NULL
IsLast(n) == tailer = n /\ Load(next, n) = NULL

\* Mutant: the new first node keeps its pointer back.
PrevAfterRemove_Head(n) ==
  IF IsFirst(n) \/ IsLast(n) THEN prev ELSE Store(prev, Load(next, n), Load(prev, n))

\* nodep->next->prev=nodep->prev
PrevAfterRemove(n) ==
  IF IsLast(n) THEN prev ELSE Store(prev, Load(next, n), Load(prev, n))

\* nodep->prev->next=nodep->next
NextAfterRemove(n) ==
  IF IsFirst(n) THEN next ELSE Store(next, Load(prev, n), Load(next, n))

\* Mutant: a node that was not found is removed all the same.
NothingToRemove_Never(n) == FALSE

\* Mutant: only an empty list has nothing to remove.
NothingToRemove_Empty(n) == header = NULL /\ tailer = NULL

NothingToRemove(n) == n = NULL \/ (header = NULL /\ tailer = NULL)

\* remove_node
RemoveNode(n) ==
  IF NothingToRemove(n)
  THEN UNCHANGED <<listVars, currptr, fault>>
  ELSE /\ header' = IF IsFirst(n) THEN Load(next, n) ELSE header
       /\ tailer' = IF IsLast(n) THEN Load(prev, n) ELSE tailer
       /\ next' = Store(NextAfterRemove(n), n, NULL)
       /\ prev' = Store(PrevAfterRemove(n), n, NULL)
       /\ data' = Store(data, n, NULL)
       /\ count' = count - 1
       /\ alloc' = alloc \ {n}
       /\ currptr' = IF currptr = n THEN Freed ELSE currptr
       /\ fault' = (\/ fault
                    \/ Faults(n)
                    \/ ~IsFirst(n) /\ Faults(Load(prev, n))
                    \/ ~IsLast(n) /\ Faults(Load(next, n)))

\* The node a walk along chain stops at, given where it may: NULL after the
\* last one.
StopAt(chain, places) == IF places = {} THEN NULL ELSE chain[Min(places)]

\* Mutant: the search runs from the tailer.
FirstWith_Backwards(d) ==
  LET chain == Chain(tailer, prev)
  IN StopAt(chain, {k \in DOMAIN chain : data[chain[k]] = d})

FirstWith(d) ==
  LET chain == Chain(header, next)
  IN StopAt(chain, {k \in DOMAIN chain : data[chain[k]] = d})

NodeAt(index) ==
  LET chain == Chain(header, next)
  IN StopAt(chain, {k \in DOMAIN chain : k - 1 >= index})

RemoveContent(d) ==
  /\ RemoveNode(FirstWith(d))
  /\ call' = <<"remove_node_content", d>>

RemoveIndex(index) ==
  /\ RemoveNode(NodeAt(index))
  /\ call' = <<"remove_node_index", index>>

ResetIterator ==
  /\ currptr' = header
  /\ call' = <<"reset_iterator">>
  /\ UNCHANGED <<listVars, fault>>

\* has_next, then next: the iterator moves on before its caller sees the data.
\* A caller whose iterator stands on a freed node has none to move.
Advance ==
  /\ currptr \notin {NULL, Freed}
  /\ currptr' = next[currptr]
  /\ fault' = (fault \/ Faults(currptr))
  /\ call' = <<"next", data[currptr]>>
  /\ UNCHANGED listVars

\* free_list walks the list, taking the next pointer before each free; the
\* list that follows it is a new one.
Renew ==
  LET walked == ToSet(Chain(header, next))
  IN /\ alloc' = alloc \ walked
     /\ fault' = (fault \/ \E n \in walked : Faults(n))
     /\ header' = NULL /\ tailer' = NULL /\ count' = 0
     /\ prev' = [n \in Node |-> IF n \in walked THEN NULL ELSE prev[n]]
     /\ next' = [n \in Node |-> IF n \in walked THEN NULL ELSE next[n]]
     /\ data' = [n \in Node |-> IF n \in walked THEN NULL ELSE data[n]]
     /\ currptr' = IF currptr = NULL THEN NULL ELSE Freed
     /\ call' = <<"free_list">>

Next ==
  \/ \E d \in Data, n \in Node : AddHead(d, n) \/ AddTail(d, n)
  \/ \E d \in Data : RemoveContent(d)
  \/ \E index \in Index : RemoveIndex(index)
  \/ ResetIterator \/ Advance \/ Renew

Spec == Init /\ [][Next]_vars

-----------------------------------------------------------------------------
(* Correctness *)

TypeOK ==
  /\ header \in Node \cup {NULL} /\ tailer \in Node \cup {NULL}
  /\ count \in 0..Cardinality(Node)
  /\ prev \in [Node -> Node \cup {NULL}]
  /\ next \in [Node -> Node \cup {NULL}]
  /\ data \in [Node -> Data \cup {NULL}]
  /\ alloc \subseteq Node
  /\ currptr \in Node \cup {NULL, Freed}
  /\ fault \in BOOLEAN

\* No call dereferences NULL or a node that has been freed, whatever calls
\* came before it (D_linked_list.c:154-181: the neighbours of a removed node).
NeverFaults == ~fault

\* Walked from either end the list is the same, it has count nodes, and every
\* node the program has allocated is on it: none is lost or on it twice.
WellLinked ==
  LET forth == Chain(header, next)
  IN /\ Reverse(forth) = Chain(tailer, prev)
     /\ Len(forth) = count /\ Cardinality(alloc) = count
     /\ ToSet(forth) = alloc

Values(p) == LET chain == Chain(p, next) IN [k \in DOMAIN chain |-> data[chain[k]]]

Abstract == INSTANCE ListSpec WITH
  items <- Values(header),
  rest <- IF currptr = Freed THEN Stale ELSE Values(currptr)

\* Every call does to the list, and to an iterator in the middle of it, what
\* it does to a sequence.
ImplementsList == Abstract!Spec

=============================================================================
