------------------------------ MODULE KeyStore ------------------------------
(***************************************************************************)
(* The link keys of paired phones: remote_device_db_memory.c, a linked     *)
(* list (linked_list.c) of blocks from a pool (memory_pool.c).  List and   *)
(* pool link the same blocks through the same word, and when a dongle is   *)
(* attached again btstack_memory_init fills the pool with every block      *)
(* while the list still holds its own; so the pointers are modelled.       *)
(***************************************************************************)
EXTENDS Integers, Sequences, FiniteSets

CONSTANT KeyBlocks  \* MAX_NO_DB_MEM_DEVICE_LINK_KEYS

ASSUME KeyAssumption == KeyBlocks \in Nat \ {0}

Blocks == 1 .. KeyBlocks
NULL == 0

\* The items from h on, as the walks over a list meet them.
Chain(s, h) ==
  LET at[i \in 0 .. KeyBlocks] == IF i = 0 THEN h ELSE IF at[i - 1] = NULL THEN NULL ELSE s.next[at[i - 1]] IN at
Items(s) == {Chain(s, s.head)[i] : i \in 0 .. KeyBlocks} \ {NULL}

\* linked_list_get_last_item
LastItem(s) == IF s.head = NULL THEN NULL ELSE CHOOSE b \in Items(s) : s.next[b] = NULL

\* linked_list_add
ListAdd(s, b) == IF b \in Items(s) THEN s ELSE [s EXCEPT !.next[b] = s.head, !.head = b]

\* linked_list_remove
ListRemove(s, b) ==
  IF s.head = b THEN [s EXCEPT !.head = s.next[b]]
  ELSE LET before == CHOOSE c \in Items(s) : s.next[c] = b IN [s EXCEPT !.next[before] = s.next[b]]

\* memory_pool_get, memory_pool_free, memory_pool_create
PoolGet(s) == IF s.pool = NULL THEN s ELSE [s EXCEPT !.pool = s.next[s.pool]]
PoolFree(s, b) == [s EXCEPT !.next[b] = s.pool, !.pool = b]
PoolCreate(s) == [s EXCEPT !.next = [b \in Blocks |-> b - 1], !.pool = KeyBlocks]

\* get_item
ItemOf(s, a) == IF \E b \in Items(s) : s.addr[b] = a THEN CHOOSE b \in Items(s) : s.addr[b] = a ELSE NULL

\* get_link_key moves the record it finds to the front.
GetLinkKey(s, a) == IF ItemOf(s, a) = NULL THEN 0 ELSE s.key[ItemOf(s, a)]
AfterGet(s, a) == IF ItemOf(s, a) = NULL THEN s ELSE ListAdd(ListRemove(s, ItemOf(s, a)), ItemOf(s, a))

DeleteLinkKey(s, a) == IF ItemOf(s, a) = NULL THEN s ELSE PoolFree(ListRemove(s, ItemOf(s, a)), ItemOf(s, a))

\* put_link_key: without a free block the last record of the list is used again, where it is.
PutLinkKey(s, a, k) ==
  IF ItemOf(s, a) # NULL THEN [s EXCEPT !.key[ItemOf(s, a)] = k]
  ELSE LET b == IF s.pool # NULL THEN s.pool ELSE LastItem(s)
       IN IF b = NULL THEN s ELSE ListAdd([PoolGet(s) EXCEPT !.addr[b] = a, !.key[b] = k], b)

NoKeys == [next |-> [b \in Blocks |-> NULL], addr |-> [b \in Blocks |-> 0], key |-> [b \in Blocks |-> 0],
           head |-> NULL, pool |-> NULL]

\* The list of keys ends, so that no walk over it hangs the main loop, and holds a phone at
\* most once, although its blocks are also in the pool after a dongle was attached again.
KeyListSound(s) ==
  /\ \E i \in 0 .. KeyBlocks : Chain(s, s.head)[i] = NULL
  /\ \A b, c \in Items(s) : s.addr[b] = s.addr[c] => b = c
=============================================================================
