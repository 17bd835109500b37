------------------------------ MODULE LRUCache ------------------------------
(***************************************************************************)
(* The bounded handler cache of internal/cluster/lru.go.                   *)
(*                                                                         *)
(* The code keeps a doubly linked list between two sentinels and a map     *)
(* from keys to nodes.  Here the list is a sequence of entries, the most   *)
(* recently used first, and the map is what the sequence says: a key is    *)
(* in the map iff an entry of the list carries it.  Every method takes the *)
(* cache's mutex for its whole body, so each is one operator on the list.  *)
(***************************************************************************)
EXTENDS Naturals, Sequences

\* The two ends of the linked list: an entry enters at the front ...
addToFront(list, e) ==
  [j \in 1..(Len(list) + 1) |-> IF j = 1 THEN e ELSE list[j - 1]]

\* ... and a node is unlinked wherever it stands.
remove(list, i) ==
  [j \in 1..(Len(list) - 1) |-> IF j < i THEN list[j] ELSE list[j + 1]]

moveToFront(list, i) == addToFront(remove(list, i), list[i])

\* c.cache[key]: whether the key has a node, and where it stands.
InCache(list, k) == \E i \in DOMAIN list : list[i].key = k

NodeOf(list, k) == CHOOSE i \in DOMAIN list : list[i].key = k

\* evict drops the node before the tail sentinel, if there is one.
evict(list) == IF list = <<>> THEN list ELSE remove(list, Len(list))

\* Get returns a value and, on a hit, moves the node to the front.
GetValue(list, k) == list[NodeOf(list, k)].value

Get(list, k) ==
  IF InCache(list, k) THEN moveToFront(list, NodeOf(list, k)) ELSE list

\* Put overwrites the node of a present key; otherwise it makes room first.
Put(list, capacity, k, v) ==
  IF InCache(list, k)
  THEN LET i == NodeOf(list, k)
       IN  moveToFront([list EXCEPT ![i] = [key |-> k, value |-> v]], i)
  ELSE LET room == IF Len(list) >= capacity THEN evict(list) ELSE list
       IN  addToFront(room, [key |-> k, value |-> v])

Delete(list, k) ==
  IF InCache(list, k) THEN remove(list, NodeOf(list, k)) ELSE list

\* A node per key: the map of the code and its linked list agree.
Unique(list) ==
  \A i, j \in DOMAIN list : list[i].key = list[j].key => i = j
=============================================================================
