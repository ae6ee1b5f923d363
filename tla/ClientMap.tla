------------------------------ MODULE ClientMap ------------------------------
(***************************************************************************)
(* The server's client map (src/src/map.c): an open-addressing hash table  *)
(* with linear probing, no tombstones, which doubles when full and halves  *)
(* when at most a quarter full.  An operation is one atomic action: calls  *)
(* that do not overlap.  The map has no lock, and module Server takes pop  *)
(* and iter apart in two steps each, without the slots; calls that overlap *)
(* a rehash are in neither.                                                *)
(***************************************************************************)
EXTENDS Integers, FiniteSets, FiniteSetsExt, Sequences

CONSTANTS Ids,          \* client ids the map is used with
          Socks,        \* CDTPSocket pointers
          NULL,         \* the null pointer
          MinCapacity   \* CDTP_MAP_MIN_CAPACITY and CDTP_MAP_START_CAPACITY

(* A size_t has finitely many values. *)
ASSUME IdsAssumption == Ids \subseteq Nat /\ IsFiniteSet(Ids)
(* The code's is 16.  With an odd one the table may get too empty to halve. *)
ASSUME CapacityAssumption ==
  MinCapacity \in Nat /\ MinCapacity >= 2 /\ MinCapacity % 2 = 0
ASSUME SocksAssumption == NULL \notin Socks

VARIABLES size,         \* map->size
          capacity,     \* map->capacity
          nodes,        \* map->nodes
          hung,         \* a caller spins in a probing loop that never ends
          ret           \* <<operation, id, value>> of the last call

vars == <<size, capacity, nodes, hung, ret>>

Node == (Ids \X Socks) \cup {<<>>}

(* A node whose allocated flag is false. *)
Free == <<>>

EmptyTable(cap) == [h \in 0..(cap - 1) |-> Free]

(* The slot looked at after d steps of a probing loop. *)
Probe(key, d, cap) == ((key % cap) + d) % cap

Allocated(tab) == {h \in DOMAIN tab : tab[h] # Free}

(***************************************************************************)
(* The insertion loop, while (nodes[hash]->allocated) hash = hash + 1: the *)
(* first free slot on the way, none when the table is full.                *)
(***************************************************************************)
FreeSlot(tab, key) ==
  LET cap == Cardinality(DOMAIN tab)
      free == {d \in 0..(cap - 1) : tab[Probe(key, d, cap)] = Free}
  IN  Probe(key, Min(free), cap)

Full(tab) == Allocated(tab) = DOMAIN tab

(* Mutant of Hits: the scan stops at the first free node, as in a table    *)
(* with tombstones.                                                        *)
HitsUpToFree(tab, key) ==
  LET cap == Cardinality(DOMAIN tab)
  IN  {d \in 0..(cap - 1) :
         /\ \A e \in 0..d : tab[Probe(key, e, cap)] # Free
         /\ tab[Probe(key, d, cap)][1] = key}

(* Where the scan of contains, get and pop stops on an id: the whole table *)
(* is scanned, from the id's hash round to it again.                       *)
Hits(tab, key) ==
  LET cap == Cardinality(DOMAIN tab)
  IN  {d \in 0..(cap - 1) : /\ tab[Probe(key, d, cap)] # Free
                            /\ tab[Probe(key, d, cap)][1] = key}

Found(tab, key) == Hits(tab, key) # {}

Slot(tab, key) == Probe(key, Min(Hits(tab, key)), Cardinality(DOMAIN tab))

(***************************************************************************)
(* _cdtp_client_map_resize: a fresh table, filled with the old nodes in    *)
(* slot order; Filled(tab, newcap)[i] is the table after the old slots     *)
(* below i.                                                                *)
(***************************************************************************)
Insert(tab, node) == [tab EXCEPT ![FreeSlot(tab, node[1])] = node]

Filled(tab, newcap) ==
  LET filled[i \in 0..Cardinality(DOMAIN tab)] ==
        IF i = 0 THEN EmptyTable(newcap)
        ELSE IF tab[i - 1] = Free THEN filled[i - 1]
        ELSE Insert(filled[i - 1], tab[i - 1])
  IN  filled

Resize(tab, newcap) == Filled(tab, newcap)[Cardinality(DOMAIN tab)]

(* _cdtp_client_map_iter: the list after the slots below i. *)
Listed(tab) ==
  LET listed[i \in 0..Cardinality(DOMAIN tab)] ==
        IF i = 0 THEN <<>>
        ELSE IF tab[i - 1] = Free THEN listed[i - 1]
        ELSE Append(listed[i - 1], tab[i - 1])
  IN  listed

(* Mutant of NewCapacity: grows one insertion too late. *)
NewCapacityLate(n, cap) ==
  IF n > cap THEN cap * 2
  ELSE IF cap > MinCapacity /\ n * 4 <= cap THEN cap \div 2
  ELSE cap

(* Mutant of NewCapacity: shrinks only an empty map. *)
NewCapacityKept(n, cap) ==
  IF n >= cap THEN cap * 2
  ELSE IF cap > MinCapacity /\ n = 0 THEN cap \div 2
  ELSE cap

(* Mutant of NewCapacity: no least capacity. *)
NewCapacityNoLeast(n, cap) ==
  IF n >= cap THEN cap * 2
  ELSE IF n * 4 <= cap THEN cap \div 2
  ELSE cap

(* _cdtp_client_map_try_resize: the capacity it leaves. *)
NewCapacity(n, cap) ==
  IF n >= cap THEN cap * 2
  ELSE IF cap > MinCapacity /\ n * 4 <= cap THEN cap \div 2
  ELSE cap

(* The rehash that spins: more nodes than the new table has slots. *)
Overfull == Cardinality(Allocated(nodes)) > NewCapacity(size, capacity)

(* The table try_resize leaves. *)
Resized == IF NewCapacity(size, capacity) = capacity THEN nodes
           ELSE Resize(nodes, NewCapacity(size, capacity))

(* _cdtp_client_map *)
Init ==
  /\ size = 0
  /\ capacity = MinCapacity
  /\ nodes = EmptyTable(MinCapacity)
  /\ hung = FALSE
  /\ ret = <<"new", 0, NULL>>

(* _cdtp_client_map_set of an id that is present. *)
SetPresent(i) ==
  /\ Found(nodes, i)
  /\ ret' = <<"set", i, FALSE>>
  /\ UNCHANGED <<size, capacity, nodes, hung>>

(* Mutant of SetAbsent: the node is filled and not counted. *)
SetUncounted(i, s) ==
  /\ ~Found(nodes, i)
  /\ capacity' = NewCapacity(size, capacity)
  /\ IF Overfull \/ Full(Resized)
     THEN /\ hung' = TRUE
          /\ UNCHANGED <<size, nodes, ret>>
     ELSE /\ nodes' = Insert(Resized, <<i, s>>)
          /\ ret' = <<"set", i, TRUE>>
          /\ UNCHANGED <<size, hung>>

(* _cdtp_client_map_set of an id that is absent. *)
SetAbsent(i, s) ==
  /\ ~Found(nodes, i)
  /\ capacity' = NewCapacity(size, capacity)
  /\ IF Overfull \/ Full(Resized)
     THEN /\ hung' = TRUE
          /\ UNCHANGED <<size, nodes, ret>>
     ELSE /\ nodes' = Insert(Resized, <<i, s>>)
          /\ size' = size + 1
          /\ ret' = <<"set", i, TRUE>>
          /\ UNCHANGED hung

(* _cdtp_client_map_pop: resizes first, even when it will find nothing. *)
Pop(i) ==
  /\ capacity' = NewCapacity(size, capacity)
  /\ IF Overfull
     THEN /\ hung' = TRUE
          /\ UNCHANGED <<size, nodes, ret>>
     ELSE /\ IF Found(Resized, i)
             THEN /\ nodes' = [Resized EXCEPT ![Slot(Resized, i)] = Free]
                  /\ size' = size - 1
                  /\ ret' = <<"pop", i, Resized[Slot(Resized, i)][2]>>
             ELSE /\ nodes' = Resized
                  /\ ret' = <<"pop", i, NULL>>
                  /\ UNCHANGED size
          /\ UNCHANGED hung

(* _cdtp_client_map_get *)
Get(i) ==
  /\ ret' = <<"get", i, IF Found(nodes, i) THEN nodes[Slot(nodes, i)][2]
                        ELSE NULL>>
  /\ UNCHANGED <<size, capacity, nodes, hung>>

(* _cdtp_client_map_contains *)
Contains(i) ==
  /\ ret' = <<"contains", i, Found(nodes, i)>>
  /\ UNCHANGED <<size, capacity, nodes, hung>>

(* _cdtp_client_map_iter: the allocated nodes in slot order. *)
Iter ==
  /\ ret' = <<"iter", 0, Listed(nodes)[Cardinality(DOMAIN nodes)]>>
  /\ UNCHANGED <<size, capacity, nodes, hung>>

Next ==
  /\ ~hung
  /\ \/ \E i \in Ids, s \in Socks : SetAbsent(i, s)
     \/ \E i \in Ids : SetPresent(i) \/ Pop(i) \/ Get(i) \/ Contains(i)
     \/ Iter

Spec == Init /\ [][Next]_vars

-----------------------------------------------------------------------------
(* Every slot holds a node, the table is as long as the capacity says, and *)
(* the capacity never falls below the one the map starts with (map.c).     *)
TypeOK ==
  /\ capacity \in Nat /\ capacity >= MinCapacity
  /\ size \in 0..Cardinality(Ids)
  /\ nodes \in [0..(capacity - 1) -> Node]
  /\ hung \in BOOLEAN
  /\ ret[1] \in {"new", "set", "pop", "get", "contains", "iter"}

(* iter allocates map->size entries and fills one for every allocated node *)
(* (map.c:220-232): the two must agree, whatever sequence of insertions,   *)
(* removals and rehashes came before, or the list is overrun or read       *)
(* uninitialised.                                                          *)
IterFillsItsBuffer == size = Cardinality(Allocated(nodes))

(* No insertion or rehash ever loops for ever over a full table, although  *)
(* neither loop has a bound (map.c:83, map.c:177).                         *)
ProbesEnd == ~hung

(* Memory follows use: after any history a table above the minimum is at   *)
(* least a quarter full, so the one halving per call of try_resize is      *)
(* always enough (map.c:122-133).                                          *)
Occupancy ==
  /\ size <= capacity
  /\ capacity > MinCapacity => capacity <= 4 * size

(* What a table maps ids to, wherever it has them. *)
Entries(tab) ==
  [i \in {tab[h][1] : h \in Allocated(tab)} |->
     tab[CHOOSE h \in Allocated(tab) : tab[h][1] = i][2]]

(* The map is a dictionary: in spite of collisions, wrap-around, removals  *)
(* that leave holes in a probe sequence and rehashes, every call returns   *)
(* what a partial function from ids to sockets would (map.h:28-71).        *)
Dict == INSTANCE ClientDict WITH dict <- Entries(nodes)

ImplementsDict == Dict!Spec
=============================================================================
