-------------------------- MODULE ClientMapProofs --------------------------
(***************************************************************************)
(* Proofs about ClientMap for any finite set of ids, any sockets and any   *)
(* even least capacity: what the probing and rehashing loops do to a       *)
(* table, the invariants, and that the map implements the dictionary.      *)
(***************************************************************************)
EXTENDS ClientMap, Induction, FiniteSetTheorems

IsTable(tab, cap) == tab \in [0..(cap - 1) -> Node]

Load(tab) == Cardinality(Allocated(tab))

(* No id is in two slots. *)
Unique(tab) ==
  \A g, h \in Allocated(tab) : tab[g][1] = tab[h][1] => g = h

Contents(tab) == {tab[h] : h \in Allocated(tab)}

(* What doubling makes of the least capacity. *)
Capacities ==
  {c \in Nat : \A T \in SUBSET Nat :
     MinCapacity \in T /\ (\A x \in T : 2 * x \in T) => c \in T}

Inv ==
  /\ TypeOK /\ capacity \in Capacities
  /\ IterFillsItsBuffer /\ ProbesEnd /\ Occupancy
  /\ Unique(nodes)

-----------------------------------------------------------------------------
(* Numbers *)

(* A set of naturals that is not empty has a minimum.                      *)
LEMMA MinType ==
  ASSUME NEW T, T \subseteq Nat, T # {}
  PROVE  Min(T) \in T
<1>1. \E x \in T : \A y \in T : x <= y
  BY LeastElement
<1> QED
  BY <1>1 DEF Min

(* A capacity is the least one or twice another, so that halving leads     *)
(* from one to one.                                                        *)
LEMMA CapacityTypes ==
  ASSUME NEW c \in Capacities
  PROVE  /\ c \in Nat /\ c >= MinCapacity /\ c % 2 = 0
         /\ 2 * c \in Capacities
         /\ c > MinCapacity =>
              c % 4 = 0 /\ c \div 2 \in Capacities /\ 2 * (c \div 2) = c
<1> DEFINE From == {x \in Nat : x >= MinCapacity /\ x % 2 = 0}
           Twice == {MinCapacity} \cup {2 * x : x \in Capacities}
<1>1. MinCapacity \in Nat /\ MinCapacity % 2 = 0 /\ Capacities \subseteq Nat
  BY CapacityAssumption DEF Capacities
<1>2. ASSUME NEW x \in Capacities
      PROVE  x \in Nat /\ x >= MinCapacity /\ x % 2 = 0
  <2>1. From \in SUBSET Nat /\ MinCapacity \in From
    BY <1>1
  <2>2. \A y \in From : 2 * y \in From
    BY <1>1
  <2>3. x \in From
    BY <2>1, <2>2 DEF Capacities
  <2> QED
    BY <2>3
<1>3. MinCapacity \in Capacities
  BY <1>1 DEF Capacities
<1>4. \A x \in Capacities : 2 * x \in Capacities
  <2>1. ASSUME NEW x \in Capacities, NEW T \in SUBSET Nat,
               MinCapacity \in T, \A y \in T : 2 * y \in T
        PROVE  2 * x \in T
    BY <2>1 DEF Capacities
  <2>2. \A x \in Capacities : 2 * x \in Nat
    BY <1>1
  <2> QED
    BY <2>1, <2>2 DEF Capacities
<1>5. c \in Twice
  <2>1. Twice \subseteq Nat
    BY <1>1
  <2>2. ASSUME NEW x \in Twice
        PROVE  2 * x \in Twice
    BY <1>3, <1>4
  <2> HIDE DEF Twice
  <2>3. MinCapacity \in Twice
    BY DEF Twice
  <2> QED
    BY <2>1, <2>2, <2>3 DEF Capacities
<1>6. ASSUME c > MinCapacity
      PROVE  c % 4 = 0 /\ c \div 2 \in Capacities /\ 2 * (c \div 2) = c
  <2>1. PICK x \in Capacities : c = 2 * x
    BY <1>1, <1>5, <1>6
  <2>2. x \in Nat /\ x % 2 = 0
    BY <1>2
  <2>3. c \div 2 = x /\ c % 4 = 0
    BY <2>1, <2>2
  <2> QED
    BY <2>1, <2>3
<1> QED
  BY <1>2, <1>4, <1>6

(* One round over a table.                                                 *)
LEMMA Around ==
  ASSUME NEW a \in Nat, NEW c \in Nat \ {0}, a < c
  PROVE  a % c = a /\ (a + c) % c = a
OBVIOUS

(* A probing loop looks at slots of the table only, and at every slot.     *)
LEMMA Probing ==
  ASSUME NEW cap \in Nat \ {0}, NEW key \in Nat
  PROVE  /\ \A d \in 0..(cap - 1) : Probe(key, d, cap) \in 0..(cap - 1)
         /\ \A h \in 0..(cap - 1) :
              \E d \in 0..(cap - 1) : Probe(key, d, cap) = h
<1> DEFINE r == key % cap
<1>1. r \in 0..(cap - 1)
  OBVIOUS
<1>2. \A d : Probe(key, d, cap) = (r + d) % cap
  BY DEF Probe
<1> HIDE DEF r
<1>3. \A d \in 0..(cap - 1) : (r + d) % cap \in 0..(cap - 1)
  BY <1>1
<1>4. ASSUME NEW h \in 0..(cap - 1)
      PROVE  \E d \in 0..(cap - 1) : (r + d) % cap = h
  <2>1. CASE h >= r
    <3>1. h - r \in 0..(cap - 1) /\ r + (h - r) = h
      BY <1>1, <2>1
    <3>2. h % cap = h
      BY Around
    <3> QED
      BY <3>1, <3>2
  <2>2. CASE ~(h >= r)
    <3>1. (h - r) + cap \in 0..(cap - 1) /\ r + ((h - r) + cap) = h + cap
      BY <1>1, <2>2
    <3>2. (h + cap) % cap = h
      BY Around
    <3> QED
      BY <3>1, <3>2
  <2> QED
    BY <2>1, <2>2
<1> QED
  BY <1>2, <1>3, <1>4

-----------------------------------------------------------------------------
(* Tables *)

(* A node that is allocated is an id and a socket.                         *)
LEMMA NodeType ==
  ASSUME NEW node \in Node, node # Free
  PROVE  /\ node[1] \in Ids /\ node[1] \in Nat /\ node[2] \in Socks
         /\ node = <<node[1], node[2]>>
<1>1. node \in Ids \X Socks
  BY DEF Node, Free
<1>2. PICK i \in Ids, s \in Socks : node = <<i, s>>
  BY <1>1
<1> QED
  BY <1>2, IdsAssumption

(* An id with a socket is one.                                             *)
LEMMA AllocatedType ==
  ASSUME NEW i \in Ids, NEW s \in Socks
  PROVE  <<i, s>> \in Node /\ <<i, s>> # Free
BY DEF Node, Free

(* The slots of a table.                                                   *)
LEMMA TableType ==
  ASSUME NEW cap \in Nat \ {0}, NEW tab, IsTable(tab, cap)
  PROVE  /\ DOMAIN tab = 0..(cap - 1) /\ Cardinality(DOMAIN tab) = cap
         /\ Allocated(tab) \subseteq 0..(cap - 1)
         /\ IsFiniteSet(Allocated(tab))
         /\ Load(tab) \in 0..cap
         /\ Load(tab) < cap <=> \E h \in 0..(cap - 1) : tab[h] = Free
         /\ \A h \in 0..(cap - 1) : tab[h] \in Node
<1>1. DOMAIN tab = 0..(cap - 1) /\ \A h \in 0..(cap - 1) : tab[h] \in Node
  BY DEF IsTable
<1>2. IsFiniteSet(0..(cap - 1)) /\ Cardinality(0..(cap - 1)) = cap
  <2>1. /\ 0 \in Int /\ cap - 1 \in Int
        /\ ~(0 > cap - 1) /\ (cap - 1) - 0 + 1 = cap
    OBVIOUS
  <2> QED
    BY <2>1, FS_Interval
<1>3. Allocated(tab) \in SUBSET (0..(cap - 1))
  BY <1>1 DEF Allocated
<1>4. /\ IsFiniteSet(Allocated(tab))
      /\ Load(tab) <= cap
      /\ Load(tab) = cap => Allocated(tab) = 0..(cap - 1)
  BY <1>2, <1>3, FS_Subset DEF Load
<1>5. Load(tab) \in Nat
  BY <1>4, FS_CardinalityType DEF Load
<1>6. Allocated(tab) = 0..(cap - 1) => Load(tab) = cap
  BY <1>2 DEF Load
<1>7. Load(tab) < cap <=> Allocated(tab) # 0..(cap - 1)
  BY <1>4, <1>5, <1>6
<1> QED
  BY <1>1, <1>2, <1>3, <1>4, <1>5, <1>7 DEF Allocated

(* The insertion loop ends at a free slot, if there is one.                *)
LEMMA FreeSlotType ==
  ASSUME NEW cap \in Nat \ {0}, NEW tab, IsTable(tab, cap), Load(tab) < cap,
         NEW key \in Nat
  PROVE  FreeSlot(tab, key) \in 0..(cap - 1) /\ tab[FreeSlot(tab, key)] = Free
<1> DEFINE free == {d \in 0..(cap - 1) : tab[Probe(key, d, cap)] = Free}
<1>1. Cardinality(DOMAIN tab) = cap /\ \E h \in 0..(cap - 1) : tab[h] = Free
  BY TableType
<1>2. free # {} /\ free \subseteq Nat
  <2>1. PICK h \in 0..(cap - 1) : tab[h] = Free
    BY <1>1
  <2>2. PICK d \in 0..(cap - 1) : Probe(key, d, cap) = h
    BY Probing
  <2> QED
    BY <2>1, <2>2
<1>3. Min(free) \in free
  <2> HIDE DEF free
  <2> QED
    BY <1>2, MinType
<1>4. FreeSlot(tab, key) = Probe(key, Min(free), cap)
  BY <1>1 DEF FreeSlot
<1> QED
  BY <1>3, <1>4, Probing

(* What it makes of a table.                                               *)
LEMMA Inserting ==
  ASSUME NEW cap \in Nat \ {0}, NEW tab, IsTable(tab, cap), Load(tab) < cap,
         Unique(tab), NEW node \in Node, node # Free,
         \A h \in Allocated(tab) : tab[h][1] # node[1]
  PROVE  /\ IsTable(Insert(tab, node), cap)
         /\ Load(Insert(tab, node)) = Load(tab) + 1
         /\ Unique(Insert(tab, node))
         /\ Contents(Insert(tab, node)) = Contents(tab) \cup {node}
<1> DEFINE f == FreeSlot(tab, node[1])
           new == Insert(tab, node)
<1>1. /\ DOMAIN tab = 0..(cap - 1) /\ IsFiniteSet(Allocated(tab))
      /\ tab \in [0..(cap - 1) -> Node]
  BY TableType DEF IsTable
<1>2. f \in 0..(cap - 1) /\ tab[f] = Free
  BY FreeSlotType, NodeType
<1>3. new = [tab EXCEPT ![f] = node]
  BY DEF Insert
<1> HIDE DEF f, new
<1>4. /\ IsTable(new, cap) /\ DOMAIN new = 0..(cap - 1)
      /\ new[f] = node /\ \A h \in 0..(cap - 1) \ {f} : new[h] = tab[h]
  BY <1>1, <1>2, <1>3 DEF IsTable
<1>5. Allocated(new) = Allocated(tab) \cup {f} /\ f \notin Allocated(tab)
  BY <1>1, <1>2, <1>4 DEF Allocated
<1>6. Load(new) = Load(tab) + 1
  BY <1>1, <1>5, FS_AddElement DEF Load
<1>7. \A h \in Allocated(tab) : h # f /\ new[h] = tab[h]
  BY <1>1, <1>2, <1>4 DEF Allocated
<1>8. Unique(new)
  BY <1>4, <1>5, <1>7 DEF Unique
<1>9. Contents(new) = Contents(tab) \cup {node}
  BY <1>4, <1>5, <1>7 DEF Contents
<1> QED
  BY <1>4, <1>6, <1>8, <1>9 DEF new

(* The scan of contains, get and pop finds the slot of an id, if any.      *)
LEMMA Scanning ==
  ASSUME NEW cap \in Nat \ {0}, NEW tab, IsTable(tab, cap), NEW key \in Ids
  PROVE  /\ Found(tab, key) <=> \E h \in Allocated(tab) : tab[h][1] = key
         /\ Found(tab, key) => /\ Slot(tab, key) \in Allocated(tab)
                               /\ tab[Slot(tab, key)][1] = key
<1> DEFINE hits == {d \in 0..(cap - 1) : /\ tab[Probe(key, d, cap)] # Free
                                         /\ tab[Probe(key, d, cap)][1] = key}
<1>1. /\ DOMAIN tab = 0..(cap - 1) /\ Cardinality(DOMAIN tab) = cap
      /\ key \in Nat
  BY TableType, IdsAssumption
<1>2. Hits(tab, key) = hits
  BY <1>1 DEF Hits
<1>3. ASSUME NEW h \in Allocated(tab), tab[h][1] = key
      PROVE  hits # {}
  <2>1. h \in 0..(cap - 1) /\ tab[h] # Free
    BY <1>1 DEF Allocated
  <2>2. PICK d \in 0..(cap - 1) : Probe(key, d, cap) = h
    BY <1>1, <2>1, Probing
  <2>3. d \in hits
    BY <1>3, <2>1, <2>2
  <2> QED
    BY <2>3
<1>4. ASSUME hits # {}
      PROVE  /\ Slot(tab, key) \in Allocated(tab)
             /\ tab[Slot(tab, key)][1] = key
  <2>1. Min(hits) \in hits
    <3>1. hits \subseteq Nat
      OBVIOUS
    <3> HIDE DEF hits
    <3> QED
      BY <1>4, <3>1, MinType
  <2>2. Slot(tab, key) = Probe(key, Min(hits), cap)
    BY <1>1, <1>2 DEF Slot
  <2>3. Probe(key, Min(hits), cap) \in 0..(cap - 1)
    BY <1>1, <2>1, Probing
  <2> QED
    BY <1>1, <2>1, <2>2, <2>3 DEF Allocated
<1> HIDE DEF hits
<1> QED
  BY <1>2, <1>3, <1>4 DEF Found

(* What pop makes of a table. *)
Emptied(tab, h) == [tab EXCEPT ![h] = Free]

(* It has lost one node.                                                   *)
LEMMA Removing ==
  ASSUME NEW cap \in Nat \ {0}, NEW tab, IsTable(tab, cap), Unique(tab),
         NEW h \in Allocated(tab)
  PROVE  /\ IsTable(Emptied(tab, h), cap) /\ Unique(Emptied(tab, h))
         /\ Load(Emptied(tab, h)) = Load(tab) - 1
         /\ Contents(Emptied(tab, h))
              = {n \in Contents(tab) : n[1] # tab[h][1]}
<1> DEFINE new == Emptied(tab, h)
<1>1. /\ DOMAIN tab = 0..(cap - 1) /\ IsFiniteSet(Allocated(tab))
      /\ tab \in [0..(cap - 1) -> Node] /\ h \in 0..(cap - 1)
  BY TableType DEF IsTable
<1>2. /\ IsTable(new, cap) /\ DOMAIN new = 0..(cap - 1)
      /\ new[h] = Free /\ \A g \in 0..(cap - 1) \ {h} : new[g] = tab[g]
  BY <1>1 DEF IsTable, Node, Free, Emptied
<1> HIDE DEF new
<1>3. Allocated(new) = Allocated(tab) \ {h}
  BY <1>1, <1>2 DEF Allocated
<1>4. Load(new) = Load(tab) - 1
  BY <1>1, <1>3, FS_RemoveElement DEF Load
<1>5. \A g \in Allocated(new) : new[g] = tab[g]
  BY <1>1, <1>2, <1>3 DEF Allocated
<1>6. Unique(new)
  BY <1>3, <1>5 DEF Unique
<1>7. Contents(new) = {n \in Contents(tab) : n[1] # tab[h][1]}
  <2>1. \A g \in Allocated(tab) : g = h <=> tab[g][1] = tab[h][1]
    BY DEF Unique
  <2> QED
    BY <1>3, <1>5, <2>1 DEF Contents
<1> QED
  BY <1>2, <1>4, <1>6, <1>7 DEF new

(* The empty table.                                                        *)
LEMMA Empty ==
  ASSUME NEW cap \in Nat \ {0}
  PROVE  /\ IsTable(EmptyTable(cap), cap) /\ Unique(EmptyTable(cap))
         /\ Load(EmptyTable(cap)) = 0 /\ Contents(EmptyTable(cap)) = {}
<1>1. Allocated(EmptyTable(cap)) = {}
  BY DEF Allocated, EmptyTable
<1> QED
  BY <1>1, FS_EmptySet
     DEF IsTable, Unique, Load, Contents, EmptyTable, Node, Free

-----------------------------------------------------------------------------
(* Loops over a table *)

(* The slots below i that are allocated.                                   *)
Before(tab, i) == {h \in Allocated(tab) : h < i}

(* One slot more.                                                          *)
LEMMA OneSlotMore ==
  ASSUME NEW cap \in Nat \ {0}, NEW tab, IsTable(tab, cap),
         NEW i \in 1..cap
  PROVE  /\ IsFiniteSet(Before(tab, i - 1))
         /\ tab[i - 1] = Free => Before(tab, i) = Before(tab, i - 1)
         /\ tab[i - 1] # Free =>
              /\ i - 1 \in Allocated(tab) /\ i - 1 \notin Before(tab, i - 1)
              /\ Before(tab, i) = Before(tab, i - 1) \cup {i - 1}
              /\ Cardinality(Before(tab, i)) =
                   Cardinality(Before(tab, i - 1)) + 1
<1>1. /\ DOMAIN tab = 0..(cap - 1) /\ IsFiniteSet(Allocated(tab))
      /\ Allocated(tab) \subseteq 0..(cap - 1)
  BY TableType
<1>2. IsFiniteSet(Before(tab, i - 1))
  <2>1. Before(tab, i - 1) \in SUBSET Allocated(tab)
    BY DEF Before
  <2> QED
    BY <1>1, <2>1, FS_Subset
<1>3. \A h \in 0..(cap - 1) : h < i <=> h < i - 1 \/ h = i - 1
  OBVIOUS
<1>4. tab[i - 1] = Free => Before(tab, i) = Before(tab, i - 1)
  BY <1>1, <1>3 DEF Before, Allocated
<1>5. ASSUME tab[i - 1] # Free
      PROVE  /\ i - 1 \in Allocated(tab) /\ i - 1 \notin Before(tab, i - 1)
             /\ Before(tab, i) = Before(tab, i - 1) \cup {i - 1}
  BY <1>1, <1>3, <1>5 DEF Before, Allocated
<1>6. ASSUME tab[i - 1] # Free
      PROVE  Cardinality(Before(tab, i)) = Cardinality(Before(tab, i - 1)) + 1
  BY <1>2, <1>5, <1>6, FS_AddElement
<1> QED
  BY <1>2, <1>4, <1>5, <1>6

(* The first slot and the last.                                            *)
LEMMA FirstAndLast ==
  ASSUME NEW cap \in Nat \ {0}, NEW tab, IsTable(tab, cap)
  PROVE  /\ Before(tab, 0) = {} /\ Cardinality(Before(tab, 0)) = 0
         /\ Before(tab, cap) = Allocated(tab)
<1>1. Allocated(tab) \subseteq 0..(cap - 1)
  BY TableType
<1>2. Before(tab, 0) = {} /\ Before(tab, cap) = Allocated(tab)
  BY <1>1 DEF Before
<1> QED
  BY <1>2, FS_EmptySet

(* Filled(tab, newcap) is defined by the insertions of the rehash.         *)
LEMMA FilledDef ==
  ASSUME NEW cap \in Nat \ {0}, NEW tab, IsTable(tab, cap),
         NEW newcap \in Nat \ {0}
  PROVE  LET filled == Filled(tab, newcap)
         IN  /\ filled[0] = EmptyTable(newcap)
             /\ \A i \in 1..cap :
                  filled[i] = IF tab[i - 1] = Free THEN filled[i - 1]
                              ELSE Insert(filled[i - 1], tab[i - 1])
<1> DEFINE D == [0..(newcap - 1) -> Node]
           One(i, t) == IF tab[i - 1] = Free THEN t ELSE Insert(t, tab[i - 1])
           step == [i \in 1..cap |-> [t \in D |-> One(i, t)]]
           Eq(f) == f = [i \in 0..cap |->
                      IF i = 0 THEN EmptyTable(newcap)
                      ELSE IF tab[i - 1] = Free THEN f[i - 1]
                      ELSE Insert(f[i - 1], tab[i - 1])]
<1>1. Cardinality(DOMAIN tab) = cap /\ \A h \in 0..(cap - 1) : tab[h] \in Node
  BY TableType
<1>2. EmptyTable(newcap) \in D
  BY Empty DEF IsTable
<1>3. ASSUME NEW i \in 1..cap, NEW t \in D
      PROVE  One(i, t) \in D
  <2>1. tab[i - 1] \in Node
    BY <1>1
  <2> QED
    BY <2>1 DEF Insert
<1> HIDE DEF D, One
<1>4. \A i \in 1..cap : \A t \in D : step[i][t] \in D
  BY <1>3
<1>5. PICK g : Iterates(g, cap, D, EmptyTable(newcap), step)
  <2> HIDE DEF step
  <2> QED
    BY <1>2, <1>4, Iteration
<1>6. /\ g \in [0..cap -> D] /\ g[0] = EmptyTable(newcap)
      /\ \A i \in 1..cap : g[i] = step[i][g[i - 1]]
  <2> HIDE DEF step
  <2> QED
    BY <1>5 DEF Iterates
<1>7. \A i \in 1..cap : g[i] = One(i, g[i - 1])
  <2>1. \A i \in 1..cap : i - 1 \in 0..cap /\ g[i - 1] \in D
    BY <1>6
  <2> QED
    BY <1>6, <2>1
<1>8. Eq(g)
  BY <1>6, <1>7 DEF One
<1>9. Filled(tab, newcap) = CHOOSE f : Eq(f)
  BY <1>1 DEF Filled
<1>10. Eq(Filled(tab, newcap))
  <2> HIDE DEF Eq
  <2> QED
    BY <1>8, <1>9
<1>11. \A i \in 0..cap : Filled(tab, newcap)[i] =
         IF i = 0 THEN EmptyTable(newcap)
         ELSE IF tab[i - 1] = Free THEN Filled(tab, newcap)[i - 1]
         ELSE Insert(Filled(tab, newcap)[i - 1], tab[i - 1])
  BY <1>10, Zenon
<1> QED
  BY <1>11

(* The rehash: the new table holds what the old one held.                  *)
LEMMA Rehashing ==
  ASSUME NEW cap \in Nat \ {0}, NEW tab, IsTable(tab, cap), Unique(tab),
         NEW newcap \in Nat \ {0}, Load(tab) <= newcap
  PROVE  /\ IsTable(Resize(tab, newcap), newcap)
         /\ Unique(Resize(tab, newcap))
         /\ Load(Resize(tab, newcap)) = Load(tab)
         /\ Contents(Resize(tab, newcap)) = Contents(tab)
<1> DEFINE filled == Filled(tab, newcap)
           Nodes(i) == {tab[h] : h \in Before(tab, i)}
           Good == {i \in 0..cap :
                      /\ IsTable(filled[i], newcap) /\ Unique(filled[i])
                      /\ Load(filled[i]) = Cardinality(Before(tab, i))
                      /\ Contents(filled[i]) = Nodes(i)}
<1>1. /\ filled[0] = EmptyTable(newcap)
      /\ \A i \in 1..cap :
           filled[i] = IF tab[i - 1] = Free THEN filled[i - 1]
                       ELSE Insert(filled[i - 1], tab[i - 1])
  BY FilledDef
<1> HIDE DEF filled
<1>2. /\ IsFiniteSet(Allocated(tab)) /\ Load(tab) \in Nat
      /\ Cardinality(DOMAIN tab) = cap
      /\ \A h \in 0..(cap - 1) : tab[h] \in Node
  BY TableType
<1>3. 0 \in Good
  BY <1>1, Empty, FirstAndLast
<1>4. ASSUME NEW i \in 1..cap, i - 1 \in Good
      PROVE  i \in Good
  <2>1. /\ IsTable(filled[i - 1], newcap) /\ Unique(filled[i - 1])
        /\ Load(filled[i - 1]) = Cardinality(Before(tab, i - 1))
        /\ Contents(filled[i - 1]) = Nodes(i - 1)
    BY <1>4
  <2>2. CASE tab[i - 1] = Free
    BY <1>1, <2>1, <2>2, OneSlotMore
  <2>3. CASE tab[i - 1] # Free
    <3> DEFINE n == tab[i - 1]
    <3>1. /\ i - 1 \in Allocated(tab) /\ i - 1 \notin Before(tab, i - 1)
          /\ Before(tab, i) = Before(tab, i - 1) \cup {i - 1}
          /\ Cardinality(Before(tab, i)) = Cardinality(Before(tab, i - 1)) + 1
      BY <2>3, OneSlotMore
    <3>2. filled[i] = Insert(filled[i - 1], n)
      BY <1>1, <2>3
    <3>3. n \in Node /\ n # Free
      BY <1>2, <2>3
    <3>4. Load(filled[i - 1]) < newcap
      <4>1. Before(tab, i) \in SUBSET Allocated(tab)
        BY DEF Before
      <4>2. Cardinality(Before(tab, i)) <= Load(tab)
        BY <1>2, <4>1, FS_Subset DEF Load
      <4>3. Cardinality(Before(tab, i - 1)) \in Nat
        BY OneSlotMore, FS_CardinalityType
      <4> QED
        BY <1>2, <2>1, <3>1, <4>2, <4>3
    <3>5. \A h \in Allocated(filled[i - 1]) : filled[i - 1][h][1] # n[1]
      <4>1. ASSUME NEW h \in Allocated(filled[i - 1])
            PROVE  filled[i - 1][h][1] # n[1]
        <5>1. filled[i - 1][h] \in Nodes(i - 1)
          BY <2>1 DEF Contents
        <5>2. PICK g \in Before(tab, i - 1) : filled[i - 1][h] = tab[g]
          BY <5>1
        <5>3. g \in Allocated(tab) /\ g # i - 1
          BY <3>1 DEF Before
        <5> QED
          BY <3>1, <5>2, <5>3 DEF Unique
      <4> QED
        BY <4>1
    <3>6. Nodes(i) = Nodes(i - 1) \cup {n}
      BY <3>1
    <3> HIDE DEF n, Nodes
    <3>7. /\ IsTable(filled[i], newcap) /\ Unique(filled[i])
          /\ Load(filled[i]) = Load(filled[i - 1]) + 1
          /\ Contents(filled[i]) = Contents(filled[i - 1]) \cup {n}
      BY <2>1, <3>2, <3>3, <3>4, <3>5, Inserting
    <3> QED
      BY <2>1, <3>1, <3>6, <3>7
  <2> QED
    BY <2>2, <2>3
<1>5. cap \in Good
  <2>1. 0..cap \subseteq Good
    <3> HIDE DEF Good
    <3> QED
      BY <1>3, <1>4, UpTo
  <2> QED
    BY <2>1
<1>6. /\ IsTable(filled[cap], newcap) /\ Unique(filled[cap])
      /\ Load(filled[cap]) = Cardinality(Before(tab, cap))
      /\ Contents(filled[cap]) = Nodes(cap)
  BY <1>5
<1>7. Resize(tab, newcap) = filled[cap]
  BY <1>2 DEF Resize, filled
<1>8. Before(tab, cap) = Allocated(tab)
  BY FirstAndLast
<1>9. Nodes(cap) = Contents(tab) /\ Cardinality(Before(tab, cap)) = Load(tab)
  BY <1>8 DEF Load, Contents
<1> HIDE DEF Nodes
<1> QED
  BY <1>6, <1>7, <1>9

(* Listed(tab) is defined by the loop of iter.                             *)
LEMMA ListedDef ==
  ASSUME NEW cap \in Nat \ {0}, NEW tab, IsTable(tab, cap)
  PROVE  LET listed == Listed(tab)
         IN  /\ listed \in [0..cap -> Seq(Node)] /\ listed[0] = <<>>
             /\ \A i \in 1..cap :
                  listed[i] = IF tab[i - 1] = Free THEN listed[i - 1]
                              ELSE Append(listed[i - 1], tab[i - 1])
<1> DEFINE D == Seq(Node)
           One(i, l) == IF tab[i - 1] = Free THEN l ELSE Append(l, tab[i - 1])
           step == [i \in 1..cap |-> [l \in D |-> One(i, l)]]
           Eq(f) == f = [i \in 0..cap |->
                      IF i = 0 THEN <<>>
                      ELSE IF tab[i - 1] = Free THEN f[i - 1]
                      ELSE Append(f[i - 1], tab[i - 1])]
<1>1. Cardinality(DOMAIN tab) = cap /\ \A h \in 0..(cap - 1) : tab[h] \in Node
  BY TableType
<1>2. <<>> \in D
  OBVIOUS
<1>3. ASSUME NEW i \in 1..cap, NEW l \in D
      PROVE  One(i, l) \in D
  <2>1. tab[i - 1] \in Node
    BY <1>1
  <2> QED
    BY <2>1
<1> HIDE DEF D, One
<1>4. \A i \in 1..cap : \A l \in D : step[i][l] \in D
  BY <1>3
<1>5. PICK g : Iterates(g, cap, D, <<>>, step)
  <2> HIDE DEF step
  <2> QED
    BY <1>2, <1>4, Iteration
<1>6. /\ g \in [0..cap -> D] /\ g[0] = <<>>
      /\ \A i \in 1..cap : g[i] = step[i][g[i - 1]]
  <2> HIDE DEF step
  <2> QED
    BY <1>5 DEF Iterates
<1>7. \A i \in 1..cap : g[i] = One(i, g[i - 1])
  <2>1. \A i \in 1..cap : i - 1 \in 0..cap /\ g[i - 1] \in D
    BY <1>6
  <2> QED
    BY <1>6, <2>1
<1>8. Eq(g)
  <2>1. \A i \in 0..cap : i # 0 => i \in 1..cap
    OBVIOUS
  <2>2. \A i \in 0..cap : g[i] = IF i = 0 THEN <<>>
                                ELSE IF tab[i - 1] = Free THEN g[i - 1]
                                ELSE Append(g[i - 1], tab[i - 1])
    BY <1>6, <1>7, <2>1 DEF One
  <2>3. g = [i \in 0..cap |-> g[i]]
    BY <1>6
  <2> QED
    BY <2>2, <2>3, Zenon
<1>9. Listed(tab) = CHOOSE f : Eq(f)
  BY <1>1 DEF Listed
<1>10. Eq(Listed(tab))
  <2> HIDE DEF Eq
  <2> QED
    BY <1>8, <1>9
<1>11. \A i \in 0..cap : Listed(tab)[i] =
         IF i = 0 THEN <<>>
         ELSE IF tab[i - 1] = Free THEN Listed(tab)[i - 1]
         ELSE Append(Listed(tab)[i - 1], tab[i - 1])
  BY <1>10, Zenon
<1> DEFINE Good == {i \in 0..cap : Listed(tab)[i] \in D}
<1>12. 0..cap \subseteq Good
  <2>1. 0 \in Good
    BY <1>2, <1>11
  <2>2. ASSUME NEW i \in 1..cap, i - 1 \in Good
        PROVE  i \in Good
    <3>1. Listed(tab)[i - 1] \in D /\ i \in 0..cap /\ i # 0
      BY <2>2
    <3>2. Listed(tab)[i] = One(i, Listed(tab)[i - 1])
      BY <1>11, <3>1 DEF One
    <3> QED
      BY <1>3, <3>1, <3>2
  <2> HIDE DEF Good
  <2> QED
    BY <2>1, <2>2, UpTo
<1>13. /\ Listed(tab)[0] = <<>>
       /\ \A i \in 1..cap : Listed(tab)[i] =
            IF tab[i - 1] = Free THEN Listed(tab)[i - 1]
            ELSE Append(Listed(tab)[i - 1], tab[i - 1])
  BY <1>11
<1>14. DOMAIN Listed(tab) = 0..cap
  BY <1>10
<1> QED
  BY <1>10, <1>12, <1>13, <1>14 DEF D

(* The elements of a list. *)
Elements(l) == {l[k] : k \in 1..Len(l)}

(* One element more.                                                       *)
LEMMA Appending ==
  ASSUME NEW l \in Seq(Node), NEW n \in Node
  PROVE  /\ Append(l, n) \in Seq(Node) /\ Len(Append(l, n)) = Len(l) + 1
         /\ Elements(Append(l, n)) = Elements(l) \cup {n}
<1>1. /\ Append(l, n) \in Seq(Node) /\ Len(Append(l, n)) = Len(l) + 1
      /\ \A k \in 1..Len(l) : Append(l, n)[k] = l[k]
      /\ Append(l, n)[Len(l) + 1] = n
      /\ Len(l) \in Nat
  OBVIOUS
<1>2. 1..(Len(l) + 1) = 1..Len(l) \cup {Len(l) + 1}
  BY <1>1
<1> QED
  BY <1>1, <1>2 DEF Elements

(* The list of iter: every allocated node once.                            *)
LEMMA Listing ==
  ASSUME NEW cap \in Nat \ {0}, NEW tab, IsTable(tab, cap)
  PROVE  LET list == Listed(tab)[Cardinality(DOMAIN tab)]
         IN  /\ list \in Seq(Node) /\ Len(list) = Load(tab)
             /\ Elements(list) = Contents(tab)
<1> DEFINE listed == Listed(tab)
           Nodes(i) == {tab[h] : h \in Before(tab, i)}
           Good == {i \in 0..cap :
                      /\ Len(listed[i]) = Cardinality(Before(tab, i))
                      /\ Elements(listed[i]) = Nodes(i)}
<1>1. /\ \A i \in 0..cap : listed[i] \in Seq(Node)
      /\ listed[0] = <<>>
      /\ \A i \in 1..cap :
           listed[i] = IF tab[i - 1] = Free THEN listed[i - 1]
                       ELSE Append(listed[i - 1], tab[i - 1])
  BY ListedDef
<1> HIDE DEF listed
<1>2. /\ Cardinality(DOMAIN tab) = cap
      /\ \A h \in 0..(cap - 1) : tab[h] \in Node
  BY TableType
<1>3. 0 \in Good
  <2>1. Elements(<<>>) = {}
    BY DEF Elements
  <2>2. Len(listed[0]) = 0 /\ Elements(listed[0]) = {}
    BY <1>1, <2>1
  <2>3. Cardinality(Before(tab, 0)) = 0 /\ Nodes(0) = {}
    BY FirstAndLast
  <2>4. /\ Len(listed[0]) = Cardinality(Before(tab, 0))
        /\ Elements(listed[0]) = Nodes(0)
    BY <2>2, <2>3
  <2> HIDE DEF Nodes
  <2> QED
    BY <2>4
<1>4. ASSUME NEW i \in 1..cap, i - 1 \in Good
      PROVE  i \in Good
  <2>1. /\ Len(listed[i - 1]) = Cardinality(Before(tab, i - 1))
        /\ Elements(listed[i - 1]) = Nodes(i - 1)
    BY <1>4
  <2>2. listed[i - 1] \in Seq(Node) /\ i \in 0..cap /\ tab[i - 1] \in Node
    BY <1>1, <1>2
  <2>3. SUFFICES /\ Len(listed[i]) = Cardinality(Before(tab, i))
                 /\ Elements(listed[i]) = Nodes(i)
    BY <2>2
  <2>4. CASE tab[i - 1] = Free
    <3>1. listed[i] = listed[i - 1]
      BY <1>1, <2>4
    <3>2. Before(tab, i) = Before(tab, i - 1)
      BY <2>4, OneSlotMore
    <3> QED
      BY <2>1, <3>1, <3>2
  <2>5. CASE tab[i - 1] # Free
    <3>1. /\ Before(tab, i) = Before(tab, i - 1) \cup {i - 1}
          /\ Cardinality(Before(tab, i)) = Cardinality(Before(tab, i - 1)) + 1
      BY <2>5, OneSlotMore
    <3>2. listed[i] = Append(listed[i - 1], tab[i - 1])
      BY <1>1, <2>5
    <3>3. Nodes(i) = Nodes(i - 1) \cup {tab[i - 1]}
      BY <3>1
    <3> HIDE DEF Nodes
    <3>4. /\ Len(listed[i]) = Len(listed[i - 1]) + 1
          /\ Elements(listed[i]) = Elements(listed[i - 1]) \cup {tab[i - 1]}
      BY <2>2, <3>2, Appending
    <3> QED
      BY <2>1, <3>1, <3>3, <3>4
  <2> QED
    BY <2>4, <2>5
<1>5. cap \in Good
  <2> HIDE DEF Good
  <2>1. 0..cap \subseteq Good
    BY <1>3, <1>4, UpTo
  <2> QED
    BY <2>1
<1>6. /\ Len(listed[cap]) = Cardinality(Before(tab, cap))
      /\ Elements(listed[cap]) = Nodes(cap)
      /\ listed[cap] \in Seq(Node)
  BY <1>1, <1>5
<1>7. Before(tab, cap) = Allocated(tab)
  BY FirstAndLast
<1>8. Nodes(cap) = Contents(tab) /\ Cardinality(Before(tab, cap)) = Load(tab)
  BY <1>7 DEF Load, Contents
<1> HIDE DEF Nodes
<1> QED
  BY <1>2, <1>6, <1>8 DEF listed

(* A table has no more nodes than there are ids.                           *)
LEMMA LoadBound ==
  ASSUME NEW cap \in Nat \ {0}, NEW tab, IsTable(tab, cap), Unique(tab)
  PROVE  Load(tab) \in 0..Cardinality(Ids)
<1> DEFINE f == [h \in Allocated(tab) |-> tab[h][1]]
<1>1. /\ Allocated(tab) \subseteq 0..(cap - 1) /\ Load(tab) \in Nat
      /\ \A h \in 0..(cap - 1) : tab[h] \in Node
  BY TableType
<1>2. \A h \in Allocated(tab) : tab[h][1] \in Ids
  BY <1>1, NodeType DEF Allocated
<1>3. f \in Injection(Allocated(tab), Ids)
  BY <1>2 DEF Injection, IsInjective, Unique
<1>4. Cardinality(Ids) \in Nat
  BY IdsAssumption, FS_CardinalityType
<1>5. Load(tab) <= Cardinality(Ids)
  <2> HIDE DEF f
  <2> QED
    BY <1>3, IdsAssumption, FS_Injection DEF Load
<1> QED
  BY <1>1, <1>4, <1>5

-----------------------------------------------------------------------------
(* The invariant *)

(* What try_resize leaves: a table with the same nodes, room for one more, *)
(* and not so empty that it should have halved twice.                      *)
LEMMA Resizing ==
  ASSUME Inv
  PROVE  LET cap == NewCapacity(size, capacity)
         IN  /\ ~Overfull
             /\ cap \in Capacities /\ cap \in Nat \ {0} /\ cap >= MinCapacity
             /\ IsTable(Resized, cap) /\ Unique(Resized)
             /\ Load(Resized) = size /\ Contents(Resized) = Contents(nodes)
             /\ size \in Nat /\ size < cap
             /\ cap > MinCapacity => cap <= 4 * (size - 1)
<1> DEFINE cap == NewCapacity(size, capacity)
<1>1. /\ MinCapacity \in Nat /\ MinCapacity >= 2
      /\ capacity \in Nat \ {0} /\ capacity >= MinCapacity
      /\ size \in Nat /\ size <= capacity
      /\ capacity > MinCapacity => capacity <= 4 * size
      /\ capacity \in Capacities
      /\ IsTable(nodes, capacity) /\ Unique(nodes) /\ Load(nodes) = size
  <2>1. Cardinality(Ids) \in Nat
    BY IdsAssumption, FS_CardinalityType
  <2> QED
    BY <2>1, CapacityAssumption
       DEF Inv, TypeOK, Occupancy, IterFillsItsBuffer, IsTable, Load
<1>2. /\ 2 * capacity \in Capacities
      /\ capacity > MinCapacity =>
           /\ capacity % 4 = 0 /\ capacity \div 2 \in Capacities
           /\ 2 * (capacity \div 2) = capacity
  BY <1>1, CapacityTypes
<1>3. /\ cap \in Capacities /\ size < cap
      /\ cap > MinCapacity => cap <= 4 * (size - 1)
  <2>1. CASE size >= capacity
    <3>1. cap = 2 * capacity /\ size = capacity
      BY <1>1, <2>1 DEF NewCapacity
    <3> QED
      BY <1>1, <1>2, <3>1
  <2>2. CASE capacity > MinCapacity /\ size * 4 <= capacity
    <3>1. cap = capacity \div 2
      BY <1>1, <2>2 DEF NewCapacity
    <3>2. 4 * size = capacity /\ capacity = 2 * cap
      BY <1>1, <1>2, <2>2, <3>1
    <3> HIDE DEF cap
    <3>3. cap \in Nat /\ cap = 2 * size
      BY <1>1, <3>2, <1>2, <3>1, CapacityTypes
    <3> QED
      BY <1>1, <1>2, <2>2, <3>1, <3>3
  <2>3. CASE ~(size >= capacity) /\ ~(capacity > MinCapacity
                                      /\ size * 4 <= capacity)
    <3>1. cap = capacity
      BY <2>3 DEF NewCapacity
    <3>2. ASSUME capacity > MinCapacity
          PROVE  capacity <= 4 * (size - 1)
      BY <1>1, <1>2, <2>3, <3>2
    <3> QED
      BY <1>1, <2>3, <3>1, <3>2
  <2> QED
    BY <2>1, <2>2, <2>3
<1>4. cap \in Nat \ {0} /\ cap >= MinCapacity
  <2> HIDE DEF cap
  <2> QED
    BY <1>1, <1>3, CapacityTypes
<1>5. ~Overfull
  BY <1>1, <1>3, <1>4 DEF Overfull, Load
<1>6. /\ IsTable(Resized, cap) /\ Unique(Resized)
      /\ Load(Resized) = size /\ Contents(Resized) = Contents(nodes)
  <2>1. CASE cap = capacity
    BY <1>1, <2>1 DEF Resized
  <2>2. CASE cap # capacity
    <3>1. Resized = Resize(nodes, cap)
      BY <2>2 DEF Resized
    <3>2. Load(nodes) <= cap
      BY <1>1, <1>3, <1>4
    <3> HIDE DEF cap
    <3> QED
      BY <1>1, <1>4, <3>1, <3>2, Rehashing
  <2> QED
    BY <2>1, <2>2
<1> QED
  BY <1>1, <1>3, <1>4, <1>5, <1>6

(* The table try_resize leaves has a free slot.                            *)
LEMMA RoomForOne ==
  ASSUME Inv
  PROVE  ~Full(Resized)
<1> DEFINE cap == NewCapacity(size, capacity)
<1>1. cap \in Nat \ {0} /\ IsTable(Resized, cap) /\ Load(Resized) < cap
  BY Resizing
<1> HIDE DEF cap
<1>2. PICK h \in 0..(cap - 1) : Resized[h] = Free
  BY <1>1, TableType
<1>3. h \in DOMAIN Resized /\ h \notin Allocated(Resized)
  BY <1>1, <1>2, TableType DEF Allocated
<1> QED
  BY <1>3 DEF Full

(* A table with its count and its capacity: what an operation must leave.  *)
LEMMA InvFrom ==
  ASSUME NEW cap \in Capacities, cap >= MinCapacity, NEW tab,
         IsTable(tab, cap), Unique(tab), Load(tab) <= cap,
         cap > MinCapacity => cap <= 4 * Load(tab),
         nodes' = tab, capacity' = cap, size' = Load(tab), hung' = FALSE,
         ret'[1] \in {"new", "set", "pop", "get", "contains", "iter"}
  PROVE  Inv'
<1>1. cap \in Nat \ {0}
  BY CapacityTypes, CapacityAssumption
<1>2. Load(tab) \in 0..Cardinality(Ids)
  BY <1>1, LoadBound
<1>3. TypeOK'
  BY <1>1, <1>2 DEF TypeOK, IsTable
<1>4. IterFillsItsBuffer' /\ ProbesEnd' /\ Occupancy'
  BY DEF IterFillsItsBuffer, ProbesEnd, Occupancy, Load
<1> QED
  BY <1>3, <1>4 DEF Inv

(* A new map satisfies it.                                                 *)
LEMMA InitInv == Init => Inv
<1> SUFFICES ASSUME Init
             PROVE  Inv
  OBVIOUS
<1>1. MinCapacity \in Nat \ {0} /\ MinCapacity \in Capacities
  BY CapacityAssumption DEF Capacities
<1>2. /\ IsTable(nodes, MinCapacity) /\ Unique(nodes) /\ Load(nodes) = 0
  BY <1>1, Empty DEF Init
<1>3. Cardinality(Ids) \in Nat
  BY IdsAssumption, FS_CardinalityType
<1>4. TypeOK
  <2>1. /\ capacity = MinCapacity /\ size = 0 /\ hung = FALSE
        /\ ret[1] = "new"
    BY DEF Init
  <2>2. size \in 0..Cardinality(Ids)
    BY <1>3, <2>1
  <2>3. nodes \in [0..(capacity - 1) -> Node]
    BY <1>2, <2>1 DEF IsTable
  <2>4. hung \in BOOLEAN
    BY <2>1, Zenon
  <2>5. capacity \in Nat /\ capacity >= MinCapacity
    BY <1>1, <2>1
  <2> QED
    BY <2>1, <2>2, <2>3, <2>4, <2>5, Zenon DEF TypeOK
<1>5. IterFillsItsBuffer /\ ProbesEnd /\ Occupancy
  BY <1>1, <1>2 DEF Init, IterFillsItsBuffer, ProbesEnd, Occupancy, Load
<1> QED
  BY <1>1, <1>2, <1>4, <1>5 DEF Init, Inv

(* What set makes of the map.                                              *)
LEMMA SetMap ==
  ASSUME Inv, NEW i \in Ids, NEW s \in Socks, SetAbsent(i, s)
  PROVE  LET cap == NewCapacity(size, capacity)
         IN  /\ IsTable(nodes', cap) /\ Unique(nodes')
             /\ Load(nodes') = size + 1
             /\ Contents(nodes') = Contents(nodes) \cup {<<i, s>>}
             /\ capacity' = cap /\ size' = size + 1 /\ hung' = hung
             /\ ret' = <<"set", i, TRUE>>
             /\ \A n \in Contents(nodes) : n[1] # i
<1> DEFINE cap == NewCapacity(size, capacity)
<1>1. /\ ~Overfull /\ cap \in Nat \ {0}
      /\ IsTable(Resized, cap) /\ Unique(Resized)
      /\ Load(Resized) = size /\ Contents(Resized) = Contents(nodes)
      /\ size < cap
  BY Resizing
<1>2. ~Full(Resized)
  BY RoomForOne
<1>3. /\ nodes' = Insert(Resized, <<i, s>>)
      /\ capacity' = cap /\ size' = size + 1 /\ hung' = hung
      /\ ret' = <<"set", i, TRUE>>
      /\ ~Found(nodes, i)
  BY <1>1, <1>2 DEF SetAbsent
<1>4. \A n \in Contents(nodes) : n[1] # i
  <2>1. capacity \in Nat \ {0} /\ IsTable(nodes, capacity)
    BY CapacityAssumption DEF Inv, TypeOK, IsTable
  <2>2. ~\E h \in Allocated(nodes) : nodes[h][1] = i
    BY <1>3, <2>1, Scanning
  <2> QED
    BY <2>2 DEF Contents
<1>5. \A h \in Allocated(Resized) : Resized[h][1] # <<i, s>>[1]
  BY <1>1, <1>4 DEF Contents
<1>6. <<i, s>> \in Node /\ <<i, s>> # Free
  BY AllocatedType
<1> HIDE DEF cap
<1>7. /\ IsTable(Insert(Resized, <<i, s>>), cap)
      /\ Load(Insert(Resized, <<i, s>>)) = size + 1
      /\ Unique(Insert(Resized, <<i, s>>))
      /\ Contents(Insert(Resized, <<i, s>>))
           = Contents(nodes) \cup {<<i, s>>}
  BY <1>1, <1>5, <1>6, Inserting
<1> QED
  BY <1>3, <1>4, <1>7 DEF cap

(* What pop makes of the map.                                              *)
LEMMA PopMap ==
  ASSUME Inv, NEW i \in Ids, Pop(i)
  PROVE  LET cap == NewCapacity(size, capacity)
         IN  /\ IsTable(nodes', cap) /\ Unique(nodes')
             /\ Load(nodes') = size' /\ (size' = size \/ size' = size - 1)
             /\ capacity' = cap /\ hung' = hung
             /\ \/ /\ \A n \in Contents(nodes) : n[1] # i
                   /\ Contents(nodes') = Contents(nodes)
                   /\ ret' = <<"pop", i, NULL>>
                \/ \E s \in Socks :
                     /\ <<i, s>> \in Contents(nodes)
                     /\ Contents(nodes') = {n \in Contents(nodes) : n[1] # i}
                     /\ ret' = <<"pop", i, s>>
<1> DEFINE cap == NewCapacity(size, capacity)
           g == Slot(Resized, i)
<1>1. /\ ~Overfull /\ cap \in Nat \ {0}
      /\ IsTable(Resized, cap) /\ Unique(Resized)
      /\ Load(Resized) = size /\ Contents(Resized) = Contents(nodes)
  BY Resizing
<1>2. capacity' = cap /\ hung' = hung
  BY <1>1 DEF Pop
<1> HIDE DEF cap
<1>3. CASE ~Found(Resized, i)
  <2>1. nodes' = Resized /\ ret' = <<"pop", i, NULL>> /\ size' = size
    BY <1>1, <1>3 DEF Pop
  <2>2. ~\E h \in Allocated(Resized) : Resized[h][1] = i
    BY <1>1, <1>3, Scanning
  <2>3. \A n \in Contents(nodes) : n[1] # i
    BY <1>1, <2>2 DEF Contents
  <2> QED
    BY <1>1, <1>2, <2>1, <2>3 DEF cap
<1>4. CASE Found(Resized, i)
  <2>1. /\ nodes' = [Resized EXCEPT ![g] = Free]
        /\ ret' = <<"pop", i, Resized[g][2]>> /\ size' = size - 1
    BY <1>1, <1>4 DEF Pop
  <2>2. g \in Allocated(Resized) /\ Resized[g][1] = i
    BY <1>1, <1>4, Scanning
  <2> HIDE DEF g
  <2>3. /\ IsTable(nodes', cap) /\ Unique(nodes')
        /\ Load(nodes') = size - 1
        /\ Contents(nodes') = {n \in Contents(nodes) : n[1] # i}
    <3>1. nodes' = Emptied(Resized, g)
      BY <2>1 DEF Emptied
    <3> QED
      BY <1>1, <2>2, <3>1, Removing
  <2>4. Resized[g] \in Node /\ Resized[g] # Free
    BY <1>1, <2>2, TableType DEF Allocated
  <2>5. Resized[g] = <<i, Resized[g][2]>> /\ Resized[g][2] \in Socks
    BY <2>2, <2>4, NodeType
  <2>6. Resized[g] \in Contents(nodes)
    BY <1>1, <2>2 DEF Contents
  <2> QED
    BY <1>2, <2>1, <2>3, <2>5, <2>6 DEF cap
<1> QED
  BY <1>3, <1>4

(* set keeps it.                                                           *)
LEMMA SetInv ==
  ASSUME Inv, NEW i \in Ids, NEW s \in Socks, SetAbsent(i, s)
  PROVE  Inv'
<1> DEFINE cap == NewCapacity(size, capacity)
<1>1. /\ cap \in Capacities /\ cap \in Nat /\ cap >= MinCapacity
      /\ size \in Nat /\ size < cap
      /\ cap > MinCapacity => cap <= 4 * (size - 1)
  BY Resizing
<1>2. /\ IsTable(nodes', cap) /\ Unique(nodes') /\ Load(nodes') = size + 1
      /\ capacity' = cap /\ size' = size + 1 /\ hung' = hung
      /\ ret' = <<"set", i, TRUE>>
  BY SetMap
<1>3. hung' = FALSE /\ ret'[1] = "set"
  BY <1>2 DEF Inv, ProbesEnd, TypeOK
<1> HIDE DEF cap
<1>4. Load(nodes') <= cap /\ (cap > MinCapacity => cap <= 4 * Load(nodes'))
  BY <1>1, <1>2
<1> QED
  BY <1>1, <1>2, <1>3, <1>4, InvFrom

(* pop keeps it.                                                           *)
LEMMA PopInv ==
  ASSUME Inv, NEW i \in Ids, Pop(i)
  PROVE  Inv'
<1> DEFINE cap == NewCapacity(size, capacity)
<1>1. /\ cap \in Capacities /\ cap \in Nat /\ cap >= MinCapacity
      /\ size \in Nat /\ size < cap
      /\ cap > MinCapacity => cap <= 4 * (size - 1)
  BY Resizing
<1>2. /\ IsTable(nodes', cap) /\ Unique(nodes') /\ Load(nodes') = size'
      /\ size' = size \/ size' = size - 1
      /\ capacity' = cap /\ hung' = hung
      /\ ret'[1] = "pop"
  <2>1. ret'[1] = "pop"
    <3>1. \E x : ret' = <<"pop", i, x>>
      BY PopMap, Zenon
    <3> QED
      BY <3>1
  <2> QED
    BY <2>1, PopMap
<1>3. hung' = FALSE
  BY <1>2 DEF Inv, ProbesEnd, TypeOK
<1> HIDE DEF cap
<1>4. Load(nodes') <= cap /\ (cap > MinCapacity => cap <= 4 * Load(nodes'))
  BY <1>1, <1>2
<1> QED
  BY <1>1, <1>2, <1>3, <1>4, InvFrom

(* Every call keeps it.                                                    *)
LEMMA StepInv == Inv /\ [Next]_vars => Inv'
<1> SUFFICES ASSUME Inv, [Next]_vars
             PROVE  Inv'
  OBVIOUS
<1>1. ASSUME UNCHANGED <<size, capacity, nodes, hung>>,
             ret'[1] \in {"new", "set", "pop", "get", "contains", "iter"}
      PROVE  Inv'
  BY <1>1 DEF Inv, TypeOK, IterFillsItsBuffer, ProbesEnd, Occupancy,
              Unique, Allocated
<1>2. ASSUME NEW i \in Ids, NEW s \in Socks, SetAbsent(i, s)
      PROVE  Inv'
  BY <1>2, SetInv
<1>3. ASSUME NEW i \in Ids, SetPresent(i)
      PROVE  Inv'
  BY <1>1, <1>3 DEF SetPresent
<1>4. ASSUME NEW i \in Ids, Pop(i)
      PROVE  Inv'
  BY <1>4, PopInv
<1>5. ASSUME NEW i \in Ids, Get(i)
      PROVE  Inv'
  BY <1>1, <1>5 DEF Get
<1>6. ASSUME NEW i \in Ids, Contains(i)
      PROVE  Inv'
  BY <1>1, <1>6 DEF Contains
<1>7. CASE Iter
  BY <1>1, <1>7 DEF Iter
<1>8. CASE UNCHANGED vars
  BY <1>1, <1>8 DEF vars, Inv, TypeOK
<1> QED
  BY <1>2, <1>3, <1>4, <1>5, <1>6, <1>7, <1>8 DEF Next

(* The invariant holds.                                                    *)
THEOREM Invariance == Spec => []Inv
<1> QED
  BY InitInv, StepInv, PTL DEF Spec

(* Every slot holds a node and the table is as long as the capacity says   *)
(* (map.c 36-46).                                                          *)
THEOREM TypeCorrect == Spec => []TypeOK
<1>1. Inv => TypeOK
  BY DEF Inv
<1> QED
  BY <1>1, Invariance, PTL

(* map->size is the number of allocated nodes, so that iter fills what it  *)
(* allocates and no more (map.c 220-239).                                  *)
THEOREM CountIsLoad == Spec => []IterFillsItsBuffer
<1>1. Inv => IterFillsItsBuffer
  BY DEF Inv
<1> QED
  BY <1>1, Invariance, PTL

(* No probing loop of a rehash or an insertion runs for ever (map.c 83,    *)
(* 177).                                                                   *)
THEOREM ProbingEnds == Spec => []ProbesEnd
<1>1. Inv => ProbesEnd
  BY DEF Inv
<1> QED
  BY <1>1, Invariance, PTL

(* A table above the least capacity is at least a quarter full (map.c      *)
(* 122-133).                                                               *)
THEOREM QuarterFull == Spec => []Occupancy
<1>1. Inv => Occupancy
  BY DEF Inv
<1> QED
  BY <1>1, Invariance, PTL

-----------------------------------------------------------------------------
(* The dictionary *)

(* What a table says is what is in it, wherever it is.                     *)
LEMMA EntriesOf ==
  ASSUME NEW cap \in Nat \ {0}, NEW tab, IsTable(tab, cap), Unique(tab)
  PROVE  /\ Contents(tab)
              = {<<i, Entries(tab)[i]>> : i \in DOMAIN Entries(tab)}
         /\ Entries(tab) = [i \in DOMAIN Entries(tab) |-> Entries(tab)[i]]
         /\ Cardinality(DOMAIN Entries(tab)) = Load(tab)
<1> DEFINE key == [h \in Allocated(tab) |-> tab[h][1]]
           ids == {tab[h][1] : h \in Allocated(tab)}
<1>1. /\ IsFiniteSet(Allocated(tab))
      /\ \A h \in Allocated(tab) : tab[h] = <<tab[h][1], tab[h][2]>>
  <2>1. Allocated(tab) \subseteq 0..(cap - 1) /\ IsFiniteSet(Allocated(tab))
        /\ \A h \in 0..(cap - 1) : tab[h] \in Node
    BY TableType
  <2> QED
    BY <2>1, NodeType DEF Allocated
<1>2. /\ DOMAIN Entries(tab) = ids
      /\ Entries(tab) = [i \in DOMAIN Entries(tab) |-> Entries(tab)[i]]
  BY DEF Entries
<1>3. ASSUME NEW h \in Allocated(tab)
      PROVE  Entries(tab)[tab[h][1]] = tab[h][2]
  <2> DEFINE g == CHOOSE g \in Allocated(tab) : tab[g][1] = tab[h][1]
  <2>1. g \in Allocated(tab) /\ tab[g][1] = tab[h][1]
    OBVIOUS
  <2>2. g = h
    BY <2>1 DEF Unique
  <2>3. Entries(tab)[tab[h][1]] = tab[g][2]
    BY DEF Entries
  <2> QED
    BY <2>2, <2>3
<1>4. Contents(tab) = {<<i, Entries(tab)[i]>> : i \in ids}
  BY <1>1, <1>3 DEF Contents
<1>5. Cardinality(ids) = Load(tab)
  <2>1. key \in Bijection(Allocated(tab), ids)
    BY DEF Unique, Bijection, Injection, IsInjective, Surjection
  <2> HIDE DEF key, ids
  <2>2. ExistsBijection(Allocated(tab), ids)
    BY <2>1 DEF ExistsBijection
  <2> QED
    BY <1>1, <2>2, FS_Bijection DEF Load
<1> QED
  BY <1>2, <1>4, <1>5

(* Two functions with the same entries are one.                            *)
LEMMA SameEntries ==
  ASSUME NEW f, f = [i \in DOMAIN f |-> f[i]],
         NEW g, g = [i \in DOMAIN g |-> g[i]],
         {<<i, f[i]>> : i \in DOMAIN f} = {<<i, g[i]>> : i \in DOMAIN g}
  PROVE  f = g
<1>1. ASSUME NEW i \in DOMAIN f
      PROVE  i \in DOMAIN g /\ g[i] = f[i]
  <2>1. <<i, f[i]>> \in {<<j, g[j]>> : j \in DOMAIN g}
    OBVIOUS
  <2>2. PICK j \in DOMAIN g : <<i, f[i]>> = <<j, g[j]>>
    BY <2>1
  <2> QED
    BY <2>2
<1>2. ASSUME NEW i \in DOMAIN g
      PROVE  i \in DOMAIN f
  <2>1. <<i, g[i]>> \in {<<j, f[j]>> : j \in DOMAIN f}
    OBVIOUS
  <2>2. PICK j \in DOMAIN f : <<i, g[i]>> = <<j, f[j]>>
    BY <2>1
  <2> QED
    BY <2>2
<1>3. DOMAIN f = DOMAIN g
  BY <1>1, <1>2
<1> QED
  BY <1>1, <1>3

(* Where the table does not matter: maps with the same nodes are one       *)
(* dictionary, which is read by the scan.                                  *)
LEMMA InvEntries ==
  ASSUME Inv
  PROVE  /\ Contents(nodes)
              = {<<i, Entries(nodes)[i]>> : i \in DOMAIN Entries(nodes)}
         /\ Entries(nodes)
              = [i \in DOMAIN Entries(nodes) |-> Entries(nodes)[i]]
         /\ Cardinality(DOMAIN Entries(nodes)) = Load(nodes)
         /\ \A n \in Contents(nodes) : n \in Node /\ n # Free
<1>1. capacity \in Nat \ {0} /\ IsTable(nodes, capacity) /\ Unique(nodes)
  BY CapacityAssumption DEF Inv, TypeOK, IsTable
<1>2. \A n \in Contents(nodes) : n \in Node /\ n # Free
  <2>1. /\ Allocated(nodes) \subseteq 0..(capacity - 1)
        /\ \A h \in 0..(capacity - 1) : nodes[h] \in Node
    BY <1>1, TableType
  <2> QED
    BY <2>1 DEF Contents, Allocated
<1> QED
  BY <1>1, <1>2, EntriesOf

(* The scan of a table finds what the dictionary says.                     *)
LEMMA Reading ==
  ASSUME Inv, NEW i \in Ids
  PROVE  /\ Found(nodes, i) <=> i \in DOMAIN Entries(nodes)
         /\ Found(nodes, i) =>
              /\ nodes[Slot(nodes, i)][2] = Entries(nodes)[i]
              /\ Entries(nodes)[i] \in Socks
<1> DEFINE dict == Entries(nodes)
           g == Slot(nodes, i)
<1>1. capacity \in Nat \ {0} /\ IsTable(nodes, capacity)
  BY CapacityAssumption DEF Inv, TypeOK, IsTable
<1>2. /\ Found(nodes, i) <=> \E h \in Allocated(nodes) : nodes[h][1] = i
      /\ Found(nodes, i) => g \in Allocated(nodes) /\ nodes[g][1] = i
  BY <1>1, Scanning
<1>3. /\ Contents(nodes) = {<<j, dict[j]>> : j \in DOMAIN dict}
      /\ \A n \in Contents(nodes) : n \in Node /\ n # Free
  BY InvEntries
<1> HIDE DEF dict, g
<1>4. ASSUME NEW h \in Allocated(nodes)
      PROVE  /\ nodes[h][1] \in DOMAIN dict
             /\ nodes[h][2] = dict[nodes[h][1]] /\ nodes[h][2] \in Socks
  <2>1. nodes[h] \in Contents(nodes)
    BY DEF Contents
  <2>2. PICK j \in DOMAIN dict : nodes[h] = <<j, dict[j]>>
    BY <1>3, <2>1
  <2>3. nodes[h][2] \in Socks
    BY <1>3, <2>1, NodeType
  <2> QED
    BY <2>2, <2>3
<1>5. ASSUME i \in DOMAIN dict
      PROVE  \E h \in Allocated(nodes) : nodes[h][1] = i
  <2>1. <<i, dict[i]>> \in Contents(nodes)
    BY <1>3, <1>5
  <2>2. PICK h \in Allocated(nodes) : <<i, dict[i]>> = nodes[h]
    BY <2>1 DEF Contents
  <2> QED
    BY <2>2
<1> QED
  BY <1>2, <1>4, <1>5 DEF dict, g

(* A new map is an empty dictionary.                                       *)
LEMMA DictInit == Init => Dict!Init
<1> SUFFICES ASSUME Init
             PROVE  Dict!Init
  OBVIOUS
<1>1. Allocated(nodes) = {}
  BY DEF Init, Allocated, EmptyTable
<1>2. Entries(nodes) = [i \in {} |-> NULL]
  BY <1>1 DEF Entries
<1> QED
  BY <1>2 DEF Init, Dict!Init

(* set of an absent id adds an entry.                                      *)
LEMMA SetDict ==
  ASSUME Inv, NEW i \in Ids, NEW s \in Socks, SetAbsent(i, s)
  PROVE  Dict!Set(i, s)
<1> DEFINE dict == Entries(nodes)
           next == Entries(nodes')
           new == [j \in DOMAIN dict \cup {i} |-> IF j = i THEN s ELSE dict[j]]
<1>1. /\ Contents(nodes') = Contents(nodes) \cup {<<i, s>>}
      /\ ret' = <<"set", i, TRUE>>
      /\ \A n \in Contents(nodes) : n[1] # i
  BY SetMap
<1>2. Contents(nodes) = {<<j, dict[j]>> : j \in DOMAIN dict}
  BY InvEntries
<1>3. /\ Contents(nodes') = {<<j, next[j]>> : j \in DOMAIN next}
      /\ next = [j \in DOMAIN next |-> next[j]]
  BY Resizing, SetMap, EntriesOf
<1> HIDE DEF dict, next
<1>4. i \notin DOMAIN dict
  <2>1. ASSUME i \in DOMAIN dict
        PROVE  FALSE
    <3>1. <<i, dict[i]>> \in Contents(nodes)
      BY <1>2, <2>1
    <3>2. <<i, dict[i]>>[1] # i
      BY <1>1, <3>1
    <3> QED
      BY <3>2
  <2> QED
    BY <2>1
<1>5. {<<j, new[j]>> : j \in DOMAIN new} = Contents(nodes) \cup {<<i, s>>}
  <2>1. /\ DOMAIN new = DOMAIN dict \cup {i} /\ new[i] = s
        /\ \A j \in DOMAIN dict : new[j] = dict[j]
    BY <1>4
  <2> HIDE DEF new
  <2> QED
    BY <1>2, <2>1
<1>6. new = [j \in DOMAIN new |-> new[j]]
  OBVIOUS
<1>7. next = new
  <2> HIDE DEF new
  <2> QED
    BY <1>1, <1>3, <1>5, <1>6, SameEntries
<1> QED
  BY <1>1, <1>4, <1>7 DEF Dict!Set, dict, next

(* pop takes one out, if it is there.                                      *)
LEMMA PopDict ==
  ASSUME Inv, NEW i \in Ids, Pop(i)
  PROVE  Dict!Pop(i)
<1> DEFINE dict == Entries(nodes)
           next == Entries(nodes')
           new == [j \in DOMAIN dict \ {i} |-> dict[j]]
<1>1. /\ Contents(nodes) = {<<j, dict[j]>> : j \in DOMAIN dict}
      /\ dict = [j \in DOMAIN dict |-> dict[j]]
  BY InvEntries
<1>2. /\ Contents(nodes') = {<<j, next[j]>> : j \in DOMAIN next}
      /\ next = [j \in DOMAIN next |-> next[j]]
  BY Resizing, PopMap, EntriesOf
<1> HIDE DEF dict, next
<1>3. ASSUME \A n \in Contents(nodes) : n[1] # i,
             Contents(nodes') = Contents(nodes), ret' = <<"pop", i, NULL>>
      PROVE  Dict!Pop(i)
  <2>1. ASSUME i \in DOMAIN dict
        PROVE  FALSE
    <3>1. <<i, dict[i]>> \in Contents(nodes)
      BY <1>1, <2>1
    <3>2. <<i, dict[i]>>[1] # i
      BY <1>3, <3>1
    <3> QED
      BY <3>2
  <2>2. next = dict
    BY <1>1, <1>2, <1>3, SameEntries
  <2> QED
    BY <1>3, <2>1, <2>2 DEF Dict!Pop, dict, next
<1>4. ASSUME NEW s \in Socks, <<i, s>> \in Contents(nodes),
             Contents(nodes') = {n \in Contents(nodes) : n[1] # i},
             ret' = <<"pop", i, s>>
      PROVE  Dict!Pop(i)
  <2>1. i \in DOMAIN dict /\ dict[i] = s
    <3>1. PICK j \in DOMAIN dict : <<i, s>> = <<j, dict[j]>>
      BY <1>1, <1>4
    <3> QED
      BY <3>1
  <2>2. {<<j, new[j]>> : j \in DOMAIN new}
          = {n \in Contents(nodes) : n[1] # i}
    <3>1. /\ DOMAIN new = DOMAIN dict \ {i}
          /\ \A j \in DOMAIN dict \ {i} : new[j] = dict[j]
      OBVIOUS
    <3> HIDE DEF new
    <3>2. {<<j, new[j]>> : j \in DOMAIN new}
            = {<<j, dict[j]>> : j \in DOMAIN dict \ {i}}
      BY <3>1
    <3>3. \A j \in DOMAIN dict : <<j, dict[j]>>[1] = j
      OBVIOUS
    <3> QED
      BY <1>1, <3>2, <3>3
  <2>3. new = [j \in DOMAIN new |-> new[j]]
    OBVIOUS
  <2>4. next = new
    <3> HIDE DEF new
    <3> QED
      BY <1>2, <1>4, <2>2, <2>3, SameEntries
  <2> QED
    BY <1>4, <2>1, <2>4 DEF Dict!Pop, dict, next
<1> QED
  BY <1>3, <1>4, PopMap

(* iter lists every entry once.                                            *)
LEMMA IterDict ==
  ASSUME Inv, Iter
  PROVE  Dict!Iter
<1> DEFINE dict == Entries(nodes)
           list == Listed(nodes)[Cardinality(DOMAIN nodes)]
<1>1. /\ list \in Seq(Node) /\ Len(list) = Load(nodes)
      /\ Elements(list) = Contents(nodes)
  <2>1. capacity \in Nat \ {0} /\ IsTable(nodes, capacity)
    BY CapacityAssumption DEF Inv, TypeOK, IsTable
  <2> QED
    BY <2>1, Listing
<1>2. /\ Contents(nodes) = {<<i, dict[i]>> : i \in DOMAIN dict}
      /\ Cardinality(DOMAIN dict) = Load(nodes)
  BY InvEntries
<1>3. ret' = <<"iter", 0, list>> /\ nodes' = nodes
  BY DEF Iter
<1> HIDE DEF dict, list
<1>4. Dict!Range(list) = Elements(list)
  <2>1. DOMAIN list = 1..Len(list)
    BY <1>1
  <2> QED
    BY <2>1 DEF Dict!Range, Elements
<1>5. ret'[1] = "iter" /\ ret'[3] = list
  BY <1>3
<1>6. Dict!Range(ret'[3]) = {<<i, dict[i]>> : i \in DOMAIN dict}
  BY <1>1, <1>2, <1>4, <1>5
<1>7. Len(ret'[3]) = Cardinality(DOMAIN dict)
  BY <1>1, <1>2, <1>5
<1>8. UNCHANGED Entries(nodes)
  BY <1>3
<1>9. Dict!Cardinality(DOMAIN dict) = Cardinality(DOMAIN dict)
  BY Zenon DEF Dict!Cardinality, Cardinality
<1> QED
  BY <1>5, <1>6, <1>7, <1>8, <1>9 DEF Dict!Iter, dict

(* The map implements the dictionary: whatever collisions, removals and    *)
(* rehashes came before, every call returns what a partial function from   *)
(* ids to sockets would (map.h 28-71).                                     *)
THEOREM Refinement == Spec => ImplementsDict
<1>1. ASSUME Inv, [Next]_vars
      PROVE  [Dict!Next]_(Dict!vars)
  <2>1. ASSUME NEW i \in Ids, NEW s \in Socks, SetAbsent(i, s)
        PROVE  Dict!Next
    BY <1>1, <2>1, SetDict DEF Dict!Next
  <2>2. ASSUME NEW i \in Ids, SetPresent(i)
        PROVE  Dict!Next
    <3>1. i \in DOMAIN Entries(nodes) /\ Entries(nodes)[i] \in Socks
      BY <1>1, <2>2, Reading DEF SetPresent
    <3>2. Dict!Set(i, Entries(nodes)[i])
      BY <2>2, <3>1 DEF SetPresent, Dict!Set
    <3> QED
      BY <3>1, <3>2 DEF Dict!Next
  <2>3. ASSUME NEW i \in Ids, Pop(i)
        PROVE  Dict!Next
    BY <1>1, <2>3, PopDict DEF Dict!Next
  <2>4. ASSUME NEW i \in Ids, Get(i)
        PROVE  Dict!Next
    <3>1. Dict!Get(i)
      BY <1>1, <2>4, Reading DEF Get, Dict!Get
    <3> QED
      BY <3>1 DEF Dict!Next
  <2>5. ASSUME NEW i \in Ids, Contains(i)
        PROVE  Dict!Next
    <3>1. Found(nodes, i) = (i \in DOMAIN Entries(nodes))
      BY <1>1, Reading DEF Found
    <3>2. Dict!Contains(i)
      BY <2>5, <3>1 DEF Contains, Dict!Contains
    <3> QED
      BY <3>2 DEF Dict!Next
  <2>6. ASSUME Iter
        PROVE  Dict!Next
    BY <1>1, <2>6, IterDict DEF Dict!Next
  <2>7. ASSUME UNCHANGED vars
        PROVE  UNCHANGED Dict!vars
    BY <2>7 DEF vars, Dict!vars
  <2> QED
    BY <1>1, <2>1, <2>2, <2>3, <2>4, <2>5, <2>6, <2>7 DEF Next
<1> QED
  BY <1>1, Invariance, DictInit, PTL DEF Spec, ImplementsDict, Dict!Spec
=============================================================================
