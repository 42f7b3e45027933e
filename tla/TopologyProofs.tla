--------------------------- MODULE TopologyProofs ---------------------------
(***************************************************************************)
(* Proofs about the topology, for every inventory.  First the editor       *)
(* (TopologyTree), for every number of entities, groups and snapshots:     *)
(* types and foreign keys, what a sync leaves alone, what undo brings      *)
(* back, and that no circle is closed by hand.  Then what the catalogue is *)
(* drawn from (CableTrace and TopologyCatalog), for every panel wiring and *)
(* hop limit: a trace finds the end of its strand, and only a cable to     *)
(* something that was never drawn stops the drawing.                       *)
(***************************************************************************)
EXTENDS TopologyTree, TopologyCatalog, SequenceTheorems, FiniteSetTheorems,
        WellFoundedInduction, TLAPS

-----------------------------------------------------------------------------
(***************************************************************************)
(* Chains and trees of parents in general.                                 *)
(***************************************************************************)
Parents == [Node -> Node \cup {None}]

Tree(f) == \A n \in Node : n \notin Chain(f, n)

(* A chain is closed: what is above it is in it.                           *)
LEMMA ChainClosed ==
  ASSUME NEW f \in Parents, NEW x \in Node
  PROVE  /\ Chain(f, x) \subseteq Node
         /\ \A n \in Chain(f, x) \cup {x} : f[n] \in Chain(f, x) \cup {None}
<1> SUFFICES ASSUME NEW n \in Chain(f, x) \cup {x}, f[n] # None
             PROVE  f[n] \in Chain(f, x)
  BY DEF Chain
<1>1. n \in Node /\ f[n] \in Node
  BY DEF Chain, Parents
<1>2. ASSUME NEW s \in SUBSET Node, \A m \in s \cup {x} : f[m] \in s \cup {None}
      PROVE  f[n] \in s
  BY <1>2 DEF Chain
<1> QED
  BY <1>1, <1>2 DEF Chain

(* It is the smallest such set.                                            *)
LEMMA ChainSmallest ==
  ASSUME NEW f, NEW x, NEW s \in SUBSET Node,
         \A n \in s \cup {x} : f[n] \in s \cup {None}
  PROVE  Chain(f, x) \subseteq s
BY DEF Chain

LEMMA RootChain ==
  ASSUME NEW f, NEW x, f[x] = None
  PROVE  Chain(f, x) = {}
<1>1. {} \in SUBSET Node /\ \A n \in {} \cup {x} : f[n] \in {} \cup {None}
  OBVIOUS
<1> QED
  BY <1>1, ChainSmallest

(* Who lets go of a parent closes no circle.                               *)
LEMMA LooserChain ==
  ASSUME NEW f \in Parents, NEW g, \A n \in Node : g[n] \in {f[n], None}, NEW x \in Node
  PROVE  Chain(g, x) \subseteq Chain(f, x)
BY ChainClosed, ChainSmallest

(* Nor does who hangs nodes under one that has none of them above it.      *)
Hung(f, M, p) == [n \in Node |-> IF n \in M THEN p ELSE f[n]]

LEMMA HungTree ==
  ASSUME NEW f \in Parents, Tree(f), NEW M \in SUBSET Node, NEW p \in Node \ M,
         \A m \in M : m \notin Chain(f, p)
  PROVE  Tree(Hung(f, M, p))
<1> DEFINE g == Hung(f, M, p)
<1>0. \A n \in Node : g[n] = IF n \in M THEN p ELSE f[n]
  BY DEF Hung
<1> HIDE DEF g
<1> DEFINE C == Chain(f, p) \cup {p}
<1>1. C \in SUBSET Node /\ C \cap M = {} /\ p \in C
  BY ChainClosed
<1>2. \A n \in C : f[n] \in C \cup {None}
  BY ChainClosed
<1> HIDE DEF C
<1>3. \A n \in C : g[n] \in C \cup {None}
  BY <1>0, <1>1, <1>2
<1> SUFFICES ASSUME NEW n \in Node PROVE n \notin Chain(g, n)
  BY DEF Tree, g
<1>4. /\ Chain(f, n) \in SUBSET Node /\ n \notin Chain(f, n)
      /\ \A m \in Chain(f, n) \cup {n} : f[m] \in Chain(f, n) \cup {None}
  BY ChainClosed DEF Tree
<1>5. CASE n \in M
  <2>1. \A m \in C \cup {n} : g[m] \in C \cup {None}
    BY <1>0, <1>1, <1>3, <1>5
  <2> QED BY <1>1, <1>5, <2>1, ChainSmallest
<1>6. CASE n \in C
  <2>1. Chain(f, n) \subseteq C
    BY <1>1, <1>2, <1>6, ChainSmallest
  <2>2. \A m \in Chain(f, n) \cup {n} : g[m] \in Chain(f, n) \cup {None}
    BY <1>0, <1>1, <1>4, <1>6, <2>1
  <2> QED BY <1>4, <2>2, ChainSmallest
<1>7. CASE n \notin M /\ n \notin C
  <2> DEFINE s == Chain(f, n) \cup C
  <2>1. s \in SUBSET Node /\ n \notin s
    BY <1>1, <1>4, <1>7
  <2>2. \A m \in s \cup {n} : g[m] \in s \cup {None}
    BY <1>0, <1>1, <1>3, <1>4, <1>7
  <2> HIDE DEF s
  <2> QED BY <2>1, <2>2, ChainSmallest
<1> QED
  BY <1>5, <1>6, <1>7

(* Nor does who puts part of the nodes back under parents of that part.    *)
Mixed(f, h, K) == [n \in Node |-> IF n \in K THEN h[n] ELSE f[n]]

LEMMA MixedTree ==
  ASSUME NEW f \in Parents, Tree(f), NEW h \in Parents, Tree(h), NEW K \in SUBSET Node,
         \A n \in K : h[n] \in K \cup {None}
  PROVE  Tree(Mixed(f, h, K))
<1> DEFINE g == Mixed(f, h, K)
<1>0. \A n \in Node : g[n] = IF n \in K THEN h[n] ELSE f[n]
  BY DEF Mixed
<1> HIDE DEF g
<1> SUFFICES ASSUME NEW n \in Node PROVE n \notin Chain(g, n)
  BY DEF Tree, g
<1>1. CASE n \in K
  <2> DEFINE s == Chain(h, n) \cap K
  <2>1. /\ Chain(h, n) \in SUBSET Node /\ n \notin Chain(h, n)
        /\ \A m \in Chain(h, n) \cup {n} : h[m] \in Chain(h, n) \cup {None}
    BY ChainClosed DEF Tree
  <2>2. \A m \in s \cup {n} : g[m] \in s \cup {None}
    BY <1>0, <1>1, <2>1
  <2>3. s \in SUBSET Node /\ n \notin s
    BY <2>1
  <2> HIDE DEF s
  <2> QED BY <2>2, <2>3, ChainSmallest
<1>2. CASE n \notin K
  <2> DEFINE s == Chain(f, n) \cup K
  <2>1. /\ Chain(f, n) \in SUBSET Node /\ n \notin Chain(f, n)
        /\ \A m \in Chain(f, n) \cup {n} : f[m] \in Chain(f, n) \cup {None}
    BY ChainClosed DEF Tree
  <2>2. \A m \in s \cup {n} : g[m] \in s \cup {None}
    BY <1>0, <1>2, <2>1
  <2>3. s \in SUBSET Node /\ n \notin s
    BY <1>2, <2>1
  <2> HIDE DEF s
  <2> QED BY <2>2, <2>3, ChainSmallest
<1> QED
  BY <1>1, <1>2

-----------------------------------------------------------------------------
(***************************************************************************)
(* Types and foreign keys.  What is not there has no parent and was never  *)
(* moved by hand, so that a node that comes back comes back loose.         *)
(***************************************************************************)
Tidy(t) ==
  /\ t \in Topology
  /\ Sound(t)
  /\ t.manual \subseteq t.nodes
  /\ \A n \in Node \ t.nodes : t.parent[n] = None

(* A topology by its fields.                                               *)
LEMMA TopologyFields ==
  ASSUME NEW t
  PROVE  t \in Topology <=>
           /\ t = [nodes |-> t.nodes, parent |-> t.parent, manual |-> t.manual,
                   relations |-> t.relations]
           /\ t.nodes \in SUBSET Node /\ t.parent \in Parents
           /\ t.manual \in SUBSET Node /\ t.relations \in SUBSET (Node \X Node)
BY DEF Topology, Parents

LEMMA WithoutFields ==
  ASSUME NEW t \in Topology, NEW gone
  PROVE  LET new == WithoutNodes(t, gone)
         IN  /\ new \in Topology
             /\ new.nodes = t.nodes \ gone
             /\ \A n \in Node : new.parent[n] =
                  IF n \in gone \/ t.parent[n] \in gone THEN None ELSE t.parent[n]
             /\ new.manual = t.manual \ gone
             /\ new.relations = {r \in t.relations : r[1] \notin gone /\ r[2] \notin gone}
BY DEF Topology, WithoutNodes

LEMMA RestoredFields ==
  ASSUME NEW old \in Topology, NEW snapshot \in Topology,
         topology \in Topology, old = WithoutNodes(topology, Groups)
  PROVE  LET known == snapshot.nodes \cap (old.nodes \cup Groups)
             new == Restored(snapshot)
         IN  /\ new \in Topology
             /\ new.nodes = old.nodes \cup (snapshot.nodes \cap Groups)
             /\ \A n \in Node : new.parent[n] =
                  IF n \in known THEN snapshot.parent[n] ELSE old.parent[n]
             /\ new.manual = (old.manual \ known) \cup (snapshot.manual \cap known)
             /\ new.relations = snapshot.relations
BY DEF Topology, Restored, Node

LEMMA SyncedFields ==
  ASSUME topology \in Topology, NEW t, t = WithoutNodes(topology, monitors),
         entities \subseteq Entities, parentId \in [Entities -> Entities \cup {None}]
  PROVE  LET drawn == entities \ monitors
             shown == t.nodes \cup drawn
         IN  /\ Synced \in Topology
             /\ Synced.nodes = shown
             /\ \A n \in Node : Synced.parent[n] =
                  IF n \in drawn \ t.manual
                    THEN IF parentId[n] \in shown THEN parentId[n] ELSE None
                    ELSE t.parent[n]
             /\ Synced.manual = t.manual
             /\ Synced.relations = t.relations
<1> DEFINE drawn == entities \ monitors
           shown == t.nodes \cup drawn
           parent == [n \in Node |->
              IF n \in drawn \ t.manual
                THEN IF parentId[n] \in shown THEN parentId[n] ELSE None
                ELSE t.parent[n]]
<1>1. t \in Topology
  BY WithoutFields
<1>2. shown \in SUBSET Node /\ t.parent \in Parents
  BY <1>1, TopologyFields DEF Node
<1>3. Entities \subseteq Node
  BY DEF Node
<1>4. parent \in [Node -> Node \cup {None}]
  BY <1>2, <1>3 DEF Parents
<1>5. Synced = [t EXCEPT !.nodes = shown, !.parent = parent]
  <2>1. t.parent = [n \in Node |-> t.parent[n]]
    BY <1>2 DEF Parents
  <2> QED BY <1>1 DEF Synced, Topology
<1>6. \A n \in Node : parent[n] =
        IF n \in drawn \ t.manual
          THEN IF parentId[n] \in shown THEN parentId[n] ELSE None
          ELSE t.parent[n]
  OBVIOUS
<1> HIDE DEF parent, shown
<1>7. /\ Synced \in Topology /\ Synced.nodes = shown /\ Synced.parent = parent
      /\ Synced.manual = t.manual /\ Synced.relations = t.relations
  BY <1>1, <1>2, <1>4, <1>5 DEF Topology
<1> QED
  BY <1>6, <1>7 DEF shown

LEMMA TidyWithout ==
  ASSUME NEW t, Tidy(t), NEW gone
  PROVE  Tidy(WithoutNodes(t, gone))
<1>1. t \in Topology
  BY DEF Tidy
<1> DEFINE new == WithoutNodes(t, gone)
<1>2. /\ new \in Topology /\ new.nodes = t.nodes \ gone
      /\ \A n \in Node : new.parent[n] =
           IF n \in gone \/ t.parent[n] \in gone THEN None ELSE t.parent[n]
      /\ new.manual = t.manual \ gone
      /\ new.relations = {r \in t.relations : r[1] \notin gone /\ r[2] \notin gone}
  BY <1>1, WithoutFields
<1> HIDE DEF new
<1>3. t.nodes \subseteq Node
  BY <1>1, TopologyFields
<1>4. Tidy(new)
  BY <1>2, <1>3 DEF Tidy, Sound
<1> QED
  BY <1>4 DEF new

LEMMA TidyHung ==
  ASSUME NEW t, Tidy(t), NEW changed \in SUBSET t.nodes, NEW up \in t.nodes \cup {None}
  PROVE  Tidy(WithParent(t, changed, up))
<1>1. t \in Topology /\ t.nodes \subseteq Node
  BY TopologyFields DEF Tidy
<1>0. changed \in SUBSET Node /\ up \in Node \cup {None}
  BY <1>1
<1> DEFINE new == WithParent(t, changed, up)
<1>2. /\ new \in Topology /\ new.nodes = t.nodes
      /\ \A n \in Node : new.parent[n] = IF n \in changed THEN up ELSE t.parent[n]
      /\ new.manual = t.manual \cup changed
      /\ new.relations = t.relations
  BY <1>0, <1>1 DEF Topology, WithParent
<1> HIDE DEF new
<1>3. /\ \A n \in t.nodes : new.parent[n] \in t.nodes \cup {None}
      /\ \A n \in Node \ t.nodes : new.parent[n] = None
  BY <1>1, <1>2 DEF Tidy, Sound
<1>4. \A r \in t.relations : {r[1], r[2]} \subseteq t.nodes
  BY DEF Tidy, Sound
<1>5. t.manual \cup changed \subseteq t.nodes
  BY DEF Tidy
<1>6. Tidy(new)
  BY <1>2, <1>3, <1>4, <1>5 DEF Tidy, Sound
<1> QED
  BY <1>6 DEF new

(* A new group, or other relations.                                        *)
LEMMA TidyDrawn ==
  ASSUME NEW t, Tidy(t)
  PROVE  /\ \A new \in Node : Tidy([t EXCEPT !.nodes = @ \cup {new}])
         /\ \A rs \in SUBSET (t.nodes \X t.nodes) : Tidy([t EXCEPT !.relations = rs])
<1>1. t \in Topology /\ t.nodes \subseteq Node
  BY TopologyFields DEF Tidy
<1>2. ASSUME NEW n \in Node PROVE Tidy([t EXCEPT !.nodes = @ \cup {n}])
  <2> DEFINE new == [t EXCEPT !.nodes = @ \cup {n}]
  <2>1. /\ new \in Topology /\ new.nodes = t.nodes \cup {n} /\ new.parent = t.parent
        /\ new.manual = t.manual /\ new.relations = t.relations
    BY <1>1 DEF Topology
  <2> HIDE DEF new
  <2>2. \A m \in new.nodes : new.parent[m] \in new.nodes \cup {None}
    BY <1>1, <2>1 DEF Tidy, Sound
  <2>3. Tidy(new)
    BY <2>1, <2>2 DEF Tidy, Sound
  <2> QED BY <2>3 DEF new
<1>3. ASSUME NEW rs \in SUBSET (t.nodes \X t.nodes) PROVE Tidy([t EXCEPT !.relations = rs])
  <2> DEFINE new == [t EXCEPT !.relations = rs]
  <2>1. /\ new \in Topology /\ new.nodes = t.nodes /\ new.parent = t.parent
        /\ new.manual = t.manual /\ new.relations = rs
    BY <1>1 DEF Topology
  <2> HIDE DEF new
  <2>2. Tidy(new)
    BY <2>1 DEF Tidy, Sound
  <2> QED BY <2>2 DEF new
<1> QED
  BY <1>2, <1>3

LEMMA TidySynced ==
  ASSUME Tidy(topology), entities \subseteq Entities,
         parentId \in [Entities -> Entities \cup {None}]
  PROVE  Tidy(Synced)
<1> DEFINE t == WithoutNodes(topology, monitors)
           drawn == entities \ monitors
           shown == t.nodes \cup drawn
<1>1. Tidy(t) /\ topology \in Topology
  BY TidyWithout DEF Tidy
<1>2. /\ Synced \in Topology /\ Synced.nodes = shown
      /\ \A n \in Node : Synced.parent[n] =
           IF n \in drawn \ t.manual
             THEN IF parentId[n] \in shown THEN parentId[n] ELSE None
             ELSE t.parent[n]
      /\ Synced.manual = t.manual
      /\ Synced.relations = t.relations
  BY <1>1, SyncedFields
<1> HIDE DEF t
<1>3. t.nodes \subseteq Node /\ shown \subseteq Node
  BY <1>1, <1>2, TopologyFields DEF Tidy
<1>4. \A n \in shown : Synced.parent[n] \in shown \cup {None}
  BY <1>1, <1>2, <1>3 DEF Tidy, Sound
<1>5. \A n \in Node \ shown : Synced.parent[n] = None
  BY <1>1, <1>2, <1>3 DEF Tidy
<1> QED
  BY <1>1, <1>2, <1>3, <1>4, <1>5 DEF Tidy, Sound

LEMMA TidyRestored ==
  ASSUME Tidy(topology), NEW snapshot, Tidy(snapshot), Sound(Restored(snapshot))
  PROVE  Tidy(Restored(snapshot))
<1> DEFINE old == WithoutNodes(topology, Groups)
           new == Restored(snapshot)
           known == snapshot.nodes \cap (old.nodes \cup Groups)
<1>1. Tidy(old) /\ topology \in Topology /\ snapshot \in Topology /\ old \in Topology
  BY TidyWithout DEF Tidy
<1>2. /\ new \in Topology
      /\ new.nodes = old.nodes \cup (snapshot.nodes \cap Groups)
      /\ \A n \in Node : new.parent[n] =
           IF n \in known THEN snapshot.parent[n] ELSE old.parent[n]
      /\ new.manual = (old.manual \ known) \cup (snapshot.manual \cap known)
  BY <1>1, RestoredFields
<1> HIDE DEF old, new
<1>3. new.manual \subseteq new.nodes
  BY <1>1, <1>2 DEF Tidy
<1>4. \A n \in Node \ new.nodes : new.parent[n] = None
  BY <1>1, <1>2 DEF Tidy
<1>5. Sound(new)
  BY DEF new
<1>6. Tidy(new)
  BY <1>2, <1>3, <1>4, <1>5 DEF Tidy
<1> QED
  BY <1>6 DEF new

LEMMA TidyMerged ==
  ASSUME Tidy(topology), NEW src \in Entities, NEW tgt \in Entities, Sound(Merged(src, tgt))
  PROVE  Tidy(Merged(src, tgt))
<1> DEFINE old == WithoutNodes(topology, {src})
           renamed(n) == IF n = src THEN tgt ELSE n
           moved == {<<renamed(r[1]), renamed(r[2])>> : r \in topology.relations}
           rs == {r \in moved : r[1] # r[2]}
           new == [old EXCEPT !.relations = rs]
<1>1. Tidy(old) /\ topology \in Topology /\ old \in Topology
  BY TidyWithout DEF Tidy
<1>2. \A r \in topology.relations : r[1] \in Node /\ r[2] \in Node
  BY <1>1, TopologyFields
<1>3. \A n \in Node : renamed(n) \in Node
  BY DEF Node
<1>4. rs \in SUBSET (Node \X Node)
  BY <1>2, <1>3
<1> HIDE DEF old, rs
<1>5. /\ new \in Topology /\ new.nodes = old.nodes /\ new.parent = old.parent
      /\ new.manual = old.manual
  BY <1>1, <1>4 DEF Topology
<1>6. new = Merged(src, tgt)
  BY DEF Merged, old, rs
<1> HIDE DEF new
<1>7. Tidy(new)
  BY <1>1, <1>5, <1>6 DEF Tidy
<1> QED
  BY <1>6, <1>7

(* What capture and undo do to the snapshots, whatever those are.          *)
LEMMA CapturedTyping ==
  ASSUME NEW T, history \in Seq(T), Len(history) <= MaxHistory, topology \in T
  PROVE  Captured \in Seq(T) /\ Len(Captured) <= MaxHistory
<1> DEFINE all == Append(history, topology)
<1>1. all \in Seq(T) /\ Len(all) = Len(history) + 1 /\ Len(history) \in Nat
  OBVIOUS
<1>2. Captured = IF Len(all) > MaxHistory THEN Tail(all) ELSE all
  BY DEF Captured
<1> HIDE DEF all
<1>3. all # << >> /\ Len(Tail(all)) = Len(history) /\ Tail(all) \in Seq(T)
  BY <1>1
<1> QED
  BY <1>1, <1>2, <1>3, TopologyTreeAssumption

LEMMA UndoneTyping ==
  ASSUME NEW T, history \in Seq(T), Len(history) <= MaxHistory, history # << >>
  PROVE  /\ history[Len(history)] \in T
         /\ SubSeq(history, 1, Len(history) - 1) \in Seq(T)
         /\ Len(SubSeq(history, 1, Len(history) - 1)) = Len(history) - 1
         /\ Len(history) - 1 <= MaxHistory
<1>1. Len(history) \in Nat /\ Len(history) # 0
  OBVIOUS
<1>2. history[Len(history)] \in T
  BY <1>1
<1>3. \A i \in 1..Len(history) - 1 : history[i] \in T
  BY <1>1
<1>4. /\ SubSeq(history, 1, Len(history) - 1) \in Seq(T)
      /\ Len(SubSeq(history, 1, Len(history) - 1)) = Len(history) - 1
  <2> DEFINE n == Len(history) - 1
  <2>1. n \in Nat /\ \A i \in 1..n : history[i] \in T
    BY <1>1, <1>3
  <2> HIDE DEF n
  <2>2. /\ SubSeq(history, 1, n) \in Seq(T)
        /\ Len(SubSeq(history, 1, n)) = IF 1 <= n THEN n - 1 + 1 ELSE 0
    BY <2>1, SubSeqProperties
  <2>3. Len(SubSeq(history, 1, n)) = n
    BY <2>1, <2>2
  <2> QED BY <2>2, <2>3 DEF n
<1> QED
  BY <1>1, <1>2, <1>4, TopologyTreeAssumption

Tidies == {t \in Topology : Tidy(t)}

TypeInv == TypeOK /\ topology \in Tidies /\ history \in Seq(Tidies)

LEMMA TidiesAreTopologies == \A s \in Seq(Tidies) : s \in Seq(Topology)
BY DEF Tidies

(* The inventory may come and go; everything else goes through here.       *)
LEMMA Retyped ==
  ASSUME TypeInv, UNCHANGED inventory, Tidy(topology'),
         history' \in Seq(Tidies), Len(history') <= MaxHistory,
         unused' \subseteq unused, req' \in [Requests -> Request]
  PROVE  TypeInv'
<1>1. topology' \in Tidies
  BY DEF Tidies, Tidy
<1>2. Sound(topology') /\ topology' \in Topology
  BY DEF Tidy
<1> QED
  BY <1>1, <1>2, TidiesAreTopologies DEF TypeInv, TypeOK, inventory

LEMMA TypeInit == Init => TypeInv
<1> SUFFICES ASSUME Init PROVE TypeInv
  OBVIOUS
<1>1. topology = [nodes |-> {}, parent |-> [n \in Node |-> None], manual |-> {}, relations |-> {}]
  BY DEF Init
<1>2. topology \in Topology
  BY <1>1 DEF Topology
<1>3. Tidy(topology)
  BY <1>1, <1>2 DEF Tidy, Sound
<1>4. history \in Seq(Tidies) /\ Len(history) = 0 /\ history \in Seq(Topology)
  BY DEF Init
<1>5. req \in [Requests -> Request]
  BY DEF Init, Request
<1> QED
  BY <1>2, <1>3, <1>4, <1>5, TopologyTreeAssumption
  DEF Init, TypeInv, TypeOK, Tidies, Tidy

LEMMA BeginTyping ==
  ASSUME TypeInv, NEW r \in Requests, NEW q \in Request, Begin(r, q)
  PROVE  TypeInv'
<1>1. Captured \in Seq(Tidies) /\ Len(Captured) <= MaxHistory
  BY CapturedTyping DEF TypeInv, TypeOK
<1>2. req' \in [Requests -> Request]
  BY DEF Begin, TypeInv, TypeOK
<1> QED
  BY <1>1, <1>2, Retyped DEF Begin, TypeInv, Tidies

(* The edits, before they write.                                           *)
LEMMA EditTyping ==
  ASSUME TypeInv, NEW r \in Requests, Edit(r)
  PROVE  TypeInv'
<1>0. topology \in Topology /\ topology.nodes \in SUBSET Node
        /\ topology.relations \in SUBSET (Node \X Node) /\ Tidy(topology)
  BY TopologyFields DEF TypeInv, Tidies
<1>1. ASSUME NEW n \in Node, NEW p \in topology.nodes \cup {None}, BeginUpdate(r, n, p)
      PROVE  TypeInv'
  <2>1. [kind |-> "update", node |-> n, parent |-> p] \in Request
    BY <1>0 DEF Request
  <2> QED BY <1>1, <2>1, BeginTyping DEF BeginUpdate
<1>2. ASSUME NEW members \in SUBSET topology.nodes, BeginCreateGroup(r, members)
      PROVE  TypeInv'
  <2>1. [kind |-> "create_group", members |-> members] \in Request
    BY <1>0 DEF Request
  <2> QED BY <1>2, <2>1, BeginTyping DEF BeginCreateGroup
<1>3. ASSUME NEW members \in SUBSET topology.nodes, NEW g \in Groups, BeginGroup(r, members, g)
      PROVE  TypeInv'
  <2>1. [kind |-> "group", members |-> members, group |-> g] \in Request
    BY <1>0 DEF Request
  <2> QED BY <1>3, <2>1, BeginTyping DEF BeginGroup
<1>4. ASSUME NEW g \in Groups, BeginDeleteGroup(r, g)
      PROVE  TypeInv'
  <2>1. [kind |-> "delete_group", group |-> g] \in Request
    BY DEF Request
  <2> QED BY <1>4, <2>1, BeginTyping DEF BeginDeleteGroup
<1>5. ASSUME NEW pair \in Node \X Node, BeginRelate(r, pair) \/ BeginUnrelate(r, pair)
      PROVE  TypeInv'
  <2>1. [kind |-> "relate", pair |-> pair] \in Request
        /\ [kind |-> "unrelate", pair |-> pair] \in Request
    BY DEF Request
  <2> QED BY <1>5, <2>1, BeginTyping DEF BeginRelate, BeginUnrelate
<1>6. CASE Move(r)
  <2>1. Captured \in Seq(Tidies) /\ Len(Captured) <= MaxHistory
    BY CapturedTyping DEF TypeInv, TypeOK
  <2> QED BY <1>0, <1>6, <2>1, Retyped DEF Move, TypeInv, TypeOK
<1>7. CASE Undo(r)
  <2>1. CASE ~Undoable
    BY <1>0, <1>7, <2>1, Retyped DEF Undo, TypeInv, TypeOK
  <2>2. CASE Undoable
    <3>1. /\ history[Len(history)] \in Tidies
          /\ SubSeq(history, 1, Len(history) - 1) \in Seq(Tidies)
          /\ Len(SubSeq(history, 1, Len(history) - 1)) <= MaxHistory
      BY <1>7, UndoneTyping DEF Undo, TypeInv, TypeOK
    <3>2. Tidy(Restored(history[Len(history)]))
      BY <1>0, <1>7, <2>2, <3>1, TidyRestored DEF Undo, Undoable, Tidies
    <3> QED BY <1>7, <2>2, <3>1, <3>2, Retyped DEF Undo, TypeInv, TypeOK
  <2> QED BY <2>1, <2>2
<1>8. Pairs \subseteq Node \X Node
  BY TopologyTreeAssumption
<1> QED
  BY <1>0, <1>1, <1>2, <1>3, <1>4, <1>5, <1>6, <1>7, <1>8 DEF Edit

LEMMA WriteTyping ==
  ASSUME TypeInv, NEW r \in Requests, NEW kind, NEW allowed, NEW result,
         Write(r, kind, allowed, result), allowed => Tidy(result)
  PROVE  TypeInv'
<1>1. Tidy(topology')
  BY DEF Write, TypeInv, Tidies
<1>2. req' \in [Requests -> Request]
  BY DEF Write, TypeInv, TypeOK, Request
<1> QED
  BY <1>1, <1>2, Retyped DEF Write, TypeInv, TypeOK

(* What a request in flight carries.                                       *)
LEMMA RequestTyping ==
  ASSUME NEW q \in Request
  PROVE  /\ q.kind = "update" => q \in [kind: {"update"}, node: Node, parent: Node \cup {None}]
         /\ q.kind = "create_group" => q \in [kind: {"create_group"}, members: SUBSET Node]
         /\ q.kind = "group" => q \in [kind: {"group"}, members: SUBSET Node, group: Groups]
         /\ q.kind = "delete_group" => q \in [kind: {"delete_group"}, group: Groups]
         /\ q.kind \in {"relate", "unrelate"} =>
              q \in [kind: {"relate", "unrelate"}, pair: Node \X Node]
         /\ q.kind = "idle" => q = Idle
<1>1. CASE q = Idle
  BY <1>1 DEF Idle
<1>2. CASE q \in [kind: {"update"}, node: Node, parent: Node \cup {None}]
  BY <1>2
<1>3. CASE q \in [kind: {"create_group"}, members: SUBSET Node]
  BY <1>3
<1>4. CASE q \in [kind: {"group"}, members: SUBSET Node, group: Groups]
  BY <1>4
<1>5. CASE q \in [kind: {"delete_group"}, group: Groups]
  BY <1>5
<1>6. CASE q \in [kind: {"relate", "unrelate"}, pair: Node \X Node]
  BY <1>6
<1> QED
  BY <1>1, <1>2, <1>3, <1>4, <1>5, <1>6 DEF Request

LEMMA FinishTyping ==
  ASSUME TypeInv, NEW r \in Requests, Finish(r)
  PROVE  TypeInv'
<1> DEFINE q == req[r]
<1>0. /\ topology \in Topology /\ topology.nodes \in SUBSET Node /\ Tidy(topology)
      /\ q \in Request
  BY TopologyFields DEF TypeInv, TypeOK, Tidies
<1>1. CASE WriteUpdate(r)
  <2>1. q.node \in topology.nodes /\ q.parent \in topology.nodes \cup {None}
          => Tidy(WithParent(topology, {q.node}, q.parent))
    BY <1>0, TidyHung
  <2> QED BY <1>1, <2>1, WriteTyping DEF WriteUpdate
<1>2. CASE WriteGroup(r)
  <2>1. q.group \in topology.nodes
          => Tidy(WithParent(topology, q.members \cap topology.nodes, q.group))
    BY <1>0, TidyHung
  <2> QED BY <1>2, <2>1, WriteTyping DEF WriteGroup
<1>3. CASE WriteCreateGroup(r)
  <2>1. q \in [kind: {"create_group"}, members: SUBSET Node]
    BY <1>0, <1>3, RequestTyping DEF WriteCreateGroup
  <2>2. PICK g \in unused \cap Groups :
           /\ topology' = [topology EXCEPT !.nodes = @ \cup {g}]
           /\ unused' = unused \ {g}
           /\ req' = [req EXCEPT ![r] =
                IF q.members = {} THEN Idle
                ELSE [kind |-> "group", members |-> q.members, group |-> g]]
    BY <1>3 DEF WriteCreateGroup
  <2>3. Tidy(topology')
    BY <1>0, <2>2, TidyDrawn DEF Node
  <2>4. [kind |-> "group", members |-> q.members, group |-> g] \in Request /\ Idle \in Request
    BY <2>1 DEF Request
  <2>5. req' \in [Requests -> Request]
    BY <2>2, <2>4 DEF TypeInv, TypeOK
  <2> QED BY <1>3, <2>2, <2>3, <2>5, Retyped DEF WriteCreateGroup, TypeInv, TypeOK
<1>4. CASE WriteDeleteGroup(r)
  <2>1. Tidy(WithoutNodes(topology, {q.group}))
    BY <1>0, TidyWithout
  <2> QED BY <1>4, <2>1, WriteTyping DEF WriteDeleteGroup
<1>5. \A x \in topology.relations : x \in topology.nodes \X topology.nodes
  <2>1. topology.relations \in SUBSET (Node \X Node)
    BY <1>0, TopologyFields
  <2> QED BY <1>0, <2>1 DEF Tidy, Sound
<1>6. CASE WriteRelate(r)
  <2>1. q.pair \in Node \X Node
    BY <1>0, <1>6, RequestTyping DEF WriteRelate, Write
  <2>2. {q.pair[1], q.pair[2]} \subseteq topology.nodes
          => Tidy([topology EXCEPT !.relations = topology.relations \cup {q.pair}])
    <3>1. {q.pair[1], q.pair[2]} \subseteq topology.nodes
            => topology.relations \cup {q.pair} \in SUBSET (topology.nodes \X topology.nodes)
      BY <1>5, <2>1
    <3> QED BY <1>0, <3>1, TidyDrawn
  <2> QED BY <1>6, <2>2, WriteTyping DEF WriteRelate
<1>7. CASE WriteUnrelate(r)
  <2>1. topology.relations \ {q.pair} \in SUBSET (topology.nodes \X topology.nodes)
    BY <1>5
  <2>2. Tidy([topology EXCEPT !.relations = topology.relations \ {q.pair}])
    BY <1>0, <2>1, TidyDrawn
  <2> QED BY <1>7, <2>2, WriteTyping DEF WriteUnrelate
<1> QED
  BY <1>1, <1>2, <1>3, <1>4, <1>6, <1>7 DEF Finish

(* What happens in the inventory, and a bootstrap.                         *)
LEMMA InventoryTyping ==
  ASSUME TypeInv, Tidy(topology'), entities' \subseteq Entities,
         parentId' \in [Entities -> Entities \cup {None}], monitors' \subseteq entities',
         history' = history, unused' \subseteq unused, req' = req
  PROVE  TypeInv'
<1>1. topology' \in Tidies
  BY DEF Tidies, Tidy
<1>2. Sound(topology') /\ topology' \in Topology
  BY DEF Tidy
<1> QED
  BY <1>1, <1>2 DEF TypeInv, TypeOK

LEMMA OtherTyping ==
  ASSUME TypeInv,
         \/ \E e \in Entities : CreateEntity(e) \/ DeleteEntity(e) \/ SetMonitor(e)
         \/ \E e \in Entities, p \in Entities \cup {None} : SetEntityParent(e, p)
         \/ \E src, tgt \in Entities : MergeEntity(src, tgt)
         \/ Sync \/ Restart \/ UNCHANGED vars
  PROVE  TypeInv'
<1>0. /\ Tidy(topology) /\ topology \in Topology
      /\ entities \subseteq Entities /\ parentId \in [Entities -> Entities \cup {None}]
      /\ monitors \subseteq entities
  BY DEF TypeInv, TypeOK, Tidies
<1>1. ASSUME NEW e \in Entities, CreateEntity(e) \/ SetMonitor(e)
      PROVE  TypeInv'
  BY <1>0, <1>1, InventoryTyping DEF CreateEntity, SetMonitor
<1>2. ASSUME NEW e \in Entities, DeleteEntity(e)
      PROVE  TypeInv'
  <2>1. Tidy(WithoutNodes(topology, {e}))
    BY <1>0, TidyWithout
  <2>2. parentId' \in [Entities -> Entities \cup {None}]
    BY <1>0, <1>2 DEF DeleteEntity
  <2> QED BY <1>0, <1>2, <2>1, <2>2, InventoryTyping DEF DeleteEntity
<1>3. ASSUME NEW e \in Entities, NEW p \in Entities \cup {None}, SetEntityParent(e, p)
      PROVE  TypeInv'
  BY <1>0, <1>3, InventoryTyping DEF SetEntityParent
<1>4. ASSUME NEW src \in Entities, NEW tgt \in Entities, MergeEntity(src, tgt)
      PROVE  TypeInv'
  <2>1. CASE Sound(Merged(src, tgt))
    <3>1. Tidy(Merged(src, tgt))
      BY <1>0, <2>1, TidyMerged
    <3>2. Adopted(src, tgt) \in [Entities -> Entities \cup {None}]
      BY <1>0 DEF Adopted
    <3> QED BY <1>0, <1>4, <2>1, <3>1, <3>2, InventoryTyping DEF MergeEntity
  <2>2. CASE ~Sound(Merged(src, tgt))
    BY <1>0, <1>4, <2>2, InventoryTyping DEF MergeEntity, inventory
  <2> QED BY <2>1, <2>2
<1>5. CASE Sync
  BY <1>0, <1>5, TidySynced, InventoryTyping DEF Sync, inventory
<1>6. CASE Restart
  <2>1. req' \in [Requests -> Request]
    BY <1>6 DEF Restart, Request
  <2> QED BY <1>0, <1>6, <2>1, Retyped DEF Restart, TypeInv, TypeOK
<1>7. CASE UNCHANGED vars
  BY <1>0, <1>7, InventoryTyping DEF vars, inventory
<1> QED
  BY <1>1, <1>2, <1>3, <1>4, <1>5, <1>6, <1>7

LEMMA TypeStep == TypeInv /\ [Next]_vars => TypeInv'
BY EditTyping, FinishTyping, OtherTyping DEF Next

(* Every variable keeps its type, and nothing ever hangs under, or is      *)
(* related to, a node that is gone.                                        *)
THEOREM TypeCorrect == Spec => []TypeOK
<1>1. TypeInv => TypeOK
  BY DEF TypeInv
<1> QED
  BY <1>1, TypeInit, TypeStep, PTL DEF Spec

THEOREM TypesHold == Spec => []TypeInv
BY TypeInit, TypeStep, PTL DEF Spec

-----------------------------------------------------------------------------
(***************************************************************************)
(* What a sync leaves alone and what undo brings back.                     *)
(***************************************************************************)
LEMMA SyncStep ==
  ASSUME TypeInv, Sync
  PROVE  /\ \A n \in topology.manual \ monitors :
              /\ n \in topology'.manual
              /\ topology'.parent[n] = topology.parent[n] \/ topology.parent[n] \in monitors
         /\ \A r \in topology.relations \ topology'.relations : {r[1], r[2]} \cap monitors # {}
<1> DEFINE t == WithoutNodes(topology, monitors)
<1>1. /\ topology \in Topology /\ topology.manual \subseteq Node
      /\ entities \subseteq Entities /\ parentId \in [Entities -> Entities \cup {None}]
  BY TopologyFields DEF TypeInv, TypeOK
<1>2. /\ \A n \in Node : t.parent[n] =
           IF n \in monitors \/ topology.parent[n] \in monitors THEN None ELSE topology.parent[n]
      /\ t.manual = topology.manual \ monitors
      /\ t.relations =
           {r \in topology.relations : r[1] \notin monitors /\ r[2] \notin monitors}
  BY <1>1, WithoutFields
<1>3. /\ \A n \in t.manual \cap Node : Synced.parent[n] = t.parent[n]
      /\ Synced.manual = t.manual
      /\ Synced.relations = t.relations
  BY <1>1, SyncedFields
<1> HIDE DEF t
<1> QED
  BY <1>1, <1>2, <1>3 DEF Sync

(* A bootstrap leaves alone what was arranged by hand, except under and    *)
(* around the node of a monitor.                                           *)
THEOREM HandworkSurvivesSync == Spec => SyncKeepsHandwork
<1>1. TypeInv /\ [Next]_vars =>
        [Sync =>
           /\ \A n \in topology.manual \ monitors :
                /\ n \in topology'.manual
                /\ topology'.parent[n] = topology.parent[n] \/ topology.parent[n] \in monitors
           /\ \A r \in topology.relations \ topology'.relations : {r[1], r[2]} \cap monitors # {}
        ]_vars
  BY SyncStep
<1> QED
  BY <1>1, TypesHold, PTL DEF Spec, SyncKeepsHandwork

(* Where the entities are those of the snapshot, undo is the snapshot.     *)
LEMMA UndoStep ==
  ASSUME TypeInv, NEW r \in Requests, Undo(r), history # history',
         history[Len(history)].nodes \cap Entities = topology.nodes \cap Entities
  PROVE  topology' = history[Len(history)]
<1> DEFINE s == history[Len(history)]
           old == WithoutNodes(topology, Groups)
           known == s.nodes \cap (old.nodes \cup Groups)
           new == Restored(s)
<1>1. topology' = new
  BY DEF Undo
<1>2. /\ Tidy(topology) /\ Tidy(s) /\ topology \in Topology /\ s \in Topology
      /\ old \in Topology
  BY UndoneTyping, WithoutFields DEF Undo, TypeInv, TypeOK, Tidies
<1> HIDE DEF s
<1>3. /\ old.nodes = topology.nodes \ Groups
      /\ \A n \in Node : old.parent[n] =
           IF n \in Groups \/ topology.parent[n] \in Groups THEN None ELSE topology.parent[n]
      /\ old.manual = topology.manual \ Groups
  BY <1>2, WithoutFields
<1>4. /\ new \in Topology
      /\ new.nodes = old.nodes \cup (s.nodes \cap Groups)
      /\ \A n \in Node : new.parent[n] = IF n \in known THEN s.parent[n] ELSE old.parent[n]
      /\ new.manual = (old.manual \ known) \cup (s.manual \cap known)
      /\ new.relations = s.relations
  BY <1>2, RestoredFields
<1>5. s.nodes \cap Entities = topology.nodes \cap Entities
  BY DEF s
<1>6. s.nodes \subseteq Node /\ topology.nodes \subseteq Node
      /\ Node = Entities \cup Groups /\ Entities \cap Groups = {}
  BY <1>2, TopologyFields, TopologyTreeAssumption DEF Node
<1> HIDE DEF old, new
<1>7. known = s.nodes /\ new.nodes = s.nodes
  BY <1>3, <1>4, <1>5, <1>6
<1>8. \A n \in Node : new.parent[n] = s.parent[n]
  <2> SUFFICES ASSUME NEW n \in Node, n \notin s.nodes
               PROVE  new.parent[n] = None /\ s.parent[n] = None
    BY <1>4, <1>7
  <2>1. s.parent[n] = None
    BY <1>2 DEF Tidy
  <2>2. new.parent[n] = old.parent[n]
    BY <1>4, <1>7
  <2>3. CASE n \in Groups
    BY <1>3, <2>1, <2>2, <2>3
  <2>4. CASE n \notin topology.nodes
    BY <1>2, <1>3, <2>1, <2>2, <2>4 DEF Tidy
  <2> QED BY <1>5, <1>6, <2>3, <2>4
<1>9. new.manual = s.manual
  <2>1. s.manual \subseteq s.nodes /\ old.manual \subseteq s.nodes
    BY <1>2, <1>3, <1>5, <1>6 DEF Tidy
  <2> QED BY <1>4, <1>7, <2>1
<1>10. new = s
  <2>1. new.parent \in Parents /\ s.parent \in Parents
    BY <1>2, <1>4, TopologyFields
  <2>2. new.parent = s.parent
    BY <1>8, <2>1 DEF Parents
  <2> QED BY <1>2, <1>4, <1>7, <1>9, <2>2, TopologyFields
<1> QED
  BY <1>1, <1>10 DEF s

(* Undo takes back the whole edit, unless an entity came or went.          *)
THEOREM UndoTakesItAllBack == Spec => UndoIsExact
<1>1. TypeInv /\ [Next]_vars =>
        [\A r \in Requests :
           history # history' /\ Undo(r)
             /\ history[Len(history)].nodes \cap Entities = topology.nodes \cap Entities
             => topology' = history[Len(history)]]_vars
  BY UndoStep
<1> QED
  BY <1>1, TypesHold, PTL DEF Spec, UndoIsExact

-----------------------------------------------------------------------------
(***************************************************************************)
(* Circles.  With one request at a time, what was picked by hand is a      *)
(* tree, now and in every snapshot, and the request in flight keeps it one:*)
(* between its check and its write the others only take parents away.      *)
(***************************************************************************)
OneAtATime == \A r, s \in Requests : r = s

Picked(t) == [n \in Node |-> IF n \in t.manual THEN t.parent[n] ELSE None]

Trees == {t \in Tidies : Tree(Picked(t)) /\ t.nodes \cap unused = {}}

Safe(q) ==
  /\ q.kind = "update" /\ q.parent # None =>
       q.node # q.parent /\ q.node \notin Chain(Picked(topology), q.parent)
  /\ q.kind = "group" =>
       /\ q.group \notin q.members
       /\ \A n \in q.members : n \notin Chain(Picked(topology), q.group)
  /\ q.kind = "create_group" => q.members \cap unused = {}

HandInv ==
  /\ topology \in Trees /\ history \in Seq(Trees)
  /\ entities \cap unused = {}
  /\ \A r \in Requests : Safe(req[r])

LEMMA PickedTyping ==
  ASSUME NEW t \in Topology
  PROVE  Picked(t) \in Parents /\ \A n \in Node : Picked(t)[n] \in {t.parent[n], None}
BY TopologyFields DEF Picked, Parents

LEMMA IdleIsSafe == Safe(Idle)
BY DEF Safe, Idle

LEMMA TreesAreTidy == \A t \in Trees : Tidy(t) /\ t \in Topology
BY DEF Trees, Tidies

(* Parents that are only let go of leave a tree and a safe request.        *)
LEMMA Loosened ==
  ASSUME TypeInv, HandInv, TypeInv',
         topology'.manual \subseteq topology.manual,
         \A n \in topology'.manual : topology'.parent[n] \in {topology.parent[n], None},
         unused' \subseteq unused
  PROVE  /\ \A x \in Node : Chain(Picked(topology)', x) \subseteq Chain(Picked(topology), x)
         /\ Tree(Picked(topology)')
         /\ \A q \in Request : Safe(q) => Safe(q)'
<1>1. /\ topology \in Topology /\ topology' \in Topology /\ Tree(Picked(topology))
      /\ Picked(topology) \in Parents
  BY PickedTyping DEF TypeInv, TypeOK, HandInv, Trees
<1>2. \A n \in Node : Picked(topology)'[n] \in {Picked(topology)[n], None}
  BY DEF Picked
<1>3. ASSUME NEW x \in Node PROVE Chain(Picked(topology)', x) \subseteq Chain(Picked(topology), x)
  <2> DEFINE f == Picked(topology)
             g == Picked(topology)'
  <2>1. f \in Parents /\ \A n \in Node : g[n] \in {f[n], None}
    BY <1>1, <1>2
  <2> HIDE DEF f, g
  <2>2. Chain(g, x) \subseteq Chain(f, x)
    BY <2>1, LooserChain
  <2> QED BY <2>2 DEF f, g
<1>4. Tree(Picked(topology)')
  BY <1>1, <1>3 DEF Tree
<1>5. ASSUME NEW q \in Request, Safe(q) PROVE Safe(q)'
  <2>1. q.kind = "update" /\ q.parent # None =>
          q.node # q.parent /\ q.node \notin Chain(Picked(topology)', q.parent)
    <3> SUFFICES ASSUME q.kind = "update", q.parent # None
                 PROVE  q.node # q.parent /\ q.node \notin Chain(Picked(topology)', q.parent)
      OBVIOUS
    <3>1. q.parent \in Node
      BY RequestTyping
    <3> QED BY <1>3, <1>5, <3>1 DEF Safe
  <2>2. q.kind = "group" =>
          q.group \notin q.members /\ \A n \in q.members : n \notin Chain(Picked(topology)', q.group)
    <3> SUFFICES ASSUME q.kind = "group"
                 PROVE  /\ q.group \notin q.members
                        /\ \A n \in q.members : n \notin Chain(Picked(topology)', q.group)
      OBVIOUS
    <3>1. q.group \in Node
      BY RequestTyping DEF Node
    <3> QED BY <1>3, <1>5, <3>1 DEF Safe
  <2>3. q.kind = "create_group" => q.members \cap unused' = {}
    BY <1>5 DEF Safe
  <2> QED BY <2>1, <2>2, <2>3 DEF Safe
<1> QED
  BY <1>3, <1>4, <1>5

(* Snapshots stay what they are when more ids are handed out.              *)
LEMMA OldSnapshots ==
  ASSUME HandInv, unused' \subseteq unused
  PROVE  Trees \subseteq Trees' /\ history \in Seq(Trees')
<1>1. Trees \subseteq Trees'
  BY DEF Trees, Tidies, Tidy, Sound, Tree, Picked, Chain
<1> QED
  BY <1>1 DEF HandInv

(* A step that only lets go of parents.                                    *)
LEMMA HandLoosened ==
  ASSUME TypeInv, HandInv, TypeInv',
         topology'.manual \subseteq topology.manual,
         \A n \in topology'.manual : topology'.parent[n] \in {topology.parent[n], None},
         unused' \subseteq unused, topology'.nodes \cap unused' = {},
         entities' \cap unused' = {}, history' = history,
         \A r \in Requests : req'[r] \in {req[r], Idle}
  PROVE  HandInv'
<1>1. topology' \in Trees'
  BY Loosened DEF TypeInv, Trees
<1>2. history' \in Seq(Trees')
  BY OldSnapshots
<1>3. ASSUME NEW r \in Requests PROVE Safe(req[r])'
  <2>1. req[r] \in Request /\ Safe(req[r]) /\ req'[r] \in {req[r], Idle} /\ Idle \in Request
    BY DEF TypeInv, TypeOK, HandInv, Request
  <2>2. req'[r] \in Request /\ Safe(req'[r])
    BY <2>1, IdleIsSafe
  <2>3. PICK q \in Request : q = req'[r] /\ Safe(q)
    BY <2>2
  <2>4. Safe(q)'
    BY <2>3, Loosened
  <2> QED BY <2>3, <2>4 DEF Safe
<1> QED
  BY <1>1, <1>2, <1>3 DEF HandInv

(* The first steps: what was checked is safe.                              *)
LEMMA HandBegin ==
  ASSUME TypeInv, HandInv, NEW r \in Requests, NEW q \in Request, Begin(r, q), Safe(q)
  PROVE  HandInv'
<1>1. Captured \in Seq(Trees)
  BY CapturedTyping DEF TypeInv, TypeOK, HandInv
<1>2. UNCHANGED <<inventory, topology, unused>> /\ history' = Captured
      /\ req' = [req EXCEPT ![r] = q]
  BY DEF Begin
<1>3. Trees' = Trees
  BY <1>2 DEF Trees, Tidies
<1>4. ASSUME NEW s \in Requests PROVE Safe(req[s])'
  <2>1. req'[s] \in {q, req[s]}
    BY <1>2 DEF TypeInv, TypeOK
  <2>2. Safe(req[s]) /\ Safe(q)
    BY DEF HandInv
  <2> QED BY <1>2, <2>1, <2>2 DEF Safe
<1> QED
  BY <1>1, <1>2, <1>3, <1>4 DEF HandInv, inventory

(* Nothing of the members hangs above what they may hang under.            *)
LEMMA HangsSafely ==
  ASSUME TypeInv, NEW n \in Node, NEW up \in topology.nodes, MayHang(n, up)
  PROVE  n \notin Chain(Picked(topology), up)
<1>1. topology.parent \in Parents /\ up \in Node
      /\ \A m \in Node : Picked(topology)[m] \in {topology.parent[m], None}
  BY PickedTyping, TopologyFields DEF TypeInv, TypeOK
<1>2. n \notin Chain(topology.parent, up)
  BY DEF MayHang, Below
<1>3. Chain(Picked(topology), up) \subseteq Chain(topology.parent, up)
  <2> DEFINE f == topology.parent
             g == Picked(topology)
  <2>1. f \in Parents /\ \A m \in Node : g[m] \in {f[m], None}
    BY <1>1
  <2> HIDE DEF f, g
  <2>2. Chain(g, up) \subseteq Chain(f, up)
    BY <1>1, <2>1, LooserChain
  <2> QED BY <2>2 DEF f, g
<1> QED
  BY <1>2, <1>3

(* Undo: the part of the nodes that the snapshot knows hangs as it did.    *)
LEMMA HandRestored ==
  ASSUME TypeInv, HandInv, history # << >>, Undoable
  PROVE  Restored(history[Len(history)]) \in Trees
<1> DEFINE s == history[Len(history)]
           old == WithoutNodes(topology, Groups)
           known == s.nodes \cap (old.nodes \cup Groups)
           new == Restored(s)
<1>1. /\ Tidy(topology) /\ topology \in Topology /\ s \in Trees /\ Tidy(s) /\ s \in Topology
      /\ old \in Topology
  BY UndoneTyping, WithoutFields, TreesAreTidy DEF HandInv, TypeInv, TypeOK, Tidies
<1>2. Sound(new)
  BY DEF Undoable
<1>3. Tidy(new)
  BY <1>1, <1>2, TidyRestored
<1> HIDE DEF s
<1>4. /\ old.nodes = topology.nodes \ Groups
      /\ \A n \in Node : old.parent[n] \in {topology.parent[n], None}
      /\ old.manual = topology.manual \ Groups
  BY <1>1, WithoutFields
<1>5. /\ new \in Topology
      /\ new.nodes = old.nodes \cup (s.nodes \cap Groups)
      /\ \A n \in Node : new.parent[n] = IF n \in known THEN s.parent[n] ELSE old.parent[n]
      /\ new.manual = (old.manual \ known) \cup (s.manual \cap known)
  BY <1>1, RestoredFields
<1>6. new.nodes \cap unused = {}
  BY <1>1, <1>4, <1>5 DEF HandInv, Trees
<1>7. /\ Picked(old) \in Parents /\ Picked(s) \in Parents /\ Tree(Picked(s))
      /\ Picked(topology) \in Parents /\ Tree(Picked(topology))
  BY <1>1, PickedTyping DEF HandInv, Trees
<1>8. Tree(Picked(old))
  <2>1. \A n \in Node : Picked(old)[n] \in {Picked(topology)[n], None}
    BY <1>4 DEF Picked
  <2> QED BY <1>7, <2>1, LooserChain DEF Tree
<1>9. known \in SUBSET Node /\ s.manual \subseteq s.nodes /\ known \subseteq new.nodes
  BY <1>1, <1>5, TopologyFields DEF Tidy
<1>10. \A n \in known : Picked(s)[n] \in known \cup {None}
  <2> SUFFICES ASSUME NEW n \in known, n \in s.manual
               PROVE  s.parent[n] \in known \cup {None}
    BY <1>9 DEF Picked
  <2>1. s.parent[n] \in s.nodes \cup {None}
    BY <1>1 DEF Tidy, Sound
  <2>2. s.parent[n] \in new.nodes \cup {None}
    BY <1>2, <1>5, <1>9 DEF Sound
  <2> QED BY <1>5, <2>1, <2>2
<1>11. \A n \in Node : Picked(new)[n] = IF n \in known THEN Picked(s)[n] ELSE Picked(old)[n]
  <2> SUFFICES ASSUME NEW n \in Node
               PROVE  Picked(new)[n] = IF n \in known THEN Picked(s)[n] ELSE Picked(old)[n]
    OBVIOUS
  <2>1. CASE n \in known
    <3>1. n \in new.manual <=> n \in s.manual
      BY <1>5, <2>1
    <3> QED BY <1>5, <2>1, <3>1 DEF Picked
  <2>2. CASE n \notin known
    <3>1. n \in new.manual <=> n \in old.manual
      BY <1>5, <2>2
    <3> QED BY <1>5, <2>2, <3>1 DEF Picked
  <2> QED BY <2>1, <2>2
<1> HIDE DEF known, old
<1>12. Tree(Picked(new))
  <2>1. Mixed(Picked(old), Picked(s), known) = Picked(new)
    <3>1. \A t : Picked(t) = [n \in Node |-> Picked(t)[n]]
      BY DEF Picked
    <3> QED BY <1>11, <3>1 DEF Mixed
  <2>2. Tree(Mixed(Picked(old), Picked(s), known))
    BY <1>7, <1>8, <1>9, <1>10, MixedTree
  <2> QED BY <2>1, <2>2
<1> QED
  BY <1>3, <1>6, <1>12 DEF s, Trees, Tidies, Tidy

LEMMA HandEdit ==
  ASSUME OneAtATime, TypeInv, HandInv, NEW r \in Requests, Edit(r)
  PROVE  HandInv'
<1>0. topology \in Topology /\ topology.nodes \in SUBSET Node
        /\ topology.relations \in SUBSET (Node \X Node) /\ topology.nodes \cap unused = {}
  BY TopologyFields DEF TypeInv, TypeOK, HandInv, Trees
<1>1. ASSUME NEW n \in Node, NEW p \in topology.nodes \cup {None}, BeginUpdate(r, n, p)
      PROVE  HandInv'
  <2> DEFINE q == [kind |-> "update", node |-> n, parent |-> p]
  <2>1. q \in Request
    BY <1>0 DEF Request
  <2>2. Safe(q)
    BY <1>1, HangsSafely DEF BeginUpdate, Safe
  <2> QED BY <1>1, <2>1, <2>2, HandBegin DEF BeginUpdate
<1>2. ASSUME NEW members \in SUBSET topology.nodes, BeginCreateGroup(r, members)
      PROVE  HandInv'
  <2> DEFINE q == [kind |-> "create_group", members |-> members]
  <2>1. q \in Request
    BY <1>0 DEF Request
  <2>2. Safe(q)
    BY <1>0 DEF Safe
  <2> QED BY <1>2, <2>1, <2>2, HandBegin DEF BeginCreateGroup
<1>3. ASSUME NEW members \in SUBSET topology.nodes, NEW g \in Groups, BeginGroup(r, members, g)
      PROVE  HandInv'
  <2> DEFINE q == [kind |-> "group", members |-> members, group |-> g]
  <2>1. q \in Request
    BY <1>0 DEF Request
  <2>2. Safe(q)
    BY <1>0, <1>3, HangsSafely DEF BeginGroup, Safe
  <2> QED BY <1>3, <2>1, <2>2, HandBegin DEF BeginGroup
<1>4. ASSUME NEW g \in Groups, BeginDeleteGroup(r, g)
      PROVE  HandInv'
  <2> DEFINE q == [kind |-> "delete_group", group |-> g]
  <2>1. q \in Request /\ Safe(q)
    BY DEF Request, Safe
  <2> QED BY <1>4, <2>1, HandBegin DEF BeginDeleteGroup
<1>5. ASSUME NEW pair \in Node \X Node, BeginRelate(r, pair) \/ BeginUnrelate(r, pair)
      PROVE  HandInv'
  <2>1. /\ [kind |-> "relate", pair |-> pair] \in Request
        /\ [kind |-> "unrelate", pair |-> pair] \in Request
        /\ Safe([kind |-> "relate", pair |-> pair])
        /\ Safe([kind |-> "unrelate", pair |-> pair])
    BY DEF Request, Safe
  <2> QED BY <1>5, <2>1, HandBegin DEF BeginRelate, BeginUnrelate
<1>6. CASE Move(r)
  <2>1. Captured \in Seq(Trees)
    BY CapturedTyping DEF TypeInv, TypeOK, HandInv
  <2>2. UNCHANGED <<inventory, topology, unused, req>> /\ history' = Captured
    BY <1>6 DEF Move
  <2>3. Trees' = Trees
    BY <2>2 DEF Trees, Tidies
  <2>4. ASSUME NEW s \in Requests PROVE Safe(req[s])'
    BY <2>2 DEF HandInv, Safe
  <2> QED BY <2>1, <2>2, <2>3, <2>4 DEF HandInv, inventory
<1>7. CASE Undo(r)
  <2>1. UNCHANGED <<inventory, unused, req>> /\ req[r] = Idle /\ history # << >>
    BY <1>7 DEF Undo, Edit
  <2>2. \A s \in Requests : req'[s] = Idle
    BY <2>1 DEF OneAtATime
  <2>3. \A s \in Requests : Safe(req[s])'
    BY <2>2 DEF Safe, Idle
  <2>4. Trees' = Trees
    BY <2>1 DEF Trees, Tidies
  <2>5. topology' \in Trees /\ history' \in Seq(Trees)
    <3>1. CASE Undoable
      <4>1. SubSeq(history, 1, Len(history) - 1) \in Seq(Trees)
        BY <2>1, UndoneTyping DEF HandInv, TypeInv, TypeOK
      <4>2. Restored(history[Len(history)]) \in Trees
        BY <2>1, <3>1, HandRestored
      <4> QED BY <1>7, <3>1, <4>1, <4>2 DEF Undo
    <3>2. CASE ~Undoable
      BY <1>7, <3>2 DEF Undo, HandInv
    <3> QED BY <3>1, <3>2
  <2> QED BY <2>1, <2>3, <2>4, <2>5 DEF HandInv, inventory
<1>8. Pairs \subseteq Node \X Node
  BY TopologyTreeAssumption
<1> QED
  BY <1>0, <1>1, <1>2, <1>3, <1>4, <1>5, <1>6, <1>7, <1>8 DEF Edit

(* The write that hangs something: nobody else hung anything meanwhile.    *)
LEMMA HandHung ==
  ASSUME OneAtATime, TypeInv, HandInv, TypeInv', NEW r \in Requests, NEW kind, NEW allowed,
         NEW M, NEW up, Write(r, kind, allowed, WithParent(topology, M, up)),
         allowed => M \in SUBSET topology.nodes /\ up \in topology.nodes \cup {None},
         up # None => up \notin M /\ \A n \in M : n \notin Chain(Picked(topology), up)
  PROVE  HandInv'
<1>1. UNCHANGED <<inventory, history, unused>> /\ req' = [req EXCEPT ![r] = Idle]
  BY DEF Write
<1>2. \A s \in Requests : req'[s] = Idle
  BY <1>1 DEF OneAtATime, TypeInv, TypeOK
<1>3. \A s \in Requests : Safe(req[s])'
  BY <1>2 DEF Safe, Idle
<1>4. Trees' = Trees
  BY <1>1 DEF Trees, Tidies
<1>5. CASE ~allowed
  BY <1>1, <1>3, <1>4, <1>5 DEF Write, HandInv, inventory
<1>6. CASE allowed
  <2> DEFINE new == WithParent(topology, M, up)
  <2>1. topology' = new
    BY <1>6 DEF Write
  <2>2. /\ topology \in Topology /\ topology.nodes \subseteq Node
        /\ topology.nodes \cap unused = {}
        /\ Picked(topology) \in Parents /\ Tree(Picked(topology))
    BY PickedTyping, TopologyFields DEF TypeInv, TypeOK, HandInv, Trees
  <2>3. M \in SUBSET Node /\ up \in Node \cup {None}
    BY <1>6, <2>2
  <2>4. /\ new.nodes = topology.nodes
        /\ \A n \in Node : new.parent[n] = IF n \in M THEN up ELSE topology.parent[n]
        /\ new.manual = topology.manual \cup M
    BY <2>2, <2>3 DEF Topology, WithParent
  <2> HIDE DEF new
  <2>5. Picked(new) = Hung(Picked(topology), M, up)
    BY <2>4 DEF Picked, Hung
  <2>6. Tree(Picked(new))
    <3>1. CASE up = None
      <4>1. \A n \in Node : Picked(new)[n] \in {Picked(topology)[n], None}
        BY <2>5, <3>1 DEF Hung
      <4> QED BY <2>2, <4>1, LooserChain DEF Tree
    <3>2. CASE up # None
      <4>1. up \in Node \ M /\ \A n \in M : n \notin Chain(Picked(topology), up)
        BY <2>3, <3>2
      <4>2. Tree(Hung(Picked(topology), M, up))
        BY <2>2, <2>3, <4>1, HungTree
      <4> QED BY <2>5, <4>2
    <3> QED BY <3>1, <3>2
  <2>7. topology' \in Tidies
    BY DEF TypeInv
  <2>8. topology' \in Trees'
    BY <1>1, <2>1, <2>2, <2>4, <2>6, <2>7 DEF Trees, Tidies
  <2> QED BY <1>1, <1>3, <1>4, <2>8 DEF HandInv, inventory
<1> QED
  BY <1>5, <1>6

LEMMA HandFinish ==
  ASSUME OneAtATime, TypeInv, HandInv, TypeInv', NEW r \in Requests, Finish(r)
  PROVE  HandInv'
<1> DEFINE q == req[r]
<1>0. /\ topology \in Topology /\ topology.nodes \in SUBSET Node
      /\ topology.nodes \cap unused = {} /\ entities \cap unused = {}
      /\ q \in Request /\ Safe(q)
  BY TopologyFields DEF TypeInv, TypeOK, HandInv, Trees
<1>1. CASE WriteUpdate(r)
  <2>1. q.kind = "update"
    BY <1>1 DEF WriteUpdate, Write
  <2>2. q.parent # None => /\ q.parent \notin {q.node}
                           /\ \A n \in {q.node} : n \notin Chain(Picked(topology), q.parent)
    BY <1>0, <2>1 DEF Safe
  <2> DEFINE allowed == q.node \in topology.nodes /\ q.parent \in topology.nodes \cup {None}
  <2>3. Write(r, "update", allowed, WithParent(topology, {q.node}, q.parent))
    BY <1>1 DEF WriteUpdate
  <2>4. allowed => {q.node} \in SUBSET topology.nodes /\ q.parent \in topology.nodes \cup {None}
    OBVIOUS
  <2> HIDE DEF allowed
  <2> QED BY <2>2, <2>3, <2>4, HandHung
<1>2. CASE WriteGroup(r)
  <2>1. q.kind = "group"
    BY <1>2 DEF WriteGroup, Write
  <2> DEFINE allowed == q.group \in topology.nodes
             M == q.members \cap topology.nodes
  <2>2. q.group \notin M /\ \A n \in M : n \notin Chain(Picked(topology), q.group)
    BY <1>0, <2>1 DEF Safe
  <2>3. Write(r, "group", allowed, WithParent(topology, M, q.group))
    BY <1>2 DEF WriteGroup
  <2>4. allowed => M \in SUBSET topology.nodes /\ q.group \in topology.nodes \cup {None}
    OBVIOUS
  <2> HIDE DEF allowed, M
  <2> QED BY <2>2, <2>3, <2>4, HandHung
<1>3. CASE WriteCreateGroup(r)
  <2>1. q \in [kind: {"create_group"}, members: SUBSET Node] /\ q.kind = "create_group"
    BY <1>0, <1>3, RequestTyping DEF WriteCreateGroup
  <2>0. PICK M \in SUBSET Node : M = q.members
    BY <2>1
  <2>2. PICK g \in unused \cap Groups :
           /\ topology' = [topology EXCEPT !.nodes = @ \cup {g}]
           /\ unused' = unused \ {g}
           /\ req' = [req EXCEPT ![r] =
                IF M = {} THEN Idle ELSE [kind |-> "group", members |-> M, group |-> g]]
    BY <1>3, <2>0 DEF WriteCreateGroup
  <2>3. UNCHANGED <<inventory, history>>
    BY <1>3 DEF WriteCreateGroup
  <2>4. /\ topology'.nodes = topology.nodes \cup {g} /\ topology'.parent = topology.parent
        /\ topology'.manual = topology.manual
    BY <1>0, <2>2 DEF Topology
  <2>5. Picked(topology)' = Picked(topology)
    BY <2>4 DEF Picked
  <2>6. topology' \in Trees'
    BY <1>0, <2>2, <2>4, <2>5 DEF TypeInv, HandInv, Trees
  <2>7. history' \in Seq(Trees')
    BY <2>2, <2>3, OldSnapshots DEF HandInv
  <2>8. g \in Node /\ g \notin topology.manual
    BY <1>0 DEF Node, TypeInv, Tidies, Tidy
  <2>9. Chain(Picked(topology), g) = {}
    BY <2>8, RootChain DEF Picked
  <2>10. M \cap unused = {}
    BY <1>0, <2>0, <2>1 DEF Safe
  <2>11. Safe([kind |-> "group", members |-> M, group |-> g])'
    BY <2>5, <2>9, <2>10 DEF Safe
  <2>12. Safe(req[r])'
    BY <2>2, <2>11, IdleIsSafe DEF Safe, Idle, TypeInv, TypeOK
  <2>13. \A s \in Requests : Safe(req[s])'
    BY <2>12 DEF OneAtATime
  <2> QED BY <1>0, <2>2, <2>3, <2>6, <2>7, <2>13 DEF HandInv, inventory
<1>4. CASE WriteDeleteGroup(r)
  <2>1. /\ topology' = WithoutNodes(topology, {q.group})
        /\ UNCHANGED <<inventory, history, unused>> /\ req' = [req EXCEPT ![r] = Idle]
    BY <1>4 DEF WriteDeleteGroup, Write
  <2>2. /\ topology'.nodes = topology.nodes \ {q.group}
        /\ \A n \in Node : topology'.parent[n] \in {topology.parent[n], None}
        /\ topology'.manual = topology.manual \ {q.group}
    BY <1>0, <2>1, WithoutFields
  <2>3. topology'.manual \subseteq Node
    BY <2>2, TopologyFields DEF TypeInv, TypeOK
  <2>4. \A s \in Requests : req'[s] \in {req[s], Idle}
    BY <2>1 DEF TypeInv, TypeOK
  <2> QED BY <1>0, <2>1, <2>2, <2>3, <2>4, HandLoosened DEF inventory
<1>5. CASE WriteRelate(r) \/ WriteUnrelate(r)
  <2>1. PICK rs : topology' \in {topology, [topology EXCEPT !.relations = rs]}
    BY <1>5 DEF WriteRelate, WriteUnrelate, Write
  <2>2. /\ topology'.nodes = topology.nodes /\ topology'.parent = topology.parent
        /\ topology'.manual = topology.manual
    BY <1>0, <2>1 DEF Topology
  <2>3. UNCHANGED <<inventory, history, unused>> /\ req' = [req EXCEPT ![r] = Idle]
    BY <1>5 DEF WriteRelate, WriteUnrelate, Write
  <2>4. \A s \in Requests : req'[s] \in {req[s], Idle}
    BY <2>3 DEF TypeInv, TypeOK
  <2> QED BY <1>0, <2>2, <2>3, <2>4, HandLoosened DEF inventory
<1> QED
  BY <1>1, <1>2, <1>3, <1>4, <1>5 DEF Finish

LEMMA HandOther ==
  ASSUME TypeInv, HandInv, TypeInv',
         \/ \E e \in Entities : CreateEntity(e) \/ DeleteEntity(e) \/ SetMonitor(e)
         \/ \E e \in Entities, p \in Entities \cup {None} : SetEntityParent(e, p)
         \/ \E src, tgt \in Entities : MergeEntity(src, tgt)
         \/ Sync \/ Restart \/ UNCHANGED vars
  PROVE  HandInv'
<1>0. /\ topology \in Topology /\ topology.nodes \cap unused = {} /\ entities \cap unused = {}
      /\ entities \subseteq Entities /\ parentId \in [Entities -> Entities \cup {None}]
      /\ topology.manual \subseteq Node
  BY TopologyFields DEF TypeInv, TypeOK, HandInv, Trees
<1>1. CASE (\E e \in Entities : CreateEntity(e) \/ SetMonitor(e)) \/ UNCHANGED vars
           \/ \E e \in Entities, p \in Entities \cup {None} : SetEntityParent(e, p)
  <2>1. /\ UNCHANGED <<topology, history, req>> /\ unused' \subseteq unused
        /\ entities' \cap unused' = {}
    BY <1>0, <1>1 DEF CreateEntity, SetMonitor, SetEntityParent, vars, inventory
  <2> QED BY <1>0, <2>1, HandLoosened
<1>2. ASSUME NEW e \in Entities, DeleteEntity(e)
      PROVE  HandInv'
  <2>1. /\ topology' = WithoutNodes(topology, {e}) /\ entities' \subseteq entities
        /\ UNCHANGED <<history, unused, req>>
    BY <1>2 DEF DeleteEntity
  <2>2. /\ topology'.nodes = topology.nodes \ {e}
        /\ \A n \in Node : topology'.parent[n] \in {topology.parent[n], None}
        /\ topology'.manual = topology.manual \ {e}
    BY <1>0, <2>1, WithoutFields
  <2> QED BY <1>0, <2>1, <2>2, HandLoosened
<1>3. ASSUME NEW src \in Entities, NEW tgt \in Entities, MergeEntity(src, tgt)
      PROVE  HandInv'
  <2>1. CASE Sound(Merged(src, tgt))
    <3> DEFINE old == WithoutNodes(topology, {src})
    <3>1. /\ topology' = Merged(src, tgt) /\ entities' \subseteq entities
          /\ UNCHANGED <<history, unused, req>>
      BY <1>3, <2>1 DEF MergeEntity
    <3>2. /\ old \in Topology /\ old.nodes = topology.nodes \ {src}
          /\ \A n \in Node : old.parent[n] \in {topology.parent[n], None}
          /\ old.manual = topology.manual \ {src}
      BY <1>0, WithoutFields
    <3>3. PICK rs : topology' = [old EXCEPT !.relations = rs]
      BY <3>1 DEF Merged
    <3> HIDE DEF old
    <3>4. topology'.nodes = old.nodes /\ topology'.parent = old.parent
          /\ topology'.manual = old.manual
      BY <3>2, <3>3 DEF Topology
    <3> QED BY <1>0, <3>1, <3>2, <3>4, HandLoosened
  <2>2. CASE ~Sound(Merged(src, tgt))
    <3>1. UNCHANGED <<topology, entities, history, unused, req>>
      BY <1>3, <2>2 DEF MergeEntity, inventory
    <3> QED BY <1>0, <3>1, HandLoosened
  <2> QED BY <2>1, <2>2
<1>4. CASE Sync
  <2> DEFINE t == WithoutNodes(topology, monitors)
  <2>1. topology' = Synced /\ UNCHANGED <<entities, history, unused, req>>
    BY <1>4 DEF Sync, inventory
  <2>2. /\ t.nodes = topology.nodes \ monitors
        /\ \A n \in Node : t.parent[n] \in {topology.parent[n], None}
        /\ t.manual = topology.manual \ monitors
    BY <1>0, WithoutFields
  <2>3. /\ topology'.nodes = t.nodes \cup (entities \ monitors)
        /\ \A n \in t.manual \cap Node : topology'.parent[n] = t.parent[n]
        /\ topology'.manual = t.manual
    BY <1>0, <2>1, SyncedFields
  <2> HIDE DEF t
  <2> QED BY <1>0, <2>1, <2>2, <2>3, HandLoosened
<1>5. CASE Restart
  <2>1. /\ UNCHANGED <<inventory, topology, history, unused>>
        /\ \A r \in Requests : req'[r] = Idle
    BY <1>5 DEF Restart
  <2> QED BY <1>0, <2>1, HandLoosened DEF inventory
<1> QED
  BY <1>1, <1>2, <1>3, <1>4, <1>5

LEMMA HandInit == Init => HandInv
<1> SUFFICES ASSUME Init PROVE HandInv
  OBVIOUS
<1>1. topology \in Tidies /\ topology.nodes = {} /\ topology.manual = {}
  BY TypeInit DEF Init, TypeInv
<1>2. \A n \in Node : Picked(topology)[n] = None
  BY <1>1 DEF Picked
<1>3. Tree(Picked(topology))
  BY <1>2, RootChain DEF Tree
<1>4. \A r \in Requests : Safe(req[r])
  BY IdleIsSafe DEF Init
<1>5. history \in Seq(Trees) /\ entities \cap unused = {}
  BY DEF Init
<1> QED
  BY <1>1, <1>3, <1>4, <1>5 DEF HandInv, Trees

(* With one request at a time no sequence of edits, groupings, deletions   *)
(* and undos closes a circle of hand-picked parents, whatever bootstraps   *)
(* and changes of the inventory come in between.                           *)
THEOREM NoCircleByHand ==
  ASSUME OneAtATime
  PROVE  Spec => []NoHandmadeCircle
<1>1. TypeInv /\ HandInv /\ [Next]_vars => HandInv'
  BY TypeStep, HandEdit, HandFinish, HandOther DEF Next
<1>2. TypeInv /\ HandInv => NoHandmadeCircle
  <2> SUFFICES ASSUME TypeInv, HandInv, NEW n \in topology.manual
               PROVE  ~Circular(Picked(topology), n)
    BY DEF NoHandmadeCircle, Picked
  <2>1. n \in Node /\ Tree(Picked(topology))
    BY TopologyFields DEF TypeInv, TypeOK, HandInv, Trees
  <2> QED BY <2>1 DEF Tree, Circular
<1> QED
  BY <1>1, <1>2, HandInit, TypesHold, PTL DEF Spec


-----------------------------------------------------------------------------
(***************************************************************************)
(* Induction over the numbers, for sets of numbers, and what it gives: a   *)
(* function that is iterated.                                              *)
(***************************************************************************)
LEMMA LeastNumber ==
  ASSUME NEW S \in SUBSET Nat, S # {}
  PROVE  \E n \in S : \A k \in S : n <= k
<1> PICK s \in S : TRUE
  OBVIOUS
<1> DEFINE To(n) == 0..n
           Smaller == StrictSubsetOrdering(Nat)
           Finite == FiniteSubsetsOf(Nat)
           Heads == {To(n) : n \in S}
<1>1. IsWellFoundedOn(Smaller, Finite)
  BY FS_StrictSubsetOrderingWellFounded
<1>2. \A n \in S : To(n) \in SUBSET Nat /\ IsFiniteSet(To(n))
  BY FS_Interval
<1>3. Heads \subseteq Finite /\ Heads # {}
  BY <1>2 DEF FiniteSubsetsOf
<1>4. \E x \in Heads : \A y \in Heads : <<y, x>> \notin Smaller
  <2> HIDE DEF Heads, Finite, Smaller
  <2> QED BY <1>1, <1>3, WFMin
<1>5. PICK n \in S : \A k \in S : <<To(k), To(n)>> \notin Smaller
  BY <1>4
<1>6. ASSUME NEW k \in S, ~(n <= k) PROVE FALSE
  <2>1. n \in To(n) /\ n \notin To(k) /\ To(k) \subseteq To(n)
    BY <1>6
  <2>2. <<To(k), To(n)>> \in Smaller
    BY <2>1, <1>2 DEF StrictSubsetOrdering
  <2> QED BY <1>5, <2>2
<1> QED
  BY <1>6

LEMMA Inductive ==
  ASSUME NEW S, 0 \in S, \A n \in Nat : n \in S => n + 1 \in S
  PROVE  \A n \in Nat : n \in S
<1> SUFFICES ASSUME Nat \ S # {} PROVE FALSE
  OBVIOUS
<1>1. PICK n \in Nat \ S : \A k \in Nat \ S : n <= k
  BY LeastNumber, Nat \ S \in SUBSET Nat
<1>2. n # 0 /\ n - 1 \in Nat /\ n - 1 \notin Nat \ S
  BY <1>1
<1>3. (n - 1) + 1 \in S
  BY <1>2
<1> QED
  BY <1>1, <1>3

LEMMA Iteration ==
  ASSUME NEW X, NEW x \in X, NEW F \in [X -> X]
  PROVE  \E f \in [Nat -> X] : f[0] = x /\ \A n \in Nat : f[n + 1] = F[f[n]]
<1> DEFINE Is(g, n) == /\ g \in [0..n -> X] /\ g[0] = x
                       /\ \A k \in 0..n : k < n => g[k + 1] = F[g[k]]
           S == {n \in Nat : \E g : Is(g, n)}
<1>1. 0 \in S
  <2> DEFINE g == [k \in 0..0 |-> x]
  <2>1. Is(g, 0)
    OBVIOUS
  <2> QED BY <2>1
<1>2. ASSUME NEW n \in Nat, n \in S PROVE n + 1 \in S
  <2>1. PICK g : Is(g, n)
    BY <1>2
  <2> DEFINE h == [k \in 0..(n + 1) |-> IF k <= n THEN g[k] ELSE F[g[n]]]
  <2>2. h \in [0..(n + 1) -> X] /\ h[0] = x
    BY <2>1
  <2>3. ASSUME NEW k \in 0..(n + 1), k < n + 1 PROVE h[k + 1] = F[h[k]]
    <3>1. CASE k < n
      BY <2>1, <3>1
    <3>2. CASE k = n
      BY <2>1, <3>2
    <3> QED BY <2>3, <3>1, <3>2
  <2>4. Is(h, n + 1)
    BY <2>2, <2>3
  <2> QED BY <2>4
<1>3. \A n \in Nat : n \in S
  <2> HIDE DEF S
  <2> QED BY <1>1, <1>2, Inductive
<1>4. ASSUME NEW g, NEW h, NEW n \in Nat, Is(g, n), Is(h, n + 1)
      PROVE  g[n] = h[n]
  <2> DEFINE T == {k \in Nat : k <= n => g[k] = h[k]}
  <2>1. 0 \in T
    BY <1>4
  <2>2. ASSUME NEW k \in Nat, k \in T PROVE k + 1 \in T
    <3> SUFFICES ASSUME k + 1 <= n PROVE g[k + 1] = h[k + 1]
      OBVIOUS
    <3>1. g[k] = h[k] /\ k \in 0..n /\ k < n /\ k \in 0..(n + 1) /\ k < n + 1
      BY <2>2
    <3> QED BY <1>4, <3>1
  <2>3. \A k \in Nat : k \in T
    <3> HIDE DEF T
    <3> QED BY <2>1, <2>2, Inductive
  <2> QED BY <2>3
<1> DEFINE G(n) == CHOOSE g : Is(g, n)
           f == [n \in Nat |-> G(n)[n]]
<1>5. \A n \in Nat : Is(G(n), n)
  <2> HIDE DEF Is
  <2> QED BY <1>3
<1>6. ASSUME NEW n \in Nat PROVE f[n] \in X /\ f[n + 1] = F[f[n]]
  <2>1. Is(G(n), n) /\ Is(G(n + 1), n + 1)
    <3> HIDE DEF Is, G
    <3> QED BY <1>5
  <2>2. G(n)[n] = G(n + 1)[n]
    <3> HIDE DEF Is
    <3> QED BY <1>4, <2>1
  <2> HIDE DEF G
  <2>3. G(n + 1)[n + 1] = F[G(n + 1)[n]] /\ G(n)[n] \in X
    BY <2>1
  <2>4. n + 1 \in Nat
    OBVIOUS
  <2>5. f[n] = G(n)[n] /\ f[n + 1] = G(n + 1)[n + 1]
    BY <2>4
  <2> HIDE DEF f
  <2> QED BY <2>2, <2>3, <2>5
<1>7. f[0] = x
  BY <1>5
<1>8. f \in [Nat -> X]
  <2> HIDE DEF G
  <2> QED BY <1>6
<1> HIDE DEF f
<1> QED
  BY <1>6, <1>7, <1>8

-----------------------------------------------------------------------------
(***************************************************************************)
(* One cable.  In the wiring that a lone client makes, no two cables have  *)
(* an end in common and none has both of its ends in one place.            *)
(***************************************************************************)
Wired ==
  /\ WiringOK
  /\ IsFiniteSet(cables)
  /\ \A c \in cables : c.a # c.b
  /\ \A c, d \in cables : Ends(c) \cap Ends(d) # {} => c = d

Far(q) == Other(CHOOSE c \in ByPort(q) : TRUE, q)

\* the trace goes on behind the other end of the cable
Goes(q) == ByPort(q) # {} /\ ~(Far(q) \in Entities \/ Peer[Far(q)] = None)

(* Peers are front and rear of one panel position.                         *)
LEMMA Peers ==
  ASSUME NEW q \in Ports, Peer[q] # None
  PROVE  Peer[q] \in Ports /\ Peer[q] # q /\ Peer[Peer[q]] = q
BY CableTraceAssumption

(* The one cable at a port, and what is at its other end.                  *)
LEMMA FarEnd ==
  ASSUME Wired, NEW q \in Ports, ByPort(q) # {}
  PROVE  \E c \in cables :
           /\ ByPort(q) = {c} /\ Ends(c) = {q, Far(q)} /\ Far(q) # q
           /\ Far(q) \in Ports \cup Entities /\ CablesAt(Far(q)) = {c}
           /\ Far(q) \in Ports => Far(Far(q)) = q
<1>1. PICK c \in cables : q \in Ends(c)
  BY DEF ByPort, CablesAt
<1>2. ByPort(q) = {c}
  BY <1>1 DEF ByPort, CablesAt, Wired
<1>3. Far(q) = Other(c, q)
  BY <1>2 DEF Far
<1>4. /\ c.a \in Ports /\ c.b \in Ports \cup Entities /\ c.a # c.b
      /\ Ends(c) = {c.a, c.b}
  BY DEF Wired, WiringOK, Cable, Ends
<1>5. Ends(c) = {q, Far(q)} /\ Far(q) # q /\ Far(q) \in Ports \cup Entities
  BY <1>1, <1>3, <1>4 DEF Other
<1>6. CablesAt(Far(q)) = {c}
  BY <1>5 DEF CablesAt, Wired
<1>7. Far(Far(q)) = Other(c, Far(q))
  BY <1>6 DEF Far, ByPort
<1>8. Far(Far(q)) = q
  BY <1>1, <1>3, <1>4, <1>7 DEF Other
<1> QED
  BY <1>2, <1>5, <1>6, <1>8

(* Where a trace goes on, it does so at a port of the same panel.          *)
LEMMA NextPort ==
  ASSUME Wired, NEW q \in Ports, Goes(q)
  PROVE  /\ Far(q) \in Ports /\ Peer[Far(q)] \in Ports
         /\ Peer[Peer[Far(q)]] = Far(q) /\ Peer[Far(q)] # Far(q)
<1>1. Far(q) \in Ports /\ Peer[Far(q)] # None
  BY FarEnd DEF Goes
<1> QED
  BY <1>1, Peers

-----------------------------------------------------------------------------
(***************************************************************************)
(* TraceWithin is well defined, and what one round of the loop does.       *)
(***************************************************************************)
LEMMA TraceDefined ==
  ASSUME Wired
  PROVE  TraceWithin =
           [hops \in 0..MaxTraceHops |->
              [p \in Ports |->
                 IF hops = 0 \/ ByPort(p) = {} THEN None
                 ELSE IF Far(p) \in Entities \/ Peer[Far(p)] = None THEN Far(p)
                      ELSE TraceWithin[hops - 1][Peer[Far(p)]]]]
<1> DEFINE Found == Ports \cup Entities \cup {None}
           X == [Ports -> Found]
           x == [p \in Ports |-> None]
           Round(w) == [p \in Ports |->
                          IF ByPort(p) = {} THEN None
                          ELSE IF Far(p) \in Entities \/ Peer[Far(p)] = None THEN Far(p)
                               ELSE w[Peer[Far(p)]]]
           F == [w \in X |-> Round(w)]
           Body(g) == [hops \in 0..MaxTraceHops |->
                         [p \in Ports |->
                            IF hops = 0 \/ ByPort(p) = {} THEN None
                            ELSE IF Far(p) \in Entities \/ Peer[Far(p)] = None THEN Far(p)
                                 ELSE g[hops - 1][Peer[Far(p)]]]]
<1>1. x \in X
  OBVIOUS
<1>2. ASSUME NEW w \in X PROVE Round(w) \in X
  <2> SUFFICES ASSUME NEW p \in Ports, ByPort(p) # {} PROVE Round(w)[p] \in Found
    OBVIOUS
  <2>1. Far(p) \in Ports \cup Entities
    BY FarEnd
  <2>2. Goes(p) => Peer[Far(p)] \in Ports
    BY NextPort
  <2> QED BY <2>1, <2>2 DEF Goes
<1>3. F \in [X -> X]
  <2> HIDE DEF Round
  <2> QED BY <1>2
<1>4. PICK f \in [Nat -> X] : f[0] = x /\ \A n \in Nat : f[n + 1] = F[f[n]]
  <2> HIDE DEF F, X, x
  <2> QED BY <1>1, <1>3, Iteration
<1> DEFINE g == [hops \in 0..MaxTraceHops |-> f[hops]]
<1>5. ASSUME NEW h \in 0..MaxTraceHops, NEW p \in Ports
      PROVE  g[h][p] = Body(g)[h][p]
  <2>1. CASE h = 0
    BY <1>4, <2>1
  <2>2. CASE h # 0
    <3>1. h - 1 \in Nat /\ h - 1 \in 0..MaxTraceHops /\ (h - 1) + 1 = h
      BY <2>2, CableTraceAssumption
    <3>2. f[h] = F[f[h - 1]] /\ f[h - 1] \in X
      <4> HIDE DEF F, X
      <4> QED BY <1>4, <3>1
    <3>3. f[h] = Round(f[h - 1])
      <4> HIDE DEF Round, X
      <4> QED BY <3>2
    <3>4. g[h] = f[h] /\ g[h - 1] = f[h - 1]
      BY <3>1
    <3> HIDE DEF g
    <3> QED BY <2>2, <3>3, <3>4
  <2> QED BY <2>1, <2>2
<1>6. g = Body(g)
  <2>1. \A h \in 0..MaxTraceHops : g[h] \in X
    <3> HIDE DEF F, X
    <3> QED BY <1>4, CableTraceAssumption
  <2>2. ASSUME NEW h \in 0..MaxTraceHops PROVE g[h] = Body(g)[h]
    <3>1. g[h] = [p \in Ports |-> g[h][p]]
      <4> HIDE DEF Body, g
      <4> QED BY <2>1
    <3>2. Body(g)[h] = [p \in Ports |-> Body(g)[h][p]]
      <4> HIDE DEF g
      <4> QED OBVIOUS
    <3> HIDE DEF g, Body
    <3> QED BY <1>5, <3>1, <3>2
  <2>3. g = [h \in 0..MaxTraceHops |-> g[h]]
    OBVIOUS
  <2>4. Body(g) = [h \in 0..MaxTraceHops |-> Body(g)[h]]
    <3> HIDE DEF g
    <3> QED OBVIOUS
  <2> HIDE DEF g, Body
  <2> QED BY <2>2, <2>3, <2>4
<1>7. TraceWithin = Body(TraceWithin)
  <2>1. \E h : h = Body(h)
    <3> HIDE DEF g, Body
    <3> QED BY <1>6
  <2> QED BY <2>1, Zenon DEF TraceWithin, Far
<1> QED
  BY <1>7

(* One round of the loop: it stops at a loose end or at the limit, at the  *)
(* end of the strand, or goes on with a round less.                        *)
LEMMA TraceRound ==
  ASSUME Wired, NEW q \in Ports, NEW h \in 0..MaxTraceHops
  PROVE  /\ h = 0 \/ ByPort(q) = {} => TraceWithin[h][q] = None
         /\ h # 0 /\ ByPort(q) # {} /\ ~Goes(q) => TraceWithin[h][q] = Far(q)
         /\ h # 0 /\ Goes(q) => TraceWithin[h][q] = TraceWithin[h - 1][Peer[Far(q)]]
BY TraceDefined DEF Goes

-----------------------------------------------------------------------------
(***************************************************************************)
(* A strand is the smallest set that holds a port and all that is joined   *)
(* to what it holds.                                                       *)
(***************************************************************************)
Places == Ports \cup Entities

Complete(X) == \A x \in X : Joined(x) \subseteq X

Least(S) == {x \in Places : \A X \in SUBSET Places : S \subseteq X /\ Complete(X) => x \in X}

(* What is joined to a place: the ends of its cables, and its peer.        *)
LEMMA JoinedTo ==
  ASSUME NEW x
  PROVE  \A y : y \in Joined(x) <=>
           \/ \E c \in cables : x \in Ends(c) /\ y \in Ends(c)
           \/ x \in Ports /\ y = Peer[x] /\ y # None
<1> DEFINE byCable == UNION {Ends(c) : c \in CablesAt(x)}
           byPanel == IF x \in Ports THEN {Peer[x]} \ {None} ELSE {}
<1>1. Joined(x) = byCable \cup byPanel
  BY Zenon DEF Joined
<1>2. \A y : y \in byCable <=> \E c \in CablesAt(x) : y \in Ends(c)
  OBVIOUS
<1>3. \A y : y \in byPanel <=> x \in Ports /\ y = Peer[x] /\ y # None
  OBVIOUS
<1> HIDE DEF byCable, byPanel
<1> QED
  BY <1>1, <1>2, <1>3 DEF CablesAt

LEMMA JoinedPlaces ==
  ASSUME Wired, NEW x \in Places
  PROVE  Joined(x) \subseteq Places
<1>1. \A c \in cables : Ends(c) \subseteq Places
  BY DEF Wired, WiringOK, Cable, Ends, Places
<1> QED
  BY <1>1, JoinedTo, CableTraceAssumption DEF Places

LEMMA LeastIsComplete ==
  ASSUME Wired, NEW S \in SUBSET Places
  PROVE  S \subseteq Least(S) /\ Complete(Least(S))
<1>1. S \subseteq Least(S)
  BY DEF Least
<1>2. ASSUME NEW x \in Least(S), NEW y \in Joined(x) PROVE y \in Least(S)
  <2>1. x \in Places /\ y \in Places
    BY <1>2, JoinedPlaces DEF Least
  <2>2. ASSUME NEW X \in SUBSET Places, S \subseteq X, Complete(X) PROVE y \in X
    BY <1>2, <2>2 DEF Least, Complete
  <2> QED BY <2>1, <2>2 DEF Least
<1> QED
  BY <1>1, <1>2 DEF Complete

LEMMA LeastIsLeast ==
  ASSUME NEW S, NEW X \in SUBSET Places, S \subseteq X, Complete(X)
  PROVE  Least(S) \subseteq X
BY DEF Least

LEMMA ImageFinite ==
  ASSUME NEW S, IsFiniteSet(S), NEW T, NEW f \in [S -> T]
  PROVE  IsFiniteSet({f[x] : x \in S})
<1>1. f \in Surjection(S, {f[x] : x \in S})
  BY DEF Surjection
<1> QED
  BY <1>1, FS_Surjection

(* Only what cables end at, and the other side of that in its panel, hangs *)
(* together with anything: a finite set.                                   *)
LEMMA FiniteSurroundings ==
  ASSUME Wired, NEW p \in Ports
  PROVE  \E B \in SUBSET Places : p \in B /\ Complete(B) /\ IsFiniteSet(B)
<1> DEFINE A == {[d \in cables |-> d.a][c] : c \in cables}
           Z == {[d \in cables |-> d.b][c] : c \in cables}
           W == {p} \cup (A \cup Z)
           side == [x \in W |-> IF x \in Ports THEN Peer[x] ELSE None]
           V == {side[x] : x \in W}
           B == (W \cup V) \ {None}
<1>1. /\ A \subseteq Ports /\ Z \subseteq Places
      /\ \A c \in cables : c.a \in A /\ c.b \in Z
      /\ \A c \in cables : Ends(c) \subseteq W
  BY DEF Wired, WiringOK, Cable, Ends, Places
<1>2. IsFiniteSet(A) /\ IsFiniteSet(Z)
  <2>1. IsFiniteSet(cables)
    BY DEF Wired
  <2>2. [c \in cables |-> c.a] \in [cables -> Ports]
    BY DEF Wired, WiringOK, Cable
  <2>3. [c \in cables |-> c.b] \in [cables -> Places]
    BY DEF Wired, WiringOK, Cable, Places
  <2> QED BY <2>1, <2>2, <2>3, ImageFinite
<1>3. IsFiniteSet(W)
  <2> HIDE DEF A, Z
  <2> QED BY <1>2, FS_Union, FS_Singleton
<1>4. /\ side \in [W -> Ports \cup {None}]
      /\ \A x \in W \cap Ports : Peer[x] \in V
      /\ W \subseteq Places /\ p \in W
  <2>1. W \subseteq Places /\ p \in W
    <3> HIDE DEF A, Z
    <3> QED BY <1>1 DEF Places
  <2> HIDE DEF W
  <2> QED BY <2>1, CableTraceAssumption
<1>5. IsFiniteSet(V)
  <2> HIDE DEF W, side
  <2> QED BY <1>3, <1>4, ImageFinite
<1>6. V \subseteq Ports \cup {None} /\ \A x \in V \ {None} : x \in Ports /\ Peer[x] \in W
  <2> SUFFICES ASSUME NEW x \in W, side[x] # None
               PROVE  side[x] \in Ports /\ Peer[side[x]] \in W
    <3> HIDE DEF W, side
    <3> QED BY <1>4
  <2>1. x \in Ports /\ side[x] = Peer[x] /\ Peer[x] # None
    <3> HIDE DEF W
    <3> QED OBVIOUS
  <2> HIDE DEF W, side
  <2> QED BY <2>1, Peers
<1>7. IsFiniteSet(B)
  <2> HIDE DEF W, V
  <2> QED BY <1>3, <1>5, FS_Union, FS_Subset
<1>8. B \in SUBSET Places /\ p \in B
  <2> HIDE DEF W, V
  <2> QED BY <1>4, <1>6, CableTraceAssumption DEF Places
<1>9. ASSUME NEW x \in B, NEW y \in Joined(x) PROVE y \in B
  <2>1. y # None
    BY <1>8, <1>9, JoinedPlaces, CableTraceAssumption DEF Places
  <2>2. CASE \E c \in cables : x \in Ends(c) /\ y \in Ends(c)
    <3> HIDE DEF W, V
    <3> QED BY <1>1, <2>1, <2>2
  <2>3. CASE x \in Ports /\ y = Peer[x]
    <3>1. CASE x \in W
      <4> HIDE DEF W, V
      <4> QED BY <1>4, <2>1, <2>3, <3>1
    <3>2. CASE x \in V
      <4> HIDE DEF W, V
      <4> QED BY <1>6, <1>9, <2>1, <2>3, <3>2
    <3> QED BY <3>1, <3>2
  <2> HIDE DEF B
  <2> QED BY <1>9, <2>2, <2>3, JoinedTo
<1> QED
  <2> HIDE DEF B
  <2> QED BY <1>7, <1>8, <1>9 DEF Complete

(* What Grown adds in one round.                                           *)
More(X) == X \cup UNION {Joined(x) : x \in X}

LEMMA MoreOf ==
  ASSUME Wired, NEW X \in SUBSET Places
  PROVE  /\ More(X) \in SUBSET Places /\ X \subseteq More(X)
         /\ \A Y : X \subseteq Y /\ Complete(Y) => More(X) \subseteq Y
         /\ More(X) = X => Complete(X)
         /\ Least(More(X)) = Least(X)
<1>1. \A y : y \in More(X) <=> y \in X \/ \E x \in X : y \in Joined(x)
  BY DEF More
<1>2. More(X) \in SUBSET Places /\ X \subseteq More(X)
  BY <1>1, JoinedPlaces
<1>3. ASSUME NEW Y, X \subseteq Y, Complete(Y) PROVE More(X) \subseteq Y
  BY <1>1, <1>3 DEF Complete
<1>4. More(X) = X => Complete(X)
  BY <1>1 DEF Complete
<1>5. Least(More(X)) = Least(X)
  BY <1>2, <1>3 DEF Least
<1> QED
  BY <1>2, <1>3, <1>4, <1>5

(* The equation of Grown has a solution.                                   *)
LEMMA GrownDefined ==
  ASSUME Wired
  PROVE  Grown = [X \in SUBSET Places |-> IF More(X) = X THEN X ELSE Grown[More(X)]]
<1> DEFINE Body(g) == [X \in SUBSET Places |-> IF More(X) = X THEN X ELSE g[More(X)]]
           g == [X \in SUBSET Places |-> Least(X)]
<1>1. ASSUME NEW X \in SUBSET Places PROVE g[X] = Body(g)[X]
  <2>1. CASE More(X) = X
    <3>1. Least(X) = X
      BY <2>1, MoreOf, LeastIsComplete, LeastIsLeast
    <3> QED BY <2>1, <3>1
  <2>2. CASE More(X) # X
    <3>1. More(X) \in SUBSET Places /\ Least(More(X)) = Least(X)
      BY MoreOf
    <3> QED BY <2>2, <3>1
  <2> QED BY <2>1, <2>2
<1>2. g = Body(g)
  <2>1. Body(g) = [X \in SUBSET Places |-> Body(g)[X]]
    <3> HIDE DEF g
    <3> QED OBVIOUS
  <2>2. g = [X \in SUBSET Places |-> g[X]]
    OBVIOUS
  <2> HIDE DEF g, Body
  <2> QED BY <1>1, <2>1, <2>2
<1>3. \E h : h = Body(h)
  <2> HIDE DEF g, Body
  <2> QED BY <1>2
<1>4. Grown = Body(Grown)
  BY <1>3, Zenon DEF Grown, More, Places
<1> QED
  BY <1>4

(* Growing ends with all that hangs together with the port, because that   *)
(* is finite.                                                              *)
LEMMA StrandIsLeast ==
  ASSUME Wired, NEW p \in Ports
  PROVE  Strand(p) = Least({p})
<1>1. PICK B \in SUBSET Places : p \in B /\ Complete(B) /\ IsFiniteSet(B)
  BY FiniteSurroundings
<1> DEFINE T == {X \in SUBSET B : Grown[X] # Least(X)}
           Rests == {B \ X : X \in T}
           Smaller == StrictSubsetOrdering(B)
           Finite == FiniteSubsetsOf(B)
<1>2. SUFFICES ASSUME T # {} PROVE FALSE
  <2>1. {p} \in SUBSET B
    BY <1>1
  <2>2. Grown[{p}] = Least({p})
    BY <1>2, <2>1
  <2> QED BY <2>2 DEF Strand
<1>3. IsWellFoundedOn(Smaller, Finite)
  BY FS_StrictSubsetOrderingWellFounded
<1>4. Rests \subseteq Finite /\ Rests # {}
  <2>1. \A X : B \ X \in SUBSET B /\ IsFiniteSet(B \ X)
    BY <1>1, FS_Subset
  <2> QED BY <1>2, <2>1 DEF FiniteSubsetsOf
<1>5. \E r \in Rests : \A s \in Rests : <<s, r>> \notin Smaller
  <2> HIDE DEF Rests, Finite, Smaller
  <2> QED BY <1>3, <1>4, WFMin
<1>6. PICK X \in T : \A Y \in T : <<B \ Y, B \ X>> \notin Smaller
  BY <1>5
<1>7. X \in SUBSET Places /\ X \in SUBSET B
  BY <1>1
<1>8. CASE More(X) = X
  <2>1. Grown[X] = X
    BY <1>7, <1>8, GrownDefined
  <2>2. Least(X) = X
    BY <1>7, <1>8, MoreOf, LeastIsComplete, LeastIsLeast
  <2> QED BY <2>1, <2>2
<1>9. CASE More(X) # X
  <2>1. More(X) \in SUBSET B /\ X \subseteq More(X)
    BY <1>1, <1>7, MoreOf
  <2>2. <<B \ More(X), B \ X>> \in Smaller
    BY <1>7, <1>9, <2>1 DEF StrictSubsetOrdering
  <2>3. Grown[More(X)] = Least(More(X))
    BY <1>6, <2>1, <2>2
  <2>4. Grown[X] = Grown[More(X)]
    BY <1>7, <1>9, GrownDefined
  <2> QED BY <1>7, <2>3, <2>4, MoreOf
<1> QED
  BY <1>8, <1>9

(* The other end of a cable, and the other side of a panel, are on it.     *)
LEMMA OnStrand ==
  ASSUME Wired, NEW X \in SUBSET Places, Complete(X), NEW q \in Ports, q \in X
  PROVE  /\ ByPort(q) # {} => Far(q) \in X
         /\ Goes(q) => Peer[Far(q)] \in X
<1>1. ASSUME ByPort(q) # {} PROVE Far(q) \in X
  <2>1. Far(q) \in Joined(q)
    BY <1>1, FarEnd, JoinedTo
  <2> QED BY <2>1 DEF Complete
<1>2. ASSUME Goes(q) PROVE Peer[Far(q)] \in X
  <2>1. Far(q) \in X /\ Far(q) \in Ports /\ Peer[Far(q)] # None
    BY <1>1, <1>2, NextPort, CableTraceAssumption DEF Goes
  <2>2. Peer[Far(q)] \in Joined(Far(q))
    BY <2>1, JoinedTo
  <2> QED BY <2>1, <2>2 DEF Complete
<1> QED
  BY <1>1, <1>2

(* What a trace finds is an end of the strand it follows.                  *)
LEMMA TraceOnStrand ==
  ASSUME Wired, NEW p \in Ports
  PROVE  TraceFrom(p) = None \/ TraceFrom(p) \in Strand(p) \cap (Entities \cup Outlets)
<1> DEFINE Right(h, q) == \/ TraceWithin[h][q] = None
                          \/ TraceWithin[h][q] \in Least({q}) \cap (Entities \cup Outlets)
           S == {h \in Nat : h <= MaxTraceHops => \A q \in Ports : Right(h, q)}
<1>1. 0 \in S
  BY TraceRound, CableTraceAssumption
<1>2. ASSUME NEW h \in Nat, h \in S PROVE h + 1 \in S
  <2> SUFFICES ASSUME h + 1 <= MaxTraceHops, NEW q \in Ports PROVE Right(h + 1, q)
    OBVIOUS
  <2>1. h + 1 \in 0..MaxTraceHops /\ h + 1 # 0 /\ (h + 1) - 1 = h /\ h <= MaxTraceHops
    BY CableTraceAssumption
  <2>2. /\ Least({q}) \in SUBSET Places /\ q \in Least({q}) /\ Complete(Least({q}))
    <3>1. {q} \in SUBSET Places
      BY DEF Places
    <3>2. Least({q}) \in SUBSET Places
      BY DEF Least
    <3> QED BY <3>1, <3>2, LeastIsComplete
  <2>3. CASE ByPort(q) = {}
    BY <2>1, <2>3, TraceRound
  <2>4. CASE ByPort(q) # {} /\ ~Goes(q)
    <3>1. Far(q) \in Least({q})
      BY <2>2, <2>4, OnStrand
    <3>2. Far(q) \in Entities \cup Outlets
      BY <2>4, FarEnd DEF Goes, Outlets
    <3> QED BY <2>1, <2>4, <3>1, <3>2, TraceRound
  <2>5. CASE Goes(q)
    <3>1. Peer[Far(q)] \in Ports /\ Peer[Far(q)] \in Least({q})
      BY <2>2, <2>5, OnStrand, NextPort
    <3>2. Least({Peer[Far(q)]}) \subseteq Least({q})
      BY <2>2, <3>1, LeastIsLeast
    <3>3. Right(h, Peer[Far(q)])
      BY <1>2, <2>1, <3>1
    <3>4. TraceWithin[h + 1][q] = TraceWithin[h][Peer[Far(q)]]
      BY <2>1, <2>5, TraceRound
    <3> QED BY <3>2, <3>3, <3>4
  <2> HIDE DEF Right
  <2> QED BY <2>3, <2>4, <2>5
<1>3. MaxTraceHops \in S
  <2> HIDE DEF S
  <2> QED BY <1>1, <1>2, Inductive, CableTraceAssumption
<1>4. Right(MaxTraceHops, p)
  BY <1>3, CableTraceAssumption
<1> QED
  BY <1>4, StrandIsLeast DEF TraceFrom

-----------------------------------------------------------------------------
(***************************************************************************)
(* The walk along a strand without a limit: the ports at which the rounds  *)
(* of the loop begin, None after the last.                                 *)
(***************************************************************************)
Walks(f, p) ==
  /\ f \in [Nat -> Ports \cup {None}]
  /\ f[0] = p
  /\ \A n \in Nat :
       f[n + 1] = IF f[n] \in Ports /\ Goes(f[n]) THEN Peer[Far(f[n])] ELSE None

LEMMA WalkExists ==
  ASSUME Wired, NEW p \in Ports
  PROVE  \E f : Walks(f, p)
<1> DEFINE X == Ports \cup {None}
           F == [q \in X |-> IF q \in Ports /\ Goes(q) THEN Peer[Far(q)] ELSE None]
<1>1. p \in X /\ F \in [X -> X]
  BY NextPort
<1>2. PICK f \in [Nat -> X] : f[0] = p /\ \A n \in Nat : f[n + 1] = F[f[n]]
  <2> HIDE DEF F, X
  <2> QED BY <1>1, Iteration
<1>3. ASSUME NEW n \in Nat
      PROVE  f[n + 1] = IF f[n] \in Ports /\ Goes(f[n]) THEN Peer[Far(f[n])] ELSE None
  <2>1. f[n] \in X
    BY <1>2
  <2> QED BY <1>2, <2>1
<1> QED
  BY <1>2, <1>3 DEF Walks

(* It only moves on from a port, to the peer of what the cable leads to.   *)
LEMMA WalkStep ==
  ASSUME Wired, NEW f, NEW p \in Ports, Walks(f, p), NEW n \in Nat
  PROVE  /\ f[n + 1] \in Ports <=> f[n] \in Ports /\ Goes(f[n])
         /\ f[n + 1] \in Ports =>
              /\ f[n + 1] = Peer[Far(f[n])] /\ Peer[f[n + 1]] = Far(f[n])
              /\ ByPort(f[n]) # {} /\ Far(f[n]) \in Ports /\ f[n + 1] # Far(f[n])
<1>1. f[n] \in Ports /\ Goes(f[n]) =>
        /\ f[n + 1] = Peer[Far(f[n])] /\ f[n + 1] \in Ports
        /\ Peer[f[n + 1]] = Far(f[n]) /\ Far(f[n]) \in Ports /\ f[n + 1] # Far(f[n])
        /\ ByPort(f[n]) # {}
  BY NextPort DEF Walks, Goes
<1>2. ~(f[n] \in Ports /\ Goes(f[n])) => f[n + 1] \notin Ports
  BY CableTraceAssumption DEF Walks
<1> QED
  BY <1>1, <1>2

LEMMA WalkPrefix ==
  ASSUME Wired, NEW f, NEW p \in Ports, Walks(f, p), NEW n \in Nat, f[n] \in Ports,
         NEW k \in Nat, k <= n
  PROVE  f[k] \in Ports /\ (k < n => Goes(f[k]))
<1> DEFINE S == {m \in Nat : f[m] \in Ports => \A j \in 0..m : f[j] \in Ports}
<1>1. 0 \in S
  OBVIOUS
<1>2. ASSUME NEW m \in Nat, m \in S PROVE m + 1 \in S
  <2> SUFFICES ASSUME f[m + 1] \in Ports, NEW j \in 0..(m + 1) PROVE f[j] \in Ports
    OBVIOUS
  <2>1. f[m] \in Ports
    BY WalkStep
  <2>2. j \in 0..m \/ j = m + 1
    OBVIOUS
  <2> QED BY <1>2, <2>1, <2>2
<1>3. n \in S
  <2> HIDE DEF S
  <2> QED BY <1>1, <1>2, Inductive
<1>4. f[k] \in Ports
  BY <1>3
<1>5. k < n => f[k + 1] \in Ports
  BY <1>3
<1> QED
  BY <1>4, <1>5, WalkStep

(* After n rounds the trace is where the walk is, with n rounds less.      *)
LEMMA TraceAlong ==
  ASSUME Wired, NEW f, NEW p \in Ports, Walks(f, p), NEW n \in Nat, f[n] \in Ports,
         n <= MaxTraceHops
  PROVE  TraceFrom(p) = TraceWithin[MaxTraceHops - n][f[n]]
<1> DEFINE S == {m \in Nat : m <= n => TraceFrom(p) = TraceWithin[MaxTraceHops - m][f[m]]}
<1>1. 0 \in S
  BY CableTraceAssumption DEF TraceFrom, Walks
<1>2. ASSUME NEW m \in Nat, m \in S PROVE m + 1 \in S
  <2> SUFFICES ASSUME m + 1 <= n
               PROVE  TraceFrom(p) = TraceWithin[MaxTraceHops - (m + 1)][f[m + 1]]
    OBVIOUS
  <2>1. f[m] \in Ports /\ Goes(f[m]) /\ f[m + 1] = Peer[Far(f[m])]
    BY WalkPrefix, WalkStep
  <2> DEFINE h == MaxTraceHops - m
  <2>2. h \in 0..MaxTraceHops /\ h # 0 /\ h - 1 = MaxTraceHops - (m + 1)
    BY CableTraceAssumption
  <2>3. TraceFrom(p) = TraceWithin[h][f[m]]
    BY <1>2
  <2> HIDE DEF h
  <2>4. TraceWithin[h][f[m]] = TraceWithin[h - 1][Peer[Far(f[m])]]
    BY <2>1, <2>2, TraceRound
  <2> QED BY <2>1, <2>2, <2>3, <2>4
<1>3. n \in S
  <2> HIDE DEF S
  <2> QED BY <1>1, <1>2, Inductive
<1> QED
  BY <1>3

(* From a port without a peer the walk comes back to no port it was at, as *)
(* the step before it would have to be the same.                           *)
LEMMA NoRevisit ==
  ASSUME Wired, NEW f, NEW p \in Outlets, Walks(f, p), NEW i \in Nat,
         NEW n \in Nat, i < n, f[n] \in Ports
  PROVE  f[i] # f[n]
<1> DEFINE S == {j \in Nat : \A m \in Nat : j < m /\ f[m] \in Ports => f[j] # f[m]}
<1>0. p \in Ports /\ Peer[p] = None
  BY DEF Outlets
<1>1. 0 \in S
  <2> SUFFICES ASSUME NEW m \in Nat, 0 < m, f[m] \in Ports PROVE f[0] # f[m]
    OBVIOUS
  <2>1. m - 1 \in Nat /\ (m - 1) + 1 = m
    OBVIOUS
  <2>2. Peer[f[m]] \in Ports
    BY <1>0, <2>1, WalkStep
  <2> QED BY <1>0, <2>2, CableTraceAssumption DEF Walks
<1>2. ASSUME NEW j \in Nat, j \in S PROVE j + 1 \in S
  <2> SUFFICES ASSUME NEW m \in Nat, j + 1 < m, f[m] \in Ports, f[j + 1] = f[m] PROVE FALSE
    OBVIOUS
  <2>1. m - 1 \in Nat /\ (m - 1) + 1 = m /\ j < m - 1
    OBVIOUS
  <2>2. /\ f[m - 1] \in Ports /\ ByPort(f[m - 1]) # {} /\ Peer[f[m]] = Far(f[m - 1])
        /\ Far(f[m - 1]) \in Ports
    BY <1>0, <2>1, WalkStep
  <2>3. /\ f[j] \in Ports /\ ByPort(f[j]) # {} /\ Peer[f[j + 1]] = Far(f[j])
        /\ Far(f[j]) \in Ports
    BY <1>0, WalkStep
  <2>4. Far(Far(f[j])) = f[j] /\ Far(Far(f[m - 1])) = f[m - 1]
    BY <2>2, <2>3, FarEnd
  <2>5. f[j] = f[m - 1]
    BY <2>2, <2>3, <2>4
  <2> QED BY <1>2, <2>1, <2>2, <2>5
<1>3. i \in S
  <2> HIDE DEF S
  <2> QED BY <1>1, <1>2, Inductive
<1> QED
  BY <1>3

(* Nor does it come back over a cable from the other end: it would have to *)
(* turn around in between.                                                 *)
LEMMA NoReturn ==
  ASSUME Wired, NEW f, NEW p \in Ports, Walks(f, p), NEW i \in Nat, NEW d \in Nat,
         f[i + d] \in Ports, ByPort(f[i]) # {}
  PROVE  f[i + d] # Far(f[i])
<1> DEFINE Q(e) == \A j \in Nat : f[j + e] \in Ports /\ ByPort(f[j]) # {} => f[j + e] # Far(f[j])
           S == {e \in Nat : Q(e) /\ Q(e + 1)}
<1>1. Q(0)
  <2> SUFFICES ASSUME NEW j \in Nat, f[j] \in Ports, ByPort(f[j]) # {} PROVE f[j] # Far(f[j])
    OBVIOUS
  <2> QED BY FarEnd
<1>2. Q(1)
  BY WalkStep
<1>3. ASSUME NEW e \in Nat, Q(e) PROVE Q(e + 2)
  <2> SUFFICES ASSUME NEW j \in Nat, f[j + (e + 2)] \in Ports, ByPort(f[j]) # {},
                      f[j + (e + 2)] = Far(f[j])
               PROVE  FALSE
    OBVIOUS
  <2> DEFINE m == (j + 1) + e
  <2>1. m \in Nat /\ m + 1 = j + (e + 2) /\ j + 1 <= m /\ j < m /\ j <= m /\ j + 1 \in Nat
    OBVIOUS
  <2>2. /\ f[m] \in Ports /\ ByPort(f[m]) # {} /\ Far(f[m]) \in Ports
        /\ f[m + 1] = Peer[Far(f[m])] /\ Peer[f[m + 1]] = Far(f[m])
    <3> HIDE DEF m
    <3> QED BY <2>1, WalkStep
  <2>3. f[j + 1] \in Ports /\ f[j] \in Ports /\ f[j + 1] = Peer[Far(f[j])]
    <3> HIDE DEF m
    <3>1. f[j + 1] \in Ports
      BY <2>1, <2>2, WalkPrefix
    <3> QED BY <3>1, WalkStep
  <2>4. f[j + 1] = Far(f[m])
    <3> HIDE DEF m
    <3> QED BY <2>1, <2>2, <2>3
  <2>5. Far(f[j + 1]) = f[m] /\ ByPort(f[j + 1]) # {}
    <3> HIDE DEF m
    <3> QED BY <2>2, <2>4, FarEnd DEF ByPort
  <2> QED BY <1>3, <2>1, <2>2, <2>5
<1>4. 0 \in S
  <2>1. Q(0 + 1)
    <3> HIDE DEF Q
    <3> QED BY <1>2
  <2> HIDE DEF Q
  <2> QED BY <1>1, <2>1
<1>5. ASSUME NEW e \in Nat, e \in S PROVE e + 1 \in S
  <2>1. (e + 1) + 1 = e + 2
    OBVIOUS
  <2>2. Q((e + 1) + 1)
    <3> HIDE DEF Q
    <3>1. Q(e + 2)
      BY <1>3, <1>5
    <3> QED BY <2>1, <3>1
  <2> HIDE DEF Q
  <2> QED BY <1>5, <2>2
<1>6. d \in S
  <2> HIDE DEF S
  <2> QED BY <1>4, <1>5, Inductive
<1> QED
  BY <1>6

-----------------------------------------------------------------------------
(***************************************************************************)
(* The strand of a port without a peer is what the walk from it sees, and  *)
(* the other end of it is where the walk ends.                             *)
(***************************************************************************)
Seen(f) == {f[k] : k \in {n \in Nat : f[n] \in Ports}}
             \cup {Far(f[k]) : k \in {n \in Nat : f[n] \in Ports /\ ByPort(f[n]) # {}}}

LEMMA SeenElements ==
  ASSUME NEW f
  PROVE  \A x : x \in Seen(f) <=>
           \E k \in Nat : f[k] \in Ports /\ (x = f[k] \/ (ByPort(f[k]) # {} /\ x = Far(f[k])))
BY DEF Seen

LEMMA SeenIsComplete ==
  ASSUME Wired, NEW f, NEW p \in Outlets, Walks(f, p)
  PROVE  Seen(f) \in SUBSET Places /\ Complete(Seen(f))
<1>0. p \in Ports /\ Peer[p] = None /\ f[0] = p
  BY DEF Outlets, Walks
<1>1. Seen(f) \in SUBSET Places
  <2> SUFFICES ASSUME NEW x \in Seen(f) PROVE x \in Places
    OBVIOUS
  <2> QED BY SeenElements, FarEnd DEF Places
<1>2. ASSUME NEW x \in Seen(f), NEW y \in Joined(x) PROVE y \in Seen(f)
  <2>1. PICK k \in Nat : /\ f[k] \in Ports
                         /\ x = f[k] \/ (ByPort(f[k]) # {} /\ x = Far(f[k]))
    BY <1>2, SeenElements
  <2>2. CASE \E c \in cables : x \in Ends(c) /\ y \in Ends(c)
    <3>1. PICK c \in cables : x \in Ends(c) /\ y \in Ends(c)
      BY <2>2
    <3>2. c \in CablesAt(x)
      BY <3>1 DEF CablesAt
    <3>3. ByPort(f[k]) # {}
      BY <2>1, <3>2 DEF ByPort
    <3>4. Ends(c) = {f[k], Far(f[k])}
      BY <2>1, <3>2, <3>3, FarEnd DEF ByPort
    <3> QED BY <2>1, <3>1, <3>3, <3>4, SeenElements
  <2>3. CASE x \in Ports /\ y = Peer[x] /\ y # None
    <3>1. CASE x = f[k]
      <4>1. k # 0
        BY <1>0, <2>3, <3>1
      <4>2. k - 1 \in Nat /\ (k - 1) + 1 = k
        BY <4>1
      <4>3. f[k - 1] \in Ports /\ Peer[f[k]] = Far(f[k - 1]) /\ ByPort(f[k - 1]) # {}
        BY <1>0, <2>1, <4>2, WalkStep
      <4> QED BY <2>3, <3>1, <4>2, <4>3, SeenElements
    <3>2. CASE ByPort(f[k]) # {} /\ x = Far(f[k])
      <4>1. Goes(f[k])
        BY <2>3, <3>2, CableTraceAssumption DEF Goes
      <4>2. f[k + 1] = y /\ f[k + 1] \in Ports /\ k + 1 \in Nat
        BY <1>0, <2>1, <2>3, <3>2, <4>1, WalkStep
      <4> QED BY <4>2, SeenElements
    <3> QED BY <2>1, <3>1, <3>2
  <2> QED BY <1>2, <2>2, <2>3, JoinedTo
<1> QED
  BY <1>1, <1>2 DEF Complete

LEMMA StrandIsSeen ==
  ASSUME Wired, NEW f, NEW p \in Outlets, Walks(f, p)
  PROVE  Strand(p) = Seen(f)
<1>0. p \in Ports /\ f[0] = p
  BY DEF Outlets, Walks
<1>1. {p} \in SUBSET Places /\ p \in Seen(f)
  BY <1>0, SeenElements DEF Places
<1>2. Least({p}) \subseteq Seen(f)
  BY <1>1, SeenIsComplete, LeastIsLeast
<1>3. Least({p}) \in SUBSET Places /\ p \in Least({p}) /\ Complete(Least({p}))
  <2>1. Least({p}) \in SUBSET Places
    BY DEF Least
  <2> QED BY <1>1, <2>1, LeastIsComplete
<1>4. \A k \in Nat : f[k] \in Ports => f[k] \in Least({p})
  <2> DEFINE S == {k \in Nat : f[k] \in Ports => f[k] \in Least({p})}
  <2>1. 0 \in S
    BY <1>0, <1>3
  <2>2. ASSUME NEW k \in Nat, k \in S PROVE k + 1 \in S
    <3> SUFFICES ASSUME f[k + 1] \in Ports PROVE f[k + 1] \in Least({p})
      OBVIOUS
    <3>1. f[k] \in Ports /\ Goes(f[k]) /\ f[k + 1] = Peer[Far(f[k])]
      BY <1>0, WalkStep
    <3> QED BY <1>3, <2>2, <3>1, OnStrand
  <2>3. \A k \in Nat : k \in S
    <3> HIDE DEF S
    <3> QED BY <2>1, <2>2, Inductive
  <2> QED BY <2>3
<1>5. Seen(f) \subseteq Least({p})
  <2> SUFFICES ASSUME NEW x \in Seen(f) PROVE x \in Least({p})
    OBVIOUS
  <2>1. PICK k \in Nat : /\ f[k] \in Ports
                         /\ x = f[k] \/ (ByPort(f[k]) # {} /\ x = Far(f[k]))
    BY SeenElements
  <2> QED BY <1>3, <1>4, <2>1, OnStrand
<1> QED
  BY <1>0, <1>2, <1>5, StrandIsLeast

(* The round in which a walk meets the end of its strand.                  *)
Last(f, k) == k \in Nat /\ f[k] \in Ports /\ ByPort(f[k]) # {} /\ ~Goes(f[k])

LEMMA EndOfStrand ==
  ASSUME Wired, NEW f, NEW p \in Outlets, Walks(f, p)
  PROVE  \A x : x \in (Strand(p) \cap (Entities \cup Outlets)) \ {p}
                  <=> \E k \in Nat : Last(f, k) /\ x = Far(f[k])
<1>0. p \in Ports /\ Peer[p] = None /\ f[0] = p
  BY DEF Outlets, Walks
<1>1. ASSUME NEW x \in Seen(f) \cap (Entities \cup Outlets), x # p
      PROVE  \E k \in Nat : Last(f, k) /\ x = Far(f[k])
  <2>1. PICK k \in Nat : /\ f[k] \in Ports
                         /\ x = f[k] \/ (ByPort(f[k]) # {} /\ x = Far(f[k]))
    BY SeenElements
  <2>2. x # f[k]
    <3> SUFFICES ASSUME x = f[k] PROVE FALSE
      OBVIOUS
    <3>1. k - 1 \in Nat /\ (k - 1) + 1 = k
      BY <1>0, <1>1
    <3>2. Peer[x] \in Ports
      BY <1>0, <2>1, <3>1, WalkStep
    <3>3. x \in Outlets
      BY <1>1, <2>1, CableTraceAssumption
    <3> QED BY <3>2, <3>3, CableTraceAssumption DEF Outlets
  <2>3. ~Goes(f[k])
    <3>1. Far(f[k]) \in Ports => Far(f[k]) \in Outlets
      BY <1>1, <2>1, <2>2, CableTraceAssumption
    <3> QED BY <2>1, <2>2, <3>1, NextPort DEF Goes, Outlets
  <2> QED BY <2>1, <2>2, <2>3 DEF Last
<1>2. ASSUME NEW k \in Nat, Last(f, k)
      PROVE  Far(f[k]) \in (Seen(f) \cap (Entities \cup Outlets)) \ {p}
  <2>1. f[k] \in Ports /\ ByPort(f[k]) # {} /\ ~Goes(f[k])
    BY <1>2 DEF Last
  <2>2. Far(f[k]) \in Seen(f)
    BY <2>1, SeenElements
  <2>3. Far(f[k]) \in Entities \cup Outlets
    BY <2>1, FarEnd DEF Goes, Outlets
  <2>4. Far(f[k]) # p
    <3> SUFFICES ASSUME Far(f[k]) = p PROVE FALSE
      OBVIOUS
    <3>1. Far(p) = f[k] /\ ByPort(p) # {}
      BY <1>0, <2>1, FarEnd DEF ByPort
    <3>2. 0 + k = k
      OBVIOUS
    <3> QED BY <1>0, <2>1, <3>1, <3>2, NoReturn
  <2> QED BY <2>2, <2>3, <2>4
<1> QED
  BY <1>1, <1>2, StrandIsSeen

LEMMA LastIsUnique ==
  ASSUME Wired, NEW f, NEW p \in Ports, Walks(f, p),
         NEW k \in Nat, Last(f, k), NEW n \in Nat, f[n] \in Ports
  PROVE  n <= k
<1> SUFFICES ASSUME k < n PROVE FALSE
  BY DEF Last
<1> QED
  BY WalkPrefix DEF Last

(* Every round but none twice takes another cable, and there is no other.  *)
LEMMA LengthOfStrand ==
  ASSUME Wired, NEW f, NEW p \in Outlets, Walks(f, p), NEW k \in Nat, Last(f, k)
  PROVE  StrandLength(p) = k + 1
<1> DEFINE on == {c \in cables : Ends(c) \subseteq Strand(p)}
           at(q) == CHOOSE c \in ByPort(q) : TRUE
           g == [i \in 1..(k + 1) |-> at(f[i - 1])]
<1>0. p \in Ports /\ f[0] = p
  BY DEF Outlets, Walks
<1>1. ASSUME NEW n \in Nat, n <= k
      PROVE  f[n] \in Ports /\ ByPort(f[n]) # {}
  <2>1. f[k] \in Ports /\ ByPort(f[k]) # {}
    BY DEF Last
  <2>2. f[n] \in Ports /\ (n < k => Goes(f[n]))
    BY <1>0, <1>1, <2>1, WalkPrefix
  <2> QED BY <1>1, <2>1, <2>2 DEF Goes
<1>2. ASSUME NEW q \in Ports, ByPort(q) # {}
      PROVE  /\ at(q) \in cables /\ ByPort(q) = {at(q)} /\ CablesAt(Far(q)) = {at(q)}
             /\ Ends(at(q)) = {q, Far(q)}
  <2>1. PICK c \in cables : /\ ByPort(q) = {c} /\ Ends(c) = {q, Far(q)}
                            /\ CablesAt(Far(q)) = {c}
    BY <1>2, FarEnd
  <2>2. at(q) = c
    BY <2>1
  <2> HIDE DEF at
  <2> QED BY <2>1, <2>2
<1>3. ASSUME NEW n \in Nat, n <= k PROVE at(f[n]) \in on
  <2>1. f[n] \in Seen(f) /\ Far(f[n]) \in Seen(f)
    BY <1>1, <1>3, SeenElements
  <2> HIDE DEF at
  <2> QED BY <1>1, <1>2, <1>3, <2>1, StrandIsSeen
<1>4. ASSUME NEW c \in on PROVE \E n \in 0..k : c = at(f[n])
  <2>1. c.a \in Ends(c) /\ c.a \in Seen(f)
    BY StrandIsSeen DEF Ends
  <2>2. PICK n \in Nat : /\ f[n] \in Ports
                         /\ c.a = f[n] \/ (ByPort(f[n]) # {} /\ c.a = Far(f[n]))
    BY <2>1, SeenElements
  <2>3. n <= k
    BY <1>0, <2>2, LastIsUnique
  <2>4. c \in CablesAt(c.a)
    BY <2>1 DEF CablesAt
  <2>5. c = at(f[n])
    <3> HIDE DEF at
    <3> QED BY <1>1, <1>2, <2>2, <2>3, <2>4 DEF ByPort
  <2> HIDE DEF at
  <2> QED BY <2>3, <2>5
<1>5. ASSUME NEW i \in Nat, NEW n \in Nat, i < n, n <= k PROVE at(f[i]) # at(f[n])
  <2>1. /\ f[i] \in Ports /\ ByPort(f[i]) # {}
        /\ f[n] \in Ports /\ ByPort(f[n]) # {}
    BY <1>1, <1>5
  <2>2. f[i] # f[n]
    BY <1>5, <2>1, NoRevisit
  <2>3. f[n] # Far(f[i])
    <3> DEFINE d == n - i
    <3>1. d \in Nat /\ i + d = n
      BY <1>5
    <3> HIDE DEF d
    <3> QED BY <1>0, <2>1, <3>1, NoReturn
  <2> HIDE DEF at
  <2> QED BY <1>2, <2>1, <2>2, <2>3
<1>6. g \in Bijection(1..(k + 1), on)
  <2> HIDE DEF at, on
  <2>1. ASSUME NEW i \in 1..(k + 1) PROVE i - 1 \in Nat /\ i - 1 <= k /\ g[i] = at(f[i - 1])
    OBVIOUS
  <2>2. g \in [1..(k + 1) -> on]
    BY <1>3, <2>1
  <2>3. \A i, j \in 1..(k + 1) : g[i] = g[j] => i = j
    <3> SUFFICES ASSUME NEW i \in 1..(k + 1), NEW j \in 1..(k + 1), i < j PROVE g[i] # g[j]
      OBVIOUS
    <3>1. i - 1 < j - 1
      OBVIOUS
    <3> HIDE DEF g
    <3> QED BY <1>5, <2>1, <3>1
  <2>4. \A c \in on : \E i \in 1..(k + 1) : g[i] = c
    <3> SUFFICES ASSUME NEW c \in on PROVE \E i \in 1..(k + 1) : g[i] = c
      OBVIOUS
    <3>1. PICK n \in 0..k : c = at(f[n])
      BY <1>4
    <3>2. n + 1 \in 1..(k + 1) /\ (n + 1) - 1 = n
      OBVIOUS
    <3>3. g[n + 1] = at(f[n])
      BY <3>2
    <3> HIDE DEF g
    <3> QED BY <3>1, <3>2, <3>3
  <2> HIDE DEF g
  <2> QED BY <2>2, <2>3, <2>4 DEF Bijection, Injection, Surjection, IsInjective
<1>7. ExistsBijection(1..(k + 1), on)
  <2> HIDE DEF on, g
  <2> QED BY <1>6 DEF ExistsBijection
<1>8. Cardinality(on) = k + 1
  <2> HIDE DEF on
  <2>1. k + 1 \in Nat
    OBVIOUS
  <2> QED BY <1>7, <2>1, FS_CountingElements
<1> QED
  BY <1>8 DEF StrandLength

(* A trace that ends in round k + 1 finds the end if the limit allows that *)
(* many rounds, and nothing if it does not.                                *)
LEMMA TraceToLast ==
  ASSUME Wired, NEW f, NEW p \in Ports, Walks(f, p), NEW k \in Nat, Last(f, k)
  PROVE  TraceFrom(p) = IF k + 1 <= MaxTraceHops THEN Far(f[k]) ELSE None
<1>1. f[k] \in Ports /\ ByPort(f[k]) # {} /\ ~Goes(f[k]) /\ MaxTraceHops \in Nat
  BY CableTraceAssumption DEF Last
<1>2. CASE k + 1 <= MaxTraceHops
  <2>1. TraceFrom(p) = TraceWithin[MaxTraceHops - k][f[k]]
    BY <1>1, <1>2, TraceAlong
  <2>2. MaxTraceHops - k \in 0..MaxTraceHops /\ MaxTraceHops - k # 0
    BY <1>1, <1>2
  <2> QED BY <1>1, <1>2, <2>1, <2>2, TraceRound
<1>3. CASE ~(k + 1 <= MaxTraceHops)
  <2>1. f[MaxTraceHops] \in Ports
    BY <1>1, <1>3, WalkPrefix
  <2>2. TraceFrom(p) = TraceWithin[MaxTraceHops - MaxTraceHops][f[MaxTraceHops]]
    BY <1>1, <2>1, TraceAlong
  <2>3. MaxTraceHops - MaxTraceHops = 0 /\ 0 \in 0..MaxTraceHops
    BY <1>1
  <2> QED BY <1>3, <2>1, <2>2, <2>3, TraceRound
<1> QED
  BY <1>2, <1>3

(* A walk that never meets an end leaves the trace with nothing.           *)
LEMMA TraceWithoutEnd ==
  ASSUME Wired, NEW f, NEW p \in Ports, Walks(f, p), \A k \in Nat : ~Last(f, k)
  PROVE  TraceFrom(p) = None
<1> DEFINE Loose(n) == n <= MaxTraceHops /\ f[n] \in Ports
                       /\ (n = MaxTraceHops \/ ByPort(f[n]) = {})
           S == {n \in Nat : (n <= MaxTraceHops /\ f[n] \in Ports) \/ \E k \in Nat : Loose(k)}
<1>0. MaxTraceHops \in Nat
  BY CableTraceAssumption
<1>1. \E k \in Nat : Loose(k)
  <2>1. 0 \in S
    BY <1>0 DEF Walks
  <2>2. ASSUME NEW n \in Nat, n \in S PROVE n + 1 \in S
    <3>1. CASE n <= MaxTraceHops /\ f[n] \in Ports /\ ~Loose(n)
      <4>1. ByPort(f[n]) # {} /\ n # MaxTraceHops
        BY <3>1
      <4>2. Goes(f[n])
        BY <3>1, <4>1 DEF Last
      <4>3. f[n + 1] \in Ports /\ n + 1 <= MaxTraceHops
        BY <1>0, <3>1, <4>1, <4>2, WalkStep
      <4> QED BY <4>3
    <3>2. CASE \E k \in Nat : Loose(k)
      <4> HIDE DEF Loose
      <4> QED BY <3>2
    <3> HIDE DEF Loose
    <3> QED BY <2>2, <3>1, <3>2
  <2>3. MaxTraceHops + 1 \in S
    <3>1. \A n \in Nat : n \in S
      <4> HIDE DEF S
      <4> QED BY <2>1, <2>2, Inductive
    <3> QED BY <1>0, <3>1
  <2> HIDE DEF Loose
  <2> QED BY <1>0, <2>3
<1>2. PICK k \in Nat : Loose(k)
  BY <1>1
<1>3. TraceFrom(p) = TraceWithin[MaxTraceHops - k][f[k]]
  BY <1>2, TraceAlong
<1>4. MaxTraceHops - k \in 0..MaxTraceHops /\ (k = MaxTraceHops => MaxTraceHops - k = 0)
  BY <1>0, <1>2
<1> QED
  BY <1>2, <1>3, <1>4, TraceRound

LEMMA TraceOfWiring ==
  ASSUME Wired
  PROVE  TraceFindsTheEnd
<1>1. ASSUME NEW p \in Outlets
      PROVE  LET ends == (Strand(p) \cap (Entities \cup Outlets)) \ {p}
             IN  IF ends # {} /\ StrandLength(p) <= MaxTraceHops
                   THEN ends = {TraceFrom(p)}
                   ELSE TraceFrom(p) = None
  <2> DEFINE ends == (Strand(p) \cap (Entities \cup Outlets)) \ {p}
  <2>1. p \in Ports
    BY DEF Outlets
  <2>2. PICK f : Walks(f, p)
    BY <2>1, WalkExists
  <2>3. \A x : x \in ends <=> \E k \in Nat : Last(f, k) /\ x = Far(f[k])
    BY <2>2, EndOfStrand
  <2>4. CASE \E k \in Nat : Last(f, k)
    <3>1. PICK k \in Nat : Last(f, k)
      BY <2>4
    <3>2. \A n \in Nat : Last(f, n) => n = k
      <4> SUFFICES ASSUME NEW n \in Nat, Last(f, n) PROVE n = k
        OBVIOUS
      <4>1. n <= k /\ k <= n
        BY <2>1, <2>2, <3>1, LastIsUnique DEF Last
      <4> QED BY <4>1
    <3>3. ends = {Far(f[k])}
      <4> HIDE DEF ends
      <4> QED BY <2>3, <3>1, <3>2
    <3>4. StrandLength(p) = k + 1
      BY <2>2, <3>1, LengthOfStrand
    <3>5. TraceFrom(p) = IF k + 1 <= MaxTraceHops THEN Far(f[k]) ELSE None
      BY <2>1, <2>2, <3>1, TraceToLast
    <3> HIDE DEF ends
    <3>6. IF ends # {} /\ StrandLength(p) <= MaxTraceHops
            THEN ends = {TraceFrom(p)} ELSE TraceFrom(p) = None
      BY <3>3, <3>4, <3>5
    <3> QED BY <3>6 DEF ends
  <2>5. CASE \A k \in Nat : ~Last(f, k)
    <3>1. ends = {}
      <4> HIDE DEF ends
      <4> QED BY <2>3, <2>5
    <3>2. TraceFrom(p) = None
      BY <2>1, <2>2, <2>5, TraceWithoutEnd
    <3> QED BY <3>1, <3>2
  <2> QED BY <2>4, <2>5
<1>2. ASSUME NEW p \in Ports, Strand(p) \cap (Entities \cup Outlets) = {}
      PROVE  TraceFrom(p) = None
  BY <1>2, TraceOnStrand
<1> QED
  BY <1>1, <1>2 DEF TraceFindsTheEnd

-----------------------------------------------------------------------------
(***************************************************************************)
(* The catalogue.  The wiring stays one that a lone client can make, and   *)
(* cables only go to entities that exist.                                  *)
(***************************************************************************)
CatalogInv == CatalogTypeOK /\ Wired

LEMMA Plugged ==
  ASSUME Wired, NEW a \in Ports, NEW b \in Places, Plug(a, b)
  PROVE  Wired'
<1> DEFINE new == [a |-> a, b |-> b]
<1>1. new \in Cable /\ new.a = a /\ new.b = b /\ Ends(new) = {a, b}
  BY DEF Cable, Ends, Places
<1> HIDE DEF new
<1>2. cables' = cables \cup {new} /\ a # b /\ \A c \in cables : Ends(c) \cap {a, b} = {}
  BY DEF Plug, new, Cabled, CablesAt
<1>3. IsFiniteSet(cables')
  BY <1>2, FS_AddElement DEF Wired
<1>4. WiringOK' /\ \A c \in cables' : c.a # c.b
  BY <1>1, <1>2 DEF Wired, WiringOK
<1>5. ASSUME NEW c \in cables', NEW d \in cables', Ends(c) \cap Ends(d) # {} PROVE c = d
  BY <1>1, <1>2, <1>5 DEF Wired
<1> QED
  BY <1>3, <1>4, <1>5 DEF Wired, Ends

LEMMA Unplugged ==
  ASSUME Wired, cables' \subseteq cables
  PROVE  Wired'
<1>1. IsFiniteSet(cables')
  BY FS_Subset DEF Wired
<1> QED
  BY <1>1 DEF Wired, WiringOK, Ends

(* A merge that moves a cable moves it to an entity that has none.         *)
LEMMA Rehomed ==
  ASSUME Wired, NEW src \in Entities, NEW tgt \in Entities, src # tgt,
         ~(Cabled(src) /\ Cabled(tgt)),
         cables' = {IF c.b = src THEN [c EXCEPT !.b = tgt] ELSE c : c \in cables}
  PROVE  /\ Wired'
         /\ \A c \in cables' : \/ c \in cables /\ c.b # src
                               \/ c.b = tgt
<1> DEFINE moved(c) == IF c.b = src THEN [c EXCEPT !.b = tgt] ELSE c
           f == [c \in cables |-> moved(c)]
<1>1. ASSUME NEW c \in cables
      PROVE  /\ moved(c) \in Cable /\ moved(c).a = c.a
             /\ moved(c).b = IF c.b = src THEN tgt ELSE c.b
             /\ c.b # src => moved(c) = c
  BY DEF Wired, WiringOK, Cable
<1>2. \A c \in cables : c.a \in Ports /\ c.a \notin Entities
  BY CableTraceAssumption DEF Wired, WiringOK, Cable
<1>3. cables' = {f[c] : c \in cables} /\ f \in [cables -> Cable]
  BY <1>1
<1>4. \A d : d \in cables' <=> \E c \in cables : d = moved(c)
  OBVIOUS
<1> HIDE DEF moved, f
<1>5. IsFiniteSet(cables')
  BY <1>3, ImageFinite DEF Wired
<1>6. WiringOK' /\ \A c \in cables' : c.a # c.b
  BY <1>1, <1>2, <1>4 DEF Wired, WiringOK
<1>7. ASSUME NEW c \in cables, NEW d \in cables, Ends(moved(c)) \cap Ends(moved(d)) # {}
      PROVE  moved(c) = moved(d)
  <2>1. /\ Ends(c) = {c.a, c.b} /\ Ends(d) = {d.a, d.b}
        /\ Ends(moved(c)) = {c.a, moved(c).b} /\ Ends(moved(d)) = {d.a, moved(d).b}
    BY <1>1 DEF Ends
  <2>2. CASE c.b = src \/ d.b = src
    <3>1. \A x \in cables : x.b # tgt
      BY <2>2 DEF Cabled, CablesAt, Ends
    <3>2. c.b = src /\ d.b = src => c = d
      BY <2>1 DEF Wired
    <3> QED BY <1>1, <1>2, <1>7, <2>1, <2>2, <3>1, <3>2 DEF Wired
  <2>3. CASE c.b # src /\ d.b # src
    BY <1>1, <1>7, <2>3 DEF Wired
  <2> QED BY <2>2, <2>3
<1>8. Wired'
  <2>1. ASSUME NEW c \in cables', NEW d \in cables', Ends(c) \cap Ends(d) # {} PROVE c = d
    BY <1>4, <1>7, <2>1
  <2> QED BY <1>5, <1>6, <2>1 DEF Wired, Ends
<1>9. \A c \in cables' : (c \in cables /\ c.b # src) \/ c.b = tgt
  BY <1>1, <1>4
<1> QED
  BY <1>8, <1>9

LEMMA CatalogInvInit == CatalogInit => CatalogInv
<1> SUFFICES ASSUME CatalogInit PROVE CatalogInv
  OBVIOUS
<1>1. cables = {} /\ IsFiniteSet(cables)
  BY FS_EmptySet DEF CatalogInit, NoWires
<1> QED
  BY <1>1 DEF CatalogInit, CatalogInv, CatalogTypeOK, Wired, WiringOK

LEMMA CablingTyping ==
  ASSUME CatalogInv
  PROVE  /\ \A a \in Ports, b \in Ports \cup Entities : Connect(a, b) => CatalogInv'
         /\ \A c \in cables : Disconnect(c) => CatalogInv'
<1>1. ASSUME NEW a \in Ports, NEW b \in Ports \cup Entities, Connect(a, b)
      PROVE  CatalogInv'
  <2>1. Wired'
    BY <1>1, Plugged DEF Connect, CatalogInv, Places
  <2>2. cables' = cables \cup {[a |-> a, b |-> b]} /\ (b \in Entities => b \in entities)
    BY <1>1 DEF Connect, Plug
  <2>3. \A c \in cables' : c.b \in Entities => c.b \in entities
    BY <2>2 DEF CatalogInv, CatalogTypeOK
  <2>4. uplink' \in [Entities -> Devices \cup {None}]
    BY <1>1 DEF Connect, CatalogInv, CatalogTypeOK
  <2> QED BY <1>1, <2>1, <2>3, <2>4 DEF Connect, CatalogInv, CatalogTypeOK, Wired
<1>2. ASSUME NEW c \in cables, Disconnect(c) PROVE CatalogInv'
  <2>1. cables' \subseteq cables
    BY <1>2 DEF Disconnect, Unplug
  <2>2. Wired'
    BY <2>1, Unplugged DEF CatalogInv
  <2> QED BY <1>2, <2>1, <2>2 DEF Disconnect, CatalogInv, CatalogTypeOK, Wired
<1> QED
  BY <1>1, <1>2

LEMMA DrawingTyping ==
  ASSUME CatalogInv
  PROVE  /\ SyncCatalog => CatalogInv'
         /\ \A e \in Entities, d \in Chosen \cup {None} : SetUplink(e, d) => CatalogInv'
         /\ \A d \in Chosen, e \in Entities \cup {None} : AssignMonitor(d, e) => CatalogInv'
         /\ \A e \in Entities, hide \in BOOLEAN : SetDiscoveryState(e, hide) => CatalogInv'
         /\ \A e \in Entities : AddEntity(e) => CatalogInv'
<1> USE DEF CatalogInv, CatalogTypeOK
<1>0. ASSUME UNCHANGED cables PROVE Wired'
  BY <1>0, Unplugged
<1>1. ASSUME SyncCatalog PROVE CatalogInv'
  <2>1. SyncedNodes \subseteq entities
    BY DEF SyncedNodes, Drawable
  <2> QED BY <1>0, <1>1, <2>1 DEF SyncCatalog, WiringOK
<1>2. ASSUME NEW e \in Entities, NEW d \in Chosen \cup {None}, SetUplink(e, d)
      PROVE  CatalogInv'
  BY <1>0, <1>2, TopologyCatalogAssumption DEF SetUplink, WiringOK
<1>3. ASSUME NEW d \in Chosen, NEW e \in Entities \cup {None}, AssignMonitor(d, e)
      PROVE  CatalogInv'
  BY <1>0, <1>3 DEF AssignMonitor, WiringOK
<1>4. ASSUME NEW e \in Entities, NEW hide \in BOOLEAN, SetDiscoveryState(e, hide)
      PROVE  CatalogInv'
  BY <1>0, <1>4 DEF SetDiscoveryState, WiringOK
<1>5. ASSUME NEW e \in Entities, AddEntity(e) PROVE CatalogInv'
  BY <1>0, <1>5 DEF AddEntity, WiringOK
<1> QED
  BY <1>1, <1>2, <1>3, <1>4, <1>5

LEMMA ForgetTyping ==
  ASSUME CatalogInv, NEW e \in Entities, Forget(e), Wired',
         \A c \in cables' : c.b \in Entities => c.b \in entities \ {e}
  PROVE  CatalogInv'
<1>1. /\ entities' = entities \ {e} /\ shelved' = shelved \ {e} /\ nodes' = nodes \ {e}
      /\ uplink' \in [Entities -> Devices \cup {None}]
      /\ monitor' \in [Devices -> Entities \cup {None}]
  BY DEF Forget, CatalogInv, CatalogTypeOK
<1> QED
  BY <1>1 DEF CatalogInv, CatalogTypeOK, Wired

LEMMA RemovalTyping ==
  ASSUME CatalogInv
  PROVE  /\ \A e \in Entities : RemoveEntity(e) => CatalogInv'
         /\ \A src, tgt \in Entities : Merge(src, tgt) => CatalogInv'
<1>1. ASSUME NEW e \in Entities, RemoveEntity(e) PROVE CatalogInv'
  <2>1. cables' = cables \ CablesAt(e) /\ Forget(e)
    BY <1>1 DEF RemoveEntity
  <2>2. Wired'
    BY <2>1, Unplugged DEF CatalogInv
  <2>3. \A c \in cables' : c.b \in Entities => c.b \in entities \ {e}
    BY <2>1 DEF CatalogInv, CatalogTypeOK, CablesAt, Ends
  <2> QED BY <2>1, <2>2, <2>3, ForgetTyping
<1>2. ASSUME NEW src \in Entities, NEW tgt \in Entities, Merge(src, tgt)
      PROVE  CatalogInv'
  <2>1. /\ src # tgt /\ tgt \in entities /\ ~(Cabled(src) /\ Cabled(tgt)) /\ Forget(src)
        /\ cables' = {IF c.b = src THEN [c EXCEPT !.b = tgt] ELSE c : c \in cables}
    BY <1>2 DEF Merge
  <2>2. /\ Wired'
        /\ \A c \in cables' : (c \in cables /\ c.b # src) \/ c.b = tgt
    BY <2>1, Rehomed DEF CatalogInv
  <2>3. \A c \in cables' : c.b \in Entities => c.b \in entities \ {src}
    BY <2>1, <2>2 DEF CatalogInv, CatalogTypeOK
  <2> QED BY <2>1, <2>2, <2>3, ForgetTyping
<1> QED
  BY <1>1, <1>2

LEMMA CatalogInvStep == CatalogInv /\ [CatalogNext]_catalogVars => CatalogInv'
<1> SUFFICES ASSUME CatalogInv, [CatalogNext]_catalogVars PROVE CatalogInv'
  OBVIOUS
<1>1. CASE UNCHANGED catalogVars
  BY <1>1, Unplugged DEF catalogVars, CatalogInv, CatalogTypeOK, WiringOK
<1>2. CASE CatalogNext
  BY <1>2, CablingTyping, DrawingTyping, RemovalTyping DEF CatalogNext
<1> QED
  BY <1>1, <1>2

(* Only what has a cable can be at the end of a trace.                     *)
LEMMA TraceEndsAtACable ==
  ASSUME CatalogInv, NEW p \in Ports
  PROVE  /\ TraceEntity(p) # None => TraceEntity(p) \in entities
         /\ TraceFarPort(p) # None => TraceFarPort(p) \in Ports
<1> DEFINE X == Ports \cup entities
<1>1. X \in SUBSET Places /\ Wired
  BY DEF CatalogInv, CatalogTypeOK, Places
<1>2. \A c \in cables : Ends(c) \subseteq X
  BY DEF CatalogInv, CatalogTypeOK, WiringOK, Cable, Ends
<1>3. ASSUME NEW x \in X, NEW y \in Joined(x) PROVE y \in X
  BY <1>2, <1>3, JoinedTo, CableTraceAssumption
<1>4. Strand(p) \subseteq X
  <2> HIDE DEF X
  <2>1. Complete(X)
    BY <1>3 DEF Complete
  <2>2. {p} \subseteq X
    BY DEF X
  <2> QED BY <1>1, <2>1, <2>2, LeastIsLeast, StrandIsLeast
<1>5. TraceFrom(p) = None \/ TraceFrom(p) \in Strand(p)
  BY <1>1, TraceOnStrand
<1> QED
  BY <1>4, <1>5, CableTraceAssumption DEF TraceEntity, TraceFarPort

LEMMA DrawingOfTypes ==
  ASSUME CatalogInv
  PROVE  OnlyUndrawnCablesBreak
<1>1. ASSUME NEW l \in TrunkLines PROVE l.ends \cap Entities = {}
  <2>1. PICK p \in Fronts : /\ TraceFarPort(p) # None
                            /\ l = Line(DeviceOf[p], DeviceOf[TraceFarPort(p)], "physical")
    BY <1>1 DEF TrunkLines
  <2>2. p \in Ports /\ TraceFarPort(p) \in Ports
    BY <2>1, TraceEndsAtACable, TopologyCatalogAssumption
  <2>3. l.ends \subseteq Devices
    BY <2>1, <2>2, TopologyCatalogAssumption DEF Line
  <2> QED BY <2>3, TopologyCatalogAssumption
<1>2. ASSUME NEW l \in UplinkLines PROVE l.ends \cap Entities \subseteq SyncedNodes
  <2>1. PICK e \in Drawable : uplink[e] # None /\ l = Line(uplink[e], e, "portless")
    BY <1>2 DEF UplinkLines
  <2>2. e \in Entities /\ uplink[e] \in Devices
    BY <2>1 DEF Drawable, CatalogInv, CatalogTypeOK
  <2>3. l.ends = {uplink[e], e}
    BY <2>1 DEF Line
  <2> QED BY <2>1, <2>2, <2>3, TopologyCatalogAssumption DEF SyncedNodes
<1>3. ASSUME NEW l \in EntityLines
      PROVE  l.ends \cap Entities \subseteq SyncedNodes \cup Monitors \cup (shelved \ nodes)
  <2>1. PICK p \in Fronts : /\ TraceEntity(p) # None
                            /\ l = Line(DeviceOf[p], TraceEntity(p), "physical")
    BY <1>3 DEF EntityLines
  <2>2. p \in Ports /\ TraceEntity(p) \in entities /\ DeviceOf[p] \in Devices
    BY <2>1, TraceEndsAtACable, TopologyCatalogAssumption
  <2>3. l.ends = {DeviceOf[p], TraceEntity(p)}
    BY <2>1 DEF Line
  <2>4. TraceEntity(p) \in SyncedNodes \cup Monitors \cup (shelved \ nodes)
    BY <2>2 DEF SyncedNodes, Drawable
  <2> QED BY <2>2, <2>3, <2>4, TopologyCatalogAssumption
<1> QED
  BY <1>1, <1>2, <1>3 DEF OnlyUndrawnCablesBreak, HasNodes

(* The types hold, and whatever comes, goes, merges or is cabled, a cable  *)
(* leads to an entity that exists.                                         *)
THEOREM CatalogTypeCorrect == CatalogSpec => []CatalogTypeOK
<1>1. CatalogInv => CatalogTypeOK
  BY DEF CatalogInv
<1> QED
  BY <1>1, CatalogInvInit, CatalogInvStep, PTL DEF CatalogSpec

(* For every wiring that can be made, over any number of panels and for    *)
(* any limit: a trace finds the other end of its strand up to the limit    *)
(* and no further.                                                         *)
THEOREM TracesFindTheEnd == CatalogSpec => []TraceFindsTheEnd
<1>1. CatalogInv => TraceFindsTheEnd
  BY TraceOfWiring DEF CatalogInv
<1> QED
  BY <1>1, CatalogInvInit, CatalogInvStep, PTL DEF CatalogSpec

(* Nothing breaks the drawing of the catalogue but a cable to a monitor or *)
(* to an entity that was shelved before it was drawn.                      *)
THEOREM OnlyUndrawnCablesEverBreak == CatalogSpec => []OnlyUndrawnCablesBreak
<1>1. CatalogInv => OnlyUndrawnCablesBreak
  BY DrawingOfTypes
<1> QED
  BY <1>1, CatalogInvInit, CatalogInvStep, PTL DEF CatalogSpec

=============================================================================
