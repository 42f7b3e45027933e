--------------------------- MODULE PatchBayProofs ---------------------------
(***************************************************************************)
(* Proofs about PatchBay: type correctness and the exclusivity of ports    *)
(* and entities, for every set of devices, entities, cables and requests.  *)
(***************************************************************************)
EXTENDS PatchBay, FiniteSetTheorems, TLAPS

(* The port count a resize request carries is a natural number.            *)
LEMMA PortCountNat ==
  ASSUME TypeOK, NEW d \in Devices
  PROVE  PortCount(d) \in Nat
<1> DEFINE N == {p.num : p \in {q \in ports : q.dev = d}}
<1>1. N \subseteq 1..MaxPort
  BY DEF TypeOK, Port
<1>2. IsFiniteSet(1..MaxPort)
  BY PatchBayAssumption, FS_Interval
<1>3. IsFiniteSet(N)
  BY <1>1, <1>2, FS_Subset
<1> QED
  BY <1>3, FS_CardinalityType DEF PortCount

(* The values each check writes into req are requests.                     *)
LEMMA RequestTyping ==
  /\ Idle \in Request
  /\ \A a \in Port, b \in Endpoint :
       [kind |-> "create", a |-> a, b |-> b, move |-> None] \in Request
  /\ \A a \in Port, b \in Endpoint, m \in CableIds \cup {None} :
       [kind |-> "set", a |-> a, b |-> b, move |-> m] \in Request
  /\ \A e \in Entities, d \in Devices \cup {None} :
       [kind |-> "uplink", e |-> e, dev |-> d] \in Request
  /\ \A s, t \in Entities, m \in BOOLEAN :
       [kind |-> "merge", src |-> s, tgt |-> t, moves |-> m] \in Request
  /\ \A d \in Devices, k \in Nat, n \in 1..MaxPort :
       [kind |-> "resize", dev |-> d, seen |-> k, n |-> n] \in Request
BY DEF Request, Idle

(* What a request of each kind carries.                                    *)
LEMMA RequestFields ==
  ASSUME NEW q \in Request
  PROVE  /\ q.kind \in {"create", "set"} =>
              q.a \in Port /\ q.b \in Endpoint /\ q.move \in CableIds \cup {None}
         /\ q.kind = "uplink" => q.e \in Entities /\ q.dev \in Devices \cup {None}
         /\ q.kind = "merge" => q.src \in Entities /\ q.tgt \in Entities
         /\ q.kind = "resize" => q.dev \in Devices /\ q.seen \in Nat /\ q.n \in 1..MaxPort
BY DEF Request, Idle

(* Storing a request keeps every type.                                     *)
LEMMA AcceptTyping ==
  ASSUME TypeOK, NEW r \in Requests, NEW q \in Request, Accept(r, q)
  PROVE  TypeOK'
BY DEF TypeOK, Accept, bay

LEMMA DoneTyping ==
  ASSUME TypeOK, NEW r \in Requests, Done(r)
  PROVE  (req \in [Requests -> Request])'
BY RequestTyping DEF TypeOK, Done

LEMMA InsertTyping ==
  ASSUME TypeOK, NEW C \in SUBSET Cable, NEW a \in Port, NEW b \in Endpoint,
         InsertCable(C, a, b), cables \in SUBSET Cable
  PROVE  /\ (cables \subseteq Cable)'
         /\ (unused \subseteq Devices \cup Entities \cup CableIds)'
         /\ (uplink \in [Entities -> Devices \cup {None}])'
BY DEF TypeOK, InsertCable, Insertable, Cable

LEMMA PortRangeTyping == \A d, lo, hi : PortRange(d, lo, hi) \subseteq Port
BY DEF PortRange

-----------------------------------------------------------------------------
LEMMA TypeInit == Init => TypeOK
BY RequestTyping DEF Init, TypeOK

(* A check only stores a request, and a cable request only if admissible.  *)
LEMMA CheckStores ==
  ASSUME TypeOK, NEW r \in Requests, Check(r)
  PROVE  \E q \in Request :
           Accept(r, q) /\ (q.kind \in {"create", "set"} => Admissible(q))
<1>1. ASSUME NEW a \in ports, NEW b \in ports \cup entities, CheckCreate(r, a, b)
      PROVE  \E q \in Request : Accept(r, q) /\ Admissible(q)
  <2>1. a \in Port /\ b \in Endpoint
    BY DEF TypeOK, Endpoint
  <2> QED BY <1>1, <2>1, RequestTyping DEF CheckCreate
<1>2. ASSUME NEW a \in ports, NEW b \in ports \cup entities,
             NEW m \in {c.id : c \in cables} \cup {None}, CheckSet(r, a, b, m)
      PROVE  \E q \in Request : Accept(r, q) /\ Admissible(q)
  <2>1. a \in Port /\ b \in Endpoint /\ m \in CableIds \cup {None}
    BY DEF TypeOK, Endpoint, Cable
  <2> QED BY <1>2, <2>1, RequestTyping DEF CheckSet
<1>3. ASSUME NEW e \in entities, NEW d \in devices \cup {None}, CheckUplink(r, e, d)
      PROVE  \E q \in Request : Accept(r, q) /\ q.kind = "uplink"
  <2>1. e \in Entities /\ d \in Devices \cup {None}
    BY DEF TypeOK
  <2> QED BY <1>3, <2>1, RequestTyping DEF CheckUplink
<1>4. ASSUME NEW s \in entities, NEW t \in entities, CheckMerge(r, s, t)
      PROVE  \E q \in Request : Accept(r, q) /\ q.kind = "merge"
  <2>1. s \in Entities /\ t \in Entities /\ Cabled(s) \in BOOLEAN
    BY DEF TypeOK, Cabled
  <2> QED BY <1>4, <2>1, RequestTyping DEF CheckMerge
<1>5. ASSUME NEW d \in devices, NEW n \in 1..MaxPort, CheckResize(r, d, n)
      PROVE  \E q \in Request : Accept(r, q) /\ q.kind = "resize"
  <2>1. d \in Devices
    BY DEF TypeOK
  <2>2. PortCount(d) \in Nat
    BY <2>1, PortCountNat
  <2> QED BY <1>5, <2>1, <2>2, RequestTyping DEF CheckResize
<1> QED
  BY <1>1, <1>2, <1>3, <1>4, <1>5 DEF Check

LEMMA CheckTyping ==
  ASSUME TypeOK, NEW r \in Requests, Check(r)
  PROVE  TypeOK'
BY CheckStores, AcceptTyping

LEMMA CommitTyping ==
  ASSUME TypeOK, NEW r \in Requests, Commit(r)
  PROVE  TypeOK'
<1> DEFINE q == req[r]
<1>0. q \in Request
  BY DEF TypeOK
<1>1. CASE CommitCreate(r)
  <2>1. q.a \in Port /\ q.b \in Endpoint
    BY <1>0, <1>1, RequestFields DEF CommitCreate
  <2>2. cables \in SUBSET Cable /\ InsertCable(cables, q.a, q.b)
    BY <1>1 DEF CommitCreate, TypeOK
  <2> QED BY <1>1, <2>1, <2>2, InsertTyping, DoneTyping DEF CommitCreate, TypeOK
<1>2. CASE CommitSet(r)
  <2>1. q.a \in Port /\ q.b \in Endpoint
    BY <1>0, <1>2, RequestFields DEF CommitSet
  <2>2. cables \in SUBSET Cable /\ cables \ Displaced(q) \in SUBSET Cable
    BY DEF TypeOK
  <2>3. CASE UNCHANGED <<cables, unused, uplink>>
    BY <1>2, <2>3, DoneTyping DEF CommitSet, TypeOK
  <2>4. CASE InsertCable(cables \ Displaced(q), q.a, q.b)
    BY <1>2, <2>1, <2>2, <2>4, InsertTyping, DoneTyping DEF CommitSet, TypeOK
  <2> QED BY <1>2, <2>3, <2>4 DEF CommitSet
<1>3. CASE CommitUplink(r)
  <2>1. q.e \in Entities /\ q.dev \in Devices \cup {None}
    BY <1>0, <1>3, RequestFields DEF CommitUplink
  <2> QED BY <1>3, <2>1, DoneTyping DEF CommitUplink, TypeOK
<1>4. CASE CommitMerge(r)
  <2>1. q.src \in Entities /\ q.tgt \in Entities
    BY <1>0, <1>4, RequestFields DEF CommitMerge
  <2>2. \A c \in Cable : Rehomed(c, q.src, q.tgt) \in Cable
    BY <2>1 DEF Rehomed, Cable, Endpoint
  <2>3. (cables \subseteq Cable)'
    BY <1>4, <2>2 DEF CommitMerge, TypeOK
  <2> QED BY <1>4, <2>1, <2>3, DoneTyping DEF CommitMerge, TypeOK
<1>5. CASE CommitResize(r)
  <2>1. (ports \subseteq Port)'
    BY <1>5, PortRangeTyping DEF CommitResize, TypeOK
  <2>2. (cables \subseteq Cable)'
    BY <1>5 DEF CommitResize, Surviving, TypeOK
  <2> QED BY <1>5, <2>1, <2>2, DoneTyping DEF CommitResize, TypeOK
<1> QED
  BY <1>1, <1>2, <1>3, <1>4, <1>5 DEF Commit

LEMMA OneStepTyping ==
  ASSUME TypeOK, NEW r \in Requests, OneStep(r)
  PROVE  TypeOK'
<1>1. ASSUME NEW c \in cables, DeleteCable(r, c) PROVE TypeOK'
  BY <1>1 DEF DeleteCable, TypeOK
<1>2. ASSUME NEW p \in ports, ClearPort(r, p) PROVE TypeOK'
  BY <1>2 DEF ClearPort, TypeOK
<1>3. ASSUME NEW e \in entities, DeleteEntity(r, e) PROVE TypeOK'
  BY <1>3 DEF DeleteEntity, TypeOK
<1>4. ASSUME NEW d \in Devices, NEW n \in 1..MaxPort, CreateDevice(r, d, n)
      PROVE  TypeOK'
  BY <1>4, PortRangeTyping DEF CreateDevice, TypeOK
<1>5. ASSUME NEW d \in devices, DeleteDevice(r, d) PROVE TypeOK'
  BY <1>5 DEF DeleteDevice, Surviving, TypeOK
<1> QED
  BY <1>1, <1>2, <1>3, <1>4, <1>5 DEF OneStep

LEMMA TypeStep == TypeOK /\ [Next]_vars => TypeOK'
<1> SUFFICES ASSUME TypeOK, [Next]_vars PROVE TypeOK'
  OBVIOUS
<1>1. ASSUME NEW r \in Requests, Check(r) \/ Commit(r) \/ OneStep(r)
      PROVE  TypeOK'
  BY <1>1, CheckTyping, CommitTyping, OneStepTyping
<1>2. ASSUME NEW e \in Entities, CreateEntity(e) PROVE TypeOK'
  BY <1>2 DEF CreateEntity, TypeOK
<1>3. CASE Restart
  BY <1>3, RequestTyping DEF Restart, TypeOK, bay
<1>4. CASE UNCHANGED vars
  BY <1>4 DEF vars, TypeOK
<1> QED
  BY <1>1, <1>2, <1>3, <1>4 DEF Next

(* Every behaviour of the patch bay is well typed, with any number of      *)
(* requests in flight.                                                     *)
THEOREM TypeCorrect == Spec => []TypeOK
BY TypeInit, TypeStep, PTL DEF Spec

-----------------------------------------------------------------------------
(***************************************************************************)
(* Any number of requests.  The unique indexes work per column: that is    *)
(* enough for entities, which only ever stand in the b column.             *)
(***************************************************************************)
ColumnsUnique == \A c, d \in cables : c # d => c.a # d.a /\ c.b # d.b

LEMMA ColumnsGiveEntities == TypeOK /\ ColumnsUnique => EntityExclusive
BY EndsAssumption DEF TypeOK, ColumnsUnique, EntityExclusive, Ends, Cable

(* A step that only drops cables keeps every exclusivity.                  *)
LEMMA FewerColumns == ColumnsUnique /\ cables' \subseteq cables => ColumnsUnique'
BY DEF ColumnsUnique

LEMMA InsertColumns ==
  ASSUME NEW C, NEW a, NEW b, InsertCable(C, a, b), C \subseteq cables, ColumnsUnique
  PROVE  ColumnsUnique'
BY DEF InsertCable, Insertable, ColumnsUnique

LEMMA MergeColumns ==
  ASSUME TypeOK, ColumnsUnique, NEW r \in Requests, CommitMerge(r)
  PROVE  ColumnsUnique'
<1> DEFINE q == req[r]
<1>1. q.src \in Entities /\ q.tgt \in Entities
  BY RequestFields DEF TypeOK, CommitMerge
<1>2. CASE cables' = {Rehomed(c, q.src, q.tgt) : c \in cables} /\ ~Cabled(q.tgt)
  <2>1. \A c \in cables : c.b # q.tgt
    BY <1>2 DEF Cabled, CablesAt, Ends
  <2>2. \A c \in cables :
          /\ Rehomed(c, q.src, q.tgt).a = c.a
          /\ Rehomed(c, q.src, q.tgt).b = IF c.b = q.src THEN q.tgt ELSE c.b
    BY DEF Rehomed, TypeOK, Cable
  <2> QED BY <1>2, <2>1, <2>2 DEF ColumnsUnique
<1>3. CASE cables' \subseteq cables
  BY <1>3, FewerColumns
<1> QED
  BY <1>2, <1>3 DEF CommitMerge

LEMMA ColumnsStep == TypeOK /\ ColumnsUnique /\ [Next]_vars => ColumnsUnique'
<1> SUFFICES ASSUME TypeOK, ColumnsUnique, [Next]_vars PROVE ColumnsUnique'
  OBVIOUS
<1>1. ASSUME NEW r \in Requests, Check(r) PROVE ColumnsUnique'
  <2>1. UNCHANGED cables
    BY <1>1 DEF Check, CheckCreate, CheckSet, CheckUplink, CheckMerge, CheckResize,
                Accept, bay
  <2> QED BY <2>1, FewerColumns
<1>2. ASSUME NEW r \in Requests, Commit(r) PROVE ColumnsUnique'
  <2>1. CASE CommitCreate(r)
    BY <2>1, InsertColumns DEF CommitCreate
  <2>2. CASE CommitSet(r)
    <3>1. CASE UNCHANGED cables
      BY <3>1, FewerColumns
    <3>2. CASE InsertCable(cables \ Displaced(req[r]), req[r].a, req[r].b)
      <4>1. cables \ Displaced(req[r]) \subseteq cables
        OBVIOUS
      <4> QED BY <3>2, <4>1, InsertColumns
    <3> QED BY <2>2, <3>1, <3>2 DEF CommitSet
  <2>3. CASE CommitUplink(r)
    BY <2>3, FewerColumns DEF CommitUplink
  <2>4. CASE CommitMerge(r)
    BY <2>4, MergeColumns
  <2>5. CASE CommitResize(r)
    BY <2>5, FewerColumns DEF CommitResize, Surviving
  <2> QED BY <1>2, <2>1, <2>2, <2>3, <2>4, <2>5 DEF Commit
<1>3. ASSUME NEW r \in Requests, OneStep(r) PROVE ColumnsUnique'
  <2>1. cables' \subseteq cables
    BY <1>3 DEF OneStep, DeleteCable, ClearPort, DeleteEntity, CreateDevice,
                DeleteDevice, Surviving
  <2> QED BY <2>1, FewerColumns
<1>4. ASSUME NEW e \in Entities, CreateEntity(e) PROVE ColumnsUnique'
  BY <1>4, FewerColumns DEF CreateEntity
<1>5. CASE Restart \/ UNCHANGED vars
  BY <1>5, FewerColumns DEF Restart, bay, vars
<1> QED
  BY <1>1, <1>2, <1>3, <1>4, <1>5 DEF Next

(* An entity never hangs on two ports, with any number of requests in      *)
(* flight: the unique index on b_entity_id is enough.                      *)
THEOREM EntityHasOneCable == Spec => []EntityExclusive
<1>1. Init => ColumnsUnique
  BY DEF Init, ColumnsUnique
<1>2. Spec => []ColumnsUnique
  BY <1>1, ColumnsStep, TypeCorrect, PTL DEF Spec
<1> QED
  BY <1>2, TypeCorrect, ColumnsGiveEntities, PTL

-----------------------------------------------------------------------------
(***************************************************************************)
(* One request at a time.  Then no port carries two cables either.  The    *)
(* invariant that carries the proof says that what the one request in      *)
(* flight has validated still holds when it commits: nothing but that      *)
(* request and the arrival of a new entity can move.                       *)
(***************************************************************************)
OneAtATime == \A q, r \in Requests : q = r

EndsExclusive == \A c, d \in cables : c # d => Ends(c) \cap Ends(d) = {}

PendingAdmissible ==
  \A r \in Requests : req[r].kind \in {"create", "set"} => Admissible(req[r])

SerialInv == EndsExclusive /\ PendingAdmissible

LEMMA FewerEnds == EndsExclusive /\ cables' \subseteq cables => EndsExclusive'
BY DEF EndsExclusive, Ends

LEMMA EndsGivePorts == EndsExclusive => PortExclusive
BY DEF EndsExclusive, PortExclusive

(* A cable may be inserted among C when C touches neither of its ends.     *)
LEMMA InsertEnds ==
  ASSUME NEW C, NEW a, NEW b, InsertCable(C, a, b), C \subseteq cables, EndsExclusive,
         \A c \in C : {a, b} \cap Ends(c) = {}
  PROVE  EndsExclusive'
<1>1. CASE UNCHANGED cables
  BY <1>1, FewerEnds
<1>2. CASE \E id : cables' = C \cup {[id |-> id, a |-> a, b |-> b]}
  <2>1. PICK id : cables' = C \cup {[id |-> id, a |-> a, b |-> b]}
    BY <1>2
  <2>2. Ends([id |-> id, a |-> a, b |-> b]) = {a, b}
    BY DEF Ends
  <2>3. \A c \in C : \A d \in C : c # d => Ends(c) \cap Ends(d) = {}
    BY DEF EndsExclusive
  <2>4. \A c, d \in cables' : c # d => Ends(c) \cap Ends(d) = {}
    BY <2>1, <2>2, <2>3
  <2> QED BY <2>4 DEF EndsExclusive, Ends
<1> QED
  BY <1>1, <1>2 DEF InsertCable

(* What a validated request displaces clears both ends it asks for.        *)
LEMMA AdmissibleClears ==
  ASSUME TypeOK, EndsExclusive, NEW q \in Request, q.kind \in {"create", "set"},
         Admissible(q), NEW C, C = IF q.kind = "set" THEN cables \ Displaced(q) ELSE cables
  PROVE  \A c \in C : {q.a, q.b} \cap Ends(c) = {}
<1>1. CASE q.kind = "create"
  <2>1. \A c \in cables : c.id # q.move
    BY <1>1, PatchBayAssumption DEF Request, Idle, TypeOK, Cable
  <2>2. CablesAt(q.a) = {} /\ CablesAt(q.b) = {}
    BY <1>1, <2>1 DEF Admissible, CablesAt
  <2> QED BY <1>1, <2>2 DEF CablesAt
<1>2. CASE q.kind = "set"
  <2>1. \A c \in C : q.a \notin Ends(c)
    BY <1>2 DEF Displaced, CablesAt
  <2>2. CASE CablesAt(q.b) = {}
    BY <1>2, <2>1, <2>2 DEF CablesAt
  <2>3. ASSUME NEW d \in CablesAt(q.b), d.id = q.move \/ d.a = q.a
        PROVE  \A c \in C : q.b \notin Ends(c)
    <3>1. d \in cables /\ d \in Displaced(q) /\ q.b \in Ends(d)
      BY <2>3 DEF Displaced, CablesAt, Ends
    <3>2. \A c \in cables : q.b \in Ends(c) => c = d
      BY <3>1 DEF EndsExclusive
    <3> QED BY <1>2, <3>1, <3>2
  <2> QED BY <1>2, <2>1, <2>2, <2>3 DEF Admissible
<1> QED
  BY <1>1, <1>2

LEMMA MergeEnds ==
  ASSUME TypeOK, EndsExclusive, NEW r \in Requests, CommitMerge(r)
  PROVE  EndsExclusive'
<1> DEFINE q == req[r]
<1>1. q.src \in Entities /\ q.tgt \in Entities
  BY RequestFields DEF TypeOK, CommitMerge
<1>2. CASE cables' = {Rehomed(c, q.src, q.tgt) : c \in cables} /\ ~Cabled(q.tgt)
  <2>1. \A c \in cables : q.tgt \notin Ends(c) /\ c.a # q.src
    BY <1>1, <1>2, EndsAssumption DEF Cabled, CablesAt, Ends, TypeOK, Cable
  <2>2. \A c \in cables :
          Ends(Rehomed(c, q.src, q.tgt)) = {c.a, IF c.b = q.src THEN q.tgt ELSE c.b}
    BY DEF Rehomed, TypeOK, Cable, Ends
  <2>3. \A c, d \in cables :
          c # d => Ends(Rehomed(c, q.src, q.tgt)) \cap Ends(Rehomed(d, q.src, q.tgt)) = {}
    <3>1. SUFFICES ASSUME NEW c \in cables, NEW d \in cables, c # d
                   PROVE  Ends(Rehomed(c, q.src, q.tgt)) \cap Ends(Rehomed(d, q.src, q.tgt)) = {}
      OBVIOUS
    <3>2. {c.a, c.b} \cap {d.a, d.b} = {}
      BY <3>1 DEF EndsExclusive, Ends
    <3> QED BY <2>1, <2>2, <3>2 DEF Ends
  <2>4. \A c, d \in cables' : c # d => Ends(c) \cap Ends(d) = {}
    BY <1>2, <2>3
  <2> QED BY <2>4 DEF EndsExclusive, Ends
<1>3. CASE cables' \subseteq cables
  BY <1>3, FewerEnds
<1> QED
  BY <1>2, <1>3 DEF CommitMerge

(* A commit of the only request in flight.                                 *)
LEMMA CommitEnds ==
  ASSUME TypeOK, SerialInv, NEW r \in Requests, Commit(r)
  PROVE  EndsExclusive'
<1> DEFINE q == req[r]
<1>0. q \in Request /\ EndsExclusive
  BY DEF TypeOK, SerialInv
<1>1. CASE CommitCreate(r)
  <2>1. q.kind = "create" /\ InsertCable(cables, q.a, q.b) /\ Admissible(q)
    BY <1>1 DEF CommitCreate, SerialInv, PendingAdmissible
  <2>2. \A c \in cables : {q.a, q.b} \cap Ends(c) = {}
    BY <1>0, <2>1, AdmissibleClears
  <2> QED BY <1>0, <2>1, <2>2, InsertEnds
<1>2. CASE CommitSet(r)
  <2>1. CASE UNCHANGED cables
    BY <1>0, <2>1, FewerEnds
  <2>2. CASE InsertCable(cables \ Displaced(q), q.a, q.b)
    <3>1. q.kind = "set" /\ Admissible(q)
      BY <1>2 DEF CommitSet, SerialInv, PendingAdmissible
    <3>2. \A c \in cables \ Displaced(q) : {q.a, q.b} \cap Ends(c) = {}
      BY <1>0, <3>1, AdmissibleClears
    <3>3. cables \ Displaced(q) \subseteq cables
      OBVIOUS
    <3> QED BY <1>0, <2>2, <3>2, <3>3, InsertEnds
  <2> QED BY <1>2, <2>1, <2>2 DEF CommitSet
<1>3. CASE CommitUplink(r)
  BY <1>0, <1>3, FewerEnds DEF CommitUplink
<1>4. CASE CommitMerge(r)
  BY <1>0, <1>4, MergeEnds
<1>5. CASE CommitResize(r)
  BY <1>0, <1>5, FewerEnds DEF CommitResize, Surviving
<1> QED
  BY <1>1, <1>2, <1>3, <1>4, <1>5 DEF Commit

LEMMA CheckSerial ==
  ASSUME TypeOK, SerialInv, OneAtATime, NEW r \in Requests, Check(r)
  PROVE  SerialInv'
<1>1. PICK q \in Request :
        Accept(r, q) /\ (q.kind \in {"create", "set"} => Admissible(q))
  BY CheckStores
<1>2. UNCHANGED bay /\ req' = [x \in Requests |-> q]
  BY <1>1 DEF Accept, OneAtATime, TypeOK
<1>3. q.kind \in {"create", "set"} => Admissible(q)'
  BY <1>1, <1>2 DEF Admissible, CablesAt, Ends, bay
<1> QED
  BY <1>2, <1>3 DEF SerialInv, EndsExclusive, PendingAdmissible, bay, Ends

(* A commit, and a request done in one step, leaves every thread idle.     *)
LEMMA CommitIdle ==
  ASSUME TypeOK, OneAtATime, NEW r \in Requests, Commit(r)
  PROVE  \A x \in Requests : (req[x] = Idle)'
<1>1. Done(r)
  BY DEF Commit, CommitCreate, CommitSet, CommitUplink, CommitMerge, CommitResize
<1> QED
  BY <1>1 DEF Done, OneAtATime, TypeOK

LEMMA OneStepSerial ==
  ASSUME TypeOK, SerialInv, OneAtATime, NEW r \in Requests, OneStep(r)
  PROVE  SerialInv'
<1>1. req[r] = Idle /\ UNCHANGED req
  BY DEF OneStep, DeleteCable, ClearPort, DeleteEntity, CreateDevice, DeleteDevice, Free
<1>2. \A x \in Requests : (req[x] = Idle)'
  BY <1>1 DEF OneAtATime
<1>3. cables' \subseteq cables
  BY DEF OneStep, DeleteCable, ClearPort, DeleteEntity, CreateDevice, DeleteDevice, Surviving
<1>4. EndsExclusive'
  BY <1>3, FewerEnds DEF SerialInv
<1>5. PendingAdmissible'
  BY <1>2 DEF PendingAdmissible, Idle
<1> QED
  BY <1>4, <1>5 DEF SerialInv

LEMMA SerialStep ==
  ASSUME OneAtATime, TypeOK, SerialInv, [Next]_vars
  PROVE  SerialInv'
<1>1. ASSUME NEW r \in Requests, Check(r) PROVE SerialInv'
  BY <1>1, CheckSerial
<1>2. ASSUME NEW r \in Requests, Commit(r) PROVE SerialInv'
  <2>1. EndsExclusive'
    BY <1>2, CommitEnds
  <2>2. PendingAdmissible'
    BY <1>2, CommitIdle DEF PendingAdmissible, Idle
  <2> QED BY <2>1, <2>2 DEF SerialInv
<1>3. ASSUME NEW r \in Requests, OneStep(r) PROVE SerialInv'
  BY <1>3, OneStepSerial
<1>4. ASSUME NEW e \in Entities, CreateEntity(e) PROVE SerialInv'
  \* a new entity makes nothing inadmissible
  <2>1. UNCHANGED <<ports, cables, req>> /\ entities \subseteq entities'
    BY <1>4 DEF CreateEntity
  <2>2. \A q : Admissible(q) => Admissible(q)'
    BY <2>1 DEF Admissible, CablesAt, Ends
  <2> QED BY <2>1, <2>2 DEF SerialInv, EndsExclusive, PendingAdmissible, Ends
<1>5. CASE Restart
  BY <1>5 DEF Restart, bay, SerialInv, EndsExclusive, PendingAdmissible, Idle, Ends
<1>6. CASE UNCHANGED vars
  BY <1>6 DEF vars, SerialInv, EndsExclusive, PendingAdmissible, Admissible, CablesAt, Ends
<1> QED
  BY <1>1, <1>2, <1>3, <1>4, <1>5, <1>6 DEF Next

(* With one request at a time, no port ever carries two cables, neither in *)
(* one column nor across the two: validate_cable is right on its own.      *)
THEOREM PortHasOneCable ==
  ASSUME OneAtATime
  PROVE  Spec => []PortExclusive
<1>1. Init => SerialInv
  BY DEF Init, SerialInv, EndsExclusive, PendingAdmissible, Idle
<1>2. TypeOK /\ SerialInv /\ [Next]_vars => SerialInv'
  BY SerialStep
<1>3. SerialInv => PortExclusive
  BY EndsGivePorts DEF SerialInv
<1> QED
  BY <1>1, <1>2, <1>3, TypeCorrect, PTL DEF Spec

-----------------------------------------------------------------------------
(***************************************************************************)
(* Refinement: one request at a time, the patch bay is a matching of ports *)
(* and entities that changes as CableMatching says.                        *)
(***************************************************************************)
Links == {Ends(c) : c \in cables}

IdsUnique ==
  /\ \A c, d \in cables : c.id = d.id => c = d
  /\ \A c \in cables : c.id \notin unused

LEMMA FewerIds ==
  IdsUnique /\ cables' \subseteq cables /\ unused' \subseteq unused => IdsUnique'
BY DEF IdsUnique

LEMMA InsertIds ==
  ASSUME NEW C, NEW a, NEW b, InsertCable(C, a, b), C \subseteq cables, IdsUnique
  PROVE  IdsUnique'
BY DEF InsertCable, IdsUnique

LEMMA IdsStep == TypeOK /\ IdsUnique /\ [Next]_vars => IdsUnique'
<1> SUFFICES ASSUME TypeOK, IdsUnique, [Next]_vars PROVE IdsUnique'
  OBVIOUS
<1>1. ASSUME NEW r \in Requests, Check(r) PROVE IdsUnique'
  BY <1>1, CheckStores, FewerIds DEF Accept, bay
<1>2. ASSUME NEW r \in Requests, Commit(r) PROVE IdsUnique'
  <2>1. CASE CommitCreate(r)
    BY <2>1, InsertIds DEF CommitCreate
  <2>2. CASE CommitSet(r)
    <3>1. CASE UNCHANGED <<cables, unused>>
      BY <3>1, FewerIds
    <3>2. CASE InsertCable(cables \ Displaced(req[r]), req[r].a, req[r].b)
      <4>1. cables \ Displaced(req[r]) \subseteq cables
        OBVIOUS
      <4> QED BY <3>2, <4>1, InsertIds
    <3> QED BY <2>2, <3>1, <3>2 DEF CommitSet
  <2>3. CASE CommitUplink(r)
    BY <2>3, FewerIds DEF CommitUplink
  <2>4. CASE CommitMerge(r)
    <3>1. CASE cables' \subseteq cables
      BY <2>4, <3>1, FewerIds DEF CommitMerge
    <3>2. CASE cables' = {Rehomed(c, req[r].src, req[r].tgt) : c \in cables}
      <4>1. \A c \in cables : Rehomed(c, req[r].src, req[r].tgt).id = c.id
        BY DEF Rehomed, TypeOK, Cable
      <4> QED BY <2>4, <3>2, <4>1 DEF CommitMerge, IdsUnique
    <3> QED BY <2>4, <3>1, <3>2 DEF CommitMerge
  <2>5. CASE CommitResize(r)
    BY <2>5, FewerIds DEF CommitResize, Surviving
  <2> QED BY <1>2, <2>1, <2>2, <2>3, <2>4, <2>5 DEF Commit
<1>3. ASSUME NEW r \in Requests, OneStep(r) PROVE IdsUnique'
  <2>1. cables' \subseteq cables /\ unused' \subseteq unused
    BY <1>3 DEF OneStep, DeleteCable, ClearPort, DeleteEntity, CreateDevice,
                DeleteDevice, Surviving
  <2> QED BY <2>1, FewerIds
<1>4. ASSUME NEW e \in Entities, CreateEntity(e) PROVE IdsUnique'
  BY <1>4, FewerIds DEF CreateEntity
<1>5. CASE Restart \/ UNCHANGED vars
  BY <1>5, FewerIds DEF Restart, bay, vars
<1> QED
  BY <1>1, <1>2, <1>3, <1>4, <1>5 DEF Next

(* Dropping cables unplugs their links.                                    *)
LEMMA FewerLinks == cables' \subseteq cables => [Matching!Next]_Links
<1> SUFFICES ASSUME cables' \subseteq cables PROVE Matching!Next
  BY DEF Links
<1>1. Links' \subseteq Links
  BY DEF Links, Ends
<1>2. Links' = Links \ (Links \ Links') /\ Links \ Links' \in SUBSET Links
  BY <1>1
<1> QED
  BY <1>2 DEF Matching!Next, Matching!Unplug, Links

(* Inserting a cable plugs its two ends; it displaces at most one link     *)
(* that is not on its own port.                                            *)
LEMMA InsertLinks ==
  ASSUME NEW C \in SUBSET cables, NEW a \in Port, NEW b \in Endpoint, InsertCable(C, a, b),
         \A c \in C : {a, b} \cap Ends(c) = {},
         NEW m, \A c \in cables \ C : a \in Ends(c) \/ Ends(c) = m
  PROVE  [Matching!Next]_Links
<1>1. CASE UNCHANGED cables
  BY <1>1, FewerLinks
<1>2. CASE /\ \E id : cables' = C \cup {[id |-> id, a |-> a, b |-> b]}
           /\ a # b
  <2> DEFINE kept == {Ends(c) : c \in C}
             gone == Links \ kept
  <2>1. Links' = kept \cup {{a, b}}
    <3>1. PICK id : cables' = C \cup {[id |-> id, a |-> a, b |-> b]}
      BY <1>2
    <3>2. Ends([id |-> id, a |-> a, b |-> b]) = {a, b}
      BY DEF Ends
    <3>3. Links' = {Ends(c) : c \in cables'}
      BY DEF Links, Ends
    <3> QED BY <3>1, <3>2, <3>3
  <2>2. kept = Links \ gone /\ gone \in SUBSET Links
    BY DEF Links
  <2>3. {a, b} \cap UNION kept = {}
    OBVIOUS
  <2>4. \A k, l \in gone : a \in k \/ a \in l \/ k = l
    BY DEF Links
  <2>5. a \in Endpoint
    BY DEF Endpoint
  <2>6. Matching!Plug(a, b, gone)
    BY <1>2, <2>1, <2>2, <2>3, <2>4 DEF Matching!Plug, Links
  <2> QED BY <2>2, <2>5, <2>6 DEF Matching!Next, Links
<1> QED
  BY <1>1, <1>2 DEF InsertCable, Insertable

LEMMA MergeLinks ==
  ASSUME TypeOK, NEW r \in Requests, CommitMerge(r)
  PROVE  [Matching!Next]_Links
<1> DEFINE q == req[r]
<1>1. q.src \in Entities /\ q.tgt \in Entities
  BY RequestFields DEF TypeOK, CommitMerge
<1>2. CASE cables' = {Rehomed(c, q.src, q.tgt) : c \in cables} /\ ~Cabled(q.tgt)
  <2> DEFINE renamed(l) == IF q.src \in l THEN (l \ {q.src}) \cup {q.tgt} ELSE l
  <2>1. q.tgt \notin UNION Links
    BY <1>2 DEF Links, Cabled, CablesAt
  <2>2. \A c \in cables : Ends(Rehomed(c, q.src, q.tgt)) = renamed(Ends(c))
    BY <1>1, EndsAssumption DEF Rehomed, TypeOK, Cable, Ends
  <2>3. Links' = {Ends(c) : c \in cables'}
    BY DEF Links, Ends
  <2>4. Links' = {renamed(l) : l \in Links}
    <3>1. Links' = {Ends(Rehomed(c, q.src, q.tgt)) : c \in cables}
      BY <1>2, <2>3
    <3>2. Links' = {renamed(Ends(c)) : c \in cables}
      BY <2>2, <3>1
    <3> QED BY <3>2 DEF Links
  <2>5. Matching!Rehome(q.src, q.tgt)
    BY <2>1, <2>4 DEF Matching!Rehome, Links
  <2>6. q.src \in Endpoint /\ q.tgt \in Endpoint
    BY <1>1 DEF Endpoint
  <2> QED BY <2>5, <2>6 DEF Matching!Next
<1>3. CASE cables' \subseteq cables
  BY <1>3, FewerLinks
<1> QED
  BY <1>2, <1>3 DEF CommitMerge

LEMMA CommitLinks ==
  ASSUME TypeOK, IdsUnique, SerialInv, NEW r \in Requests, Commit(r)
  PROVE  [Matching!Next]_Links
<1> DEFINE q == req[r]
<1>0. q \in Request /\ EndsExclusive
  BY DEF TypeOK, SerialInv
<1>1. CASE CommitCreate(r)
  <2>1. q.kind = "create" /\ InsertCable(cables, q.a, q.b) /\ Admissible(q)
    BY <1>1 DEF CommitCreate, SerialInv, PendingAdmissible
  <2>2. \A c \in cables : {q.a, q.b} \cap Ends(c) = {}
    BY <1>0, <2>1, AdmissibleClears
  <2>3. q.a \in Port /\ q.b \in Endpoint
    BY <1>0, <2>1, RequestFields
  <2>4. cables \in SUBSET cables /\ \A c \in cables \ cables : q.a \in Ends(c) \/ Ends(c) = {}
    OBVIOUS
  <2> QED BY <2>1, <2>2, <2>3, <2>4, InsertLinks
<1>2. CASE CommitSet(r)
  <2>1. CASE UNCHANGED cables
    BY <2>1, FewerLinks
  <2>2. CASE InsertCable(cables \ Displaced(q), q.a, q.b)
    <3>1. q.kind = "set" /\ Admissible(q)
      BY <1>2 DEF CommitSet, SerialInv, PendingAdmissible
    <3>2. \A c \in cables \ Displaced(q) : {q.a, q.b} \cap Ends(c) = {}
      BY <1>0, <3>1, AdmissibleClears
    <3>3. q.a \in Port /\ q.b \in Endpoint
      BY <1>0, <3>1, RequestFields
    <3>4. \E m : \A c \in Displaced(q) : q.a \in Ends(c) \/ Ends(c) = m
      <4>1. CASE \E c \in cables : c.id = q.move
        BY <4>1 DEF Displaced, CablesAt, IdsUnique
      <4>2. CASE ~ \E c \in cables : c.id = q.move
        BY <4>2 DEF Displaced, CablesAt
      <4> QED BY <4>1, <4>2
    <3>5. PICK m : \A c \in Displaced(q) : q.a \in Ends(c) \/ Ends(c) = m
      BY <3>4
    <3>6. /\ cables \ Displaced(q) \in SUBSET cables
          /\ \A c \in cables \ (cables \ Displaced(q)) : q.a \in Ends(c) \/ Ends(c) = m
      BY <3>5
    <3> DEFINE kept == cables \ Displaced(q)
    <3>7. /\ kept \in SUBSET cables /\ InsertCable(kept, q.a, q.b)
          /\ \A c \in kept : {q.a, q.b} \cap Ends(c) = {}
          /\ \A c \in cables \ kept : q.a \in Ends(c) \/ Ends(c) = m
      BY <2>2, <3>2, <3>6
    <3> HIDE DEF kept, q
    <3> QED BY <3>3, <3>7, InsertLinks
  <2> QED BY <1>2, <2>1, <2>2 DEF CommitSet
<1>3. CASE CommitUplink(r)
  BY <1>3, FewerLinks DEF CommitUplink
<1>4. CASE CommitMerge(r)
  BY <1>4, MergeLinks
<1>5. CASE CommitResize(r)
  BY <1>5, FewerLinks DEF CommitResize, Surviving
<1> QED
  BY <1>1, <1>2, <1>3, <1>4, <1>5 DEF Commit

LEMMA LinksStep ==
  ASSUME TypeOK, IdsUnique, SerialInv, [Next]_vars
  PROVE  [Matching!Next]_Links
<1>1. ASSUME NEW r \in Requests, Commit(r) PROVE [Matching!Next]_Links
  BY <1>1, CommitLinks
<1>2. ASSUME NEW r \in Requests, Check(r) PROVE cables' \subseteq cables
  BY <1>2, CheckStores DEF Accept, bay
<1>3. ASSUME NEW r \in Requests, OneStep(r) PROVE cables' \subseteq cables
  BY <1>3 DEF OneStep, DeleteCable, ClearPort, DeleteEntity, CreateDevice,
              DeleteDevice, Surviving
<1>4. ASSUME NEW e \in Entities, CreateEntity(e) PROVE cables' \subseteq cables
  BY <1>4 DEF CreateEntity
<1>5. CASE Restart \/ UNCHANGED vars
  BY <1>5, FewerLinks DEF Restart, bay, vars
<1> QED
  BY <1>1, <1>2, <1>3, <1>4, <1>5, FewerLinks DEF Next

(* With one request at a time, every step of the patch bay plugs, unplugs  *)
(* or rehomes links of a matching as the abstract specification allows.    *)
THEOREM PatchBayImplementsMatching ==
  ASSUME OneAtATime
  PROVE  Spec => ImplementsMatching
<1>1. Init => SerialInv /\ IdsUnique
  BY DEF Init, SerialInv, EndsExclusive, PendingAdmissible, Idle, IdsUnique
<1>2. TypeOK /\ SerialInv /\ IdsUnique /\ [Next]_vars => (SerialInv /\ IdsUnique)'
  BY SerialStep, IdsStep
<1>3. Init => Matching!Init
  BY DEF Init, Matching!Init
<1>4. TypeOK /\ SerialInv /\ IdsUnique /\ [Next]_vars => [Matching!Next]_Links
  BY LinksStep
<1> QED
  BY <1>1, <1>2, <1>3, <1>4, TypeCorrect, PTL
     DEF Spec, ImplementsMatching, Matching!Spec, Links
-----------------------------------------------------------------------------
(***************************************************************************)
(* References, with any number of requests in flight: whatever a commit    *)
(* relies on that its check saw is enforced again by a foreign key.        *)
(***************************************************************************)
LEMMA InsertAnchored ==
  ASSUME TypeOK, Anchored, NEW C \in SUBSET cables, NEW a \in Port, NEW b \in Endpoint,
         InsertCable(C, a, b), UNCHANGED <<devices, ports, entities>>
  PROVE  Anchored'
<1>1. CASE Insertable(C, a, b)
  <2>1. PICK id : cables' = C \cup {[id |-> id, a |-> a, b |-> b]}
    BY <1>1 DEF InsertCable
  <2>2. \A c \in cables' : Ends(c) \subseteq ports \cup entities
    BY <1>1, <2>1 DEF Insertable, Ends, Anchored
  <2>3. \A e \in Entities : uplink'[e] # None => uplink'[e] = uplink[e]
    BY <1>1 DEF InsertCable
  <2> QED BY <2>2, <2>3 DEF Anchored, Ends
<1>2. CASE ~Insertable(C, a, b)
  BY <1>2 DEF InsertCable, Anchored, Ends
<1> QED
  BY <1>1, <1>2

LEMMA MergeAnchored ==
  ASSUME TypeOK, Anchored, NEW r \in Requests, CommitMerge(r)
  PROVE  Anchored'
<1> DEFINE q == req[r]
<1>1. q.src \in Entities /\ q.tgt \in Entities
  BY RequestFields DEF TypeOK, CommitMerge
<1>2. CASE UNCHANGED <<cables, entities, uplink>>
  BY <1>2 DEF CommitMerge, Anchored, Ends
<1>3. CASE /\ entities' = entities \ {q.src}
           /\ uplink' = [uplink EXCEPT ![q.src] = None]
           /\ UNCHANGED <<devices, ports>>
           /\ \/ cables' = cables \ CablesAt(q.src)
              \/ /\ cables' = {Rehomed(c, q.src, q.tgt) : c \in cables}
                 /\ q.tgt \in entities
                 /\ ~Cabled(q.tgt) /\ Cabled(q.src)
  <2>1. \A e \in Entities : uplink'[e] # None => uplink'[e] = uplink[e] /\ e # q.src
    BY <1>1, <1>3 DEF TypeOK
  <2>2. CASE cables' = cables \ CablesAt(q.src)
    <3>1. \A c \in cables' : Ends(c) \subseteq ports \cup entities'
      BY <1>3, <2>2 DEF CablesAt, Anchored
    <3> QED BY <1>3, <2>1, <3>1 DEF Anchored, Ends
  <2>3. CASE /\ cables' = {Rehomed(c, q.src, q.tgt) : c \in cables}
             /\ q.tgt \in entities /\ ~Cabled(q.tgt) /\ Cabled(q.src)
    <3>1. q.src # q.tgt
      BY <2>3
    <3>2. ASSUME NEW c \in cables
          PROVE  Ends(Rehomed(c, q.src, q.tgt)) \subseteq ports \cup entities'
      <4>1. c.a # q.src /\ Ends(c) \subseteq ports \cup entities
        BY <1>1, EndsAssumption DEF TypeOK, Cable, Anchored
      <4>2. Ends(Rehomed(c, q.src, q.tgt)) = {c.a, IF c.b = q.src THEN q.tgt ELSE c.b}
        BY DEF Rehomed, TypeOK, Cable, Ends
      <4> QED BY <1>3, <2>3, <3>1, <4>1, <4>2 DEF Ends
    <3>3. \A c \in cables' : Ends(c) \subseteq ports \cup entities'
      BY <2>3, <3>2
    <3> QED BY <1>3, <2>1, <3>3 DEF Anchored, Ends
  <2> QED BY <1>3, <2>2, <2>3
<1> QED
  BY <1>2, <1>3 DEF CommitMerge

LEMMA CommitAnchored ==
  ASSUME TypeOK, Anchored, NEW r \in Requests, Commit(r)
  PROVE  Anchored'
<1> DEFINE q == req[r]
<1>0. q \in Request
  BY DEF TypeOK
<1>1. CASE CommitCreate(r)
  <2>1. q.a \in Port /\ q.b \in Endpoint
    BY <1>0, <1>1, RequestFields DEF CommitCreate
  <2> QED BY <1>1, <2>1, InsertAnchored DEF CommitCreate
<1>2. CASE CommitSet(r)
  <2>1. q.a \in Port /\ q.b \in Endpoint
    BY <1>0, <1>2, RequestFields DEF CommitSet
  <2>2. CASE UNCHANGED <<cables, unused, uplink>>
    BY <1>2, <2>2 DEF CommitSet, Anchored, Ends
  <2>3. CASE InsertCable(cables \ Displaced(q), q.a, q.b)
    BY <1>2, <2>1, <2>3, InsertAnchored DEF CommitSet
  <2> QED BY <1>2, <2>2, <2>3 DEF CommitSet
<1>3. CASE CommitUplink(r)
  <2>1. q.e \in Entities
    BY <1>0, <1>3, RequestFields DEF CommitUplink
  <2>2. \A e \in Entities : uplink'[e] # None =>
          uplink'[e] = uplink[e] \/ (e \in entities /\ uplink'[e] \in devices)
    BY <1>3, <2>1 DEF CommitUplink, TypeOK
  <2> QED BY <1>3, <2>2 DEF CommitUplink, Anchored, Ends
<1>4. CASE CommitMerge(r)
  BY <1>4, MergeAnchored
<1>5. CASE CommitResize(r)
  <2> DEFINE added == PortRange(q.dev, q.seen + 1, q.n)
  <2>1. \A p \in ports' : p \in ports \/ (p \in added /\ q.dev \in devices)
    BY <1>5 DEF CommitResize
  <2>2. \A p \in added : p.dev = q.dev
    BY DEF PortRange
  <2>3. \A p \in ports' : p.dev \in devices
    BY <2>1, <2>2 DEF Anchored
  <2> QED BY <1>5, <2>3 DEF CommitResize, Anchored, Surviving, Ends
<1> QED
  BY <1>1, <1>2, <1>3, <1>4, <1>5 DEF Commit

LEMMA OneStepAnchored ==
  ASSUME TypeOK, Anchored, NEW r \in Requests, OneStep(r)
  PROVE  Anchored'
<1>1. ASSUME NEW c \in cables, DeleteCable(r, c) PROVE Anchored'
  BY <1>1 DEF DeleteCable, Anchored, Ends
<1>2. ASSUME NEW p \in ports, ClearPort(r, p) PROVE Anchored'
  BY <1>2 DEF ClearPort, Anchored, Ends
<1>3. ASSUME NEW e \in entities, DeleteEntity(r, e) PROVE Anchored'
  BY <1>3 DEF DeleteEntity, Anchored, CablesAt, Ends, TypeOK
<1>4. ASSUME NEW d \in Devices, NEW n \in 1..MaxPort, CreateDevice(r, d, n)
      PROVE  Anchored'
  BY <1>4 DEF CreateDevice, PortRange, Anchored, Ends
<1>5. ASSUME NEW d \in devices, DeleteDevice(r, d) PROVE Anchored'
  BY <1>5 DEF DeleteDevice, Surviving, Anchored, Ends
<1> QED
  BY <1>1, <1>2, <1>3, <1>4, <1>5 DEF OneStep

LEMMA AnchoredStep == TypeOK /\ Anchored /\ [Next]_vars => Anchored'
<1> SUFFICES ASSUME TypeOK, Anchored, [Next]_vars PROVE Anchored'
  OBVIOUS
<1>1. ASSUME NEW r \in Requests, Check(r) PROVE Anchored'
  BY <1>1, CheckStores DEF Accept, bay, Anchored, Ends
<1>2. ASSUME NEW r \in Requests, Commit(r) \/ OneStep(r) PROVE Anchored'
  BY <1>2, CommitAnchored, OneStepAnchored
<1>3. ASSUME NEW e \in Entities, CreateEntity(e) PROVE Anchored'
  BY <1>3 DEF CreateEntity, Anchored, Ends
<1>4. CASE Restart \/ UNCHANGED vars
  BY <1>4 DEF Restart, bay, vars, Anchored, Ends
<1> QED
  BY <1>1, <1>2, <1>3, <1>4 DEF Next

(* No cable, port or uplink refers to something that is gone, with any     *)
(* number of requests in flight and devices shrunk or deleted meanwhile.   *)
THEOREM ReferencesHold == Spec => []Anchored
<1>1. Init => Anchored
  BY DEF Init, Anchored
<1> QED
  BY <1>1, AnchoredStep, TypeCorrect, PTL DEF Spec

-----------------------------------------------------------------------------
(***************************************************************************)
(* One request at a time, again: what an uplink, a merge and a resize have *)
(* seen when they were validated is still so when they commit.             *)
(***************************************************************************)
PendingSeen ==
  \A r \in Requests :
    LET q == req[r]
    IN  /\ q.kind = "uplink" /\ q.dev # None => ~Cabled(q.e)
        /\ q.kind = "merge" => q.moves = Cabled(q.src)
        /\ q.kind = "resize" => q.dev \in devices /\ q.seen = PortCount(q.dev)

LEMMA CheckSeen ==
  ASSUME TypeOK, NEW r \in Requests, Check(r)
  PROVE  \E q \in Request :
           /\ Accept(r, q)
           /\ q.kind = "uplink" /\ q.dev # None => ~Cabled(q.e)
           /\ q.kind = "merge" => q.moves = Cabled(q.src)
           /\ q.kind = "resize" => q.dev \in devices /\ q.seen = PortCount(q.dev)
<1>1. PICK q \in Request : Accept(r, q)
  BY CheckStores
<1>2. req'[r] = q
  BY <1>1 DEF Accept, TypeOK
<1>3. ASSUME NEW a \in ports, NEW b \in ports \cup entities,
             CheckCreate(r, a, b) \/ \E move : CheckSet(r, a, b, move)
      PROVE  q.kind \in {"create", "set"}
  <2>1. CASE CheckCreate(r, a, b)
    BY <1>2, <2>1 DEF CheckCreate, Accept, TypeOK
  <2>2. ASSUME NEW move, CheckSet(r, a, b, move) PROVE q.kind = "set"
    BY <1>2, <2>2 DEF CheckSet, Accept, TypeOK
  <2> QED BY <1>3, <2>1, <2>2
<1>4. ASSUME NEW e \in entities, NEW d \in devices \cup {None}, CheckUplink(r, e, d)
      PROVE  q.kind = "uplink" /\ (q.dev # None => ~Cabled(q.e))
  BY <1>2, <1>4 DEF CheckUplink, Accept, TypeOK
<1>5. ASSUME NEW s \in entities, NEW t \in entities, CheckMerge(r, s, t)
      PROVE  q.kind = "merge" /\ q.moves = Cabled(q.src)
  BY <1>2, <1>5 DEF CheckMerge, Accept, TypeOK
<1>6. ASSUME NEW d \in devices, NEW n \in 1..MaxPort, CheckResize(r, d, n)
      PROVE  q.kind = "resize" /\ q.dev \in devices /\ q.seen = PortCount(q.dev)
  BY <1>2, <1>6 DEF CheckResize, Accept, TypeOK
<1> QED
  BY <1>1, <1>3, <1>4, <1>5, <1>6 DEF Check

LEMMA SeenStep ==
  ASSUME OneAtATime, TypeOK, PendingSeen, [Next]_vars
  PROVE  PendingSeen'
<1>1. ASSUME NEW r \in Requests, Check(r) PROVE PendingSeen'
  <2>1. PICK q \in Request :
          /\ Accept(r, q)
          /\ q.kind = "uplink" /\ q.dev # None => ~Cabled(q.e)
          /\ q.kind = "merge" => q.moves = Cabled(q.src)
          /\ q.kind = "resize" => q.dev \in devices /\ q.seen = PortCount(q.dev)
    BY <1>1, CheckSeen
  <2>2. UNCHANGED bay /\ \A x \in Requests : req'[x] = q
    BY <2>1 DEF Accept, OneAtATime, TypeOK
  <2> QED BY <2>1, <2>2 DEF PendingSeen, Cabled, CablesAt, Ends, PortCount, bay
<1>2. ASSUME NEW r \in Requests, Commit(r) PROVE PendingSeen'
  BY <1>2, CommitIdle DEF PendingSeen, Idle
<1>3. ASSUME NEW r \in Requests, OneStep(r) PROVE PendingSeen'
  <2>1. req[r] = Idle /\ UNCHANGED req
    BY <1>3 DEF OneStep, DeleteCable, ClearPort, DeleteEntity, CreateDevice, DeleteDevice,
                Free
  <2>2. \A x \in Requests : req'[x] = Idle
    BY <2>1 DEF OneAtATime
  <2> QED BY <2>2 DEF PendingSeen, Idle
<1>4. ASSUME UNCHANGED <<devices, ports, cables, req>> PROVE PendingSeen'
  BY <1>4 DEF PendingSeen, Cabled, CablesAt, Ends, PortCount
<1>5. ASSUME NEW e \in Entities, CreateEntity(e) PROVE PendingSeen'
  BY <1>4, <1>5 DEF CreateEntity
<1>6. CASE Restart
  BY <1>6 DEF Restart, PendingSeen, Idle
<1> QED
  BY <1>1, <1>2, <1>3, <1>4, <1>5, <1>6 DEF Next, vars

LEMMA SeenInit == Init => PendingSeen
BY DEF Init, PendingSeen, Idle

(* A step of a merge is the commit of one; one at a time, no other request *)
(* takes an entity away while it is in flight.                             *)
LEMMA MergeStep ==
  ASSUME OneAtATime, TypeOK, PendingSeen, [Next]_vars, NEW r \in Requests,
         req[r].kind = "merge", req'[r] = Idle, req[r].src \in entities \ entities'
  PROVE  (Cabled(req[r].src) \/ Cabled(req[r].tgt))
           <=> (\E c \in cables' : c.b = req[r].tgt)
<1> DEFINE q == req[r]
<1>1. ASSUME NEW o \in Requests, Check(o) PROVE FALSE
  BY <1>1, CheckStores DEF Accept, bay
<1>2. ASSUME NEW o \in Requests, Commit(o), ~CommitMerge(o) PROVE FALSE
  BY <1>2 DEF Commit, CommitCreate, CommitSet, CommitUplink, CommitResize
<1>3. ASSUME NEW o \in Requests, OneStep(o) PROVE FALSE
  BY <1>3 DEF OneStep, DeleteCable, ClearPort, DeleteEntity, CreateDevice, DeleteDevice,
              Free, Idle, OneAtATime
<1>4. ASSUME NEW e \in Entities, CreateEntity(e) PROVE FALSE
  BY <1>4 DEF CreateEntity
<1>5. ~Restart /\ ~UNCHANGED vars
  BY DEF Restart, bay, vars
<1>6. CommitMerge(r)
  BY <1>1, <1>2, <1>3, <1>4, <1>5 DEF Next, OneAtATime
<1>7. q.src \in Entities /\ q.tgt \in Entities /\ q.moves = Cabled(q.src)
  BY RequestFields DEF TypeOK, PendingSeen
<1>8. \A c \in cables : \A e \in Entities : e \in Ends(c) <=> c.b = e
  BY EndsAssumption DEF Ends, TypeOK, Cable
<1>9. CASE Cabled(q.src)
  <2>1. cables' = {Rehomed(c, q.src, q.tgt) : c \in cables}
    BY <1>6, <1>7, <1>9 DEF CommitMerge
  <2>2. PICK c \in cables : c.b = q.src
    BY <1>7, <1>8, <1>9 DEF Cabled, CablesAt
  <2>3. Rehomed(c, q.src, q.tgt).b = q.tgt
    BY <2>2 DEF Rehomed, TypeOK, Cable
  <2> QED BY <1>9, <2>1, <2>3
<1>10. CASE ~Cabled(q.src)
  <2>1. cables' = cables
    BY <1>6, <1>7, <1>10 DEF CommitMerge, Cabled
  <2> QED BY <1>7, <1>8, <1>10, <2>1 DEF Cabled, CablesAt
<1> QED
  BY <1>9, <1>10

(* With one request at a time, a merge that succeeds leaves the target     *)
(* with a cable exactly when one of the two had one.                       *)
THEOREM MergesKeepCables ==
  ASSUME OneAtATime
  PROVE  Spec => MergeKeepsCable
<1>1. TypeOK /\ PendingSeen /\ [Next]_vars =>
        [\A r \in Requests :
           LET q == req[r]
           IN  q.kind = "merge" /\ req'[r] = Idle /\ q.src \in entities \ entities'
                 => ((Cabled(q.src) \/ Cabled(q.tgt)) <=> (\E c \in cables' : c.b = q.tgt))]_vars
  BY MergeStep
<1>2. TypeOK /\ PendingSeen /\ [Next]_vars => PendingSeen'
  BY SeenStep
<1> QED
  BY <1>1, <1>2, SeenInit, TypeCorrect, PTL DEF Spec, MergeKeepsCable

(* Dropping cables and uplinks, and a new cable that clears the uplink of  *)
(* its entity, give no entity both.                                        *)
LEMMA FewerClashes ==
  ASSUME CableXorUplink, cables' \subseteq cables,
         \A e \in Entities : uplink'[e] # None => uplink[e] # None
  PROVE  CableXorUplink'
BY DEF CableXorUplink, Cabled, CablesAt, Ends

LEMMA InsertClears ==
  ASSUME TypeOK, CableXorUplink, NEW C \in SUBSET cables, NEW a \in Port, NEW b,
         InsertCable(C, a, b)
  PROVE  CableXorUplink'
<1>1. CASE Insertable(C, a, b)
  <2>1. PICK id : cables' = C \cup {[id |-> id, a |-> a, b |-> b]}
    BY <1>1 DEF InsertCable
  <2>2. ASSUME NEW e \in Entities, uplink'[e] # None
        PROVE  \A c \in cables' : e \notin Ends(c)
    <3>1. e # b /\ e # a /\ uplink[e] # None
      BY <1>1, <2>2, EndsAssumption DEF InsertCable
    <3>2. \A c \in C : e \notin Ends(c)
      BY <3>1 DEF CableXorUplink, Cabled, CablesAt
    <3> QED BY <2>1, <3>1, <3>2 DEF Ends
  <2> QED BY <2>2 DEF CableXorUplink, Cabled, CablesAt, Ends
<1>2. CASE ~Insertable(C, a, b)
  BY <1>2, FewerClashes DEF InsertCable
<1> QED
  BY <1>1, <1>2

LEMMA ClashStep ==
  ASSUME TypeOK, PendingSeen, [Next]_vars, CableXorUplink,
         \A r \in Requests : req[r].kind # "merge"
  PROVE  CableXorUplink'
<1>1. ASSUME NEW r \in Requests, Check(r) PROVE CableXorUplink'
  BY <1>1, CheckStores, FewerClashes DEF Accept, bay
<1>2. ASSUME NEW r \in Requests, Commit(r) PROVE CableXorUplink'
  <2>0. req[r] \in Request
    BY DEF TypeOK
  <2>1. CASE CommitCreate(r)
    BY <2>0, <2>1, RequestFields, InsertClears DEF CommitCreate
  <2>2. CASE CommitSet(r)
    <3>1. CASE UNCHANGED <<cables, unused, uplink>>
      BY <3>1, FewerClashes
    <3>2. CASE InsertCable(cables \ Displaced(req[r]), req[r].a, req[r].b)
      BY <2>0, <2>2, <3>2, RequestFields, InsertClears DEF CommitSet
    <3> QED BY <2>2, <3>1, <3>2 DEF CommitSet
  <2>3. CASE CommitUplink(r)
    <3>1. /\ req[r].e \in Entities
          /\ req[r].dev # None => ~Cabled(req[r].e)
      BY <2>0, <2>3, RequestFields DEF CommitUplink, PendingSeen
    <3>2. \A e \in Entities : uplink'[e] # None =>
            uplink[e] # None \/ (e = req[r].e /\ req[r].dev # None)
      BY <2>3, <3>1 DEF CommitUplink, TypeOK
    <3>3. cables' = cables
      BY <2>3 DEF CommitUplink
    <3> QED BY <3>1, <3>2, <3>3 DEF CableXorUplink, Cabled, CablesAt, Ends
  <2>4. ~CommitMerge(r)
    BY DEF CommitMerge
  <2>5. CASE CommitResize(r)
    BY <2>5, FewerClashes DEF CommitResize, Surviving
  <2> QED BY <1>2, <2>1, <2>2, <2>3, <2>4, <2>5 DEF Commit
<1>3. ASSUME NEW r \in Requests, OneStep(r) PROVE CableXorUplink'
  <2>1. /\ cables' \subseteq cables
        /\ \A e \in Entities : uplink'[e] # None => uplink[e] # None
    BY <1>3 DEF OneStep, DeleteCable, ClearPort, DeleteEntity, CreateDevice,
                DeleteDevice, Surviving, TypeOK
  <2> QED BY <2>1, FewerClashes
<1>4. ASSUME NEW e \in Entities, CreateEntity(e) PROVE CableXorUplink'
  BY <1>4, FewerClashes DEF CreateEntity
<1>5. CASE Restart \/ UNCHANGED vars
  BY <1>5, FewerClashes DEF Restart, bay, vars
<1> QED
  BY <1>1, <1>2, <1>3, <1>4, <1>5 DEF Next

(* With one request at a time, only a merge gives an entity both a cable   *)
(* and an uplink.                                                          *)
THEOREM OnlyMergesClash ==
  ASSUME OneAtATime
  PROVE  Spec => OnlyMergeClashes
<1>1. TypeOK /\ PendingSeen /\ [Next]_vars =>
        [(\A r \in Requests : req[r].kind # "merge") /\ CableXorUplink
           => CableXorUplink']_vars
  BY ClashStep
<1>2. TypeOK /\ PendingSeen /\ [Next]_vars => PendingSeen'
  BY SeenStep
<1> QED
  BY <1>1, <1>2, SeenInit, TypeCorrect, PTL DEF Spec, OnlyMergeClashes

-----------------------------------------------------------------------------
(***************************************************************************)
(* One request at a time, the ports of a device keep their numbers 1..n:   *)
(* the count that a resize has seen is then the highest number, so growing *)
(* adds n+1.. and shrinking cuts at the new count.  A device id that was   *)
(* handed out never comes back, so a new device starts with no port.       *)
(***************************************************************************)
Full(d, n) == {p \in Port : p.dev = d /\ p.num <= n /\ (p.side = "rear" => d \in Panels)}

PortsOf(d) == {p \in ports : p.dev = d}

IdsAreNew == devices \cap unused = {}

LEMMA NewIdsStep == TypeOK /\ IdsAreNew /\ [Next]_vars => IdsAreNew'
<1> SUFFICES ASSUME TypeOK, IdsAreNew, [Next]_vars PROVE IdsAreNew'
  OBVIOUS
<1>1. ASSUME NEW r \in Requests, Check(r) PROVE IdsAreNew'
  BY <1>1, CheckStores DEF Accept, bay, IdsAreNew
<1>2. ASSUME NEW r \in Requests, Commit(r) PROVE IdsAreNew'
  BY <1>2 DEF Commit, CommitCreate, CommitSet, CommitUplink, CommitMerge, CommitResize,
              InsertCable, IdsAreNew
<1>3. ASSUME NEW r \in Requests, OneStep(r) PROVE IdsAreNew'
  BY <1>3 DEF OneStep, DeleteCable, ClearPort, DeleteEntity, CreateDevice, DeleteDevice,
              IdsAreNew
<1>4. ASSUME NEW e \in Entities, CreateEntity(e) PROVE IdsAreNew'
  BY <1>4 DEF CreateEntity, IdsAreNew
<1>5. CASE Restart \/ UNCHANGED vars
  BY <1>5 DEF Restart, bay, vars, IdsAreNew
<1> QED
  BY <1>1, <1>2, <1>3, <1>4, <1>5 DEF Next

(* The count of ports numbered 1..n is n.                                  *)
LEMMA CountOfFull ==
  ASSUME NEW d \in Devices, NEW n \in 1..MaxPort, PortsOf(d) = Full(d, n)
  PROVE  PortCount(d) = n
<1>1. \A k \in 1..n : [dev |-> d, num |-> k, side |-> "front"] \in Full(d, n)
  BY PatchBayAssumption DEF Full, Port, Sides
<1>2. {p.num : p \in Full(d, n)} = 1..n
  <2>1. ASSUME NEW k \in 1..n PROVE k \in {p.num : p \in Full(d, n)}
    <3>1. [dev |-> d, num |-> k, side |-> "front"].num = k
      OBVIOUS
    <3> QED BY <1>1, <3>1
  <2>2. \A p \in Full(d, n) : p.num \in 1..n
    BY DEF Full, Port
  <2> QED BY <2>1, <2>2
<1>3. Cardinality(1..n) = n
  BY FS_Interval, PatchBayAssumption
<1> QED
  BY <1>2, <1>3 DEF PortCount, PortsOf

LEMMA ContiguousAgain ==
  /\ PortsContiguous <=> \A d \in devices : \E n \in 1..MaxPort : PortsOf(d) = Full(d, n)
  /\ PortsContiguous' <=> \A d \in devices' : \E n \in 1..MaxPort : PortsOf(d)' = Full(d, n)
<1>1. \A d : PortsOf(d) = {p \in ports : p.dev = d} /\ PortsOf(d)' = {p \in ports' : p.dev = d}
  BY DEF PortsOf
<1>2. \A d, n : Full(d, n) =
        {p \in Port : p.dev = d /\ p.num <= n /\ (p.side = "rear" => d \in Panels)}
  BY DEF Full
<1> QED
  BY <1>1, <1>2, Zenon DEF PortsContiguous

(* Ports of other devices do not matter.                                   *)
LEMMA SamePorts ==
  ASSUME PortsContiguous, devices' \subseteq devices,
         \A d \in devices' : PortsOf(d)' = PortsOf(d)
  PROVE  PortsContiguous'
<1>1. \A d \in devices' : \E n \in 1..MaxPort : PortsOf(d)' = Full(d, n)
  BY ContiguousAgain
<1> QED
  BY <1>1, ContiguousAgain

LEMMA ResizeContiguous ==
  ASSUME OneAtATime, TypeOK, PendingSeen, PortsContiguous,
         NEW r \in Requests, CommitResize(r)
  PROVE  PortsContiguous'
<1> DEFINE q == req[r]
           removed == {p \in ports : q.n < q.seen /\ p.dev = q.dev /\ p.num > q.n}
           added == PortRange(q.dev, q.seen + 1, q.n)
<1>1. q.kind = "resize" /\ q.dev \in devices /\ q.dev \in Devices /\ q.n \in 1..MaxPort
  BY RequestFields DEF CommitResize, PendingSeen, TypeOK
<1> PICK d \in devices : d = q.dev
  BY <1>1
<1>2. PICK n \in 1..MaxPort : PortsOf(d) = Full(d, n)
  BY ContiguousAgain
<1>3. q.seen = n
  BY <1>1, <1>2, CountOfFull DEF PendingSeen
<1>4. \A p \in Port : p.num \in Nat
  BY DEF Port
<1>5. added \cap ports = {}
  BY <1>1, <1>2, <1>3, <1>4 DEF PortRange, PortsOf, Full
<1>6. ports' = (ports \ removed) \cup added
  BY <1>1, <1>5 DEF CommitResize
<1>7. PortsOf(d)' = Full(d, q.n)
  <2>1. \A p : p \in PortsOf(d)' <=>
               (p \in PortsOf(d) /\ p \notin removed) \/ p \in added
    BY <1>6 DEF PortsOf, PortRange
  <2>2. \A p \in Port : p \in PortsOf(d)' <=> p \in Full(d, q.n)
    BY <2>1, <1>1, <1>2, <1>3, <1>4 DEF Full, PortsOf, PortRange
  <2>3. PortsOf(d)' \subseteq Port /\ Full(d, q.n) \subseteq Port
    BY <2>1 DEF Full, PortsOf, PortRange, TypeOK
  <2> QED BY <2>2, <2>3
<1>8. \A o \in devices : o # d => PortsOf(o)' = PortsOf(o)
  BY <1>6 DEF PortsOf, PortRange
<1>9. devices' = devices
  BY DEF CommitResize
<1>10. \A o \in devices : \E m \in 1..MaxPort : PortsOf(o)' = Full(o, m)
  BY <1>1, <1>7, <1>8, ContiguousAgain
<1> QED
  BY <1>9, <1>10, ContiguousAgain

LEMMA ContiguousStep ==
  ASSUME OneAtATime, TypeOK, Anchored, PendingSeen, IdsAreNew, PortsContiguous, [Next]_vars
  PROVE  PortsContiguous'
<1>1. ASSUME NEW r \in Requests, Check(r) PROVE PortsContiguous'
  BY <1>1, CheckStores, SamePorts DEF Accept, bay, PortsOf
<1>2. ASSUME NEW r \in Requests, Commit(r) PROVE PortsContiguous'
  <2>1. CASE CommitResize(r)
    BY <2>1, ResizeContiguous
  <2>2. CASE UNCHANGED <<devices, ports>>
    BY <2>2, SamePorts DEF PortsOf
  <2> QED BY <1>2, <2>1, <2>2 DEF Commit, CommitCreate, CommitSet, CommitUplink, CommitMerge
<1>3. ASSUME NEW r \in Requests, NEW d \in Devices, NEW n \in 1..MaxPort,
             CreateDevice(r, d, n)
      PROVE  PortsContiguous'
  <2>1. PortsOf(d) = {}
    BY <1>3 DEF CreateDevice, IdsAreNew, Anchored, PortsOf
  <2>2. PortRange(d, 1, n) = Full(d, n)
    BY DEF PortRange, Full, Port
  <2>3. PortsOf(d)' = Full(d, n)
    BY <1>3, <2>1, <2>2 DEF CreateDevice, PortsOf, Full
  <2>4. \A o \in devices : o # d => PortsOf(o)' = PortsOf(o)
    BY <1>3 DEF CreateDevice, PortsOf, PortRange
  <2>5. \A o \in devices' : \E m \in 1..MaxPort : PortsOf(o)' = Full(o, m)
    BY <1>3, <2>3, <2>4, ContiguousAgain DEF CreateDevice
  <2> QED BY <2>5, ContiguousAgain
<1>4. ASSUME NEW r \in Requests, NEW d \in devices, DeleteDevice(r, d)
      PROVE  PortsContiguous'
  BY <1>4, SamePorts DEF DeleteDevice, PortsOf
<1>5. ASSUME NEW r \in Requests, OneStep(r), UNCHANGED <<devices, ports>>
      PROVE  PortsContiguous'
  BY <1>5, SamePorts DEF PortsOf
<1>6. ASSUME NEW r \in Requests, OneStep(r) PROVE PortsContiguous'
  BY <1>3, <1>4, <1>5, <1>6 DEF OneStep, DeleteCable, ClearPort, DeleteEntity
<1>7. ASSUME NEW e \in Entities, CreateEntity(e) PROVE PortsContiguous'
  BY <1>7, SamePorts DEF CreateEntity, PortsOf
<1>8. CASE Restart \/ UNCHANGED vars
  BY <1>8, SamePorts DEF Restart, bay, vars, PortsOf
<1> QED
  BY <1>1, <1>2, <1>6, <1>7, <1>8 DEF Next

(* With one request at a time, the ports of every device are numbered 1..n *)
(* without a gap, for every number of devices and ports.                   *)
THEOREM PortsStayContiguous ==
  ASSUME OneAtATime
  PROVE  Spec => []PortsContiguous
<1>1. Init => PortsContiguous /\ IdsAreNew
  BY DEF Init, PortsContiguous, IdsAreNew
<1>2. TypeOK /\ PendingSeen /\ [Next]_vars => PendingSeen'
  BY SeenStep
<1>3. /\ TypeOK /\ Anchored /\ PendingSeen /\ IdsAreNew /\ PortsContiguous /\ [Next]_vars
      => PortsContiguous'
  BY ContiguousStep
<1> QED
  BY <1>1, <1>2, <1>3, NewIdsStep, SeenInit, TypeCorrect, ReferencesHold, PTL DEF Spec

=============================================================================
