----------------------------- MODULE CableTrace -----------------------------
(***************************************************************************)
(* Following a cable through patch panels.  A panel joins each front port  *)
(* to a rear port (its peer); a trace alternates between a cable and such  *)
(* a joint until it meets an entity, a port without a peer, a loose end or *)
(* the hop limit.                                                          *)
(*                                                                         *)
(* The wiring here is any that a lone client can make: the cabling races   *)
(* of concurrent requests are in PatchBay.  A port then has at most one    *)
(* cable, and by_port does not depend on the order of the rows.            *)
(***************************************************************************)
EXTENDS Inventory, FiniteSets, Naturals

CONSTANTS
  Ports,          \* ids of ports
  Peer,           \* ports.peer_port_id, None for a port outside a panel
  MaxTraceHops    \* MAX_TRACE_HOPS (10 in the code)

ASSUME CableTraceAssumption ==
  /\ Ports \cap Entities = {}
  /\ None \notin Ports \cup Entities
  /\ Peer \in [Ports -> Ports \cup {None}]
  /\ \A p \in Ports : Peer[p] # None => Peer[p] # p /\ Peer[Peer[p]] = p
  /\ MaxTraceHops \in Nat \ {0}

VARIABLE cables   \* the rows of table cables: columns a_port_id and b_...

Cable == [a: Ports, b: Ports \cup Entities]
Ends(c) == {c.a, c.b}
CablesAt(x) == {c \in cables : x \in Ends(c)}
Cabled(x) == CablesAt(x) # {}

(* by_port of load_cable_context: the cable on a port, as a set of at most *)
(* one.                                                                    *)
ByPort(p) == CablesAt(p)

\* every cable is taken to lead from a to b
BugOther(c, p) == c.b

Other(c, p) == IF c.a = p THEN c.b ELSE c.a

(* The loop of trace_from_port with hops rounds left, and as its result    *)
(* the end of the trace: an entity, a port without a peer (what            *)
(* trace_far_port takes from the last hop), or None for a loose end and    *)
(* for a trace cut off at the limit.                                       *)
TraceWithin[hops \in 0..MaxTraceHops] ==
  [p \in Ports |->
     IF hops = 0 \/ ByPort(p) = {} THEN None
     ELSE LET other == Other(CHOOSE c \in ByPort(p) : TRUE, p)
          IN  IF other \in Entities \/ Peer[other] = None THEN other
              ELSE TraceWithin[hops - 1][Peer[other]]]

TraceFrom(port) == TraceWithin[MaxTraceHops][port]
TraceEntity(p) == IF TraceFrom(p) \in Entities THEN TraceFrom(p) ELSE None
TraceFarPort(p) == IF TraceFrom(p) \in Ports THEN TraceFrom(p) ELSE None

-----------------------------------------------------------------------------
NoWires == cables = {}

(* POST /api/cables and DELETE /api/cables/{id}                            *)
Plug(a, b) ==
  /\ a # b
  /\ ~Cabled(a) /\ ~Cabled(b)
  /\ cables' = cables \cup {[a |-> a, b |-> b]}

Unplug(c) == cables' = cables \ {c}

-----------------------------------------------------------------------------
(* Everything that hangs together with a port, through any number of       *)
(* cables and panels: the reference for what a trace should find.          *)
Joined(x) ==
  (UNION {Ends(c) : c \in CablesAt(x)})
    \cup (IF x \in Ports THEN {Peer[x]} \ {None} ELSE {})

Grown[X \in SUBSET (Ports \cup Entities)] ==
  LET more == X \cup UNION {Joined(x) : x \in X}
  IN  IF more = X THEN X ELSE Grown[more]

Strand(port) == Grown[{port}]

StrandLength(port) == Cardinality({c \in cables : Ends(c) \subseteq Strand(port)})
Outlets == {p \in Ports : Peer[p] = None}

(* The wiring has its type.                                                *)
WiringOK == cables \subseteq Cable

(* From a device port the trace finds the one thing at the other end of    *)
(* the strand, an entity or another device port, whatever panels and       *)
(* cable directions lie between, up to the hop limit and no further.  From *)
(* any port of panels that are patched into a ring it finds nothing.       *)
TraceFindsTheEnd ==
  /\ \A p \in Outlets :
       LET ends == (Strand(p) \cap (Entities \cup Outlets)) \ {p}
       IN  IF ends # {} /\ StrandLength(p) <= MaxTraceHops
             THEN ends = {TraceFrom(p)}
             ELSE TraceFrom(p) = None
  /\ \A p \in Ports :
       Strand(p) \cap (Entities \cup Outlets) = {} => TraceFrom(p) = None
=============================================================================
