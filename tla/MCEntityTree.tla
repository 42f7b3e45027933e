----------------------------- MODULE MCEntityTree -----------------------------
(* Values of the constants of EntityTree for TLC: a Docker endpoint with a *)
(* container, and a proxy host that forwards to a name the container and   *)
(* its own service may bear.                                               *)
EXTENDS EntityTree, TLC

CONSTANTS portainer, npm, endpoint, container, proxy

MCReportedBy == [x \in Things |-> IF x = proxy THEN npm ELSE portainer]
MCPolls == {{endpoint, container}, {proxy}}
MCHostOf == [x \in Things |-> IF x = container THEN endpoint ELSE None]
MCAnswers == [x \in Things |-> IF x = proxy THEN {container, proxy} ELSE {}]
MCAlike == [x \in Things |-> {x} \ {proxy}]

Symmetric == Permutations(Entities) \cup Permutations(Requests)
=============================================================================
