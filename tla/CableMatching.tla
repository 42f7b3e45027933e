---------------------------- MODULE CableMatching ----------------------------
(***************************************************************************)
(* What the patch bay promises its user: the links form a matching.  An    *)
(* end (a port or an entity) is in at most one link, plugging needs two    *)
(* free ends, and replacing what is on an end takes at most one link from  *)
(* elsewhere along.                                                        *)
(***************************************************************************)
CONSTANT Points   \* ports and entities

VARIABLE links   \* a set of two-element sets of ends

Init == links = {}

Plug(x, y, gone) ==
  /\ x # y
  /\ \A l, m \in gone : x \in l \/ x \in m \/ l = m
  /\ {x, y} \cap UNION (links \ gone) = {}
  /\ links' = (links \ gone) \cup {{x, y}}

Unplug(gone) == links' = links \ gone

\* One end takes over the link of another (two entities become one).
Rehome(x, y) ==
  /\ y \notin UNION links
  /\ links' = {IF x \in l THEN (l \ {x}) \cup {y} ELSE l : l \in links}

Next ==
  \/ \E gone \in SUBSET links :
       Unplug(gone) \/ \E x, y \in Points : Plug(x, y, gone)
  \/ \E x, y \in Points : Rehome(x, y)

Spec == Init /\ [][Next]_links

(* No two links share an end.                                              *)
IsMatching == \A l, m \in links : l # m => l \cap m = {}
=============================================================================
