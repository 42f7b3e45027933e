------------------------- MODULE MCProviderSettings -------------------------
(* Values of the constants of ProviderSettings for TLC: two providers, and *)
(* a remote side that wants one configuration with both fields filled.     *)
EXTENDS ProviderSettings, TLC

CONSTANTS p1, p2, blank, filled, user, pass, v

Pair(a, b) == [f \in {user, pass} |-> IF f = user THEN a ELSE b]

MCAccepted == {<<filled, Pair(v, v)>>, <<blank, Pair(v, None)>>}

MCPayloads == {Pair(v, v), Pair(v, None), Pair(None, Clear), Pair(Clear, v)}

Symmetric == Permutations(Requests)
=============================================================================
