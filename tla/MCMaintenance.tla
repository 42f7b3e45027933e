---------------------------- MODULE MCMaintenance ----------------------------
(* Values of the constants of Maintenance for TLC.  The backup was taken   *)
(* in the first slot, after its samples, while the first test ran.         *)
EXTENDS Maintenance

CONSTANTS e1, r1, r2, r3

MCEntities == {e1}
MCStatuses == {"up"}
MCRunIds == {r1, r2, r3}

Early ==
  [status |-> [e \in MCEntities |-> "up"],
   fresh |-> MCEntities,
   samples |-> [e \in MCEntities |-> [s \in 0..MaxSlot |-> IF s = FirstSlot THEN "up" ELSE None]],
   days |-> [e \in MCEntities |-> [d \in 0..(MaxSlot \div PerDay) |->
               IF d = 0 THEN [total |-> 1, up |-> 1, flips |-> 0]
                        ELSE [total |-> 0, up |-> 0, flips |-> 0]]],
   running |-> {r1}, due |-> FALSE, enabled |-> TRUE]
MCBackups == {Early}
=============================================================================
