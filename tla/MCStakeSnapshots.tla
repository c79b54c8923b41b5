-------------------------- MODULE MCStakeSnapshots --------------------------
(* The projector for TLC: two addresses around the master threshold, days  *)
(* of two seconds, months of two days.                                     *)
EXTENDS StakeSnapshots

Op(do, addr, value) == [do |-> do, addr |-> addr, value |-> value]
Stakes == [a \in Addr |-> IF a = "a" THEN 2 ELSE 0]
Ops == << {},
          { Op("stake", "b", 3), Op("restake", "a", 1), Op("backfill", "b", 1), Op("inflation", "a", 3) },
          { Op("unstake", "a", 2), Op("reward", "a", 2), Op("market", "b", 2) },
          { Op("stake", "a", 1), Op("restake", "a", 1), Op("burn", "a", 1) } >>
=============================================================================
