----------------------------- MODULE MCJobEngine -----------------------------
(* TLC instance of JobEngine: migrations m1 and m2, another operation p. *)
EXTENDS JobEngine

MCVm == [j \in Jobs |-> "vm"]
MCEntry == [j \in Jobs |-> IF j = "p" THEN "plain" ELSE "api"]
=============================================================================
