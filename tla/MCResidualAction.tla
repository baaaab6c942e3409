-------------------------- MODULE MCResidualAction --------------------------
(***************************************************************************)
(* Instances of ResidualAction for TLC: three rows on two workers, so that *)
(* one slice has two rows that fail and reset together or apart.           *)
(***************************************************************************)
EXTENDS ResidualAction

CONSTANTS w1, w2, r1, r2, r3

MCWorker == {w1, w2}
MCRow == {r1, r2, r3}
MCRowsOf == [w \in MCWorker |-> IF w = w1 THEN {r1, r2} ELSE {r3}]
=============================================================================
