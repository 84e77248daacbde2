---------------------------- MODULE MCLeadership -----------------------------
(* The configurations give all constants of Leadership values; of the       *)
(* checks of one main, one is under way at a time, of those of the other    *)
(* main two.                                                                *)
EXTENDS Leadership

OneEach == [m \in Mains |-> 1]
TwoEach == [m \in Mains |-> 2]
OneAndTwo ==
    LET one == CHOOSE m \in Mains : TRUE
    IN  [m \in Mains |-> IF m = one THEN 1 ELSE 2]
=============================================================================
