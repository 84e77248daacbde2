----------------------------- MODULE MCNodeStack ------------------------------
(* Workflows for TLC.  The trigger t has the branches a, b, c and d, whose  *)
(* nodes lie in this order from the top to the bottom; m and k are merges.  *)
EXTENDS NodeStack

Rank == [n \in Nodes |-> CASE n = "t" -> 0 [] n = "a" -> 1 [] n = "b" -> 2 [] n = "c" -> 3
                           [] n = "d" -> 4 [] n = "m" -> 5 [] OTHER -> 6]

Edges(from, output, to, input) == {[from |-> from, output |-> output, to |-> to, input |-> input]}
To(from, to, input) == Edges(from, 1, to, input)
Branches(S) == UNION {To("t", n, 1) : n \in S}

(* Errors of b, and of the second merge, do not stop the run; c may wait.   *)
Workflow(edges, needsAll, destination) ==
    [start |-> "t", edges |-> edges, rank |-> Rank, needsAll |-> needsAll,
     continues |-> {"b", "k"}, waits |-> {"c"}, destination |-> destination]

(* Four branches to the inputs of a merge.                                  *)
Merge == {Workflow(Branches({"a", "b", "c", "d"}) \cup To("a", "m", 1) \cup To("b", "m", 1)
                   \cup To("c", "m", 2) \cup To("d", "m", 1), {}, None)}

(* A merge after a merge, which gets its other datum first; either may need *)
(* all inputs.                                                              *)
Chain == {Workflow(Branches({"a", "b", "c"}) \cup To("a", "k", 2) \cup To("b", "m", 1)
                   \cup To("c", "m", 2) \cup To("m", "k", 1), needsAll, None) :
             needsAll \in {{}, {"m"}, {"k"}}}

(* Two outputs to the two inputs of a merge, and one to a node beside it,   *)
(* for which a run to the merge has no use.                                 *)
Switch == {Workflow(Branches({"a"}) \cup Edges("a", 1, "m", 1) \cup Edges("a", 2, "m", 2)
                    \cup Edges("a", 2, "b", 1) \cup To("m", "k", 2), {}, destination) :
              destination \in {"m", None}}

(* A loop: a goes on to b, which comes back, and leaves it to a merge.      *)
Loop == {Workflow(Branches({"a", "c"}) \cup Edges("a", 1, "b", 1) \cup To("b", "a", 1)
                  \cup Edges("a", 2, "m", 1) \cup To("c", "m", 2), needsAll, None) :
            needsAll \in SUBSET {"m"}}

Workflows == Merge \cup Chain \cup Switch \cup Loop
=============================================================================
