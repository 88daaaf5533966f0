----------------------------- MODULE MCTypeHeap -----------------------------
(***************************************************************************)
(* TypeHeap on a few cells.                                                *)
(***************************************************************************)
EXTENDS TypeHeap

CONSTANTS v1, v2, v3
Order == <<v1, v2, v3>>

(* Cells are interchangeable, and so are variables: the runs in which a    *)
(* new cell is the lowest free one, and a variable that comes to hold      *)
(* something the lowest empty one, stand for all runs that differ from     *)
(* them by names.  A move fills no empty variable.  Five sites point to     *)
(* something at most, a bound on the size of the run.                      *)
Bounded ==
    /\ \A n \in Cell : cell[n] = "free" /\ cell'[n] # "free" =>
                           \A m \in 1..(n - 1) : cell[m] # "free"
    /\ \A i \in 1..3 : ref[Order[i]] = NULL /\ ref'[Order[i]] # NULL =>
                           \A j \in 1..(i - 1) : ref[Order[j]] # NULL
    /\ Cardinality({s \in Site : ref'[s] # NULL}) <= 5

MCSpec == Init /\ [][Next /\ Bounded]_vars /\ WF_vars(ndt_del)
=============================================================================
