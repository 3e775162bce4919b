------------------------------- MODULE MCTasks -------------------------------
(* Three tasks: one made by hand or from a function, one composed or queued,  *)
(* and one that combines the two or is queued too; one runs at a time.        *)
EXTENDS Tasks

CONSTANTS t1, t2, t3

MCSubs == {<<t1, t2>>}
MCKinds == t1 :> {"manual", "function"} @@ t2 :> {"composed", "queued"}
             @@ t3 :> {"any", "list", "queued"}

\* The product of two tasks.
MCAllKinds == t1 :> {"manual"} @@ t2 :> {"manual"} @@ t3 :> {"all"}
==============================================================================
