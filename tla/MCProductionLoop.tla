-------------------------- MODULE MCProductionLoop --------------------------
(* Instances of ProductionLoop for a node with producer pa.                *)
EXTENDS ProductionLoop

CONSTANTS pa, pb, pc

FixedSchedules == << <<pa, pb>>, <<pa, pb>> >>
SoonerByOne == -1

(* Blocks of pb on two forks; the ready one, at height 2, replaces higher  *)
(* heads, below the watermark pa has by then.                              *)
FixedOffers ==
         {[num |-> o[1], slot |-> o[2], ready |-> FALSE] : o \in {<<2, 3>>, <<3, 2>>, <<3, 3>>}}
    \cup {[num |-> 2, slot |-> 2, ready |-> TRUE]}

(* The second schedule installs pa. Of the two forks on offer, the first   *)
(* lets pa produce before the other, longer one arrives.                   *)
NewSchedules == << <<pb, pc>>, <<pa, pb>> >>
NewOffers ==
         {[num |-> o[1], slot |-> o[2], ready |-> FALSE] : o \in {<<2, 1>>, <<3, 4>>}}
    \cup {[num |-> o[1], slot |-> o[2], ready |-> TRUE] :
             o \in {<<2, 2>>, <<3, 3>>, <<4, 5>>, <<5, 6>>, <<6, 7>>}}

=============================================================================
