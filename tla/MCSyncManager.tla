--------------------------- MODULE MCSyncManager ---------------------------
(* Networks for SyncManager: node a dials b, and c where there is one.     *)
EXTENDS SyncManager, TLC

CONSTANTS na, nb, nc

MCOrder == <<na, nb, nc>>
Heads(x, y, z) == na :> x @@ nb :> y @@ nc :> z

(* One peer, over a connection that may break, with early timeouts.        *)
Faulty ==
    [dials |-> {<<na, nb>>}, head |-> Heads(1, 5, 1), last |-> 6,
     drops |-> 1, early |-> 1]

(* Two peers with one head beyond a's, the last block irreversible to a.   *)
Equal ==
    [dials |-> {<<na, nb>>, <<na, nc>>}, head |-> Heads(1, 5, 5), last |-> 5,
     drops |-> 0, early |-> 0]

(* Three heads within reach of each other, while b produces a block.       *)
Near ==
    [dials |-> {<<na, nb>>, <<na, nc>>}, head |-> Heads(3, 4, 5), last |-> 6,
     drops |-> 0, early |-> 0]

(* Two peers beyond a's head by different distances.                       *)
Far ==
    [dials |-> {<<na, nb>>, <<na, nc>>}, head |-> Heads(1, 4, 6), last |-> 6,
     drops |-> 0, early |-> 0]

GoodNetworks == {Faulty, Equal, Near}
FarNetworks == {Far}

=============================================================================
