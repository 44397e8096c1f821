---------------------------- MODULE MCController ----------------------------
(***************************************************************************)
(* Trees of blocks for Controller, with four producers a, b, c, d that     *)
(* take turns.  The irreversible numbers are tables; LibAssumption checks  *)
(* them against the header states that BlockHeaderState computes when the  *)
(* blocks are made in the given order and each producer confirms as        *)
(* producer_plugin does with a watermark it never forgets.                 *)
(***************************************************************************)
EXTENDS Controller, BlockHeaderState

CONSTANT Scenario  \* the tree of the run: "isolated" or "faulty"

(* snax produces b2, b3 and b4, b3 announces the schedule of the producers  *)
(* and b4 makes it active.  d is cut off after b7 and keeps producing       *)
(* alone.                                                                   *)
IsolatedPrevious ==
  [b1 |-> "b1", b2 |-> "b1", b3 |-> "b2", b4 |-> "b3", b5 |-> "b4", b6 |-> "b5", b7 |-> "b6",
   b8 |-> "b7", b9 |-> "b8", b10 |-> "b9", b11 |-> "b10", b12 |-> "b11", b13 |-> "b12", b14 |-> "b13",
   d8 |-> "b7", d9 |-> "d8", d10 |-> "d9", d11 |-> "d10", d12 |-> "d11", d13 |-> "d12", d14 |-> "d13"]
IsolatedLib ==
  [b1 |-> 0, b2 |-> 0, b3 |-> 2, b4 |-> 3, b5 |-> 3, b6 |-> 3, b7 |-> 4,
   b8 |-> 4, b9 |-> 4, b10 |-> 5, b11 |-> 6, b12 |-> 7, b13 |-> 8, b14 |-> 9,
   d8 |-> 4, d9 |-> 4, d10 |-> 4, d11 |-> 4, d12 |-> 4, d13 |-> 4, d14 |-> 4]
IsolatedSlots ==
  <<<<"b2", 1>>, <<"b3", 2>>, <<"b4", 3>>, <<"b5", 4>>, <<"b6", 5>>, <<"b7", 6>>, <<"d8", 7>>, <<"b8", 8>>,
    <<"b9", 9>>, <<"b10", 10>>, <<"d9", 11>>, <<"b11", 12>>, <<"b12", 13>>, <<"b13", 14>>, <<"d10", 15>>,
    <<"b14", 16>>, <<"d11", 19>>, <<"d12", 23>>, <<"d13", 27>>, <<"d14", 31>>>>

(* The same, but b makes block x9, which does not apply; c builds on b8.    *)
FaultyPrevious ==
  [b1 |-> "b1", b2 |-> "b1", b3 |-> "b2", b4 |-> "b3", b5 |-> "b4", b6 |-> "b5", b7 |-> "b6",
   b8 |-> "b7", x9 |-> "b8", b9 |-> "b8", b10 |-> "b9", b11 |-> "b10",
   d8 |-> "b7", d9 |-> "d8", d10 |-> "d9", d11 |-> "d10", d12 |-> "d11"]
FaultyLib ==
  [b1 |-> 0, b2 |-> 0, b3 |-> 2, b4 |-> 3, b5 |-> 3, b6 |-> 3, b7 |-> 4,
   b8 |-> 4, x9 |-> 4, b9 |-> 4, b10 |-> 4, b11 |-> 6,
   d8 |-> 4, d9 |-> 4, d10 |-> 4, d11 |-> 4, d12 |-> 4]
FaultySlots ==
  <<<<"b2", 1>>, <<"b3", 2>>, <<"b4", 3>>, <<"b5", 4>>, <<"b6", 5>>, <<"b7", 6>>, <<"d8", 7>>, <<"b8", 8>>,
    <<"x9", 9>>, <<"b9", 10>>, <<"d9", 11>>, <<"b10", 12>>, <<"d10", 15>>, <<"b11", 17>>, <<"d11", 19>>,
    <<"d12", 23>>>>

MCprevious == IF Scenario = "isolated" THEN IsolatedPrevious ELSE FaultyPrevious
MCdpos_irreversible == IF Scenario = "isolated" THEN IsolatedLib ELSE FaultyLib
MCBlocks == DOMAIN MCprevious
MCChain ==
  LET chain[b \in MCBlocks] == IF b = "b1" THEN {b} ELSE {b} \cup chain[MCprevious[b]]
  IN  chain
MCblock_num == [b \in MCBlocks |-> Cardinality(MCChain[b])]

-----------------------------------------------------------------------------
Initial == [version |-> 0, producers |-> <<"snax">>]
Four    == [version |-> 1, producers |-> <<"a", "b", "c", "d">>]

(* Header states and watermarks once block b is made at slot when. *)
Made(b, when, before) ==
  LET parent    == before.hs[previous[b]]
      p         == get_scheduled_producer(parent, when)
      unseen    == parent.block_num - before.watermarks[p]
      header    == [timestamp |-> when, producer |-> p, confirmed |-> IF unseen > 0 THEN unseen ELSE 0,
                    schedule_version |-> parent.active.version,
                    new_producers |-> IF b = "b3" THEN <<Four>> ELSE <<>>]
  IN  [hs |-> Put(before.hs, b, next(parent, header)),
       watermarks |-> [before.watermarks EXCEPT ![p] = parent.block_num + 1]]

(* The producers of the new schedule start at the block that announces it. *)
HeaderStates(slots) ==
  LET after[n \in 0..Len(slots)] ==
        IF n = 0
        THEN [hs |-> [b \in {"b1"} |-> GenesisState(Initial)],
              watermarks |-> [p \in {"snax", "a", "b", "c", "d"} |-> IF p = "snax" THEN 1 ELSE 3]]
        ELSE Made(slots[n][1], slots[n][2], after[n - 1])
  IN  after[Len(slots)].hs

ASSUME LibAssumption ==
  LET hs == HeaderStates(IF Scenario = "isolated" THEN IsolatedSlots ELSE FaultySlots)
  IN  \A b \in Blocks : hs[b].dpos_irreversible = dpos_irreversible[b] /\ hs[b].block_num = block_num[b]

(* These trees are of the kind the theorems of ControllerProofs are about.  *)
ASSUME WellBehavedAssumption == LibsGrow /\ LibsAgree /\ InvalidGainNothing /\ NoOvertaking
=============================================================================
