-------------------------- MODULE MCDuplicateSlots --------------------------
(***************************************************************************)
(* DuplicateSlots on five slots: slot 1 has two versions; on the first of  *)
(* them slots 2 and 3 fork, and slot 4 is on 3, so that votes move from 1  *)
(* to 3 and turn fork choice away from the smaller slot.  The cluster      *)
(* confirms the first version of slot 1 and slot 3 on it; a sample of the  *)
(* EpochSlots may report another version of slot 3.                        *)
(***************************************************************************)
EXTENDS DuplicateSlots

CONSTANTS v1, v2

MCGenesis == <<0, 1>>
MCBlocks == {<<0, 1>>, <<1, 1>>, <<1, 2>>, <<2, 1>>, <<3, 1>>, <<4, 1>>}
MCParent == [k \in MCBlocks \ {MCGenesis} |-> CASE k[1] = 1 -> MCGenesis
                                              [] k[1] = 4 -> <<3, 1>>
                                              [] OTHER    -> <<1, 1>>]
MCValidators == {v1, v2}
MCStake == (v1 :> 1) @@ (v2 :> 2)
MCConfirmable == {<<1, 1>>, <<3, 1>>}
MCDuplicated == {1}
MCSampled == {<<1, 1>>, <<3, 2>>}
============================================================================
