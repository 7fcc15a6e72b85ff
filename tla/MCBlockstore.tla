---------------------------- MODULE MCBlockstore ----------------------------
(***************************************************************************)
(* Slot 1 of one shred on slot 0; slot 2 of two shreds, which are one data *)
(* set, on slot 1; slot 3 in a version of two shreds, each a data set, on  *)
(* slot 1 and a version of one on slot 2, each with a coding shred.        *)
(***************************************************************************)
EXTENDS Blockstore

FourSlots == 0..3

TwoVersions ==
    (0 :> {}) @@
    (1 :> {[parent |-> 0, len |-> 1, coding |-> 0, ends |-> {}]}) @@
    (2 :> {[parent |-> 1, len |-> 2, coding |-> 0, ends |-> {}]}) @@
    (3 :> {[parent |-> 1, len |-> 2, coding |-> 1, ends |-> {0}],
           [parent |-> 2, len |-> 1, coding |-> 1, ends |-> {}]})
=============================================================================
