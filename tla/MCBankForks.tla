---------------------------- MODULE MCBankForks ----------------------------
(***************************************************************************)
(* BankForks on six slots: a chain with one slot, 3, that may be a child   *)
(* of 2 or of 1.  Two transactions, on the genesis blockhash and on that   *)
(* of slot 1, are still recent when the cache, which remembers two roots,  *)
(* begins to forget.  Archives are made at heights 2 and 4, and a root can *)
(* jump over an interval bank.                                             *)
(***************************************************************************)
EXTENDS BankForks

CONSTANTS t0, t1

MCSlots == 0..5

MCBlockhash == [t \in Txs |-> IF t = t0 THEN 0 ELSE 1]

MCForks == [s \in Slots |-> CASE s = 0 -> {}
                              [] s = 3 -> {1, 2}
                              [] OTHER -> {s - 1}]
=============================================================================
