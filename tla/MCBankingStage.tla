--------------------------- MODULE MCBankingStage ---------------------------
(***************************************************************************)
(* Two threads in one slot.  "swap" calls the watched program and moves    *)
(* the monitored pool, "mev" is the arbitrage it may give rise to,         *)
(* "transfer" shares an account with "swap" and was received by both       *)
(* threads, "nonce" shares an account with "transfer" and advances a       *)
(* durable nonce.                                                          *)
(***************************************************************************)
EXTENDS BankingStage, TLC

MCAccounts == {"alice", "bob", "nonce", "prog", "vault", "src", "auth", "token"}
MCTxs == {"swap", "mev", "transfer", "nonce"}

MCWritable == [t \in Txs |->
    CASE t = "swap"     -> {"alice", "vault"}
      [] t = "mev"      -> {"auth", "src", "vault"}
      [] t = "transfer" -> {"alice", "bob"}
      [] t = "nonce"    -> {"bob", "nonce"}]
MCReadonly == [t \in Txs |-> IF t \in {"swap", "mev"} THEN {"prog"} ELSE {}]
MCPayer == [t \in Txs |->
    CASE t = "swap" -> "alice" [] t = "mev" -> "auth" [] t = "transfer" -> "alice" [] t = "nonce" -> "bob"]
MCNonceAccount == [t \in Txs |-> IF t = "nonce" THEN {"nonce"} ELSE {}]
MCOutcomes == [t \in Txs |-> IF t = "transfer" THEN {"Ok"} ELSE {"Ok", "Err"}]
MCSanitizeResult == [t \in Txs |-> "Ok"]
MCPools == {[info |-> {}, vaults |-> {"vault"}, source |-> {"src"}, destination |-> {"src"}]}
MCIncoming == [th \in Threads |->
    IF th = "th1" THEN {"swap", "transfer"} ELSE {"transfer", "nonce"}]
\* The packets of the liveness run: "transfer" is too old to be kept for the
\* next leader, "nonce" cannot be sanitized.
LiveIncoming == [th \in Threads |->
    IF th = "th1" THEN {"swap", "nonce"} ELSE {"transfer"}]
MCQosResults == {"Ok", "WouldExceedMaxBlockCostLimit"}
MCMevFilled == Txs \ {"mev"}
MCMevTxs == {"mev"}
=============================================================================
