--------------------------- MODULE MCAccountLocks ---------------------------
(***************************************************************************)
(* Two threads that prepare batches of at most two of four transactions: a *)
(* call of a watched program that writes the vault of a monitored pool, a  *)
(* MEV transaction, a deposit that writes an account the MEV code only     *)
(* reads, and a transaction whose message names an account twice.  One     *)
(* pool is extracted from, the other one only monitored.                   *)
(***************************************************************************)
EXTENDS AccountLocks, TLC

MCAccounts == {"alice", "bob", "prog", "pool1", "vault1", "src", "dst",
               "pool2", "vault2", "auth", "token"}

MCTxs == {"swap", "mev", "deposit", "twice"}

MCWritable == [t \in Txs |->
    CASE t = "swap"     -> {"alice", "vault2"}
      [] t = "mev"      -> {"auth", "src", "dst", "vault1"}
      [] t = "deposit"  -> {"bob", "pool2"}
      [] t = "twice"    -> {"bob"}]

MCReadonly == [t \in Txs |->
    CASE t = "swap"     -> {"prog", "pool2"}
      [] t = "mev"      -> {"prog", "pool1", "token"}
      [] t = "deposit"  -> {"token"}
      [] t = "twice"    -> {"bob"}]

MCSanitizeResult == [t \in Txs |-> IF t = "twice" THEN "AccountLoadedTwice" ELSE "Ok"]

MCPools ==
    {[info |-> {"pool1"}, vaults |-> {"vault1"}, source |-> {"src"}, destination |-> {"dst"}],
     [info |-> {"pool2"}, vaults |-> {"vault2"}, source |-> {}, destination |-> {}]}

MCQosResults == {"Ok", "WouldExceedAccountDataTotalLimit"}
MCMevFilled == Txs \ {"mev"}
MCUserAuthority == {"auth"}
MCWatchedPrograms == {"prog"}
Symmetry == Permutations(Threads)
=============================================================================
