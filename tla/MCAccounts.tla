------------------------------ MODULE MCAccounts ------------------------------
(* What is kept of an account, and how it is written: the versioned balances and nonces
   a node stores, the transactions that wait in its mempool, what a wallet makes of
   them, and the formats and ciphers of it all (MCFormats). The parts share no state:
   the first state chooses the one that moves, and what holds of each alone holds here.
   The storage has two accounts and blocks that pay a miner, that spend, and that spend
   what a first block has not brought yet. The mempool has its own instance. The wallet
   has a chain of three blocks and one lost connection or one rescan ("wallet"), or a
   chain of two blocks and both ("interrupted").                                   *)
EXTENDS Mempool, VersionedStorage, WalletSync, MCFormats

CONSTANT Parts      \* what a run looks at

MCBlock == 0..5
MCMiner == <<"a", "b", "a", "b", "a">> @@ (0 :> "a")
MCFrom  == <<NoAccount, "b", "a", NoAccount, "b">> @@ (0 :> NoAccount)
MCTo    == <<{}, {}, {"b"}, {}, {"b"}>> @@ (0 :> {})

vars == <<part, storageVars, mempoolVars, walletVars, dataVars>>

\* A part that does not move has one first state.
Init ==
    /\ part \in Parts /\ InitStorage /\ InitWallet /\ InitMempool /\ InitData
    /\ part # "mempool" => topoheight = 0 /\ storage = (CHOOSE s \in StorageStates : TRUE)

Next ==
    \/ NextData /\ UNCHANGED <<storageVars, mempoolVars, walletVars>>
    \/ /\ UNCHANGED <<part, dataVars>>
       /\ \/ part = "storage" /\ NextStorage /\ UNCHANGED <<mempoolVars, walletVars>>
          \/ part = "mempool" /\ NextMempool /\ UNCHANGED <<storageVars, walletVars>>
          \/ /\ part = "wallet" /\ NextWallet /\ losses' + rescans' <= 1
             /\ UNCHANGED <<storageVars, mempoolVars>>
          \/ /\ part = "interrupted" /\ NextWallet /\ Cardinality(DOMAIN blocks') <= 3
             /\ UNCHANGED <<storageVars, mempoolVars>>

Spec == Init /\ [][Next]_vars
===============================================================================
