------------------------------- MODULE History -------------------------------
(* What the versioned trees of the storage promise: for every topoheight that *)
(* is not pruned, the balance and the nonce every account had once the block  *)
(* at that topoheight was executed. Nothing is said of versions or pointers.  *)
EXTENDS Integers

CONSTANTS Account, Block, Miner, From, To, NoAccount

VARIABLE ledger

Amounts == [balance : SUBSET Block, nonce : Int]
Untouched == [a \in Account |-> [balance |-> {}, nonce |-> -1]]

(* The transaction of a block runs only when its sender is known.             *)
Runs(state, b) == From[b] # NoAccount /\ state[From[b]].nonce >= 0
Touched(state, b) ==
    {Miner[b]} \cup (IF Runs(state, b) THEN To[b] \cup {From[b]} ELSE {})

After(state, b) ==
    [a \in Account |->
        [balance |-> state[a].balance \cup (IF a \in Touched(state, b) THEN {b} ELSE {}),
         nonce   |-> IF Runs(state, b) /\ a = From[b] THEN state[a].nonce + 1
                     ELSE IF a \in Touched(state, b) /\ state[a].nonce < 0 THEN 0
                     ELSE state[a].nonce]]

Low  == CHOOSE t \in DOMAIN ledger : \A u \in DOMAIN ledger : t <= u
High == CHOOSE t \in DOMAIN ledger : \A u \in DOMAIN ledger : t >= u

Init == \E b \in Block : ledger = [t \in {0} |-> After(Untouched, b)]

(* Blocks are executed on top of a prefix of the history that is kept.        *)
Extend ==
    \E keep \in DOMAIN ledger :
        /\ keep + 1 \in DOMAIN ledger'
        /\ Low \in DOMAIN ledger'
        /\ \A t \in DOMAIN ledger' :
              \/ t \in Low..keep /\ ledger'[t] = ledger[t]
              \/ t > keep /\ t - 1 \in DOMAIN ledger'
                 /\ \E b \in Block : ledger'[t] = After(ledger'[t - 1], b)

(* The end of the history is dropped, or its beginning.                       *)
Rewind == \E h \in DOMAIN ledger : ledger' = [t \in Low..h |-> ledger[t]]
Prune  == \E l \in DOMAIN ledger : ledger' = [t \in l..High |-> ledger[t]]

(* A rewind below the pruned topoheight starts again with nothing.            *)
StartOver == Low > 0 /\ ledger' = [t \in {0} |-> Untouched]

Next == Rewind \/ Prune \/ StartOver \/ Extend

Spec == Init /\ [][Next]_ledger
=============================================================================
