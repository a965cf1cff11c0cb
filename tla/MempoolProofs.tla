---------------------------- MODULE MempoolProofs ----------------------------
(***************************************************************************)
(* The caches of the mempool stay indexed by nonce, whatever the accounts, *)
(* the transactions and the states the chain moves through.                *)
(*                                                                         *)
(* The three parts of Inv need each other: add_tx is kept from its         *)
(* replacement branch only because the index of a nonce inside the bounds  *)
(* always finds a transaction, and clean_up leaves a contiguous suffix     *)
(* only because every cached transaction is still in the pool.             *)
(***************************************************************************)
EXTENDS Mempool, FiniteSetTheorems, WellFoundedInduction, TLAPS

Inv == TypeOK /\ CacheIndexed /\ NoGhosts

\* The transactions in the cache of account a.
Cached(a) == {caches[a].txs[i] : i \in DOMAIN caches[a].txs}

\* Retaining the positions from k on (IndexSet::retain in clean_up) drops the
\* first k - 1 transactions and moves the others to the front, in order.
LEMMA RetainSuffix ==
    ASSUME NEW S, NEW s \in Seq(S), NEW k \in 1..Len(s)
    PROVE  Retain(s, k..Len(s)) = [j \in 1..(Len(s) - k + 1) |-> s[k + j - 1]]
<1> DEFINE keep == k..Len(s)
           pos(j) == CHOOSE i \in keep : Cardinality({l \in keep : l <= i}) = j
<1>1. Len(s) \in Nat /\ k \in Int /\ k <= Len(s)
  OBVIOUS
<1>2. Cardinality(keep) = Len(s) - k + 1
  BY <1>1, FS_Interval
<1>3. ASSUME NEW j \in 1..(Len(s) - k + 1)
      PROVE  pos(j) = k + j - 1
  <2>1. ASSUME NEW i \in keep
        PROVE  Cardinality({l \in keep : l <= i}) = i - k + 1
    <3>1. {l \in keep : l <= i} = k..i
      BY <1>1
    <3>2. i \in Int /\ k <= i
      BY <1>1
    <3>3. Cardinality(k..i) = i - k + 1
      BY <1>1, <3>2, FS_Interval
    <3>4. QED
      BY <3>1, <3>3
  <2>2. k + j - 1 \in keep /\ \A i \in keep : (i - k + 1 = j) <=> (i = k + j - 1)
    BY <1>1
  <2>3. QED
    BY <2>1, <2>2
<1>4. Retain(s, keep) = [j \in 1..Cardinality(keep) |-> s[pos(j)]]
  BY DEF Retain
<1> HIDE DEF pos
<1>5. QED
  BY <1>2, <1>3, <1>4

\* The index arithmetic of the cache never wraps for a nonce in its bounds.
LEMMA SmallModulo ==
    ASSUME NEW x \in Nat, NEW m \in Nat, x < m
    PROVE  x % m = x
OBVIOUS

\* The sequence a cache holds after one more transaction.
LEMMA AppendFacts ==
    ASSUME NEW S, NEW q \in Seq(S), NEW e \in S
    PROVE  /\ Append(q, e) \in Seq(S)
           /\ Len(Append(q, e)) = Len(q) + 1
           /\ DOMAIN Append(q, e) = 1..(Len(q) + 1)
           /\ \A i \in 1..Len(q) : Append(q, e)[i] = q[i]
           /\ Append(q, e)[Len(q) + 1] = e
           /\ {Append(q, e)[i] : i \in DOMAIN Append(q, e)}
                = {q[i] : i \in DOMAIN q} \cup {e}
<1>1. /\ Append(q, e) \in Seq(S)
      /\ Len(Append(q, e)) = Len(q) + 1
      /\ DOMAIN Append(q, e) = 1..(Len(q) + 1)
      /\ \A i \in 1..Len(q) : Append(q, e)[i] = q[i]
      /\ Append(q, e)[Len(q) + 1] = e
      /\ DOMAIN q = 1..Len(q) /\ Len(q) \in Nat
  OBVIOUS
<1>2. 1..(Len(q) + 1) = 1..Len(q) \cup {Len(q) + 1}
  BY <1>1
<1>3. QED
  BY <1>1, <1>2

\* Every transaction of a cache is in the pool, and pools of different senders
\* are disjoint.
LEMMA CachedFacts ==
    ASSUME Inv, NEW a \in DOMAIN caches
    PROVE  /\ Cached(a) \subseteq txs
           /\ \A t \in Cached(a) : TxSource[t] = a
<1>1. Cached(a) \subseteq txs
  BY DEF Inv, NoGhosts, Cached
<1>2. \A t \in Cached(a) : TxSource[t] = a
  BY DEF Inv, CacheIndexed, Cached
<1>3. QED
  BY <1>1, <1>2

\* A transaction that passes the checks in front of add_tx extends its
\* sender's cache by one nonce: the replacement branch is not taken.
LEMMA AcceptedExtends ==
    ASSUME Inv, NEW t \in Tx, Accepted(t), TxSource[t] \in DOMAIN caches
    PROVE  TxNonce[t] = caches[TxSource[t]].max + 1
<1> DEFINE a == TxSource[t]
           n == TxNonce[t]
           c == caches[a]
<1>1. /\ n \in Nat /\ c.min \in Nat /\ c.max \in Nat
      /\ c.txs \in Seq(Tx) /\ Len(c.txs) = c.max - c.min + 1
  BY TxAssumption DEF Inv, TypeOK, CacheIndexed
<1>2. /\ has_tx_with_same_nonce(c, n) = {}
      /\ n <= c.max + 1 /\ n >= c.min
  BY DEF Accepted
<1>3. ASSUME n <= c.max PROVE FALSE
  <2> HIDE DEF c, n
  <2>1. (n - c.min) % (c.max + 1 - c.min) = n - c.min
    <3>1. /\ n - c.min \in Nat /\ c.max + 1 - c.min \in Nat
          /\ n - c.min < c.max + 1 - c.min
      BY <1>1, <1>2, <1>3
    <3>2. QED
      BY <3>1, SmallModulo
  <2>2. NonceIndex(c, n) \in DOMAIN c.txs
    BY <1>1, <1>2, <1>3, <2>1 DEF NonceIndex
  <2>3. c.txs # <<>>
    BY <1>1, <1>2, <1>3
  <2>4. c.txs[NonceIndex(c, n)] \in has_tx_with_same_nonce(c, n)
    BY <1>1, <1>2, <1>3, <2>2, <2>3 DEF has_tx_with_same_nonce
  <2>5. QED
    BY <1>2, <2>4
<1>4. QED
  BY <1>1, <1>2, <1>3

\* The balances that verifying transaction t alone leaves of what it spends.
Left(t) ==
    verify_batch(<<t>>, internal_get_account_nonce(TxSource[t]),
                 internal_get_sender_balance(TxSource[t]), topoheight).assets

\* What add_tx leaves in the caches and in the pool.
LEMMA AddTxStep ==
    ASSUME Inv, NEW t \in Tx, Accepted(t), add_tx(t)
    PROVE  /\ txs' = txs \cup {t}
           /\ DOMAIN caches' = DOMAIN caches \cup {TxSource[t]}
           /\ \A a \in DOMAIN caches \ {TxSource[t]} : caches'[a] = caches[a]
           /\ TxSource[t] \in DOMAIN caches =>
                LET c == caches[TxSource[t]]
                    d == caches'[TxSource[t]]
                IN /\ DOMAIN d = {"min", "max", "txs", "balances"}
                   /\ d.min = c.min
                   /\ d.max = c.max + 1
                   /\ d.max = TxNonce[t]
                   /\ d.txs = Append(c.txs, t)
                   /\ d.balances = Left(t)
           /\ TxSource[t] \notin DOMAIN caches =>
                LET d == caches'[TxSource[t]]
                IN /\ DOMAIN d = {"min", "max", "txs", "balances"}
                   /\ d.min = TxNonce[t]
                   /\ d.max = TxNonce[t]
                   /\ d.txs = <<t>>
                   /\ d.balances = Left(t)
<1> DEFINE s == TxSource[t]
           n == TxNonce[t]
<1>1. /\ caches'[s] = CacheWith(t)
      /\ DOMAIN caches' = DOMAIN caches \cup {s}
      /\ \A a \in DOMAIN caches \ {s} : caches'[a] = caches[a]
      /\ txs' = (txs \ Replaced(t)) \cup {t}
  BY DEF add_tx
<1>2. CASE s \in DOMAIN caches
  <2> DEFINE c == caches[s]
  <2>1. n = c.max + 1
    BY <1>2, AcceptedExtends
  <2>2. c.min \in Nat /\ c.max \in Nat /\ c.min <= c.max /\ n \in Nat
    <3>1. c.min \in Nat /\ c.max \in Nat /\ n \in Nat /\ c.txs \in Seq(Tx)
      BY <1>2, TxAssumption DEF Inv, TypeOK
    <3>2. c.txs # <<>> /\ Len(c.txs) = c.max - c.min + 1
      BY <1>2 DEF Inv, NoGhosts, CacheIndexed
    <3>3. QED
      BY <3>1, <3>2
  <2>3. n \notin c.min..c.max /\ ~(n < c.min) /\ n > c.max
    BY <2>1, <2>2
  <2>4. Replaced(t) = {}
    BY <1>2, <2>3 DEF Replaced
  <2>5. CacheWith(t) = [min |-> c.min, max |-> n,
                        txs |-> Append(c.txs, t), balances |-> Left(t)]
    BY <1>2, <2>3 DEF CacheWith, Left
  <2>6. QED
    BY <1>1, <1>2, <2>1, <2>4, <2>5
<1>3. CASE s \notin DOMAIN caches
  <2>1. Replaced(t) = {}
    BY <1>3 DEF Replaced
  <2>2. CacheWith(t) = [min |-> n, max |-> n, txs |-> <<t>>, balances |-> Left(t)]
    BY <1>3 DEF CacheWith, Left
  <2>3. QED
    BY <1>1, <1>3, <2>1, <2>2
<1>4. QED
  BY <1>2, <1>3

\* The part of the invariant that is about the pool alone.
PoolInv ==
    /\ txs \in SUBSET Tx
    /\ DOMAIN caches \in SUBSET PoolAccount
    /\ \A a \in DOMAIN caches :
          /\ DOMAIN caches[a] = {"min", "max", "txs", "balances"}
          /\ caches[a].min \in Nat /\ caches[a].max \in Nat
          /\ caches[a].txs \in Seq(Tx)
    /\ CacheIndexed
    /\ NoGhosts

\* Adding an accepted transaction keeps the caches indexed.
LEMMA AddTxPreserves ==
    ASSUME Inv, NEW t \in Tx, Accepted(t), add_tx(t)
    PROVE  PoolInv'
<1> DEFINE s == TxSource[t]
           d == caches'[s]
<1>1. /\ txs \in SUBSET Tx /\ DOMAIN caches \in SUBSET PoolAccount
      /\ s \in PoolAccount /\ TxNonce[t] \in Nat
  BY TxAssumption DEF Inv, TypeOK
<1>2. /\ DOMAIN d = {"min", "max", "txs", "balances"}
      /\ d.min \in Nat /\ d.max \in Nat /\ d.txs \in Seq(Tx)
      /\ Len(d.txs) = d.max - d.min + 1
      /\ d.txs # <<>>
      /\ \A i \in DOMAIN d.txs : /\ TxSource[d.txs[i]] = s
                                 /\ TxNonce[d.txs[i]] = d.min + i - 1
  <2>1. CASE s \in DOMAIN caches
    <3> DEFINE c == caches[s]
    <3>1. /\ c.min \in Nat /\ c.max \in Nat /\ c.txs \in Seq(Tx)
          /\ Len(c.txs) = c.max - c.min + 1
          /\ \A i \in DOMAIN c.txs : /\ TxSource[c.txs[i]] = s
                                     /\ TxNonce[c.txs[i]] = c.min + i - 1
      BY <2>1 DEF Inv, TypeOK, CacheIndexed
    <3>2. /\ DOMAIN d = {"min", "max", "txs", "balances"}
          /\ d.min = c.min /\ d.max = c.max + 1 /\ d.max = TxNonce[t]
          /\ d.txs = Append(c.txs, t)
      BY <2>1, AddTxStep
    <3> HIDE DEF c, d
    <3>3. /\ d.txs \in Seq(Tx) /\ Len(d.txs) = Len(c.txs) + 1
          /\ DOMAIN d.txs = 1..(Len(c.txs) + 1)
          /\ \A i \in 1..Len(c.txs) : d.txs[i] = c.txs[i]
          /\ d.txs[Len(c.txs) + 1] = t
          /\ DOMAIN c.txs = 1..Len(c.txs) /\ Len(c.txs) \in Nat
      BY <3>1, <3>2, AppendFacts
    <3>4. ASSUME NEW i \in DOMAIN d.txs
          PROVE  TxSource[d.txs[i]] = s /\ TxNonce[d.txs[i]] = d.min + i - 1
      <4>1. CASE i \in 1..Len(c.txs)
        BY <3>1, <3>2, <3>3, <4>1
      <4>2. CASE i = Len(c.txs) + 1
        BY <3>1, <3>2, <3>3, <4>2
      <4>3. QED
        BY <3>3, <4>1, <4>2
    <3>5. d.txs # <<>>
      BY <3>3
    <3>6. d.min \in Nat /\ d.max \in Nat /\ Len(d.txs) = d.max - d.min + 1
      BY <3>1, <3>2, <3>3, SMTT(30)
    <3>7. QED
      BY <3>2, <3>3, <3>4, <3>5, <3>6, Zenon
  <2>2. CASE s \notin DOMAIN caches
    <3>1. /\ DOMAIN d = {"min", "max", "txs", "balances"}
          /\ d.min = TxNonce[t] /\ d.max = TxNonce[t] /\ d.txs = <<t>>
      BY <2>2, AddTxStep
    <3> HIDE DEF d
    <3>2. QED
      BY <1>1, <3>1
  <2>3. QED
    BY <2>1, <2>2
<1>3. /\ txs' = txs \cup {t}
      /\ DOMAIN caches' = DOMAIN caches \cup {s}
      /\ \A a \in DOMAIN caches \ {s} : caches'[a] = caches[a]
  BY AddTxStep
<1>4. Cached(s)' = {t} \cup (IF s \in DOMAIN caches THEN Cached(s) ELSE {})
  <2>1. CASE s \in DOMAIN caches
    <3>1. d.txs = Append(caches[s].txs, t) /\ caches[s].txs \in Seq(Tx)
      BY <2>1, AddTxStep DEF Inv, TypeOK
    <3>2. Cached(s)' = {d.txs[i] : i \in DOMAIN d.txs}
      BY DEF Cached
    <3>3. Cached(s) = {caches[s].txs[i] : i \in DOMAIN caches[s].txs}
      BY DEF Cached
    <3> HIDE DEF d
    <3>4. {d.txs[i] : i \in DOMAIN d.txs}
            = {caches[s].txs[i] : i \in DOMAIN caches[s].txs} \cup {t}
      <4> DEFINE q == caches[s].txs
      <4>1. q \in Seq(Tx) /\ d.txs = Append(q, t)
        BY <3>1
      <4> HIDE DEF q
      <4>2. {Append(q, t)[i] : i \in DOMAIN Append(q, t)} = {q[i] : i \in DOMAIN q} \cup {t}
        BY <4>1, AppendFacts
      <4>3. {d.txs[i] : i \in DOMAIN d.txs} = {q[i] : i \in DOMAIN q} \cup {t}
        BY <4>1, <4>2, Zenon
      <4>4. QED
        BY <4>3 DEF q
    <3>5. Cached(s)' = Cached(s) \cup {t}
      BY <3>2, <3>3, <3>4, Zenon
    <3>6. QED
      BY <2>1, <3>5
  <2>2. CASE s \notin DOMAIN caches
    <3>1. d.txs = <<t>>
      BY <2>2, AddTxStep
    <3>2. Cached(s)' = {d.txs[i] : i \in DOMAIN d.txs}
      BY DEF Cached
    <3> HIDE DEF d
    <3>3. {d.txs[i] : i \in DOMAIN d.txs} = {t}
      BY <3>1
    <3>4. QED
      BY <2>2, <3>2, <3>3
  <2>3. QED
    BY <2>1, <2>2
<1>5. \A a \in DOMAIN caches \ {s} : Cached(a)' = Cached(a)
  BY <1>3 DEF Cached
<1>6. txs = UNION {Cached(a) : a \in DOMAIN caches}
  BY DEF Inv, NoGhosts, Cached
<1>7. txs' = UNION {Cached(a)' : a \in DOMAIN caches'}
  <2>1. ASSUME NEW u PROVE u \in txs' <=> \E a \in DOMAIN caches' : u \in Cached(a)'
    <3>1. u \in txs <=> \E a \in DOMAIN caches : u \in Cached(a)
      BY <1>6
    <3>2. QED
      BY <1>3, <1>4, <1>5, <3>1
  <2>2. QED
    BY <2>1
<1>8. NoGhosts'
  <2>1. \A a \in DOMAIN caches' : caches'[a].txs # <<>>
    BY <1>2, <1>3 DEF Inv, NoGhosts
  <2>2. QED
    BY <1>7, <2>1 DEF NoGhosts, Cached
<1>9. CacheIndexed'
  BY <1>2, <1>3 DEF Inv, CacheIndexed
<1>10. QED
  BY <1>1, <1>2, <1>3, <1>8, <1>9 DEF PoolInv, Inv, TypeOK

\* What clean_up keeps of a cache that it does not delete: the transactions
\* from the stored nonce on.
LEMMA TrimmedSuffix ==
    ASSUME Inv, NEW st \in StorageStates, NEW a \in DOMAIN caches, NEW h,
           KeepsCache(st, a, h)
    PROVE  LET c == caches[a]
               d == Trimmed(c, st.nonces[a])
               k == st.nonces[a] - c.min + 1
           IN /\ k \in 1..Len(c.txs)
              /\ DOMAIN d = {"min", "max", "txs", "balances"}
              /\ d.txs = [j \in 1..(Len(c.txs) - k + 1) |-> c.txs[k + j - 1]]
              /\ d.min = st.nonces[a]
              /\ d.max = c.max
<1> DEFINE c == caches[a]
           n == st.nonces[a]
           q == c.txs
           lo == c.min
           hi == c.max
           m == Len(q)
           k == n - lo + 1
<1>1. /\ DOMAIN c = {"min", "max", "txs", "balances"}
      /\ lo \in Nat /\ hi \in Nat /\ q \in Seq(Tx) /\ a \in PoolAccount
      /\ m = hi - lo + 1 /\ m \in Nat /\ DOMAIN q = 1..m
      /\ \A i \in 1..m : TxNonce[q[i]] = lo + i - 1
  BY DEF Inv, TypeOK, CacheIndexed
<1>2. \A i \in 1..m : q[i] \in txs
  BY <1>1 DEF Inv, NoGhosts
<1>3. n \in Nat /\ lo <= n /\ Pending(c, n) # {}
  BY <1>1, PoolStorageAssumption DEF KeepsCache
<1>4. Pending(c, n) = {i \in 1..m : TxNonce[q[i]] >= n}
  BY <1>1, <1>2 DEF Pending
<1> DEFINE kept == Retain(q, Pending(c, n))
           nonces == {TxNonce[kept[i]] : i \in DOMAIN kept}
           least == CHOOSE x \in nonces : \A y \in nonces : x <= y
           greatest == CHOOSE x \in nonces : \A y \in nonces : x >= y
<1>5. Trimmed(c, n) = [c EXCEPT !.txs = kept, !.min = least, !.max = greatest]
  BY DEF Trimmed
<1> HIDE DEF c, n, q, lo, hi, m
<1>6. k \in 1..m /\ Pending(c, n) = k..m
  <2>1. \A i \in 1..m : TxNonce[q[i]] >= n <=> i >= k
    BY <1>1, <1>3
  <2>2. Pending(c, n) = {i \in 1..m : i >= k}
    BY <1>4, <2>1
  <2>3. k \in Nat /\ k >= 1
    BY <1>1, <1>3
  <2>4. QED
    BY <1>1, <1>3, <2>2, <2>3
<1>7. kept = [j \in 1..(m - k + 1) |-> q[k + j - 1]]
  <2> HIDE DEF k
  <2>1. k \in 1..Len(q) /\ q \in Seq(Tx)
    BY <1>1, <1>6 DEF m
  <2>2. Retain(q, k..Len(q)) = [j \in 1..(Len(q) - k + 1) |-> q[k + j - 1]]
    BY <2>1, RetainSuffix
  <2>3. QED
    BY <1>6, <2>2, Zenon DEF m
<1> HIDE DEF kept
<1>8. nonces = n..hi
  <2>1. ASSUME NEW j \in 1..(m - k + 1)
        PROVE  TxNonce[kept[j]] = n + j - 1
    <3>1. k + j - 1 \in 1..m
      <4>1. m \in Nat /\ k \in 1..m
        BY <1>1, <1>6
      <4> HIDE DEF k
      <4>2. QED
        BY <4>1
    <3>2. kept[j] = q[k + j - 1]
      BY <1>7
    <3>3. QED
      BY <1>1, <1>3, <3>1, <3>2
  <2>2. DOMAIN kept = 1..(m - k + 1)
    BY <1>7
  <2>3. nonces = {n + j - 1 : j \in 1..(m - k + 1)}
    BY <2>1, <2>2
  <2>4. m - k + 1 = hi - n + 1
    BY <1>1, <1>3
  <2> HIDE DEF nonces, k
  <2>5. ASSUME NEW x \in n..hi PROVE x \in nonces
    <3>1. x - n + 1 \in 1..(hi - n + 1) /\ x = n + (x - n + 1) - 1
      BY <1>1, <1>3
    <3>2. QED
      BY <2>3, <2>4, <3>1
  <2>6. ASSUME NEW x \in nonces PROVE x \in n..hi
    <3>1. PICK j \in 1..(hi - n + 1) : x = n + j - 1
      BY <2>3, <2>4
    <3>2. QED
      BY <1>1, <1>3, <3>1
  <2>7. QED
    BY <2>5, <2>6
<1> HIDE DEF nonces
<1>9. least = n /\ greatest = hi
  BY <1>1, <1>3, <1>6, <1>8
<1> HIDE DEF least, greatest
<1>10. /\ DOMAIN Trimmed(c, n) = {"min", "max", "txs", "balances"}
       /\ Trimmed(c, n).txs = kept
       /\ Trimmed(c, n).min = n
       /\ Trimmed(c, n).max = hi
  BY <1>1, <1>5, <1>9
<1>11. QED
  BY <1>6, <1>7, <1>10 DEF c, n, q, lo, hi, m

\* clean_up keeps the caches indexed and the pool equal to them.
LEMMA CleanUpPreserves ==
    ASSUME Inv, NEW st \in StorageStates, NEW h, clean_up(st, h)
    PROVE  PoolInv'
<1> DEFINE kept == {a \in DOMAIN caches : KeepsCache(st, a, h)}
           new(a) == [Trimmed(caches[a], st.nonces[a])
                        EXCEPT !.balances = Reverified(st, a, h).assets]
           left(a) == {new(a).txs[i] : i \in DOMAIN new(a).txs}
           deleted(a) == IF a \in kept THEN Cached(a) \ left(a) ELSE Cached(a)
<1>1. /\ caches' = [a \in kept |-> new(a)]
      /\ txs' = txs \ UNION {deleted(a) : a \in DOMAIN caches}
  BY DEF clean_up, Cached
<1>2. ASSUME NEW a \in kept
      PROVE  /\ DOMAIN new(a) = {"min", "max", "txs", "balances"}
             /\ new(a).min \in Nat /\ new(a).max \in Nat
             /\ new(a).txs \in Seq(Tx)
             /\ Len(new(a).txs) = new(a).max - new(a).min + 1
             /\ new(a).txs # <<>>
             /\ \A i \in DOMAIN new(a).txs :
                   /\ TxSource[new(a).txs[i]] = a
                   /\ TxNonce[new(a).txs[i]] = new(a).min + i - 1
             /\ left(a) \subseteq Cached(a)
  <2> DEFINE q == caches[a].txs
             lo == caches[a].min
             hi == caches[a].max
             m == Len(q)
             n == st.nonces[a]
             k == n - lo + 1
             d == Trimmed(caches[a], n)
  <2>1. /\ k \in 1..m
        /\ DOMAIN d = {"min", "max", "txs", "balances"}
        /\ d.txs = [j \in 1..(m - k + 1) |-> q[k + j - 1]]
        /\ d.min = n /\ d.max = hi
    BY TrimmedSuffix
  <2>2. /\ DOMAIN new(a) = {"min", "max", "txs", "balances"}
        /\ new(a).txs = d.txs /\ new(a).min = d.min /\ new(a).max = d.max
    BY <2>1
  <2>3. /\ lo \in Nat /\ hi \in Nat /\ q \in Seq(Tx) /\ m \in Nat
        /\ m = hi - lo + 1 /\ DOMAIN q = 1..m
        /\ \A i \in 1..m : TxSource[q[i]] = a /\ TxNonce[q[i]] = lo + i - 1
    BY DEF Inv, TypeOK, CacheIndexed
  <2>4. n \in Nat
    <3>1. a \in PoolAccount
      BY DEF Inv, TypeOK
    <3>2. QED
      BY <3>1, PoolStorageAssumption DEF KeepsCache
  <2>5. Cached(a) = {q[i] : i \in 1..m}
    BY <2>3 DEF Cached
  <2> DEFINE r == new(a).txs
             rlo == new(a).min
             rhi == new(a).max
  <2>6. /\ r = [j \in 1..(m - k + 1) |-> q[k + j - 1]]
        /\ rlo = n /\ rhi = hi
    BY <2>1, <2>2
  <2> HIDE DEF q, lo, hi, m, n, d, r, rlo, rhi
  <2>7. \A j \in 1..(m - k + 1) : k + j - 1 \in 1..m
    <3>1. m \in Nat /\ k \in 1..m
      BY <2>1, <2>3
    <3> HIDE DEF k
    <3>2. QED
      BY <3>1
  <2>8. m - k + 1 \in Nat /\ m - k + 1 >= 1 /\ m - k + 1 = rhi - rlo + 1
    <3>1. /\ k \in 1..m /\ m \in Nat /\ m = hi - lo + 1 /\ lo \in Nat
          /\ hi \in Nat /\ n \in Nat /\ rlo = n /\ rhi = hi
      BY <2>1, <2>3, <2>4, <2>6
    <3>2. QED
      BY <3>1
  <2>9. \A j \in 1..(m - k + 1) : q[k + j - 1] \in Tx
    BY <2>3, <2>7
  <2>10. \A j \in 1..(m - k + 1) : r[j] = q[k + j - 1]
    BY <2>6
  <2>11. r \in Seq(Tx) /\ Len(r) = m - k + 1 /\ DOMAIN r = 1..(m - k + 1) /\ r # <<>>
    <3> HIDE DEF k
    <3>1. QED
      BY <2>6, <2>8, <2>9
  <2>12. ASSUME NEW i \in 1..(m - k + 1)
         PROVE  TxSource[r[i]] = a /\ TxNonce[r[i]] = rlo + i - 1
    <3>1. r[i] = q[k + i - 1] /\ k + i - 1 \in 1..m
      BY <2>7, <2>10
    <3>2. TxNonce[r[i]] = lo + (k + i - 1) - 1 /\ TxSource[r[i]] = a
      BY <2>3, <3>1
    <3>3. QED
      BY <2>3, <2>4, <2>6, <3>2
  <2>13. {r[i] : i \in DOMAIN r} \subseteq Cached(a)
    BY <2>5, <2>7, <2>10, <2>11
  <2>14. QED
    BY <2>2, <2>3, <2>4, <2>6, <2>8, <2>11, <2>12, <2>13 DEF r, rlo, rhi
<1> HIDE DEF new
<1>3. DOMAIN caches' = kept /\ \A a \in kept : caches'[a] = new(a)
  BY <1>1
<1>4. \A a \in kept : Cached(a)' = left(a)
  BY <1>3 DEF Cached
<1>5. \A t \in txs : \E a \in DOMAIN caches : t \in Cached(a)
  BY DEF Inv, NoGhosts, Cached
<1>6. \A a \in DOMAIN caches : Cached(a) \subseteq txs /\ \A t \in Cached(a) : TxSource[t] = a
  BY CachedFacts
<1> HIDE DEF left
<1>7. ASSUME NEW t PROVE t \in txs' <=> \E a \in kept : t \in left(a)
  <2>1. ASSUME t \in txs' PROVE \E a \in kept : t \in left(a)
    <3>1. t \in txs /\ \A a \in DOMAIN caches : t \notin deleted(a)
      BY <1>1, <2>1
    <3>2. PICK a \in DOMAIN caches : t \in Cached(a)
      BY <1>5, <3>1
    <3>3. QED
      BY <3>1, <3>2
  <2>2. ASSUME NEW a \in kept, t \in left(a) PROVE t \in txs'
    <3>1. t \in Cached(a) /\ t \in txs /\ TxSource[t] = a
      BY <1>2, <1>6, <2>2 DEF left
    <3>2. \A b \in DOMAIN caches : t \notin deleted(b)
      BY <1>6, <2>2, <3>1
    <3>3. QED
      BY <1>1, <3>1, <3>2
  <2>3. QED
    BY <2>1, <2>2
<1>8. txs' = UNION {Cached(a)' : a \in DOMAIN caches'}
  <2>1. ASSUME NEW t PROVE t \in txs' <=> \E a \in DOMAIN caches' : t \in Cached(a)'
    BY <1>3, <1>4, <1>7
  <2>2. QED
    BY <2>1
<1>9. NoGhosts'
  <2>1. \A a \in DOMAIN caches' : caches'[a].txs # <<>>
    BY <1>2, <1>3
  <2>2. QED
    BY <1>8, <2>1 DEF NoGhosts, Cached
<1>10. CacheIndexed'
  BY <1>2, <1>3 DEF CacheIndexed
<1>11. txs' \in SUBSET Tx /\ DOMAIN caches' \in SUBSET PoolAccount
  BY <1>1, <1>3 DEF Inv, TypeOK
<1>12. QED
  BY <1>2, <1>3, <1>9, <1>10, <1>11 DEF PoolInv

-----------------------------------------------------------------------------
(* The theorems.                                                           *)

\* The initial pool is empty.
LEMMA InitInv == InitMempool => Inv
BY TopoAssumption DEF InitMempool, Inv, TypeOK, CacheIndexed, NoGhosts

\* A step that leaves the pool alone preserves its part of the invariant.
LEMMA PoolStutters ==
    ASSUME Inv, UNCHANGED <<txs, caches>>
    PROVE  PoolInv'
BY DEF PoolInv, Inv, TypeOK, CacheIndexed, NoGhosts

\* Every step of the pool or of the chain preserves the invariant.
LEMMA NextInv == Inv /\ [NextMempool]_mempoolVars => Inv'
<1> SUFFICES ASSUME Inv, [NextMempool]_mempoolVars PROVE Inv'
  OBVIOUS
<1>1. ASSUME NEW t \in Tx, AddTx(t) PROVE Inv'
  <2>1. PoolInv'
    BY <1>1, AddTxPreserves DEF AddTx
  <2>2. UNCHANGED <<storage, topoheight, writer, orphaned, newTopo, clean>>
    BY <1>1 DEF AddTx
  <2>3. QED
    BY <2>1, <2>2 DEF Inv, TypeOK, PoolInv
<1>2. ASSUME NEW t \in Tx, AddBack(t) PROVE Inv'
  <2>1. PoolInv'
    <3>1. CASE Accepted(t)
      BY <1>2, <3>1, AddTxPreserves DEF AddBack
    <3>2. CASE ~Accepted(t)
      BY <1>2, <3>2, PoolStutters DEF AddBack
    <3>3. QED
      BY <3>1, <3>2
  <2>2. /\ orphaned' \in SUBSET Tx
        /\ UNCHANGED <<storage, topoheight, writer, newTopo, clean>>
    BY <1>2 DEF AddBack, Inv, TypeOK
  <2>3. QED
    BY <2>1, <2>2 DEF Inv, TypeOK, PoolInv
<1>3. ASSUME NEW st \in StorageStates, NEW back \in SUBSET storage.executed,
             NEW highest \in 0..MaxPoolTopo, BlockExecuted(st, highest, back)
      PROVE  Inv'
  <2>1. storage.executed \in SUBSET Tx
    BY PoolStorageAssumption DEF Inv, TypeOK
  <2>2. /\ storage' \in StorageStates /\ topoheight' \in 0..MaxPoolTopo
        /\ writer' = "block" /\ newTopo' = newTopo /\ clean' \in BOOLEAN
    BY <1>3 DEF BlockExecuted, Inv, TypeOK
  <2>3. CASE highest >= topoheight
    <3>1. clean_up(st, highest) /\ orphaned' \in SUBSET Tx
      BY <1>3, <2>1, <2>3 DEF BlockExecuted
    <3>2. PoolInv'
      BY <3>1, CleanUpPreserves
    <3>3. QED
      BY <2>2, <3>1, <3>2 DEF Inv, TypeOK, PoolInv
  <2>4. CASE ~(highest >= topoheight)
    <3>1. orphaned' \in SUBSET Tx /\ UNCHANGED <<txs, caches>>
      BY <1>3, <2>1, <2>4 DEF BlockExecuted
    <3>2. PoolInv'
      BY <3>1, PoolStutters
    <3>3. QED
      BY <2>2, <3>1, <3>2 DEF Inv, TypeOK, PoolInv
  <2>5. QED
    BY <2>3, <2>4
<1>4. ASSUME NEW st \in StorageStates, NEW back \in SUBSET storage.executed,
             NEW topo \in 0..MaxPoolTopo, Rewound(st, topo, back)
      PROVE  Inv'
  <2>1. storage.executed \in SUBSET Tx
    BY PoolStorageAssumption DEF Inv, TypeOK
  <2>2. PoolInv'
    BY <1>4, PoolStutters DEF Rewound
  <2>3. /\ storage' \in StorageStates /\ topoheight' \in 0..MaxPoolTopo
        /\ newTopo' \in 0..MaxPoolTopo /\ writer' = "rewind"
        /\ orphaned' \in SUBSET Tx /\ clean' \in BOOLEAN
    BY <1>4, <2>1 DEF Rewound, Inv, TypeOK
  <2>4. QED
    BY <2>2, <2>3 DEF Inv, TypeOK, PoolInv
<1>5. CASE Release
  <2>1. PoolInv'
    BY <1>5, PoolStutters DEF Release
  <2>2. /\ UNCHANGED <<storage, orphaned, clean>> /\ topoheight' \in 0..MaxPoolTopo
        /\ newTopo' \in 0..MaxPoolTopo /\ writer' = "none"
    BY <1>5, TopoAssumption DEF Release, Inv, TypeOK
  <2>3. QED
    BY <2>1, <2>2 DEF Inv, TypeOK, PoolInv
<1>6. CASE Clear
  BY <1>6 DEF Clear, Inv, TypeOK, CacheIndexed, NoGhosts
<1>7. CASE UNCHANGED mempoolVars
  BY <1>7 DEF mempoolVars, Inv, TypeOK, CacheIndexed, NoGhosts
<1>8. QED
  BY <1>1, <1>2, <1>3, <1>4, <1>5, <1>6, <1>7 DEF NextMempool

\* The variables of the pool keep their types.
THEOREM MempoolTypes == MempoolSpec => []TypeOK
<1>1. Inv => TypeOK
  BY DEF Inv
<1>2. QED
  BY InitInv, NextInv, <1>1, PTL DEF MempoolSpec

\* The i-th transaction of a cache always has nonce min + i - 1: the index the
\* pool computes from a nonce (has_tx_with_same_nonce, add_tx) is the right one.
THEOREM MempoolIndexed == MempoolSpec => []CacheIndexed
<1>1. Inv => CacheIndexed
  BY DEF Inv
<1>2. QED
  BY InitInv, NextInv, <1>1, PTL DEF MempoolSpec

\* The pool and its caches always hold the same transactions.
THEOREM MempoolNoGhosts == MempoolSpec => []NoGhosts
<1>1. Inv => NoGhosts
  BY DEF Inv
<1>2. QED
  BY InitInv, NextInv, <1>1, PTL DEF MempoolSpec

\* Adding a transaction never takes another one out of the pool.
THEOREM MempoolNeverReplaced == MempoolSpec => NeverReplaced
<1> DEFINE A == \A t \in Tx : t \notin txs /\ t \in txs' => txs \subseteq txs'
<1>1. ASSUME Inv, [NextMempool]_mempoolVars PROVE [A]_mempoolVars
  <2>1. ASSUME NEW t \in Tx, AddTx(t) PROVE A
    BY <1>1, <2>1, AddTxStep DEF AddTx
  <2>2. ASSUME NEW t \in Tx, AddBack(t) PROVE A
    <3>1. CASE Accepted(t)
      BY <1>1, <2>2, <3>1, AddTxStep DEF AddBack
    <3>2. CASE ~Accepted(t)
      BY <2>2, <3>2 DEF AddBack
    <3>3. QED
      BY <3>1, <3>2
  <2>3. ASSUME NEW st \in StorageStates, NEW back, NEW highest,
               BlockExecuted(st, highest, back)
        PROVE  A
    <3>1. txs' \subseteq txs
      BY <2>3 DEF BlockExecuted, clean_up
    <3>2. QED
      BY <3>1
  <2>4. ASSUME NEW st, NEW topo, NEW back, Rewound(st, topo, back) PROVE A
    BY <2>4 DEF Rewound
  <2>5. CASE Release
    BY <2>5 DEF Release
  <2>6. CASE Clear
    BY <2>6 DEF Clear
  <2>7. QED
    BY <1>1, <2>1, <2>2, <2>3, <2>4, <2>5, <2>6 DEF NextMempool
<1>2. QED
  BY InitInv, NextInv, <1>1, PTL DEF MempoolSpec, NeverReplaced

-----------------------------------------------------------------------------
(* What the pool expects its senders to have left.                         *)
(*                                                                         *)
(* Three facts about the constants are needed, and stated with the         *)
(* theorem.  RegisteredFirst is the ledger's: an account gets its nonce    *)
(* together with its first balance, so one without a nonce has nothing to  *)
(* spend.  SameAssets is not guaranteed by the code: add_tx replaces the   *)
(* expected balances by those of the one new transaction, and the run      *)
(* mempool_assets shows what happens when a sender mixes assets.           *)

\* Transactions spend known assets.
KnownAssets == \A t \in Tx : DOMAIN TxSpend[t] \subseteq Asset

\* All the transactions of a sender commit to the same assets.
SameAssets ==
    \A t, u \in Tx : TxSource[t] = TxSource[u] => DOMAIN TxSpend[t] = DOMAIN TxSpend[u]

\* An account without a nonce cannot pay for any of its transactions.
RegisteredFirst ==
    \A s \in StorageStates, t \in Tx :
        s.nonces[TxSource[t]] = NoNonce =>
            \E x \in DOMAIN TxSpend[t] : ~(TxSpend[t][x] <= s.funds[TxSource[t]][x])

\* Induction over the natural numbers, for a set.
LEMMA NatSetInduction ==
    ASSUME NEW S, 0 \in S, \A n \in Nat : n \in S => n + 1 \in S
    PROVE  Nat \subseteq S
<1> DEFINE R == OpToRel(<, Nat)
           T == Nat \ S
<1>1. SUFFICES ASSUME T # {} PROVE FALSE
  OBVIOUS
<1>2. IsWellFoundedOn(R, Nat)
  BY NatLessThanWellFounded
<1>3. T \subseteq Nat
  OBVIOUS
<1> HIDE DEF R, T
<1>4. PICK x \in T : \A y \in T : ~(<<y, x>> \in R)
  BY <1>1, <1>2, <1>3, WFMin
<1>5. \A y \in T : ~(y < x)
  BY <1>3, <1>4 DEF R, OpToRel
<1>6. x \in Nat /\ x \notin S
  BY <1>4 DEF T
<1>7. x - 1 \in Nat /\ x - 1 < x
  BY <1>6
<1>8. (x - 1) + 1 \in S
  BY <1>5, <1>7 DEF T
<1>9. QED
  BY <1>6, <1>8

\* The state verify_batch starts from.
Started(nonce, balances) ==
    [ok |-> TRUE, nonce |-> nonce, base |-> balances, assets |-> [x \in {} |-> 0]]

\* f[i] is the verification state after the first i transactions of s.
Verifies(f, s, nonce, balances, h) ==
    /\ f[0] = Started(nonce, balances)
    /\ \A i \in 1..Len(s) : f[i] = pre_verify(f[i - 1], s[i], h)

\* verify_batch takes the transactions one after the other.
LEMMA VerifiesInTurn ==
    ASSUME NEW s \in Seq(Tx), NEW nonce, NEW balances, NEW h
    PROVE  \E f : /\ Verifies(f, s, nonce, balances, h)
                  /\ verify_batch(s, nonce, balances, h) = f[Len(s)]
<1> DEFINE Step(g, i) == IF i = 0 THEN Started(nonce, balances)
                                  ELSE pre_verify(g[i - 1], s[i], h)
           Solved(g, n) == g = [i \in 0..n |-> Step(g, i)]
           after == CHOOSE g : Solved(g, Len(s))
<1>1. verify_batch(s, nonce, balances, h) = after[Len(s)]
  BY Zenon DEF verify_batch, Started
<1>2. \E g : Solved(g, Len(s))
  <2> DEFINE N == {n \in Nat : \E g : Solved(g, n)}
  <2>1. 0 \in N
    <3>1. Solved([i \in 0..0 |-> Started(nonce, balances)], 0)
      <4> HIDE DEF Step
      <4>1. \A g, i : i = 0 => Step(g, i) = Started(nonce, balances)
        BY DEF Step
      <4>2. QED
        BY <4>1
    <3>2. QED
      BY <3>1
  <2>2. ASSUME NEW n \in Nat, n \in N PROVE n + 1 \in N
    <3>1. PICK g : Solved(g, n)
      BY <2>2
    <3> DEFINE g2 == [i \in 0..(n + 1) |-> IF i = n + 1 THEN Step(g, i) ELSE g[i]]
    <3>2. ASSUME NEW i \in 0..(n + 1) PROVE g2[i] = Step(g2, i)
      <4>1. i = 0 \/ i - 1 \in 0..n
        OBVIOUS
      <4>2. i \in 0..n => g[i] = Step(g, i)
        BY <3>1
      <4>3. \A j \in 0..n : g2[j] = g[j]
        OBVIOUS
      <4>4. Step(g2, i) = Step(g, i)
        BY <4>1, <4>3
      <4>5. QED
        BY <4>2, <4>4
    <3>3. g2 = [i \in 0..(n + 1) |-> g2[i]]
      OBVIOUS
    <3> HIDE DEF g2, Step
    <3>4. Solved(g2, n + 1)
      BY <3>2, <3>3
    <3>5. QED
      BY <3>4
  <2> HIDE DEF N
  <2>3. Nat \subseteq N
    BY <2>1, <2>2, NatSetInduction
  <2>4. Len(s) \in Nat
    OBVIOUS
  <2> HIDE DEF Solved
  <2>5. QED
    BY <2>3, <2>4 DEF N
<1>3. Solved(after, Len(s))
  BY <1>2, Zenon
<1> HIDE DEF after
<1>4. \A i \in 0..Len(s) : after[i] = Step(after, i)
  <2> HIDE DEF Step
  <2>1. QED
    BY <1>3
<1>5. Verifies(after, s, nonce, balances, h)
  <2>1. 0 \in 0..Len(s) /\ (\A i \in 1..Len(s) : i \in 0..Len(s) /\ i # 0)
    OBVIOUS
  <2>2. QED
    BY <1>4, <2>1, Zenon DEF Verifies
<1>6. QED
  BY <1>1, <1>5

\* The balance of an asset in a verification state.
Current(b, d, x) == IF x \in DOMAIN d THEN d[x] ELSE b[x]

\* Transaction t is refused, or takes what it spends.
Allowed(b, d, n, t, h) ==
    /\ TxReference[t] <= h
    /\ TxNonce[t] = n
    /\ \A x \in DOMAIN TxSpend[t] : ProofHolds(t, x, Current(b, d, x))

Spent(b, d, t) ==
    [x \in DOMAIN d \cup DOMAIN TxSpend[t] |->
        IF x \in DOMAIN TxSpend[t] THEN Current(b, d, x) - TxSpend[t][x] ELSE d[x]]

\* What pre_verify makes of a state.
LEMMA PreVerified ==
    ASSUME NEW v, NEW o \in BOOLEAN, NEW n, NEW b, NEW d, NEW t, NEW h,
           v = [ok |-> o, nonce |-> n, base |-> b, assets |-> d]
    PROVE  pre_verify(v, t, h) = [ok |-> o /\ Allowed(b, d, n, t, h), nonce |-> n + 1,
                                  base |-> b, assets |-> Spent(b, d, t)]
<1>1. v.ok = o /\ v.nonce = n /\ v.base = b /\ v.assets = d
  OBVIOUS
<1> DEFINE ok == o /\ Allowed(b, d, n, t, h)
           m == n + 1
           e == Spent(b, d, t)
<1>2. pre_verify(v, t, h) = [v EXCEPT !.ok = ok, !.nonce = m, !.assets = e]
  BY <1>1, Zenon DEF pre_verify, Allowed, Spent, Current
<1> HIDE DEF ok, m, e
<1>3. [v EXCEPT !.ok = ok, !.nonce = m, !.assets = e]
        = [ok |-> ok, nonce |-> m, base |-> b, assets |-> e]
  <2>1. ASSUME NEW p, NEW q, NEW r
        PROVE  [v EXCEPT !.ok = p, !.nonce = q, !.assets = r]
                 = [ok |-> p, nonce |-> q, base |-> b, assets |-> r]
    <3> DEFINE w == [v EXCEPT !.ok = p, !.nonce = q, !.assets = r]
               fields == {"ok", "nonce", "base", "assets"}
    <3>1. DOMAIN v = fields
      OBVIOUS
    <3>2. DOMAIN w = fields
      BY <3>1
    <3>3. w = [i \in fields |-> w[i]]
      BY <3>2
    <3>4. w.ok = p /\ w.nonce = q /\ w.base = b /\ w.assets = r
      OBVIOUS
    <3> HIDE DEF w
    <3>5. w = [ok |-> p, nonce |-> q, base |-> b, assets |-> r]
      BY <3>3, <3>4
    <3>6. QED
      BY <3>5 DEF w
  <2>2. QED
    BY <2>1, Zenon
<1>4. QED
  BY <1>2, <1>3 DEF ok, m, e

\* The states on the way: the nonce counts the transactions, the balances the
\* verification started from stay, and the assets are those spent so far.
LEMMA VerifiedShape ==
    ASSUME NEW s \in Seq(Tx), NEW nonce \in Int, NEW balances, NEW h, NEW f,
           Verifies(f, s, nonce, balances, h), NEW k \in 0..Len(s)
    PROVE  /\ f[k] = [ok |-> f[k].ok, nonce |-> nonce + k, base |-> balances,
                      assets |-> f[k].assets]
           /\ f[k].ok \in BOOLEAN
           /\ DOMAIN f[k].assets = UNION {DOMAIN TxSpend[s[i]] : i \in 1..k}
<1> DEFINE Good(v, n) ==
             /\ v = [ok |-> v.ok, nonce |-> nonce + n, base |-> balances,
                     assets |-> v.assets]
             /\ v.ok \in BOOLEAN
             /\ DOMAIN v.assets = UNION {DOMAIN TxSpend[s[i]] : i \in 1..n}
           N == {n \in Nat : n <= Len(s) => Good(f[n], n)}
<1>1. 0 \in N
  <2>1. Good(Started(nonce, balances), 0)
    <3>1. UNION {DOMAIN TxSpend[s[i]] : i \in 1..0} = {}
      OBVIOUS
    <3>2. nonce + 0 = nonce
      OBVIOUS
    <3>3. QED
      BY <3>1, <3>2 DEF Started
  <2> HIDE DEF Good
  <2>2. QED
    BY <2>1 DEF Verifies
<1>2. ASSUME NEW n \in Nat, n \in N PROVE n + 1 \in N
  <2> HIDE DEF Good
  <2>1. SUFFICES ASSUME n + 1 <= Len(s) PROVE Good(f[n + 1], n + 1)
    OBVIOUS
  <2>2. Good(f[n], n)
    BY <1>2, <2>1
  <2>3. n + 1 \in 1..Len(s) /\ (n + 1) - 1 = n
    BY <2>1
  <2>4. f[n + 1] = pre_verify(f[n], s[n + 1], h)
    BY <2>3, Zenon DEF Verifies
  <2>5. UNION {DOMAIN TxSpend[s[i]] : i \in 1..(n + 1)}
          = (UNION {DOMAIN TxSpend[s[i]] : i \in 1..n}) \cup DOMAIN TxSpend[s[n + 1]]
    <3>1. 1..(n + 1) = 1..n \cup {n + 1}
      OBVIOUS
    <3>2. QED
      BY <3>1
  <2>6. \E v : v = f[n] /\ Good(v, n)
    BY <2>2
  <2>7. PICK v : v = f[n] /\ Good(v, n)
    BY <2>6
  <2>8. Good(pre_verify(v, s[n + 1], h), n + 1)
    <3>1. /\ v = [ok |-> v.ok, nonce |-> nonce + n, base |-> balances, assets |-> v.assets]
          /\ v.ok \in BOOLEAN
          /\ DOMAIN v.assets = UNION {DOMAIN TxSpend[s[i]] : i \in 1..n}
      BY <2>7 DEF Good
    <3> DEFINE w == pre_verify(v, s[n + 1], h)
    <3>2. \E p, d : /\ w = [ok |-> p, nonce |-> nonce + n + 1, base |-> balances, assets |-> d]
                    /\ p \in BOOLEAN
                    /\ DOMAIN d = DOMAIN v.assets \cup DOMAIN TxSpend[s[n + 1]]
      <4>0. PICK nn : nn = nonce + n
        OBVIOUS
      <4> DEFINE e == Spent(balances, v.assets, s[n + 1])
                 p == v.ok /\ Allowed(balances, v.assets, nn, s[n + 1], h)
      <4>1. w = [ok |-> p, nonce |-> nn + 1, base |-> balances, assets |-> e]
        <5>1. v = [ok |-> v.ok, nonce |-> nn, base |-> balances, assets |-> v.assets]
          BY <3>1, <4>0
        <5>2. PICK o \in BOOLEAN : o = v.ok
          BY <3>1
        <5>6. PICK d : d = v.assets
          OBVIOUS
        <5>3. v = [ok |-> o, nonce |-> nn, base |-> balances, assets |-> d]
          BY <5>1, <5>2, <5>6, Zenon
        <5>4. pre_verify(v, s[n + 1], h)
                = [ok |-> o /\ Allowed(balances, d, nn, s[n + 1], h), nonce |-> nn + 1,
                   base |-> balances, assets |-> Spent(balances, d, s[n + 1])]
          BY <5>3, PreVerified
        <5>5. QED
          BY <5>2, <5>4, <5>6, Zenon
      <4>2. DOMAIN e = DOMAIN v.assets \cup DOMAIN TxSpend[s[n + 1]]
        BY DEF Spent
      <4>3. p \in BOOLEAN
        OBVIOUS
      <4> HIDE DEF p, e
      <4>4. QED
        BY <4>0, <4>1, <4>2, <4>3, Zenon
    <3> HIDE DEF w
    <3>3. nonce + n + 1 = nonce + (n + 1)
      OBVIOUS
    <3>4. Good(w, n + 1)
      BY <2>5, <3>1, <3>2, <3>3 DEF Good
    <3>5. QED
      BY <3>4 DEF w
  <2>9. QED
    BY <2>4, <2>7, <2>8
<1> HIDE DEF N
<1>3. k \in N
  BY <1>1, <1>2, NatSetInduction
<1>4. QED
  BY <1>3 DEF N

\* The verification state after the whole batch.
LEMMA BatchShape ==
    ASSUME NEW s \in Seq(Tx), NEW nonce \in Int, NEW balances, NEW h
    PROVE  LET v == verify_batch(s, nonce, balances, h)
           IN /\ v = [ok |-> v.ok, nonce |-> nonce + Len(s), base |-> balances,
                      assets |-> v.assets]
              /\ v.ok \in BOOLEAN
              /\ DOMAIN v.assets = UNION {DOMAIN TxSpend[s[i]] : i \in 1..Len(s)}
<1>1. PICK f : /\ Verifies(f, s, nonce, balances, h)
               /\ verify_batch(s, nonce, balances, h) = f[Len(s)]
  BY VerifiesInTurn
<1>2. Len(s) \in 0..Len(s)
  OBVIOUS
<1>3. \A k \in 0..Len(s) :
           /\ f[k] = [ok |-> f[k].ok, nonce |-> nonce + k, base |-> balances,
                      assets |-> f[k].assets]
           /\ f[k].ok \in BOOLEAN
           /\ DOMAIN f[k].assets = UNION {DOMAIN TxSpend[s[i]] : i \in 1..k}
  BY <1>1, VerifiedShape
<1>4. QED
  BY <1>1, <1>2, <1>3, Zenon

\* One transaction more is verified in the state the others leave.
LEMMA BatchAppend ==
    ASSUME NEW s \in Seq(Tx), NEW t \in Tx, NEW nonce, NEW balances, NEW h
    PROVE  verify_batch(Append(s, t), nonce, balances, h)
             = pre_verify(verify_batch(s, nonce, balances, h), t, h)
<1> DEFINE q == Append(s, t)
           m == Len(s)
<1>1. /\ q \in Seq(Tx) /\ Len(q) = m + 1 /\ q[m + 1] = t /\ m \in Nat
      /\ \A i \in 1..m : q[i] = s[i]
  OBVIOUS
<1> HIDE DEF q
<1>2. PICK f : /\ Verifies(f, s, nonce, balances, h)
               /\ verify_batch(s, nonce, balances, h) = f[Len(s)]
  BY VerifiesInTurn
<1>3. PICK g : /\ Verifies(g, q, nonce, balances, h)
               /\ verify_batch(q, nonce, balances, h) = g[Len(q)]
  BY <1>1, VerifiesInTurn
<1> DEFINE N == {n \in Nat : n <= m => f[n] = g[n]}
<1>4. 0 \in N
  BY <1>2, <1>3 DEF Verifies
<1>5. ASSUME NEW n \in Nat, n \in N PROVE n + 1 \in N
  <2>1. SUFFICES ASSUME n + 1 <= m PROVE f[n + 1] = g[n + 1]
    OBVIOUS
  <2>2. f[n] = g[n]
    BY <1>1, <1>5, <2>1
  <2>3. n + 1 \in 1..m /\ n + 1 \in 1..Len(q) /\ (n + 1) - 1 = n
    BY <1>1, <2>1
  <2>4. f[n + 1] = pre_verify(f[n], s[n + 1], h)
    BY <1>2, <2>3, Zenon DEF Verifies
  <2>5. g[n + 1] = pre_verify(g[n], q[n + 1], h)
    BY <1>3, <2>3, Zenon DEF Verifies
  <2>6. QED
    BY <1>1, <2>2, <2>3, <2>4, <2>5, Zenon
<1> HIDE DEF N
<1>6. m \in N
  BY <1>1, <1>4, <1>5, NatSetInduction
<1>7. f[m] = g[m]
  BY <1>1, <1>6 DEF N
<1>8. m + 1 \in 1..Len(q) /\ (m + 1) - 1 = m
  BY <1>1
<1>9. g[m + 1] = pre_verify(g[m], q[m + 1], h)
  BY <1>3, <1>8, Zenon DEF Verifies
<1>10. verify_batch(q, nonce, balances, h) = pre_verify(verify_batch(s, nonce, balances, h), t, h)
  BY <1>1, <1>2, <1>3, <1>7, <1>9, Zenon
<1>11. QED
  BY <1>10 DEF q

\* The verification of one transaction more, field by field.
LEMMA BatchAppended ==
    ASSUME NEW s \in Seq(Tx), NEW t \in Tx, NEW nonce \in Int, NEW balances, NEW h
    PROVE  LET v == verify_batch(s, nonce, balances, h)
               w == verify_batch(Append(s, t), nonce, balances, h)
           IN /\ w.ok <=> v.ok /\ Allowed(balances, v.assets, nonce + Len(s), t, h)
              /\ w.assets = Spent(balances, v.assets, t)
<1> DEFINE v == verify_batch(s, nonce, balances, h)
           w == verify_batch(Append(s, t), nonce, balances, h)
<1>1. w = pre_verify(v, t, h)
  BY BatchAppend
<1>2. /\ v = [ok |-> v.ok, nonce |-> nonce + Len(s), base |-> balances, assets |-> v.assets]
      /\ v.ok \in BOOLEAN
  BY BatchShape
<1> HIDE DEF v, w
<1>n. PICK n : n = nonce + Len(s)
  OBVIOUS
<1>o. PICK o \in BOOLEAN : o = v.ok
  BY <1>2
<1>d. PICK d : d = v.assets
  OBVIOUS
<1>3. n = nonce + Len(s) /\ o = v.ok /\ d = v.assets
  BY <1>n, <1>o, <1>d
<1>4. v = [ok |-> o, nonce |-> n, base |-> balances, assets |-> d]
  BY <1>2, <1>3, Zenon
<1>5. w = [ok |-> o /\ Allowed(balances, d, n, t, h), nonce |-> n + 1,
           base |-> balances, assets |-> Spent(balances, d, t)]
  BY <1>1, <1>4, PreVerified
<1>6. (w.ok = (o /\ Allowed(balances, d, n, t, h))) /\ w.assets = Spent(balances, d, t)
  BY <1>5
<1>7. QED
  BY <1>3, <1>6 DEF v, w

\* The verification of a single transaction, as add_tx asks for it.
LEMMA BatchOne ==
    ASSUME NEW t \in Tx, NEW nonce \in Int, NEW balances, NEW h
    PROVE  LET w == verify_batch(<<t>>, nonce, balances, h)
           IN /\ w.ok <=> /\ TxReference[t] <= h /\ TxNonce[t] = nonce
                          /\ \A x \in DOMAIN TxSpend[t] : ProofHolds(t, x, balances[x])
              /\ w.assets = [x \in DOMAIN TxSpend[t] |-> balances[x] - TxSpend[t][x]]
<1> DEFINE w == verify_batch(<<t>>, nonce, balances, h)
           z == [x \in {} |-> 0]
<1>1. <<t>> \in Seq(Tx) /\ Len(<<t>>) = 1 /\ <<t>>[1] = t
  OBVIOUS
<1>2. PICK f : Verifies(f, <<t>>, nonce, balances, h) /\ w = f[Len(<<t>>)]
  BY <1>1, VerifiesInTurn
<1> HIDE DEF w
<1>3. 1 \in 1..Len(<<t>>) /\ 1 - 1 = 0
  BY <1>1
<1>4. w = pre_verify(Started(nonce, balances), t, h)
  <2>1. f[0] = Started(nonce, balances) /\ f[1] = pre_verify(f[1 - 1], <<t>>[1], h)
    BY <1>2, <1>3, Zenon DEF Verifies
  <2>2. QED
    BY <1>1, <1>2, <1>3, <2>1, Zenon
<1>5. Started(nonce, balances) = [ok |-> TRUE, nonce |-> nonce, base |-> balances, assets |-> z]
  BY DEF Started
<1>v. PICK v : v = Started(nonce, balances)
  OBVIOUS
<1>o. PICK o \in BOOLEAN : o
  OBVIOUS
<1>d. PICK d : d = z
  OBVIOUS
<1>6. v = Started(nonce, balances) /\ o = TRUE /\ d = z
  BY <1>v, <1>o, <1>d
<1>7. (w.ok <=> Allowed(balances, z, nonce, t, h)) /\ w.assets = Spent(balances, z, t)
  <2>1. v = [ok |-> o, nonce |-> nonce, base |-> balances, assets |-> d]
    BY <1>5, <1>6, Zenon
  <2>2. pre_verify(v, t, h)
          = [ok |-> o /\ Allowed(balances, d, nonce, t, h), nonce |-> nonce + 1,
             base |-> balances, assets |-> Spent(balances, d, t)]
    BY <2>1, PreVerified
  <2>3. /\ w.ok = (o /\ Allowed(balances, d, nonce, t, h))
        /\ w.assets = Spent(balances, d, t)
    BY <1>4, <1>6, <2>2
  <2>4. QED
    BY <1>6, <2>3, Zenon
<1>8. \A x : Current(balances, z, x) = balances[x]
  BY DEF Current
<1>9. Spent(balances, z, t) = [x \in DOMAIN TxSpend[t] |-> balances[x] - TxSpend[t][x]]
  BY <1>8 DEF Spent
<1>10. QED
  BY <1>7, <1>8, <1>9 DEF Allowed, w

\* The transactions of account a can be executed from the storage, in order,
\* and leave the balances its cache expects.
Executable(a) ==
    /\ Replay(a).ok
    /\ Replay(a).assets = caches[a].balances
    /\ storage.nonces[a] = caches[a].min

\* The inductive invariant: add_tx is sound only where the cached balances are
\* those of the storage, which a rewind breaks until the pool is cleaned.
SpendInv ==
    /\ writer = "rewind" => ~clean
    /\ clean => \A a \in DOMAIN caches : Executable(a)

\* Assets that a sender's cache holds a balance for are spent by every
\* transaction of the sender.
LEMMA CachedAssets ==
    ASSUME SameAssets, Inv, NEW a \in DOMAIN caches, Executable(a),
           NEW t \in Tx, TxSource[t] = a
    PROVE  DOMAIN caches[a].balances \subseteq DOMAIN TxSpend[t]
<1> DEFINE q == caches[a].txs
<1>1. /\ q \in Seq(Tx) /\ a \in PoolAccount /\ caches[a].min \in Int
      /\ \A i \in 1..Len(q) : q[i] \in Tx /\ TxSource[q[i]] = a
  BY DEF Inv, TypeOK, CacheIndexed
<1>2. storage.nonces[a] \in Int
  BY <1>1 DEF Executable
<1>3. DOMAIN Replay(a).assets = UNION {DOMAIN TxSpend[q[i]] : i \in 1..Len(q)}
  BY <1>1, <1>2, BatchShape DEF Replay
<1>4. \A i \in 1..Len(q) : DOMAIN TxSpend[q[i]] = DOMAIN TxSpend[t]
  BY <1>1 DEF SameAssets
<1>5. QED
  BY <1>3, <1>4 DEF Executable

\* An accepted transaction can be executed after the others of its sender.
LEMMA AddTxExecutable ==
    ASSUME KnownAssets, SameAssets, RegisteredFirst, Inv,
           \A a \in DOMAIN caches : Executable(a),
           NEW t \in Tx, Accepted(t), add_tx(t), UNCHANGED <<storage, topoheight>>
    PROVE  \A a \in DOMAIN caches' : Executable(a)'
<1> DEFINE s == TxSource[t]
           own == internal_get_sender_balance(s)
           funds == storage.funds[s]
           spent == DOMAIN TxSpend[t]
<1>1. \A a \in DOMAIN caches \ {s} : Executable(a)'
  <2> SUFFICES ASSUME NEW a \in DOMAIN caches \ {s} PROVE Executable(a)'
    OBVIOUS
  <2>1. caches'[a] = caches[a]
    BY AddTxStep
  <2>2. Executable(a)
    OBVIOUS
  <2>3. Replay(a)' = Replay(a)
    BY <2>1 DEF Replay
  <2>4. QED
    BY <2>1, <2>2, <2>3 DEF Executable
<1>0. DOMAIN caches' = DOMAIN caches \cup {s}
  BY AddTxStep
<1>2. s \in PoolAccount /\ TxNonce[t] \in Nat /\ spent \subseteq Asset /\ storage \in StorageStates
  BY TxAssumption DEF KnownAssets, Inv, TypeOK
<1>3. storage.nonces[s] \in Int
  BY <1>2, PoolStorageAssumption DEF NoNonce
<1>4. verify_batch(<<t>>, internal_get_account_nonce(s), own, topoheight).ok
  BY DEF Accepted
<1>5. CASE s \notin DOMAIN caches
  <2> DEFINE n == StoredNonce(storage, s)
  <2>1. n \in Int /\ internal_get_account_nonce(s) = n
    BY <1>3, <1>5 DEF StoredNonce, internal_get_account_nonce
  <2>2. \A x \in spent : own[x] = funds[x]
    BY <1>2, <1>5 DEF internal_get_sender_balance
  <2> HIDE DEF own, n
  <2>3. /\ TxReference[t] <= topoheight /\ TxNonce[t] = n
        /\ \A x \in spent : ProofHolds(t, x, own[x])
    BY <1>4, <2>1, BatchOne
  <2>4. storage.nonces[s] # NoNonce
    <3>1. \A x \in spent : TxSpend[t][x] <= funds[x]
      BY <2>2, <2>3 DEF ProofHolds
    <3>2. QED
      BY <1>2, <3>1 DEF RegisteredFirst
  <2>5. n = storage.nonces[s]
    BY <2>4 DEF n, StoredNonce
  <2>6. /\ caches'[s].txs = <<t>> /\ caches'[s].min = TxNonce[t]
        /\ caches'[s].balances = Left(t)
    BY <1>5, AddTxStep
  <2>7. Left(t) = [x \in spent |-> own[x] - TxSpend[t][x]]
    <3>1. Left(t) = verify_batch(<<t>>, n, own, topoheight).assets
      BY <2>1 DEF Left, own
    <3>2. QED
      BY <2>1, <3>1, BatchOne
  <2>8. Replay(s)' = verify_batch(<<t>>, n, funds, topoheight)
    BY <2>5, <2>6 DEF Replay
  <2>9. /\ verify_batch(<<t>>, n, funds, topoheight).ok
        /\ verify_batch(<<t>>, n, funds, topoheight).assets
             = [x \in spent |-> funds[x] - TxSpend[t][x]]
    BY <2>1, <2>2, <2>3, BatchOne
  <2>10. [x \in spent |-> own[x] - TxSpend[t][x]] = [x \in spent |-> funds[x] - TxSpend[t][x]]
    BY <2>2
  <2>11. Executable(s)'
    BY <2>3, <2>5, <2>6, <2>7, <2>8, <2>9, <2>10 DEF Executable
  <2>12. QED
    BY <1>0, <1>1, <2>11, Zenon
<1>6. CASE s \in DOMAIN caches
  <2> DEFINE c == caches[s]
             q == c.txs
             nonce == storage.nonces[s]
             v == verify_batch(q, nonce, funds, topoheight)
             n == c.max + 1
  <2>1. /\ q \in Seq(Tx) /\ Len(q) = c.max - c.min + 1 /\ Len(q) \in Nat
        /\ c.min \in Nat /\ c.max \in Nat
    BY <1>6 DEF Inv, TypeOK, CacheIndexed
  <2>2. v.ok /\ v.assets = c.balances /\ nonce = c.min
    BY <1>6 DEF Executable, Replay
  <2>3. n = nonce + Len(q) /\ n \in Int /\ internal_get_account_nonce(s) = n
    BY <1>6, <2>1, <2>2 DEF internal_get_account_nonce
  <2>4. \A x \in spent : own[x] = Current(funds, c.balances, x)
    BY <1>2, <1>6 DEF internal_get_sender_balance, Current
  <2>5. DOMAIN c.balances \subseteq spent
    BY <1>6, CachedAssets
  <2> HIDE DEF own, n, v
  <2>6. /\ TxReference[t] <= topoheight /\ TxNonce[t] = n
        /\ \A x \in spent : ProofHolds(t, x, own[x])
    BY <1>4, <2>3, BatchOne
  <2>7. /\ caches'[s].txs = Append(q, t) /\ caches'[s].min = c.min
        /\ caches'[s].balances = Left(t)
    BY <1>6, AddTxStep
  <2>8. Left(t) = [x \in spent |-> own[x] - TxSpend[t][x]]
    <3>1. Left(t) = verify_batch(<<t>>, n, own, topoheight).assets
      BY <2>3 DEF Left, own
    <3>2. QED
      BY <2>3, <3>1, BatchOne
  <2> DEFINE w == verify_batch(Append(q, t), nonce, funds, topoheight)
  <2>9. /\ w.ok <=> v.ok /\ Allowed(funds, v.assets, nonce + Len(q), t, topoheight)
        /\ w.assets = Spent(funds, v.assets, t)
    BY <1>3, <2>1, BatchAppended DEF v
  <2>10. Replay(s)' = w
    BY <2>7 DEF Replay
  <2> HIDE DEF w
  <2>11. w.ok
    BY <2>2, <2>3, <2>4, <2>6, <2>9 DEF Allowed
  <2>12. w.assets = Left(t)
    <3>1. DOMAIN c.balances \cup spent = spent
      BY <2>5
    <3>2. Spent(funds, c.balances, t)
            = [x \in spent |-> Current(funds, c.balances, x) - TxSpend[t][x]]
      BY <3>1 DEF Spent
    <3>3. QED
      BY <2>2, <2>4, <2>8, <2>9, <3>2
  <2>13. Executable(s)'
    BY <2>2, <2>7, <2>10, <2>11, <2>12 DEF Executable
  <2>14. QED
    BY <1>0, <1>1, <2>13, Zenon
<1>7. QED
  BY <1>5, <1>6

\* What clean_up keeps can be executed: it has just been verified again.
LEMMA CleanUpExecutable ==
    ASSUME Inv, NEW st \in StorageStates, NEW h, clean_up(st, h),
           storage' = st, topoheight' = h
    PROVE  \A a \in DOMAIN caches' : Executable(a)'
<1> DEFINE kept == {a \in DOMAIN caches : KeepsCache(st, a, h)}
           d(a) == Trimmed(caches[a], st.nonces[a])
           new(a) == [d(a) EXCEPT !.balances = Reverified(st, a, h).assets]
<1>1. caches' = [a \in kept |-> new(a)]
  BY DEF clean_up
<1>2. SUFFICES ASSUME NEW a \in kept PROVE Executable(a)'
  BY <1>1
<1>3. a \in DOMAIN caches /\ KeepsCache(st, a, h)
  OBVIOUS
<1>4. DOMAIN d(a) = {"min", "max", "txs", "balances"} /\ d(a).min = st.nonces[a]
  BY <1>3, TrimmedSuffix
<1>5. caches'[a] = new(a)
  BY <1>1
<1> HIDE DEF d
<1>6. /\ caches'[a].txs = d(a).txs /\ caches'[a].min = st.nonces[a]
      /\ caches'[a].balances = Reverified(st, a, h).assets
  BY <1>4, <1>5
<1>7. Replay(a)' = Reverified(st, a, h)
  BY <1>6 DEF Replay, Reverified, d
<1>8. Reverified(st, a, h).ok
  BY <1>3 DEF KeepsCache
<1>9. QED
  BY <1>6, <1>7, <1>8 DEF Executable

\* Every step keeps the cached transactions executable while the pool is clean.
LEMMA NextSpend ==
    ASSUME KnownAssets, SameAssets, RegisteredFirst, Inv, SpendInv, [NextMempool]_mempoolVars
    PROVE  SpendInv'
<1>1. ASSUME NEW t \in Tx, AddTx(t) PROVE SpendInv'
  <2>1. clean => \A a \in DOMAIN caches' : Executable(a)'
    BY <1>1, AddTxExecutable DEF AddTx, SpendInv
  <2>2. QED
    BY <1>1, <2>1 DEF AddTx, SpendInv
<1>2. ASSUME NEW t \in Tx, AddBack(t) PROVE SpendInv'
  <2>1. UNCHANGED <<storage, topoheight, writer, clean>>
    BY <1>2 DEF AddBack
  <2>2. clean => \A a \in DOMAIN caches' : Executable(a)'
    <3>1. CASE Accepted(t)
      BY <1>2, <2>1, <3>1, AddTxExecutable DEF AddBack, SpendInv
    <3>2. CASE ~Accepted(t)
      BY <1>2, <2>1, <3>2 DEF AddBack, SpendInv, Executable, Replay
    <3>3. QED
      BY <3>1, <3>2
  <2>3. QED
    BY <2>1, <2>2 DEF SpendInv
<1>3. ASSUME NEW st \in StorageStates, NEW back, NEW highest \in 0..MaxPoolTopo,
             BlockExecuted(st, highest, back)
      PROVE  SpendInv'
  <2>1. writer' = "block" /\ storage' = st /\ topoheight \in 0..MaxPoolTopo
    BY <1>3 DEF BlockExecuted, Inv, TypeOK
  <2>2. CASE highest >= topoheight
    <3>1. clean_up(st, highest) /\ topoheight' = highest
      BY <1>3, <2>1, <2>2 DEF BlockExecuted
    <3>2. \A a \in DOMAIN caches' : Executable(a)'
      BY <2>1, <3>1, CleanUpExecutable
    <3>3. QED
      BY <2>1, <3>2 DEF SpendInv
  <2>3. CASE ~(highest >= topoheight)
    <3>1. /\ topoheight' = topoheight /\ UNCHANGED <<txs, caches>>
          /\ clean' => clean /\ storage' = storage
      <4>1. topoheight' = topoheight
        BY <1>3, <2>1, <2>3 DEF BlockExecuted
      <4>2. /\ clean' = (clean /\ st = storage) /\ UNCHANGED <<txs, caches>>
        BY <1>3, <2>3, Zenon DEF BlockExecuted
      <4>3. clean \in BOOLEAN
        BY DEF Inv, TypeOK
      <4>4. QED
        BY <2>1, <4>1, <4>2, <4>3
    <3>2. QED
      BY <2>1, <3>1 DEF SpendInv, Executable, Replay
  <2>4. QED
    BY <2>2, <2>3
<1>4. ASSUME NEW st, NEW topo, NEW back, Rewound(st, topo, back) PROVE SpendInv'
  BY <1>4 DEF Rewound, SpendInv
<1>5. CASE Release
  <2>1. /\ UNCHANGED <<storage, txs, caches, clean>> /\ writer' = "none"
        /\ clean => topoheight' = topoheight
    BY <1>5 DEF Release, SpendInv
  <2>2. QED
    BY <2>1 DEF SpendInv, Executable, Replay
<1>6. CASE Clear
  <2>1. DOMAIN caches' = {} /\ writer' = writer /\ clean' = (writer # "rewind")
    BY <1>6 DEF Clear
  <2>2. QED
    BY <2>1 DEF SpendInv
<1>7. CASE UNCHANGED mempoolVars
  BY <1>7 DEF mempoolVars, SpendInv, Executable, Replay
<1>8. QED
  BY <1>1, <1>2, <1>3, <1>4, <1>5, <1>6, <1>7 DEF NextMempool

\* As long as the storage has not moved since the pool was last cleaned, the
\* cached transactions of every sender can be executed one after the other and
\* leave exactly the balances that add_tx verifies the next one against, for
\* senders whose transactions all spend the same assets.
THEOREM MempoolSpendable ==
    ASSUME KnownAssets, SameAssets, RegisteredFirst
    PROVE  MempoolSpec => []Spendable
<1>1. InitMempool => SpendInv
  BY DEF InitMempool, SpendInv
<1>2. Inv /\ SpendInv /\ [NextMempool]_mempoolVars => SpendInv'
  BY NextSpend
<1>3. SpendInv => Spendable
  BY DEF SpendInv, Executable, Spendable, ExpectedBalances, Replayable
<1>4. QED
  BY InitInv, NextInv, <1>1, <1>2, <1>3, PTL DEF MempoolSpec

=============================================================================
