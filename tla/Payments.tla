-------------------------------- MODULE Payments --------------------------------
(* From a request of the user to a transaction on the chain: the wallet builds and
   signs it (TransactionBuilder), it travels as bytes, and a node verifies it
   (Transaction::verify) and moves the balances. Proofs are symbolic: a proof is the
   statement it was made for together with the transcript, and it verifies when the
   verifier arrives at the same statement and the statement is true. A ciphertext is
   its amount and the openings taken out of it.                                      *)
EXTENDS Formats

CONSTANTS
    Native,          \* XELIS_ASSET
    Sender,          \* key of the wallet
    Funds,           \* the balance of the wallet per asset
    RegisteredAccounts, \* accounts that exist
    AmountValues,    \* number of values of a u64
    Requests,        \* what the user may ask for
    FEE_PER_KB, FEE_PER_TRANSFER, FEE_PER_ACCOUNT_CREATION,
    MaxBuilt         \* bound: transactions built

VARIABLES
    purse,     \* balances, ciphertexts and nonce the wallet builds upon
    built,     \* number of transactions built, which numbers their openings
    travel,    \* transactions on their way, in order, with the request
    ledger,    \* the sender's ciphertexts on the chain, its nonce, what others got and nobody
    outcome    \* what became of the last transaction that arrived

payVars == <<purse, built, travel, ledger, outcome>>

AssetsHeld == DOMAIN Funds
Total(s) == FoldLeft(LAMBDA a, b : a + b, 0, s)
Mapped(s, op(_)) == [i \in DOMAIN s |-> op(s[i])]
--------------------------------------------------------------------------------
(* The request *)

IsBurn(r) == r.is = "Burn"
Transfers(r) == IF IsBurn(r) THEN <<>> ELSE r.transfers

(* TransactionTypeBuilder::used_assets *)
UsedAssets(r) ==
    {Native} \cup (IF IsBurn(r) THEN {r.asset} ELSE {t.asset : t \in ToSet(r.transfers)})

(* The data of the transfer, or of its integrated address *)
DataOf(t) == IF t.extra # <<>> THEN t.extra ELSE t.integrated

RECURSIVE Log2(_)
Log2(n) == IF n <= 1 THEN 0 ELSE 1 + Log2((n + 1) \div 2)
RangeProofSize(values) == 9 * 32 + 2 * 32 * Log2(64 * values)

(* TransactionBuilder::estimate_size *)
EstimateSize(r) ==
    LET assets == Cardinality(UsedAssets(r))
        transfer(t) == 32 + 32 + 3 * 32 + 4 * 32 + 1
                       + (IF DataOf(t) = <<>> THEN 0 ELSE 2 + 2 + 2 * 32 + DataOf(t)[1].len)
    IN 1 + 32 + 1 + 8 + 8 + (32 + 8) + 1 + assets * (32 + 32 + 6 * 32) + 64
       + (IF IsBurn(r) THEN 32 + 8 ELSE 1 + Total(Mapped(r.transfers, transfer)))
       + 2 + RangeProofSize(Len(Transfers(r)) + assets)

(* calculate_tx_fee: a started kilobyte counts *)
CalculateFee(size, outputs, fresh) ==
    ((size + 1023) \div 1024) * FEE_PER_KB + outputs * FEE_PER_TRANSFER + fresh * FEE_PER_ACCOUNT_CREATION

NewAddresses(transfers, known) == Len(SelectSeq(transfers, LAMBDA t : t.to \notin known))

(* add_registered_keys_for_fees_estimation: a wallet that is online asks the daemon;
   offline every receiver is taken for new                                           *)
RegisteredKeys(online) == IF online THEN RegisteredAccounts ELSE {}

(* TransactionBuilder::estimate_fees *)
EstimateFees(r, known) ==
    IF r.fee.is = "Value" THEN r.fee.of
    ELSE CalculateFee(EstimateSize(r), Len(Transfers(r)), NewAddresses(Transfers(r), known)) * r.fee.of

(* What the transaction takes of an asset, as the ciphertexts count it *)
Spending(r, fee, asset) ==
    (IF asset = Native THEN fee ELSE 0)
    + (IF IsBurn(r) THEN (IF r.asset = asset THEN r.amount ELSE 0)
       ELSE Total(Mapped(SelectSeq(r.transfers, LAMBDA t : t.asset = asset), LAMBDA t : t.amount)))

(* get_transaction_cost: the same in a u64 *)
Cost(r, fee, asset) == Spending(r, fee, asset) % AmountValues
--------------------------------------------------------------------------------
(* Building *)

Openings(r, asset, n) == {<<n, "transfer", i>> : i \in {i \in DOMAIN Transfers(r) : r.transfers[i].asset = asset}}

(* Fault: the fee stays in the ciphertext *)
NewSourceCtFree(r, fee, asset, ct, n) ==
    [amount |-> ct.amount - Spending(r, 0, asset), out |-> ct.out \cup Openings(r, asset, n)]

(* get_new_source_ct: the ciphertext without the fee, the burn and the transfers *)
NewSourceCt(r, fee, asset, ct, n) ==
    [amount |-> ct.amount - Spending(r, fee, asset), out |-> ct.out \cup Openings(r, asset, n)]

(* Transaction::prepare_transcript *)
PrepareTranscript(source, fee, nonce) == <<"transaction-proof", 0, source, fee, nonce>>

(* What the equality proof of a commitment and the validity proof of a transfer append *)
CommitmentMark(asset, commitment) == <<"new-commitment-proof", asset, commitment>>
TransferMark(to, commitment, handles) == <<"transfer-proof", to, commitment, handles>>

(* ExtraData::new: encrypted under an opening of its own, with a handle for each side *)
Encrypt(data, to, n, i) ==
    [cipher |-> [len |-> data.len, is |-> data, key |-> <<n, i, "extra">>],
     sender_handle |-> [of |-> Sender, key |-> <<n, i, "extra">>],
     receiver_handle |-> [of |-> to, key |-> <<n, i, "extra">>]]

(* ExtraData::decrypt with the private key of `who` *)
Decrypt(extra, who, role) ==
    LET handle == IF role = "sender" THEN extra.sender_handle ELSE extra.receiver_handle
    IN IF handle.of = who /\ handle.key = extra.cipher.key THEN <<extra.cipher.is>> ELSE <<>>

ExtraSize(data) == 32 + 32 + 2 + data.len

(* The checks of build() before it takes anything from the account; "none" if none fails *)
Refusal(r) ==
    LET ts == Transfers(r)
        sizes == Total(Mapped(ts, LAMBDA t : IF DataOf(t) = <<>> THEN 0 ELSE DataOf(t)[1].len))
        ciphers == Total(Mapped(ts, LAMBDA t : IF DataOf(t) = <<>> THEN 0 ELSE ExtraSize(DataOf(t)[1])))
    IN CASE IsBurn(r) -> "none"
         [] ts = <<>> -> "EmptyTransfers"
         [] Len(ts) > MAX_TRANSFER_COUNT -> "MaxTransferCountReached"
         [] \E t \in ToSet(ts) : t.to = Sender -> "SenderIsReceiver"
         [] \E t \in ToSet(ts) : ~t.ours -> "InvalidNetwork"
         [] \E t \in ToSet(ts) : t.extra # <<>> /\ t.integrated # <<>> -> "ExtraDataAndIntegratedAddress"
         [] sizes > EXTRA_DATA_LIMIT_SIZE -> "ExtraDataTooLarge"
         [] ciphers > EXTRA_DATA_LIMIT_SIZE -> "EncryptedExtraDataTooLarge"
         [] OTHER -> "none"

Affordable(r, fee) == \A a \in UsedAssets(r) : a \in AssetsHeld /\ purse.balance[a] >= Cost(r, fee, a)

(* The transaction build() makes and sign() signs, with the marks in the order they
   enter the transcript                                                              *)
BuiltTransaction(r, fee, n) ==
    LET assets == SetToSeq(UsedAssets(r))
        start == PrepareTranscript(Sender, fee, purse.nonce)
        commitment(a) == [amount |-> purse.balance[a] - Cost(r, fee, a), opening |-> <<n, a, 0>>]
        amount(i) == [amount |-> r.transfers[i].amount, opening |-> <<n, "transfer", i>>]
        sources == [i \in DOMAIN assets |-> CommitmentMark(assets[i], commitment(assets[i]))]
        handles(i) == [sender |-> <<Sender, amount(i).opening>>, receiver |-> <<r.transfers[i].to, amount(i).opening>>]
        outputs == [i \in DOMAIN Transfers(r) |-> TransferMark(r.transfers[i].to, amount(i), handles(i))]
        eqProof(i) == [transcript |-> start \o SubSeq(sources, 1, i),
                       ct |-> NewSourceCt(r, fee, assets[i], purse.ct[assets[i]], n),
                       commitment |-> commitment(assets[i])]
        payload(i) == LET t == r.transfers[i] IN
                      [asset |-> t.asset, to |-> t.to, commitment |-> amount(i), handles |-> handles(i),
                       extra |-> IF DataOf(t) = <<>> THEN <<>> ELSE <<Encrypt(DataOf(t)[1], t.to, n, i)>>,
                       proof |-> [transcript |-> start \o sources \o SubSeq(outputs, 1, i),
                                  commitment |-> amount(i), handle |-> handles(i).receiver, to |-> t.to]]
        unsigned ==
            [source |-> Sender, fee |-> fee, nonce |-> purse.nonce, reference |-> 0,
             data |-> IF IsBurn(r) THEN [is |-> "Burn", asset |-> r.asset, amount |-> r.amount]
                      ELSE [is |-> "Transfers", transfers |-> [i \in DOMAIN r.transfers |-> payload(i)]],
             commitments |-> [i \in DOMAIN assets |-> [asset |-> assets[i], commitment |-> commitment(assets[i]),
                                                       proof |-> eqProof(i)]],
             range |-> [transcript |-> start \o sources \o outputs,
                        values |-> [i \in DOMAIN assets |-> commitment(assets[i])]
                                   \o [i \in DOMAIN Transfers(r) |-> amount(i)]]]
    IN unsigned @@ [signature |-> [by |-> Sender, over |-> unsigned]]

(* update_account_balance, for every asset used, and update_nonce *)
BuilderState(r, fee, n) ==
    [balance |-> [a \in UsedAssets(r) |-> purse.balance[a] - Cost(r, fee, a)],
     ct |-> [a \in UsedAssets(r) |-> NewSourceCt(r, fee, a, purse.ct[a], n)],
     nonce |-> purse.nonce + 1]

(* TransactionBuilderState::apply_changes *)
ApplyChanges(state) ==
    purse' = [balance |-> state.balance @@ purse.balance, ct |-> state.ct @@ purse.ct, nonce |-> state.nonce]

(* Wallet::create_transaction: a build that fails leaves the stored state alone, for
   it works on a copy; a build that succeeds becomes what the next one builds upon   *)
Create(r) ==
    /\ built < MaxBuilt
    /\ LET fee == EstimateFees(r, RegisteredKeys(r.online))
       IN /\ Refusal(r) = "none" /\ Affordable(r, fee)
          /\ travel' = Append(travel, [tx |-> BuiltTransaction(r, fee, built), request |-> r])
          /\ ApplyChanges(BuilderState(r, fee, built))
    /\ built' = built + 1
    /\ UNCHANGED <<ledger, outcome>>
--------------------------------------------------------------------------------
(* The transaction as bytes *)

(* The fields of the symbolic transaction in the layout of Formats *)
WireValue(tx) ==
    LET point(x) == [commitment |-> x]
        eq(p) == [Y_0 |-> p, Y_1 |-> 0, Y_2 |-> 0, z_s |-> 0, z_x |-> 0, z_r |-> 0]
        validity(p) == [Y_0 |-> p, Y_1 |-> 0, z_r |-> 0, z_x |-> 0]
        extra(e) == [len |-> ExtraSize(e.cipher), is |-> e]
        payload(t) == [asset |-> t.asset, destination |-> t.to, extra_data |-> Mapped(t.extra, extra),
                       commitment |-> t.commitment, sender_handle |-> t.handles.sender, receiver_handle |-> t.handles.receiver,
                       ct_validity_proof |-> validity(t.proof)]
    IN [version |-> 0, source |-> tx.source, fee |-> tx.fee, nonce |-> tx.nonce,
        data |-> IF tx.data.is = "Burn"
                 THEN [is |-> "Burn", of |-> [asset |-> tx.data.asset, amount |-> tx.data.amount]]
                 ELSE [is |-> "Transfers", of |-> Mapped(tx.data.transfers, payload)],
        source_commitments |-> Mapped(tx.commitments, LAMBDA c : [commitment |-> c.commitment, proof |-> eq(c.proof),
                                                               asset |-> c.asset]),
        range_proof |-> [len |-> RangeProofSize(Len(tx.range.values)), is |-> tx.range],
        reference |-> [hash |-> 0, topoheight |-> tx.reference],
        signature |-> [s |-> tx.signature, e |-> 0]]
--------------------------------------------------------------------------------
(* Verifying *)

Output(tx, asset) ==
    LET ts == IF tx.data.is = "Burn" THEN <<>> ELSE SelectSeq(tx.data.transfers, LAMBDA t : t.asset = asset)
    IN [amount |-> (IF asset = Native THEN tx.fee ELSE 0) + Total(Mapped(ts, LAMBDA t : t.commitment.amount))
                   + (IF tx.data.is = "Burn" /\ tx.data.asset = asset THEN tx.data.amount ELSE 0),
        out |-> {t.handles.sender[2] : t \in ToSet(ts)}]

Minus(ct, output) == [amount |-> ct.amount - output.amount, out |-> ct.out \cup output.out]

(* verify_commitment_assets *)
CommitmentAssets(tx) ==
    LET named == {c.asset : c \in ToSet(tx.commitments)}
    IN /\ Native \in named
       /\ Cardinality(named) = Len(tx.commitments)
       /\ IF tx.data.is = "Burn" THEN tx.data.asset \in named
          ELSE \A t \in ToSet(tx.data.transfers) : t.asset \in named

Signed(tx) ==
    /\ tx.signature.by = tx.source
    /\ tx.signature.over = [x \in DOMAIN tx \ {"signature"} |-> tx[x]]

(* The minimum fee the chain asks for, with the size of the bytes *)
RequiredFees(tx) ==
    LET ts == IF tx.data.is = "Burn" THEN <<>> ELSE tx.data.transfers
    IN CalculateFee(SizeOf(Transaction, WireValue(tx)), Len(ts), NewAddresses(ts, RegisteredAccounts))

(* The aggregated range proof: the commitments of the transaction, each in a u64 *)
RangeHolds(tx, marks) ==
    /\ tx.range.transcript = marks
    /\ tx.range.values = Mapped(tx.commitments, LAMBDA c : c.commitment)
                         \o (IF tx.data.is = "Burn" THEN <<>> ELSE Mapped(tx.data.transfers, LAMBDA t : t.commitment))
    /\ \A v \in ToSet(tx.range.values) : v.amount \in 0..(AmountValues - 1)

(* The equality proof: the commitment opens to what is left in the ciphertext of the
   chain without the outputs of the transaction                                      *)
BalanceProven(c, tx, marks) ==
    LET ct == Minus(ledger.ct[c.asset], Output(tx, c.asset))
    IN /\ c.proof = [transcript |-> marks, ct |-> ct, commitment |-> c.commitment]
       /\ ct.amount = c.commitment.amount

(* Transaction::pre_verify and the batched proofs *)
Verifies(tx) ==
    LET ts == IF tx.data.is = "Burn" THEN <<>> ELSE tx.data.transfers
        start == PrepareTranscript(tx.source, tx.fee, tx.nonce)
        sources == Mapped(tx.commitments, LAMBDA c : CommitmentMark(c.asset, c.commitment))
        outputs == Mapped(ts, LAMBDA t : TransferMark(t.to, t.commitment, t.handles))
        extras == Total(Mapped(ts, LAMBDA t : IF t.extra = <<>> THEN 0 ELSE 2 + ExtraSize(t.extra[1].cipher)))
    IN /\ tx.nonce = ledger.nonce
       /\ CommitmentAssets(tx)
       /\ tx.data.is = "Transfers" => Len(ts) \in 1..MAX_TRANSFER_COUNT
       /\ \A t \in ToSet(ts) : t.to # tx.source
       /\ extras <= EXTRA_DATA_LIMIT_SIZE
       /\ Signed(tx)
       /\ \A i \in DOMAIN tx.commitments : BalanceProven(tx.commitments[i], tx, start \o SubSeq(sources, 1, i))
       /\ \A i \in DOMAIN ts :
            ts[i].proof = [transcript |-> start \o sources \o SubSeq(outputs, 1, i),
                           commitment |-> ts[i].commitment, handle |-> ts[i].handles.receiver, to |-> ts[i].to]
       /\ RangeHolds(tx, start \o sources \o outputs)
       /\ RequiredFees(tx) <= tx.fee

(* Transaction::apply_without_verify: the outputs leave the ciphertexts of the sender,
   the transfers enter those of the receivers                                        *)
Applied(tx) ==
    LET named == {c.asset : c \in ToSet(tx.commitments)}
        in(a) == IF tx.data.is = "Burn" THEN <<>> ELSE SelectSeq(tx.data.transfers, LAMBDA t : t.asset = a)
    IN [ct |-> [a \in AssetsHeld |-> IF a \in named THEN Minus(ledger.ct[a], Output(tx, a)) ELSE ledger.ct[a]],
        nonce |-> tx.nonce + 1,
        received |-> [a \in AssetsHeld |-> ledger.received[a] + Total(Mapped(in(a), LAMBDA t : t.commitment.amount))],
        consumed |-> [a \in AssetsHeld |-> ledger.consumed[a] + (IF a = Native THEN tx.fee ELSE 0)
                                            + (IF tx.data.is = "Burn" /\ tx.data.asset = a THEN tx.data.amount ELSE 0)]]

Arrives(tx, request, altered) ==
    LET bytes == Write(Transaction, WireValue(tx))
        read == Read(Transaction, bytes, <<>>)
        good == Verifies(tx) /\ read.ok /\ read.v = WireValue(tx)
    IN /\ ledger' = IF good THEN Applied(tx) ELSE ledger
       /\ outcome' = [arrived |-> TRUE, tx |-> tx, request |-> request, altered |-> altered, accepted |-> good,
                      size |-> IF altered THEN 0 ELSE Width(bytes)]

(* The first transaction on its way reaches the node *)
Arrive ==
    /\ travel # <<>>
    /\ Arrives(Head(travel).tx, Head(travel).request, FALSE)
    /\ travel' = Tail(travel)
    /\ UNCHANGED <<purse, built>>

(* Transactions that differ from a built one in a field *)
Variants(tx) ==
    {[tx EXCEPT !.fee = @ + 1], [tx EXCEPT !.nonce = @ + 1], [tx EXCEPT !.reference = @ + 1],
     [tx EXCEPT !.commitments[1].commitment.amount = @ + 1]}
    \cup (IF tx.data.is = "Burn" THEN {[tx EXCEPT !.data.amount = @ + 1]}
          ELSE {[tx EXCEPT !.data.transfers[1].to = k] : k \in RegisteredAccounts \ {tx.data.transfers[1].to}}
               \cup {[tx EXCEPT !.data.transfers = Tail(@)], [tx EXCEPT !.data.transfers[1].extra = <<>>],
                     [tx EXCEPT !.data.transfers[1].commitment.amount = @ + 1],
                     [tx EXCEPT !.data.transfers[1].handles.sender = <<Sender, <<built, "other", 0>>>>]})

(* A transaction other than the one built arrives, and the built one is still to come *)
ArriveAltered ==
    /\ travel # <<>>
    /\ \E tx \in Variants(Head(travel).tx) :
        tx # Head(travel).tx /\ Arrives(tx, Head(travel).request, TRUE)
    /\ UNCHANGED <<purse, built, travel>>

NoOutcome == [arrived |-> FALSE, tx |-> 0, request |-> 0, altered |-> FALSE, accepted |-> FALSE, size |-> 0]

InitPayments ==
    /\ purse = [balance |-> Funds, ct |-> [a \in AssetsHeld |-> [amount |-> Funds[a], out |-> {}]], nonce |-> 0]
    /\ ledger = [ct |-> [a \in AssetsHeld |-> [amount |-> Funds[a], out |-> {}]], nonce |-> 0,
                 received |-> [a \in AssetsHeld |-> 0], consumed |-> [a \in AssetsHeld |-> 0]]
    /\ built = 0 /\ travel = <<>> /\ outcome = NoOutcome

NextPayments == (\E r \in Requests : Create(r)) \/ Arrive \/ ArriveAltered
--------------------------------------------------------------------------------
(* Requests that the builder takes although the chain cannot: amounts whose sum does
   not fit a u64 are built upon the sum that wrapped, and a fee the user sets himself
   may be too low.                                                                   *)
Unpayable(r, tx) ==
    \/ \E a \in UsedAssets(r) : Spending(r, tx.fee, a) >= AmountValues
    \/ r.fee.is = "Value"

(* Data whose ciphers fit the limit of the builder but not the one of the verifier, which
   counts the two bytes of the length of each as well                                *)
TwoBytesOver(r) ==
    Total(Mapped(Transfers(r), LAMBDA t : IF DataOf(t) = <<>> THEN 0 ELSE 2 + ExtraSize(DataOf(t)[1]))) > EXTRA_DATA_LIMIT_SIZE

Clean(o) == o.arrived /\ ~o.altered
InTurn(o) == o.tx.nonce = ledger.nonce - (IF o.accepted THEN 1 ELSE 0)

(* Fault-free delivery: what the wallet builds, also upon transactions that are not on
   the chain yet, survives the way as bytes and is accepted: builder and verifier
   agree on transcript, ciphertexts, range proof, nonce and fee. The exceptions are
   requests nobody could pay and data within two bytes for each of its pieces of the
   limit, which are refused and change nothing. Once one transaction is refused the
   ones built upon it are too.                                                       *)
BuiltIsAccepted ==
    Clean(outcome) /\ InTurn(outcome) /\ ~Unpayable(outcome.request, outcome.tx)
    => (outcome.accepted <=> ~TwoBytesOver(outcome.request))

(* A transaction that differs from the one the owner signed is never accepted. *)
AlteredIsRefused == outcome.altered => ~outcome.accepted

(* Nobody spends what he does not have: the sender's ciphertexts stay in a u64 and what
   left them is exactly what fees, burns and receivers got, also when the amounts of a
   request overflow the sum the builder checks.                                      *)
NoOverdraft ==
    \A a \in AssetsHeld : /\ ledger.ct[a].amount \in 0..(AmountValues - 1)
                          /\ ledger.ct[a].amount + ledger.received[a] + ledger.consumed[a] = Funds[a]

(* The size by which the wallet computes the fee is the size of the transaction. *)
EstimateIsExact ==
    Clean(outcome) => EstimateSize(outcome.request) = outcome.size

(* Sender and receiver, and nobody else, read the data of a transfer. *)
DataIsReadable ==
    Clean(outcome) =>
        \A i \in DOMAIN Transfers(outcome.request) :
            LET t == outcome.tx.data.transfers[i]
                data == DataOf(outcome.request.transfers[i])
            IN t.extra # <<>> =>
                /\ Decrypt(t.extra[1], Sender, "sender") = data
                /\ Decrypt(t.extra[1], t.to, "receiver") = data
                /\ \A k \in RegisteredAccounts \ {t.to, Sender} : \A role \in {"sender", "receiver"} :
                        Decrypt(t.extra[1], k, role) = <<>>
--------------------------------------------------------------------------------
(* The transactions of a block that is to be mined: a TxSelector over the caches of the
   mempool gives the transaction with the highest fee among the next ones of all senders,
   and the template takes it if it is valid in the chain state that the ones before left.
   A verification that fails may have changed that state: the nonce is taken first.   *)
CONSTANTS
    Senders,
    Ledger,          \* nonce and balance of every sender in the chain
    Pools,           \* the caches a mempool may have: a row of transactions for every sender
    HeaderSize,      \* size of the block without transactions
    HASH_SIZE,
    MAX_BLOCK_SIZE

VARIABLES
    queue,           \* what the selector holds of every sender
    pool,            \* what it was made from
    chain_state,     \* nonces and balances after what was verified
    failed_sources,
    txs_hashes,      \* the transactions of the template
    template         \* "none", "open", "full" or "built"

templateVars == <<queue, pool, chain_state, failed_sources, txs_hashes, template>>
--------------------------------------------------------------------------------
TotalSize(txs) == LET sum[i \in 0..Len(txs)] == IF i = 0 THEN 0 ELSE sum[i - 1] + txs[i].size IN sum[Len(txs)]
block_size == HeaderSize + HASH_SIZE * Len(txs_hashes)

(* The selector: a heap of rows by the fee of their first transaction *)
Grouped == {s \in Senders : queue[s] # <<>>}
IsNext(s) == s \in Grouped /\ \A t \in Grouped : Head(queue[t]).fee <= Head(queue[s]).fee

(* Transaction::verify. The nonce is taken before anything else is looked at. *)
Valid(tx) == tx.nonce = chain_state[tx.source].nonce /\ tx.cost <= chain_state[tx.source].balance
VerifiedState(tx) ==
    IF tx.nonce # chain_state[tx.source].nonce THEN chain_state
    ELSE [chain_state EXCEPT ![tx.source].nonce = tx.nonce + 1, ![tx.source].balance = @ - tx.cost]

Failed(tx) == failed_sources \cup {tx.source}

get_block_template(groups) ==
    /\ template = "none" /\ template' = "open"
    /\ pool' = groups /\ queue' = groups
    /\ chain_state' = Ledger /\ failed_sources' = {} /\ txs_hashes' = <<>>

Select(s) ==
    LET tx == Head(queue[s])
        full == block_size + TotalSize(txs_hashes) + tx.size >= MAX_BLOCK_SIZE
    IN /\ template = "open" /\ IsNext(s)
       /\ queue' = [queue EXCEPT ![s] = Tail(@)]
       /\ \/ full /\ template' = "full" /\ UNCHANGED <<chain_state, failed_sources, txs_hashes>>
          \/ /\ ~full /\ s \in failed_sources
             /\ UNCHANGED <<chain_state, failed_sources, txs_hashes, template>>
          \/ /\ ~full /\ s \notin failed_sources
             /\ chain_state' = VerifiedState(tx)
             /\ IF Valid(tx) THEN txs_hashes' = Append(txs_hashes, tx) /\ UNCHANGED failed_sources
                ELSE failed_sources' = Failed(tx) /\ UNCHANGED txs_hashes
             /\ UNCHANGED template
       /\ UNCHANGED pool

Built ==
    /\ template = "open" /\ Grouped = {} /\ template' = "built"
    /\ UNCHANGED <<queue, pool, chain_state, failed_sources, txs_hashes>>

InitTemplate ==
    /\ template = "none" /\ pool = [s \in Senders |-> <<>>] /\ queue = pool
    /\ chain_state = Ledger /\ failed_sources = {} /\ txs_hashes = <<>>

NextTemplate ==
    \/ \E groups \in Pools : get_block_template(groups)
    \/ \E s \in Senders : Select(s)
    \/ Built
--------------------------------------------------------------------------------
Of(s, txs) == SelectSeq(txs, LAMBDA tx : tx.source = s)
CostOf(txs) == LET sum[i \in 0..Len(txs)] == IF i = 0 THEN 0 ELSE sum[i - 1] + txs[i].cost IN sum[Len(txs)]

(* The transactions of the template can be executed one after the other on the ledger, and
   they are the first ones of their sender's cache. Unless the block is full or one of
   them failed, all of a sender's transactions are in it. Nothing is said of its size: the
   hash of the last transaction is not counted before it is taken, so a block may be larger
   than add_new_block accepts.                                                           *)
TemplateSound ==
    \A s \in Senders :
        LET mine == Of(s, txs_hashes)
        IN /\ \A i \in 1..Len(mine) : mine[i] = pool[s][i] /\ mine[i].nonce = Ledger[s].nonce + i - 1
           /\ CostOf(mine) <= Ledger[s].balance
           /\ template = "built" /\ s \notin failed_sources => mine = pool[s]
================================================================================
