------------------------------- MODULE MCFormats -------------------------------
(* What is written and read. Small values of every format: each field takes its edge
   values in turn while the others keep one value, and lists are as short and as long
   as they may be. Payments of one and two assets, at the limits of the data, of the
   amounts and of the funds. A wallet with two passwords and a crash, two assets and a
   cache of one, and data under keys of two kinds. The parts share no state and one of
   them moves; MCAccounts puts them beside the parts of the ledger.                  *)
EXTENDS Payments, Cryptography, Wallet

VARIABLE part      \* the one that moves

RECURSIVE Nth(_, _), Samples(_, _)

Lengths(f) == {l \in {0, 1, 2, Byte - 1, 9 * 32, 11 * 32, HANDSHAKE_MAX_LEN, MAX_ITEMS} :
                    l \in f.lens /\ l < Byte^f.w}
Edges == {0, 1, CHAIN_SYNC_RESPONSE_MIN_BLOCKS, CHAIN_SYNC_RESPONSE_MAX_BLOCKS}
Within(x, n) == IF x <= 2 THEN n % Byte^x ELSE n
FieldAt(f, x) == CHOOSE i \in DOMAIN f.read : f.read[i][1] = x
Names(f) == {f.read[i][1] : i \in DOMAIN f.read}

(* The n-th of a row of distinct values *)
Nth(f, n) ==
    CASE f.k = "fixed"    -> Within(f.w, n)
      [] f.k = "flag"     -> n % 2 = 0
      [] f.k = "text"     -> [len |-> CHOOSE l \in Lengths(f) : l > 0, is |-> n]
      [] f.k = "opttext"  -> <<[len |-> 1, is |-> n]>>
      [] f.k = "optbyte"  -> <<1 + (n % (Byte - 1))>>
      [] f.k = "varuint"  -> n % Byte
      [] f.k = "opt"      -> <<Nth(f.of, n)>>
      [] f.k = "where"    -> IF Nth(f.of, n) \in f.set THEN Nth(f.of, n) ELSE CHOOSE x \in Edges : x \in f.set
      [] f.k = "many"     -> <<Nth(f.of, n)>>
      [] f.k = "whole"    -> <<n>>
      [] f.k = "struct"   -> [x \in Names(f) |-> Nth(f.read[FieldAt(f, x)][2], n + 40 * FieldAt(f, x))]
      [] f.k = "enum"     -> LET x == f.variants[1 + (n % Len(f.variants))] IN [is |-> x[1], of |-> Nth(x[3], n)]
      [] f.k = "tail"     -> <<n>>
      [] f.k = "tailbalance" -> [previous |-> <<n>>, output |-> <<>>]
      [] f.k = "follow"   -> <<Nth(f.of, n)>>

(* Values of f whose numbers start at n *)
Samples(f, n) ==
    LET one == Nth(f, n)
        row(count) == [i \in 1..count |-> Nth(f.of, n + i)]
    IN CASE f.k = "fixed"    -> {Within(f.w, n), 0}
         [] f.k = "flag"     -> BOOLEAN
         [] f.k = "text"     -> {[len |-> l, is |-> IF l = 0 THEN 0 ELSE n] : l \in Lengths(f)}
         [] f.k = "opttext"  -> {<<>>} \cup {<<[len |-> l, is |-> n]>> : l \in {1, HANDSHAKE_MAX_LEN}}
         [] f.k = "optbyte"  -> {<<>>, <<1>>, <<Byte - 1>>}
         [] f.k = "varuint"  -> {0, 1, Byte - 1, Byte, Byte + 1, Byte^VarSize - Byte, Byte^VarSize - 1}
         [] f.k = "opt"      -> {<<>>} \cup {<<x>> : x \in Samples(f.of, n)}
         [] f.k = "where"    -> {x \in Samples(f.of, n) \cup (IF f.of.k = "fixed" THEN Edges ELSE {}) : x \in f.set}
         [] f.k = "many"     -> {row(c) : c \in {f.least, f.least + 1, IF f.most < Byte THEN f.most ELSE 3}}
                                \cup {<<x>> : x \in Samples(f.of, n)}
         [] f.k = "whole"    -> {[i \in 1..c |-> n + i] : c \in 0..3}
         [] f.k = "struct"   ->
                LET one_by_one == UNION {{[one EXCEPT ![x] = v] :
                                              v \in Samples(f.read[FieldAt(f, x)][2], n + 40 * FieldAt(f, x))} :
                                          x \in Names(f)}
                IN CASE "transactions" \in Names(f) ->      \* a block has the transactions it names
                            {[header |-> [one.header EXCEPT !.txs_hashes = [i \in 1..c |-> n + i]],
                              transactions |-> [i \in 1..c |-> Nth(Transaction, n + i)]] : c \in 0..2}
                     [] "rest" \in Names(f) ->              \* only a balance of both kinds has an output
                            {[one EXCEPT !.balance_type = [is |-> t, of |-> 0],
                                         !.rest = [previous |-> p, output |-> IF t = "Both" THEN <<Nth(CiphertextCache, n)>> ELSE <<>>]] :
                                t \in {"Input", "Output", "Both"}, p \in {<<>>, <<n>>}}
                     [] OTHER -> one_by_one
         [] f.k = "enum"     -> UNION {{[is |-> f.variants[i][1], of |-> v] : v \in Samples(f.variants[i][3], n)} :
                                            i \in DOMAIN f.variants}
         [] f.k = "tail"     -> {<<>>, <<n>>}

\* The most assets a transaction can transfer, none of which is the native one
Crowded ==
    [Nth(Transaction, 1) EXCEPT
        !.data = [is |-> "Transfers",
                  of |-> [i \in 1..MAX_TRANSFER_COUNT |-> [Nth(TransferPayload, 1) EXCEPT !.asset = i]]],
        !.source_commitments = [i \in 1..(MAX_TRANSFER_COUNT + 1) |-> [Nth(SourceCommitment, 1) EXCEPT !.asset = i - 1]]]

MCValues(f) ==
    Samples(f, 1) \cup (IF f.k = "struct" /\ "source_commitments" \in Names(f) THEN {Crowded} ELSE {})

--------------------------------------------------------------------------------
MCFunds == [xel |-> 30, tok |-> 5]
Given(n) == <<[len |-> n, is |-> "data"]>>
Transfer(who, asset, amount, extra, integrated, ours) ==
    [to |-> who, asset |-> asset, amount |-> amount, extra |-> extra, integrated |-> integrated, ours |-> ours]
Pay(who, asset, amount) == Transfer(who, asset, amount, <<>>, <<>>, TRUE)
Once == [is |-> "Multiplier", of |-> 1]
Send(transfers, fee) == [is |-> "Transfers", transfers |-> transfers, fee |-> fee, online |-> TRUE]

MCRequests ==
    {[is |-> "Burn", asset |-> a, amount |-> n, fee |-> Once, online |-> TRUE] : a \in {"xel", "tok"}, n \in {0, 5}}
    \cup {Send(<<Pay(who, a, 2)>>, Once) : who \in {"bob", "new"}, a \in {"xel", "tok"}}
    \cup {Send(<<Pay("bob", "xel", 1), Pay("carol", "tok", n)>>, Once) : n \in {0, 5, 6}}
    \cup {Send(<<Pay("bob", "tok", 60), Pay("carol", "tok", 6)>>, Once)}                 \* the sum wraps
    \cup {Send(<<Transfer("bob", "tok", 1, Given(n), <<>>, TRUE), Transfer("bob", "tok", 1, <<>>, Given(n), TRUE)>>, Once) :
                n \in {1, 30, 34, 35}}                                                   \* limits of the data
    \cup {Send(<<Transfer("bob", "xel", 1, <<>>, Given(n), TRUE)>>, Once) : n \in {132, 134, 135}}
    \cup {Send(<<Transfer("bob", "xel", 1, Given(1), Given(1), TRUE)>>, Once),
          Send(<<Transfer("bob", "xel", 1, <<>>, <<>>, FALSE)>>, Once), Send(<<>>, Once),
          Send(<<Pay("me", "xel", 1)>>, Once), Send(<<Pay("bob", "xel", 1)>>, [is |-> "Value", of |-> 1]),
          Send(<<Pay("bob", "xel", 1)>>, [is |-> "Multiplier", of |-> 3]),
          [Send(<<Pay("bob", "xel", 1)>>, Once) EXCEPT !.online = FALSE]}

\* Keys and data at the edges of a byte, of every length: the bits that are left over are none to four
MCAddresses ==
    {[net |-> n, key |-> k, data |-> d] :
        n \in {"mainnet", "testnet"}, k \in {<<0>>, <<255>>},
        d \in {<<>>, <<<<>>>>, <<<<1>>>>, <<<<0, 255>>>>, <<<<170, 85, 1>>>>, <<<<1, 2, 3, 4>>>>}}

\* All rows of 32 bits but the last are scalars
MCKeys == [1..Groups -> 0..(Word - 1)] \ {[g \in 1..Groups |-> Word - 1]}

\* Rows of up to three transactions that may cost too much, start too late, or fill the block
MCLedger == [s \in {"a", "b"} |-> [nonce |-> 1, balance |-> 4]]
Row(s, costs, fees, start) ==
    [i \in DOMAIN costs |-> [source |-> s, nonce |-> start + i - 1, cost |-> costs[i], fee |-> fees[i], size |-> 2 + costs[i]]]
MCPools ==
    {[s \in {"a", "b"} |-> IF s = "a" THEN Row("a", costs, fees, start) ELSE Row("b", others, <<2, 2, 2>>, 1)] :
        costs \in {<<>>, <<1>>, <<3, 1>>, <<1, 3>>, <<5, 1>>, <<3, 3>>, <<1, 5, 1>>, <<1, 1, 1>>},
        fees \in {<<1, 3, 2>>, <<3, 2, 1>>, <<2, 2, 2>>}, start \in {1, 2},
        others \in {<<>>, <<1>>, <<1, 5, 1>>, <<2, 2>>}}

MCTrackedAsset == <<"xel", "tok">>

\* Two keys of a byte and one of text; a value, an array and fields
Small(n) == [is |-> "U8", of |-> n]
Word1 == [is |-> "String", of |-> [len |-> 1, is |-> 9]]
One == [is |-> "Value", of |-> Small(1)]
MCCustomKeys == {Small(0), Small(2), Word1}
MCCustomValues ==
    {One, [is |-> "Array", of |-> <<One, [One EXCEPT !.of = Word1]>>],
     [is |-> "Fields", of |-> <<[key |-> Word1, value |-> One]>>]}

Equals(v) == [is |-> "Equal", of |-> v]
Above(n) == [is |-> "Number", of |-> [op |-> "Greater", than |-> n]]
MCKeyQueries ==
    {<<>>, <<Equals(Word1)>>, <<[is |-> "Not", of |-> Equals(Small(2))]>>, <<Above(0)>>,
     <<[is |-> "And", of |-> <<[is |-> "IsOfType", of |-> "U8"], [is |-> "Not", of |-> Above(0)]>>]>>,
     <<[is |-> "Or", of |-> <<Equals(Small(0)), [is |-> "Text", of |-> {Write(DataValue, Word1)}]>>]>>,
     <<[is |-> "Len", of |-> [op |-> "Lesser", than |-> 1]]>>}
MCValueQueries ==
    {<<>>, <<Equals(Small(1))>>, <<[is |-> "HasKey", key |-> Word1, query |-> <<Equals(Small(1))>>]>>,
     <<[is |-> "Not", of |-> [is |-> "Type", of |-> "Fields"]]>>,
     <<[is |-> "And", of |-> <<[is |-> "ContainsElement", of |-> One],
                                [is |-> "AtPosition", position |-> 1, query |-> <<Equals(Word1)>>],
                                [is |-> "Len", of |-> [op |-> "GreaterOrEqual", than |-> 2]]>>]>>}

To2(who, data) == [to |-> who, data |-> data]
MCEntries ==
    {[is |-> k, topoheight |-> t, from |-> w, transfers |-> IF k \in {"Incoming", "Outgoing"} THEN x ELSE <<>>] :
        k \in {"Coinbase", "Burn", "Incoming", "Outgoing"}, t \in {1, 3}, w \in {"me", "bob"},
        x \in {<<To2("bob", <<>>)>>, <<To2("me", <<One>>), To2("bob", <<>>)>>}}
MCFilters ==
    [address : {<<>>, <<"bob">>}, topoheights : {1..3, 2..3}, kinds : {{"Incoming"}, {"Outgoing", "Burn"}, {"Coinbase", "Incoming"}},
     query : {<<>>, <<Equals(Small(1))>>, <<Equals(Small(0))>>}]

dataVars ==
    <<messageVars, payVars, proofVars, cacheVars, seedVars, addressVars, templateVars,
      fileVars, cacheTreeVars, customVars, serverVars>>

InitData ==
    /\ InitMessages /\ InitPayments /\ InitProofs /\ InitCache /\ InitSeeds /\ InitAddresses
    /\ InitTemplate /\ InitFile /\ InitCaches /\ InitCustom /\ InitServers

(* It is the turn of p: the others rest. *)
Only(p) ==
    /\ part = p /\ UNCHANGED part
    /\ p # "messages" => UNCHANGED messageVars
    /\ p # "payments" => UNCHANGED payVars
    /\ p # "proofs" => UNCHANGED proofVars
    /\ p # "cache" => UNCHANGED cacheVars
    /\ p # "seeds" => UNCHANGED seedVars
    /\ p # "addresses" => UNCHANGED addressVars
    /\ p # "templates" => UNCHANGED templateVars
    /\ p # "file" => UNCHANGED fileVars
    /\ p # "caches" => UNCHANGED cacheTreeVars
    /\ p # "custom" => UNCHANGED customVars
    /\ p # "servers" => UNCHANGED serverVars

NextData ==
    \/ Only("messages") /\ NextMessages
    \/ Only("payments") /\ NextPayments
    \/ Only("proofs") /\ NextProofs
    \/ Only("cache") /\ NextCache
    \/ Only("seeds") /\ NextSeeds
    \/ Only("addresses") /\ NextAddresses
    \/ Only("templates") /\ NextTemplate
    \/ Only("file") /\ NextFile
    \/ Only("caches") /\ NextCaches
    \/ Only("custom") /\ NextCustom
    \/ Only("servers") /\ NextServers

--------------------------------------------------------------------------------

(* What the builder builds is accepted by the verifier, unless it cannot be paid or its data
   is within two bytes a piece of the limit, which is refused; it costs the fee that was
   estimated, and its data is readable by sender and receiver alone. Nothing else is
   accepted: no altered transaction, and none that spends more than there is. What a node
   then selects to mine can be executed, one after the other.                            *)
PaymentsSound ==
    /\ BuiltIsAccepted /\ EstimateIsExact /\ DataIsReadable
    /\ AlteredIsRefused /\ NoOverdraft /\ TemplateSound

================================================================================
