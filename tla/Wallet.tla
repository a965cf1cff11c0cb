--------------------------------- MODULE Wallet ---------------------------------
(* What a wallet keeps beside its place on the chain (WalletSync): the file with its
   password, the caches over the trees of the file, the data that applications store in
   it and the history a user lists, and the servers that lead to it. The four parts
   share no state.                                                                   *)
EXTENDS Formats
--------------------------------------------------------------------------------
(* The file. A value encrypted with the key of a password is that key: the pair of the
   password and its salt, which is numbered. The master key and the salt of the storage
   are chosen once, so that the trees they open are the same for ever. sled writes in
   order and flushes when told and at times of its own: a crash leaves what was there
   at the last flush or at any time since.                                            *)

CONSTANTS
    Password,        \* what the user may type
    Networks,
    MaxSalts,        \* bound: passwords set
    MaxCrashes       \* bound: crashes

VARIABLES
    file,      \* PSALT, MKEY, SALT, and what the extra tree holds of network and private key
    older,     \* contents since the last flush
    todo,      \* the inserts left of create or set_password
    running,   \* whether the wallet is open
    chosen,    \* the password of each salt
    created,   \* create has returned
    halfway,   \* history: contents between the inserts of set_password
    torn,      \* history: a crash left one of them
    crashes

fileVars == <<file, older, todo, running, chosen, created, halfway, torn, crashes>>

NoFile == [psalt |-> 0, mkey |-> <<>>, ssalt |-> <<>>, network |-> "none", key |-> FALSE]

hash_password(p, salt) == <<p, salt>>
decrypt_value(encrypted, key) == encrypted = <<key>>

(* What create and set_password write first, one insert after the other.              *)
PasswordInserts(p, salt) ==
    LET key == hash_password(p, salt)
    IN  << <<"psalt", salt>>, <<"mkey", <<key>> >>, <<"ssalt", <<key>> >> >>

(* The commands create and recover refuse a directory that is there.                  *)
CreateWallet(p, network) ==
    /\ ~running /\ chosen = <<>>
    /\ chosen' = <<p>>
    /\ todo' = PasswordInserts(p, 1) \o << <<"network", network>>, <<"key", TRUE>> >>
    /\ UNCHANGED <<file, older, running, created, halfway, torn, crashes>>

is_valid_password(p) == file.psalt # 0 /\ decrypt_value(file.mkey, hash_password(p, file.psalt))

SetPassword(old, new) ==
    /\ running /\ todo = <<>> /\ Len(chosen) < MaxSalts
    /\ is_valid_password(old) /\ decrypt_value(file.ssalt, hash_password(old, file.psalt))
    /\ chosen' = Append(chosen, new)
    /\ todo' = PasswordInserts(new, Len(chosen) + 1)
    /\ UNCHANGED <<file, older, running, created, halfway, torn, crashes>>

(* create flushes when it is done, set_password does not.                              *)
InsertNext ==
    /\ todo # <<>>
    /\ file' = [file EXCEPT ![Head(todo)[1]] = Head(todo)[2]]
    /\ todo' = Tail(todo)
    /\ IF ~running /\ todo' = <<>>
       THEN older' = {} /\ running' = TRUE /\ created' = TRUE
       ELSE older' = older \cup {file} /\ UNCHANGED <<running, created>>
    /\ halfway' = IF running /\ todo' # <<>> THEN halfway \cup {file'} ELSE halfway
    /\ UNCHANGED <<chosen, torn, crashes>>

(* What open needs of a file, up to the network.                                       *)
Unlocks(f, p) ==
    /\ f.psalt # 0 /\ f.mkey # <<>>
    /\ decrypt_value(f.mkey, hash_password(p, f.psalt))
    /\ f.ssalt # <<>> /\ decrypt_value(f.ssalt, hash_password(p, f.psalt))

(* EncryptedStorage: one without a network takes the one it is opened for.             *)
TakesNetwork(network) ==
    /\ file.network \in {network, "none"}
    /\ file' = [file EXCEPT !.network = network]
    /\ older' = IF file.network = "none" THEN older \cup {file} ELSE older

(* The command open needs a directory that is there; it fails without a private key.    *)
OpenWallet(p, network) ==
    /\ ~running /\ todo = <<>> /\ chosen # <<>>
    /\ Unlocks(file, p) /\ TakesNetwork(network)
    /\ running' = file.key
    /\ UNCHANGED <<todo, chosen, created, halfway, torn, crashes>>

Flush ==
    /\ older # {} /\ older' = {}
    /\ UNCHANGED <<file, todo, running, chosen, created, halfway, torn, crashes>>

(* close: stop of the storage flushes.                                                 *)
CloseWallet ==
    /\ running /\ todo = <<>>
    /\ running' = FALSE /\ older' = {}
    /\ UNCHANGED <<file, todo, chosen, created, halfway, torn, crashes>>

Crash ==
    /\ crashes < MaxCrashes /\ (running \/ todo # <<>>)
    /\ crashes' = crashes + 1
    /\ file' \in older \cup {file}
    /\ torn' = (file' \in halfway)
    /\ older' = {} /\ todo' = <<>> /\ running' = FALSE
    /\ UNCHANGED <<chosen, created, halfway>>

InitFile ==
    /\ file = NoFile /\ older = {} /\ todo = <<>> /\ running = FALSE /\ chosen = <<>>
    /\ created = FALSE /\ halfway = {} /\ torn = FALSE /\ crashes = 0

NextFile ==
    \/ \E p \in Password, n \in Networks : CreateWallet(p, n) \/ OpenWallet(p, n)
    \/ \E old, new \in Password : SetPassword(old, new)
    \/ InsertNext \/ Flush \/ CloseWallet \/ Crash

Openers == {p \in Password : Unlocks(file, p) /\ file.network # "none" /\ file.key}

(* A wallet that was created can be opened with the password that goes with its salt and
   with no other, after any changes of it and any crashes but one; it is the last one
   chosen if nothing was lost. A crash that falls between the three inserts of a change
   leaves a wallet that nothing opens.                                                   *)
OpensWithPassword ==
    created /\ todo = <<>> =>
        /\ Openers = IF torn THEN {} ELSE {chosen[file.psalt]}
        /\ crashes = 0 => file.psalt = Len(chosen)
--------------------------------------------------------------------------------
(* The caches of EncryptedStorage. Ciphertexts are numbers; a transaction that is built
   leaves one for every asset it spends. The most recent entry of an LruCache is first. *)

CONSTANTS
    TrackedAsset,    \* in the order of the tree: a sequence
    Ciphertexts,
    CacheSize,       \* DEFAULT_CACHE_SIZE
    MaxPending,      \* bound: transactions that wait
    Topoheights

VARIABLES
    assets, assets_cache,          \* the tree, and the cache: a row of assets
    balances, balances_cache,      \* asset -> ciphertext or 0, and a row of <<asset, ciphertext>>
    pending,                       \* unconfirmed_balances_cache
    lastTx,                        \* tx_cache: a transaction waits that the next one follows
    syncedTo, syncedCache            \* synced topoheight in the tree, and the field, -1 for None

cacheTreeVars == <<assets, assets_cache, balances, balances_cache, pending, lastTx, syncedTo, syncedCache>>
ledgerVars == <<balances, balances_cache, pending, lastTx>>

Assets == ToSet(TrackedAsset)

(* The entry comes first, and the last one goes when there is no room.                   *)
LruPut(others, entry) ==
    LET row == <<entry>> \o others
    IN  SubSeq(row, 1, IF Len(row) < CacheSize THEN Len(row) ELSE CacheSize)
PutAsset(cache, a) == LruPut(SelectSeq(cache, LAMBDA e : e # a), a)
PutBalance(cache, a, c) == LruPut(SelectSeq(cache, LAMBDA e : e[1] # a), <<a, c>>)

(* add_asset refuses one that contains_asset finds, in the cache or else in the tree.    *)
AddAsset(a) ==
    /\ a \notin ToSet(assets_cache) \cup assets
    /\ assets' = assets \cup {a} /\ assets_cache' = PutAsset(assets_cache, a)
    /\ UNCHANGED <<ledgerVars, syncedTo, syncedCache>>

(* get_assets: the cache when it is as long as the tree, otherwise the tree, which goes
   through the cache.                                                                    *)
AssetsAnswered == IF Len(assets_cache) = Cardinality(assets) THEN ToSet(assets_cache) ELSE assets

GetAssets ==
    /\ Len(assets_cache) # Cardinality(assets)
    /\ assets_cache' = FoldLeft(PutAsset, assets_cache, SelectSeq(TrackedAsset, LAMBDA a : a \in assets))
    /\ UNCHANGED <<assets, ledgerVars, syncedTo, syncedCache>>

BalanceOf(a) ==
    LET hits == SelectSeq(balances_cache, LAMBDA e : e[1] = a)
    IN  IF hits # <<>> THEN hits[1][2] ELSE balances[a]

GetBalance(a) ==
    /\ BalanceOf(a) # 0
    /\ balances_cache' = PutBalance(balances_cache, a, BalanceOf(a))
    /\ UNCHANGED <<assets, assets_cache, balances, pending, lastTx, syncedTo, syncedCache>>

(* set_balance_for: the balances that waited go, up to the one that is now confirmed;
   the last one stays while its transaction is not processed.                            *)
Unmatched(row, c) ==
    LET hits == {i \in DOMAIN row : row[i] = c}
    IN  IF hits # {} THEN SubSeq(row, (CHOOSE i \in hits : \A j \in hits : i <= j) + 1, Len(row))
        ELSE IF lastTx /\ row # <<>> THEN <<Last(row)>> ELSE <<>>

SetBalanceFor(a, c) ==
    /\ pending' = [pending EXCEPT ![a] = Unmatched(@, c)]
    /\ lastTx' = (lastTx /\ ~(pending[a] # <<>> /\ \A b \in Assets : pending'[b] = <<>>))
    /\ balances' = [balances EXCEPT ![a] = c]
    /\ balances_cache' = PutBalance(balances_cache, a, c)
    /\ UNCHANGED <<assets, assets_cache, syncedTo, syncedCache>>

(* A transaction that was built and submitted: set_unconfirmed_balance_for, set_tx_cache. *)
ApplyBuilt(spent, c) ==
    /\ \A a \in spent : BalanceOf(a) # 0 /\ Len(pending[a]) < MaxPending
    /\ pending' = [a \in Assets |-> IF a \in spent THEN Append(pending[a], c) ELSE pending[a]]
    /\ lastTx' = TRUE
    /\ UNCHANGED <<assets, assets_cache, balances, balances_cache, syncedTo, syncedCache>>

(* save_transaction of the last one that was built, or clear_tx_cache.                    *)
EndLastTx ==
    /\ lastTx /\ lastTx' = FALSE
    /\ UNCHANGED <<assets, assets_cache, balances, balances_cache, pending, syncedTo, syncedCache>>

SetSynced(t) ==
    /\ syncedTo' = t /\ syncedCache' = t
    /\ UNCHANGED <<assets, assets_cache, ledgerVars>>

get_synced_topoheight == IF syncedCache # -1 THEN syncedCache ELSE syncedTo

NoPending == [a \in Assets |-> <<>>]

(* delete_balances, with the unconfirmed ones; delete_assets.                             *)
DeleteAll(t) ==
    /\ t <= syncedTo
    /\ balances' = [a \in Assets |-> 0] /\ balances_cache' = <<>>
    /\ pending' = NoPending /\ lastTx' = FALSE
    /\ assets' = {} /\ assets_cache' = <<>>
    /\ syncedTo' = t /\ syncedCache' = t

Reopen ==
    /\ balances_cache' = <<>> /\ assets_cache' = <<>> /\ pending' = NoPending
    /\ lastTx' = FALSE /\ syncedCache' = -1
    /\ UNCHANGED <<assets, balances, syncedTo>>

InitCaches ==
    /\ assets = {} /\ assets_cache = <<>> /\ balances = [a \in Assets |-> 0]
    /\ balances_cache = <<>> /\ pending = NoPending
    /\ lastTx = FALSE /\ syncedTo = 0 /\ syncedCache = -1

NextCaches ==
    \/ \E a \in Assets : AddAsset(a) \/ GetBalance(a) \/ \E c \in Ciphertexts : SetBalanceFor(a, c)
    \/ \E spent \in SUBSET Assets \ {{}}, c \in Ciphertexts : ApplyBuilt(spent, c)
    \/ \E t \in Topoheights : SetSynced(t) \/ DeleteAll(t)
    \/ GetAssets \/ EndLastTx \/ Reopen

(* Whatever was set, evicted, deleted or opened again, the caches answer what the trees
   hold, a cache as long as its tree included; and a transaction that the next one is to
   follow has left a balance for it to spend.                                            *)
CachesAnswerTrees ==
    /\ AssetsAnswered = assets
    /\ \A a \in Assets : BalanceOf(a) = balances[a]
    /\ get_synced_topoheight = syncedTo
    /\ lastTx => \E a \in Assets : pending[a] # <<>>
--------------------------------------------------------------------------------
(* The data of applications: trees of a key and a value, a DataValue and a DataElement,
   each stored as the bytes it is written as. Encryption gives the bytes back, and the
   same key always as the same bytes.                                                     *)

CONSTANTS
    CustomKeys, CustomValues,
    KeyQueries, ValueQueries,    \* <<>>, or a row of one query
    AllEntries,                     \* the history of a wallet
    Filters                      \* what it is listed by

VARIABLES
    custom,        \* pairs of the bytes of a key and the bytes of its value
    asked,         \* what was asked for, <<>> before
    answered       \* what was returned

customVars == <<custom, asked, answered>>

Stored == DataElement(1)
KeyBytes(k) == Write(DataValue, k)
Keyed(bytes) == Read(DataValue, bytes, <<>>)
Valued(bytes) == Read(Stored, bytes, <<>>)

(* A number against a number *)
Compares(q, n) ==
    CASE q.op = "Greater" -> n > q.than
      [] q.op = "GreaterOrEqual" -> n >= q.than
      [] q.op = "Lesser" -> n < q.than
      [] q.op = "LesserOrEqual" -> n <= q.than

QueryNumber(q, v) == v.is \in {"U8", "U16", "U32", "U64", "U128"} /\ Compares(q, v.of)

(* StartsWith, EndsWith, ContainsValue and Matches look at the text of a value: such a
   query is the set of the values it accepts, as they are written.                         *)
QueryValue(q, v) ==
    CASE q.is = "Equal" -> KeyBytes(v) = KeyBytes(q.of)
      [] q.is = "Text" -> KeyBytes(v) \in q.of
      [] q.is = "IsOfType" -> v.is = q.of
      [] q.is = "Number" -> QueryNumber(q.of, v)

ForElements == {"HasKey", "AtKey", "Len", "ContainsElement", "AtPosition", "Type"}

RECURSIVE verify_value(_, _), verify_element(_, _)

verify_value(q, v) ==
    CASE q.is = "Not" -> ~verify_value(q.of, v)
      [] q.is = "Or" -> \E i \in DOMAIN q.of : verify_value(q.of[i], v)
      [] q.is = "And" -> \A i \in DOMAIN q.of : verify_value(q.of[i], v)
      [] q.is \in ForElements -> FALSE
      [] OTHER -> QueryValue(q, v)

FieldsAt(fields, key) == SelectSeq(fields, LAMBDA f : KeyBytes(f.key) = KeyBytes(key))

(* A length is compared as a u8. HasKey without a query finds nothing.                     *)
QueryElement(q, e) ==
    LET isA(name) == e.is = name
        some(found) == found # <<>> /\ q.query # <<>> /\ verify_element(q.query[1], found[1].value)
    IN  CASE q.is \in {"HasKey", "AtKey"} -> isA("Fields") /\ some(FieldsAt(e.of, q.key))
          [] q.is = "Len" -> ~isA("Value") /\ Compares(q.of, Len(e.of) % Byte)
          [] q.is = "ContainsElement" -> isA("Array") /\ \E i \in DOMAIN e.of : Write(Stored, e.of[i]) = Write(Stored, q.of)
          [] q.is = "AtPosition" ->
                isA("Array") /\ q.position < Len(e.of) /\ verify_element(q.query[1], e.of[q.position + 1])
          [] q.is = "Type" -> q.of = IF isA("Value") THEN e.of.is ELSE e.is

verify_element(q, e) ==
    CASE q.is = "Not" -> ~verify_element(q.of, e)
      [] q.is = "Or" -> \E i \in DOMAIN q.of : verify_element(q.of[i], e)
      [] q.is = "And" -> \A i \in DOMAIN q.of : verify_element(q.of[i], e)
      [] q.is \in ForElements -> QueryElement(q, e)
      [] OTHER -> e.is = "Value" /\ QueryValue(q, e.of)

(* is_for_element: the servers refuse a key query of this kind                              *)
IsForElement(q) == q # <<>> /\ q[1].is \in ForElements

Store(k, v) ==
    /\ custom' = {p \in custom : p[1] # KeyBytes(k)} \cup {<<KeyBytes(k), Write(Stored, v)>>}
    /\ asked' = <<>> /\ answered' = <<>>

DeleteKey(k) ==
    /\ custom' = {p \in custom : p[1] # KeyBytes(k)}
    /\ asked' = <<>> /\ answered' = <<>>


(* The value query is put to what the bytes of the KEY are as a DataElement.                *)
KeyFits(p, q) == q = <<>> \/ verify_value(q[1], Keyed(p[1]).v)
ValueFits(p, q) == q = <<>> \/ (Valued(p[1]).ok /\ verify_element(q[1], Valued(p[1]).v))
ValueFails(p, q) == q # <<>> /\ ~Valued(p[1]).ok

(* query_db: an entry that cannot be read ends it with an error, unless return_on_first
   ended it before; what the value query was put to is returned as the value. The entries
   come in the order of their encrypted keys: any.                                          *)
Entry(p, values) == IF values = <<>> THEN p ELSE <<p[1], p[1]>>

QueryDb(keys, values, first) ==
    LET looked == {p \in custom : KeyFits(p, keys)}
        found == {Entry(p, values) : p \in {x \in looked : ValueFits(x, values)}}
        fails == \E p \in looked : ValueFails(p, values)
    IN  /\ asked = <<>> /\ ~IsForElement(keys)
        /\ asked' = <<keys, values, first>>
        /\ \/ fails /\ answered' = <<"error">>
           \/ first /\ \E e \in found : answered' = <<"found", {e}>>
           \/ ~fails /\ (first => found = {}) /\ answered' = <<"found", found>>
        /\ UNCHANGED custom

(* get_custom_tree_keys *)
ListKeys(keys) ==
    /\ asked = <<>> /\ ~IsForElement(keys)
    /\ asked' = <<"keys", keys>> /\ answered' = <<"keys", {p[1] : p \in {x \in custom : KeyFits(x, keys)}}>>
    /\ UNCHANGED custom

--------------------------------------------------------------------------------
(* The history: an entry is of a kind, at a topoheight, from an address (Incoming) or with
   transfers to some (Outgoing); each transfer carries data, or none.                      *)

Passes(e, f) ==
    /\ e.topoheight \in f.topoheights /\ e.is \in f.kinds
    /\ e.is = "Incoming" /\ f.address # <<>> => e.from = f.address[1]
    /\ e.is = "Outgoing" /\ f.address # <<>> => \E i \in DOMAIN e.transfers : e.transfers[i].to = f.address[1]

WithData(e, q) ==
    \E i \in DOMAIN e.transfers :
        e.transfers[i].data # <<>> /\ verify_element(q, e.transfers[i].data[1])

(* get_filtered_transactions: transfers are looked at only when an address is given; a
   query drops the entries whose transfers were not looked at.                             *)
FilteredTransactions(f) ==
    {e \in AllEntries :
        LET looked == f.address # <<>> /\ e.is \in {"Incoming", "Outgoing"}
        IN  /\ Passes(e, f)
            /\ f.query # <<>> => looked /\ WithData(e, f.query[1])
            /\ looked => e.transfers # <<>>}

ListTransactions(f) ==
    /\ asked = <<>>
    /\ asked' = <<f>> /\ answered' = <<"listed", FilteredTransactions(f)>>
    /\ UNCHANGED custom

InitCustom == custom = {} /\ asked = <<>> /\ answered = <<>>

NextCustom ==
    \/ \E k \in CustomKeys : DeleteKey(k) \/ \E v \in CustomValues : Store(k, v)
    \/ \E k \in KeyQueries : ListKeys(k) \/ \E v \in ValueQueries, first \in BOOLEAN : QueryDb(k, v, first)
    \/ \E f \in Filters : ListTransactions(f)

(* The entries that a query of keys and a query of values ask for.                          *)
Matching(keys, values) ==
    {p \in custom : /\ keys # <<>> => verify_value(keys[1], Keyed(p[1]).v)
                    /\ values # <<>> => verify_element(values[1], Valued(p[2]).v)}

Answers(wanted) ==
    /\ answered[1] = "found"
    /\ IF asked[3] THEN answered[2] \subseteq wanted /\ (answered[2] = {} <=> wanted = {})
                   ELSE answered[2] = wanted

(* A query of the keys alone finds the entries it asks for, read from the bytes they were
   written as, and no others; the same of a list of the keys. Nothing is said of a query of
   the values, which query_db puts to the key.                                             *)
KeysAnswered ==
    /\ Len(asked) = 3 /\ asked[2] = <<>> => Answers(Matching(asked[1], <<>>))
    /\ Len(asked) = 2 => answered[2] = {p[1] : p \in Matching(asked[2], <<>>)}

(* What is listed fits the filter, and everything that does is listed unless data is asked
   for without an address.                                                                 *)
HistoryListed ==
    Len(asked) = 1 =>
        LET f == asked[1]
            wanted == {e \in AllEntries : Passes(e, f) /\ (f.query # <<>> => WithData(e, f.query[1]))}
        IN  IF f.query # <<>> /\ f.address = <<>> THEN answered[2] = {}
            ELSE answered[2] = {e \in wanted : f.query # <<>> => e.is \in {"Incoming", "Outgoing"}}
--------------------------------------------------------------------------------
(* The servers of a wallet, the channel of the XSWD requests, and the listeners to its
   events. Channels are numbered; the task that asks the user ends with the sender of its
   channel.                                                                                *)

CONSTANTS
    MaxChannels,     \* bound: XSWD channels made
    Listener

VARIABLES
    api_server,         \* "none", "rpc" or "xswd"
    xswd_channel,       \* the channel whose sender is in the wallet, 0 for None
    channels,           \* channels made
    askers,             \* channels with a task that asks the user
    online,             \* network_handler
    broadcaster,        \* event_broadcaster is there
    listeners,          \* those that subscribed and were not disconnected
    refused             \* history: enable_xswd was refused since the server started

serverVars == <<api_server, xswd_channel, channels, askers, online, broadcaster, listeners, refused>>
eventServerVars == <<online, broadcaster, listeners>>

EnableRpc ==
    /\ api_server = "none" /\ api_server' = "rpc"
    /\ UNCHANGED <<xswd_channel, channels, askers, eventServerVars, refused>>

(* start_xswd: the task that asks is spawned for the receiver of a server that started;
   the task of a sender that was replaced ends.                                             *)
AskersWith(new) == askers' = (askers \ {xswd_channel}) \cup new

(* The channel is replaced first; then the server is refused when one is running, or fails
   to start, or starts.                                                                     *)
EnableXswd ==
    /\ channels < MaxChannels
    /\ channels' = channels + 1 /\ xswd_channel' = channels + 1
    /\ \/ /\ api_server # "none" /\ refused' = (refused \/ api_server = "xswd")
          /\ AskersWith({}) /\ UNCHANGED api_server
       \/ /\ api_server = "none"
          /\ AskersWith({}) /\ UNCHANGED <<api_server, refused>>
       \/ /\ api_server = "none" /\ api_server' = "xswd" /\ refused' = FALSE
          /\ AskersWith({channels + 1})
    /\ UNCHANGED eventServerVars

StopApiServer ==
    /\ api_server # "none" /\ api_server' = "none"
    /\ UNCHANGED <<xswd_channel, channels, askers, eventServerVars, refused>>

SetOnline(on) ==
    /\ online # on /\ online' = on
    /\ UNCHANGED <<api_server, xswd_channel, channels, askers, broadcaster, listeners, refused>>

SubscribeEvents(l) ==
    /\ l \notin listeners /\ listeners' = listeners \cup {l} /\ broadcaster' = TRUE
    /\ UNCHANGED <<api_server, xswd_channel, channels, askers, online, refused>>

ListenerLeaves(l) ==
    /\ l \in listeners /\ listeners' = listeners \ {l}
    /\ UNCHANGED <<api_server, xswd_channel, channels, askers, online, broadcaster, refused>>

(* propagate_event: sending fails when nobody listens, and the sender is dropped.           *)
PropagateEvent ==
    /\ broadcaster /\ broadcaster' = (listeners # {})
    /\ UNCHANGED <<api_server, xswd_channel, channels, askers, online, listeners, refused>>

Shutdown ==
    /\ api_server' = "none" /\ xswd_channel' = 0 /\ askers' = askers \ {xswd_channel}
    /\ online' = FALSE /\ broadcaster' = FALSE /\ listeners' = {}
    /\ UNCHANGED <<channels, refused>>

InitServers ==
    /\ api_server = "none" /\ xswd_channel = 0 /\ channels = 0 /\ askers = {}
    /\ online = FALSE /\ broadcaster = FALSE /\ listeners = {} /\ refused = FALSE

NextServers ==
    \/ EnableRpc \/ EnableXswd \/ StopApiServer \/ PropagateEvent \/ Shutdown
    \/ \E on \in BOOLEAN : SetOnline(on)
    \/ \E l \in Listener : SubscribeEvents(l) \/ ListenerLeaves(l)

(* One task at most asks the user, the one at the other end of the wallet's channel; while
   the XSWD server runs there is one, and none any more once enabling it a second time was
   refused. A listener is never cut off but by the closing of the wallet.                   *)
RequestsReachUser ==
    /\ askers \subseteq {xswd_channel}
    /\ api_server = "xswd" => askers = IF refused THEN {} ELSE {xswd_channel}
    /\ listeners # {} => broadcaster
================================================================================
