-------------------------------- MODULE Formats --------------------------------
(* The serializer of xelis_common, and the layouts of what the nodes of the network and
   the wallet write and read: the packets of the p2p protocol, blocks and transactions,
   the values of the storage and of the wallet, the work of a miner.

   A type is a format, a record built by the constructors below, which carry what the
   implementations of the trait Serializer differ in: the order of the fields, the width
   of a count, the limits a reader enforces. Bytes are chunks, each as wide as one call
   of the writer: a chunk [w, v] stands for w bytes that hold v.                      *)
EXTENDS Integers, Sequences, SequencesExt, FiniteSets, TLC

CONSTANTS
    Byte,        \* values of a u8 (256)
    VarSize,     \* MAX_VARUINT_SIZE (32)
    MAX_ITEMS,   \* most elements the reader of a collection takes (1024)
    TIPS_LIMIT,                       \* 3
    MAX_TRANSFER_COUNT,               \* 255
    CHAIN_SYNC_REQUEST_MAX_BLOCKS,    \* 64
    CHAIN_SYNC_RESPONSE_MIN_BLOCKS,   \* 512
    CHAIN_SYNC_RESPONSE_MAX_BLOCKS,   \* u16::MAX
    CHAIN_SYNC_TOP_BLOCKS,            \* 10
    P2P_PING_PEER_LIST_LIMIT,         \* 16
    NOTIFY_MAX_LEN,                   \* 16384
    HANDSHAKE_MAX_LEN,                \* 16
    EXTRA_DATA_LIMIT_SIZE             \* 1024

ASSUME ByteAssumption == Byte > 1 /\ MAX_ITEMS < Byte * Byte /\ VarSize < Byte

(* The limits fit the counts that carry them *)
ASSUME LimitsAssumption ==
    /\ {TIPS_LIMIT, MAX_TRANSFER_COUNT, CHAIN_SYNC_REQUEST_MAX_BLOCKS, P2P_PING_PEER_LIST_LIMIT,
        CHAIN_SYNC_TOP_BLOCKS * TIPS_LIMIT, HANDSHAKE_MAX_LEN} \subseteq 1..(Byte - 1)
    /\ {NOTIFY_MAX_LEN, CHAIN_SYNC_RESPONSE_MAX_BLOCKS} \subseteq 1..(Byte * Byte - 1)
--------------------------------------------------------------------------------
(* Formats. A value of Opt, OptText or OptByte is the sequence of at most one
   element; a value of Text is a record of its length and of what it says.           *)

Fixed(width) == [k |-> "fixed", w |-> width]
Flag == [k |-> "flag"]
Text(width, lengths) == [k |-> "text", w |-> width, lens |-> lengths]
OptText(lengths) == [k |-> "opttext", lens |-> lengths]
OptByte == [k |-> "optbyte"]
VarUint == [k |-> "varuint"]
Opt(of) == [k |-> "opt", of |-> of]
Where(of, set) == [k |-> "where", of |-> of, set |-> set]

(* A count of `width` bytes, then the elements. `key` is what may not occur twice:
   "any" allows everything, "all" compares elements, a name compares that field.
   `sums` says if size() adds the elements up or multiplies the first.               *)
Many(width, least, most, key, sums, of) ==
    [k |-> "many", w |-> width, least |-> least, most |-> most, key |-> key,
     sums |-> sums, of |-> of]

(* The collections of serializer/defaults.rs *)
Vec(of) == Many(2, 0, MAX_ITEMS, "any", FALSE, of)
IndexSet(key, of) == Many(2, 0, MAX_ITEMS, key, FALSE, of)

(* As many elements as the field `field` read before announced *)
Follow(field, of) == [k |-> "follow", field |-> field, of |-> of]

(* All that is left, in elements of one width: a HashSet<Hash> *)
Whole(width) == [k |-> "whole", w |-> width]

(* A struct: the fields in the order write(), read() and size() visit them *)
Struct(writes, reads, sizes) == [k |-> "struct", write |-> writes, read |-> reads, size |-> sizes]
Plain(fields) == Struct(fields, fields, fields)

(* An enum: name, tag and format of every variant; a value is [is, of] *)
Enum(variants) == [k |-> "enum", variants |-> variants]

(* The optional end of a VersionedBalance and of a VersionedNonce, which carries no
   flag: the reader looks at what is left                                            *)
Tail8(of) == [k |-> "tail", of |-> of]
TailBalance(topo, balance) == [k |-> "tailbalance", topo |-> topo, balance |-> balance]

Unit == Fixed(0)
U8 == Fixed(1)
U16 == Fixed(2)
U32 == Fixed(4)
U64 == Fixed(8)
U128 == Fixed(16)
Hash == Fixed(32)
String == Text(1, Nat)
Bytes == Text(2, 0..MAX_ITEMS)
--------------------------------------------------------------------------------
(* Chunks *)

Chunk(width, value) == IF width = 0 THEN <<>> ELSE <<[w |-> width, v |-> value]>>
Width(b) == FoldLeft(LAMBDA n, c : n + c.w, 0, b)

Fail == [ok |-> FALSE]
Got(value, rest) == [ok |-> TRUE, v |-> value, rest |-> rest]

(* Reader::read_bytes: fewer bytes left than asked for is an error. A read that does
   not start and end where a write did returns bytes of several values; the model
   gives up on it.                                                                   *)
Take(width, b) ==
    IF width = 0 THEN Got(0, b)
    ELSE IF b = <<>> \/ Head(b).w # width THEN Fail
    ELSE Got(Head(b).v, Tail(b))

(* VarUint: a big endian number without the zero bytes at its END *)
Significant(n) ==
    CHOOSE len \in 0..VarSize : /\ n % (Byte^(VarSize - len)) = 0
                                /\ \A l \in 0..(len - 1) : n % (Byte^(VarSize - l)) # 0
--------------------------------------------------------------------------------
RECURSIVE Write(_, _)


(* Writer::write_string: the length is cut to its width, the text is not *)
WriteText(width, v) == Chunk(width, v.len % Byte^width) \o Chunk(v.len, v.is)

(* Serializer::write *)
Write(f, v) ==
    LET each(of, vs) == FlattenSeq([i \in DOMAIN vs |-> Write(of, vs[i])])
    IN CASE f.k = "fixed"    -> Chunk(f.w, v)
         [] f.k = "flag"     -> Chunk(1, IF v THEN 1 ELSE 0)
         [] f.k = "text"     -> WriteText(f.w, v)
         [] f.k = "opttext"  -> IF v = <<>> THEN Chunk(1, 0) ELSE WriteText(1, v[1])
         [] f.k = "optbyte"  -> Chunk(1, IF v = <<>> THEN 0 ELSE v[1])
         [] f.k = "varuint"  -> Chunk(1, Significant(v))
                                \o Chunk(Significant(v), v \div Byte^(VarSize - Significant(v)))
         [] f.k = "opt"      -> Chunk(1, IF v = <<>> THEN 0 ELSE 1) \o each(f.of, v)
         [] f.k = "where"    -> Write(f.of, v)
         [] f.k = "many"     -> Chunk(f.w, Len(v) % Byte^f.w) \o each(f.of, v)
         [] f.k = "follow"   -> each(f.of, v)
         [] f.k = "whole"    -> each(Fixed(f.w), v)
         [] f.k = "struct"   -> FlattenSeq([i \in DOMAIN f.write |->
                                                Write(f.write[i][2], v[f.write[i][1]])])
         [] f.k = "enum"     -> LET x == SelectInSeq(f.variants, LAMBDA t : t[1] = v.is)
                                IN Chunk(1, f.variants[x][2]) \o Write(f.variants[x][3], v.of)
         [] f.k = "tail"     -> each(f.of, v)
         [] f.k = "tailbalance" -> each(f.topo, v.previous) \o each(f.balance, v.output)
--------------------------------------------------------------------------------
RECURSIVE Read(_, _, _), ReadFields(_, _, _), ReadMany(_, _, _, _)

ReadText(width, lens, b) ==
    LET n == Take(width, b)
        t == Take(n.v, n.rest)
    IN IF ~n.ok THEN Fail
       ELSE IF n.v \notin lens \/ ~t.ok THEN Fail
       ELSE Got([len |-> n.v, is |-> t.v], t.rest)

ReadFlag(b) ==
    LET x == Take(1, b) IN IF x.ok /\ x.v \in {0, 1} THEN Got(x.v = 1, x.rest) ELSE Fail

ReadVarUint(b) ==
    LET n == Take(1, b)
        d == Take(n.v, n.rest)
    IN IF ~n.ok THEN Fail
       ELSE IF n.v > VarSize \/ ~d.ok THEN Fail
       ELSE Got(d.v * Byte^(VarSize - n.v), d.rest)

ReadFields(fields, b, seen) ==
    IF fields = <<>> THEN Got(seen, b)
    ELSE LET x == Read(Head(fields)[2], b, seen)
         IN IF x.ok THEN ReadFields(Tail(fields), x.rest, seen @@ (Head(fields)[1] :> x.v)) ELSE Fail

Repeats(key, seen, v) ==
    CASE key = "any" -> FALSE
      [] key = "all" -> \E i \in DOMAIN seen : seen[i] = v
      [] OTHER       -> \E i \in DOMAIN seen : seen[i][key] = v[key]

(* The loop of a reader over the elements of a collection *)
ReadMany(key, of, n, r) ==
    IF n = 0 \/ ~r.ok THEN r
    ELSE LET x == Read(of, r.rest, <<>>)
         IN IF ~x.ok THEN Fail
            ELSE IF Repeats(key, r.v, x.v) THEN Fail
            ELSE ReadMany(key, of, n - 1, Got(Append(r.v, x.v), x.rest))

(* Serializer::read of the format f from the bytes b; `seen` holds the fields of the
   enclosing struct read so far                                                      *)
Read(f, b, seen) ==
    LET some(of, rest) == LET x == Read(of, rest, <<>>) IN IF x.ok THEN Got(<<x.v>>, x.rest) ELSE Fail
    IN CASE f.k = "fixed"    -> Take(f.w, b)
         [] f.k = "flag"     -> ReadFlag(b)
         [] f.k = "text"     -> ReadText(f.w, f.lens, b)
         [] f.k = "opttext"  -> LET n == Take(1, b)
                                    t == ReadText(1, f.lens, b)
                                IN IF ~n.ok THEN Fail
                                   ELSE IF n.v = 0 THEN Got(<<>>, n.rest)
                                   ELSE IF t.ok THEN Got(<<t.v>>, t.rest) ELSE Fail
         [] f.k = "optbyte"  -> LET n == Take(1, b)
                                IN IF ~n.ok THEN Fail ELSE Got(IF n.v = 0 THEN <<>> ELSE <<n.v>>, n.rest)
         [] f.k = "varuint"  -> ReadVarUint(b)
         [] f.k = "opt"      -> LET x == ReadFlag(b)
                                IN IF ~x.ok THEN Fail
                                   ELSE IF x.v THEN some(f.of, x.rest) ELSE Got(<<>>, x.rest)
         [] f.k = "where"    -> LET x == Read(f.of, b, seen)
                                IN IF ~x.ok THEN Fail ELSE IF x.v \in f.set THEN x ELSE Fail
         [] f.k = "many"     -> LET n == Take(f.w, b)
                                IN IF ~n.ok THEN Fail
                                   ELSE IF n.v \in f.least..f.most
                                        THEN ReadMany(f.key, f.of, n.v, Got(<<>>, n.rest)) ELSE Fail
         [] f.k = "follow"   -> ReadMany("any", f.of, Len(seen[f.field[1]][f.field[2]]), Got(<<>>, b))
         [] f.k = "whole"    -> IF Width(b) % f.w # 0 THEN Fail
                                ELSE ReadMany("all", Fixed(f.w), Width(b) \div f.w, Got(<<>>, b))
         [] f.k = "struct"   -> ReadFields(f.read, b, <<>>)
         [] f.k = "enum"     -> LET n == Take(1, b)
                                    x == SelectInSeq(f.variants, LAMBDA t : t[2] = n.v)
                                    v == Read(f.variants[x][3], n.rest, <<>>)
                                IN IF ~n.ok THEN Fail
                                   ELSE IF x = 0 THEN Fail
                                   ELSE IF v.ok THEN Got([is |-> f.variants[x][1], of |-> v.v], v.rest) ELSE Fail
         [] f.k = "tail"     -> IF b = <<>> THEN Got(<<>>, b) ELSE some(f.of, b)
         [] f.k = "tailbalance" ->
                LET both == seen.balance_type.is = "Both"
                    topo == IF Width(b) = 8 \/ (both /\ Width(b) = 72) THEN some(f.topo, b) ELSE Got(<<>>, b)
                    out  == IF both THEN some(f.balance, topo.rest) ELSE Got(<<>>, topo.rest)
                IN IF b = <<>> THEN Got([previous |-> <<>>, output |-> <<>>], b)
                   ELSE IF ~topo.ok THEN Fail
                   ELSE IF ~out.ok THEN Fail
                   ELSE Got([previous |-> topo.v, output |-> out.v], out.rest)
--------------------------------------------------------------------------------
RECURSIVE SizeOf(_, _)

(* Serializer::size: what a value claims without being written *)
SizeOf(f, v) ==
    LET sum(of, vs) == FoldLeft(LAMBDA n, x : n + SizeOf(of, x), 0, vs)
    IN CASE f.k \in {"text", "opttext", "optbyte", "varuint", "tail", "tailbalance"} -> Width(Write(f, v))
         [] f.k = "fixed"    -> f.w
         [] f.k = "flag"     -> 1
         [] f.k = "opt"      -> 1 + sum(f.of, v)
         [] f.k = "where"    -> SizeOf(f.of, v)
         [] f.k = "many"     -> f.w + (IF f.sums THEN sum(f.of, v)
                                       ELSE IF v = <<>> THEN 0 ELSE Len(v) * SizeOf(f.of, v[1]))
         [] f.k = "follow"   -> sum(f.of, v)
         [] f.k = "whole"    -> f.w * Len(v)
         [] f.k = "struct"   -> FoldLeft(LAMBDA n, x : n + SizeOf(x[2], v[x[1]]), 0, f.size)
         [] f.k = "enum"     -> LET x == SelectInSeq(f.variants, LAMBDA t : t[1] = v.is)
                                IN 1 + SizeOf(f.variants[x][3], v.of)
--------------------------------------------------------------------------------
(* Keys and proofs *)

Point == Fixed(32)
Scalar == Fixed(32)
CompressedCiphertext == Plain(<< <<"commitment", Point>>, <<"handle", Point>> >>)
CiphertextCache == CompressedCiphertext
Signature == Plain(<< <<"s", Scalar>>, <<"e", Scalar>> >>)

CommitmentEqProof ==
    Plain(<< <<"Y_0", Point>>, <<"Y_1", Point>>, <<"Y_2", Point>>,
             <<"z_s", Scalar>>, <<"z_x", Scalar>>, <<"z_r", Scalar>> >>)

CiphertextValidityProof ==
    Plain(<< <<"Y_0", Point>>, <<"Y_1", Point>>, <<"z_r", Scalar>>, <<"z_x", Scalar>> >>)

(* Nine elements of 32 bytes and the points of the inner product, at most two for every
   value of a power of two of them                                                   *)
next_power_of_two(n) == CHOOSE p \in {2^k : k \in 0..16} : n <= p /\ p < 2 * n
RangeProof ==
    Text(2, {n \in 9 * 32 .. 9 * 32 + 32 * next_power_of_two(2 * MAX_TRANSFER_COUNT) : n % 32 = 0})
--------------------------------------------------------------------------------
(* Transactions *)

Reference == Plain(<< <<"hash", Hash>>, <<"topoheight", U64>> >>)
UnknownExtraDataFormat == Bytes
SourceCommitment ==
    Plain(<< <<"commitment", Point>>, <<"proof", CommitmentEqProof>>, <<"asset", Hash>> >>)

TransferPayload ==
    Plain(<< <<"asset", Hash>>, <<"destination", Point>>, <<"extra_data", Opt(UnknownExtraDataFormat)>>,
             <<"commitment", Point>>, <<"sender_handle", Point>>, <<"receiver_handle", Point>>,
             <<"ct_validity_proof", CiphertextValidityProof>> >>)

BurnPayload == Plain(<< <<"asset", Hash>>, <<"amount", U64>> >>)

TransactionType ==
    Enum(<< <<"Burn", 0, BurnPayload>>,
            <<"Transfers", 1, Many(1, 1, MAX_TRANSFER_COUNT, "any", TRUE, TransferPayload)>> >>)

SourceCommitments == Many(1, 1, MAX_TRANSFER_COUNT, "any", TRUE, SourceCommitment)

(* TransactionSigner::write, the bytes the sender signs *)
TransactionSigner ==
    << <<"version", U8>>, <<"source", Point>>, <<"data", TransactionType>>, <<"fee", U64>>, <<"nonce", U64>>,
       <<"source_commitments", SourceCommitments>>, <<"range_proof", RangeProof>>, <<"reference", Reference>> >>

Transaction ==
    Plain(<< <<"version", Where(U8, {0})>>, <<"source", Point>>, <<"data", TransactionType>>,
                     <<"fee", U64>>, <<"nonce", U64>>, <<"source_commitments", SourceCommitments>>,
                     <<"range_proof", RangeProof>>, <<"reference", Reference>>, <<"signature", Signature>> >>)
--------------------------------------------------------------------------------
(* Blocks *)

BlockHeaderFields ==
    << <<"version", Where(U8, {0})>>, <<"height", U64>>, <<"timestamp", U64>>, <<"nonce", U64>>,
       <<"extra_nonce", Fixed(32)>>, <<"tips", Many(1, 0, TIPS_LIMIT, "all", TRUE, Hash)>>,
       <<"txs_hashes", Many(2, 0, Byte * Byte - 1, "all", TRUE, Hash)>>, <<"miner", Point>> >>

BlockHeaderSizes ==
    << <<"extra_nonce", Fixed(32)>>, <<"tips", Many(1, 0, TIPS_LIMIT, "all", TRUE, Hash)>>,
       <<"txs_hashes", Many(2, 0, Byte * Byte - 1, "all", TRUE, Hash)>>, <<"version", U8>>,
       <<"miner", Point>>, <<"timestamp", U64>>, <<"height", U64>>, <<"nonce", U64>> >>

BlockHeader == Struct(BlockHeaderFields, BlockHeaderFields, BlockHeaderSizes)

(* As many transactions as the header names *)
FullBlock ==
    Plain(<< <<"header", BlockHeader>>, <<"transactions", Follow(<<"header", "txs_hashes">>, Transaction)>> >>)

(* A whole message of BLOCK_WORK_SIZE bytes; the daemon and the miner always set the key *)
MinerWork ==
    Plain(<< <<"header_work_hash", Hash>>, <<"timestamp", U64>>, <<"nonce", U64>>,
             <<"extra_nonce", Fixed(32)>>, <<"miner", Point>> >>)
--------------------------------------------------------------------------------
(* Values of the storage *)

BalanceType == Enum(<< <<"Input", 0, Unit>>, <<"Output", 1, Unit>>, <<"Both", 2, Unit>> >>)
VersionedBalance ==
    Plain(<< <<"final_balance", CiphertextCache>>, <<"balance_type", BalanceType>>,
             <<"rest", TailBalance(U64, CiphertextCache)>> >>)
VersionedNonce == Plain(<< <<"nonce", U64>>, <<"previous_topoheight", Tail8(U64)>> >>)
AssetData == Plain(<< <<"topoheight", U64>>, <<"decimals", U8>> >>)
AssetWithData == Plain(<< <<"asset", Hash>>, <<"data", AssetData>> >>)
HashSet == Whole(32)
OrderedHashes == Whole(32)
--------------------------------------------------------------------------------
(* Data of the user: what an integrated address or a transfer carries *)

ValueTypes ==
    << <<"Bool", 0, Flag>>, <<"String", 1, String>>, <<"U8", 2, U8>>, <<"U16", 3, U16>>,
       <<"U32", 4, U32>>, <<"U64", 5, U64>>, <<"U128", 6, U128>>, <<"Hash", 7, Hash>> >>

DataValue == Enum(ValueTypes)

RECURSIVE DataElement(_)
(* A DataElement of at most `depth` levels *)
DataElement(depth) ==
    LET value == << <<"Value", 0, DataValue>> >>
        inner == DataElement(depth - 1)
    IN IF depth = 0 THEN Enum(value)
       ELSE Enum(value \o
                 << <<"Array", 1, Many(1, 0, Byte - 1, "any", TRUE, inner)>>,
                    <<"Fields", 2, Many(1, 0, Byte - 1, "any", TRUE,
                                        Plain(<< <<"key", DataValue>>, <<"value", inner>> >>))>> >>)

AddressType == Enum(<< <<"Normal", 0, Unit>>, <<"Data", 1, DataElement(1)>> >>)
CompressedAddress == Plain(<< <<"key", Point>>, <<"addr_type", AddressType>> >>)

ExtraData == Plain(<< <<"sender_handle", Point>>, <<"receiver_handle", Point>>, <<"cipher", Bytes>> >>)
--------------------------------------------------------------------------------
(* Values of the wallet *)

Balance == Plain(<< <<"amount", U64>>, <<"ciphertext", CiphertextCache>> >>)
TransferOut ==
    Plain(<< <<"destination", Point>>, <<"asset", Hash>>, <<"amount", U64>>,
             <<"extra_data", Opt(DataElement(1))>> >>)
TransferIn == Plain(<< <<"asset", Hash>>, <<"amount", U64>>, <<"extra_data", Opt(DataElement(1))>> >>)

EntryData ==
    LET listOf(transfer) == Many(2, 0, Byte * Byte - 1, "any", TRUE, transfer)
    IN Enum(<< <<"Coinbase", 0, Plain(<< <<"reward", U64>> >>)>>,
               <<"Burn", 1, Plain(<< <<"asset", Hash>>, <<"amount", U64>> >>)>>,
               <<"Incoming", 2, Plain(<< <<"from", Point>>, <<"transfers", listOf(TransferIn)>> >>)>>,
               <<"Outgoing", 3, Plain(<< <<"transfers", listOf(TransferOut)>>, <<"fee", U64>>, <<"nonce", U64>> >>)>> >>)

TransactionEntry == Plain(<< <<"hash", Hash>>, <<"topoheight", U64>>, <<"entry", EntryData>> >>)

Permission == Enum(<< <<"Ask", 0, Unit>>, <<"AcceptAlways", 1, Unit>>, <<"DenyAlways", 2, Unit>> >>)
ApplicationData ==
    Plain(<< <<"id", String>>, <<"name", String>>, <<"description", String>>, <<"url", OptText(Nat)>>,
             <<"permissions", Many(1, 0, Byte - 1, "any", TRUE,
                                   Plain(<< <<"method", String>>, <<"permission", Permission>> >>))>> >>)
--------------------------------------------------------------------------------
(* Packets *)

Network == Enum(<< <<"Mainnet", 0, Unit>>, <<"Testnet", 1, Unit>>, <<"Dev", 2, Unit>> >>)
SocketAddr ==
    Enum(<< <<"V4", 0, Plain(<< <<"ip", Fixed(4)>>, <<"port", U16>> >>)>>,
            <<"V6", 1, Plain(<< <<"ip", Fixed(16)>>, <<"port", U16>> >>)>> >>)

NonZero(of) == Where(of, Nat \ {0})

Handshake ==
    Plain(<< <<"version", Text(1, 1..HANDSHAKE_MAX_LEN)>>, <<"network", Network>>,
             <<"node_tag", OptText(0..HANDSHAKE_MAX_LEN)>>, <<"network_id", Fixed(16)>>, <<"peer_id", U64>>,
             <<"local_port", U16>>, <<"utc_time", U64>>, <<"topoheight", U64>>, <<"height", U64>>,
             <<"pruned_topoheight", Opt(NonZero(U64))>>, <<"top_hash", Hash>>, <<"genesis_hash", Hash>>,
             <<"cumulative_difficulty", VarUint>>, <<"can_be_shared", Flag>> >>)

Ping ==
    Plain(<< <<"top_hash", Hash>>, <<"topoheight", U64>>, <<"height", U64>>,
             <<"pruned_topoheight", Opt(NonZero(U64))>>, <<"cumulative_difficulty", VarUint>>,
             <<"peer_list", Many(1, 0, P2P_PING_PEER_LIST_LIMIT, "all", TRUE, SocketAddr)>> >>)

ObjectRequest == Enum(<< <<"Block", 0, Hash>>, <<"BlockHeader", 1, Hash>>, <<"Transaction", 2, Hash>> >>)
ObjectResponse ==
    Enum(<< <<"Block", 0, FullBlock>>, <<"BlockHeader", 1, BlockHeader>>, <<"Transaction", 2, Transaction>>,
            <<"NotFound", 3, ObjectRequest>> >>)

BlockId == Plain(<< <<"hash", Hash>>, <<"topoheight", U64>> >>)
BlockIds == Many(1, 1, CHAIN_SYNC_REQUEST_MAX_BLOCKS, "hash", TRUE, BlockId)
ChainRequest ==
    Plain(<< <<"blocks", BlockIds>>,
             <<"accepted_response_size",
               Where(U16, CHAIN_SYNC_RESPONSE_MIN_BLOCKS..CHAIN_SYNC_RESPONSE_MAX_BLOCKS)>> >>)

CommonPoint == Plain(<< <<"hash", Hash>>, <<"topoheight", U64>> >>)

(* Nothing follows the flag of a response without a common point *)
ChainResponse ==
    Opt(Where(Plain(<< <<"common_point", CommonPoint>>, <<"lowest_height", U64>>,
                       <<"blocks", Many(2, 0, CHAIN_SYNC_RESPONSE_MAX_BLOCKS, "all", TRUE, Hash)>>,
                       <<"top_blocks", Many(1, 0, CHAIN_SYNC_TOP_BLOCKS * TIPS_LIMIT, "all", TRUE, Hash)>> >>),
              {r \in [common_point : [hash : Nat, topoheight : Nat], lowest_height : Nat,
                      blocks : Seq(Nat), top_blocks : Seq(Nat)] :
                  ToSet(r.blocks) \cap ToSet(r.top_blocks) = {}}))

NotifyInventoryRequest == Plain(<< <<"page", OptByte>> >>)
NotifyInventoryResponse ==
    Plain(<< <<"next", OptByte>>, <<"txs", Many(2, 0, NOTIFY_MAX_LEN, "all", TRUE, Hash)>> >>)
PacketPeerDisconnected == Plain(<< <<"addr", SocketAddr>> >>)

BlockMetadata ==
    Plain(<< <<"hash", Hash>>, <<"supply", U64>>, <<"reward", U64>>, <<"difficulty", VarUint>>,
             <<"cumulative_difficulty", VarUint>>, <<"p", VarUint>> >>)

Page == Opt(NonZero(U64))
TopoRange == Where(Plain(<< <<"min", U64>>, <<"max", U64>> >>), {r \in [min : Nat, max : Nat] : r.min <= r.max})
PublicKeys == IndexSet("all", Point)

StepRequest ==
    Enum(<< <<"ChainInfo", 0, BlockIds>>,
            <<"Assets", 1, Plain(<< <<"range", TopoRange>>, <<"page", Page>> >>)>>,
            <<"Keys", 2, Plain(<< <<"range", TopoRange>>, <<"page", Page>> >>)>>,
            <<"Balances", 3, Plain(<< <<"topoheight", U64>>, <<"asset", Hash>>, <<"keys", PublicKeys>> >>)>>,
            <<"Nonces", 4, Plain(<< <<"topoheight", U64>>, <<"keys", PublicKeys>> >>)>>,
            <<"BlocksMetadata", 5, U64>> >>)

StepResponse ==
    Enum(<< <<"ChainInfo", 0, Plain(<< <<"common_point", Opt(CommonPoint)>>, <<"topoheight", U64>>,
                                       <<"stable_height", U64>>, <<"hash", Hash>> >>)>>,
            <<"Assets", 1, Plain(<< <<"assets", IndexSet("asset", AssetWithData)>>, <<"page", Page>> >>)>>,
            <<"Keys", 2, Plain(<< <<"keys", PublicKeys>>, <<"page", Page>> >>)>>,
            <<"Balances", 3, Vec(Opt(Plain(<< <<"balance", CiphertextCache>>, <<"output", Opt(CiphertextCache)>>,
                                              <<"type", BalanceType>> >>)))>>,
            <<"Nonces", 4, Vec(U64)>>,
            <<"BlocksMetadata", 5, IndexSet("hash", BlockMetadata)>> >>)

(* A packet that carries a ping *)
PacketWrapper(of) == Plain(<< <<"packet", of>>, <<"ping", Ping>> >>)

Packet ==
    Enum(<< <<"KeyExchange", 0, Fixed(32)>>,
            <<"Handshake", 1, Handshake>>,
            <<"TransactionPropagation", 2, PacketWrapper(Hash)>>,
            <<"BlockPropagation", 3, PacketWrapper(BlockHeader)>>,
            <<"ChainRequest", 4, PacketWrapper(ChainRequest)>>,
            <<"ChainResponse", 5, ChainResponse>>,
            <<"Ping", 6, Ping>>,
            <<"ObjectRequest", 7, ObjectRequest>>,
            <<"ObjectResponse", 8, ObjectResponse>>,
            <<"NotifyInventoryRequest", 9, PacketWrapper(NotifyInventoryRequest)>>,
            <<"NotifyInventoryResponse", 10, NotifyInventoryResponse>>,
            <<"BootstrapChainRequest", 11, StepRequest>>,
            <<"BootstrapChainResponse", 12, StepResponse>>,
            <<"PeerDisconnected", 13, PacketPeerDisconnected>> >>)
--------------------------------------------------------------------------------
(* One message on its way: a node or the wallet writes a value of one of the formats,
   the bytes arrive whole, cut or with something behind them, and the reader of that
   format takes them. A damaged packet cannot come from the encrypted channel, but the
   lengths in it were written by the peer; blocks and transactions also come as hex
   from the RPC. An address is written as text instead: the end of this module.      *)
CONSTANT Values(_)     \* the values of a format that are written

VARIABLES
    kind,        \* name of the format of the message
    sent,        \* the value written
    wire,        \* the bytes as they arrive
    damaged,     \* whether the bytes are other than the ones written
    got          \* what the reader returned

messageVars == <<kind, sent, wire, damaged, got>>

(* The formats of whole messages, with what reads them *)
FormatOf ==
    [Packet |-> Packet, Transaction |-> Transaction, BlockHeader |-> BlockHeader, Block |-> FullBlock,
     MinerWork |-> MinerWork, VersionedBalance |-> VersionedBalance, VersionedNonce |-> VersionedNonce,
     AssetData |-> AssetData, HashSet |-> HashSet, OrderedHashes |-> OrderedHashes,
     CompressedAddress |-> CompressedAddress, ExtraData |-> ExtraData, DataElement |-> DataElement(2),
     Balance |-> Balance, TransactionEntry |-> TransactionEntry, ApplicationData |-> ApplicationData]

(* The formats whose size() is used: limits of blocks, transactions and data *)
Sized == {"Transaction", "BlockHeader", "Block", "CompressedAddress", "ExtraData", "DataElement"}

(* Formats without an end of their own: what is missing at their end is absent *)
OpenEnded == {"VersionedBalance", "VersionedNonce", "HashSet", "OrderedHashes"}

InitMessages ==
    /\ kind = "none" /\ sent = 0 /\ wire = <<>> /\ damaged = FALSE /\ got = Fail

(* Serializer::to_bytes *)
Emit ==
    /\ kind = "none"
    /\ \E k \in DOMAIN FormatOf :
        \E v \in Values(FormatOf[k]) :
            /\ kind' = k /\ sent' = v
            /\ wire' = Write(FormatOf[k], v)
    /\ UNCHANGED <<damaged, got>>

(* A transfer of each of MAX_TRANSFER_COUNT assets that are not the native one, whose fee
   needs a commitment as well: one commitment more than the count of one byte can say.  *)
Overcommitted == kind = "Transaction" /\ Len(sent.source_commitments) > MAX_TRANSFER_COUNT

(* The end of the bytes is missing, within a value or between two *)
Cut ==
    /\ wire # <<>> /\ ~damaged /\ got = Fail
    /\ kind \notin OpenEnded /\ ~Overcommitted      \* which is refused as it is
    /\ \E n \in 1..Len(wire), whole \in BOOLEAN :
        wire' = SubSeq(wire, 1, n - 1)
                \o (IF whole THEN <<>> ELSE Chunk(wire[n].w - 1, "cut"))
    /\ damaged' = TRUE
    /\ UNCHANGED <<kind, sent, got>>

(* A packet with bytes behind it *)
Extend ==
    /\ kind = "Packet" /\ ~damaged /\ got = Fail
    /\ wire' = Append(wire, [w |-> 1, v |-> 0])
    /\ damaged' = TRUE
    /\ UNCHANGED <<kind, sent, got>>

(* Connection::read_packet_from_bytes refuses a packet that leaves bytes unread;
   Serializer::from_bytes does not look; the work of a miner has one size            *)
Received(k, b) ==
    LET r == Read(FormatOf[k], b, <<>>)
    IN IF ~r.ok THEN Fail
       ELSE IF k \in {"Packet", "MinerWork"} /\ r.rest # <<>> THEN Fail
       ELSE r

Accept ==
    /\ kind # "none" /\ got = Fail
    /\ got' = Received(kind, wire)
    /\ got'.ok
    /\ UNCHANGED <<kind, sent, wire, damaged>>

(* The reader fails: the peer is disconnected, the call is refused *)
Refuse ==
    /\ kind # "none" /\ got = Fail
    /\ ~Received(kind, wire).ok
    /\ got' = [ok |-> FALSE, refused |-> TRUE]
    /\ UNCHANGED <<kind, sent, wire, damaged>>

NextMessages == Emit \/ Cut \/ Extend \/ Accept \/ Refuse
--------------------------------------------------------------------------------
(* What one node writes another reads back: no layout is read in another order than it
   was written, and no reader refuses what a writer can produce at the limits of the
   protocol, a transaction with a commitment too many excepted, which is refused and
   never taken for another (Transaction::write, Transaction::read).                  *)
ReadBack ==
    got # Fail /\ ~damaged => IF Overcommitted THEN ~got.ok ELSE got.ok /\ got.v = sent

(* Bytes that are cut anywhere, or packets with bytes behind them, are refused and
   never taken for another value: the reader checks what is left before every read
   and the connection that everything was read.                                      *)
DamageRefused ==
    got # Fail /\ damaged => ~got.ok

(* The size by which blocks, transactions and data are limited and priced is the
   number of bytes written, computed without writing.                                *)
SizesAgree ==
    got # Fail /\ ~damaged /\ kind \in Sized => SizeOf(FormatOf[kind], sent) = Width(wire)

(* The sender signs the bytes that the verifier checks: a transaction without its
   last SIGNATURE_SIZE bytes.                                                        *)
SignedIsVerified ==
    got # Fail /\ ~damaged /\ kind = "Transaction" =>
        Write(Plain(TransactionSigner), sent) = SubSeq(wire, 1, Len(wire) - 2)
--------------------------------------------------------------------------------
(* An address as text: the bytes of the key and of the integrated data, in groups of five
   bits, between the prefix of the network and a checksum. The checksum of bech32 is a
   code that tells any two texts apart that differ in few symbols: it stands for what it
   was computed from. The integrated data is a row of bytes with its length in front. *)

CONSTANTS
    KeySize,      \* bytes of a public key
    MaxData,      \* EXTRA_DATA_LIMIT_SIZE
    Addresses     \* the addresses that are written

VARIABLES
    address,      \* the address
    text,         \* its text, as it arrives
    arrived,      \* "intact", or "damaged" on its way
    parsed        \* not read yet, or what it was read as

addressVars == <<address, text, arrived, parsed>>

Prefix == [mainnet |-> "xel", testnet |-> "xet"]
Refused == <<>>               \* what is read is <<value>> otherwise

create_checksum(hrp, data) == <<hrp, data>>
verify_checksum(t) == t.sum = create_checksum(t.hrp, t.data)

(* From groups of `from` bits to groups of `to`; the accumulator has 16 bits *)
convert_bits(data, from, to, pad) ==
    LET step(s, value) ==
            LET acc == (s.acc * 2^from + value) % 2^16
                bits == s.bits + from
                full == bits \div to
            IN [acc |-> acc, bits |-> bits % to,
                out |-> s.out \o [k \in 1..full |-> (acc \div 2^(bits - k * to)) % 2^to]]
        end == FoldLeft(step, [acc |-> 0, bits |-> 0, out |-> <<>>], data)
        rest == (end.acc * 2^(to - end.bits)) % 2^to
    IN CASE \E i \in DOMAIN data : data[i] >= 2^from -> Refused
         [] pad /\ end.bits > 0 -> <<Append(end.out, rest)>>
         [] ~pad /\ (end.bits >= from \/ rest # 0) -> Refused
         [] OTHER -> <<end.out>>
--------------------------------------------------------------------------------
(* The bytes of an address *)

compress(a) == a.key \o (IF a.data = <<>> THEN <<0>> ELSE <<1, Len(a.data[1])>> \o a.data[1])

(* What is behind the data is not looked at *)
decompress(bytes, hrp) ==
    LET size == Len(bytes)
        with(data) == <<[net |-> IF hrp = Prefix.mainnet THEN "mainnet" ELSE "testnet",
                         key |-> SubSeq(bytes, 1, KeySize), data |-> data]>>
        length == bytes[KeySize + 2]
    IN CASE size < KeySize + 1 -> Refused
         [] bytes[KeySize + 1] = 0 -> with(<<>>)
         [] bytes[KeySize + 1] = 1 /\ size >= KeySize + 2 ->
                IF size < KeySize + 2 + length \/ 1 + length > MaxData THEN Refused
                ELSE with(<<SubSeq(bytes, KeySize + 3, KeySize + 2 + length)>>)
         [] OTHER -> Refused

as_string(a) ==
    LET hrp == Prefix[a.net]
        data == convert_bits(compress(a), 8, 5, TRUE)[1]
    IN [hrp |-> hrp, data |-> data, sum |-> create_checksum(hrp, data)]

(* A symbol above 31 is a character that is not in CHARSET *)
decode(t) ==
    IF \E i \in DOMAIN t.data : t.data[i] > 31 THEN Refused
    ELSE IF verify_checksum(t) THEN <<t.data>> ELSE Refused

from_string(t) ==
    LET data == decode(t)
        bytes == convert_bits(data[1], 5, 8, FALSE)
    IN IF data = Refused \/ t.hrp \notin {Prefix.mainnet, Prefix.testnet} \/ bytes = Refused THEN Refused
       ELSE decompress(bytes[1], t.hrp)

NoText == [hrp |-> "", data |-> <<>>, sum |-> <<>>]

Format(a) ==
    /\ text = NoText
    /\ address' = a /\ text' = as_string(a)
    /\ UNCHANGED <<arrived, parsed>>

(* On paper or in a form: a symbol of the data or of the checksum is another one, or the
   prefix of the other network is written in front                                   *)
Misread ==
    /\ text # NoText /\ arrived = "intact" /\ parsed = <<>>
    /\ \/ \E i \in DOMAIN text.data, symbol \in {0, 31, 32} :
            text.data[i] # symbol /\ text' = [text EXCEPT !.data[i] = symbol]
       \/ text' = [text EXCEPT !.sum = <<"misread">>]
       \/ text' = [text EXCEPT !.hrp = Prefix[IF address.net = "mainnet" THEN "testnet" ELSE "mainnet"]]
    /\ arrived' = "damaged"
    /\ UNCHANGED <<address, parsed>>

Parse ==
    /\ text # NoText /\ parsed = <<>>
    /\ parsed' = <<from_string(text)>>
    /\ UNCHANGED <<address, text, arrived>>

InitAddresses ==
    /\ address = CHOOSE a \in Addresses : TRUE
    /\ text = NoText /\ arrived = "intact" /\ parsed = <<>>

NextAddresses == (\E a \in Addresses : Format(a)) \/ Misread \/ Parse

(* An address is read back from its text, whatever the number of bits that are left over,
   unless its data is longer than a reader takes; misread, the text is refused.      *)
AddressSound ==
    parsed # <<>> =>
        IF arrived = "damaged" \/ (address.data # <<>> /\ 1 + Len(address.data[1]) > MaxData)
        THEN parsed[1] = Refused ELSE parsed[1] = <<address>>
================================================================================
