----------------------------- MODULE Cryptography -----------------------------
(* The algebra of the confidential balances, over a group of prime order Q: a point is
   its coordinates at the two generators G and H, which nobody can tell from the point
   itself. Randomness and the challenges of the transcript are chosen by the actions.

   Three machines: `claim` is a proof or a signature that is made, checked and forgotten;
   `cache` is the balance of one account, a CiphertextCache, and what is stored of it;
   `seed`, at the end, is a private key written as words.                            *)
EXTENDS Integers, Sequences

CONSTANTS
    Q,            \* order of the group
    Secrets,      \* private keys, other than zero
    Randomness,   \* randomness of commitments
    Masks,        \* randomness of proofs and signatures
    Operations    \* bound: changes of the balance between two loads

ASSUME GroupAssumption ==
    /\ Q \in Nat /\ Q > 2 /\ \A d \in 2..(Q - 1) : Q % d # 0
    /\ Secrets # {}
    /\ Secrets \subseteq 1..(Q - 1) /\ Randomness \subseteq 0..(Q - 1) /\ Masks \subseteq 1..(Q - 1)

VARIABLES
    claim,      \* the statement and the proof of it
    verdict,    \* what the verifier said
    cache,      \* the CiphertextCache
    stored,     \* its bytes in the storage
    balance,    \* the amount it stands for
    shown,      \* the compressed ciphertext that was last returned
    operations

proofVars == <<claim, verdict>>
cacheVars == <<cache, stored, balance, shown, operations>>
--------------------------------------------------------------------------------
(* Scalars and points *)

Scalars == 0..(Q - 1)
Neg(a) == (Q - a) % Q
Invert(a) == CHOOSE b \in Scalars : (a * b) % Q = 1

At(g, h) == [g |-> g % Q, h |-> h % Q]
G == At(1, 0)
H == At(0, 1)
Identity == At(0, 0)
Plus(p, q) == At(p.g + q.g, p.h + q.h)
Times(a, p) == At(a * p.g, a * p.h)
Less(p, q) == Plus(p, Times(Q - 1, q))
--------------------------------------------------------------------------------
(* Keys, commitments, ciphertexts *)

(* The key is the inverse of the secret, at H *)
PublicKey(s) == Times(Invert(s), H)

Commitment(x, r) == Plus(Times(x, G), Times(r, H))
DecryptHandle(key, r) == Times(r, key)

Ciphertext(commitment, handle) == [commitment |-> commitment, handle |-> handle]
Zero == Ciphertext(Identity, Identity)
EncryptWithOpening(key, x, r) == Ciphertext(Commitment(x, r), DecryptHandle(key, r))

AddCt(c, d) == Ciphertext(Plus(c.commitment, d.commitment), Plus(c.handle, d.handle))

(* Fault: the handle of what is taken away stays *)
SubCtHandle(c, d) == Ciphertext(Less(c.commitment, d.commitment), c.handle)
SubCt(c, d) == Ciphertext(Less(c.commitment, d.commitment), Less(c.handle, d.handle))

(* A fee or a reward is public: it has no opening *)
AddScalar(c, x) == Ciphertext(Plus(c.commitment, Times(x, G)), c.handle)
SubScalar(c, x) == Ciphertext(Less(c.commitment, Times(x, G)), c.handle)

DecryptToPoint(s, c) == Less(c.commitment, Times(s, c.handle))

(* The logarithm, by tables: the amount whose point it is *)
DecodePoint(p) == IF p.h = 0 THEN p.g ELSE Q
--------------------------------------------------------------------------------
(* Proofs. y are the masks, c and w the challenges of the transcript. *)

(* CommitmentEqProof: the ciphertext D under the key of s, and a commitment with the
   opening r, hold the amount x                                                      *)
EqProof(s, ct, r, x, y, c) ==
    [Y_0 |-> Times(y.s, PublicKey(s)),
     Y_1 |-> Plus(Times(y.x, G), Times(y.s, ct.handle)),
     Y_2 |-> Commitment(y.x, y.r),
     z_s |-> (c * s + y.s) % Q, z_x |-> (c * x + y.x) % Q, z_r |-> (c * r + y.r) % Q]

(* Fault: the commitment of the ciphertext is not weighed by the challenge *)
EqProofSumUnbound(p, key, ct, commitment, c, w) ==
    LET ww == (w * w) % Q
    IN Plus(Plus(Plus(Times((w + ww) * p.z_x, G), Times(Neg(c) + ww * p.z_r, H)),
                 Plus(Times(p.z_s, key), Times(Q - 1, p.Y_0))),
            Plus(Plus(Times(w * p.z_s, ct.handle), Times(Neg(w) * c, commitment)),
                 Plus(Times(Neg(w), p.Y_1),
                      Plus(Times(Neg(ww) * c, commitment), Times(Neg(ww), p.Y_2)))))

(* What CommitmentEqProof::pre_verify adds to the batch: three equations, weighed by
   1, w and ww                                                                       *)
EqProofSum(p, key, ct, commitment, c, w) ==
    LET ww == (w * w) % Q
    IN Plus(Plus(Plus(Times((w + ww) * p.z_x, G), Times(Neg(c) + ww * p.z_r, H)),
                 Plus(Times(p.z_s, key), Times(Q - 1, p.Y_0))),
            Plus(Plus(Times(w * p.z_s, ct.handle), Times(Neg(w) * c, ct.commitment)),
                 Plus(Times(Neg(w), p.Y_1),
                      Plus(Times(Neg(ww) * c, commitment), Times(Neg(ww), p.Y_2)))))

(* CiphertextValidityProof: the commitment holds x and its handle for the receiver has
   the same opening                                                                  *)
ValidityProof(key, x, r, y, c) ==
    [Y_0 |-> Commitment(y.x, y.r), Y_1 |-> Times(y.r, key),
     z_r |-> (c * r + y.r) % Q, z_x |-> (c * x + y.x) % Q]

(* What CiphertextValidityProof::pre_verify adds to the batch *)
ValidityProofSum(p, commitment, key, handle, c, w) ==
    Plus(Plus(Plus(Times(p.z_x, G), Times(p.z_r, H)), Plus(Times(Neg(c), commitment), Times(Q - 1, p.Y_0))),
         Plus(Times(w * p.z_r, key), Plus(Times(Neg(w) * c, handle), Times(Neg(w), p.Y_1))))

(* validate_and_append_point *)
Appendable(p) == \A y \in {"Y_0", "Y_1", "Y_2"} \cap DOMAIN p : p[y] # Identity

(* BatchCollector::verify: the sum of everything, here of one proof and its factor *)
Verify(sum, factor) == Times(factor, sum) = Identity
--------------------------------------------------------------------------------
(* Signatures. The hash of the key, the message and the point is chosen by the action:
   e is what it returns when signing, f what it returns when verifying.              *)

Sign(s, k, e) == [s |-> (Invert(s) * e + k) % Q, e |-> e]
SignedPoint(signature, key) == Less(Times(signature.s, H), Times(signature.e, key))
--------------------------------------------------------------------------------
(* One proof *)

NoClaim == [is |-> "none"]

(* A wallet proves that a new commitment holds what is left in its ciphertext; `said`
   is the amount it works with                                                       *)
ProveEq(s, x, said, o, r, c) ==
    /\ claim = NoClaim
    /\ \E y \in [s : Masks, x : Masks, r : Masks] :
        LET ct == EncryptWithOpening(PublicKey(s), x, o)
        IN claim' = [is |-> "eq", holds |-> x = said, c |-> c, key |-> PublicKey(s), ct |-> ct,
                     commitment |-> Commitment(said, r), proof |-> EqProof(s, ct, r, said, y, c)]
    /\ UNCHANGED verdict

(* It proves that a transfer is readable by the receiver, whose handle has the opening o *)
ProveValidity(s, x, o, r, c) ==
    /\ claim = NoClaim
    /\ \E y \in [x : Masks, r : Masks] :
        claim' = [is |-> "validity", holds |-> o = r, c |-> c, key |-> PublicKey(s),
                  commitment |-> Commitment(x, r), handle |-> DecryptHandle(PublicKey(s), o),
                  proof |-> ValidityProof(PublicKey(s), x, r, y, c)]
    /\ UNCHANGED verdict

ProveSignature(s, k, e) ==
    /\ claim = NoClaim
    /\ claim' = [is |-> "signature", key |-> PublicKey(s), signature |-> Sign(s, k, e), point |-> Times(k, H)]
    /\ UNCHANGED verdict

ProofSum(w) ==
    IF claim.is = "eq" THEN EqProofSum(claim.proof, claim.key, claim.ct, claim.commitment, claim.c, w)
    ELSE ValidityProofSum(claim.proof, claim.commitment, claim.key, claim.handle, claim.c, w)

(* The node checks it, for some w and some factor of the batch *)
Check ==
    /\ claim.is \in {"eq", "validity"} /\ verdict = "none"
    /\ \E w \in Scalars, factor \in Masks :
        verdict' = IF Appendable(claim.proof) /\ Verify(ProofSum(w), factor) THEN "accepted" ELSE "refused"
    /\ UNCHANGED claim

(* Signature::verify of the message that was signed: the hash is of the same point *)
CheckSignature ==
    /\ claim.is = "signature" /\ verdict = "none"
    /\ verdict' = IF SignedPoint(claim.signature, claim.key) = claim.point THEN "accepted" ELSE "refused"
    /\ UNCHANGED claim

InitProofs == claim = NoClaim /\ verdict = "none"

NextProofs ==
    \/ \E s \in Secrets, x, said, c \in Scalars, o, r \in Randomness : ProveEq(s, x, said, o, r, c)
    \/ \E s \in Secrets, x, c \in Scalars, o, r \in Randomness : ProveValidity(s, x, o, r, c)
    \/ \E s \in Secrets, k \in Masks, e \in Scalars : ProveSignature(s, k, e)
    \/ Check \/ CheckSignature

ProofSpec == InitProofs /\ [][NextProofs]_proofVars
--------------------------------------------------------------------------------
(* The cache of one account, whose secret is the least *)

Owner == CHOOSE s \in Secrets : \A t \in Secrets : s <= t

Compress(ct) == [bytes |-> ct]
Decompress(bytes) == bytes.bytes

Compressed(c) == [is |-> "Compressed", c |-> c, e |-> Zero, dirty |-> FALSE]
Decompressed(e) == [is |-> "Decompressed", c |-> Compress(Zero), e |-> e, dirty |-> FALSE]
BothOf(c, e, dirty) == [is |-> "Both", c |-> c, e |-> e, dirty |-> dirty]

(* CiphertextCache::compress *)
CompressCache(k) ==
    CASE k.is = "Compressed" -> k.c
      [] k.is = "Decompressed" -> Compress(k.e)
      [] OTHER -> IF k.dirty THEN Compress(k.e) ELSE k.c

(* CiphertextCache::computable, and the change that is made to what it returns *)
Computable(k, op(_)) ==
    CASE k.is = "Compressed" -> Decompressed(op(Decompress(k.c)))
      [] k.is = "Decompressed" -> Decompressed(op(k.e))
      [] OTHER -> BothOf(k.c, op(k.e), TRUE)

Change(op(_), amount) ==
    /\ operations < Operations
    /\ cache' = Computable(cache, op)
    /\ balance' = (balance + amount) % Q
    /\ operations' = operations + 1
    /\ UNCHANGED <<stored, shown>>

Receive(x, o) == Change(LAMBDA ct : AddCt(ct, EncryptWithOpening(PublicKey(Owner), x, o)), x)
Spend(x, o) == Change(LAMBDA ct : SubCt(ct, EncryptWithOpening(PublicKey(Owner), x, o)), Neg(x))
Reward(x) == Change(LAMBDA ct : AddScalar(ct, x), x)
PayFee(x) == Change(LAMBDA ct : SubScalar(ct, x), Neg(x))

(* compressed() and both(): the stale half is renewed, and still called dirty *)
ShowCompressed ==
    LET c == CompressCache(cache)
    IN /\ cache' = CASE cache.is = "Compressed" -> cache
                     [] cache.is = "Decompressed" -> BothOf(c, cache.e, FALSE)
                     [] OTHER -> BothOf(c, cache.e, cache.dirty)
       /\ shown' = c
       /\ UNCHANGED <<stored, balance, operations>>

ShowBoth ==
    LET c == CompressCache(cache)
        e == IF cache.is = "Compressed" THEN Decompress(cache.c) ELSE cache.e
    IN /\ cache' = BothOf(c, e, cache.is = "Both" /\ cache.dirty)
       /\ shown' = c
       /\ UNCHANGED <<stored, balance, operations>>

(* decompressed() *)
ShowDecompressed ==
    /\ cache' = IF cache.is = "Compressed" THEN BothOf(cache.c, Decompress(cache.c), FALSE) ELSE cache
    /\ UNCHANGED <<stored, balance, shown, operations>>

(* Serializer::write and read *)
Save ==
    /\ stored' = CompressCache(cache)
    /\ cache' = Compressed(stored')
    /\ operations' = 0
    /\ UNCHANGED <<balance, shown>>

InitCache ==
    /\ stored = Compress(Zero) /\ cache = Compressed(Compress(Zero))
    /\ balance = 0 /\ shown = Compress(Zero) /\ operations = 0

NextCache ==
    \/ \E x \in Scalars, o \in Randomness : Receive(x, o) \/ Spend(x, o)
    \/ \E x \in Scalars : Reward(x) \/ PayFee(x)
    \/ ShowCompressed \/ ShowBoth \/ ShowDecompressed \/ Save

CacheSpec == InitCache /\ [][NextCache]_cacheVars
--------------------------------------------------------------------------------
(* A proof of a true statement and a signature are accepted, whatever the masks, the
   challenges and the factor of the batch are. A mask that makes a point the identity
   has no chance in the real group and is left out.                                  *)
TrueIsAccepted ==
    verdict = "refused" =>
        \/ claim.is \in {"eq", "validity"} /\ ~claim.holds
        \/ claim.is \in {"eq", "validity"} /\ ~Appendable(claim.proof)

(* A proof made for another amount or another opening passes for no weight of the batch
   but zero, unless the challenge is zero: in the real group, never.                 *)
FalseIsRefused ==
    claim.is \in {"eq", "validity"} =>
        (~claim.holds /\ claim.c # 0 => \A w \in Scalars \ {0} : ProofSum(w) # Identity)

(* Whatever happened to the cache, what it would write and what it shows are the
   balance: the owner decrypts them to the amount, and the storage is never written
   from a half that is stale.                                                        *)
CacheIsBalance ==
    /\ DecodePoint(DecryptToPoint(Owner, Decompress(CompressCache(cache)))) = balance
    /\ cache.is = "Both" => (cache.dirty \/ Decompress(cache.c) = cache.e)

(* What compressed() and both() return is what the account holds at that moment. *)
ShownIsCurrent ==
    [][shown' # shown => DecodePoint(DecryptToPoint(Owner, Decompress(shown'))) = balance']_cacheVars

\* The proofs of correct openings and commitments are accepted, and no wrong claim passes but for the
\* weight or the challenge zero.
ProofsSound == TrueIsAccepted /\ FalseIsRefused
--------------------------------------------------------------------------------
(* The seed of a wallet: its private key written as words of some language, three for
   every 32 bits and a last one that repeats the word the checksum points at. Reading
   it back, nobody says which language it was: the first one that has all the words is
   taken.

   The checksum is a CRC of the first prefix_length characters of the words: for one
   phrase it is some index, the same whenever the same number of characters is used. *)

CONSTANTS
    WORDS_LIST,    \* words of a language
    Word,          \* values of 32 bits
    Groups,        \* words of 32 bits of a key
    Keys,          \* the private keys: scalars in canonical form, as rows of 32 bits
    LANGUAGES      \* the languages, in the order they are tried

ASSUME MnemonicAssumption ==
    /\ WORDS_LIST \in Nat \ {0} /\ Word \in Nat \ {0} /\ Groups \in Nat \ {0}
    /\ Word <= WORDS_LIST * (WORDS_LIST * WORDS_LIST)
    /\ Keys \subseteq [1..Groups -> 0..(Word - 1)]
    /\ Len(LANGUAGES) \in Nat
    /\ \A l \in 1..Len(LANGUAGES) : \A i, j \in 0..(WORDS_LIST - 1) :
          LANGUAGES[l].words[i] = LANGUAGES[l].words[j] => i = j

(* Two words of each of the word lists, in the order of the list: the smallest instance of
   LANGUAGES. A list has 1626 words, all different, and no two with the same first
   prefix_length characters; some lists share words (French and English 66, Italian and
   Spanish 86), and so do the samples. Words in other letters are transcribed.        *)

Language(prefix_length, first, second) ==
    [prefix_length |-> prefix_length, words |-> [i \in {0, 1} |-> IF i = 0 THEN first ELSE second]]

English    == Language(3, "budget", "zoom")
French     == Language(4, "abri", "budget")
Italian    == Language(4, "adulto", "cemento")
Spanish    == Language(4, "abdomen", "adulto")
Portuguese == Language(4, "abaular", "alivio")
Japanese   == Language(3, "aikokushin", "aisatsu")
Chinese    == Language(3, "de", "yi")
Russian    == Language(4, "abazhur", "abzats")
Esperanto  == Language(4, "cemento", "cent")
Dutch      == Language(4, "aalglad", "budget")
German     == Language(4, "Abakus", "Abart")

AllLanguages == <<English, French, Italian, Spanish, Portuguese, Japanese, Chinese, Russian,
                  Esperanto, Dutch, German>>
--------------------------------------------------------------------------------
VARIABLES
    seed,     \* a phrase: written from some key in some language, or typed
    restored  \* what was read

seedVars == <<seed, restored>>

SEED_LENGTH == 3 * Groups
Tried == 1..Len(LANGUAGES)
PrefixLengths == {LANGUAGES[l].prefix_length : l \in Tried}
--------------------------------------------------------------------------------
(* 32 bits as the indices of three words, and back *)

First(v) == v % WORDS_LIST
Second(v) == ((v \div WORDS_LIST) + First(v)) % WORDS_LIST
(* Fault: the third index does not depend on the second *)
ThirdAlone(v) == ((v \div WORDS_LIST) \div WORDS_LIST) % WORDS_LIST
Third(v) == (((v \div WORDS_LIST) \div WORDS_LIST) + Second(v)) % WORDS_LIST

Sum(a, b, c) ==
    (a + WORDS_LIST * (((WORDS_LIST - a) + b) % WORDS_LIST))
       + WORDS_LIST * (WORDS_LIST * (((WORDS_LIST - b) + c) % WORDS_LIST))
ValueOf(a, b, c) == Sum(a, b, c) % Word
--------------------------------------------------------------------------------
IndexAt(key, i) ==
    LET v == key[(i \div 3) + 1]
    IN CASE i % 3 = 0 -> First(v)
         [] i % 3 = 1 -> Second(v)
         [] OTHER -> Third(v)

Phrase(key, l, sum) ==
    [i \in 0..SEED_LENGTH |-> LANGUAGES[l].words[IndexAt(key, IF i = SEED_LENGTH THEN sum ELSE i)]]

NoSeed == [is |-> "none"]

(* A key is written; the checksum is the index it has for every number of characters *)
key_to_words(key, l, sums) ==
    /\ seed = NoSeed
    /\ seed' = [is |-> "written", key |-> key, language |-> l, sums |-> sums,
                phrase |-> Phrase(key, l, sums[LANGUAGES[l].prefix_length])]
    /\ UNCHANGED restored

(* The owner types words of some language that no wallet wrote, as many as he likes *)
Type(phrase, sums) ==
    /\ seed = NoSeed
    /\ seed' = [is |-> "typed", sums |-> sums, phrase |-> phrase]
    /\ UNCHANGED restored

(* Every word is in the list *)
Knows(l, phrase) == \A i \in 0..SEED_LENGTH : \E j \in 0..(WORDS_LIST - 1) : LANGUAGES[l].words[j] = phrase[i]

(* No word is twice in a list *)
IndexOf(l, word) ==
    CHOOSE j \in 0..(WORDS_LIST - 1) : LANGUAGES[l].words[j] = word

Triple(l, phrase, g) ==
    <<IndexOf(l, phrase[3 * (g - 1)]), IndexOf(l, phrase[3 * (g - 1) + 1]), IndexOf(l, phrase[3 * (g - 1) + 2])>>

KeyOf(l, phrase) ==
    [g \in 1..Groups |-> LET t == Triple(l, phrase, g) IN ValueOf(t[1], t[2], t[3])]

SumOf(l, phrase, g) == LET t == Triple(l, phrase, g) IN Sum(t[1], t[2], t[3])

(* The first word is what the sum of the three says it is *)
Sane(l, phrase, g) == SumOf(l, phrase, g) % WORDS_LIST = IndexOf(l, phrase[3 * (g - 1)])

(* No language that is tried before knows all the words *)
IsFirst(l, phrase) == Knows(l, phrase) /\ \A k \in Tried : Knows(k, phrase) => l <= k

(* All the words, a language that knows them, the checksum, the sanity of every three and
   a scalar in canonical form                                                        *)
Readable(phrase, sums) ==
    /\ DOMAIN phrase = 0..SEED_LENGTH
    /\ \E l \in Tried : Knows(l, phrase)
    /\ LET l == CHOOSE l \in Tried : IsFirst(l, phrase)
       IN /\ phrase[sums[LANGUAGES[l].prefix_length]] = phrase[SEED_LENGTH]
          /\ \A g \in 1..Groups : Sane(l, phrase, g)
          /\ KeyOf(l, phrase) \in Keys

words_to_key ==
    /\ seed # NoSeed /\ restored = NoSeed
    /\ restored' = IF Readable(seed.phrase, seed.sums)
                   THEN [is |-> "key", key |-> KeyOf(CHOOSE l \in Tried : IsFirst(l, seed.phrase), seed.phrase)]
                   ELSE [is |-> "error"]
    /\ UNCHANGED seed

InitSeeds == seed = NoSeed /\ restored = NoSeed

(* Of a typed phrase only the checksum in the language that is found matters *)
NextSeeds ==
    \/ /\ seed = NoSeed
       /\ \E key \in Keys, l \in Tried, sums \in [PrefixLengths -> 0..(SEED_LENGTH - 1)] : key_to_words(key, l, sums)
    \/ /\ seed = NoSeed
       /\ \E l \in Tried, last \in {SEED_LENGTH - 1, SEED_LENGTH}, sum \in 0..(SEED_LENGTH - 1) :
         \E phrase \in [0..last -> {LANGUAGES[l].words[i] : i \in 0..(WORDS_LIST - 1)}] :
            Type(phrase, [n \in PrefixLengths |-> sum])
    \/ words_to_key

SeedSpec == InitSeeds /\ [][NextSeeds]_seedVars
--------------------------------------------------------------------------------
(* Reading the words a wallet wrote gives its key, unless a language that is tried earlier
   has all of them: then they may give another key or be refused.                    *)
SeedReadBack ==
    restored # NoSeed /\ seed.is = "written" =>
        \/ restored = [is |-> "key", key |-> seed.key]
        \/ \E l \in Tried : l < seed.language /\ Knows(l, seed.phrase)

(* Words that are read as a key are the words of that key, so that no two phrases of one
   language open the same wallet, unless three of them stand for more than 32 bits: then
   the value is cut (val as u32) and another phrase has the same key.                *)
TypedIsWritten ==
    restored # NoSeed /\ seed.is = "typed" =>
        \/ restored.is = "error"
        \/ \E l \in Tried :
             /\ IsFirst(l, seed.phrase)
             /\ \/ \E g \in 1..Groups : SumOf(l, seed.phrase, g) >= Word
                \/ \A i \in 0..(SEED_LENGTH - 1) : LANGUAGES[l].words[IndexAt(restored.key, i)] = seed.phrase[i]
================================================================================
