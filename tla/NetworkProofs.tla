----------------------------- MODULE NetworkProofs -----------------------------
(* The connection to a peer, and the list of the peers.

   What encryption.rs and connection.rs rely on, for any rotation interval and any
   number of packets: no key and nonce encrypt two packets, and every packet is
   readable when its turn comes. Both rest on the stream between two sides being a
   chain: its first packet is encrypted with what the reader decrypts with, each one
   determines the cipher of the next, and the last one determines what the sender
   encrypts with now. The readers agree with the senders on what comes when, because
   the exchange numbers the first two packets of each direction.

   The list of peers and the connections agree, for any number of peers, connections
   and closers, wherever their steps fall: no more peers than allowed are listed, a
   connection that has ended is not, and one that nobody is closing is. A connection
   is listed once at most: it leaves the list for good. The invariant says of each one
   what has to go on while it stays listed or after it left. Listed, and somebody has
   begun to end it: a closer is on its way that will remove it (or found it closed by
   somebody else, the case `overtaken` records). Not listed any more, and still open:
   an exit message waits in a receiver, or will be sent.                           *)
EXTENDS PeerLifecycle, FiniteSetTheorems, TLAPS

Keys == (Side \cup {"none"}) \X Nat
Ciphers == [key : Keys, nonce : Nat]
Packets == [with : Ciphers, id : {"key", "handshake", "data"}, key : Keys]
Places == {"start", "await_key", "reply_key", "send_handshake", "await_handshake", "done"}

\* The cipher of the packet that follows p in its stream.
After(p) == IF p.id = "key" THEN [key |-> p.key, nonce |-> 0] ELSE NextNonce(p.with)

\* The packets seq lead from the cipher `from` to the cipher `to`.
Leads(seq, from, to) ==
    /\ seq = <<>> => to = from
    /\ seq # <<>> => seq[1].with = from /\ to = After(seq[Len(seq)])
    /\ \A i \in 1..Len(seq) : i + 1 \in 1..Len(seq) => seq[i + 1].with = After(seq[i])

\* What the n-th packet of a direction may be; a key is a key of one of the sides.
Kind(n, p) ==
    /\ n = 1 => p.id = "key"
    /\ n = 2 => p.id = "handshake"
    /\ n > 2 => p.id \in {"key", "data"}
    /\ p.id = "key" => p.key[1] \in Side

\* The packets seq are those after the first n of their direction.
Kinds(seq, n) == \A i \in 1..Len(seq) : Kind(i + n, seq[i])

\* Key and nonce c were used up before d was reached.
Earlier(c, d) ==
    /\ c.key[1] = d.key[1]
    /\ c.key[2] < d.key[2] \/ (c.key[2] = d.key[2] /\ c.nonce < d.nonce)

\* The ciphers u were used one after the other, and all before c.
Ascending(u, c) ==
    /\ \A i, j \in 1..Len(u) : i < j => Earlier(u[i], u[j])
    /\ \A i \in 1..Len(u) : Earlier(u[i], c)

\* How many of the two packets of the exchange a side has read, and has sent.
HasRead(s) ==
    IF chPc[s] \in {"start", "await_key"} THEN 0
    ELSE IF chPc[s] \in {"reply_key", "await_handshake"} \/ (s = "client" /\ chPc[s] = "send_handshake")
         THEN 1 ELSE 2
HasSent(s) ==
    IF chPc[s] = "start" \/ (s = "server" /\ chPc[s] \in {"await_key", "reply_key"}) THEN 0
    ELSE IF chPc[s] \in {"await_key", "send_handshake"} \/ (s = "server" /\ chPc[s] = "await_handshake")
         THEN 1 ELSE 2

ChannelTypes ==
    /\ chPc \in [Side -> Places] /\ chPc["client"] # "reply_key"
    /\ ourCipher \in [Side -> Ciphers] /\ peerCipher \in [Side -> Ciphers]
    /\ wire \in [Side -> Seq(Packets)] /\ used \in [Side -> Seq(Ciphers)]

\* One direction, from side s to the other one.
Direction(s) ==
    /\ HasSent(s) = 0 => ourCipher[s] = NoCipher /\ used[s] = <<>>
    /\ HasSent(s) > 0 => ourCipher[s].key[1] = s
    /\ Ascending(used[s], ourCipher[s])
    /\ HasRead(Other(s)) > 0 => peerCipher[Other(s)].key[1] \in Side
    /\ Leads(wire[Other(s)], peerCipher[Other(s)], ourCipher[s])
    /\ HasRead(Other(s)) <= HasSent(s)
    /\ HasSent(s) < 2 => Len(wire[Other(s)]) = HasSent(s) - HasRead(Other(s))
    /\ HasSent(s) = 2 => Len(wire[Other(s)]) + HasRead(Other(s)) >= 2
    /\ Kinds(wire[Other(s)], HasRead(Other(s)))

ChannelInv == ChannelTypes /\ (\A s \in Side : Direction(s)) /\ unreadable = {}

-------------------------------------------------------------------------------
\* There are two sides, each the other one's other side.
LEMMA OtherSide ==
    ASSUME NEW s \in Side
    PROVE  Other(s) \in Side /\ Other(s) # s /\ Other(Other(s)) = s
<1>1. \A t \in Side : Other(t) \in Side /\ Other(t) # t
  BY DEF Other, Side
<1>2. QED
  BY <1>1 DEF Side

\* A packet that is encrypted with the sender's cipher continues the stream.
LEMMA LeadsAppend ==
    ASSUME NEW seq \in Seq(Packets), NEW from \in Ciphers, NEW to \in Ciphers, NEW p \in Packets,
           Leads(seq, from, to), p.with = to
    PROVE  Leads(Append(seq, p), from, After(p))
<1> DEFINE v == Append(seq, p)
<1>1. /\ v # <<>> /\ Len(v) = Len(seq) + 1 /\ v[Len(v)] = p
      /\ Len(seq) \in Nat
      /\ \A i \in 1..Len(seq) : v[i] = seq[i]
  OBVIOUS
<1>2. v[1].with = from
  <2>1. CASE seq = <<>>
    BY <1>1, <2>1 DEF Leads
  <2>2. CASE seq # <<>>
    BY <1>1, <2>2 DEF Leads
  <2>3. QED
    BY <2>1, <2>2
<1>3. ASSUME NEW i \in 1..Len(v), i + 1 \in 1..Len(v)
      PROVE  v[i + 1].with = After(v[i])
  <2>1. CASE i + 1 \in 1..Len(seq)
    BY <1>1, <1>3, <2>1 DEF Leads
  <2>2. CASE i = Len(seq)
    <3>1. seq # <<>> /\ v[i + 1] = p /\ v[i] = seq[Len(seq)]
      BY <1>1, <1>3, <2>2
    <3>2. QED
      BY <3>1 DEF Leads
  <2>3. QED
    BY <1>1, <1>3, <2>1, <2>2
<1>4. QED
  BY <1>1, <1>2, <1>3 DEF Leads

\* Reading the first packet leaves a stream that starts with the cipher after it.
LEMMA LeadsTail ==
    ASSUME NEW seq \in Seq(Packets), NEW from \in Ciphers, NEW to \in Ciphers,
           seq # <<>>, Leads(seq, from, to)
    PROVE  Head(seq).with = from /\ Leads(Tail(seq), After(Head(seq)), to)
<1> DEFINE v == Tail(seq)
<1>1. /\ Len(seq) \in Nat \ {0} /\ Len(v) = Len(seq) - 1 /\ Head(seq) = seq[1]
      /\ v \in Seq(Packets)
      /\ \A i \in 1..Len(v) : v[i] = seq[i + 1]
  OBVIOUS
<1>2. v = <<>> => to = After(seq[1])
  <2>1. \A x \in Seq(Packets) : x = <<>> => Len(x) = 0
    OBVIOUS
  <2>2. v = <<>> => Len(seq) = 1
    <3> HIDE DEF v
    <3> QED
      BY <1>1, <2>1
  <2>3. QED
    BY <2>2 DEF Leads
<1>3. v # <<>> => v[1].with = After(seq[1]) /\ to = After(v[Len(v)])
  <2>1. SUFFICES ASSUME v # <<>>
                 PROVE  v[1].with = After(seq[1]) /\ to = After(v[Len(v)])
    OBVIOUS
  <2>2. Len(v) >= 1
    BY <1>1, <2>1
  <2>3. v[1] = seq[2] /\ 1 + 1 \in 1..Len(seq) /\ 1 \in 1..Len(seq) /\ v[Len(v)] = seq[Len(seq)]
    BY <1>1, <2>2
  <2>4. seq[1 + 1].with = After(seq[1])
    BY <2>3 DEF Leads
  <2>5. QED
    BY <2>3, <2>4 DEF Leads
<1>4. ASSUME NEW i \in 1..Len(v), i + 1 \in 1..Len(v)
      PROVE  v[i + 1].with = After(v[i])
  <2>1. v[i] = seq[i + 1] /\ v[i + 1] = seq[(i + 1) + 1] /\ i + 1 \in 1..Len(seq) /\ (i + 1) + 1 \in 1..Len(seq)
    BY <1>1, <1>4
  <2>2. QED
    BY <2>1 DEF Leads
<1>5. QED
  BY <1>1, <1>2, <1>3, <1>4 DEF Leads

\* The kinds of packets, when one is appended and when the first is read.
LEMMA KindsAppend ==
    ASSUME NEW seq \in Seq(Packets), NEW n \in Nat, NEW p \in Packets,
           Kinds(seq, n), Kind(Len(seq) + 1 + n, p)
    PROVE  Kinds(Append(seq, p), n)
BY DEF Kinds

LEMMA KindsTail ==
    ASSUME NEW seq \in Seq(Packets), NEW n \in 0..2, seq # <<>>, Kinds(seq, n)
    PROVE  /\ Kind(1 + n, Head(seq))
           /\ n < 2 => Kinds(Tail(seq), n + 1)
           /\ n = 2 => Kinds(Tail(seq), n)
<1>1. /\ Len(seq) \in Nat \ {0} /\ Len(Tail(seq)) = Len(seq) - 1 /\ Head(seq) = seq[1]
      /\ \A i \in 1..Len(Tail(seq)) : Tail(seq)[i] = seq[i + 1] /\ i + 1 \in 1..Len(seq)
  OBVIOUS
<1>2. Kind(1 + n, Head(seq))
  BY <1>1 DEF Kinds
<1>3. \A i \in 1..Len(Tail(seq)) : Kind(i + 1 + n, Tail(seq)[i])
  BY <1>1 DEF Kinds
<1>4. n < 2 => Kinds(Tail(seq), n + 1)
  <2>1. \A i \in 1..Len(Tail(seq)) : i + 1 + n = i + (n + 1)
    BY <1>1
  <2>2. QED
    BY <1>3, <2>1 DEF Kinds
<1>5. n = 2 => Kinds(Tail(seq), n)
  <2>1. \A i \in 1..Len(Tail(seq)) : n = 2 => i + 1 + n > 2 /\ i + n > 2
    BY <1>1
  <2>2. QED
    BY <1>1, <1>3, <2>1 DEF Kinds, Kind
<1>6. QED
  BY <1>2, <1>4, <1>5

\* Using the cipher c and going on to a later one keeps the uses in order.
LEMMA AscendingAppend ==
    ASSUME NEW u \in Seq(Ciphers), NEW c \in Ciphers, NEW d \in Ciphers,
           Ascending(u, c), Earlier(c, d)
    PROVE  Ascending(Append(u, c), d)
<1> DEFINE v == Append(u, c)
<1>1. /\ Len(v) = Len(u) + 1 /\ Len(u) \in Nat /\ v[Len(u) + 1] = c
      /\ \A i \in 1..Len(u) : v[i] = u[i] /\ u[i] \in Ciphers
  OBVIOUS
<1>2. ASSUME NEW i \in 1..Len(u) PROVE Earlier(u[i], d)
  <2>1. u[i] \in Ciphers /\ Earlier(u[i], c)
    BY <1>1 DEF Ascending
  <2>2. QED
    BY <2>1 DEF Earlier, Ciphers, Keys
<1>3. \A i \in 1..Len(v) : Earlier(v[i], d)
  BY <1>1, <1>2
<1>4. ASSUME NEW i \in 1..Len(v), NEW j \in 1..Len(v), i < j PROVE Earlier(v[i], v[j])
  <2>1. CASE j \in 1..Len(u)
    BY <1>1, <1>4, <2>1 DEF Ascending
  <2>2. CASE j = Len(u) + 1
    BY <1>1, <1>4, <2>2 DEF Ascending
  <2>3. QED
    BY <1>1, <2>1, <2>2
<1>5. QED
  BY <1>3, <1>4 DEF Ascending
-------------------------------------------------------------------------------
\* The ciphers a side goes through have their type and lie after the ones before.
LEMMA CipherFacts ==
    ASSUME NEW s \in Side, ChannelTypes
    PROVE  /\ NoCipher \in Ciphers /\ NoCipher.key[1] = "none"
           /\ Fresh(s) \in Ciphers /\ Fresh(s).key[1] = s /\ Fresh(s).nonce = 0
           /\ \A c \in Ciphers : NextNonce(c) \in Ciphers /\ NextNonce(c).key = c.key /\ Earlier(c, NextNonce(c))
           /\ ourCipher[s].key[1] = s =>
                 Earlier(ourCipher[s], Fresh(s)) /\ Earlier(NextNonce(ourCipher[s]), Fresh(s))
<1>1. NoCipher \in Ciphers /\ NoCipher.key[1] = "none" /\ "none" \notin Side
  BY DEF NoCipher, Ciphers, Keys, Side
<1>2. ourCipher[s] \in Ciphers
  BY DEF ChannelTypes
<1>3. Fresh(s) \in Ciphers /\ Fresh(s).key[1] = s /\ Fresh(s).nonce = 0
  BY <1>2 DEF Fresh, Ciphers, Keys
<1>4. ASSUME NEW c \in Ciphers
      PROVE  NextNonce(c) \in Ciphers /\ NextNonce(c).key = c.key /\ Earlier(c, NextNonce(c))
  BY DEF NextNonce, Ciphers, Keys, Earlier
<1>5. ASSUME ourCipher[s].key[1] = s
      PROVE  Earlier(ourCipher[s], Fresh(s)) /\ Earlier(NextNonce(ourCipher[s]), Fresh(s))
  <2>1. ourCipher[s] # NoCipher
    BY <1>1, <1>5
  <2>2. Fresh(s).key = <<s, ourCipher[s].key[2] + 1>> /\ ourCipher[s].key[2] \in Nat
    BY <1>2, <2>1 DEF Fresh, Ciphers, Keys
  <2>3. QED
    BY <1>2, <1>4, <1>5, <2>2 DEF Earlier, Ciphers, Keys
<1>6. QED
  BY <1>1, <1>3, <1>4, <1>5

\* What send_bytes appends: one or two packets, and the ciphers they were encrypted with.
LEMMA ConcatOne ==
    ASSUME NEW S, NEW seq \in Seq(S), NEW x \in S
    PROVE  seq \o <<x>> = Append(seq, x)
OBVIOUS

LEMMA ConcatTwo ==
    ASSUME NEW S, NEW seq \in Seq(S), NEW x \in S, NEW y \in S
    PROVE  seq \o <<x, y>> = Append(Append(seq, x), y)
OBVIOUS

LEMMA WithOne ==
    ASSUME NEW p
    PROVE  [i \in DOMAIN <<p>> |-> <<p>>[i].with] = <<p.with>>
OBVIOUS

LEMMA WithTwo ==
    ASSUME NEW p, NEW q
    PROVE  [i \in DOMAIN <<p, q>> |-> <<p, q>>[i].with] = <<p.with, q.with>>
OBVIOUS

\* send_bytes puts one packet on the stream, or that and the next key.
LEMMA SendBytesSteps ==
    ASSUME NEW s \in Side, NEW id \in {"handshake", "data"}, ChannelTypes, SendBytes(s, id)
    PROVE  LET o == Other(s)
               p == Packet(ourCipher[s], id, NoKey)
               q == Packet(NextNonce(ourCipher[s]), "key", Fresh(s).key)
           IN  \/ /\ wire' = [wire EXCEPT ![o] = Append(@, p)]
                  /\ used' = [used EXCEPT ![s] = Append(@, ourCipher[s])]
                  /\ ourCipher' = [ourCipher EXCEPT ![s] = NextNonce(@)]
               \/ /\ wire' = [wire EXCEPT ![o] = Append(Append(@, p), q)]
                  /\ used' = [used EXCEPT ![s] = Append(Append(@, ourCipher[s]), NextNonce(ourCipher[s]))]
                  /\ ourCipher' = [ourCipher EXCEPT ![s] = Fresh(s)]
<1> DEFINE o == Other(s)
           p == Packet(ourCipher[s], id, NoKey)
           q == Packet(NextNonce(ourCipher[s]), "key", Fresh(s).key)
           rotate == outKey[s] > 0 /\ outKey[s] >= RotateEvery
           packets == IF rotate THEN <<p, Rotation(s)>> ELSE <<p>>
           ciphers == [i \in DOMAIN packets |-> packets[i].with]
<1>1. wire[o] \in Seq(Packets) /\ used[s] \in Seq(Ciphers)
  BY OtherSide DEF ChannelTypes
<1>2. p.with = ourCipher[s] /\ q.with = NextNonce(ourCipher[s])
  BY DEF Packet
<1>3. /\ wire' = [wire EXCEPT ![o] = @ \o packets]
      /\ ourCipher' = [ourCipher EXCEPT ![s] = IF rotate THEN Fresh(s) ELSE NextNonce(@)]
      /\ used' = [used EXCEPT ![s] = @ \o ciphers]
  BY DEF SendBytes
<1>4. p \in Packets /\ q \in Packets /\ ourCipher[s] \in Ciphers /\ NextNonce(ourCipher[s]) \in Ciphers
  BY CipherFacts DEF Packet, Packets, NoKey, Ciphers, ChannelTypes
<1>5. CASE ~ rotate
  <2>1. packets = <<p>>
    BY <1>5
  <2>2. ciphers = <<p.with>>
    <3>1. ciphers = [i \in DOMAIN <<p>> |-> <<p>>[i].with]
      BY <2>1
    <3>2. QED
      BY <3>1, WithOne
  <2>3. wire[o] \o packets = Append(wire[o], p)
    BY <1>1, <1>4, <2>1, ConcatOne
  <2>4. used[s] \o ciphers = Append(used[s], ourCipher[s])
    BY <1>1, <1>2, <1>4, <2>2, ConcatOne
  <2>5. QED
    BY <1>3, <1>5, <2>3, <2>4
<1>6. CASE rotate
  <2>1. packets = <<p, q>>
    BY <1>6 DEF Rotation
  <2>2. ciphers = <<p.with, q.with>>
    <3>1. ciphers = [i \in DOMAIN <<p, q>> |-> <<p, q>>[i].with]
      BY <2>1
    <3>2. QED
      BY <3>1, WithTwo
  <2>3. wire[o] \o packets = Append(Append(wire[o], p), q)
    <3>1. \A seq \in Seq(Packets) : \A x, y \in Packets : seq \o <<x, y>> = Append(Append(seq, x), y)
      BY ConcatTwo
    <3> HIDE DEF o, p, q, packets
    <3>2. QED
      BY <1>1, <1>4, <2>1, <3>1
  <2>4. used[s] \o ciphers = Append(Append(used[s], ourCipher[s]), NextNonce(ourCipher[s]))
    <3> HIDE DEF p, q, ciphers
    <3>1. used[s] \o <<ourCipher[s], NextNonce(ourCipher[s])>>
             = Append(Append(used[s], ourCipher[s]), NextNonce(ourCipher[s]))
      BY <1>1, <1>4, ConcatTwo
    <3>2. QED
      BY <1>2, <2>2, <3>1
  <2>5. QED
    BY <1>3, <1>6, <2>3, <2>4
<1>7. QED
  BY <1>5, <1>6

-------------------------------------------------------------------------------
\* The last packet on the stream of side s, which a step of s has appended, leaves
\* the direction as it should be. The reader has not moved.
LEMMA DirectionAfterSend ==
    ASSUME NEW seq \in Seq(Packets), NEW from \in Ciphers, NEW c \in Ciphers,
           NEW p \in Packets, NEW n \in Nat,
           Leads(seq, from, c), Kinds(seq, n), p.with = c, Kind(Len(seq) + 1 + n, p)
    PROVE  /\ Leads(Append(seq, p), from, After(p)) /\ Kinds(Append(seq, p), n)
           /\ Append(seq, p) \in Seq(Packets) /\ Len(Append(seq, p)) = Len(seq) + 1
BY LeadsAppend, KindsAppend

\* Sending the key of the exchange, sending a packet and reading one keep the invariant.
LEMMA SendKeyKeeps ==
    ASSUME NEW s \in Side, ChannelInv, HasSent(s) = 0, SendKey(s),
           chPc' \in [Side -> Places], chPc'["client"] # "reply_key",
           HasSent(s)' = 1, HasRead(s)' = HasRead(s),
           HasSent(Other(s))' = HasSent(Other(s)), HasRead(Other(s))' = HasRead(Other(s)),
           UNCHANGED <<peerCipher, unreadable, used>>
    PROVE  ChannelInv'
<1> DEFINE o == Other(s)
           p == Packet(NoCipher, "key", Fresh(s).key)
<1>1. o \in Side /\ o # s /\ Other(o) = s /\ Side = {s, o}
  BY OtherSide DEF Side
<1>2. /\ ChannelTypes /\ Direction(s) /\ Direction(o) /\ unreadable = {}
  BY <1>1 DEF ChannelInv
<1>3. /\ wire' = [wire EXCEPT ![o] = Append(@, p)] /\ ourCipher' = [ourCipher EXCEPT ![s] = Fresh(s)]
      /\ peerCipher' = peerCipher /\ used' = used
  BY DEF SendKey
<1>4. /\ Fresh(s) \in Ciphers /\ Fresh(s).key[1] = s /\ Fresh(s).nonce = 0
      /\ NoCipher \in Ciphers
  BY <1>2, CipherFacts
<1>5. p \in Packets /\ p.with = NoCipher /\ p.id = "key" /\ p.key = Fresh(s).key
  BY <1>4 DEF Packet, Packets, Ciphers
<1>6. After(p) = Fresh(s)
  BY <1>4, <1>5 DEF After, Ciphers
<1>7. ourCipher[s] = NoCipher /\ used[s] = <<>> /\ HasRead(o) = 0 /\ Len(wire[o]) = 0
  BY <1>2 DEF Direction, HasRead
<1>8. ChannelTypes'
  BY <1>1, <1>2, <1>3, <1>4, <1>5 DEF ChannelTypes
<1>9. Direction(s)'
  <2>1. wire[o] \in Seq(Packets) /\ peerCipher[o] \in Ciphers /\ ourCipher[s] \in Ciphers
    BY <1>1, <1>2 DEF ChannelTypes
  <2>2. Leads(wire[o], peerCipher[o], ourCipher[s]) /\ Kinds(wire[o], HasRead(o))
    BY <1>2 DEF Direction
  <2>3. Kind(Len(wire[o]) + 1 + 0, p)
    BY <1>4, <1>5, <1>7 DEF Kind
  <2>4. /\ Leads(Append(wire[o], p), peerCipher[o], After(p)) /\ Kinds(Append(wire[o], p), 0)
        /\ Len(Append(wire[o], p)) = 1
    BY <1>5, <1>7, <2>1, <2>2, <2>3, DirectionAfterSend
  <2>5. wire'[o] = Append(wire[o], p) /\ ourCipher'[s] = Fresh(s) /\ peerCipher'[o] = peerCipher[o]
    BY <1>1, <1>2, <1>3 DEF ChannelTypes
  <2>6. Ascending(used[s], Fresh(s))
    BY <1>7 DEF Ascending
  <2>7. /\ HasSent(s)' = 1 /\ HasRead(o)' = 0 /\ Other(s)' = o
    BY <1>7 DEF Other
  <2>8. QED
    BY <1>3, <1>4, <1>6, <2>4, <2>5, <2>6, <2>7 DEF Direction
<1>10. Direction(o)'
  <2>1. wire'[s] = wire[s] /\ ourCipher'[o] = ourCipher[o] /\ peerCipher'[s] = peerCipher[s] /\ used'[o] = used[o]
    BY <1>1, <1>2, <1>3 DEF ChannelTypes
  <2>2. HasSent(o)' = HasSent(o) /\ HasRead(s)' = HasRead(s)
    OBVIOUS
  <2>3. QED
    BY <1>1, <1>2, <2>1, <2>2 DEF Direction
<1>11. QED
  BY <1>1, <1>2, <1>8, <1>9, <1>10 DEF ChannelInv
LEMMA SendBytesKeeps ==
    ASSUME NEW s \in Side, NEW id \in {"handshake", "data"}, ChannelInv, SendBytes(s, id),
           HasSent(s) = (IF id = "handshake" THEN 1 ELSE 2),
           chPc' \in [Side -> Places], chPc'["client"] # "reply_key",
           HasSent(s)' = 2, HasRead(s)' = HasRead(s),
           HasSent(Other(s))' = HasSent(Other(s)), HasRead(Other(s))' = HasRead(Other(s)),
           UNCHANGED <<peerCipher, unreadable>>
    PROVE  ChannelInv'
<1> DEFINE o == Other(s)
           c == ourCipher[s]
           n == HasRead(o)
           p == Packet(c, id, NoKey)
           q == Packet(NextNonce(c), "key", Fresh(s).key)
<1>1. o \in Side /\ o # s /\ Other(o) = s /\ Side = {s, o}
  BY OtherSide DEF Side
<1>2. /\ ChannelTypes /\ Direction(s) /\ Direction(o) /\ unreadable = {} /\ peerCipher' = peerCipher
  BY <1>1 DEF ChannelInv
<1>3. /\ wire[o] \in Seq(Packets) /\ peerCipher[o] \in Ciphers /\ c \in Ciphers /\ used[s] \in Seq(Ciphers)
      /\ n \in 0..2 /\ Len(wire[o]) \in Nat
  BY <1>1, <1>2 DEF ChannelTypes, HasRead
<1>4. /\ c.key[1] = s /\ Ascending(used[s], c)
      /\ Leads(wire[o], peerCipher[o], c) /\ Kinds(wire[o], n)
      /\ id = "handshake" => Len(wire[o]) + n = 1
      /\ id = "data" => Len(wire[o]) + n >= 2
  BY <1>2, <1>3 DEF Direction
<1>5. /\ Fresh(s) \in Ciphers /\ Fresh(s).key[1] = s /\ Fresh(s).nonce = 0
      /\ NextNonce(c) \in Ciphers /\ NextNonce(c).key[1] = s
      /\ Earlier(c, NextNonce(c)) /\ Earlier(c, Fresh(s)) /\ Earlier(NextNonce(c), Fresh(s))
  BY <1>2, <1>3, <1>4, CipherFacts
<1>6. /\ p \in Packets /\ p.with = c /\ p.id = id
      /\ q \in Packets /\ q.with = NextNonce(c) /\ q.id = "key" /\ q.key = Fresh(s).key
  BY <1>2, <1>3, <1>5, CipherFacts DEF Packet, Packets, NoKey, Ciphers
<1>7. After(p) = NextNonce(c) /\ After(q) = Fresh(s)
  BY <1>5, <1>6 DEF After, Ciphers
<1> HIDE DEF p, q
<1>8. Kind(Len(wire[o]) + 1 + n, p)
  BY <1>3, <1>4, <1>6 DEF Kind
<1> DEFINE w1 == Append(wire[o], p)
           w2 == Append(w1, q)
<1>9. /\ Leads(w1, peerCipher[o], NextNonce(c)) /\ Kinds(w1, n)
      /\ w1 \in Seq(Packets) /\ Len(w1) = Len(wire[o]) + 1
  <2>1. n \in Nat BY <1>3
  <2>2. QED BY <1>3, <1>4, <1>6, <1>7, <1>8, <2>1, DirectionAfterSend
<1> HIDE DEF w1
<1>10. Kind(Len(w1) + 1 + n, q)
  BY <1>3, <1>4, <1>5, <1>6, <1>9 DEF Kind
<1>11. /\ Leads(w2, peerCipher[o], Fresh(s)) /\ Kinds(w2, n)
       /\ w2 \in Seq(Packets) /\ Len(w2) = Len(wire[o]) + 2
  <2>1. n \in Nat BY <1>3
  <2>4. PICK from \in Ciphers, d \in Ciphers : from = peerCipher[o] /\ d = NextNonce(c)
    BY <1>3, <1>5
  <2>5. /\ w1 \in Seq(Packets) /\ q \in Packets /\ q.with = d
        /\ Leads(w1, from, d) /\ Kinds(w1, n) /\ Kind(Len(w1) + 1 + n, q)
    BY <1>6, <1>9, <1>10, <2>4, Zenon
  <2>6. /\ Leads(Append(w1, q), from, After(q)) /\ Kinds(Append(w1, q), n)
        /\ Append(w1, q) \in Seq(Packets) /\ Len(Append(w1, q)) = Len(w1) + 1
    BY <2>1, <2>5, DirectionAfterSend
  <2>2. /\ Leads(w2, peerCipher[o], After(q)) /\ Kinds(w2, n)
        /\ w2 \in Seq(Packets) /\ Len(w2) = Len(w1) + 1
    BY <2>4, <2>6, Zenon
  <2>3. QED BY <1>3, <1>7, <1>9, <2>2
<1> DEFINE u1 == Append(used[s], c)
           u2 == Append(u1, NextNonce(c))
<1>12. u1 \in Seq(Ciphers) /\ Ascending(u1, NextNonce(c))
  BY <1>3, <1>4, <1>5, AscendingAppend
<1> HIDE DEF u1
<1>13. u2 \in Seq(Ciphers) /\ Ascending(u2, Fresh(s))
  BY <1>5, <1>12, AscendingAppend
<1> HIDE DEF w2, u2
<1>14. \/ /\ wire' = [wire EXCEPT ![o] = w1] /\ used' = [used EXCEPT ![s] = u1]
          /\ ourCipher' = [ourCipher EXCEPT ![s] = NextNonce(c)]
       \/ /\ wire' = [wire EXCEPT ![o] = w2] /\ used' = [used EXCEPT ![s] = u2]
          /\ ourCipher' = [ourCipher EXCEPT ![s] = Fresh(s)]
  BY <1>2, SendBytesSteps DEF w1, w2, u1, u2, p, q
<1>15. PICK seq, u, d : /\ seq \in Seq(Packets) /\ u \in Seq(Ciphers) /\ d \in Ciphers /\ d.key[1] = s
                      /\ Leads(seq, peerCipher[o], d) /\ Kinds(seq, n) /\ Ascending(u, d)
                      /\ Len(seq) + n >= 2
                      /\ wire' = [wire EXCEPT ![o] = seq] /\ used' = [used EXCEPT ![s] = u]
                      /\ ourCipher' = [ourCipher EXCEPT ![s] = d]
  <2>1. Len(w1) + n >= 2 /\ Len(w2) + n >= 2
    BY <1>3, <1>4, <1>9, <1>11
  <2>2. QED
    BY <1>5, <1>9, <1>11, <1>12, <1>13, <1>14, <2>1
<1>16. ChannelTypes'
  BY <1>1, <1>2, <1>15 DEF ChannelTypes
<1>17. Direction(s)'
  <2>1. wire'[o] = seq /\ ourCipher'[s] = d /\ used'[s] = u /\ peerCipher'[o] = peerCipher[o]
    BY <1>1, <1>2, <1>15 DEF ChannelTypes
  <2>2. HasSent(s)' = 2 /\ HasRead(o)' = n
    OBVIOUS
  <2>3. n > 0 => peerCipher[o].key[1] \in Side
    BY <1>2 DEF Direction
  <2>4. QED
    BY <1>3, <1>15, <2>1, <2>2, <2>3 DEF Direction
<1>18. Direction(o)'
  <2>1. wire'[s] = wire[s] /\ ourCipher'[o] = ourCipher[o] /\ peerCipher'[s] = peerCipher[s] /\ used'[o] = used[o]
    BY <1>1, <1>2, <1>15 DEF ChannelTypes
  <2>2. HasSent(o)' = HasSent(o) /\ HasRead(s)' = HasRead(s)
    OBVIOUS
  <2>3. QED
    BY <1>1, <1>2, <2>1, <2>2 DEF Direction
<1>19. QED
  BY <1>1, <1>2, <1>16, <1>17, <1>18 DEF ChannelInv

LEMMA ReadPacketKeeps ==
    ASSUME NEW s \in Side, ChannelInv, ReadPacket(s)
    PROVE  ChannelInv'
<1> DEFINE o == Other(s)
           p == Head(wire[s])
           n == HasRead(s)
<1>1. o \in Side /\ o # s /\ Other(o) = s /\ Side = {s, o}
  BY OtherSide DEF Side
<1>2. ChannelTypes /\ Direction(s) /\ Direction(o) /\ unreadable = {}
  BY <1>1 DEF ChannelInv
<1>3. /\ wire[s] \in Seq(Packets) /\ wire[s] # <<>> /\ peerCipher[s] \in Ciphers /\ ourCipher[o] \in Ciphers
      /\ chPc[s] \in Places /\ chPc[s] \in {"await_key", "await_handshake", "done"} /\ n \in 0..2
  BY <1>1, <1>2 DEF ChannelTypes, ReadPacket, Expected, HasRead
<1>4. /\ p \in Packets /\ Tail(wire[s]) \in Seq(Packets) /\ Len(wire[s]) \in Nat \ {0}
      /\ Len(Tail(wire[s])) = Len(wire[s]) - 1
  BY <1>3
<1>5. /\ Leads(wire[s], peerCipher[s], ourCipher[o]) /\ Kinds(wire[s], n)
      /\ n > 0 => peerCipher[s].key[1] \in Side
      /\ n <= HasSent(o) /\ HasSent(o) \in 0..2
      /\ HasSent(o) < 2 => Len(wire[s]) = HasSent(o) - n
      /\ HasSent(o) = 2 => Len(wire[s]) + n >= 2
  BY <1>1, <1>2 DEF Direction, HasSent
<1>6. p.with = peerCipher[s] /\ Leads(Tail(wire[s]), After(p), ourCipher[o])
  BY <1>3, <1>5, LeadsTail
<1>7. /\ Kind(1 + n, p)
      /\ n < 2 => Kinds(Tail(wire[s]), n + 1)
      /\ n = 2 => Kinds(Tail(wire[s]), n)
  BY <1>3, <1>5, KindsTail
<1> HIDE DEF p
<1>8. Readable(s, p) /\ p.id \in Expected(s)
  <2>1. Readable(s, p)
    BY <1>6 DEF Readable, is_read_ready
  <2>2. p.id \in Expected(s)
    BY <1>3, <1>7 DEF Expected, Kind, HasRead
  <2>3. QED
    BY <2>1, <2>2
<1>9. /\ wire' = [wire EXCEPT ![s] = Tail(@)] /\ unreadable' = unreadable
      /\ chPc' = [chPc EXCEPT ![s] = Continued(s)]
      /\ peerCipher' = [peerCipher EXCEPT
                          ![s] = IF p.id = "key" THEN rotate_peer_key(s, p.key) ELSE Decrypted(s)]
      /\ ourCipher' = ourCipher /\ used' = used
  BY <1>8 DEF ReadPacket, p
<1>10. After(p) = (IF p.id = "key" THEN rotate_peer_key(s, p.key) ELSE Decrypted(s))
  <2>1. p.id # "key" => n > 0
    BY <1>3, <1>7 DEF Kind
  <2>2. p.id # "key" => is_read_ready(s)
    BY <1>2, <1>5, <2>1, CipherFacts DEF is_read_ready, Side
  <2>3. QED
    BY <1>6, <2>2 DEF After, rotate_peer_key, Decrypted
<1>11. After(p) \in Ciphers /\ After(p).key[1] \in Side
  <2>1. CASE p.id = "key"
    BY <1>4, <1>7, <2>1 DEF After, Kind, Packets, Ciphers
  <2>2. CASE p.id # "key"
    <3>1. n > 0
      BY <1>3, <1>7, <2>2 DEF Kind
    <3>2. QED
      BY <1>2, <1>3, <1>5, <1>6, <2>2, <3>1, CipherFacts DEF After
  <2>3. QED
    BY <2>1, <2>2
<1>12. Continued(s) \in Places /\ (s = "client" => Continued(s) # "reply_key")
  BY <1>2, <1>3 DEF Continued, Places, ChannelTypes
<1>13. ChannelTypes'
  BY <1>1, <1>2, <1>4, <1>9, <1>10, <1>11, <1>12 DEF ChannelTypes, Side
<1>14. /\ chPc'[s] = Continued(s) /\ chPc'[o] = chPc[o]
  BY <1>1, <1>2, <1>9 DEF ChannelTypes
<1>15. /\ HasRead(s)' = (IF n < 2 THEN n + 1 ELSE 2) /\ HasSent(s)' = HasSent(s)
       /\ HasRead(o)' = HasRead(o) /\ HasSent(o)' = HasSent(o)
  BY <1>1, <1>3, <1>14 DEF HasRead, HasSent, Continued, Side
<1>16. Direction(o)'
  <2>1. /\ wire'[s] = Tail(wire[s]) /\ peerCipher'[s] = After(p) /\ ourCipher'[o] = ourCipher[o]
        /\ used'[o] = used[o]
    BY <1>1, <1>2, <1>9, <1>10 DEF ChannelTypes
  <2>2. HasRead(s)' <= HasSent(o)' /\ Kinds(Tail(wire[s]), HasRead(s)')
    BY <1>3, <1>4, <1>5, <1>7, <1>15
  <2>3. /\ HasSent(o) < 2 => Len(Tail(wire[s])) = HasSent(o) - HasRead(s)'
        /\ HasSent(o) = 2 => Len(Tail(wire[s])) + HasRead(s)' >= 2
    BY <1>3, <1>4, <1>5, <1>15
  <2>4. /\ HasSent(o) = 0 => ourCipher[o] = NoCipher /\ used[o] = <<>>
        /\ HasSent(o) > 0 => ourCipher[o].key[1] = o
        /\ Ascending(used[o], ourCipher[o])
    BY <1>2 DEF Direction
  <2>5. QED
    BY <1>1, <1>6, <1>11, <1>15, <2>1, <2>2, <2>3, <2>4 DEF Direction
<1>17. Direction(s)'
  <2>1. wire'[o] = wire[o] /\ ourCipher'[s] = ourCipher[s] /\ peerCipher'[o] = peerCipher[o] /\ used'[s] = used[s]
    BY <1>1, <1>2, <1>9 DEF ChannelTypes
  <2>2. QED
    BY <1>2, <1>15, <2>1 DEF Direction
<1>18. QED
  BY <1>1, <1>2, <1>9, <1>13, <1>16, <1>17 DEF ChannelInv

\* Every step of a connection keeps the invariant.
LEMMA ChannelStep ==
    ASSUME ChannelInv, [NextChannel]_channelVars
    PROVE  ChannelInv'
<1> Other("client") = "server" /\ Other("server") = "client" /\ "client" \in Side /\ "server" \in Side
  BY OtherSide DEF Side
<1>1. CASE ClientKey
  <2>1. chPc \in [Side -> Places] /\ chPc' = [chPc EXCEPT !["client"] = "await_key"] /\ chPc["client"] = "start"
    BY <1>1 DEF ClientKey, ChannelInv, ChannelTypes
  <2>2. chPc' \in [Side -> Places] /\ chPc'["client"] = "await_key" /\ chPc'["server"] = chPc["server"]
    BY <2>1 DEF Places, Side
  <2>3. QED
    BY <1>1, <2>1, <2>2, SendKeyKeeps DEF ClientKey, HasSent, HasRead
<1>2. CASE ServerListens
  <2>1. /\ chPc \in [Side -> Places] /\ chPc' = [chPc EXCEPT !["server"] = "await_key"] /\ chPc["server"] = "start"
        /\ UNCHANGED <<ourCipher, peerCipher, wire, unreadable, used>>
    BY <1>2 DEF ServerListens, ChannelInv, ChannelTypes
  <2>2. chPc' \in [Side -> Places] /\ chPc'["client"] = chPc["client"] /\ chPc'["server"] = "await_key"
    BY <2>1 DEF Places, Side
  <2>3. \A s \in Side : HasRead(s)' = HasRead(s) /\ HasSent(s)' = HasSent(s)
    BY <2>1, <2>2 DEF HasSent, HasRead, Side
  <2>4. \A s \in Side : Direction(s)'
    BY <2>1, <2>3, OtherSide DEF ChannelInv, Direction
  <2>5. QED
    BY <2>1, <2>2, <2>4 DEF ChannelInv, ChannelTypes
<1>3. CASE ServerKey
  <2>1. /\ chPc \in [Side -> Places] /\ chPc' = [chPc EXCEPT !["server"] = "await_handshake"]
        /\ chPc["server"] = "reply_key" /\ chPc["client"] # "reply_key"
    BY <1>3 DEF ServerKey, ChannelInv, ChannelTypes
  <2>2. chPc' \in [Side -> Places] /\ chPc'["client"] = chPc["client"] /\ chPc'["server"] = "await_handshake"
    BY <2>1 DEF Places, Side
  <2>3. QED
    BY <1>3, <2>1, <2>2, SendKeyKeeps DEF ServerKey, HasSent, HasRead
<1>4. ASSUME NEW s \in Side, SendHandshake(s)
      PROVE  ChannelInv'
  <2> DEFINE pc == IF s = "client" THEN "await_handshake" ELSE "done"
  <2>1. /\ chPc \in [Side -> Places] /\ chPc' = [chPc EXCEPT ![s] = pc]
        /\ chPc[s] = "send_handshake" /\ chPc["client"] # "reply_key"
        /\ SendBytes(s, "handshake") /\ UNCHANGED <<peerCipher, unreadable>>
    BY <1>4 DEF SendHandshake, ChannelInv, ChannelTypes
  <2>2. /\ chPc' \in [Side -> Places] /\ chPc'[s] = pc /\ chPc'[Other(s)] = chPc[Other(s)]
        /\ chPc'["client"] # "reply_key"
    BY <2>1, OtherSide DEF Places, Side
  <2>3. /\ HasSent(s) = 1 /\ HasSent(s)' = 2 /\ HasRead(s)' = HasRead(s)
        /\ HasSent(Other(s))' = HasSent(Other(s)) /\ HasRead(Other(s))' = HasRead(Other(s))
    BY <2>1, <2>2 DEF HasSent, HasRead, Side
  <2>4. QED
    BY <2>1, <2>2, <2>3, SendBytesKeeps
<1>5. ASSUME NEW s \in Side, SendPacket(s)
      PROVE  ChannelInv'
  <2>1. /\ chPc \in [Side -> Places] /\ chPc' = chPc /\ chPc[s] = "done" /\ chPc["client"] # "reply_key"
        /\ SendBytes(s, "data") /\ UNCHANGED <<peerCipher, unreadable>>
    BY <1>5 DEF SendPacket, ChannelInv, ChannelTypes
  <2>2. /\ HasSent(s) = 2 /\ HasSent(s)' = 2 /\ HasRead(s)' = HasRead(s)
        /\ HasSent(Other(s))' = HasSent(Other(s)) /\ HasRead(Other(s))' = HasRead(Other(s))
    BY <2>1 DEF HasSent, HasRead
  <2>3. QED
    BY <2>1, <2>2, SendBytesKeeps
<1>6. ASSUME NEW s \in Side, ReadPacket(s)
      PROVE  ChannelInv'
  BY <1>6, ReadPacketKeeps
<1>7. CASE UNCHANGED channelVars
  <2>1. /\ UNCHANGED <<chPc, ourCipher, peerCipher, wire, unreadable, used>>
    BY <1>7 DEF channelVars
  <2>2. \A s \in Side : HasRead(s)' = HasRead(s) /\ HasSent(s)' = HasSent(s)
    BY <2>1 DEF HasSent, HasRead
  <2>3. \A s \in Side : Direction(s)'
    BY <2>1, <2>2, OtherSide DEF ChannelInv, Direction
  <2>4. QED
    BY <2>1, <2>3 DEF ChannelInv, ChannelTypes
<1>8. QED
  BY <1>1, <1>2, <1>3, <1>4, <1>5, <1>6, <1>7 DEF NextChannel

LEMMA ChannelInitially == InitChannel => ChannelInv
<1>1. SUFFICES ASSUME InitChannel PROVE ChannelInv
  OBVIOUS
<1>2. NoCipher \in Ciphers
  BY DEF NoCipher, Ciphers, Keys
<1>3. ChannelTypes
  BY <1>1, <1>2 DEF InitChannel, ChannelTypes, Side, Places
<1>4. ASSUME NEW s \in Side PROVE Direction(s)
  <2>1. Other(s) \in Side
    BY OtherSide
  <2>2. /\ chPc[s] = "start" /\ chPc[Other(s)] = "start" /\ used[s] = <<>> /\ wire[Other(s)] = <<>>
        /\ ourCipher[s] = NoCipher /\ peerCipher[Other(s)] = NoCipher
    BY <1>1, <2>1 DEF InitChannel
  <2>3. HasSent(s) = 0 /\ HasRead(Other(s)) = 0
    BY <2>2 DEF HasSent, HasRead
  <2>4. Len(<<>>) = 0 /\ Ascending(<<>>, NoCipher) /\ Leads(<<>>, NoCipher, NoCipher) /\ Kinds(<<>>, 0)
    BY DEF Ascending, Leads, Kinds
  <2>5. QED
    BY <2>2, <2>3, <2>4 DEF Direction
<1>5. QED
  BY <1>1, <1>3, <1>4 DEF InitChannel, ChannelInv

\* The stream between the two sides of a connection is a chain of ciphers, always.
THEOREM ChannelInvariant == ChannelSpec => []ChannelInv
<1>1. ChannelInv /\ [NextChannel]_channelVars => ChannelInv'
  BY ChannelStep
<1>2. QED
  BY <1>1, ChannelInitially, PTL DEF ChannelSpec

\* encrypt_packet never uses a nonce twice under one key, however often the key is
\* rotated and however the two directions interleave.
THEOREM ChannelNonceOnce == ChannelSpec => []NonceOnce
<1>1. ChannelInv => NonceOnce
  <2>1. SUFFICES ASSUME ChannelInv, NEW s \in Side, NEW i \in DOMAIN used[s], NEW j \in DOMAIN used[s],
                        used[s][i] = used[s][j], i < j
                 PROVE  FALSE
    <3>1. \A s \in Side : DOMAIN used[s] = 1..Len(used[s]) /\ Len(used[s]) \in Nat
      BY DEF ChannelInv, ChannelTypes
    <3>2. QED
      BY <3>1 DEF NonceOnce
  <2>2. used[s] \in Seq(Ciphers) /\ Ascending(used[s], ourCipher[s])
    BY <2>1 DEF ChannelInv, ChannelTypes, Direction
  <2>3. used[s][i] \in Ciphers /\ Earlier(used[s][i], used[s][j])
    BY <2>1, <2>2 DEF Ascending
  <2>4. QED
    BY <2>1, <2>3 DEF Earlier, Ciphers, Keys
<1>2. QED
  BY <1>1, ChannelInvariant, PTL

\* Neither side ever meets a packet it cannot decrypt or does not expect: through the
\* key exchange, the handshakes and every later rotation of either key.
THEOREM ChannelReadable == ChannelSpec => []AllReadable
<1>1. ChannelInv => AllReadable
  BY DEF ChannelInv, AllReadable
<1>2. QED
  BY <1>1, ChannelInvariant, PTL
-------------------------------------------------------------------------------
(* The list of the peers.                                                       *)

Connections ==
    [node : Node, stage : {"handshake", "refused", "verified", "served"},
     closed : BOOLEAN, gone : BOOLEAN]
WritePlaces == {"none", "spawned", "loop", "check", "remove", "end"}
ReadPlaces == WritePlaces \cup {"unlist"}
OperatorPlaces == {"idle", "unlist", "tell", "tell_close", "check", "remove"}

ConnTypes ==
    /\ \E k \in 0..MaxConns : Opened = 1..k
    /\ conn \in [Opened -> Connections]
ListTypes == peers \in [Node -> Conn \cup {Unlisted}] /\ displaced \subseteq Conn
TaskTypes ==
    /\ w \in [Conn -> WritePlaces] /\ r \in [Conn -> ReadPlaces] /\ a \in [Conn -> OperatorPlaces]
NoteTypes ==
    /\ exitW \subseteq Conn /\ exitR \subseteq Conn /\ overtaken \subseteq Conn /\ unheard \subseteq Conn
    /\ dialing \in Conn \cup {Unlisted}
    /\ events \in 0..MaxEvents

LifecycleTypes == ConnTypes /\ ListTypes /\ TaskTypes /\ NoteTypes

\* The connection c is the one the list has for its peer.
Holds(c) == peers[conn[c].node] = c

\* Somebody is going to remove the peer of c.
Closer(c) ==
    w[c] \in {"check", "remove"} \/ r[c] \in {"check", "remove", "unlist"} \/ a[c] \in {"check", "remove", "unlist"}

\* Somebody has begun to end c, or it has ended.
Touched(c) == conn[c].closed \/ c \in exitW \cup exitR \/ w[c] = "end" \/ r[c] = "end"

\* The tasks of c know that it ends, or will be told.
Leaving(c) ==
    \/ conn[c].closed \/ a[c] \in {"tell", "tell_close"}
    \/ w[c] \in {"check", "remove", "end"} \/ r[c] \in {"check", "remove", "end"}
    \/ c \in exitW \cup exitR \cup displaced \cup unheard

\* A connection that is not served has no tasks and no closer.
Unserved(c) ==
    /\ w[c] = "none" /\ r[c] = "none" /\ a[c] = "idle" /\ c \notin exitW \cup exitR
    /\ c \in Opened /\ conn[c].stage \in {"handshake", "verified"} => ~conn[c].closed

Served(c) ==
    /\ w[c] # "none" /\ r[c] # "none"
    /\ r[c] = "unlist" => c \in exitR
    /\ a[c] \in {"tell", "tell_close"} => ~Holds(c)
    /\ Holds(c) /\ c \notin overtaken /\ Touched(c) => Closer(c)
    /\ ~Holds(c) => Leaving(c)

ConnectionInv(c) == IF Serves(c) THEN Served(c) ELSE Unserved(c)

ListFits == IsFiniteSet(Listed) /\ Capacity

LifecycleInv == LifecycleTypes /\ ListFits /\ \A c \in Conn : ConnectionInv(c)

-------------------------------------------------------------------------------
(* What a step that closes, or removes a peer, does to a connection *)

\* The step leaves the connection d as it is, unless the closer of another connection of
\* the same peer removes it from the list.
Spared(d) ==
    /\ d \in Opened' <=> d \in Opened
    /\ d \in Opened => conn'[d] = conn[d]
    /\ w'[d] = w[d] /\ r'[d] = r[d] /\ a'[d] = a[d]
    /\ d \in exitW' <=> d \in exitW
    /\ d \in exitR' <=> d \in exitR
    /\ overtaken \subseteq overtaken' /\ displaced \subseteq displaced' /\ unheard \subseteq unheard'
    /\ d \in Opened => /\ peers'[conn[d].node] = d => peers[conn[d].node] = d
                       /\ peers[conn[d].node] = d => peers'[conn[d].node] = d \/ d \in displaced'

\* A connection keeps its peer and how far it got, and nobody is added to the list.
Settled ==
    /\ Opened' = Opened
    /\ \A d \in Opened : conn'[d].node = conn[d].node /\ conn'[d].stage = conn[d].stage
    /\ \A n \in Node : peers'[n] \in {peers[n], Unlisted}

LEMMA SparedKeeps ==
    ASSUME NEW d \in Conn, ConnectionInv(d), Spared(d)
    PROVE  ConnectionInv(d)'
<1>1. CASE d \notin Opened
  BY <1>1 DEF Spared, ConnectionInv, Serves, Unserved
<1>2. CASE d \in Opened
  BY <1>2 DEF Spared, ConnectionInv, Serves, Unserved, Served, Holds, Touched, Closer, Leaving
<1>3. QED BY <1>1, <1>2

LEMMA SettledFits ==
    ASSUME LifecycleTypes, ListFits, Settled
    PROVE  ListFits'
<1>1. Listed' \subseteq Listed /\ \A n \in Listed' : peers'[n] = peers[n]
  BY DEF Listed, Settled
<1>2. IsFiniteSet(Listed') /\ Cardinality(Listed') <= Cardinality(Listed)
  BY <1>1, FS_Subset DEF ListFits
<1>3. Cardinality(Listed) \in Nat /\ Cardinality(Listed') \in Nat /\ MaxPeers \in Nat
  BY <1>2, FS_CardinalityType, LifecycleAssumption DEF ListFits
<1>4. Cardinality(Listed') <= MaxPeers
  BY <1>2, <1>3 DEF ListFits, Capacity
<1>5. \A n \in Listed' : Serves(peers[n])' /\ conn'[peers'[n]].node = n
  BY <1>1 DEF ListFits, Capacity, Settled, Serves
<1>6. QED
  BY <1>2, <1>4, <1>5, <1>1 DEF ListFits, Capacity, Serves

\* A step on the connection c that spares the others keeps the invariant.
LEMMA OneConnection ==
    ASSUME LifecycleInv, NEW c \in Conn, LifecycleTypes', Settled, ConnectionInv(c)',
           \A d \in Conn \ {c} : Spared(d)
    PROVE  LifecycleInv'
<1>1. ListFits'
  BY SettledFits DEF LifecycleInv
<1>2. \A d \in Conn \ {c} : ConnectionInv(d)'
  BY SparedKeeps DEF LifecycleInv
<1>3. Conn' = Conn
  BY DEF Conn
<1>4. QED
  BY <1>1, <1>2, <1>3 DEF LifecycleInv

\* What CloseConnection does to the connections.
LEMMA CloseEffect ==
    ASSUME LifecycleTypes, NEW c \in Opened, CloseConnection(c)
    PROVE  /\ Opened' = Opened /\ conn' \in [Opened -> Connections]
           /\ \A d \in Opened \ {c} : conn'[d] = conn[d]
           /\ conn'[c].closed /\ conn'[c].node = conn[c].node /\ conn'[c].stage = conn[c].stage
           /\ conn'[c].gone = conn[c].gone
<1>1. conn[c] \in Connections /\ conn = [d \in Opened |-> conn[d]]
  BY DEF LifecycleTypes, ConnTypes
<1>2. conn' = [conn EXCEPT ![c] = [conn[c] EXCEPT !.closed = TRUE]]
  BY DEF CloseConnection
<1>3. [conn[c] EXCEPT !.closed = TRUE] \in Connections
  BY <1>1 DEF Connections
<1>4. QED
  BY <1>1, <1>2, <1>3 DEF Opened, Connections, LifecycleTypes, ConnTypes

\* What remove_peer does to the list.
LEMMA RemoveEffect ==
    ASSUME LifecycleTypes, NEW c \in Opened, remove_peer(c)
    PROVE  /\ peers' \in [Node -> Conn \cup {Unlisted}] /\ displaced' \subseteq Conn
           /\ displaced \subseteq displaced'
           /\ peers'[conn[c].node] = Unlisted
           /\ \A n \in Node : peers'[n] \in {peers[n], Unlisted}
           /\ \A d \in Opened \ {c} :
                /\ peers'[conn[d].node] = d => peers[conn[d].node] = d
                /\ peers[conn[d].node] = d => peers'[conn[d].node] = d \/ d \in displaced'
<1>1. conn[c].node \in Node /\ \A d \in Opened : conn[d].node \in Node /\ d # Unlisted
  BY DEF LifecycleTypes, ConnTypes, Connections, Unlisted
<1>2. QED
  BY <1>1 DEF LifecycleTypes, ConnTypes, ListTypes, remove_peer, Unlisted, Conn

LEMMA OpenedConn ==
    ASSUME LifecycleTypes
    PROVE  Opened \subseteq Conn /\ \A c \in Opened : conn[c] \in Connections
BY LifecycleAssumption DEF LifecycleTypes, ConnTypes, Conn

-------------------------------------------------------------------------------
(* The tasks and the operator, one step on the connection c *)

\* A step that starts from the invariant on an open connection.
Starts(c) == LifecycleInv /\ c \in Opened

LEMMA StartFacts ==
    ASSUME NEW c, Starts(c)
    PROVE  /\ LifecycleTypes /\ c \in Opened /\ c \in Conn /\ ConnectionInv(c)
           /\ conn[c] \in Connections /\ Opened \subseteq Conn
BY OpenedConn DEF Starts, LifecycleInv

\* A step that only moves the tasks, the operator and the messages of c.
Moves(c) ==
    /\ conn' = conn /\ peers' = peers /\ displaced \subseteq displaced'
    /\ overtaken \subseteq overtaken' /\ unheard \subseteq unheard'
    /\ \A d \in Conn \ {c} :
         /\ w'[d] = w[d] /\ r'[d] = r[d] /\ a'[d] = a[d]
         /\ d \in exitW' <=> d \in exitW
         /\ d \in exitR' <=> d \in exitR

LEMMA MovesSpare ==
    ASSUME NEW c, Moves(c)
    PROVE  Settled /\ \A d \in Conn \ {c} : Spared(d)
BY DEF Moves, Settled, Spared, Opened

LEMMA StillTyped ==
    ASSUME LifecycleTypes
    PROVE  /\ conn' = conn => ConnTypes'
           /\ peers' = peers /\ displaced' = displaced => ListTypes'
           /\ events' = events \/ Event => events' \in 0..MaxEvents
BY LifecycleAssumption DEF LifecycleTypes, ConnTypes, ListTypes, NoteTypes, Opened, Conn, Event

LEMMA MoveKeeps ==
    ASSUME NEW c, Starts(c), Moves(c), displaced' = displaced, TaskTypes', NoteTypes', ConnectionInv(c)'
    PROVE  LifecycleInv'
<1>1. LifecycleTypes'
  BY StartFacts, StillTyped DEF LifecycleTypes, Moves
<1>2. QED
  BY <1>1, StartFacts, MovesSpare, OneConnection DEF Starts

LEMMA WriteMoves ==
    ASSUME NEW c, Starts(c), WriteStarts(c) \/ WriteBeats(c) \/ WriteGivesUp(c)
    PROVE  LifecycleInv'
<1> USE StartFacts
<1>1. TaskTypes'
  BY DEF LifecycleTypes, TaskTypes, WriteStarts, WriteBeats, WriteGivesUp, WritePlaces, others, Conn
<1>2. NoteTypes'
  BY StillTyped DEF LifecycleTypes, NoteTypes, WriteStarts, WriteBeats, WriteGivesUp, SignalOthers, others, Conn
<1>3. Moves(c) /\ displaced' = displaced
  BY DEF LifecycleTypes, TaskTypes, WriteStarts, WriteBeats, WriteGivesUp, SignalOthers, Moves, others
<1>4. ConnectionInv(c)'
  BY DEF LifecycleTypes, TaskTypes, WriteStarts, WriteBeats, HeartbeatSees, WriteGivesUp, SignalOthers,
         ConnectionInv, Serves, Unserved, Served, Holds, Touched, Closer, Leaving, others, Opened
<1>5. QED
  BY <1>1, <1>2, <1>3, <1>4, MoveKeeps

LEMMA ReadMoves ==
    ASSUME NEW c, Starts(c), ReadStarts(c) \/ ReadTold(c) \/ ReadTooManyFails(c)
    PROVE  LifecycleInv'
<1> USE StartFacts
<1>1. TaskTypes'
  BY DEF LifecycleTypes, TaskTypes, ReadStarts, ReadTold, ReadTooManyFails, ReadPlaces, WritePlaces, others, Conn
<1>2. NoteTypes'
  BY StillTyped DEF LifecycleTypes, NoteTypes, ReadStarts, ReadTold, ReadTooManyFails, Signal, SignalOthers, others, Conn
<1>3. Moves(c) /\ displaced' = displaced
  BY DEF LifecycleTypes, TaskTypes, ReadStarts, ReadTold, ReadTooManyFails, Signal, SignalOthers, Moves, others
<1>4. ConnectionInv(c)'
  BY DEF LifecycleTypes, TaskTypes, ReadStarts, ReadTold, ReadTooManyFails, Reads, Signal, SignalOthers,
         ConnectionInv, Serves, Unserved, Served, Holds, Touched, Closer, Leaving, others, Opened
<1>5. QED
  BY <1>1, <1>2, <1>3, <1>4, MoveKeeps

LEMMA SignalExitKeeps ==
    ASSUME NEW c, Starts(c), SignalExit(c)
    PROVE  LifecycleInv'
<1> USE StartFacts
<1>1. TaskTypes'
  BY DEF LifecycleTypes, TaskTypes, SignalExit, OperatorPlaces, Conn
<1>2. NoteTypes'
  BY StillTyped DEF LifecycleTypes, NoteTypes, SignalExit, Signal, Conn
<1>3. Moves(c) /\ displaced' = displaced
  BY DEF LifecycleTypes, TaskTypes, SignalExit, Signal, Moves
<1>4. ConnectionInv(c)'
  <2>1. w[c] \in WritePlaces /\ r[c] \in ReadPlaces
    BY DEF LifecycleTypes, TaskTypes
  <2>2. QED
    BY <2>1 DEF LifecycleTypes, TaskTypes, SignalExit, Signal, WritePlaces, ReadPlaces,
         ConnectionInv, Serves, Unserved, Served, Holds, Touched, Closer, Leaving, Opened
<1>5. QED
  BY <1>1, <1>2, <1>3, <1>4, MoveKeeps

\* A kick, or a blacklisted address, starts from the connection the list has for the peer.
LEMMA CommandKeeps ==
    ASSUME NEW n \in Node, LifecycleInv, Kick(n) \/ Blacklist(n)
    PROVE  LifecycleInv'
<1>1. PICK c : c = peers[n]
  OBVIOUS
<1>2. n \in Listed
  BY DEF Kick, Blacklist, Listed
<1>3. Starts(c) /\ Serves(c) /\ Holds(c)
  BY <1>1, <1>2 DEF Starts, LifecycleInv, ListFits, Capacity, Serves, Holds
<1> USE StartFacts, <1>1, <1>3
<1>4. TaskTypes'
  BY DEF LifecycleTypes, TaskTypes, Kick, Blacklist, Command, OperatorPlaces, Conn
<1>5. NoteTypes'
  BY StillTyped DEF LifecycleTypes, NoteTypes, Kick, Blacklist, Command, Signal, Conn
<1>6. Moves(c) /\ displaced' = displaced
  BY DEF LifecycleTypes, TaskTypes, Kick, Blacklist, Command, Signal, Moves
<1>7. ConnectionInv(c)'
  BY DEF LifecycleTypes, TaskTypes, Kick, Blacklist, Command, Signal,
         ConnectionInv, Serves, Served, Holds, Touched, Closer, Leaving, Opened
<1>8. QED
  BY <1>4, <1>5, <1>6, <1>7, MoveKeeps

-------------------------------------------------------------------------------
(* Steps that close a connection or remove its peer *)

\* The step closes c or leaves the connections alone, and removes the peer of c or leaves
\* the list alone.
Ends(c) ==
    /\ UNCHANGED conn \/ CloseConnection(c)
    /\ UNCHANGED <<peers, displaced>> \/ remove_peer(c)
    /\ overtaken \subseteq overtaken' /\ unheard' = unheard
    /\ \A d \in Conn \ {c} :
         /\ w'[d] = w[d] /\ r'[d] = r[d] /\ a'[d] = a[d]
         /\ d \in exitW' <=> d \in exitW
         /\ d \in exitR' <=> d \in exitR

LEMMA EndKeeps ==
    ASSUME NEW c, Starts(c), Ends(c), TaskTypes', NoteTypes', ConnectionInv(c)'
    PROVE  LifecycleInv'
<1> USE StartFacts
<1>1. /\ ConnTypes' /\ Opened' = Opened
      /\ \A d \in Opened \ {c} : conn'[d] = conn[d]
      /\ conn'[c].node = conn[c].node /\ conn'[c].stage = conn[c].stage
  <2>1. CASE UNCHANGED conn
    BY <2>1, StillTyped DEF Opened
  <2>2. CASE CloseConnection(c)
    BY <2>2, CloseEffect, LifecycleAssumption DEF LifecycleTypes, ConnTypes
  <2>3. QED
    BY <2>1, <2>2 DEF Ends
<1>2. /\ ListTypes' /\ displaced \subseteq displaced'
      /\ \A n \in Node : peers'[n] \in {peers[n], Unlisted}
      /\ \A d \in Opened \ {c} :
           /\ peers'[conn[d].node] = d => peers[conn[d].node] = d
           /\ peers[conn[d].node] = d => peers'[conn[d].node] = d \/ d \in displaced'
  <2>1. CASE UNCHANGED <<peers, displaced>>
    BY <2>1, StillTyped
  <2>2. CASE remove_peer(c)
    BY <2>2, RemoveEffect DEF ListTypes, Conn
  <2>3. QED
    BY <2>1, <2>2 DEF Ends
<1>3. Settled
  BY <1>1, <1>2 DEF Settled
<1>4. \A d \in Conn \ {c} : Spared(d)
  BY <1>1, <1>2 DEF Spared, Ends
<1>5. LifecycleTypes'
  BY <1>1, <1>2 DEF LifecycleTypes
<1>6. QED
  BY <1>3, <1>4, <1>5, OneConnection DEF Starts

\* What CloseInternal leaves of c, whoever takes its step: looking, the closer goes on to
\* remove the peer, or finds the connection closed and says so; having looked, it does.
LEMMA CloseInternalEffect ==
    ASSUME NEW c, Starts(c), NEW pc, CloseInternal(pc, c)
    PROVE  /\ UNCHANGED conn \/ CloseConnection(c)
           /\ UNCHANGED <<peers, displaced>> \/ remove_peer(c)
           /\ overtaken \subseteq overtaken' /\ overtaken' \subseteq Conn
           /\ Opened' = Opened
           /\ conn'[c].node = conn[c].node /\ conn'[c].stage = conn[c].stage
           /\ \/ /\ pc[c] = "check" /\ conn'[c].closed = conn[c].closed
                 /\ peers' = peers /\ displaced' = displaced
                 /\ conn[c].closed => c \in overtaken'
              \/ /\ pc[c] = "remove" /\ conn'[c].closed
                 /\ peers'[conn[c].node] = Unlisted /\ displaced \subseteq displaced'
<1> USE StartFacts
<1>1. CASE pc[c] = "check" /\ UNCHANGED <<conn, peers, displaced>>
           /\ overtaken' = (IF conn[c].closed THEN overtaken \cup {c} ELSE overtaken)
  BY <1>1 DEF Opened, LifecycleTypes, NoteTypes
<1>2. CASE pc[c] = "remove" /\ CloseRemoves(c) /\ CloseConnection(c) /\ UNCHANGED overtaken
  BY <1>2, CloseEffect, RemoveEffect DEF CloseRemoves, LifecycleTypes, NoteTypes
<1>3. QED
  BY <1>1, <1>2 DEF CloseInternal

LEMMA WriteClosesKeeps ==
    ASSUME NEW c, Starts(c), WriteCloses(c)
    PROVE  LifecycleInv'
<1> USE StartFacts
<1>1. CloseInternal(w, c) /\ w' = [w EXCEPT ![c] = Following(w, c, "end")]
      /\ UNCHANGED <<r, exitW, exitR, unheard, dialing, events, a>>
  BY DEF WriteCloses
<1>2. PICK pc : pc = w /\ CloseInternal(pc, c)
  BY <1>1
<1>3. /\ UNCHANGED conn \/ CloseConnection(c)
      /\ UNCHANGED <<peers, displaced>> \/ remove_peer(c)
      /\ overtaken \subseteq overtaken' /\ overtaken' \subseteq Conn
      /\ Opened' = Opened
      /\ conn'[c].node = conn[c].node /\ conn'[c].stage = conn[c].stage
      /\ \/ /\ w[c] = "check" /\ conn'[c].closed = conn[c].closed
            /\ peers' = peers /\ displaced' = displaced
            /\ conn[c].closed => c \in overtaken'
         \/ /\ w[c] = "remove" /\ conn'[c].closed
            /\ peers'[conn[c].node] = Unlisted /\ displaced \subseteq displaced'
  BY <1>2, CloseInternalEffect
<1>4. TaskTypes'
  BY <1>1 DEF LifecycleTypes, TaskTypes, Following, WritePlaces, Conn
<1>5. NoteTypes'
  BY <1>1, <1>3 DEF LifecycleTypes, NoteTypes, Conn
<1>6. Ends(c)
  BY <1>1, <1>3 DEF Ends, LifecycleTypes, TaskTypes
<1>7. ConnectionInv(c)'
  BY <1>1, <1>3 DEF LifecycleTypes, TaskTypes, Following, Unlisted, Conn,
         ConnectionInv, Serves, Unserved, Served, Holds, Touched, Closer, Leaving
<1>8. QED
  BY <1>4, <1>5, <1>6, <1>7, EndKeeps

LEMMA ReadClosesKeeps ==
    ASSUME NEW c, Starts(c), ReadCloses(c)
    PROVE  LifecycleInv'
<1> USE StartFacts
<1>1. CloseInternal(r, c) /\ r' = [r EXCEPT ![c] = Following(r, c, "end")]
      /\ UNCHANGED <<w, exitW, exitR, unheard, dialing, events, a>>
  BY DEF ReadCloses
<1>2. PICK pc : pc = r /\ CloseInternal(pc, c)
  BY <1>1
<1>3. /\ UNCHANGED conn \/ CloseConnection(c)
      /\ UNCHANGED <<peers, displaced>> \/ remove_peer(c)
      /\ overtaken \subseteq overtaken' /\ overtaken' \subseteq Conn
      /\ Opened' = Opened
      /\ conn'[c].node = conn[c].node /\ conn'[c].stage = conn[c].stage
      /\ \/ /\ r[c] = "check" /\ conn'[c].closed = conn[c].closed
            /\ peers' = peers /\ displaced' = displaced
            /\ conn[c].closed => c \in overtaken'
         \/ /\ r[c] = "remove" /\ conn'[c].closed
            /\ peers'[conn[c].node] = Unlisted /\ displaced \subseteq displaced'
  BY <1>2, CloseInternalEffect
<1>4. TaskTypes'
  BY <1>1 DEF LifecycleTypes, TaskTypes, Following, ReadPlaces, WritePlaces, Conn
<1>5. NoteTypes'
  BY <1>1, <1>3 DEF LifecycleTypes, NoteTypes, Conn
<1>6. Ends(c)
  BY <1>1, <1>3 DEF Ends, LifecycleTypes, TaskTypes
<1>7. ConnectionInv(c)'
  BY <1>1, <1>3 DEF LifecycleTypes, TaskTypes, Following, Unlisted, Conn,
         ConnectionInv, Serves, Unserved, Served, Holds, Touched, Closer, Leaving
<1>8. QED
  BY <1>4, <1>5, <1>6, <1>7, EndKeeps

LEMMA OperatorClosesKeeps ==
    ASSUME NEW c, Starts(c), OperatorCloses(c)
    PROVE  LifecycleInv'
<1> USE StartFacts
<1>1. CloseInternal(a, c) /\ a' = [a EXCEPT ![c] = Following(a, c, "idle")]
      /\ UNCHANGED <<exitW, exitR, unheard, dialing, events, w, r>>
  BY DEF OperatorCloses
<1>2. PICK pc : pc = a /\ CloseInternal(pc, c)
  BY <1>1
<1>3. /\ UNCHANGED conn \/ CloseConnection(c)
      /\ UNCHANGED <<peers, displaced>> \/ remove_peer(c)
      /\ overtaken \subseteq overtaken' /\ overtaken' \subseteq Conn
      /\ Opened' = Opened
      /\ conn'[c].node = conn[c].node /\ conn'[c].stage = conn[c].stage
      /\ \/ /\ a[c] = "check" /\ conn'[c].closed = conn[c].closed
            /\ peers' = peers /\ displaced' = displaced
            /\ conn[c].closed => c \in overtaken'
         \/ /\ a[c] = "remove" /\ conn'[c].closed
            /\ peers'[conn[c].node] = Unlisted /\ displaced \subseteq displaced'
  BY <1>2, CloseInternalEffect
<1>4. TaskTypes'
  BY <1>1 DEF LifecycleTypes, TaskTypes, Following, OperatorPlaces, Conn
<1>5. NoteTypes'
  BY <1>1, <1>3 DEF LifecycleTypes, NoteTypes, Conn
<1>6. Ends(c)
  BY <1>1, <1>3 DEF Ends, LifecycleTypes, TaskTypes
<1>7. ConnectionInv(c)'
  BY <1>1, <1>3 DEF LifecycleTypes, TaskTypes, Following, Unlisted, Conn,
         ConnectionInv, Serves, Unserved, Served, Holds, Touched, Closer, Leaving
<1>8. QED
  BY <1>4, <1>5, <1>6, <1>7, EndKeeps

\* The task that is told to stop and the second handshake close without removing.
LEMMA CloseOnly ==
    ASSUME NEW c, Starts(c), WriteTold(c) \/ ReadHandshake(c)
    PROVE  LifecycleInv'
<1> USE StartFacts
<1>1. CloseConnection(c) /\ UNCHANGED <<peers, displaced>>
  BY DEF WriteTold, ReadHandshake
<1>2. /\ Opened' = Opened
      /\ conn'[c].closed /\ conn'[c].node = conn[c].node /\ conn'[c].stage = conn[c].stage
  BY <1>1, CloseEffect
<1>3. TaskTypes'
  BY DEF LifecycleTypes, TaskTypes, WriteTold, ReadHandshake, WritePlaces, others, Conn
<1>4. NoteTypes'
  BY StillTyped DEF LifecycleTypes, NoteTypes, WriteTold, ReadHandshake, others, Conn
<1>5. Ends(c)
  BY <1>1 DEF Ends, LifecycleTypes, TaskTypes, WriteTold, ReadHandshake, others
<1>6. ConnectionInv(c)'
  BY <1>1, <1>2 DEF LifecycleTypes, TaskTypes, WriteTold, ReadHandshake, Reads, others,
         ConnectionInv, Serves, Unserved, Served, Holds, Touched, Closer, Leaving
<1>7. QED
  BY <1>3, <1>4, <1>5, <1>6, EndKeeps

\* The temporary ban and the kick remove without closing; messages wait, or are to come.
LEMMA RemoveOnly ==
    ASSUME NEW c, Starts(c), ReadUnlists(c) \/ KickUnlists(c)
    PROVE  LifecycleInv'
<1> USE StartFacts
<1>1. remove_peer(c) /\ UNCHANGED <<conn, exitW, exitR, unheard, w, overtaken, events, dialing>>
  BY DEF ReadUnlists, KickUnlists, others
<1>2. /\ displaced \subseteq displaced' /\ peers'[conn[c].node] = Unlisted
  BY <1>1, RemoveEffect
<1>3. TaskTypes'
  BY DEF LifecycleTypes, TaskTypes, ReadUnlists, KickUnlists, KickGoesOn, ReadPlaces, WritePlaces, OperatorPlaces, others, Conn
<1>4. NoteTypes'
  BY <1>1 DEF LifecycleTypes, NoteTypes, Conn
<1>5. Ends(c)
  BY <1>1 DEF Ends, LifecycleTypes, TaskTypes, ReadUnlists, KickUnlists, others
<1>6. ConnectionInv(c)'
  <2>1. ~Holds(c)' /\ (Serves(c)' <=> Serves(c))
    BY <1>1, <1>2 DEF Holds, Unlisted, Conn, Serves, Opened
  <2>2. CASE ReadUnlists(c)
    BY <1>1, <2>1, <2>2 DEF LifecycleTypes, TaskTypes, ReadUnlists, others,
         ConnectionInv, Unserved, Served, Closer, Leaving
  <2>3. CASE KickUnlists(c)
    BY <1>1, <2>1, <2>3 DEF LifecycleTypes, TaskTypes, KickUnlists, KickGoesOn,
         ConnectionInv, Unserved, Served, Closer, Leaving
  <2>4. QED
    BY <2>2, <2>3
<1>7. QED
  BY <1>3, <1>4, <1>5, <1>6, EndKeeps

\* Clearing the list: every connection it had is to be told, and to be closed.
LEMMA ClearKeeps ==
    ASSUME LifecycleInv, ClearConnections
    PROVE  LifecycleInv'
<1>1. /\ LifecycleTypes /\ \A c \in Conn : ConnectionInv(c) /\ a[c] = "idle"
      /\ UNCHANGED <<conn, dialing, overtaken, displaced, w, r, exitW, exitR, unheard>> /\ Event
      /\ peers' = [n \in Node |-> Unlisted]
      /\ a' = [c \in Conn |-> IF \E n \in Node : peers[n] = c THEN "tell_close" ELSE a[c]]
  BY DEF LifecycleInv, ClearConnections, Command
<1>2. TaskTypes'
  BY <1>1 DEF LifecycleTypes, TaskTypes, OperatorPlaces, Conn
<1>3. NoteTypes'
  BY <1>1, StillTyped DEF LifecycleTypes, NoteTypes, Conn
<1>4. ConnTypes' /\ ListTypes'
  BY <1>1, StillTyped DEF LifecycleTypes, ListTypes, Conn, Unlisted
<1>5. Settled
  BY <1>1 DEF Settled, Opened
<1>6. ASSUME NEW c \in Conn
      PROVE  ConnectionInv(c)'
  <2>1. CASE c \notin Opened
    <3>1. ~\E n \in Node : peers[n] = c
      BY <2>1, <1>1, OpenedConn DEF LifecycleInv, ListFits, Capacity, Listed, Serves, Conn, Unlisted
    <3>2. QED
      BY <1>1, <2>1, <3>1 DEF ConnectionInv, Serves, Unserved, Opened
  <2>2. CASE c \in Opened
    <3>1. conn[c].node \in Node /\ c # Unlisted
      BY <1>1, <2>2, OpenedConn DEF Connections, Conn, Unlisted
    <3>2. ~Holds(c)' /\ (Serves(c)' <=> Serves(c))
      BY <1>1, <2>2, <3>1 DEF Holds, Serves, Opened
    <3>3. CASE Holds(c)
      <4>1. Serves(c) /\ a'[c] = "tell_close"
        BY <1>1, <3>1, <3>3 DEF Holds, LifecycleInv, ListFits, Capacity, Listed
      <4>2. QED
        BY <1>1, <3>2, <4>1 DEF ConnectionInv, Served, Leaving, Closer, Touched
    <3>4. CASE ~Holds(c)
      <4>1. ~\E n \in Node : peers[n] = c
        BY <2>2, <1>1, <3>4, <3>1 DEF LifecycleInv, ListFits, Capacity, Listed, Holds
      <4>2. a'[c] = a[c]
        BY <1>1, <4>1
      <4>3. QED
        BY <1>1, <3>2, <3>4, <4>2 DEF ConnectionInv, Served, Unserved, Leaving, Closer, Touched, Opened
    <3>5. QED
      BY <3>3, <3>4
  <2>3. QED
    BY <2>1, <2>2
<1>7. Conn' = Conn
  BY DEF Conn
<1>8. ListFits'
  BY <1>1, <1>5, SettledFits DEF LifecycleInv
<1>9. QED
  BY <1>2, <1>3, <1>4, <1>6, <1>7, <1>8 DEF LifecycleInv, LifecycleTypes

-------------------------------------------------------------------------------
(* Connections that come, and how far they get *)

\* The other side ends the connection.
LEMMA GoneKeeps ==
    ASSUME NEW c, Starts(c), Gone(c)
    PROVE  LifecycleInv'
<1> USE StartFacts
<1>1. conn' = [conn EXCEPT ![c] = [conn[c] EXCEPT !.gone = TRUE]] /\ Event
      /\ UNCHANGED <<dialing, peers, w, r, a, exitW, exitR, overtaken, displaced, unheard>>
  BY DEF Gone
<1>2. [conn[c] EXCEPT !.gone = TRUE] \in Connections
  BY DEF Connections
<1>3. /\ conn' \in [Opened -> Connections] /\ Opened' = Opened
      /\ \A d \in Opened \ {c} : conn'[d] = conn[d]
      /\ conn'[c].node = conn[c].node /\ conn'[c].stage = conn[c].stage
      /\ conn'[c].closed = conn[c].closed
  BY <1>1, <1>2 DEF LifecycleTypes, ConnTypes, Opened, Connections
<1>4. LifecycleTypes'
  BY <1>1, <1>3, StillTyped, LifecycleAssumption DEF LifecycleTypes, ConnTypes, ListTypes, TaskTypes, NoteTypes, Conn
<1>5. Settled
  BY <1>1, <1>3 DEF Settled
<1>6. \A d \in Conn \ {c} : Spared(d)
  BY <1>1, <1>3 DEF Spared
<1>7. ConnectionInv(c)'
  BY <1>1, <1>3 DEF ConnectionInv, Serves, Unserved, Served, Holds, Touched, Closer, Leaving
<1>8. QED
  BY <1>4, <1>5, <1>6, <1>7, OneConnection DEF Starts

\* The connection c, not served yet, gets to the stage s; only a refused one is closed.
Stage(c, s) == conn' = [conn EXCEPT ![c].stage = s, ![c].closed = (s = "refused")]

LEMMA StageEffect ==
    ASSUME NEW c, Starts(c), ~Serves(c), NEW s \in {"refused", "verified", "served"}, Stage(c, s)
    PROVE  /\ ConnTypes' /\ Opened' = Opened
           /\ \A d \in Opened \ {c} : conn'[d] = conn[d]
           /\ conn'[c].node = conn[c].node /\ conn'[c].stage = s /\ conn'[c].closed = (s = "refused")
           /\ \A n \in Listed : peers[n] # c
<1> USE StartFacts
<1>1. PICK k : k = [conn[c] EXCEPT !.stage = s, !.closed = (s = "refused")]
  OBVIOUS
<1>2. /\ k \in Connections /\ k.node = conn[c].node /\ k.stage = s /\ k.closed = (s = "refused")
  BY <1>1 DEF Connections
<1>3. conn' = [conn EXCEPT ![c] = k]
  BY <1>1 DEF Stage
<1>4. conn' \in [Opened -> Connections] /\ Opened' = Opened
  BY <1>2, <1>3 DEF LifecycleTypes, ConnTypes, Opened
<1>5. QED
  BY <1>2, <1>3, <1>4, LifecycleAssumption
  DEF LifecycleTypes, ConnTypes, Opened, Starts, LifecycleInv, ListFits, Capacity

\* A handshake that ends, or a peer that is not listed: the connection is not served.
LEMMA StageKeeps ==
    ASSUME NEW c, Starts(c), ~Serves(c), NEW s \in {"refused", "verified"}, Stage(c, s),
           UNCHANGED <<peers, tasks>>, NoteTypes'
    PROVE  LifecycleInv'
<1> USE StartFacts
<1>1. /\ ConnTypes' /\ Opened' = Opened
      /\ \A d \in Opened \ {c} : conn'[d] = conn[d]
      /\ conn'[c].node = conn[c].node /\ conn'[c].stage = s /\ conn'[c].closed = (s = "refused")
      /\ \A n \in Listed : peers[n] # c
  BY StageEffect
<1>2. LifecycleTypes'
  BY <1>1, StillTyped DEF LifecycleTypes, TaskTypes, tasks, Conn
<1>3. Listed' = Listed
  BY DEF Listed
<1>4. ListFits'
  BY <1>1, <1>3 DEF Starts, LifecycleInv, ListFits, Capacity, Serves
<1>5. ConnectionInv(c)'
  BY <1>1 DEF ConnectionInv, Serves, Unserved, tasks
<1>6. \A d \in Conn \ {c} : ConnectionInv(d)'
  <2>1. \A d \in Conn \ {c} : Spared(d)
    BY <1>1 DEF Spared, tasks
  <2>2. QED
    BY <2>1, SparedKeeps DEF Starts, LifecycleInv
<1>7. Conn' = Conn
  BY DEF Conn
<1>8. QED
  BY <1>2, <1>4, <1>5, <1>6, <1>7 DEF LifecycleInv

LEMMA HandshakeKeeps ==
    ASSUME NEW c, Starts(c), Handshake(c)
    PROVE  LifecycleInv'
<1> USE StartFacts
<1>1. PICK s \in {"refused", "verified"} : HandshakeOver(c, s)
  BY DEF Handshake
<1>2. Stage(c, s) /\ ~Serves(c)
  BY <1>1 DEF HandshakeOver, Stage, Serves
<1>3. NoteTypes'
  BY <1>1 DEF HandshakeOver, LifecycleTypes, NoteTypes, tasks, Conn
<1>4. QED
  BY <1>1, <1>2, <1>3, StageKeeps DEF HandshakeOver

\* add_peer lists a peer that is not listed, while there is room.
LEMMA NewPeerKeeps ==
    ASSUME NEW c, Starts(c), NewPeer(c)
    PROVE  LifecycleInv'
<1> USE StartFacts
<1>1. PICK n \in Node : n = conn[c].node
  BY DEF Connections
<1>2. /\ conn[c].stage = "verified" /\ ~conn[c].closed /\ ~Serves(c)
  BY DEF NewPeer, Serves, ConnectionInv, Unserved
<1>3. CASE ~Accepts(n)
  <2>1. /\ conn' = [conn EXCEPT ![c].stage = "refused", ![c].closed = TRUE]
        /\ UNCHANGED <<peers, w, r, dialing, a, exitW, exitR, events, overtaken, displaced, unheard>>
    BY <1>1, <1>3 DEF NewPeer
  <2>2. Stage(c, "refused")
    BY <2>1 DEF Stage
  <2>3. NoteTypes' /\ UNCHANGED <<peers, tasks>>
    BY <2>1 DEF LifecycleTypes, NoteTypes, tasks, Conn
  <2>4. QED
    BY <2>2, <2>3, <1>2, StageKeeps
<1>4. CASE Accepts(n)
  <2>1. /\ peers' = [peers EXCEPT ![n] = c]
        /\ conn' = [conn EXCEPT ![c].stage = "served"]
        /\ w' = [w EXCEPT ![c] = "spawned"] /\ r' = [r EXCEPT ![c] = "spawned"]
        /\ UNCHANGED <<dialing, a, exitW, exitR, events, overtaken, displaced, unheard>>
    BY <1>1, <1>4 DEF NewPeer
  <2>2. Stage(c, "served")
    <3>1. [conn[c] EXCEPT !.stage = "served"] = [conn[c] EXCEPT !.stage = "served", !.closed = ("served" = "refused")]
      BY <1>2 DEF Connections
    <3>2. QED
      BY <2>1, <3>1 DEF Stage
  <2>3. /\ ConnTypes' /\ Opened' = Opened
        /\ \A d \in Opened \ {c} : conn'[d] = conn[d]
        /\ conn'[c].node = n /\ conn'[c].stage = "served" /\ conn'[c].closed = FALSE
        /\ \A m \in Listed : peers[m] # c
    BY <2>2, <1>1, <1>2, StageEffect
  <2>4. LifecycleTypes'
    BY <2>1, <2>3 DEF LifecycleTypes, ListTypes, TaskTypes, NoteTypes, Conn, WritePlaces, ReadPlaces
  <2>5. n \notin Listed /\ Listed' = Listed \cup {n} /\ Cardinality(Listed) < MaxPeers
    BY <2>1, <1>4 DEF Accepts, Listed, LifecycleTypes, ListTypes, Conn, Unlisted
  <2>6. ListFits'
    <3>1. IsFiniteSet(Listed') /\ Cardinality(Listed') = Cardinality(Listed) + 1 /\ Cardinality(Listed) \in Nat
      BY <2>5, FS_AddElement, FS_CardinalityType DEF Starts, LifecycleInv, ListFits
    <3>2. Cardinality(Listed') <= MaxPeers
      BY <3>1, <2>5, LifecycleAssumption
    <3>3. \A m \in Listed' : Serves(peers[m])' /\ conn'[peers'[m]].node = m
      <4>1. Serves(c)' /\ peers'[n] = c
        BY <2>1, <2>3 DEF Serves, LifecycleTypes, ListTypes
      <4>2. \A m \in Listed : peers'[m] = peers[m]
        BY <2>1, <2>5 DEF Listed, LifecycleTypes, ListTypes
      <4>3. \A m \in Listed : Serves(peers[m])' /\ conn'[peers'[m]].node = m
        BY <4>2, <2>3 DEF Starts, LifecycleInv, ListFits, Capacity, Serves
      <4>4. QED
        BY <4>1, <4>3, <2>3, <2>5 DEF Serves
    <3>4. QED
      BY <3>1, <3>2, <3>3 DEF ListFits, Capacity, Serves
  <2>7. ConnectionInv(c)'
    BY <2>1, <2>3, <1>2 DEF ConnectionInv, Serves, Unserved, Served, Holds, Touched, Closer, Leaving,
         LifecycleTypes, ListTypes, TaskTypes
  <2>8. \A d \in Conn \ {c} : ConnectionInv(d)'
    <3>1. ASSUME NEW d \in Opened \ {c}
          PROVE  (peers'[conn[d].node] = d) <=> (peers[conn[d].node] = d)
      <4>1. conn[d].node \in Node /\ d # Unlisted
        BY OpenedConn DEF Connections, Conn, Unlisted
      <4>2. QED
        BY <4>1, <2>1, <2>5, <1>4 DEF Accepts, LifecycleTypes, ListTypes
    <3>2. \A d \in Conn \ {c} : Spared(d)
      BY <2>1, <2>3, <3>1 DEF Spared, LifecycleTypes, TaskTypes
    <3>3. QED
      BY <3>2, SparedKeeps DEF Starts, LifecycleInv
  <2>9. Conn' = Conn
    BY DEF Conn
  <2>10. QED
    BY <2>4, <2>6, <2>7, <2>8, <2>9 DEF LifecycleInv
<1>5. QED
  BY <1>3, <1>4

\* A connection is new: its number is none of those in use.
LEMMA OpenKeeps ==
    ASSUME LifecycleInv, NEW n \in Node, Incoming(n) \/ Outgoing(n)
    PROVE  LifecycleInv'
<1>1. PICK c \in Conn : Open(n, c) /\ dialing' \in {dialing, c} /\ UNCHANGED <<peers, tasks>>
  BY DEF Incoming, Outgoing
<1>2. PICK k \in 0..MaxConns : Opened = 1..k
  BY DEF LifecycleInv, LifecycleTypes, ConnTypes
<1>3. Cardinality(Opened) = k
  BY <1>2, FS_Interval
<1>4. c = k + 1 /\ c \in 1..MaxConns /\ c \notin Opened /\ Opened \cup {c} = 1..c
  BY <1>1, <1>2, <1>3 DEF Open, Conn
<1>5. PICK new : new = [node |-> n, stage |-> "handshake", closed |-> FALSE, gone |-> FALSE]
  OBVIOUS
<1>6. /\ new \in Connections /\ new.stage = "handshake" /\ new.closed = FALSE
  BY <1>5 DEF Connections
<1>7. conn' = [i \in Opened \cup {c} |-> IF i = c THEN new ELSE conn[i]]
  BY <1>1, <1>5 DEF Open
<1>8. /\ Opened' = 1..c /\ conn'[c] = new /\ \A d \in Opened : conn'[d] = conn[d] /\ d \in Opened'
      /\ \A d \in Opened' : d = c \/ d \in Opened
  BY <1>4, <1>7 DEF Opened
<1>9. LifecycleTypes'
  <2>1. ConnTypes'
    BY <1>4, <1>6, <1>7, <1>8 DEF LifecycleInv, LifecycleTypes, ConnTypes, Conn, Opened
  <2>2. ListTypes' /\ TaskTypes' /\ NoteTypes'
    BY <1>1 DEF LifecycleInv, LifecycleTypes, ListTypes, TaskTypes, NoteTypes, tasks, Conn
  <2>3. QED
    BY <2>1, <2>2 DEF LifecycleTypes
<1>10. Listed' = Listed
  BY <1>1 DEF Listed
<1>11. ListFits'
  BY <1>1, <1>8, <1>10 DEF LifecycleInv, ListFits, Capacity, Serves
<1>12. ConnectionInv(c)'
  BY <1>1, <1>4, <1>6, <1>8 DEF LifecycleInv, ConnectionInv, Serves, Unserved, tasks
<1>13. \A d \in Conn \ {c} : ConnectionInv(d)'
  <2>1. \A d \in Conn \ {c} : Spared(d)
    BY <1>1, <1>8 DEF Spared, tasks
  <2>2. QED
    BY <2>1, SparedKeeps DEF LifecycleInv
<1>14. Conn' = Conn
  BY DEF Conn
<1>15. QED
  BY <1>9, <1>11, <1>12, <1>13, <1>14 DEF LifecycleInv

-------------------------------------------------------------------------------
LEMMA LifecycleStarts == InitLifecycle => LifecycleInv
<1> SUFFICES ASSUME InitLifecycle PROVE LifecycleInv
  OBVIOUS
<1>1. Opened = {} /\ Opened = 1..0 /\ conn \in [Opened -> Connections]
  BY DEF InitLifecycle, Opened
<1>2. ConnTypes
  BY <1>1, LifecycleAssumption DEF ConnTypes
<1>3. LifecycleTypes
  BY <1>2, LifecycleAssumption DEF InitLifecycle, LifecycleTypes, ListTypes, TaskTypes, NoteTypes,
       WritePlaces, ReadPlaces, OperatorPlaces
<1>4. Listed = {}
  BY DEF InitLifecycle, Listed
<1>5. ListFits
  BY <1>4, FS_EmptySet, LifecycleAssumption DEF ListFits, Capacity
<1>6. \A c \in Conn : ConnectionInv(c)
  BY <1>1 DEF InitLifecycle, ConnectionInv, Serves, Unserved
<1>7. QED
  BY <1>3, <1>5, <1>6 DEF LifecycleInv

LEMMA LifecycleStep ==
    ASSUME LifecycleInv, NextLifecycle
    PROVE  LifecycleInv'
<1>1. CASE \E n \in Node : Incoming(n) \/ Outgoing(n) \/ Kick(n) \/ Blacklist(n)
  BY <1>1, OpenKeeps, CommandKeeps
<1>2. ASSUME NEW c \in Opened,
             \/ Handshake(c) \/ NewPeer(c) \/ Gone(c)
             \/ WriteGivesUp(c) \/ WriteTask(c)
             \/ ReadHandshake(c) \/ ReadTooManyFails(c) \/ ReadTask(c)
             \/ KickUnlists(c) \/ SignalExit(c) \/ OperatorCloses(c)
      PROVE  LifecycleInv'
  <2>1. Starts(c)
    BY DEF Starts
  <2>2. CASE Handshake(c) \/ NewPeer(c) \/ Gone(c)
    BY <2>1, <2>2, HandshakeKeeps, NewPeerKeeps, GoneKeeps
  <2>3. CASE WriteGivesUp(c) \/ WriteTask(c)
    BY <2>1, <2>3, WriteMoves, CloseOnly, WriteClosesKeeps DEF WriteTask
  <2>4. CASE ReadHandshake(c) \/ ReadTooManyFails(c) \/ ReadTask(c)
    BY <2>1, <2>4, CloseOnly, ReadMoves, RemoveOnly, ReadClosesKeeps DEF ReadTask
  <2>5. CASE KickUnlists(c) \/ SignalExit(c) \/ OperatorCloses(c)
    BY <2>1, <2>5, RemoveOnly, SignalExitKeeps, OperatorClosesKeeps
  <2>6. QED
    BY <1>2, <2>2, <2>3, <2>4, <2>5
<1>3. CASE ClearConnections
  BY <1>3, ClearKeeps
<1>4. QED
  BY <1>1, <1>2, <1>3 DEF NextLifecycle

LEMMA LifecycleStutters ==
    ASSUME LifecycleInv, UNCHANGED lifecycleVars
    PROVE  LifecycleInv'
<1>1. Opened' = Opened /\ Conn' = Conn /\ Listed' = Listed
  BY DEF lifecycleVars, Opened, Conn, Listed
<1>2. LifecycleTypes'
  BY <1>1 DEF LifecycleInv, LifecycleTypes, ConnTypes, ListTypes, TaskTypes, NoteTypes, lifecycleVars
<1>3. ListFits'
  BY <1>1 DEF LifecycleInv, ListFits, Capacity, Serves, lifecycleVars
<1>4. \A c \in Conn : ConnectionInv(c)'
  <2>1. \A c \in Conn : Spared(c)
    BY <1>1 DEF Spared, lifecycleVars
  <2>2. QED
    BY <2>1, SparedKeeps DEF LifecycleInv
<1>5. QED
  BY <1>1, <1>2, <1>3, <1>4 DEF LifecycleInv

\* The invariant that carries the proofs holds in every state the node can reach.
THEOREM LifecycleInvariant == LifecycleSpec => []LifecycleInv
<1>1. LifecycleInv /\ [NextLifecycle]_lifecycleVars => LifecycleInv'
  BY LifecycleStep, LifecycleStutters
<1>2. QED
  BY LifecycleStarts, <1>1, PTL DEF LifecycleSpec

\* However many handshakes, closers and commands of the operator are under way at once
\* (handle_new_peer, close_internal, kick_peer, close_all), the list never has more peers
\* than allowed, no connection whose tasks have ended stays in it unless it was closed
\* between a closer's signal and its look, and one that nobody ends is in it unless it was
\* removed by the id of its peer or signalled before its tasks listened.
THEOREM LifecycleListSound == LifecycleSpec => []ListSound
<1>1. ASSUME LifecycleInv
      PROVE  ListSound
  <2>1. Capacity
    BY <1>1 DEF LifecycleInv, ListFits
  <2>2. Removed
    BY <1>1 DEF LifecycleInv, Removed, Ended, ConnectionInv, Served, Holds, Touched, Closer
  <2>3. LiveListed
    BY <1>1 DEF LifecycleInv, LiveListed, ConnectionInv, Served, Holds, Leaving
  <2>4. QED
    BY <2>1, <2>2, <2>3 DEF ListSound
<1>2. QED
  BY LifecycleInvariant, <1>1, PTL
===============================================================================
