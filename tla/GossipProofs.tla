------------------------------ MODULE GossipProofs ------------------------------
(* What honest nodes tell one another, for any number of nodes, links, objects and
   crossings of packets.

   Three arguments stand beside each other. A packet waits only on a connection its
   reader still has, and announces what its sender has and has finished announcing.
   As long as no connection was closed, each peer that one side says it has told the
   other of is either entered there or in exactly one ping on the way, unless the other
   refused one of its lists, and a request for the inventory, or its answer, is under
   way once at most, unless it was asked for again while it was awaited. And for an object that
   nothing disturbed, beliefs are right: whoever is thought to have it has it, or an
   announcement of it is on its way there.                                         *)
EXTENDS Gossip, TLAPS

Object == Tx \union Block
Packet ==
    [type : {"inventory?"}, page : Nat]
      \union [type : {"inventory"}, txs : SUBSET Object, next : Nat]
      \union [type : {"ping"}, peers : SUBSET Node]
      \union [type : {"lost"}, addr : Node]
      \union [type : {"announce"}, object : Object]
      \union [type : {"end"}]

Directions == {"In", "Out", "Both", None}

GossipTypes ==
    /\ conn \in [Node -> SUBSET Node]
    /\ chan \in [Node -> [Node -> Seq(Packet)]]
    /\ shared \in [Node -> [Node -> [Node -> Directions]]]
    /\ seen \in [Node -> [Node -> SUBSET Object]]
    /\ awaited \in [Node -> [Node -> BOOLEAN]]
    /\ has \in [Node -> SUBSET Object] /\ casting \in [Node -> SUBSET Object]
    /\ pinging \in [Node -> [all : SUBSET Node, todo : SUBSET Node]]
    /\ closes \in Nat
    /\ created \subseteq Object

\* The places of the packets of a type in a queue, and on the way from n to m.
Places(q, type) == {i \in DOMAIN q : q[i].type = type}
At(n, m, type) == Places(chan[n][m], type)

\* The channel from n to m and its connection.
Wire(n, m) ==
    /\ m \in conn[n] => m # n
    /\ chan[n][m] # <<>> => n \in conn[m]
    /\ \A i \in At(n, m, "end") : i = Len(chan[n][m]) /\ m \notin conn[n]

\* What n says it has, it has, and it has announced what it announces.
Honest(n, m) ==
    /\ \A i \in At(n, m, "announce") : chan[n][m][i].object \in has[n] \ casting[n]
    /\ \A i \in At(n, m, "inventory") : chan[n][m][i].txs \subseteq has[n]
    /\ seen[n][m] \subseteq created

Kept(n) ==
    /\ has[n] \subseteq created /\ casting[n] \subseteq has[n]
    /\ pinging[n].todo \subseteq pinging[n].all
-------------------------------------------------------------------------------
(* While no connection was closed.                                                *)
Out(n, m, p) == shared[n][m][p] \in {"Out", "Both"}
In(n, m, p) == shared[n][m][p] \in {"In", "Both"}
Carries(n, m, p) == {i \in At(n, m, "ping") : p \in chan[n][m][i].peers}

\* n has told m of p, and m knows or will, once.
ToldOnce(n, m, p) ==
    /\ Out(n, m, p) <=> In(m, n, p) \/ Carries(n, m, p) # {}
    /\ In(m, n, p) => Carries(n, m, p) = {}
    /\ \A i, j \in Carries(n, m, p) : i = j

\* That is so unless m refused a list of n.
Told(n, m, p) ==
    /\ <<m, n>> \notin hasty => ToldOnce(n, m, p)
    /\ Out(n, m, p) => p \in conn[n] /\ m \in conn[n]

\* n has asked m for its inventory, or m has answered, once.
InquiryOnce(n, m) ==
    /\ \A i, j \in At(n, m, "inventory?") : i = j
    /\ \A i, j \in At(m, n, "inventory") : i = j
    /\ At(n, m, "inventory?") = {} \/ At(m, n, "inventory") = {}
    /\ At(n, m, "inventory?") # {} \/ At(m, n, "inventory") # {} => awaited[n][m]

\* That is so unless n asked again.
Inquiry(n, m) == <<n, m>> \notin hasty => InquiryOnce(n, m)

Open(n, m) ==
    /\ m \in conn[n] => n \in conn[m]
    /\ At(n, m, "end") = {} /\ At(n, m, "lost") = {}
    /\ Inquiry(n, m)
    /\ \A p \in Node : Told(n, m, p)

NeverClosed ==
    /\ blamed \subseteq hasty
    /\ \A n \in Node : pinging[n].all \subseteq conn[n]
    /\ \A n, m \in Node : Open(n, m)
-------------------------------------------------------------------------------
(* Of an object that nothing disturbed.                                           *)
Announced(n, m, x) == \E i \in At(n, m, "announce") : chan[n][m][i].object = x
Knows(m, x) == x \in has[m] \/ \E n \in Node : Announced(n, m, x)

Spread(x) ==
    \A n \in Node : \A m \in conn[n] :
        /\ x \in has[n] \ casting[n] => Knows(m, x)
        /\ x \in seen[n][m] => Knows(m, x)

Undisturbed == created \ disturbed

WiresInv == \A n, m \in Node : Wire(n, m) /\ Honest(n, m)
NodesInv == \A n \in Node : Kept(n)
ClosedInv == closes = 0 => NeverClosed
SpreadInv == (Undisturbed # {} => Truthful) /\ \A x \in Undisturbed : Spread(x)

GossipInv == GossipTypes /\ WiresInv /\ NodesInv /\ ClosedInv /\ SpreadInv
-------------------------------------------------------------------------------
(* Sequences of packets: where the packets of a type are after one is appended or
   the first one is taken.                                                        *)
(* Concatenation with one packet, or with none.                                   *)
LEMMA Joined ==
  ASSUME NEW q \in Seq(Packet)
  PROVE  /\ q \o <<>> = q
         /\ \A e \in Packet : q \o <<e>> = Append(q, e)
<1>1. q \o <<>> = q
  OBVIOUS
<1>2. ASSUME NEW e \in Packet PROVE q \o <<e>> = Append(q, e)
  <2>1. <<e>> \in Seq(Packet) /\ Len(<<e>>) = 1
    OBVIOUS
  <2>2. DOMAIN (q \o <<e>>) = DOMAIN Append(q, e)
    BY <2>1
  <2>3. \A i \in DOMAIN Append(q, e) : (q \o <<e>>)[i] = Append(q, e)[i]
    BY <2>1
  <2>4. QED BY <2>1, <2>2, <2>3
<1>3. QED BY <1>1, <1>2

LEMMA PlacesAppended ==
  ASSUME NEW q \in Seq(Packet), NEW e \in Packet, NEW type
  PROVE  /\ Append(q, e) \in Seq(Packet) /\ Append(q, e) # <<>>
         /\ Len(Append(q, e)) = Len(q) + 1 /\ Len(q) \in Nat
         /\ \A i \in Places(q, type) : i \in 1..Len(q)
         /\ Append(q, e)[Len(q) + 1] = e
         /\ \A i \in 1..Len(q) : Append(q, e)[i] = q[i]
         /\ e.type # type => Places(Append(q, e), type) = Places(q, type)
         /\ e.type = type => Places(Append(q, e), type) = Places(q, type) \union {Len(q) + 1}
<1>1. DOMAIN q = 1..Len(q) /\ DOMAIN Append(q, e) = 1..(Len(q) + 1) /\ Len(q) \in Nat
  OBVIOUS
<1>2. \A i \in 1..Len(q) : Append(q, e)[i] = q[i]
  OBVIOUS
<1>3. Append(q, e)[Len(q) + 1] = e
  OBVIOUS
<1>4. 1..(Len(q) + 1) = (1..Len(q)) \union {Len(q) + 1}
  BY <1>1
<1>5. \A i \in Places(q, type) : i \in 1..Len(q)
  BY <1>1 DEF Places
<1>6. e.type # type => Places(Append(q, e), type) = Places(q, type)
  BY <1>1, <1>2, <1>3, <1>4 DEF Places
<1>7. e.type = type => Places(Append(q, e), type) = Places(q, type) \union {Len(q) + 1}
  BY <1>1, <1>2, <1>3, <1>4 DEF Places
<1>8. Append(q, e) \in Seq(Packet) /\ Len(Append(q, e)) = Len(q) + 1
  OBVIOUS
<1>a. Append(q, e) # <<>>
  BY <1>1, <1>8
<1>9. QED BY <1>1, <1>2, <1>3, <1>5, <1>6, <1>7, <1>8, <1>a

LEMMA PlacesTaken ==
  ASSUME NEW q \in Seq(Packet), q # <<>>, NEW type
  PROVE  /\ Tail(q) \in Seq(Packet) /\ Len(Tail(q)) = Len(q) - 1 /\ Len(q) \in Nat \ {0}
         /\ Head(q) = q[1] /\ Head(q) \in Packet
         /\ \A i \in Places(Tail(q), type) : i \in Nat /\ i + 1 \in Places(q, type) /\ Tail(q)[i] = q[i + 1]
         /\ \A i \in Places(q, type) : i \in Nat \ {0}
         /\ \A i \in Places(q, type) : i # 1 => i - 1 \in Places(Tail(q), type) /\ Tail(q)[i - 1] = q[i]
         /\ 1 \in Places(q, type) <=> Head(q).type = type
<1>1. DOMAIN q = 1..Len(q) /\ Len(q) \in Nat \ {0} /\ Head(q) = q[1]
  OBVIOUS
<1>2. Tail(q) \in Seq(Packet) /\ Len(Tail(q)) = Len(q) - 1 /\ DOMAIN Tail(q) = 1..(Len(q) - 1)
  BY <1>1
<1>3. \A i \in 1..(Len(q) - 1) : Tail(q)[i] = q[i + 1]
  BY <1>1
<1>4. ASSUME NEW i \in Places(Tail(q), type)
      PROVE  i \in Nat /\ i + 1 \in Places(q, type) /\ Tail(q)[i] = q[i + 1]
  <2>1. i \in 1..(Len(q) - 1) /\ Tail(q)[i].type = type BY <1>2 DEF Places
  <2>2. i \in Nat /\ i + 1 \in 1..Len(q) /\ Tail(q)[i] = q[i + 1] BY <2>1, <1>1, <1>3
  <2>3. QED BY <2>1, <2>2, <1>1 DEF Places
<1>5. ASSUME NEW i \in Places(q, type)
      PROVE  i \in Nat \ {0} /\ (i # 1 => i - 1 \in Places(Tail(q), type) /\ Tail(q)[i - 1] = q[i])
  <2>1. i \in 1..Len(q) /\ q[i].type = type BY <1>1 DEF Places
  <2>2. CASE i # 1
    <3>1. i - 1 \in 1..(Len(q) - 1) /\ (i - 1) + 1 = i BY <2>1, <2>2, <1>1
    <3>2. Tail(q)[i - 1] = q[i] BY <3>1, <1>3
    <3>3. QED BY <2>1, <3>1, <3>2, <1>2 DEF Places
  <2>3. QED BY <2>1, <2>2
<1>6. 1 \in Places(q, type) <=> Head(q).type = type
  BY <1>1 DEF Places
<1>7. q[1] \in Packet
  BY <1>1
<1>8. QED BY <1>1, <1>2, <1>4, <1>5, <1>6, <1>7

-------------------------------------------------------------------------------
(* The channels after one node has sent and another has read.                     *)
Channels == [Node -> [Node -> Seq(Packet)]]

LEMMA SentAt ==
  ASSUME NEW c \in Channels, NEW n \in Node, NEW to,
         \A b \in Node : b \in DOMAIN to => to[b] \in Seq(Packet)
  PROVE  /\ Sent(c, n, to) \in Channels
         /\ \A a, b \in Node : Sent(c, n, to)[a][b] =
              IF a = n /\ b \in DOMAIN to /\ n \in conn[b] THEN c[a][b] \o to[b] ELSE c[a][b]
<1>1. PICK line : line = [m \in Node |-> IF m \in DOMAIN to /\ n \in conn[m] THEN c[n][m] \o to[m] ELSE c[n][m]]
  OBVIOUS
<1>2. line \in [Node -> Seq(Packet)]
  <2>1. ASSUME NEW m \in Node
        PROVE  (IF m \in DOMAIN to /\ n \in conn[m] THEN c[n][m] \o to[m] ELSE c[n][m]) \in Seq(Packet)
    <3>1. c[n][m] \in Seq(Packet) BY DEF Channels
    <3>2. m \in DOMAIN to => c[n][m] \o to[m] \in Seq(Packet) BY <3>1
    <3>3. QED BY <3>1, <3>2
  <2>2. QED BY <1>1, <2>1
<1>3. Sent(c, n, to) = [c EXCEPT ![n] = line]
  BY <1>1 DEF Sent
<1>4. Sent(c, n, to) \in Channels
  BY <1>2, <1>3 DEF Channels
<1>5. ASSUME NEW a \in Node, NEW b \in Node
      PROVE  Sent(c, n, to)[a][b] =
                IF a = n /\ b \in DOMAIN to /\ n \in conn[b] THEN c[a][b] \o to[b] ELSE c[a][b]
  <2>1. CASE a = n
    <3>1. Sent(c, n, to)[a] = line BY <1>3, <2>1 DEF Channels
    <3>2. QED BY <1>1, <2>1, <3>1
  <2>2. CASE a # n
    <3>1. Sent(c, n, to)[a] = c[a] BY <1>3, <2>2 DEF Channels
    <3>2. QED BY <2>2, <3>1
  <2>3. QED BY <2>1, <2>2
<1>6. QED BY <1>4, <1>5

LEMMA TakenAt ==
  ASSUME GossipTypes, NEW n \in Node, NEW m \in Node, chan[m][n] # <<>>
  PROVE  /\ Taken(n, m) \in Channels
         /\ \A a, b \in Node : Taken(n, m)[a][b] =
              IF a = m /\ b = n THEN Tail(chan[a][b]) ELSE chan[a][b]
<1>1. chan \in Channels /\ chan[m][n] \in Seq(Packet)
  BY DEF GossipTypes, Channels
<1>2. Tail(chan[m][n]) \in Seq(Packet)
  BY <1>1
<1>3. QED BY <1>1, <1>2 DEF Taken, Channels

\* What a step may do to the channel from a to b while the connections stay as they are.
Still(a, b) == chan'[a][b] = chan[a][b]
Reads(a, b) == chan[a][b] # <<>> /\ chan'[a][b] = Tail(chan[a][b])
Writes(a, b, e) ==
    /\ e \in Packet /\ a \in conn[b] /\ b \in conn[a]
    /\ chan'[a][b] = Append(chan[a][b], e)

\* Each channel is left alone, read by n from m, or written a packet of the types given.
Flows(a, b, types) == Still(a, b) \/ Reads(a, b) \/ \E e \in Packet : e.type \in types /\ Writes(a, b, e)

(* Node n sends one packet to some of its peers.                                  *)
LEMMA SendsOne ==
  ASSUME GossipTypes, NEW n \in Node, NEW who \in SUBSET conn[n], NEW e \in Packet,
         chan' = Sent(chan, n, [b \in who |-> <<e>>])
  PROVE  /\ chan' \in Channels
         /\ \A a, b \in Node : Still(a, b) \/ (a = n /\ b \in who /\ Writes(a, b, e))
         /\ \A b \in who : n \in conn[b] => Writes(n, b, e)
<1>1. chan \in Channels /\ conn \in [Node -> SUBSET Node]
  BY DEF GossipTypes, Channels
<1>2. PICK to : to = [b \in who |-> <<e>>]
  OBVIOUS
<1>a. DOMAIN to = who /\ \A b \in who : to[b] = <<e>> /\ to[b] \in Seq(Packet)
  BY <1>2
<1>b. chan' = Sent(chan, n, to)
  BY <1>2
<1>c. /\ chan' \in Channels
      /\ \A a, b \in Node : chan'[a][b] =
           IF a = n /\ b \in DOMAIN to /\ n \in conn[b] THEN chan[a][b] \o to[b] ELSE chan[a][b]
  BY <1>1, <1>a, <1>b, SentAt
<1>3. /\ chan' \in Channels
      /\ \A a, b \in Node : chan'[a][b] =
           IF a = n /\ b \in who /\ n \in conn[b] THEN chan[a][b] \o <<e>> ELSE chan[a][b]
  BY <1>a, <1>c
<1>4. \A a, b \in Node : chan[a][b] \o <<e>> = Append(chan[a][b], e)
  BY <1>1, Joined DEF Channels
<1>5. \A a, b \in Node : a = n /\ b \in who /\ n \in conn[b] => Writes(a, b, e)
  BY <1>3, <1>4 DEF Writes
<1>6. \A a, b \in Node : ~(a = n /\ b \in who /\ n \in conn[b]) => Still(a, b)
  BY <1>3 DEF Still
<1>7. who \subseteq Node
  BY <1>1
<1>8. QED BY <1>3, <1>5, <1>6, <1>7

(* Node n reads a packet of m.                                                    *)
LEMMA ReadsOne ==
  ASSUME GossipTypes, NEW n \in Node, NEW m \in Node, chan[m][n] # <<>>, chan' = Taken(n, m)
  PROVE  /\ chan' \in Channels
         /\ Reads(m, n)
         /\ \A a, b \in Node : (a = m /\ b = n) \/ Still(a, b)
<1>1. /\ chan' \in Channels
      /\ \A a, b \in Node : chan'[a][b] = IF a = m /\ b = n THEN Tail(chan[a][b]) ELSE chan[a][b]
  BY TakenAt
<1>2. QED BY <1>1 DEF Reads, Still

(* Node n reads a packet of m and answers it.                                     *)
LEMMA Answers ==
  ASSUME GossipTypes, NEW n \in Node, NEW m \in conn[n], m # n, NEW e \in Packet, chan[m][n] # <<>>,
         chan' = Sent(Taken(n, m), n, [b \in {m} |-> <<e>>])
  PROVE  /\ chan' \in Channels
         /\ Reads(m, n)
         /\ Still(n, m) \/ Writes(n, m, e)
         /\ \A a, b \in Node : (a = m /\ b = n) \/ (a = n /\ b = m) \/ Still(a, b)
<1>0. m \in Node
  BY DEF GossipTypes
<1>1. /\ Taken(n, m) \in Channels
      /\ \A a, b \in Node : Taken(n, m)[a][b] = IF a = m /\ b = n THEN Tail(chan[a][b]) ELSE chan[a][b]
  BY <1>0, TakenAt
<1>2. PICK to : to = [b \in {m} |-> <<e>>]
  OBVIOUS
<1>a. DOMAIN to = {m} /\ \A b \in {m} : to[b] = <<e>> /\ to[b] \in Seq(Packet)
  BY <1>2
<1>3. PICK c : c = Taken(n, m)
  OBVIOUS
<1>b. c \in Channels /\ chan' = Sent(c, n, to)
  BY <1>1, <1>2, <1>3
<1>4. /\ chan' \in Channels
      /\ \A a, b \in Node : chan'[a][b] =
           IF a = n /\ b \in DOMAIN to /\ n \in conn[b] THEN c[a][b] \o to[b] ELSE c[a][b]
  <2>1. \A b \in Node : b \in DOMAIN to => to[b] \in Seq(Packet) BY <1>a
  <2>2. c \in Channels /\ n \in Node BY <1>b
  <2>3. /\ Sent(c, n, to) \in Channels
        /\ \A a, b \in Node : Sent(c, n, to)[a][b] =
             IF a = n /\ b \in DOMAIN to /\ n \in conn[b] THEN c[a][b] \o to[b] ELSE c[a][b]
    BY ONLY <2>1, <2>2, SentAt
  <2>4. QED BY <1>b, <2>3
<1>5. \A a, b \in Node : chan'[a][b] =
        IF a = n /\ b = m /\ n \in conn[m] THEN c[a][b] \o <<e>> ELSE c[a][b]
  BY <1>a, <1>4
<1>6. chan[n][m] \in Seq(Packet) /\ c[n][m] = chan[n][m]
  BY <1>0, <1>1, <1>3 DEF GossipTypes
<1>7. c[n][m] \o <<e>> = Append(chan[n][m], e)
  BY <1>6, Joined
<1>8. Reads(m, n)
  BY <1>0, <1>1, <1>3, <1>5 DEF Reads
<1>9. Still(n, m) \/ Writes(n, m, e)
  BY <1>0, <1>5, <1>6, <1>7 DEF Still, Writes
<1>10. \A a, b \in Node : (a = m /\ b = n) \/ (a = n /\ b = m) \/ Still(a, b)
  BY <1>0, <1>1, <1>3, <1>5 DEF Still
<1>11. QED BY <1>3, <1>4, <1>8, <1>9, <1>10
-------------------------------------------------------------------------------
(* What each part of the invariant makes of a channel that is read or written.     *)
LEMMA ReadsAt ==
  ASSUME GossipTypes, NEW a \in Node, NEW b \in Node, Reads(a, b), NEW type
  PROVE  /\ \A i \in At(a, b, type)' :
              i \in Nat /\ i + 1 \in At(a, b, type) /\ chan'[a][b][i] = chan[a][b][i + 1]
         /\ \A i \in At(a, b, type) :
              i \in Nat \ {0} /\ (i # 1 => i - 1 \in At(a, b, type)' /\ chan'[a][b][i - 1] = chan[a][b][i])
         /\ 1 \in At(a, b, type) <=> Head(chan[a][b]).type = type
         /\ Head(chan[a][b]) = chan[a][b][1] /\ Head(chan[a][b]) \in Packet
         /\ Len(chan'[a][b]) = Len(chan[a][b]) - 1 /\ Len(chan[a][b]) \in Nat \ {0}
<1>1. PICK q : q = chan[a][b]
  OBVIOUS
<1>2. q \in Seq(Packet) /\ q # <<>> /\ chan'[a][b] = Tail(q)
  BY <1>1 DEF GossipTypes, Reads
<1>3. /\ Len(Tail(q)) = Len(q) - 1 /\ Len(q) \in Nat \ {0}
      /\ Head(q) = q[1] /\ Head(q) \in Packet
      /\ \A i \in Places(Tail(q), type) : i \in Nat /\ i + 1 \in Places(q, type) /\ Tail(q)[i] = q[i + 1]
      /\ \A i \in Places(q, type) : i \in Nat \ {0}
      /\ \A i \in Places(q, type) : i # 1 => i - 1 \in Places(Tail(q), type) /\ Tail(q)[i - 1] = q[i]
      /\ 1 \in Places(q, type) <=> Head(q).type = type
  BY ONLY <1>2, PlacesTaken
<1>4. At(a, b, type) = Places(q, type) /\ At(a, b, type)' = Places(Tail(q), type)
  BY <1>1, <1>2 DEF At
<1>5. QED BY <1>1, <1>2, <1>3, <1>4

LEMMA WritesAt ==
  ASSUME GossipTypes, NEW a \in Node, NEW b \in Node, NEW e \in Packet, Writes(a, b, e), NEW type
  PROVE  /\ chan'[a][b] # <<>>
         /\ Len(chan'[a][b]) = Len(chan[a][b]) + 1 /\ Len(chan[a][b]) \in Nat
         /\ \A i \in At(a, b, type) : i \in 1..Len(chan[a][b])
         /\ chan'[a][b][Len(chan[a][b]) + 1] = e
         /\ \A i \in 1..Len(chan[a][b]) : chan'[a][b][i] = chan[a][b][i]
         /\ e.type # type => At(a, b, type)' = At(a, b, type)
         /\ e.type = type => At(a, b, type)' = At(a, b, type) \union {Len(chan[a][b]) + 1}
<1>1. PICK q : q = chan[a][b]
  OBVIOUS
<1>2. q \in Seq(Packet) /\ chan'[a][b] = Append(q, e)
  BY <1>1 DEF GossipTypes, Writes
<1>3. /\ Append(q, e) # <<>>
      /\ Len(Append(q, e)) = Len(q) + 1 /\ Len(q) \in Nat
      /\ \A i \in Places(q, type) : i \in 1..Len(q)
      /\ Append(q, e)[Len(q) + 1] = e
      /\ \A i \in 1..Len(q) : Append(q, e)[i] = q[i]
      /\ e.type # type => Places(Append(q, e), type) = Places(q, type)
      /\ e.type = type => Places(Append(q, e), type) = Places(q, type) \union {Len(q) + 1}
  BY ONLY <1>2, PlacesAppended, e \in Packet
<1>4. At(a, b, type) = Places(q, type) /\ At(a, b, type)' = Places(Append(q, e), type)
  BY <1>1, <1>2 DEF At
<1>5. QED BY <1>1, <1>2, <1>3, <1>4

(* A packet on the way was there before, or is the one written.                    *)
LEMMA WritesAdd ==
  ASSUME GossipTypes, NEW a \in Node, NEW b \in Node, NEW e \in Packet, Writes(a, b, e), NEW type
  PROVE  /\ \A i \in At(a, b, type)' :
              \/ i \in At(a, b, type) /\ chan'[a][b][i] = chan[a][b][i]
              \/ e.type = type /\ chan'[a][b][i] = e /\ i = Len(chan[a][b]) + 1
         /\ \A i \in At(a, b, type) : i \in At(a, b, type)' /\ chan'[a][b][i] = chan[a][b][i]
         /\ e.type = type => \E i \in At(a, b, type)' : chan'[a][b][i] = e
<1>1. PICK q : q = chan[a][b]
  OBVIOUS
<1>2. q \in Seq(Packet) /\ chan'[a][b] = Append(q, e)
  BY <1>1 DEF GossipTypes, Writes
<1>3. /\ \A i \in Places(q, type) : i \in 1..Len(q)
      /\ Append(q, e)[Len(q) + 1] = e
      /\ \A i \in 1..Len(q) : Append(q, e)[i] = q[i]
      /\ e.type # type => Places(Append(q, e), type) = Places(q, type)
      /\ e.type = type => Places(Append(q, e), type) = Places(q, type) \union {Len(q) + 1}
  BY ONLY <1>2, PlacesAppended, e \in Packet
<1>4. /\ \A i \in Places(Append(q, e), type) :
           \/ i \in Places(q, type) /\ Append(q, e)[i] = q[i]
           \/ e.type = type /\ Append(q, e)[i] = e /\ i = Len(q) + 1
      /\ \A i \in Places(q, type) : i \in Places(Append(q, e), type) /\ Append(q, e)[i] = q[i]
      /\ e.type = type => \E i \in Places(Append(q, e), type) : Append(q, e)[i] = e
  BY ONLY <1>3
<1>5. At(a, b, type) = Places(q, type) /\ At(a, b, type)' = Places(Append(q, e), type)
  BY <1>1, <1>2 DEF At
<1>6. QED BY ONLY <1>1, <1>2, <1>4, <1>5

LEMMA StillAt ==
  ASSUME NEW a, NEW b, Still(a, b), NEW type
  PROVE  At(a, b, type)' = At(a, b, type) /\ chan'[a][b] = chan[a][b]
  BY DEF Still, At

(* A channel whose end has been written is not written any more: its connection is
   gone on that side.                                                             *)
LEMMA WireFlows ==
  ASSUME GossipTypes, NEW a \in Node, NEW b \in Node, Wire(a, b), conn' = conn,
         NEW types, "end" \notin types, Flows(a, b, types)
  PROVE  Wire(a, b)'
<1>1. CASE Still(a, b)
  BY <1>1, StillAt DEF Wire
<1>2. CASE Reads(a, b)
  <2>1. ASSUME NEW i \in At(a, b, "end")'
        PROVE  i = Len(chan'[a][b]) /\ b \notin conn[a]
    <3>1. i \in Nat /\ i + 1 \in At(a, b, "end") /\ Len(chan'[a][b]) = Len(chan[a][b]) - 1
          /\ Len(chan[a][b]) \in Nat
      BY <1>2, <2>1, ReadsAt
    <3>2. i + 1 = Len(chan[a][b]) /\ b \notin conn[a] BY <3>1 DEF Wire
    <3>3. QED BY <3>1, <3>2
  <2>2. a \in conn[b] BY <1>2 DEF Reads, Wire
  <2>3. QED BY <2>1, <2>2 DEF Wire
<1>3. ASSUME NEW e \in Packet, e.type \in types, Writes(a, b, e)
      PROVE  Wire(a, b)'
  <2>1. At(a, b, "end") = {}
    BY <1>3 DEF Writes, Wire
  <2>2. At(a, b, "end")' = {}
    BY <1>3, <2>1, WritesAt
  <2>3. QED BY <1>3, <2>2 DEF Wire, Writes
<1>4. QED BY <1>1, <1>2, <1>3 DEF Flows

LEMMA HonestFlows ==
  ASSUME GossipTypes, NEW a \in Node, NEW b \in Node, Honest(a, b),
         has[a] \subseteq has'[a], has[a] \ casting[a] \subseteq has'[a] \ casting'[a],
         seen'[a][b] \subseteq created',
         NEW types, Flows(a, b, types),
         \A e \in Packet : Writes(a, b, e) =>
            /\ e.type = "announce" => e.object \in has'[a] \ casting'[a]
            /\ e.type = "inventory" => e.txs \subseteq has'[a]
  PROVE  Honest(a, b)'
<1>1. CASE Still(a, b)
  <2>1. At(a, b, "announce")' = At(a, b, "announce") /\ At(a, b, "inventory")' = At(a, b, "inventory")
        /\ chan'[a][b] = chan[a][b]
    BY <1>1, StillAt
  <2>2. QED BY <2>1 DEF Honest
<1>2. CASE Reads(a, b)
  <2>1. ASSUME NEW i \in At(a, b, "announce")'
        PROVE  chan'[a][b][i].object \in has'[a] \ casting'[a]
    <3>1. i + 1 \in At(a, b, "announce") /\ chan'[a][b][i] = chan[a][b][i + 1]
      BY <1>2, <2>1, ReadsAt
    <3>2. QED BY <3>1 DEF Honest
  <2>2. ASSUME NEW i \in At(a, b, "inventory")'
        PROVE  chan'[a][b][i].txs \subseteq has'[a]
    <3>1. i + 1 \in At(a, b, "inventory") /\ chan'[a][b][i] = chan[a][b][i + 1]
      BY <1>2, <2>2, ReadsAt
    <3>2. QED BY <3>1 DEF Honest
  <2>3. QED BY <2>1, <2>2 DEF Honest
<1>3. ASSUME NEW e \in Packet, Writes(a, b, e)
      PROVE  Honest(a, b)'
  <2>1. ASSUME NEW i \in At(a, b, "announce")'
        PROVE  chan'[a][b][i].object \in has'[a] \ casting'[a]
    <3>1. \/ i \in At(a, b, "announce") /\ chan'[a][b][i] = chan[a][b][i]
          \/ e.type = "announce" /\ chan'[a][b][i] = e
      BY <1>3, <2>1, WritesAdd
    <3>2. QED BY <1>3, <3>1 DEF Honest
  <2>2. ASSUME NEW i \in At(a, b, "inventory")'
        PROVE  chan'[a][b][i].txs \subseteq has'[a]
    <3>1. \/ i \in At(a, b, "inventory") /\ chan'[a][b][i] = chan[a][b][i]
          \/ e.type = "inventory" /\ chan'[a][b][i] = e
      BY <1>3, <2>2, WritesAdd
    <3>2. QED BY <1>3, <3>1 DEF Honest
  <2>3. QED BY <2>1, <2>2 DEF Honest
<1>4. QED BY <1>1, <1>2, <1>3 DEF Flows

(* Packets of other types, and reading, add no packet of a type.                   *)
LEMMA FlowsAt ==
  ASSUME GossipTypes, NEW a \in Node, NEW b \in Node, NEW types, Flows(a, b, types),
         NEW type, type \notin types
  PROVE  /\ At(a, b, type) = {} => At(a, b, type)' = {}
         /\ (\A i, j \in At(a, b, type) : i = j) => (\A i, j \in At(a, b, type)' : i = j)
<1>1. CASE Still(a, b)
  BY <1>1, StillAt
<1>2. CASE Reads(a, b)
  <2>1. \A i \in At(a, b, type)' : i \in Nat /\ i + 1 \in At(a, b, type)
    BY <1>2, ReadsAt
  <2>2. QED BY <2>1
<1>3. ASSUME NEW e \in Packet, e.type \in types, Writes(a, b, e)
      PROVE  At(a, b, type)' = At(a, b, type)
  BY <1>3, WritesAt
<1>4. QED BY <1>1, <1>2, <1>3 DEF Flows

LEMMA InquirySame ==
  ASSUME GossipTypes, NEW n \in Node, NEW m \in Node, Inquiry(n, m), hasty \subseteq hasty', awaited'[n][m] = awaited[n][m],
         NEW asks, "inventory?" \notin asks, Flows(n, m, asks),
         NEW answers, "inventory" \notin answers, Flows(m, n, answers)
  PROVE  Inquiry(n, m)'
<1> SUFFICES ASSUME <<n, m>> \notin hasty PROVE InquiryOnce(n, m)'
  BY DEF Inquiry
<1>0. InquiryOnce(n, m)
  BY DEF Inquiry
<1>1. /\ At(n, m, "inventory?") = {} => At(n, m, "inventory?")' = {}
      /\ \A i, j \in At(n, m, "inventory?")' : i = j
  BY <1>0, FlowsAt DEF InquiryOnce
<1>2. /\ At(m, n, "inventory") = {} => At(m, n, "inventory")' = {}
      /\ \A i, j \in At(m, n, "inventory")' : i = j
  BY <1>0, FlowsAt DEF InquiryOnce
<1>3. QED BY <1>0, <1>1, <1>2 DEF InquiryOnce

(* Pings on the way stay as they are when other packets are read and written.      *)
LEMMA CarriesSame ==
  ASSUME GossipTypes, NEW n \in Node, NEW m \in Node, NEW p, NEW types, "ping" \notin types,
         Flows(n, m, types), Reads(n, m) => 1 \notin Carries(n, m, p)
  PROVE  /\ Carries(n, m, p) = {} <=> Carries(n, m, p)' = {}
         /\ (\A i, j \in Carries(n, m, p) : i = j) => (\A i, j \in Carries(n, m, p)' : i = j)
<1>1. CASE Still(n, m)
  <2>1. Carries(n, m, p)' = Carries(n, m, p) BY <1>1, StillAt DEF Carries
  <2>2. QED BY <2>1
<1>2. CASE Reads(n, m)
  <2>1. ASSUME NEW i \in Carries(n, m, p)'
        PROVE  i \in Nat /\ i + 1 \in Carries(n, m, p)
    <3>1. i \in At(n, m, "ping")' /\ p \in chan'[n][m][i].peers BY <2>1 DEF Carries
    <3>2. i \in Nat /\ i + 1 \in At(n, m, "ping") /\ chan'[n][m][i] = chan[n][m][i + 1]
      BY <1>2, <3>1, ReadsAt
    <3>3. QED BY <3>1, <3>2 DEF Carries
  <2>2. ASSUME NEW i \in Carries(n, m, p)
        PROVE  Carries(n, m, p)' # {}
    <3>1. i \in At(n, m, "ping") /\ p \in chan[n][m][i].peers BY <2>2 DEF Carries
    <3>2. i # 1 BY <1>2, <2>2
    <3>3. i - 1 \in At(n, m, "ping")' /\ chan'[n][m][i - 1] = chan[n][m][i]
      BY <1>2, <3>1, <3>2, ReadsAt
    <3>4. QED BY <3>1, <3>3 DEF Carries
  <2>3. QED BY <2>1, <2>2
<1>3. ASSUME NEW e \in Packet, e.type \in types, Writes(n, m, e)
      PROVE  Carries(n, m, p)' = Carries(n, m, p)
  <2>1. e.type # "ping" BY <1>3
  <2>2. At(n, m, "ping")' = At(n, m, "ping") /\ \A i \in At(n, m, "ping") : chan'[n][m][i] = chan[n][m][i]
    BY <1>3, <2>1, WritesAt
  <2>3. QED BY <2>2 DEF Carries
<1>4. QED BY <1>1, <1>2, <1>3 DEF Flows

LEMMA ToldSame ==
  ASSUME GossipTypes, NEW n \in Node, NEW m \in Node, NEW p \in Node, Told(n, m, p), hasty \subseteq hasty',
         NEW types, "ping" \notin types, Flows(n, m, types), Reads(n, m) => 1 \notin Carries(n, m, p),
         Out(n, m, p)' <=> Out(n, m, p), In(m, n, p)' <=> In(m, n, p), conn[n] \subseteq conn'[n]
  PROVE  Told(n, m, p)'
<1>1. /\ Carries(n, m, p) = {} <=> Carries(n, m, p)' = {}
      /\ (\A i, j \in Carries(n, m, p) : i = j) => (\A i, j \in Carries(n, m, p)' : i = j)
  BY CarriesSame
<1>2. QED BY <1>1 DEF Told, ToldOnce

(* Who knows of an object knows of it after a step that loses no announcement.     *)
LEMMA KnowsKept ==
  ASSUME GossipTypes, NEW m \in Node, NEW x, Knows(m, x), has[m] \subseteq has'[m],
         NEW types, \A n \in Node : Flows(n, m, types),
         \A n \in Node : Reads(n, m) /\ Head(chan[n][m]).type = "announce" =>
            Head(chan[n][m]).object \in has'[m]
  PROVE  Knows(m, x)'
<1>1. CASE x \in has[m]
  BY <1>1 DEF Knows
<1>2. ASSUME NEW n \in Node, Announced(n, m, x)
      PROVE  Knows(m, x)'
  <2>1. PICK i \in At(n, m, "announce") : chan[n][m][i].object = x
    BY <1>2 DEF Announced
  <2>2. CASE Still(n, m)
    <3>1. Announced(n, m, x)' BY <1>2, <2>2, StillAt DEF Announced
    <3>2. QED BY <3>1 DEF Knows
  <2>3. CASE Reads(n, m)
    <3>1. CASE i = 1
      <4>1. Head(chan[n][m]).type = "announce" /\ Head(chan[n][m]) = chan[n][m][1]
        BY <2>1, <2>3, <3>1, ReadsAt
      <4>2. x \in has'[m] BY <2>1, <2>3, <3>1, <4>1
      <4>3. QED BY <4>2 DEF Knows
    <3>2. CASE i # 1
      <4>1. i - 1 \in At(n, m, "announce")' /\ chan'[n][m][i - 1] = chan[n][m][i]
        BY <2>1, <2>3, <3>2, ReadsAt
      <4>2. Announced(n, m, x)' BY <2>1, <4>1 DEF Announced
      <4>3. QED BY <4>2 DEF Knows
    <3>3. QED BY <3>1, <3>2
  <2>4. ASSUME NEW e \in Packet, Writes(n, m, e)
        PROVE  Knows(m, x)'
    <3>1. i \in At(n, m, "announce")' /\ chan'[n][m][i] = chan[n][m][i]
      BY <2>1, <2>4, WritesAdd
    <3>2. Announced(n, m, x)' BY <2>1, <3>1 DEF Announced
    <3>3. QED BY <3>2 DEF Knows
  <2>5. QED BY <2>2, <2>3, <2>4 DEF Flows
<1>3. QED BY <1>1, <1>2 DEF Knows
-------------------------------------------------------------------------------
(* Directions. A side of an entry is set by the update of that side alone.         *)
LEMMA UpdateOut ==
  ASSUME NEW d \in Directions
  PROVE  /\ Update(d, "Out") \in {"Out", "Both"}
         /\ Update(d, "Out") \in {"In", "Both"} <=> d \in {"In", "Both"}
         /\ Updates(d, "Out") <=> d \notin {"Out", "Both"}
<1>1. CASE d = None BY <1>1 DEF Update, Updates, None
<1>2. CASE d = "In" BY <1>2 DEF Update, Updates, None
<1>3. CASE d = "Out"
  <2>1. {d, "Out"} # {"In", "Out"} BY <1>3
  <2>2. Update(d, "Out") = d BY <1>3, <2>1 DEF Update, None
  <2>3. QED BY <1>3, <2>2 DEF Updates
<1>4. CASE d = "Both"
  <2>1. {d, "Out"} # {"In", "Out"} BY <1>4
  <2>2. Update(d, "Out") = d BY <1>4, <2>1 DEF Update, None
  <2>3. QED BY <1>4, <2>2 DEF Updates
<1>5. QED BY <1>1, <1>2, <1>3, <1>4 DEF Directions

LEMMA UpdateIn ==
  ASSUME NEW d \in Directions
  PROVE  /\ Update(d, "In") \in {"In", "Both"}
         /\ Update(d, "In") \in {"Out", "Both"} <=> d \in {"Out", "Both"}
         /\ Updates(d, "In") <=> d \notin {"In", "Both"}
<1>1. CASE d = None BY <1>1 DEF Update, Updates, None
<1>2. CASE d = "Out" BY <1>2 DEF Update, Updates, None
<1>3. CASE d = "In"
  <2>1. {d, "In"} # {"In", "Out"} BY <1>3
  <2>2. Update(d, "In") = d BY <1>3, <2>1 DEF Update, None
  <2>3. QED BY <1>3, <2>2 DEF Updates
<1>4. CASE d = "Both"
  <2>1. {d, "In"} # {"In", "Out"} BY <1>4
  <2>2. Update(d, "In") = d BY <1>4, <2>1 DEF Update, None
  <2>3. QED BY <1>4, <2>2 DEF Updates
<1>5. QED BY <1>1, <1>2, <1>3, <1>4 DEF Directions

(* What n enters of the peers it sends m, and of those it receives.                *)
LEMMA SharedOutAt ==
  ASSUME GossipTypes, NEW n \in Node, NEW m \in Node, NEW ps, shared' = SharedOut(n, m, ps)
  PROVE  /\ shared' \in [Node -> [Node -> [Node -> Directions]]]
         /\ \A a, b, p \in Node :
              /\ In(a, b, p)' <=> In(a, b, p)
              /\ Out(a, b, p)' <=> Out(a, b, p) \/ (a = n /\ b = m /\ p \in ps)
<1>1. PICK line : line = [p \in Node |-> IF p \in ps THEN Update(shared[n][m][p], "Out") ELSE shared[n][m][p]]
  OBVIOUS
<1>2. shared \in [Node -> [Node -> [Node -> Directions]]]
  BY DEF GossipTypes
<1>3. \A a, b, p \in Node : shared[a][b][p] \in Directions
  BY <1>2
<1>4. line \in [Node -> Directions]
  <2>1. \A p \in Node : Update(shared[n][m][p], "Out") \in Directions
    BY <1>3, UpdateOut DEF Directions
  <2>2. QED BY <1>1, <1>3, <2>1
<1>5. shared' = [shared EXCEPT ![n][m] = line]
  BY <1>1 DEF SharedOut
<1>6. shared' \in [Node -> [Node -> [Node -> Directions]]]
  BY <1>2, <1>4, <1>5
<1>7. ASSUME NEW a \in Node, NEW b \in Node, NEW p \in Node
      PROVE  /\ In(a, b, p)' <=> In(a, b, p)
             /\ Out(a, b, p)' <=> Out(a, b, p) \/ (a = n /\ b = m /\ p \in ps)
  <2>1. CASE a = n /\ b = m
    <3>1. shared'[a][b] = line BY <1>2, <1>5, <2>1
    <3>2. CASE p \in ps
      <4>1. shared'[a][b][p] = Update(shared[a][b][p], "Out") BY <1>1, <2>1, <3>1, <3>2
      <4>2. QED BY <1>3, <2>1, <3>2, <4>1, UpdateOut DEF In, Out
    <3>3. CASE p \notin ps
      <4>1. shared'[a][b][p] = shared[a][b][p] BY <1>1, <2>1, <3>1, <3>3
      <4>2. QED BY <3>3, <4>1 DEF In, Out
    <3>4. QED BY <3>2, <3>3
  <2>2. CASE ~(a = n /\ b = m)
    <3>1. shared'[a][b] = shared[a][b] BY <1>2, <1>5, <2>2
    <3>2. QED BY <2>2, <3>1 DEF In, Out
  <2>3. QED BY <2>1, <2>2
<1>8. QED BY <1>6, <1>7

LEMMA SharedInAt ==
  ASSUME GossipTypes, NEW n \in Node, NEW m \in Node, NEW ps, shared' = SharedIn(n, m, ps)
  PROVE  /\ shared' \in [Node -> [Node -> [Node -> Directions]]]
         /\ \A a, b, p \in Node :
              /\ Out(a, b, p)' <=> Out(a, b, p)
              /\ In(a, b, p)' <=> In(a, b, p) \/ (a = n /\ b = m /\ p \in ps)
<1>1. PICK line : line = [p \in Node |-> IF p \in ps THEN Update(shared[n][m][p], "In") ELSE shared[n][m][p]]
  OBVIOUS
<1>2. shared \in [Node -> [Node -> [Node -> Directions]]]
  BY DEF GossipTypes
<1>3. \A a, b, p \in Node : shared[a][b][p] \in Directions
  BY <1>2
<1>4. line \in [Node -> Directions]
  <2>1. \A p \in Node : Update(shared[n][m][p], "In") \in Directions
    BY <1>3, UpdateIn DEF Directions
  <2>2. QED BY <1>1, <1>3, <2>1
<1>5. shared' = [shared EXCEPT ![n][m] = line]
  BY <1>1 DEF SharedIn
<1>6. shared' \in [Node -> [Node -> [Node -> Directions]]]
  BY <1>2, <1>4, <1>5
<1>7. ASSUME NEW a \in Node, NEW b \in Node, NEW p \in Node
      PROVE  /\ Out(a, b, p)' <=> Out(a, b, p)
             /\ In(a, b, p)' <=> In(a, b, p) \/ (a = n /\ b = m /\ p \in ps)
  <2>1. CASE a = n /\ b = m
    <3>1. shared'[a][b] = line BY <1>2, <1>5, <2>1
    <3>2. CASE p \in ps
      <4>1. shared'[a][b][p] = Update(shared[a][b][p], "In") BY <1>1, <2>1, <3>1, <3>2
      <4>2. QED BY <1>3, <2>1, <3>2, <4>1, UpdateIn DEF In, Out
    <3>3. CASE p \notin ps
      <4>1. shared'[a][b][p] = shared[a][b][p] BY <1>1, <2>1, <3>1, <3>3
      <4>2. QED BY <3>3, <4>1 DEF In, Out
    <3>4. QED BY <3>2, <3>3
  <2>2. CASE ~(a = n /\ b = m)
    <3>1. shared'[a][b] = shared[a][b] BY <1>2, <1>5, <2>2
    <3>2. QED BY <2>2, <3>1 DEF In, Out
  <2>3. QED BY <2>1, <2>2
<1>8. QED BY <1>6, <1>7

-------------------------------------------------------------------------------
(* Truthful, in terms of what is entered and what is carried.                      *)
Right(n, m, p) ==
    \/ p \in conn[m] /\ m \in conn[p]
    \/ ~In(n, m, p) /\ Carries(m, n, p) = {} /\ p \notin pinging[m].all

RightAll ==
    \A n \in Node : \A m \in conn[n] :
        n \in conn[m] /\ ~awaited[n][m] /\ \A p \in conn[n] \ {m} : Right(n, m, p)

LEMMA TruthfulSays ==
  ASSUME Truthful
  PROVE  RightAll
<1> SUFFICES ASSUME NEW n \in Node, NEW m \in conn[n]
             PROVE  n \in conn[m] /\ ~awaited[n][m] /\ \A p \in conn[n] \ {m} : Right(n, m, p)
  BY DEF RightAll
<1>1. n \in conn[m] /\ ~awaited[n][m]
  BY DEF Truthful
<1>2. ASSUME NEW p \in conn[n] \ {m}
      PROVE  Right(n, m, p)
  <2>1. \/ p \in conn[m] /\ m \in conn[p]
        \/ /\ shared[n][m][p] \notin {"In", "Both"} /\ p \notin pinging[m].all
           /\ \A packet \in Packets(chan[m][n]) : packet.type = "ping" => p \notin packet.peers
    BY DEF Truthful
  <2>2. ASSUME \A packet \in Packets(chan[m][n]) : packet.type = "ping" => p \notin packet.peers
        PROVE  Carries(m, n, p) = {}
    BY <2>2 DEF Carries, At, Places, Packets
  <2>3. QED BY <2>1, <2>2 DEF Right, In
<1>3. QED BY <1>1, <1>2

LEMMA TruthfulNext ==
  ASSUME RightAll'
  PROVE  Truthful'
<1>1. ASSUME NEW n \in Node, NEW m \in conn'[n], NEW p \in conn'[n] \ {m}
      PROVE  \/ p \in conn'[m] /\ m \in conn'[p]
             \/ /\ shared'[n][m][p] \notin {"In", "Both"} /\ p \notin pinging'[m].all
                /\ \A packet \in Packets(chan'[m][n]) : packet.type = "ping" => p \notin packet.peers
  <2>1. Right(n, m, p)' BY DEF RightAll
  <2>2. ASSUME Carries(m, n, p)' = {}
        PROVE  \A packet \in Packets(chan'[m][n]) : packet.type = "ping" => p \notin packet.peers
    BY <2>2 DEF Carries, At, Places, Packets
  <2>3. QED BY <2>1, <2>2 DEF Right, In
<1>2. \A n \in Node : \A m \in conn'[n] : n \in conn'[m] /\ ~awaited'[n][m]
  BY DEF RightAll
<1>3. QED BY <1>1, <1>2 DEF Truthful

(* A packet on the way that was not there before was written.                      *)
LEMMA CarriesNew ==
  ASSUME GossipTypes, NEW a \in Node, NEW b \in Node, NEW p, NEW types, Flows(a, b, types),
         \A e \in Packet : Writes(a, b, e) /\ e.type = "ping" => p \notin e.peers,
         Carries(a, b, p) = {}
  PROVE  Carries(a, b, p)' = {}
<1>1. CASE Still(a, b)
  BY <1>1, StillAt DEF Carries
<1>2. CASE Reads(a, b)
  <2>1. ASSUME NEW i \in Carries(a, b, p)'
        PROVE  FALSE
    <3>1. i \in At(a, b, "ping")' /\ p \in chan'[a][b][i].peers BY <2>1 DEF Carries
    <3>2. i + 1 \in At(a, b, "ping") /\ chan'[a][b][i] = chan[a][b][i + 1]
      BY <1>2, <3>1, ReadsAt
    <3>3. QED BY <3>1, <3>2 DEF Carries
  <2>2. QED BY <2>1
<1>3. ASSUME NEW e \in Packet, Writes(a, b, e)
      PROVE  Carries(a, b, p)' = {}
  <2>1. ASSUME NEW i \in Carries(a, b, p)'
        PROVE  FALSE
    <3>1. i \in At(a, b, "ping")' /\ p \in chan'[a][b][i].peers BY <2>1 DEF Carries
    <3>2. \/ i \in At(a, b, "ping") /\ chan'[a][b][i] = chan[a][b][i]
          \/ e.type = "ping" /\ chan'[a][b][i] = e
      BY <1>3, <3>1, WritesAdd
    <3>3. QED BY <1>3, <3>1, <3>2 DEF Carries
  <2>2. QED BY <2>1
<1>4. QED BY <1>1, <1>2, <1>3 DEF Flows

(* Beliefs stay right while the connections do: a ping carries peers of its sender,
   and an entry comes from a ping.                                                *)
LEMMA TruthfulKept ==
  ASSUME GossipTypes, Truthful, conn' = conn,
         \A n, m \in Node : m \in conn[n] => (awaited'[n][m] => awaited[n][m]),
         NEW types, \A n, m \in Node : Flows(n, m, types),
         \A n, m \in Node : \A e \in Packet : Writes(n, m, e) /\ e.type = "ping" => e.peers \subseteq pinging[n].all,
         \A m \in Node : pinging'[m].all \subseteq pinging[m].all \union conn[m],
         \A n, m, p \in Node : In(n, m, p)' => In(n, m, p) \/ Carries(m, n, p) # {}
  PROVE  Truthful'
<1>1. RightAll
  BY TruthfulSays
<1>2. conn \in [Node -> SUBSET Node]
  BY DEF GossipTypes
<1>3. ASSUME NEW n \in Node, NEW m \in conn[n], NEW p \in conn[n] \ {m}
      PROVE  Right(n, m, p)'
  <2>0. m \in Node /\ p \in Node
    BY <1>2
  <2>1. Right(n, m, p)
    BY <1>1 DEF RightAll
  <2>2. CASE p \in conn[m] /\ m \in conn[p]
    BY <2>2 DEF Right
  <2>3. CASE ~(p \in conn[m] /\ m \in conn[p])
    <3>1. ~In(n, m, p) /\ Carries(m, n, p) = {} /\ p \notin pinging[m].all
      BY <2>1, <2>3 DEF Right
    <3>2. p \notin conn[m]
      <4>1. p \in conn[m] => m \in conn[p] BY <1>1, <2>0 DEF RightAll
      <4>2. QED BY <2>3, <4>1
    <3>3. p \notin pinging'[m].all
      BY <2>0, <3>1, <3>2
    <3>4. ~In(n, m, p)'
      BY <2>0, <3>1
    <3>5. Carries(m, n, p)' = {}
      <4>1. \A e \in Packet : Writes(m, n, e) /\ e.type = "ping" => p \notin e.peers
        BY <2>0, <3>1
      <4>2. Flows(m, n, types) BY <2>0
      <4>3. QED BY <2>0, <3>1, <4>1, <4>2, CarriesNew
    <3>6. QED BY <3>3, <3>4, <3>5 DEF Right
  <2>4. QED BY <2>2, <2>3
<1>4. RightAll'
  <2>1. \A n \in Node : \A m \in conn[n] : m \in Node /\ n \in conn[m] /\ ~awaited[n][m]
    BY <1>1, <1>2 DEF RightAll
  <2>2. \A n \in Node : \A m \in conn[n] : n \in conn[m] /\ ~awaited'[n][m]
    BY <2>1
  <2>3. QED BY <1>3, <2>2 DEF RightAll
<1>5. QED BY <1>4, TruthfulNext

(* Objects go on being known.                                                      *)
LEMMA SpreadKept ==
  ASSUME GossipTypes, NEW x, Spread(x), conn' = conn,
         \A m \in Node : Knows(m, x) => Knows(m, x)',
         \A n \in Node : \A m \in conn[n] :
            /\ x \in has'[n] \ casting'[n] => x \in has[n] \ casting[n] \/ Knows(m, x)'
            /\ x \in seen'[n][m] => x \in seen[n][m] \/ Knows(m, x)'
  PROVE  Spread(x)'
<1>1. conn \in [Node -> SUBSET Node]
  BY DEF GossipTypes
<1>2. ASSUME NEW n \in Node, NEW m \in conn[n]
      PROVE  /\ x \in has'[n] \ casting'[n] => Knows(m, x)'
             /\ x \in seen'[n][m] => Knows(m, x)'
  <2>1. m \in Node BY <1>1
  <2>2. x \in has[n] \ casting[n] => Knows(m, x) BY DEF Spread
  <2>3. x \in seen[n][m] => Knows(m, x) BY DEF Spread
  <2>4. QED BY <2>1, <2>2, <2>3
<1>3. QED BY <1>2 DEF Spread
-------------------------------------------------------------------------------
(* Steps that leave the connections as they are.                                  *)
LEMMA CalmWires ==
  ASSUME GossipInv, conn' = conn, NEW types, "end" \notin types,
         \A a, b \in Node : Flows(a, b, types),
         \A a \in Node : has[a] \subseteq has'[a] /\ has[a] \ casting[a] \subseteq has'[a] \ casting'[a],
         \A a, b \in Node : seen'[a][b] \subseteq created',
         \A a, b \in Node : \A e \in Packet : Writes(a, b, e) =>
            /\ e.type = "announce" => e.object \in has'[a] \ casting'[a]
            /\ e.type = "inventory" => e.txs \subseteq has'[a]
  PROVE  WiresInv'
<1> SUFFICES ASSUME NEW a \in Node, NEW b \in Node
             PROVE  Wire(a, b)' /\ Honest(a, b)'
  BY DEF WiresInv
<1>1. GossipTypes /\ Wire(a, b) /\ Honest(a, b)
  BY DEF GossipInv, WiresInv
<1>2. Wire(a, b)'
  BY <1>1, WireFlows
<1>3. Honest(a, b)'
  <2>1. /\ has[a] \subseteq has'[a] /\ has[a] \ casting[a] \subseteq has'[a] \ casting'[a]
        /\ seen'[a][b] \subseteq created' /\ Flows(a, b, types)
    OBVIOUS
  <2>2. \A e \in Packet : Writes(a, b, e) =>
            /\ e.type = "announce" => e.object \in has'[a] \ casting'[a]
            /\ e.type = "inventory" => e.txs \subseteq has'[a]
    OBVIOUS
  <2>3. QED BY ONLY <1>1, <2>1, <2>2, a \in Node, b \in Node, HonestFlows
<1>4. QED BY <1>2, <1>3

(* A pair that speaks of other things than peers and inventories.                 *)
LEMMA OpenSame ==
  ASSUME GossipTypes, NEW n \in Node, NEW m \in Node, Open(n, m), conn' = conn, hasty \subseteq hasty',
         awaited'[n][m] = awaited[n][m],
         NEW types, {"end", "lost", "ping", "inventory?"} \intersect types = {}, Flows(n, m, types),
         NEW back, "inventory" \notin back, Flows(m, n, back),
         Reads(n, m) => Head(chan[n][m]).type # "ping",
         \A p \in Node : (Out(n, m, p)' <=> Out(n, m, p)) /\ (In(m, n, p)' <=> In(m, n, p))
  PROVE  Open(n, m)'
<1>1. At(n, m, "end")' = {} /\ At(n, m, "lost")' = {}
  <2>1. "end" \notin types /\ "lost" \notin types OBVIOUS
  <2>2. At(n, m, "end") = {} /\ At(n, m, "lost") = {} BY DEF Open
  <2>3. At(n, m, "end")' = {} BY <2>1, <2>2, FlowsAt
  <2>4. At(n, m, "lost")' = {} BY <2>1, <2>2, FlowsAt
  <2>5. QED BY <2>3, <2>4
<1>2. Inquiry(n, m)'
  <2>1. "inventory?" \notin types /\ Inquiry(n, m) BY DEF Open
  <2>2. QED BY <2>1, InquirySame
<1>3. ASSUME NEW p \in Node PROVE Told(n, m, p)'
  <2>1. "ping" \notin types /\ Told(n, m, p) BY DEF Open
  <2>2. Out(n, m, p)' <=> Out(n, m, p) OBVIOUS
  <2>3. In(m, n, p)' <=> In(m, n, p) OBVIOUS
  <2>4. Reads(n, m) => 1 \notin Carries(n, m, p) BY ReadsAt DEF Carries
  <2>5. QED BY <2>1, <2>2, <2>3, <2>4, ToldSame
<1>4. m \in conn'[n] => n \in conn'[m]
  BY DEF Open
<1>5. QED BY <1>1, <1>2, <1>3, <1>4 DEF Open

LEMMA CalmClosed ==
  ASSUME GossipInv, conn' = conn, closes' = closes, blamed' = blamed, hasty \subseteq hasty', shared' = shared,
         awaited' = awaited,
         \A n \in Node : pinging'[n].all \subseteq pinging[n].all \union conn[n],
         \A a, b \in Node : Flows(a, b, {"announce"}),
         \A a, b \in Node : Reads(a, b) => Head(chan[a][b]).type # "ping"
  PROVE  ClosedInv'
<1> SUFFICES ASSUME closes = 0 PROVE NeverClosed'
  BY DEF ClosedInv
<1>1. NeverClosed /\ GossipTypes
  BY DEF GossipInv, ClosedInv
<1>2. \A n \in Node : pinging'[n].all \subseteq conn'[n]
  BY <1>1 DEF NeverClosed
<1>3. ASSUME NEW n \in Node, NEW m \in Node
      PROVE  Open(n, m)'
  <2>1. Open(n, m) /\ Flows(n, m, {"announce"}) /\ Flows(m, n, {"announce"})
    BY <1>1 DEF NeverClosed
  <2>2. awaited'[n][m] = awaited[n][m]
    OBVIOUS
  <2>3. \A p \in Node : (Out(n, m, p)' <=> Out(n, m, p)) /\ (In(m, n, p)' <=> In(m, n, p))
    BY DEF Out, In
  <2>4. Reads(n, m) => Head(chan[n][m]).type # "ping"
    OBVIOUS
  <2>5. {"end", "lost", "ping", "inventory?"} \intersect {"announce"} = {} /\ "inventory" \notin {"announce"}
    OBVIOUS
  <2>6. QED BY ONLY <1>1, <2>1, <2>2, <2>3, <2>4, <2>5, n \in Node, m \in Node, conn' = conn, hasty \subseteq hasty', OpenSame
<1>4. QED BY <1>1, <1>2, <1>3 DEF NeverClosed

LEMMA CalmSpread ==
  ASSUME GossipInv, conn' = conn, created' = created, disturbed' = disturbed,
         Truthful => Truthful',
         NEW types, \A a, b \in Node : Flows(a, b, types),
         \A a \in Node : has[a] \subseteq has'[a],
         \A a, b \in Node : Reads(a, b) /\ Head(chan[a][b]).type = "announce" => Head(chan[a][b]).object \in has'[b],
         \A x \in Undisturbed : RightAll => \A n \in Node : \A m \in conn[n] :
            /\ x \in has'[n] \ casting'[n] => x \in has[n] \ casting[n] \/ Knows(m, x) \/ Knows(m, x)'
            /\ x \in seen'[n][m] => x \in seen[n][m] \/ Knows(m, x) \/ Knows(m, x)'
  PROVE  SpreadInv'
<1>1. Undisturbed' = Undisturbed
  BY DEF Undisturbed
<1>2. Undisturbed' # {} => Truthful'
  BY <1>1 DEF GossipInv, SpreadInv
<1>3. ASSUME NEW x \in Undisturbed PROVE Spread(x)'
  <2>1. GossipTypes /\ Spread(x) /\ Truthful
    BY DEF GossipInv, SpreadInv
  <2>2. RightAll
    BY <2>1, TruthfulSays
  <2>3. ASSUME NEW m \in Node, Knows(m, x) PROVE Knows(m, x)'
    <3>1. /\ has[m] \subseteq has'[m] /\ \A n \in Node : Flows(n, m, types)
          /\ \A n \in Node : Reads(n, m) /\ Head(chan[n][m]).type = "announce" => Head(chan[n][m]).object \in has'[m]
      OBVIOUS
    <3>2. QED BY ONLY <2>1, <2>3, <3>1, m \in Node, KnowsKept
  <2>a. \A n \in Node : \A m \in conn[n] :
            /\ x \in has'[n] \ casting'[n] => x \in has[n] \ casting[n] \/ Knows(m, x) \/ Knows(m, x)'
            /\ x \in seen'[n][m] => x \in seen[n][m] \/ Knows(m, x) \/ Knows(m, x)'
    BY <2>2
  <2>b. \A n \in Node : conn[n] \subseteq Node
    BY <2>1 DEF GossipTypes
  <2>4. \A n \in Node : \A m \in conn[n] :
            /\ x \in has'[n] \ casting'[n] => x \in has[n] \ casting[n] \/ Knows(m, x)'
            /\ x \in seen'[n][m] => x \in seen[n][m] \/ Knows(m, x)'
    BY <2>3, <2>a, <2>b
  <2>5. QED BY ONLY <2>1, <2>3, <2>4, conn' = conn, SpreadKept
<1>4. QED BY <1>1, <1>2, <1>3 DEF SpreadInv

(* Nothing is written on a channel that is only left alone or read.                *)
LEMMA NotWritten ==
  ASSUME GossipTypes, NEW a \in Node, NEW b \in Node, Still(a, b) \/ Reads(a, b), NEW e \in Packet
  PROVE  ~Writes(a, b, e)
<1>1. PICK q : q = chan[a][b]
  OBVIOUS
<1>2. q \in Seq(Packet)
  BY <1>1 DEF GossipTypes
<1>3. Len(Append(q, e)) = Len(q) + 1 /\ Len(q) \in Nat
  BY <1>2
<1>4. q # <<>> => Len(Tail(q)) = Len(q) - 1
  BY <1>2
<1>5. Append(q, e) # q /\ (q # <<>> => Append(q, e) # Tail(q))
  BY <1>3, <1>4
<1>6. QED BY <1>1, <1>5 DEF Still, Reads, Writes

(* One packet at most is written on a channel.                                     *)
LEMMA OneWritten ==
  ASSUME GossipTypes, NEW a \in Node, NEW b \in Node, NEW e \in Packet, Writes(a, b, e),
         NEW f \in Packet, Writes(a, b, f)
  PROVE  f = e
<1>1. PICK q : q = chan[a][b]
  OBVIOUS
<1>2. q \in Seq(Packet)
  BY <1>1 DEF GossipTypes
<1>3. Append(q, e)[Len(q) + 1] = e /\ Append(q, f)[Len(q) + 1] = f
  BY <1>2
<1>4. QED BY <1>1, <1>3 DEF Writes

(* A channel that is written is not read, and a channel left alone neither.         *)
LEMMA NotRead ==
  ASSUME GossipTypes, NEW a \in Node, NEW b \in Node, Still(a, b) \/ \E e \in Packet : Writes(a, b, e)
  PROVE  ~Reads(a, b)
<1>1. PICK q : q = chan[a][b]
  OBVIOUS
<1>2. q \in Seq(Packet)
  BY <1>1 DEF GossipTypes
<1>3. Len(q) \in Nat /\ \A e \in Packet : Len(Append(q, e)) = Len(q) + 1
  BY <1>2
<1>4. q # <<>> => Len(Tail(q)) = Len(q) - 1
  BY <1>2
<1>5. q # <<>> => Tail(q) # q /\ \A e \in Packet : Append(q, e) # Tail(q)
  BY <1>3, <1>4
<1>6. QED BY <1>1, <1>5 DEF Still, Reads, Writes
(* The first nodes: everything they know of one another is exchanged.              *)
LEMMA GossipStart == Init => GossipInv
<1> SUFFICES ASSUME Init PROVE GossipInv
  OBVIOUS
<1>0. \A n, m, p \in Node : Exchanged(n, m)[p] \in Directions
  BY DEF Exchanged, Directions
<1>a. OldTx \subseteq Object
  BY ObjectsAssumption DEF Object
<1>b. \A n, m \in Node : /\ (m \in conn[n] <=> m # n /\ {n, m} \in FirstLinks)
                         /\ chan[n][m] = <<>> /\ seen[n][m] = {} /\ awaited[n][m] = FALSE
                         /\ has[n] = OldTx /\ casting[n] = {} /\ pinging[n] = NoPing
  BY DEF Init
<1>c. \A n, m \in Node : n # m \/ {n, m} \notin FirstLinks
  BY LinksAssumption
<1>d. \A n, m, p \in Node :
        /\ Out(n, m, p) <=> {n, m} \in FirstLinks /\ p # n /\ p # m /\ {n, p} \in FirstLinks
        /\ In(n, m, p) <=> {n, m} \in FirstLinks /\ p # n /\ p # m /\ {m, p} \in FirstLinks
  <2> SUFFICES ASSUME NEW n \in Node, NEW m \in Node, NEW p \in Node
               PROVE  /\ Out(n, m, p) <=> {n, m} \in FirstLinks /\ p # n /\ p # m /\ {n, p} \in FirstLinks
                      /\ In(n, m, p) <=> {n, m} \in FirstLinks /\ p # n /\ p # m /\ {m, p} \in FirstLinks
    OBVIOUS
  <2>1. shared[n][m][p] = Exchanged(n, m)[p]
    BY DEF Init
  <2>2. PICK told, heard : /\ told = ({n, m} \in FirstLinks /\ p \notin {n, m} /\ {n, p} \in FirstLinks)
                           /\ heard = ({n, m} \in FirstLinks /\ p \notin {n, m} /\ {m, p} \in FirstLinks)
    OBVIOUS
  <2>3. Exchanged(n, m)[p] = CASE told /\ heard -> "Both"
                               [] told /\ ~heard -> "Out"
                               [] heard /\ ~told -> "In"
                               [] OTHER -> None
    BY <2>2 DEF Exchanged
  <2>4. told \in BOOLEAN /\ heard \in BOOLEAN
    BY <2>2
  <2>5. /\ Exchanged(n, m)[p] \in {"Out", "Both"} <=> told
        /\ Exchanged(n, m)[p] \in {"In", "Both"} <=> heard
    BY <2>3, <2>4 DEF None
  <2>6. QED BY <2>1, <2>2, <2>5 DEF Out, In
<1>f. \A n, m \in Node : \A type : At(n, m, type) = {}
  <2>1. DOMAIN <<>> = {} OBVIOUS
  <2>2. QED BY <1>b, <2>1 DEF At, Places
<1>g. \A n, m, p \in Node : Carries(n, m, p) = {}
  BY <1>f DEF Carries
<1>1. GossipTypes
  <2>1. shared \in [Node -> [Node -> [Node -> Directions]]]
    <3>1. \A n, m \in Node : Exchanged(n, m) \in [Node -> Directions]
      BY <1>0 DEF Exchanged
    <3>2. QED BY <3>1 DEF Init
  <2>2. chan \in [Node -> [Node -> Seq(Packet)]]
    BY DEF Init
  <2>3. QED BY <1>a, <2>1, <2>2 DEF Init, GossipTypes, NoPing
<1>2. WiresInv
  BY <1>b, <1>f DEF WiresInv, Wire, Honest
<1>3. NodesInv
  BY <1>b DEF Init, NodesInv, Kept, NoPing
<1>4. ClosedInv
  <2>1. \A n, m \in Node : Inquiry(n, m)
    BY <1>f DEF Inquiry, InquiryOnce
  <2>2. \A n, m, p \in Node : Told(n, m, p)
    <3> SUFFICES ASSUME NEW n \in Node, NEW m \in Node, NEW p \in Node PROVE Told(n, m, p)
      OBVIOUS
    <3>1. Out(n, m, p) <=> In(m, n, p)
      <4>1. {n, m} = {m, n} OBVIOUS
      <4>2. QED BY <1>d, <4>1
    <3>2. Out(n, m, p) => p \in conn[n] /\ m \in conn[n] BY <1>b, <1>c, <1>d
    <3>3. QED BY <3>1, <3>2, <1>g DEF Told, ToldOnce
  <2>3. \A n, m \in Node : m \in conn[n] => n \in conn[m]
    <3> SUFFICES ASSUME NEW n \in Node, NEW m \in Node, m \in conn[n] PROVE n \in conn[m]
      OBVIOUS
    <3>1. {n, m} = {m, n} OBVIOUS
    <3>2. QED BY <1>b, <3>1
  <2>4. \A n, m \in Node : Open(n, m)
    BY <2>1, <2>2, <2>3, <1>f DEF Open
  <2>5. QED BY <1>b, <2>4 DEF ClosedInv, NeverClosed, Init, NoPing
<1>5. SpreadInv
  <2>1. Truthful
    <3>1. ASSUME NEW n \in Node, NEW m \in conn[n]
          PROVE  /\ n \in conn[m] /\ ~awaited[n][m]
                 /\ \A p \in conn[n] \ {m} :
                      \/ p \in conn[m] /\ m \in conn[p]
                      \/ /\ shared[n][m][p] \notin {"In", "Both"}
                         /\ \A packet \in Packets(chan[m][n]) : packet.type = "ping" => p \notin packet.peers
                         /\ p \notin pinging[m].all
      <4>1. m \in Node BY <1>1 DEF GossipTypes
      <4>a. {n, m} = {m, n} OBVIOUS
      <4>2. n \in conn[m] /\ ~awaited[n][m] BY <1>b, <4>a, <4>1
      <4>3. ASSUME NEW p \in conn[n] \ {m}
            PROVE  (p \in conn[m] /\ m \in conn[p]) \/ shared[n][m][p] \notin {"In", "Both"}
        <5>1. p \in Node BY <1>1 DEF GossipTypes
        <5>2. In(n, m, p) => {m, p} \in FirstLinks /\ p # m BY <1>d, <4>1, <5>1
        <5>3. {m, p} = {p, m} OBVIOUS
        <5>4. QED BY <1>b, <4>1, <5>1, <5>2, <5>3 DEF In
      <4>4. Packets(chan[m][n]) = {} /\ pinging[m].all = {}
        <5>1. Packets(<<>>) = {} BY DEF Packets
        <5>2. chan[m][n] = <<>> /\ pinging[m] = NoPing BY <1>b, <4>1
        <5>3. QED BY <5>1, <5>2 DEF NoPing
      <4>5. QED BY <4>2, <4>3, <4>4
    <3>2. QED BY <3>1 DEF Truthful
  <2>2. ASSUME NEW x \in Undisturbed PROVE Spread(x)
    <3>1. x \in OldTx BY DEF Undisturbed, Init
    <3>2. \A m \in Node : Knows(m, x) BY <1>b, <3>1 DEF Knows
    <3>3. \A n \in Node : \A m \in conn[n] : m \in Node BY <1>1 DEF GossipTypes
    <3>4. QED BY <3>2, <3>3 DEF Spread
  <2>3. QED BY <2>1, <2>2 DEF SpreadInv
<1>6. QED BY <1>1, <1>2, <1>3, <1>4, <1>5 DEF GossipInv

-------------------------------------------------------------------------------
(* Steps that send and read nothing.                                              *)
LEMMA Silent ==
  ASSUME GossipTypes, chan' = chan
  PROVE  /\ \A a, b \in Node : \A types : Flows(a, b, types)
         /\ \A a, b \in Node : ~Reads(a, b)
         /\ \A a, b \in Node : \A e \in Packet : ~Writes(a, b, e)
<1>1. \A a, b \in Node : Still(a, b)
  BY DEF Still
<1>2. \A a, b \in Node : ~Reads(a, b)
  BY <1>1, NotRead
<1>3. \A a, b \in Node : \A e \in Packet : ~Writes(a, b, e)
  BY <1>1, NotWritten
<1>4. QED BY <1>1, <1>2, <1>3 DEF Flows

LEMMA PingStartKeeps ==
  ASSUME GossipInv, NEW n \in Node, PingStart(n)
  PROVE  GossipInv'
<1>0. GossipTypes /\ WiresInv /\ NodesInv
  BY DEF GossipInv
<1>1. /\ UNCHANGED <<conn, closes, disturbed, hasty, chan, shared, seen, awaited, has, casting, created, blamed>>
      /\ pinging' = [pinging EXCEPT ![n] = [all |-> conn[n], todo |-> Uninformed(n)]]
  BY DEF PingStart, links, objects
<1>2. Uninformed(n) \subseteq conn[n] /\ conn[n] \subseteq Node
  BY <1>0 DEF Uninformed, GossipTypes
<1>3. \A m \in Node : pinging'[m] = IF m = n THEN [all |-> conn[n], todo |-> Uninformed(n)] ELSE pinging[m]
  BY <1>0, <1>1 DEF GossipTypes
<1>4. \A m \in Node : pinging'[m].all \subseteq pinging[m].all \union conn[m]
  BY <1>3
<1>5. GossipTypes'
  <2>1. pinging' \in [Node -> [all : SUBSET Node, todo : SUBSET Node]]
    BY <1>0, <1>1, <1>2 DEF GossipTypes
  <2>2. QED BY <1>0, <1>1, <2>1 DEF GossipTypes
<1>6. /\ \A a, b \in Node : \A types : Flows(a, b, types)
      /\ \A a, b \in Node : ~Reads(a, b)
      /\ \A a, b \in Node : \A e \in Packet : ~Writes(a, b, e)
  BY <1>0, <1>1, Silent
<1>7. WiresInv'
  BY <1>0, <1>1 DEF WiresInv, Wire, Honest, At
<1>8. NodesInv'
  BY <1>0, <1>1, <1>2, <1>3 DEF NodesInv, Kept
<1>9. ClosedInv'
  BY <1>1, <1>4, <1>6, CalmClosed
<1>10. SpreadInv'
  <2>1. Truthful => Truthful'
    <3>1. \A a, b, p \in Node : In(a, b, p)' => In(a, b, p) BY <1>1 DEF In
    <3>2. QED BY <1>0, <1>1, <1>4, <1>6, <3>1, TruthfulKept
  <2>2. QED BY <1>1, <1>6, <2>1, CalmSpread
<1>11. QED BY <1>5, <1>7, <1>8, <1>9, <1>10 DEF GossipInv

(* A new object: nobody has heard of it, and it counts as undisturbed when beliefs
   are right.                                                                     *)
LEMMA SubmitKeeps ==
  ASSUME GossipInv, NEW n \in Node, NEW x \in Object, Submit(n, x)
  PROVE  GossipInv'
<1>0. GossipTypes /\ WiresInv /\ NodesInv
  BY DEF GossipInv
<1>1. /\ UNCHANGED <<conn, closes, hasty, chan, shared, seen, awaited, pinging, blamed>>
      /\ x \notin created /\ created' = created \union {x}
      /\ has' = [has EXCEPT ![n] = @ \union {x}] /\ casting' = [casting EXCEPT ![n] = @ \union {x}]
      /\ disturbed' = IF Truthful THEN disturbed ELSE disturbed \union {x}
  BY DEF Submit
<1>2. \A a \in Node : /\ has'[a] = (IF a = n THEN has[a] \union {x} ELSE has[a])
                      /\ casting'[a] = (IF a = n THEN casting[a] \union {x} ELSE casting[a])
  BY <1>0, <1>1 DEF GossipTypes
<1>3. \A a \in Node : has[a] \subseteq created /\ casting[a] \subseteq has[a]
  BY <1>0 DEF NodesInv, Kept
<1>4. \A a \in Node : has[a] \subseteq has'[a] /\ has[a] \ casting[a] \subseteq has'[a] \ casting'[a]
  BY <1>1, <1>2, <1>3
<1>5. GossipTypes'
  BY <1>0, <1>1 DEF GossipTypes
<1>6. /\ \A a, b \in Node : \A types : Flows(a, b, types)
      /\ \A a, b \in Node : ~Reads(a, b)
      /\ \A a, b \in Node : \A e \in Packet : ~Writes(a, b, e)
  BY <1>0, <1>1, Silent
<1>7. WiresInv'
  <2>1. \A a, b \in Node : seen'[a][b] \subseteq created'
    BY <1>0, <1>1 DEF WiresInv, Honest
  <2>2. "end" \notin {} /\ \A a, b \in Node : Flows(a, b, {})
    BY <1>6
  <2>3. QED BY <1>1, <1>4, <1>6, <2>1, <2>2, CalmWires
<1>8. NodesInv'
  BY <1>0, <1>1, <1>2 DEF NodesInv, Kept
<1>9. ClosedInv'
  BY <1>1, <1>6, CalmClosed
<1>10. SpreadInv'
  <2>1. Truthful' = Truthful
    BY <1>1 DEF Truthful
  <2>2. CASE Truthful
    <3>1. ASSUME NEW y \in Undisturbed' PROVE Spread(y)'
      <4>1. \A m \in Node : Knows(m, y) => Knows(m, y)'
        BY <1>1, <1>4 DEF Knows, Announced, At
      <4>2. CASE y = x
        <5>1. \A a \in Node : x \notin has'[a] \ casting'[a]
          BY <1>1, <1>2, <1>3
        <5>2. \A a, b \in Node : x \notin seen'[a][b]
          BY <1>0, <1>1 DEF WiresInv, Honest
        <5>3. \A a \in Node : conn'[a] \subseteq Node
          BY <1>5 DEF GossipTypes
        <5>4. QED BY <4>2, <5>1, <5>2, <5>3 DEF Spread
      <4>3. CASE y # x
        <5>1. Spread(y) BY <1>1, <2>2, <4>3 DEF Undisturbed, GossipInv, SpreadInv
        <5>2. \A a \in Node : \A b \in conn[a] :
                 /\ y \in has'[a] \ casting'[a] => y \in has[a] \ casting[a] \/ Knows(b, y)'
                 /\ y \in seen'[a][b] => y \in seen[a][b] \/ Knows(b, y)'
          BY <1>1, <1>2, <4>3
        <5>3. QED BY ONLY <1>0, <1>1, <4>1, <5>1, <5>2, SpreadKept
      <4>4. QED BY <4>2, <4>3
    <3>2. QED BY <2>1, <2>2, <3>1 DEF SpreadInv
  <2>3. CASE ~Truthful
    <3>1. created \ disturbed = {} BY <2>3 DEF GossipInv, SpreadInv, Undisturbed
    <3>2. Undisturbed' = {} BY <1>1, <2>3, <3>1 DEF Undisturbed
    <3>3. QED BY <3>2 DEF SpreadInv
  <2>4. QED BY <2>2, <2>3
<1>11. QED BY <1>5, <1>7, <1>8, <1>9, <1>10 DEF GossipInv

-------------------------------------------------------------------------------
(* Announcements.                                                                 *)
LEMMA BroadcastKeeps ==
  ASSUME GossipInv, NEW n \in Node, NEW x \in Object, Broadcast(n, x)
  PROVE  GossipInv'
<1>0. GossipTypes /\ WiresInv /\ NodesInv /\ conn[n] \subseteq Node
  BY DEF GossipInv, GossipTypes
<1>1. PICK to : to = {m \in conn[n] : x \notin seen[n][m]}
  OBVIOUS
<1>2. PICK e : e = [type |-> "announce", object |-> x]
  OBVIOUS
<1>3. e \in Packet /\ e.type = "announce" /\ e.object = x
  BY <1>2 DEF Packet
<1>4. /\ x \in casting[n] /\ casting' = [casting EXCEPT ![n] = @ \ {x}]
      /\ chan' = Sent(chan, n, [m \in to |-> <<e>>])
      /\ seen' = [seen EXCEPT ![n] = [m \in Node |-> IF m \in to THEN @[m] \union {x} ELSE @[m]]]
      /\ UNCHANGED <<conn, closes, disturbed, hasty, shared, awaited, has, created, pinging, blamed>>
  BY <1>1, <1>2 DEF Broadcast, links
<1>5. to \in SUBSET conn[n]
  BY <1>1
<1>6. /\ chan' \in Channels
      /\ \A a, b \in Node : Still(a, b) \/ (a = n /\ b \in to /\ Writes(a, b, e))
      /\ \A b \in to : n \in conn[b] => Writes(n, b, e)
  BY ONLY <1>0, <1>3, <1>4, <1>5, n \in Node, SendsOne
<1>7. \A a \in Node : casting'[a] = IF a = n THEN casting[a] \ {x} ELSE casting[a]
  BY <1>0, <1>4 DEF GossipTypes
<1>8. \A a, b \in Node : seen'[a][b] = IF a = n /\ b \in to THEN seen[a][b] \union {x} ELSE seen[a][b]
  BY <1>0, <1>4 DEF GossipTypes
<1>9. \A a \in Node : has[a] \subseteq created /\ casting[a] \subseteq has[a]
  BY <1>0 DEF NodesInv, Kept
<1>10. /\ \A a, b \in Node : Flows(a, b, {"announce"})
       /\ \A a, b \in Node : ~Reads(a, b)
       /\ \A a, b \in Node : \A f \in Packet : Writes(a, b, f) => a = n /\ f = e
  <2>1. \A a, b \in Node : Flows(a, b, {"announce"})
    BY <1>3, <1>6 DEF Flows
  <2>2. \A a, b \in Node : ~Reads(a, b)
    BY <1>0, <1>3, <1>6, NotRead
  <2>3. ASSUME NEW a \in Node, NEW b \in Node, NEW f \in Packet, Writes(a, b, f)
        PROVE  a = n /\ f = e
    <3>1. ~Still(a, b) BY <1>0, <2>3, NotWritten
    <3>2. a = n /\ Writes(a, b, e) BY <1>6, <3>1
    <3>3. QED BY <1>0, <1>3, <2>3, <3>2, OneWritten
  <2>4. QED BY <2>1, <2>2, <2>3
<1>11. GossipTypes'
  <2>1. seen' \in [Node -> [Node -> SUBSET Object]]
    BY <1>0, <1>4 DEF GossipTypes
  <2>2. casting' \in [Node -> SUBSET Object]
    BY <1>0, <1>4 DEF GossipTypes
  <2>3. QED BY <1>0, <1>4, <1>6, <2>1, <2>2 DEF GossipTypes, Channels
<1>12. WiresInv'
  <2>1. \A a \in Node : has[a] \subseteq has'[a] /\ has[a] \ casting[a] \subseteq has'[a] \ casting'[a]
    BY <1>4, <1>7
  <2>2. \A a, b \in Node : seen'[a][b] \subseteq created'
    BY <1>0, <1>4, <1>8, <1>9 DEF WiresInv, Honest
  <2>3. x \in has'[n] \ casting'[n]
    BY <1>4, <1>7, <1>9
  <2>4. \A a, b \in Node : \A f \in Packet : Writes(a, b, f) =>
            /\ f.type = "announce" => f.object \in has'[a] \ casting'[a]
            /\ f.type = "inventory" => f.txs \subseteq has'[a]
    BY <1>3, <1>10, <2>3
  <2>5. "end" \notin {"announce"} OBVIOUS
  <2>6. QED BY ONLY GossipInv, <1>4, <1>10, <2>1, <2>2, <2>4, <2>5, CalmWires
<1>13. NodesInv'
  BY <1>0, <1>4, <1>7 DEF NodesInv, Kept
<1>14. ClosedInv'
  BY <1>4, <1>10, CalmClosed
<1>15. SpreadInv'
  <2>1. Truthful => Truthful'
    <3>1. \A a, b, p \in Node : In(a, b, p)' => In(a, b, p) BY <1>4 DEF In
    <3>2. \A a, b \in Node : \A f \in Packet : ~(Writes(a, b, f) /\ f.type = "ping") BY <1>3, <1>10
    <3>3. QED BY <1>0, <1>4, <1>10, <3>1, <3>2, TruthfulKept
  <2>2. ASSUME NEW m \in to, n \in conn[m] PROVE Knows(m, x)'
    <3>0. m \in Node BY <1>0, <1>5
    <3>1. Writes(n, m, e) BY <1>6, <2>2
    <3>2. \E i \in At(n, m, "announce")' : chan'[n][m][i] = e
      BY <1>0, <1>3, <3>0, <3>1, WritesAdd
    <3>3. QED BY <1>3, <3>2 DEF Knows, Announced
  <2>3. ASSUME NEW y \in Undisturbed, RightAll, NEW a \in Node, NEW m \in conn[a]
        PROVE  /\ y \in has'[a] \ casting'[a] => y \in has[a] \ casting[a] \/ Knows(m, y) \/ Knows(m, y)'
               /\ y \in seen'[a][m] => y \in seen[a][m] \/ Knows(m, y) \/ Knows(m, y)'
    <3>1. m \in Node /\ a \in conn[m] BY <1>0, <2>3 DEF RightAll, GossipTypes
    <3>2. CASE a = n /\ y = x
      <4>1. CASE m \in to
        BY <2>2, <3>1, <3>2, <4>1
      <4>2. CASE m \notin to
        <5>1. y \in seen[a][m] BY <1>1, <3>2, <4>2
        <5>2. Knows(m, y) BY <5>1 DEF GossipInv, SpreadInv, Spread
        <5>3. QED BY <5>2
      <4>3. QED BY <4>1, <4>2
    <3>3. CASE ~(a = n /\ y = x)
      BY <1>4, <1>7, <1>8, <3>1, <3>3
    <3>4. QED BY <3>2, <3>3
  <2>4. \A a \in Node : has[a] \subseteq has'[a] BY <1>4
  <2>5. QED BY <1>4, <1>10, <2>1, <2>3, <2>4, CalmSpread
<1>16. QED BY <1>11, <1>12, <1>13, <1>14, <1>15 DEF GossipInv

(* The packet that is read.                                                        *)
LEMMA FirstPacket ==
  ASSUME GossipInv, NEW n \in Node, NEW m \in Node, NEW type, Receives(n, m, type)
  PROVE  /\ chan[m][n] # <<>> /\ m \in conn[n] /\ m # n
         /\ Head(chan[m][n]) = chan[m][n][1] /\ Head(chan[m][n]) \in Packet
         /\ Head(chan[m][n]).type = type /\ 1 \in At(m, n, type)
<1>1. GossipTypes /\ Wire(m, n) /\ Wire(n, m)
  BY DEF GossipInv, WiresInv
<1>2. PICK q : q = chan[m][n]
  OBVIOUS
<1>3. q \in Seq(Packet) /\ q # <<>> /\ Head(q).type = type
  BY <1>1, <1>2 DEF GossipTypes, Receives
<1>4. /\ Head(q) = q[1] /\ Head(q) \in Packet
      /\ 1 \in Places(q, type) <=> Head(q).type = type
  BY ONLY <1>3, PlacesTaken
<1>5. m \in conn[n] /\ m # n
  BY <1>1, <1>2, <1>3 DEF Wire
<1>6. QED BY <1>2, <1>3, <1>4, <1>5 DEF At

(* An object is read: its sender has announced it to all its peers, so the common
   ones know of it.                                                               *)
LEMMA PropagationKeeps ==
  ASSUME GossipInv, NEW n \in Node, NEW m \in Node, HandlePropagation(n, m)
  PROVE  GossipInv'
<1>0. GossipTypes /\ WiresInv /\ NodesInv
  BY DEF GossipInv
<1>1. Receives(n, m, "announce")
  BY DEF HandlePropagation
<1>2. /\ chan[m][n] # <<>> /\ m \in conn[n] /\ m # n
      /\ Head(chan[m][n]) = chan[m][n][1] /\ Head(chan[m][n]) \in Packet
      /\ Head(chan[m][n]).type = "announce" /\ 1 \in At(m, n, "announce")
  BY <1>1, FirstPacket
<1>3. PICK x : x = Head(chan[m][n]).object
  OBVIOUS
<1>4. x \in has[m] \ casting[m]
  BY <1>0, <1>2, <1>3 DEF WiresInv, Honest
<1>5. /\ seen' = Seen(n, m, x)
      /\ has' = [has EXCEPT ![n] = @ \union {x}]
      /\ casting' = [casting EXCEPT ![n] = IF x \in has[n] THEN @ ELSE @ \union {x}]
      /\ chan' = Taken(n, m)
      /\ UNCHANGED <<conn, closes, disturbed, hasty, shared, awaited, created, pinging, blamed>>
  BY <1>3 DEF HandlePropagation, links
<1>6. \A a \in Node : has[a] \subseteq created /\ casting[a] \subseteq has[a] /\ has[a] \subseteq Object
  BY <1>0 DEF NodesInv, Kept, GossipTypes
<1>7. x \in Object /\ x \in created
  BY <1>4, <1>6
<1>8. \A a \in Node : /\ has'[a] = (IF a = n THEN has[a] \union {x} ELSE has[a])
                      /\ casting'[a] = (IF a = n /\ x \notin has[a] THEN casting[a] \union {x} ELSE casting[a])
  BY <1>0, <1>5 DEF GossipTypes
<1>9. PICK told : told = get_common_peers_for(n, m) \union {m}
  OBVIOUS
<1>a. seen' = [seen EXCEPT ![n] = [p \in Node |-> IF p \in told THEN @[p] \union {x} ELSE @[p]]]
  BY <1>5, <1>9 DEF Seen
<1>b. \A a, b \in Node : seen'[a][b] = IF a = n /\ b \in told THEN seen[a][b] \union {x} ELSE seen[a][b]
  BY <1>0, <1>a DEF GossipTypes
<1>10. /\ chan' \in Channels /\ Reads(m, n)
       /\ \A a, b \in Node : (a = m /\ b = n) \/ Still(a, b)
  BY <1>0, <1>2, <1>5, ReadsOne
<1>11. /\ \A a, b \in Node : \A types : Flows(a, b, types)
       /\ \A a, b \in Node : Reads(a, b) => a = m /\ b = n
       /\ \A a, b \in Node : \A e \in Packet : ~Writes(a, b, e)
  <2>1. \A a, b \in Node : Still(a, b) \/ Reads(a, b) BY <1>10
  <2>2. \A a, b \in Node : \A e \in Packet : ~Writes(a, b, e) BY <1>0, <2>1, NotWritten
  <2>3. \A a, b \in Node : Reads(a, b) => a = m /\ b = n BY <1>0, <1>10, NotRead
  <2>4. QED BY <2>1, <2>2, <2>3 DEF Flows
<1>12. GossipTypes'
  <2>1. seen' \in [Node -> [Node -> SUBSET Object]]
    BY <1>0, <1>7, <1>a DEF GossipTypes
  <2>2. has' \in [Node -> SUBSET Object] /\ casting' \in [Node -> SUBSET Object]
    BY <1>0, <1>5, <1>7 DEF GossipTypes
  <2>3. QED BY <1>0, <1>5, <1>10, <2>1, <2>2 DEF GossipTypes, Channels
<1>c. \A a \in Node : has[a] \subseteq has'[a] /\ has[a] \ casting[a] \subseteq has'[a] \ casting'[a]
  BY <1>8
<1>13. WiresInv'
  <2>1. \A a, b \in Node : seen'[a][b] \subseteq created'
    <3>1. \A a, b \in Node : seen[a][b] \subseteq created BY <1>0 DEF WiresInv, Honest
    <3>2. created' = created BY <1>5
    <3>3. ASSUME NEW a \in Node, NEW b \in Node PROVE seen'[a][b] \subseteq created'
      <4>1. seen'[a][b] = seen[a][b] \union {x} \/ seen'[a][b] = seen[a][b] BY <1>b
      <4>2. seen[a][b] \subseteq created BY <3>1
      <4>3. QED BY <1>7, <3>2, <4>1, <4>2
    <3>4. QED BY <3>3
  <2>2. "end" \notin {} /\ \A a, b \in Node : Flows(a, b, {}) BY <1>11
  <2>3. \A a, b \in Node : \A e \in Packet : Writes(a, b, e) =>
            /\ e.type = "announce" => e.object \in has'[a] \ casting'[a]
            /\ e.type = "inventory" => e.txs \subseteq has'[a]
    BY <1>11
  <2>4. QED BY ONLY GossipInv, <1>5, <1>c, <2>1, <2>2, <2>3, CalmWires
<1>14. NodesInv'
  BY <1>0, <1>5, <1>7, <1>8 DEF NodesInv, Kept
<1>15. ClosedInv'
  <2>1. \A a, b \in Node : Reads(a, b) => Head(chan[a][b]).type # "ping"
    BY <1>2, <1>11
  <2>2. QED BY <1>5, <1>11, <2>1, CalmClosed
<1>16. SpreadInv'
  <2>1. Truthful => Truthful'
    <3>1. \A a, b, p \in Node : In(a, b, p)' => In(a, b, p) BY <1>5 DEF In
    <3>2. \A a, b \in Node : Flows(a, b, {}) BY <1>11
    <3>3. QED BY <1>0, <1>5, <1>11, <3>1, <3>2, TruthfulKept
  <2>2. ASSUME NEW y \in Undisturbed, RightAll, NEW a \in Node, NEW b \in conn[a]
        PROVE  /\ y \in has'[a] \ casting'[a] => y \in has[a] \ casting[a] \/ Knows(b, y) \/ Knows(b, y)'
               /\ y \in seen'[a][b] => y \in seen[a][b] \/ Knows(b, y) \/ Knows(b, y)'
    <3>1. b \in Node BY <1>0 DEF GossipTypes
    <3>2. y \in has'[a] \ casting'[a] => y \in has[a] \ casting[a]
      BY <1>8
    <3>3. CASE a = n /\ y = x /\ b \in told
      <4>1. CASE b = m
        BY <1>4, <3>2, <3>3, <4>1 DEF Knows
      <4>2. CASE b # m
        <5>1. b \in conn[n] \ {m} /\ shared[n][m][b] = "Both"
          BY <1>9, <3>3, <4>2 DEF get_common_peers_for
        <5>2. Right(n, m, b) BY <1>2, <2>2, <5>1 DEF RightAll
        <5>3. b \in conn[m] BY <5>1, <5>2 DEF Right, In
        <5>4. Spread(x) BY <2>2, <3>3 DEF GossipInv, SpreadInv
        <5>5. Knows(b, x) BY <1>4, <5>3, <5>4 DEF Spread
        <5>6. QED BY <3>3, <5>5
      <4>3. QED BY <3>3, <4>1, <4>2
    <3>4. CASE ~(a = n /\ y = x /\ b \in told)
      <4>1. y \in seen'[a][b] => y \in seen[a][b] BY <1>b, <3>1, <3>4
      <4>2. QED BY <3>2, <4>1
    <3>5. QED BY <3>3, <3>4
  <2>3. \A a, b \in Node : Reads(a, b) /\ Head(chan[a][b]).type = "announce" => Head(chan[a][b]).object \in has'[b]
    BY <1>3, <1>8, <1>11
  <2>4. \A a, b \in Node : Flows(a, b, {}) BY <1>11
  <2>5. QED BY ONLY GossipInv, <1>5, <1>c, <2>1, <2>2, <2>3, <2>4, CalmSpread
<1>17. QED BY <1>12, <1>13, <1>14, <1>15, <1>16 DEF GossipInv

-------------------------------------------------------------------------------
(* The peer lists.                                                                *)
LEMMA OnlyRead ==
  ASSUME GossipTypes, NEW n \in Node, NEW m \in Node, chan[m][n] # <<>>, chan' = Taken(n, m)
  PROVE  /\ chan' \in Channels /\ Reads(m, n)
         /\ \A a, b \in Node : (a = m /\ b = n) \/ Still(a, b)
         /\ \A a, b \in Node : \A types : Flows(a, b, types)
         /\ \A a, b \in Node : Reads(a, b) => a = m /\ b = n
         /\ \A a, b \in Node : \A e \in Packet : ~Writes(a, b, e)
<1>1. /\ chan' \in Channels /\ Reads(m, n)
      /\ \A a, b \in Node : (a = m /\ b = n) \/ Still(a, b)
  BY ReadsOne
<1>2. \A a, b \in Node : Still(a, b) \/ Reads(a, b) BY <1>1
<1>3. \A a, b \in Node : \A e \in Packet : ~Writes(a, b, e) BY <1>2, NotWritten
<1>4. \A a, b \in Node : Reads(a, b) => a = m /\ b = n BY <1>1, NotRead
<1>5. QED BY <1>1, <1>2, <1>3, <1>4 DEF Flows

(* Steps that change neither objects nor what was seen of them.                    *)
LEMMA CalmObjects ==
  ASSUME GossipInv, UNCHANGED <<conn, disturbed, has, casting, seen, created>>,
         NEW types, "end" \notin types, "announce" \notin types, \A a, b \in Node : Flows(a, b, types),
         \A a, b \in Node : Reads(a, b) => Head(chan[a][b]).type # "announce",
         \A a, b \in Node : \A e \in Packet : Writes(a, b, e) =>
            e.type \in types /\ (e.type = "inventory" => e.txs \subseteq has[a]),
         \A a \in Node : pinging'[a].todo \subseteq pinging'[a].all,
         Truthful => Truthful'
  PROVE  WiresInv' /\ NodesInv' /\ SpreadInv'
<1>0. GossipTypes /\ WiresInv /\ NodesInv
  BY DEF GossipInv
<1>1. WiresInv'
  <2>1. \A a \in Node : has[a] \subseteq has'[a] /\ has[a] \ casting[a] \subseteq has'[a] \ casting'[a]
    OBVIOUS
  <2>2. \A a, b \in Node : seen'[a][b] \subseteq created'
    BY <1>0 DEF WiresInv, Honest
  <2>3. \A a, b \in Node : \A e \in Packet : Writes(a, b, e) =>
            /\ e.type = "announce" => e.object \in has'[a] \ casting'[a]
            /\ e.type = "inventory" => e.txs \subseteq has'[a]
    OBVIOUS
  <2>4. conn' = conn OBVIOUS
  <2>5. \A a, b \in Node : Flows(a, b, types) OBVIOUS
  <2>6. QED BY ONLY GossipInv, <2>1, <2>2, <2>3, <2>4, <2>5, "end" \notin types, CalmWires
<1>2. NodesInv'
  BY <1>0 DEF NodesInv, Kept
<1>3. SpreadInv'
  <2>1. \A a \in Node : has[a] \subseteq has'[a]
    OBVIOUS
  <2>2. \A a, b \in Node : Reads(a, b) /\ Head(chan[a][b]).type = "announce" => Head(chan[a][b]).object \in has'[b]
    OBVIOUS
  <2>3. \A x \in Undisturbed : RightAll => \A n \in Node : \A m \in conn[n] :
            /\ x \in has'[n] \ casting'[n] => x \in has[n] \ casting[n] \/ Knows(m, x) \/ Knows(m, x)'
            /\ x \in seen'[n][m] => x \in seen[n][m] \/ Knows(m, x) \/ Knows(m, x)'
    OBVIOUS
  <2>4. conn' = conn /\ created' = created /\ disturbed' = disturbed OBVIOUS
  <2>5. \A a, b \in Node : Flows(a, b, types) OBVIOUS
  <2>6. Truthful => Truthful' OBVIOUS
  <2>7. QED BY ONLY GossipInv, <2>1, <2>2, <2>3, <2>4, <2>5, <2>6, CalmSpread
<1>4. QED BY <1>1, <1>2, <1>3

(* Somebody says that it lost a peer: a connection was closed.                     *)
LEMMA PeerDisconnectedKeeps ==
  ASSUME GossipInv, NEW n \in Node, NEW m \in Node, HandlePeerDisconnected(n, m)
  PROVE  GossipInv'
<1>0. GossipTypes /\ NodesInv
  BY DEF GossipInv
<1>1. /\ chan[m][n] # <<>> /\ m \in conn[n] /\ m # n
      /\ Head(chan[m][n]).type = "lost" /\ 1 \in At(m, n, "lost")
  BY FirstPacket DEF HandlePeerDisconnected
<1>2. PICK addr : addr = Head(chan[m][n]).addr
  OBVIOUS
<1>3. /\ shared' = [shared EXCEPT ![n][m][addr] = None] /\ chan' = Taken(n, m)
      /\ UNCHANGED <<conn, closes, disturbed, hasty, seen, awaited, has, casting, created, pinging, blamed>>
  BY <1>2 DEF HandlePeerDisconnected, links, objects
<1>4. /\ chan' \in Channels
      /\ \A a, b \in Node : \A types : Flows(a, b, types)
      /\ \A a, b \in Node : Reads(a, b) => a = m /\ b = n
      /\ \A a, b \in Node : \A e \in Packet : ~Writes(a, b, e)
  BY <1>0, <1>1, <1>3, OnlyRead
<1>5. shared' \in [Node -> [Node -> [Node -> Directions]]]
  <2>1. None \in Directions BY DEF Directions
  <2>2. QED BY <1>0, <1>3, <2>1 DEF GossipTypes
<1>6. GossipTypes'
  BY <1>0, <1>3, <1>4, <1>5 DEF GossipTypes, Channels
<1>7. \A a, b, p \in Node : In(a, b, p)' => In(a, b, p)
  <2>1. \A a, b, p \in Node : shared'[a][b][p] = shared[a][b][p] \/ shared'[a][b][p] = None
    BY <1>0, <1>3 DEF GossipTypes
  <2>2. QED BY <2>1 DEF In, None
<1>8. Truthful => Truthful'
  <2>1. \A a, b \in Node : Flows(a, b, {}) BY <1>4
  <2>2. QED BY <1>0, <1>3, <1>4, <1>7, <2>1, TruthfulKept
<1>9. WiresInv' /\ NodesInv' /\ SpreadInv'
  <2>1. "end" \notin {} /\ "announce" \notin {} /\ \A a, b \in Node : Flows(a, b, {})
    BY <1>4
  <2>2. \A a, b \in Node : Reads(a, b) => Head(chan[a][b]).type # "announce"
    BY <1>1, <1>4
  <2>3. \A a \in Node : pinging'[a].todo \subseteq pinging'[a].all
    BY <1>0, <1>3 DEF NodesInv, Kept
  <2>4. \A a, b \in Node : \A e \in Packet : Writes(a, b, e) =>
            e.type \in {} /\ (e.type = "inventory" => e.txs \subseteq has[a])
    BY <1>4
  <2>5. QED BY ONLY GossipInv, <1>3, <1>8, <2>1, <2>2, <2>3, <2>4, CalmObjects
<1>10. ClosedInv'
  <2>1. closes # 0 BY <1>1 DEF GossipInv, ClosedInv, NeverClosed, Open
  <2>2. QED BY <1>3, <2>1 DEF ClosedInv
<1>11. QED BY <1>6, <1>9, <1>10 DEF GossipInv

(* A ping that is read: each of its peers is in it alone, so none was received
   before.                                                                        *)
LEMMA HandlePingKeeps ==
  ASSUME GossipInv, NEW n \in Node, NEW m \in Node, HandlePing(n, m)
  PROVE  GossipInv'
<1>0. GossipTypes /\ NodesInv
  BY DEF GossipInv
<1>1. /\ chan[m][n] # <<>> /\ m \in conn[n] /\ m # n
      /\ Head(chan[m][n]) = chan[m][n][1]
      /\ Head(chan[m][n]).type = "ping" /\ 1 \in At(m, n, "ping")
  BY FirstPacket DEF HandlePing
<1>2. PICK ps : ps = Head(chan[m][n]).peers
  OBVIOUS
<1>3. PICK twice : twice = {p \in ps : ~Updates(shared[n][m][p], "In")}
  OBVIOUS
<1>4. /\ chan' = Taken(n, m)
      /\ UNCHANGED <<conn, closes, disturbed, hasty, seen, awaited, has, casting, created, pinging>>
  BY DEF HandlePing, links, objects
<1>a. IF twice = {} THEN shared' = SharedIn(n, m, ps) /\ UNCHANGED blamed
      ELSE /\ blamed' = blamed \union {<<n, m>>}
           /\ \E got \in SUBSET (ps \ twice) : shared' = SharedIn(n, m, got)
  BY <1>2, <1>3 DEF HandlePing
<1>5. PICK read : read \subseteq ps /\ shared' = SharedIn(n, m, read)
                  /\ (twice = {} => read = ps /\ blamed' = blamed)
  <2>1. CASE twice = {} BY <1>a, <2>1
  <2>2. CASE twice # {} BY <1>a, <2>2
  <2>3. QED BY <2>1, <2>2
<1>6. /\ chan' \in Channels /\ Reads(m, n)
      /\ \A a, b \in Node : (a = m /\ b = n) \/ Still(a, b)
      /\ \A a, b \in Node : \A types : Flows(a, b, types)
      /\ \A a, b \in Node : Reads(a, b) => a = m /\ b = n
      /\ \A a, b \in Node : \A e \in Packet : ~Writes(a, b, e)
  BY <1>0, <1>1, <1>4, OnlyRead
<1>7. /\ shared' \in [Node -> [Node -> [Node -> Directions]]]
      /\ \A a, b, p \in Node :
           /\ Out(a, b, p)' <=> Out(a, b, p)
           /\ In(a, b, p)' <=> In(a, b, p) \/ (a = n /\ b = m /\ p \in read)
  BY <1>0, <1>5, SharedInAt
<1>8. GossipTypes'
  BY <1>0, <1>4, <1>6, <1>7 DEF GossipTypes, Channels
<1>9. \A p \in ps : 1 \in Carries(m, n, p)
  BY <1>1, <1>2 DEF Carries
<1>10. Truthful => Truthful'
  <2>1. \A a, b \in Node : Flows(a, b, {}) BY <1>6
  <2>2. \A a, b, p \in Node : In(a, b, p)' => In(a, b, p) \/ Carries(b, a, p) # {}
    BY <1>5, <1>7, <1>9
  <2>3. QED BY <1>0, <1>4, <1>6, <2>1, <2>2, TruthfulKept
<1>11. WiresInv' /\ NodesInv' /\ SpreadInv'
  <2>1. "end" \notin {} /\ "announce" \notin {} /\ \A a, b \in Node : Flows(a, b, {})
    BY <1>6
  <2>2. \A a, b \in Node : Reads(a, b) => Head(chan[a][b]).type # "announce"
    BY <1>1, <1>6
  <2>3. \A a \in Node : pinging'[a].todo \subseteq pinging'[a].all
    BY <1>0, <1>4 DEF NodesInv, Kept
  <2>4. \A a, b \in Node : \A e \in Packet : Writes(a, b, e) =>
            e.type \in {} /\ (e.type = "inventory" => e.txs \subseteq has[a])
    BY <1>6
  <2>5. QED BY ONLY GossipInv, <1>4, <1>10, <2>1, <2>2, <2>3, <2>4, CalmObjects
<1>12. ClosedInv'
  <2> SUFFICES ASSUME closes = 0 PROVE NeverClosed'
    BY <1>4 DEF ClosedInv
  <2>1. NeverClosed
    BY DEF GossipInv, ClosedInv
  <2>2. \A a, b, p \in Node : Told(a, b, p)
    BY <2>1 DEF NeverClosed, Open
  <2>3. twice = {} \/ <<n, m>> \in hasty
    <3>1. ASSUME NEW p \in twice, <<n, m>> \notin hasty PROVE FALSE
      <4>1. p \in ps /\ ~Updates(shared[n][m][p], "In") BY <1>3, <3>1
      <4>2. p \in Node
        <5>1. Head(chan[m][n]) \in Packet BY FirstPacket DEF HandlePing
        <5>2. ps \subseteq Node BY <1>1, <1>2, <5>1 DEF Packet
        <5>3. QED BY <4>1, <5>2
      <4>3. ~In(n, m, p) BY <1>9, <2>2, <3>1, <4>1, <4>2 DEF Told, ToldOnce
      <4>4. shared[n][m][p] \in Directions BY <1>0, <4>2 DEF GossipTypes
      <4>5. QED BY <4>1, <4>3, <4>4, UpdateIn DEF In
    <3>2. QED BY <3>1
  <2>4. blamed' \subseteq hasty /\ (<<n, m>> \notin hasty => read = ps)
    <3>1. blamed \subseteq hasty BY <2>1 DEF NeverClosed
    <3>2. CASE twice = {} BY <1>5, <3>1, <3>2
    <3>3. CASE twice # {} BY <1>a, <2>3, <3>1, <3>3
    <3>4. QED BY <3>2, <3>3
  <2>5. ASSUME NEW a \in Node, NEW b \in Node, NEW p \in Node PROVE Told(a, b, p)'
    <3>1. Flows(a, b, {}) /\ "ping" \notin {} /\ Told(a, b, p)
      BY <1>6, <2>2
    <3>a. CASE <<b, a>> \in hasty
      BY <1>4, <1>7, <3>1, <3>a DEF Told
    <3>2. CASE a = m /\ b = n /\ p \in ps /\ <<b, a>> \notin hasty
      <4>a. ToldOnce(a, b, p) BY <3>1, <3>2 DEF Told
      <4>1. Out(a, b, p) BY <1>9, <3>2, <4>a DEF ToldOnce
      <4>2. In(b, a, p)' BY <1>7, <2>4, <3>2
      <4>3. Carries(a, b, p)' = {}
        <5>1. ASSUME NEW i \in Carries(a, b, p)' PROVE FALSE
          <6>1. i \in At(a, b, "ping")' /\ p \in chan'[a][b][i].peers BY <5>1 DEF Carries
          <6>2. i \in Nat /\ i + 1 \in At(a, b, "ping") /\ chan'[a][b][i] = chan[a][b][i + 1]
                /\ \A j \in At(a, b, "ping")' : j + 1 \in At(a, b, "ping")
            BY <1>0, <1>6, <3>2, <6>1, ReadsAt
          <6>3. i + 1 \in Carries(a, b, p) BY <6>1, <6>2 DEF Carries
          <6>4. i + 1 = 1 BY <1>9, <3>2, <4>a, <6>3 DEF ToldOnce
          <6>5. i = 0 BY <6>2, <6>4
          <6>6. i \in DOMAIN chan'[a][b] /\ chan'[a][b] \in Seq(Packet)
            BY <1>6, <6>1 DEF At, Places, Channels
          <6>7. QED BY <6>5, <6>6
        <5>2. QED BY <5>1
      <4>4. QED BY <1>4, <1>7, <3>1, <4>1, <4>2, <4>3 DEF Told, ToldOnce
    <3>3. CASE ~(a = m /\ b = n /\ p \in ps) /\ <<b, a>> \notin hasty
      <4>1. Out(a, b, p)' <=> Out(a, b, p) BY <1>7
      <4>2. In(b, a, p)' <=> In(b, a, p) BY <1>7, <2>4, <3>3
      <4>3. Reads(a, b) => 1 \notin Carries(a, b, p)
        <5>1. Reads(a, b) => a = m /\ b = n /\ p \notin ps BY <1>6, <3>3
        <5>2. QED BY <1>1, <1>2, <5>1 DEF Carries
      <4>4. conn[a] \subseteq conn'[a] /\ hasty \subseteq hasty' BY <1>4
      <4>5. QED BY <1>0, <3>1, <4>1, <4>2, <4>3, <4>4, ToldSame
    <3>4. QED BY <3>a, <3>2, <3>3
  <2>6. ASSUME NEW a \in Node, NEW b \in Node PROVE Open(a, b)'
    <3>1. Open(a, b) /\ Flows(a, b, {}) /\ Flows(b, a, {})
      BY <1>6, <2>1 DEF NeverClosed
    <3>2. awaited'[a][b] = awaited[a][b] /\ conn' = conn /\ hasty \subseteq hasty' BY <1>4
    <3>3. Inquiry(a, b)'
      <4>1. "inventory?" \notin {} /\ "inventory" \notin {} /\ Inquiry(a, b) BY <3>1 DEF Open
      <4>2. QED BY <1>0, <3>1, <3>2, <4>1, InquirySame
    <3>4. At(a, b, "end") = {} /\ At(a, b, "lost") = {} BY <3>1 DEF Open
    <3>5. At(a, b, "end")' = {} BY <1>0, <3>1, <3>4, FlowsAt
    <3>6. At(a, b, "lost")' = {} BY <1>0, <3>1, <3>4, FlowsAt
    <3>7. QED BY <2>5, <3>1, <3>2, <3>3, <3>5, <3>6 DEF Open
  <2>7. \A a \in Node : pinging'[a].all \subseteq conn'[a]
    BY <1>4, <2>1 DEF NeverClosed
  <2>8. QED BY <1>4, <2>4, <2>6, <2>7 DEF NeverClosed
<1>13. QED BY <1>8, <1>11, <1>12 DEF GossipInv

(* A ping that comes too early is not read: its reader counts as hasty, so nothing more is claimed
   of the peers its sender told it of.                                            *)
LEMMA EarlyPingKeeps ==
  ASSUME GossipInv, NEW n \in Node, NEW m \in Node, HandleEarlyPing(n, m)
  PROVE  GossipInv'
<1>0. GossipTypes /\ NodesInv
  BY DEF GossipInv
<1>1. /\ chan[m][n] # <<>> /\ m \in conn[n] /\ m # n
      /\ Head(chan[m][n]).type = "ping" /\ 1 \in At(m, n, "ping")
  BY FirstPacket DEF HandleEarlyPing
<1>2. /\ chan' = Taken(n, m) /\ blamed' = blamed \union {<<n, m>>} /\ hasty' = hasty \union {<<n, m>>}
      /\ UNCHANGED <<conn, closes, disturbed, shared, seen, awaited, has, casting, created, pinging>>
  BY DEF HandleEarlyPing, objects
<1>3. /\ chan' \in Channels
      /\ \A a, b \in Node : \A types : Flows(a, b, types)
      /\ \A a, b \in Node : Reads(a, b) => a = m /\ b = n
      /\ \A a, b \in Node : \A e \in Packet : ~Writes(a, b, e)
  BY <1>0, <1>1, <1>2, OnlyRead
<1>4. GossipTypes'
  BY <1>0, <1>2, <1>3 DEF GossipTypes, Channels
<1>5. Truthful => Truthful'
  <2>1. \A a, b, p \in Node : In(a, b, p)' => In(a, b, p) \/ Carries(b, a, p) # {} BY <1>2 DEF In
  <2>2. \A a, b \in Node : Flows(a, b, {}) BY <1>3
  <2>3. \A a, b \in Node : b \in conn[a] => (awaited'[a][b] => awaited[a][b]) BY <1>2
  <2>4. \A a \in Node : pinging'[a].all \subseteq pinging[a].all \union conn[a] BY <1>2
  <2>5. \A a, b \in Node : \A e \in Packet : Writes(a, b, e) /\ e.type = "ping" => e.peers \subseteq pinging[a].all
    BY <1>3
  <2>6. conn' = conn BY <1>2
  <2>7. QED BY ONLY <1>0, <2>1, <2>2, <2>3, <2>4, <2>5, <2>6, TruthfulKept
<1>6. WiresInv' /\ NodesInv' /\ SpreadInv'
  <2>1. "end" \notin {} /\ "announce" \notin {} /\ \A a, b \in Node : Flows(a, b, {})
    BY <1>3
  <2>2. \A a, b \in Node : Reads(a, b) => Head(chan[a][b]).type # "announce"
    BY <1>1, <1>3
  <2>3. \A a \in Node : pinging'[a].todo \subseteq pinging'[a].all
    BY <1>0, <1>2 DEF NodesInv, Kept
  <2>4. \A a, b \in Node : \A e \in Packet : Writes(a, b, e) =>
            e.type \in {} /\ (e.type = "inventory" => e.txs \subseteq has[a])
    BY <1>3
  <2>5. UNCHANGED <<conn, disturbed, has, casting, seen, created>> BY <1>2
  <2>6. QED BY ONLY GossipInv, <1>5, <2>1, <2>2, <2>3, <2>4, <2>5, CalmObjects
<1>7. ClosedInv'
  <2> SUFFICES ASSUME closes = 0 PROVE NeverClosed'
    BY <1>2 DEF ClosedInv
  <2>1. NeverClosed
    BY DEF GossipInv, ClosedInv
  <2>2. ASSUME NEW a \in Node, NEW b \in Node PROVE Open(a, b)'
    <3>1. Open(a, b) /\ Flows(a, b, {}) /\ Flows(b, a, {}) BY <1>3, <2>1 DEF NeverClosed
    <3>2. conn' = conn /\ hasty \subseteq hasty' /\ awaited'[a][b] = awaited[a][b] BY <1>2
    <3>3. \A p \in Node : (Out(a, b, p)' <=> Out(a, b, p)) /\ (In(b, a, p)' <=> In(b, a, p))
      BY <1>2 DEF Out, In
    <3>4. CASE a = m /\ b = n
      <4>1. <<b, a>> \in hasty' BY <1>2, <3>4
      <4>2. \A p \in Node : Told(a, b, p)' BY <3>1, <3>2, <3>3, <4>1 DEF Open, Told
      <4>3. Inquiry(a, b)'
        <5>1. "inventory?" \notin {} /\ "inventory" \notin {} /\ Inquiry(a, b) BY <3>1 DEF Open
        <5>2. QED BY ONLY <1>0, <2>2, <3>1, <3>2, <5>1, InquirySame
      <4>4. At(a, b, "end") = {} /\ At(a, b, "lost") = {} BY <3>1 DEF Open
      <4>5. At(a, b, "end")' = {} BY <1>0, <3>1, <4>4, FlowsAt
      <4>6. At(a, b, "lost")' = {} BY <1>0, <3>1, <4>4, FlowsAt
      <4>7. QED BY <3>1, <3>2, <4>2, <4>3, <4>5, <4>6 DEF Open
    <3>5. CASE ~(a = m /\ b = n)
      <4>1. Reads(a, b) => Head(chan[a][b]).type # "ping" BY <1>3, <3>5
      <4>2. {"end", "lost", "ping", "inventory?"} \intersect {} = {} /\ "inventory" \notin {} OBVIOUS
      <4>3. QED BY ONLY <1>0, <2>2, <3>1, <3>2, <3>3, <4>1, <4>2, OpenSame
    <3>6. QED BY <3>4, <3>5
  <2>3. QED BY <1>2, <2>1, <2>2 DEF NeverClosed
<1>8. QED BY <1>4, <1>6, <1>7 DEF GossipInv

(* The ping loop goes on to its next peer.                                         *)
LEMMA PingLoop ==
  ASSUME GossipTypes, NodesInv, NEW n \in Node, NEW m \in Node,
         pinging' = [pinging EXCEPT ![n] = IF @.todo = {m} THEN NoPing ELSE [all |-> @.all, todo |-> @.todo \ {m}]]
  PROVE  /\ pinging' \in [Node -> [all : SUBSET Node, todo : SUBSET Node]]
         /\ \A a \in Node : pinging'[a].all \subseteq pinging[a].all
         /\ \A a \in Node : pinging'[a].todo \subseteq pinging'[a].all
<1>1. PICK old : old = pinging[n]
  OBVIOUS
<1>2. old \in [all : SUBSET Node, todo : SUBSET Node] /\ old.todo \subseteq old.all
  BY <1>1 DEF GossipTypes, NodesInv, Kept
<1>3. PICK new : new = IF old.todo = {m} THEN NoPing ELSE [all |-> old.all, todo |-> old.todo \ {m}]
  OBVIOUS
<1>4. new \in [all : SUBSET Node, todo : SUBSET Node] /\ new.all \subseteq old.all /\ new.todo \subseteq new.all
  BY <1>2, <1>3 DEF NoPing
<1>5. pinging' = [pinging EXCEPT ![n] = new]
  BY <1>1, <1>3
<1>6. pinging \in [Node -> [all : SUBSET Node, todo : SUBSET Node]]
  BY DEF GossipTypes
<1>7. \A a \in Node : pinging'[a] = IF a = n THEN new ELSE pinging[a]
  BY <1>5, <1>6
<1>8. QED BY <1>1, <1>4, <1>5, <1>6, <1>7 DEF NodesInv, Kept

(* A peer that n has not told m of is told once.                                   *)
LEMMA ToldNow ==
  ASSUME GossipTypes, NEW n \in Node, NEW m \in Node, NEW p \in Node, Told(n, m, p), ~Out(n, m, p),
         hasty \subseteq hasty', NEW e \in Packet, e.type = "ping", p \in e.peers, Writes(n, m, e),
         Out(n, m, p)', In(m, n, p)' <=> In(m, n, p), conn' = conn, p \in conn[n], m \in conn[n]
  PROVE  Told(n, m, p)'
<1>0. CASE <<m, n>> \in hasty
  BY <1>0 DEF Told
<1> SUFFICES ASSUME <<m, n>> \notin hasty PROVE Told(n, m, p)'
  BY <1>0
<1>1. ~In(m, n, p) /\ Carries(n, m, p) = {}
  BY DEF Told, ToldOnce
<1>2. /\ \A i \in At(n, m, "ping")' :
           \/ i \in At(n, m, "ping") /\ chan'[n][m][i] = chan[n][m][i]
           \/ chan'[n][m][i] = e /\ i = Len(chan[n][m]) + 1
      /\ \E i \in At(n, m, "ping")' : chan'[n][m][i] = e
  BY WritesAdd
<1>3. \A i \in Carries(n, m, p)' : i = Len(chan[n][m]) + 1
  BY <1>1, <1>2 DEF Carries
<1>4. Carries(n, m, p)' # {}
  <2>1. PICK i \in At(n, m, "ping")' : chan'[n][m][i] = e BY <1>2
  <2>2. i \in Carries(n, m, p)' BY <2>1 DEF Carries
  <2>3. QED BY <2>2
<1>5. ~In(m, n, p)'
  BY <1>1
<1>6. p \in conn'[n] /\ m \in conn'[n] /\ Out(n, m, p)'
  OBVIOUS
<1>7. QED BY <1>3, <1>4, <1>5, <1>6 DEF Told, ToldOnce

(* One it does not write of stays as it is.                                        *)
LEMMA ToldElse ==
  ASSUME GossipTypes, NEW n \in Node, NEW m \in Node, NEW p \in Node, Told(n, m, p),
         hasty \subseteq hasty', NEW e \in Packet, e.type = "ping", p \notin e.peers, Writes(n, m, e),
         Out(n, m, p)' <=> Out(n, m, p), In(m, n, p)' <=> In(m, n, p), conn' = conn
  PROVE  Told(n, m, p)'
<1>1. /\ \A i \in At(n, m, "ping")' :
           \/ i \in At(n, m, "ping") /\ chan'[n][m][i] = chan[n][m][i]
           \/ chan'[n][m][i] = e
      /\ \A i \in At(n, m, "ping") : i \in At(n, m, "ping")' /\ chan'[n][m][i] = chan[n][m][i]
  BY WritesAdd
<1>2. Carries(n, m, p)' = Carries(n, m, p)
  BY <1>1 DEF Carries
<1>3. QED BY <1>2 DEF Told, ToldOnce

(* A ping is sent: its peers had not been told of.                                 *)
LEMMA PingSentKeeps ==
  ASSUME GossipInv, NEW n \in Node, NEW m \in conn[n], NEW ps \in SUBSET NewPeers(n, m, pinging[n].all),
         pinging' = [pinging EXCEPT ![n] = IF @.todo = {m} THEN NoPing ELSE [all |-> @.all, todo |-> @.todo \ {m}]],
         shared' = SharedOut(n, m, ps),
         chan' = Sent(chan, n, [p \in {m} |-> <<[type |-> "ping", peers |-> ps]>>]),
         UNCHANGED <<conn, closes, disturbed, hasty, seen, awaited, has, casting, created, blamed>>
  PROVE  GossipInv'
<1>0. GossipTypes /\ NodesInv /\ m \in Node
  BY DEF GossipInv, GossipTypes
<1>1. PICK e : e = [type |-> "ping", peers |-> ps]
  OBVIOUS
<1>2. /\ ps \subseteq pinging[n].all /\ ps \subseteq Node
      /\ \A p \in ps : Updates(shared[n][m][p], "Out")
  BY <1>0 DEF NewPeers, GossipTypes
<1>3. e \in Packet /\ e.type = "ping" /\ e.peers = ps
  BY <1>1, <1>2 DEF Packet
<1>4. PICK who : who = {m} OBVIOUS
<1>5. /\ chan' \in Channels
      /\ \A a, b \in Node : Still(a, b) \/ (a = n /\ b \in who /\ Writes(a, b, e))
      /\ \A b \in who : n \in conn[b] => Writes(n, b, e)
  <2>1. who \in SUBSET conn[n] /\ chan' = Sent(chan, n, [b \in who |-> <<e>>]) BY <1>1, <1>4
  <2>2. QED BY ONLY <1>0, <1>3, <2>1, n \in Node, SendsOne
<1>6. /\ \A a, b \in Node : Still(a, b) \/ (a = n /\ b = m /\ Writes(a, b, e))
      /\ n \in conn[m] => Writes(n, m, e)
  BY <1>4, <1>5
<1>7. /\ \A a, b \in Node : Flows(a, b, {"ping"})
      /\ \A a, b \in Node : ~Reads(a, b)
      /\ \A a, b \in Node : \A f \in Packet : Writes(a, b, f) => a = n /\ f = e
  <2>1. \A a, b \in Node : Flows(a, b, {"ping"})
    BY <1>3, <1>6 DEF Flows
  <2>2. \A a, b \in Node : ~Reads(a, b)
    BY <1>0, <1>3, <1>6, NotRead
  <2>3. ASSUME NEW a \in Node, NEW b \in Node, NEW f \in Packet, Writes(a, b, f)
        PROVE  a = n /\ f = e
    <3>1. ~Still(a, b) BY <1>0, <2>3, NotWritten
    <3>2. a = n /\ Writes(a, b, e) BY <1>6, <3>1
    <3>3. QED BY <1>0, <1>3, <2>3, <3>2, OneWritten
  <2>4. QED BY <2>1, <2>2, <2>3
<1>8. /\ shared' \in [Node -> [Node -> [Node -> Directions]]]
      /\ \A a, b, p \in Node :
           /\ In(a, b, p)' <=> In(a, b, p)
           /\ Out(a, b, p)' <=> Out(a, b, p) \/ (a = n /\ b = m /\ p \in ps)
  BY <1>0, SharedOutAt
<1>9. /\ pinging' \in [Node -> [all : SUBSET Node, todo : SUBSET Node]]
      /\ \A a \in Node : pinging'[a].all \subseteq pinging[a].all
      /\ \A a \in Node : pinging'[a].todo \subseteq pinging'[a].all
  BY <1>0, PingLoop
<1>10. GossipTypes'
  BY <1>0, <1>5, <1>8, <1>9 DEF GossipTypes, Channels
<1>11. Truthful => Truthful'
  <2>1. \A a, b \in Node : \A f \in Packet : Writes(a, b, f) /\ f.type = "ping" => f.peers \subseteq pinging[a].all
    BY <1>2, <1>3, <1>7
  <2>2. \A a \in Node : pinging'[a].all \subseteq pinging[a].all \union conn[a]
    BY <1>9
  <2>3. \A a, b, p \in Node : In(a, b, p)' => In(a, b, p) \/ Carries(b, a, p) # {}
    BY <1>8
  <2>4. conn' = conn /\ awaited' = awaited /\ \A a, b \in Node : Flows(a, b, {"ping"})
    BY <1>7
  <2>5. QED BY ONLY <1>0, <2>1, <2>2, <2>3, <2>4, TruthfulKept
<1>12. WiresInv' /\ NodesInv' /\ SpreadInv'
  <2>1. "end" \notin {"ping"} /\ "announce" \notin {"ping"} /\ \A a, b \in Node : Flows(a, b, {"ping"})
    BY <1>7
  <2>2. \A a, b \in Node : Reads(a, b) => Head(chan[a][b]).type # "announce"
    BY <1>7
  <2>4. \A a, b \in Node : \A f \in Packet : Writes(a, b, f) =>
            f.type \in {"ping"} /\ (f.type = "inventory" => f.txs \subseteq has[a])
    BY <1>3, <1>7
  <2>5. UNCHANGED <<conn, disturbed, has, casting, seen, created>> OBVIOUS
  <2>6. QED BY ONLY GossipInv, <1>9, <1>11, <2>1, <2>2, <2>4, <2>5, CalmObjects
<1>13. ClosedInv'
  <2> SUFFICES ASSUME closes = 0 PROVE NeverClosed'
    BY DEF ClosedInv
  <2>1. NeverClosed
    BY DEF GossipInv, ClosedInv
  <2>2. \A a, b, p \in Node : Told(a, b, p)
    BY <2>1 DEF NeverClosed, Open
  <2>3. Writes(n, m, e)
    BY <1>0, <1>6, <2>1 DEF NeverClosed, Open
  <2>4. \A p \in ps : ~Out(n, m, p) /\ p \in conn[n]
    <3>1. \A p \in ps : shared[n][m][p] \in Directions BY <1>0, <1>2 DEF GossipTypes
    <3>2. \A p \in ps : ~Out(n, m, p) BY <1>2, <3>1, UpdateOut DEF Out
    <3>3. QED BY <1>2, <2>1, <3>2 DEF NeverClosed
  <2>5. ASSUME NEW a \in Node, NEW b \in Node, NEW p \in Node PROVE Told(a, b, p)'
    <3>1. Told(a, b, p) /\ (In(b, a, p)' <=> In(b, a, p)) /\ conn' = conn /\ hasty \subseteq hasty'
      BY <1>8, <2>2
    <3>2. CASE a = n /\ b = m /\ p \in ps
      <4>1. ~Out(a, b, p) /\ Out(a, b, p)' /\ p \in conn[a] /\ b \in conn[a]
        BY <1>8, <2>4, <3>2
      <4>2. Writes(a, b, e) /\ p \in e.peers BY <1>3, <2>3, <3>2
      <4>3. QED BY ONLY <1>0, <1>3, <2>5, <3>1, <4>1, <4>2, ToldNow
    <3>3. CASE a = n /\ b = m /\ p \notin ps
      <4>1. Out(a, b, p)' <=> Out(a, b, p) BY <1>8, <3>3
      <4>2. Writes(a, b, e) /\ p \notin e.peers BY <1>3, <2>3, <3>3
      <4>3. QED BY ONLY <1>0, <1>3, <2>5, <3>1, <4>1, <4>2, ToldElse
    <3>4. CASE ~(a = n /\ b = m)
      <4>1. Out(a, b, p)' <=> Out(a, b, p) BY <1>8, <3>4
      <4>2. Flows(a, b, {}) /\ "ping" \notin {} BY <1>6, <3>4 DEF Flows
      <4>3. ~Reads(a, b) /\ conn[a] \subseteq conn'[a] BY <1>7
      <4>4. QED BY <1>0, <3>1, <4>1, <4>2, <4>3, ToldSame
    <3>5. QED BY <3>2, <3>3, <3>4
  <2>6. ASSUME NEW a \in Node, NEW b \in Node PROVE Open(a, b)'
    <3>1. Open(a, b) /\ Flows(a, b, {"ping"}) /\ Flows(b, a, {"ping"})
      BY <1>7, <2>1 DEF NeverClosed
    <3>2. awaited'[a][b] = awaited[a][b] /\ conn' = conn /\ hasty \subseteq hasty' OBVIOUS
    <3>3. Inquiry(a, b)'
      <4>1. "inventory?" \notin {"ping"} /\ "inventory" \notin {"ping"} /\ Inquiry(a, b) BY <3>1 DEF Open
      <4>2. QED BY <1>0, <3>1, <3>2, <4>1, InquirySame
    <3>4. At(a, b, "end") = {} /\ At(a, b, "lost") = {} BY <3>1 DEF Open
    <3>a. "end" \notin {"ping"} /\ "lost" \notin {"ping"} OBVIOUS
    <3>5. At(a, b, "end")' = {} BY <1>0, <3>1, <3>4, <3>a, FlowsAt
    <3>6. At(a, b, "lost")' = {} BY <1>0, <3>1, <3>4, <3>a, FlowsAt
    <3>7. QED BY <2>5, <3>1, <3>2, <3>3, <3>5, <3>6 DEF Open
  <2>7. \A a \in Node : pinging'[a].all \subseteq conn'[a]
    BY <1>9, <2>1 DEF NeverClosed
  <2>8. blamed' \subseteq hasty' BY <2>1 DEF NeverClosed
  <2>9. QED BY <2>6, <2>7, <2>8 DEF NeverClosed
<1>14. QED BY <1>10, <1>12, <1>13 DEF GossipInv

LEMMA PingKeeps ==
  ASSUME GossipInv, NEW n \in Node, NEW m \in Node, Ping(n, m)
  PROVE  GossipInv'
<1>0. GossipTypes /\ NodesInv
  BY DEF GossipInv
<1>1. /\ pinging' = [pinging EXCEPT ![n] = IF @.todo = {m} THEN NoPing ELSE [all |-> @.all, todo |-> @.todo \ {m}]]
      /\ UNCHANGED <<conn, closes, disturbed, hasty, seen, awaited, has, casting, created, blamed>>
  BY DEF Ping, links, objects
<1>2. CASE m \in conn[n]
  <2>1. PICK ps \in SUBSET NewPeers(n, m, pinging[n].all) :
           /\ shared' = SharedOut(n, m, ps)
           /\ chan' = Sent(chan, n, [p \in {m} |-> <<[type |-> "ping", peers |-> ps]>>])
    BY <1>2 DEF Ping, kSubset
  <2>2. QED BY ONLY GossipInv, n \in Node, <1>1, <1>2, <2>1, PingSentKeeps
<1>3. CASE m \notin conn[n]
  <2>1. chan' = chan /\ shared' = shared BY <1>3 DEF Ping
  <2>2. /\ pinging' \in [Node -> [all : SUBSET Node, todo : SUBSET Node]]
        /\ \A a \in Node : pinging'[a].all \subseteq pinging[a].all
        /\ \A a \in Node : pinging'[a].todo \subseteq pinging'[a].all
    BY <1>0, <1>1, PingLoop
  <2>3. /\ \A a, b \in Node : \A types : Flows(a, b, types)
        /\ \A a, b \in Node : ~Reads(a, b)
        /\ \A a, b \in Node : \A e \in Packet : ~Writes(a, b, e)
    BY <1>0, <2>1, Silent
  <2>4. GossipTypes'
    BY <1>0, <1>1, <2>1, <2>2 DEF GossipTypes
  <2>5. \A a \in Node : pinging'[a].all \subseteq pinging[a].all \union conn[a]
    BY <2>2
  <2>6. Truthful => Truthful'
    <3>1. \A a, b, p \in Node : In(a, b, p)' => In(a, b, p) BY <2>1 DEF In
    <3>2. QED BY <1>0, <1>1, <2>3, <2>5, <3>1, TruthfulKept
  <2>7. WiresInv' /\ NodesInv' /\ SpreadInv'
    <3>1. "end" \notin {} /\ "announce" \notin {} /\ \A a, b \in Node : Flows(a, b, {})
      BY <2>3
    <3>2. \A a, b \in Node : Reads(a, b) => Head(chan[a][b]).type # "announce"
      BY <2>3
    <3>4. \A a, b \in Node : \A e \in Packet : Writes(a, b, e) =>
              e.type \in {} /\ (e.type = "inventory" => e.txs \subseteq has[a])
      BY <2>3
    <3>5. QED BY ONLY GossipInv, <1>1, <2>2, <2>6, <3>1, <3>2, <3>4, CalmObjects
  <2>8. ClosedInv'
    BY <1>1, <2>1, <2>3, <2>5, CalmClosed
  <2>9. QED BY <2>4, <2>7, <2>8 DEF GossipInv
<1>4. QED BY <1>2, <1>3

-------------------------------------------------------------------------------
(* The inventories.                                                               *)
Reply(m, e) == [b \in {m} |-> <<e>>]

LEMMA OnlyAnswers ==
  ASSUME GossipTypes, NEW n \in Node, NEW m \in Node, m \in conn[n], m # n, NEW e \in Packet,
         chan[m][n] # <<>>, chan' = Sent(Taken(n, m), n, Reply(m, e))
  PROVE  /\ chan' \in Channels /\ Reads(m, n)
         /\ Still(n, m) \/ Writes(n, m, e)
         /\ \A a, b \in Node : (a = m /\ b = n) \/ (a = n /\ b = m) \/ Still(a, b)
         /\ \A a, b \in Node : \A types : ~(a = n /\ b = m) => Flows(a, b, types)
         /\ \A a, b \in Node : Reads(a, b) => a = m /\ b = n
         /\ \A a, b \in Node : \A f \in Packet : Writes(a, b, f) => a = n /\ b = m /\ f = e
<1>1. /\ chan' \in Channels /\ Reads(m, n)
      /\ Still(n, m) \/ Writes(n, m, e)
      /\ \A a, b \in Node : (a = m /\ b = n) \/ (a = n /\ b = m) \/ Still(a, b)
  BY Answers DEF Reply
<1>2. \A a, b \in Node : Reads(a, b) => a = m /\ b = n
  BY <1>1, NotRead
<1>3. ASSUME NEW a \in Node, NEW b \in Node, NEW f \in Packet, Writes(a, b, f)
      PROVE  a = n /\ b = m /\ f = e
  <2>1. ~Still(a, b) /\ ~Reads(a, b) BY <1>3, NotWritten
  <2>2. a = n /\ b = m /\ Writes(a, b, e) BY <1>1, <2>1
  <2>3. QED BY <1>3, <2>2, OneWritten
<1>5. \A a, b \in Node : \A types : ~(a = n /\ b = m) => Flows(a, b, types) BY <1>1 DEF Flows
<1>6. QED BY <1>1, <1>2, <1>3, <1>5

LEMMA NoAnswer ==
  ASSUME GossipTypes, NEW n \in Node, NEW m \in Node, chan[m][n] # <<>>
  PROVE  Sent(Taken(n, m), n, [b \in {m} |-> <<>>]) = Taken(n, m)
<1>1. PICK c : c = Taken(n, m) OBVIOUS
<1>2. PICK to : to = [b \in {m} |-> <<>>] OBVIOUS
<1>3. c \in Channels BY <1>1, TakenAt
<1>4. DOMAIN to = {m} /\ \A b \in {m} : to[b] = <<>> /\ to[b] \in Seq(Packet) BY <1>2
<1>5. /\ Sent(c, n, to) \in Channels
      /\ \A a, b \in Node : Sent(c, n, to)[a][b] =
           IF a = n /\ b \in DOMAIN to /\ n \in conn[b] THEN c[a][b] \o to[b] ELSE c[a][b]
  <2>1. \A b \in Node : b \in DOMAIN to => to[b] \in Seq(Packet) BY <1>4
  <2>2. QED BY ONLY <1>3, <2>1, n \in Node, SentAt
<1>6. \A a, b \in Node : c[a][b] \o <<>> = c[a][b] BY <1>3, Joined DEF Channels
<1>7. ASSUME NEW a \in Node, NEW b \in Node PROVE Sent(c, n, to)[a][b] = c[a][b]
  <2>1. b \in DOMAIN to => to[b] = <<>> BY <1>4
  <2>2. b \in DOMAIN to => c[a][b] \o to[b] = c[a][b] BY <1>6, <2>1
  <2>3. QED BY <1>5, <2>2
<1>8. ASSUME NEW a \in Node PROVE Sent(c, n, to)[a] = c[a]
  BY <1>3, <1>5, <1>7 DEF Channels
<1>9. Sent(c, n, to) = c BY <1>3, <1>5, <1>8 DEF Channels
<1>10. QED BY <1>1, <1>2, <1>9

(* A pair that speaks of other things than peers.                                  *)
LEMMA OpenKept ==
  ASSUME GossipTypes, NEW n \in Node, NEW m \in Node, Open(n, m), conn' = conn, shared' = shared,
         hasty \subseteq hasty', Inquiry(n, m)',
         NEW types, {"end", "lost", "ping"} \intersect types = {}, Flows(n, m, types),
         Reads(n, m) => Head(chan[n][m]).type # "ping"
  PROVE  Open(n, m)'
<1>1. At(n, m, "end")' = {} /\ At(n, m, "lost")' = {}
  <2>1. "end" \notin types /\ "lost" \notin types OBVIOUS
  <2>2. At(n, m, "end") = {} /\ At(n, m, "lost") = {} BY DEF Open
  <2>3. QED BY <2>1, <2>2, FlowsAt
<1>2. ASSUME NEW p \in Node PROVE Told(n, m, p)'
  <2>1. Told(n, m, p) BY DEF Open
  <2>2. (Out(n, m, p)' <=> Out(n, m, p)) /\ (In(m, n, p)' <=> In(m, n, p)) BY DEF Out, In
  <2>3. Reads(n, m) => 1 \notin Carries(n, m, p)
    BY ReadsAt DEF Carries
  <2>4. "ping" \notin types OBVIOUS
  <2>5. conn[n] \subseteq conn'[n] OBVIOUS
  <2>6. QED BY <2>1, <2>2, <2>3, <2>4, <2>5, ToldSame
<1>3. m \in conn'[n] => n \in conn'[m] BY DEF Open
<1>4. QED BY <1>1, <1>2, <1>3 DEF Open

(* The only packet of a type is read.                                              *)
LEMMA OnlyOneRead ==
  ASSUME GossipTypes, NEW a \in Node, NEW b \in Node, Reads(a, b), NEW type, 1 \in At(a, b, type),
         \A i, j \in At(a, b, type) : i = j, chan' \in Channels
  PROVE  At(a, b, type)' = {}
<1>1. ASSUME NEW i \in At(a, b, type)' PROVE FALSE
  <2>1. i \in Nat /\ i + 1 \in At(a, b, type) BY ReadsAt
  <2>2. i = 0 BY <2>1
  <2>3. i \in DOMAIN chan'[a][b] /\ chan'[a][b] \in Seq(Packet) BY DEF At, Places, Channels
  <2>4. QED BY <2>2, <2>3
<1>2. QED BY <1>1

(* The only packet of a type is written.                                           *)
LEMMA OnlyOneWritten ==
  ASSUME GossipTypes, NEW a \in Node, NEW b \in Node, NEW types, Flows(a, b, types), ~Reads(a, b),
         NEW type, At(a, b, type) = {}
  PROVE  /\ \A i, j \in At(a, b, type)' : i = j
         /\ At(a, b, type)' # {} => \E e \in Packet : e.type = type /\ Writes(a, b, e)
<1>1. CASE Still(a, b) BY <1>1, StillAt
<1>2. ASSUME NEW e \in Packet, Writes(a, b, e)
      PROVE  /\ \A i, j \in At(a, b, type)' : i = j
             /\ At(a, b, type)' # {} => e.type = type
  BY <1>2, WritesAdd
<1>3. QED BY <1>1, <1>2 DEF Flows

(* A request is answered, once.                                                    *)
LEMMA InventoryRequestKeeps ==
  ASSUME GossipInv, NEW n \in Node, NEW m \in Node, HandleInventoryRequest(n, m)
  PROVE  GossipInv'
<1>0. GossipTypes /\ NodesInv
  BY DEF GossipInv
<1>1. /\ chan[m][n] # <<>> /\ m \in conn[n] /\ m # n /\ Head(chan[m][n]) \in Packet
      /\ Head(chan[m][n]).type = "inventory?" /\ 1 \in At(m, n, "inventory?")
  BY FirstPacket DEF HandleInventoryRequest
<1>2. UNCHANGED <<conn, closes, disturbed, hasty, shared, seen, awaited, has, casting, created, pinging, blamed>>
  BY DEF HandleInventoryRequest, links, objects
<1>3. PICK part, next : /\ part \subseteq has[n] /\ next \in Nat
                        /\ chan' = Sent(Taken(n, m), n,
                              [p \in {m} |-> <<[type |-> "inventory", txs |-> part, next |-> next]>>])
  <2>1. PICK page : page = Head(chan[m][n]).page OBVIOUS
  <2>2. page \in Nat BY <1>1, <2>1 DEF Packet
  <2>3. PICK part : part = PageOf(has[n] \intersect Tx, page * NOTIFY_MAX_LEN) OBVIOUS
  <2>4. part \subseteq has[n] BY <2>3 DEF PageOf
  <2>5. PICK more : more = (Cardinality(part) = NOTIFY_MAX_LEN
                            /\ Cardinality(has[n] \intersect Tx) > page * NOTIFY_MAX_LEN + NOTIFY_MAX_LEN)
    OBVIOUS
  <2>6. PICK next : next = IF more THEN page + 1 ELSE 0 OBVIOUS
  <2>7. next \in Nat BY <2>2, <2>6
  <2>8. chan' = Sent(Taken(n, m), n, [p \in {m} |-> <<[type |-> "inventory", txs |-> part, next |-> next]>>])
    BY <2>1, <2>3, <2>5, <2>6 DEF HandleInventoryRequest
  <2>9. QED BY <2>4, <2>7, <2>8
<1>4. PICK e : e = [type |-> "inventory", txs |-> part, next |-> next]
  OBVIOUS
<1>5. e \in Packet /\ e.type = "inventory" /\ e.txs \subseteq has[n]
  <2>1. part \in SUBSET Object BY <1>0, <1>3 DEF GossipTypes
  <2>2. QED BY <1>3, <1>4, <2>1 DEF Packet
<1>6. /\ chan' \in Channels /\ Reads(m, n)
      /\ \A a, b \in Node : (a = m /\ b = n) \/ (a = n /\ b = m) \/ Still(a, b)
      /\ Still(n, m) \/ Writes(n, m, e)
      /\ \A a, b \in Node : \A types : ~(a = n /\ b = m) => Flows(a, b, types)
      /\ \A a, b \in Node : Reads(a, b) => a = m /\ b = n
      /\ \A a, b \in Node : \A f \in Packet : Writes(a, b, f) => a = n /\ b = m /\ f = e
  <2>1. chan' = Sent(Taken(n, m), n, Reply(m, e)) BY <1>3, <1>4 DEF Reply
  <2>2. QED BY ONLY <1>0, <1>1, <1>5, <2>1, n \in Node, m \in Node, OnlyAnswers
<1>7. \A a, b \in Node : Flows(a, b, {"inventory"})
  BY <1>5, <1>6 DEF Flows
<1>8. GossipTypes'
  BY <1>0, <1>2, <1>6 DEF GossipTypes, Channels
<1>9. Truthful => Truthful'
  <2>1. \A a, b \in Node : \A f \in Packet : Writes(a, b, f) /\ f.type = "ping" => f.peers \subseteq pinging[a].all
    BY <1>5, <1>6
  <2>2. \A a, b, p \in Node : In(a, b, p)' => In(a, b, p) \/ Carries(b, a, p) # {}
    BY <1>2 DEF In
  <2>3. \A a \in Node : pinging'[a].all \subseteq pinging[a].all \union conn[a]
    BY <1>2
  <2>4. QED BY ONLY <1>0, <1>2, <1>7, <2>1, <2>2, <2>3, TruthfulKept
<1>10. WiresInv' /\ NodesInv' /\ SpreadInv'
  <2>1. "end" \notin {"inventory"} /\ "announce" \notin {"inventory"} OBVIOUS
  <2>2. \A a, b \in Node : Reads(a, b) => Head(chan[a][b]).type # "announce"
    BY <1>1, <1>6
  <2>3. \A a \in Node : pinging'[a].todo \subseteq pinging'[a].all
    BY <1>0, <1>2 DEF NodesInv, Kept
  <2>4. \A a, b \in Node : \A f \in Packet : Writes(a, b, f) =>
            f.type \in {"inventory"} /\ (f.type = "inventory" => f.txs \subseteq has[a])
    BY <1>5, <1>6
  <2>5. QED BY ONLY GossipInv, <1>2, <1>7, <1>9, <2>1, <2>2, <2>3, <2>4, CalmObjects
<1>11. ClosedInv'
  <2> SUFFICES ASSUME closes = 0 PROVE NeverClosed'
    BY <1>2 DEF ClosedInv
  <2>1. NeverClosed
    BY DEF GossipInv, ClosedInv
  <2>2. ASSUME NEW a \in Node, NEW b \in Node PROVE Inquiry(a, b)'
    <3>1. Inquiry(a, b) /\ awaited'[a][b] = awaited[a][b] /\ hasty \subseteq hasty'
      BY <1>2, <2>1 DEF NeverClosed, Open
    <3>a. CASE <<a, b>> \in hasty
      BY <3>1, <3>a DEF Inquiry
    <3>2. CASE a = m /\ b = n /\ <<a, b>> \notin hasty
      <4>a. InquiryOnce(m, n) BY <3>1, <3>2 DEF Inquiry
      <4>1. At(m, n, "inventory?")' = {}
        BY <1>0, <1>1, <1>6, <4>a, OnlyOneRead DEF InquiryOnce
      <4>2. At(n, m, "inventory") = {} /\ awaited[m][n] BY <1>1, <4>a DEF InquiryOnce
      <4>3. ~Reads(n, m) BY <1>1, <1>6
      <4>4. \A i, j \in At(n, m, "inventory")' : i = j
        BY ONLY <1>0, <1>7, <4>2, <4>3, n \in Node, m \in Node, OnlyOneWritten
      <4>5. QED BY <3>1, <3>2, <4>1, <4>2, <4>4 DEF Inquiry, InquiryOnce
    <3>3. CASE ~(a = m /\ b = n)
      <4>1. Flows(a, b, {"inventory"}) /\ "inventory?" \notin {"inventory"} BY <1>7
      <4>2. Flows(b, a, {}) /\ "inventory" \notin {} BY <1>6, <3>3
      <4>3. QED BY ONLY <1>0, <2>2, <3>1, <4>1, <4>2, InquirySame
    <3>4. QED BY <3>a, <3>2, <3>3
  <2>3. ASSUME NEW a \in Node, NEW b \in Node PROVE Open(a, b)'
    <3>1. Open(a, b) /\ Inquiry(a, b)' BY <2>1, <2>2 DEF NeverClosed
    <3>2. {"end", "lost", "ping"} \intersect {"inventory"} = {} /\ Flows(a, b, {"inventory"}) BY <1>7
    <3>3. Reads(a, b) => Head(chan[a][b]).type # "ping" BY <1>1, <1>6
    <3>4. conn' = conn /\ shared' = shared /\ hasty \subseteq hasty' BY <1>2
    <3>5. QED BY ONLY <1>0, <2>3, <3>1, <3>2, <3>3, <3>4, OpenKept
  <2>4. QED BY <1>2, <2>1, <2>3 DEF NeverClosed
<1>12. QED BY <1>8, <1>10, <1>11 DEF GossipInv

(* An inventory is received while it is awaited: the objects are accepted, and the next page is
   asked for when there is one.                                                    *)
LEMMA AwaitedKeeps ==
  ASSUME GossipInv, NEW n \in Node, NEW m \in Node, Receives(n, m, "inventory"), awaited[n][m],
         NEW next \in Nat, NEW txs, next = Head(chan[m][n]).next, txs = Head(chan[m][n]).txs,
         has' = [has EXCEPT ![n] = @ \union txs],
         awaited' = [awaited EXCEPT ![n][m] = next # 0],
         chan' = Sent(Taken(n, m), n, [p \in {m} |-> IF next = 0 THEN <<>> ELSE <<InventoryRequest(next)>>]),
         UNCHANGED <<conn, closes, disturbed, hasty, shared, seen, casting, created, pinging, blamed>>
  PROVE  GossipInv'
<1>0. GossipTypes /\ NodesInv /\ WiresInv
  BY DEF GossipInv
<1>1. /\ chan[m][n] # <<>> /\ m \in conn[n] /\ m # n
      /\ Head(chan[m][n]) = chan[m][n][1] /\ Head(chan[m][n]) \in Packet
      /\ Head(chan[m][n]).type = "inventory" /\ 1 \in At(m, n, "inventory")
  BY FirstPacket
<1>2. PICK e : e = InventoryRequest(next)
  OBVIOUS
<1>3. e \in Packet /\ e.type = "inventory?"
  BY <1>2 DEF Packet, InventoryRequest
<1>4. /\ chan' \in Channels /\ Reads(m, n)
      /\ (next # 0 /\ Writes(n, m, e)) \/ Still(n, m)
      /\ \A a, b \in Node : (a = m /\ b = n) \/ (a = n /\ b = m) \/ Still(a, b)
      /\ \A a, b \in Node : \A types : ~(a = n /\ b = m) => Flows(a, b, types)
      /\ \A a, b \in Node : Reads(a, b) => a = m /\ b = n
      /\ \A a, b \in Node : \A f \in Packet : Writes(a, b, f) => a = n /\ b = m /\ f = e /\ next # 0
  <2>1. CASE next = 0
    <3>1. chan' = Taken(n, m)
      <4>1. [p \in {m} |-> IF next = 0 THEN <<>> ELSE <<InventoryRequest(next)>>] = [p \in {m} |-> <<>>]
        BY <2>1
      <4>2. QED BY <1>0, <1>1, <4>1, NoAnswer
    <3>2. /\ chan' \in Channels /\ Reads(m, n)
          /\ \A a, b \in Node : (a = m /\ b = n) \/ Still(a, b)
          /\ \A a, b \in Node : \A types : Flows(a, b, types)
          /\ \A a, b \in Node : Reads(a, b) => a = m /\ b = n
          /\ \A a, b \in Node : \A f \in Packet : ~Writes(a, b, f)
      BY ONLY <1>0, <1>1, <3>1, n \in Node, m \in Node, OnlyRead
    <3>3. QED BY <1>1, <3>2
  <2>2. CASE next # 0
    <3>1. chan' = Sent(Taken(n, m), n, Reply(m, e))
      <4>1. [p \in {m} |-> IF next = 0 THEN <<>> ELSE <<InventoryRequest(next)>>] = [p \in {m} |-> <<e>>]
        BY <1>2, <2>2
      <4>2. QED BY <4>1 DEF Reply
    <3>2. /\ chan' \in Channels /\ Reads(m, n)
          /\ Still(n, m) \/ Writes(n, m, e)
          /\ \A a, b \in Node : (a = m /\ b = n) \/ (a = n /\ b = m) \/ Still(a, b)
          /\ \A a, b \in Node : \A types : ~(a = n /\ b = m) => Flows(a, b, types)
          /\ \A a, b \in Node : Reads(a, b) => a = m /\ b = n
          /\ \A a, b \in Node : \A f \in Packet : Writes(a, b, f) => a = n /\ b = m /\ f = e
      BY ONLY <1>0, <1>1, <1>3, <3>1, n \in Node, m \in Node, OnlyAnswers
    <3>3. QED BY <2>2, <3>2
  <2>3. QED BY <2>1, <2>2
<1>5. \A a, b \in Node : Flows(a, b, {"inventory?"})
  BY <1>3, <1>4 DEF Flows
<1>6. txs \subseteq has[m]
  BY <1>0, <1>1 DEF WiresInv, Honest
<1>7. \A a \in Node : has'[a] = IF a = n THEN has[a] \union txs ELSE has[a]
  BY <1>0 DEF GossipTypes
<1>8. \A a, b \in Node : awaited'[a][b] = IF a = n /\ b = m THEN next # 0 ELSE awaited[a][b]
  BY <1>0 DEF GossipTypes
<1>9. GossipTypes'
  <2>1. has[m] \subseteq Object /\ has[n] \subseteq Object BY <1>0 DEF GossipTypes
  <2>2. has' \in [Node -> SUBSET Object] BY <1>0, <1>6, <2>1 DEF GossipTypes
  <2>3. awaited' \in [Node -> [Node -> BOOLEAN]] BY <1>0 DEF GossipTypes
  <2>4. QED BY <1>0, <1>4, <2>2, <2>3 DEF GossipTypes, Channels
<1>10. WiresInv'
  <2>1. \A a \in Node : has[a] \subseteq has'[a] /\ has[a] \ casting[a] \subseteq has'[a] \ casting'[a]
    BY <1>7
  <2>2. \A a, b \in Node : seen'[a][b] \subseteq created'
    BY <1>0 DEF WiresInv, Honest
  <2>3. \A a, b \in Node : \A f \in Packet : Writes(a, b, f) =>
            /\ f.type = "announce" => f.object \in has'[a] \ casting'[a]
            /\ f.type = "inventory" => f.txs \subseteq has'[a]
    BY <1>3, <1>4
  <2>4. conn' = conn /\ "end" \notin {"inventory?"} OBVIOUS
  <2>5. QED BY ONLY GossipInv, <1>5, <2>1, <2>2, <2>3, <2>4, CalmWires
<1>11. NodesInv'
  <2>1. \A a \in Node : has[a] \subseteq created /\ casting[a] \subseteq has[a] /\ pinging[a].todo \subseteq pinging[a].all
    BY <1>0 DEF NodesInv, Kept
  <2>2. \A a \in Node : has'[a] \subseteq created' /\ casting'[a] \subseteq has'[a]
    BY <1>6, <1>7, <2>1
  <2>3. QED BY <2>1, <2>2 DEF NodesInv, Kept
<1>12. SpreadInv'
  <2>1. ~Truthful
    <3>1. Truthful => RightAll BY TruthfulSays
    <3>2. QED BY <1>1, <3>1 DEF RightAll
  <2>2. Undisturbed = {} BY <2>1 DEF GossipInv, SpreadInv
  <2>3. Undisturbed' = {} BY <2>2 DEF Undisturbed
  <2>4. QED BY <2>3 DEF SpreadInv
<1>13. ClosedInv'
  <2> SUFFICES ASSUME closes = 0 PROVE NeverClosed'
    BY DEF ClosedInv
  <2>1. NeverClosed
    BY DEF GossipInv, ClosedInv
  <2>2. ASSUME NEW a \in Node, NEW b \in Node PROVE Inquiry(a, b)'
    <3>1. Inquiry(a, b) /\ hasty \subseteq hasty' BY <2>1 DEF NeverClosed, Open
    <3>a. CASE <<a, b>> \in hasty
      BY <3>1, <3>a DEF Inquiry
    <3>2. CASE a = n /\ b = m /\ <<a, b>> \notin hasty
      <4>a. InquiryOnce(n, m) BY <3>1, <3>2 DEF Inquiry
      <4>1. At(m, n, "inventory")' = {}
        BY <1>0, <1>1, <1>4, <4>a, OnlyOneRead DEF InquiryOnce
      <4>2. At(n, m, "inventory?") = {} BY <1>1, <4>a DEF InquiryOnce
      <4>3. ~Reads(n, m) BY <1>1, <1>4
      <4>4. /\ \A i, j \in At(n, m, "inventory?")' : i = j
            /\ At(n, m, "inventory?")' # {} => \E f \in Packet : f.type = "inventory?" /\ Writes(n, m, f)
        BY ONLY <1>0, <1>5, <4>2, <4>3, n \in Node, m \in Node, OnlyOneWritten
      <4>5. At(n, m, "inventory?")' # {} => awaited'[n][m] BY <1>4, <1>8, <4>4
      <4>6. QED BY <3>2, <4>1, <4>4, <4>5 DEF Inquiry, InquiryOnce
    <3>3. CASE ~(a = n /\ b = m)
      <4>1. Flows(a, b, {}) /\ "inventory?" \notin {} BY <1>4, <3>3
      <4>2. Flows(b, a, {"inventory?"}) /\ "inventory" \notin {"inventory?"} BY <1>5
      <4>3. awaited'[a][b] = awaited[a][b] BY <1>8, <3>3
      <4>4. QED BY ONLY <1>0, <2>2, <3>1, <4>1, <4>2, <4>3, InquirySame
    <3>4. QED BY <3>a, <3>2, <3>3
  <2>3. ASSUME NEW a \in Node, NEW b \in Node PROVE Open(a, b)'
    <3>1. Open(a, b) /\ Inquiry(a, b)' BY <2>1, <2>2 DEF NeverClosed
    <3>2. {"end", "lost", "ping"} \intersect {"inventory?"} = {} /\ Flows(a, b, {"inventory?"}) BY <1>5
    <3>3. Reads(a, b) => Head(chan[a][b]).type # "ping" BY <1>1, <1>4
    <3>4. conn' = conn /\ shared' = shared /\ hasty \subseteq hasty' OBVIOUS
    <3>5. QED BY ONLY <1>0, <2>3, <3>1, <3>2, <3>3, <3>4, OpenKept
  <2>4. QED BY <2>1, <2>3 DEF NeverClosed
<1>14. QED BY <1>9, <1>10, <1>11, <1>12, <1>13 DEF GossipInv

(* An inventory that is not awaited: a connection was closed before, or it was asked for twice. *)
LEMMA InventoryResponseKeeps ==
  ASSUME GossipInv, NEW n \in Node, NEW m \in Node, HandleInventoryResponse(n, m)
  PROVE  GossipInv'
<1>0. GossipTypes /\ NodesInv
  BY DEF GossipInv
<1>1. /\ chan[m][n] # <<>> /\ m \in conn[n] /\ m # n /\ Head(chan[m][n]) \in Packet
      /\ Head(chan[m][n]).type = "inventory" /\ 1 \in At(m, n, "inventory")
  BY FirstPacket DEF HandleInventoryResponse
<1>2. PICK next, txs : next = Head(chan[m][n]).next /\ txs = Head(chan[m][n]).txs
  OBVIOUS
<1>3. next \in Nat BY <1>1, <1>2 DEF Packet
<1>4. UNCHANGED <<conn, closes, disturbed, hasty, shared, seen, casting, created, pinging>>
  BY DEF HandleInventoryResponse, links
<1>5. CASE awaited[n][m]
  <2>1. /\ has' = [has EXCEPT ![n] = @ \union txs]
        /\ awaited' = [awaited EXCEPT ![n][m] = next # 0]
        /\ chan' = Sent(Taken(n, m), n, [p \in {m} |-> IF next = 0 THEN <<>> ELSE <<InventoryRequest(next)>>])
        /\ blamed' = blamed
    BY <1>2, <1>5 DEF HandleInventoryResponse
  <2>2. Receives(n, m, "inventory") BY DEF HandleInventoryResponse
  <2>3. QED BY ONLY GossipInv, n \in Node, m \in Node, <1>2, <1>3, <1>4, <1>5, <2>1, <2>2, AwaitedKeeps
<1>6. CASE ~awaited[n][m]
  <2>1. chan' = Taken(n, m) /\ has' = has /\ awaited' = awaited /\ blamed' = blamed \union {<<n, m>>}
    BY <1>6 DEF HandleInventoryResponse
  <2>2. /\ chan' \in Channels
        /\ \A a, b \in Node : \A types : Flows(a, b, types)
        /\ \A a, b \in Node : Reads(a, b) => a = m /\ b = n
        /\ \A a, b \in Node : \A e \in Packet : ~Writes(a, b, e)
    BY <1>0, <1>1, <2>1, OnlyRead
  <2>3. GossipTypes'
    BY <1>0, <1>4, <2>1, <2>2 DEF GossipTypes, Channels
  <2>4. Truthful => Truthful'
    <3>1. \A a, b, p \in Node : In(a, b, p)' => In(a, b, p) \/ Carries(b, a, p) # {} BY <1>4 DEF In
    <3>2. \A a, b \in Node : Flows(a, b, {}) BY <2>2
    <3>3. \A a, b \in Node : b \in conn[a] => (awaited'[a][b] => awaited[a][b]) BY <2>1
    <3>4. \A a \in Node : pinging'[a].all \subseteq pinging[a].all \union conn[a] BY <1>4
    <3>5. \A a, b \in Node : \A e \in Packet : Writes(a, b, e) /\ e.type = "ping" => e.peers \subseteq pinging[a].all
      BY <2>2
    <3>6. QED BY ONLY <1>0, <1>4, <3>1, <3>2, <3>3, <3>4, <3>5, TruthfulKept
  <2>5. WiresInv' /\ NodesInv' /\ SpreadInv'
    <3>1. "end" \notin {} /\ "announce" \notin {} /\ \A a, b \in Node : Flows(a, b, {})
      BY <2>2
    <3>2. \A a, b \in Node : Reads(a, b) => Head(chan[a][b]).type # "announce"
      BY <1>1, <2>2
    <3>3. \A a \in Node : pinging'[a].todo \subseteq pinging'[a].all
      BY <1>0, <1>4 DEF NodesInv, Kept
    <3>4. \A a, b \in Node : \A e \in Packet : Writes(a, b, e) =>
              e.type \in {} /\ (e.type = "inventory" => e.txs \subseteq has[a])
      BY <2>2
    <3>5. UNCHANGED <<conn, disturbed, has, casting, seen, created>> BY <1>4, <2>1
    <3>6. QED BY ONLY GossipInv, <2>4, <3>1, <3>2, <3>3, <3>4, <3>5, CalmObjects
  <2>6. ClosedInv'
    <3> SUFFICES ASSUME closes = 0 PROVE NeverClosed'
      BY <1>4 DEF ClosedInv
    <3>1. NeverClosed BY DEF GossipInv, ClosedInv
    <3>2. <<n, m>> \in hasty
      <4>1. Inquiry(n, m) BY <3>1 DEF NeverClosed, Open
      <4>2. QED BY <1>1, <1>6, <4>1 DEF Inquiry, InquiryOnce
    <3>3. ASSUME NEW a \in Node, NEW b \in Node PROVE Open(a, b)'
      <4>1. Open(a, b) /\ Flows(a, b, {}) /\ Flows(b, a, {}) BY <2>2, <3>1 DEF NeverClosed
      <4>2. conn' = conn /\ hasty \subseteq hasty' /\ awaited'[a][b] = awaited[a][b] BY <1>4, <2>1
      <4>3. Reads(a, b) => Head(chan[a][b]).type # "ping" BY <1>1, <2>2
      <4>4. \A p \in Node : (Out(a, b, p)' <=> Out(a, b, p)) /\ (In(b, a, p)' <=> In(b, a, p))
        BY <1>4 DEF Out, In
      <4>5. {"end", "lost", "ping", "inventory?"} \intersect {} = {} /\ "inventory" \notin {} OBVIOUS
      <4>6. QED BY ONLY <1>0, <3>3, <4>1, <4>2, <4>3, <4>4, <4>5, OpenSame
    <3>4. QED BY <1>4, <2>1, <3>1, <3>2, <3>3 DEF NeverClosed
  <2>7. QED BY <2>3, <2>5, <2>6 DEF GossipInv
<1>7. QED BY <1>5, <1>6

(* The inventory is asked for after a chain sync: once if it was not awaited, and otherwise its
   reader counts as hasty.                                                        *)
LEMMA RequestKeeps ==
  ASSUME GossipInv, NEW n \in Node, NEW m \in Node, request_inventory_of(n, m)
  PROVE  GossipInv'
<1>0. GossipTypes /\ NodesInv /\ WiresInv
  BY DEF GossipInv
<1>1. PICK e : e = InventoryRequest(0)
  OBVIOUS
<1>2. e \in Packet /\ e.type = "inventory?"
  BY <1>1 DEF Packet, InventoryRequest
<1>3. /\ m \in conn[n]
      /\ awaited' = [awaited EXCEPT ![n][m] = TRUE]
      /\ hasty' = IF awaited[n][m] THEN hasty \union {<<n, m>>} ELSE hasty
      /\ disturbed' = disturbed \union created
      /\ UNCHANGED <<conn, closes, shared, seen, has, casting, created, pinging, blamed>>
  BY DEF request_inventory_of, objects
<1>a. m # n
  BY <1>0, <1>3 DEF WiresInv, Wire
<1>4. PICK who : who = {m} OBVIOUS
<1>5. /\ chan' \in Channels
      /\ \A a, b \in Node : Still(a, b) \/ (a = n /\ b \in who /\ Writes(a, b, e))
  <2>1. chan' = Sent(chan, n, [p \in {m} |-> <<InventoryRequest(0)>>]) BY DEF request_inventory_of
  <2>2. who \in SUBSET conn[n] /\ chan' = Sent(chan, n, [b \in who |-> <<e>>]) BY <1>1, <1>3, <1>4, <2>1
  <2>3. QED BY ONLY <1>0, <1>2, <2>2, n \in Node, SendsOne
<1>6. \A a, b \in Node : Still(a, b) \/ (a = n /\ b = m /\ Writes(a, b, e))
  BY <1>4, <1>5
<1>7. /\ \A a, b \in Node : Flows(a, b, {"inventory?"})
      /\ \A a, b \in Node : \A types : ~(a = n /\ b = m) => Flows(a, b, types)
      /\ \A a, b \in Node : ~Reads(a, b)
      /\ \A a, b \in Node : \A f \in Packet : Writes(a, b, f) => f = e
  <2>1. /\ \A a, b \in Node : Flows(a, b, {"inventory?"})
        /\ \A a, b \in Node : \A types : ~(a = n /\ b = m) => Flows(a, b, types)
    BY <1>2, <1>6 DEF Flows
  <2>2. \A a, b \in Node : ~Reads(a, b)
    BY <1>0, <1>2, <1>6, NotRead
  <2>3. ASSUME NEW a \in Node, NEW b \in Node, NEW f \in Packet, Writes(a, b, f)
        PROVE  f = e
    <3>1. ~Still(a, b) BY <1>0, <2>3, NotWritten
    <3>2. Writes(a, b, e) BY <1>6, <3>1
    <3>3. QED BY <1>0, <1>2, <2>3, <3>2, OneWritten
  <2>4. QED BY <2>1, <2>2, <2>3
<1>8. \A a, b \in Node : awaited'[a][b] = IF a = n /\ b = m THEN TRUE ELSE awaited[a][b]
  BY <1>0, <1>3 DEF GossipTypes
<1>9. GossipTypes'
  <2>1. awaited' \in [Node -> [Node -> BOOLEAN]] BY <1>0, <1>3 DEF GossipTypes
  <2>2. QED BY <1>0, <1>3, <1>5, <2>1 DEF GossipTypes, Channels
<1>10. WiresInv'
  <2>1. \A a \in Node : has[a] \subseteq has'[a] /\ has[a] \ casting[a] \subseteq has'[a] \ casting'[a]
    BY <1>3
  <2>2. \A a, b \in Node : seen'[a][b] \subseteq created'
    BY <1>0, <1>3 DEF WiresInv, Honest
  <2>3. \A a, b \in Node : \A f \in Packet : Writes(a, b, f) =>
            /\ f.type = "announce" => f.object \in has'[a] \ casting'[a]
            /\ f.type = "inventory" => f.txs \subseteq has'[a]
    BY <1>2, <1>7
  <2>4. conn' = conn /\ "end" \notin {"inventory?"} BY <1>3
  <2>5. \A a, b \in Node : Flows(a, b, {"inventory?"}) BY <1>7
  <2>6. QED BY ONLY GossipInv, <2>1, <2>2, <2>3, <2>4, <2>5, CalmWires
<1>11. NodesInv'
  BY <1>0, <1>3 DEF NodesInv, Kept
<1>12. SpreadInv'
  <2>1. Undisturbed' = {} BY <1>3 DEF Undisturbed
  <2>2. QED BY <2>1 DEF SpreadInv
<1>13. ClosedInv'
  <2> SUFFICES ASSUME closes = 0 PROVE NeverClosed'
    BY <1>3 DEF ClosedInv
  <2>1. NeverClosed
    BY DEF GossipInv, ClosedInv
  <2>a. hasty \subseteq hasty'
    BY <1>3
  <2>2. ASSUME NEW a \in Node, NEW b \in Node PROVE Inquiry(a, b)'
    <3>1. Inquiry(a, b) BY <2>1 DEF NeverClosed, Open
    <3>2. CASE a = n /\ b = m /\ awaited[n][m]
      BY <1>3, <3>2 DEF Inquiry
    <3>3. CASE a = n /\ b = m /\ ~awaited[n][m]
      <4> SUFFICES ASSUME <<n, m>> \notin hasty PROVE InquiryOnce(n, m)'
        BY <2>a, <3>3 DEF Inquiry
      <4>1. At(n, m, "inventory?") = {} /\ At(m, n, "inventory") = {}
        BY <3>1, <3>3 DEF Inquiry, InquiryOnce
      <4>2. Flows(n, m, {"inventory?"}) /\ ~Reads(n, m) BY <1>7
      <4>3. \A i, j \in At(n, m, "inventory?")' : i = j
        BY ONLY <1>0, <4>1, <4>2, n \in Node, m \in Node, OnlyOneWritten
      <4>4. At(m, n, "inventory")' = {}
        <5>1. Still(m, n) BY <1>6, <1>a
        <5>2. QED BY <4>1, <5>1, StillAt
      <4>5. awaited'[n][m] BY <1>8
      <4>6. QED BY <4>3, <4>4, <4>5 DEF InquiryOnce
    <3>4. CASE ~(a = n /\ b = m)
      <4>1. Flows(a, b, {}) /\ "inventory?" \notin {} BY <1>7, <3>4
      <4>2. Flows(b, a, {"inventory?"}) /\ "inventory" \notin {"inventory?"} BY <1>7
      <4>3. awaited'[a][b] = awaited[a][b] BY <1>8, <3>4
      <4>4. QED BY ONLY <1>0, <2>2, <2>a, <3>1, <4>1, <4>2, <4>3, InquirySame
    <3>5. QED BY <3>2, <3>3, <3>4
  <2>3. ASSUME NEW a \in Node, NEW b \in Node PROVE Open(a, b)'
    <3>1. Open(a, b) /\ Inquiry(a, b)' BY <2>1, <2>2 DEF NeverClosed
    <3>2. {"end", "lost", "ping"} \intersect {"inventory?"} = {} /\ Flows(a, b, {"inventory?"}) BY <1>7
    <3>3. Reads(a, b) => Head(chan[a][b]).type # "ping" BY <1>7
    <3>4. conn' = conn /\ shared' = shared /\ hasty \subseteq hasty' BY <1>3, <2>a
    <3>5. QED BY ONLY <1>0, <2>3, <3>1, <3>2, <3>3, <3>4, OpenKept
  <2>4. QED BY <1>3, <2>1, <2>3, <2>a DEF NeverClosed
<1>14. QED BY <1>9, <1>10, <1>11, <1>12, <1>13 DEF GossipInv

-------------------------------------------------------------------------------
(* The connections.                                                               *)
LEMMA PlacesOne ==
  ASSUME NEW e \in Packet, NEW type
  PROVE  /\ <<e>> \in Seq(Packet) /\ <<e>> # <<>>
         /\ e.type # type => Places(<<e>>, type) = {}
         /\ e.type = type => Places(<<e>>, type) = {1}
<1>1. DOMAIN <<e>> = {1} /\ <<e>>[1] = e
  OBVIOUS
<1>2. <<e>> \in Seq(Packet) /\ <<e>> # <<>>
  OBVIOUS
<1>3. QED BY <1>1, <1>2 DEF Places

LEMMA PlacesNone ==
  ASSUME NEW type
  PROVE  Places(<<>>, type) = {}
<1>1. DOMAIN <<>> = {} OBVIOUS
<1>2. QED BY <1>1 DEF Places

(* Two nodes connect: nothing is told yet, and each asks for the inventory of the other. *)
LEMMA ConnectKeeps ==
  ASSUME GossipInv, NEW n \in Node, NEW m \in Node, Connect(n, m)
  PROVE  GossipInv'
<1>0. GossipTypes /\ NodesInv /\ WiresInv
  BY DEF GossipInv
<1>1. n # m
  <2>1. n = m => {n, m} = {n} OBVIOUS
  <2>2. QED BY <2>1, LinksAssumption DEF Connect
<1>2. PICK e : e = InventoryRequest(0)
  OBVIOUS
<1>3. e \in Packet /\ e.type = "inventory?"
  BY <1>2 DEF InventoryRequest, Packet
<1>4. /\ m \notin conn[n] /\ n \notin conn[m]
      /\ conn' = [conn EXCEPT ![n] = @ \union {m}, ![m] = @ \union {n}]
      /\ awaited' = [awaited EXCEPT ![n][m] = TRUE, ![m][n] = TRUE]
      /\ chan' = [chan EXCEPT ![n][m] = <<e>>, ![m][n] = <<e>>]
      /\ disturbed' = disturbed \union created
      /\ UNCHANGED <<closes, hasty, shared, seen, has, casting, created, pinging, blamed>>
  BY <1>2 DEF Connect, objects
<1>5. PICK q : q = <<e>>
  OBVIOUS
<1>6. q \in Seq(Packet) /\ q # <<>> /\ Places(q, "inventory?") = {1}
  BY <1>3, <1>5, PlacesOne
<1>7. \A type : type # "inventory?" => Places(q, type) = {}
  BY <1>3, <1>5, PlacesOne
<1>8. \A a \in Node : conn'[a] = IF a = n THEN conn[a] \union {m} ELSE IF a = m THEN conn[a] \union {n} ELSE conn[a]
  BY <1>0, <1>1, <1>4 DEF GossipTypes
<1>9. \A a, b \in Node : awaited'[a][b] = IF (a = n /\ b = m) \/ (a = m /\ b = n) THEN TRUE ELSE awaited[a][b]
  BY <1>0, <1>1, <1>4 DEF GossipTypes
<1>10. \A a, b \in Node : chan'[a][b] = IF (a = n /\ b = m) \/ (a = m /\ b = n) THEN q ELSE chan[a][b]
  BY <1>0, <1>1, <1>4, <1>5 DEF GossipTypes
<1>11. \A a, b \in Node : \A type : At(a, b, type)' =
          IF (a = n /\ b = m) \/ (a = m /\ b = n) THEN Places(q, type) ELSE At(a, b, type)
  BY <1>10 DEF At
<1>12. GossipTypes'
  <2>1. conn' \in [Node -> SUBSET Node] BY <1>0, <1>4 DEF GossipTypes
  <2>2. awaited' \in [Node -> [Node -> BOOLEAN]] BY <1>0, <1>4 DEF GossipTypes
  <2>3. chan' \in [Node -> [Node -> Seq(Packet)]] BY <1>0, <1>4, <1>5, <1>6 DEF GossipTypes
  <2>4. QED BY <1>0, <1>4, <2>1, <2>2, <2>3 DEF GossipTypes
<1>13. WiresInv'
  <2> SUFFICES ASSUME NEW a \in Node, NEW b \in Node PROVE Wire(a, b)' /\ Honest(a, b)'
    BY DEF WiresInv
  <2>1. Wire(a, b) /\ Honest(a, b) BY <1>0 DEF WiresInv
  <2>2. CASE (a = n /\ b = m) \/ (a = m /\ b = n)
    <3>1. b \in conn'[a] /\ a \in conn'[b] /\ b # a BY <1>1, <1>8, <2>2
    <3>2. At(a, b, "end")' = {} /\ At(a, b, "announce")' = {} /\ At(a, b, "inventory")' = {}
      BY <1>7, <1>11, <2>2
    <3>3. seen'[a][b] \subseteq created' BY <1>4, <2>1 DEF Honest
    <3>4. QED BY <3>1, <3>2, <3>3 DEF Wire, Honest
  <2>3. CASE ~((a = n /\ b = m) \/ (a = m /\ b = n))
    <3>1. (b \in conn'[a] <=> b \in conn[a]) /\ (a \in conn'[b] <=> a \in conn[b]) BY <1>8, <2>3
    <3>2. chan'[a][b] = chan[a][b] BY <1>10, <2>3
    <3>3. QED BY <1>4, <2>1, <3>1, <3>2 DEF Wire, Honest, At
  <2>4. QED BY <2>2, <2>3
<1>14. NodesInv'
  BY <1>0, <1>4 DEF NodesInv, Kept
<1>15. ClosedInv'
  <2> SUFFICES ASSUME closes = 0 PROVE NeverClosed'
    BY <1>4 DEF ClosedInv
  <2>1. NeverClosed
    BY DEF GossipInv, ClosedInv
  <2>2. \A a \in Node : conn[a] \subseteq conn'[a] BY <1>8
  <2>3. ASSUME NEW a \in Node, NEW b \in Node PROVE Open(a, b)'
    <3>1. Open(a, b) BY <2>1 DEF NeverClosed
    <3>2. \A p \in Node : (Out(a, b, p)' <=> Out(a, b, p)) /\ (In(b, a, p)' <=> In(b, a, p))
      BY <1>4 DEF Out, In
    <3>3. CASE (a = n /\ b = m) \/ (a = m /\ b = n)
      <4>1. a \in conn'[b] BY <1>8, <3>3
      <4>2. At(a, b, "end")' = {} /\ At(a, b, "lost")' = {} /\ At(a, b, "ping")' = {}
        BY <1>7, <1>11, <3>3
      <4>3. Inquiry(a, b)'
        <5>1. At(a, b, "inventory?")' = {1} /\ At(b, a, "inventory")' = {} BY <1>6, <1>7, <1>11, <3>3
        <5>2. awaited'[a][b] BY <1>9, <3>3
        <5>3. QED BY <5>1, <5>2 DEF Inquiry, InquiryOnce
      <4>4. ASSUME NEW p \in Node PROVE Told(a, b, p)'
        <5>a. Told(a, b, p) BY <3>1 DEF Open
        <5>1. ~Out(a, b, p) BY <1>4, <3>3, <5>a DEF Told
        <5>2. Carries(a, b, p)' = {} BY <4>2 DEF Carries
        <5>3. <<b, a>> \notin hasty => ~In(b, a, p) BY <5>a, <5>1 DEF Told, ToldOnce
        <5>4. QED BY <1>4, <3>2, <5>1, <5>2, <5>3 DEF Told, ToldOnce
      <4>5. QED BY <4>1, <4>2, <4>3, <4>4 DEF Open
    <3>4. CASE ~((a = n /\ b = m) \/ (a = m /\ b = n))
      <4>1. chan'[a][b] = chan[a][b] /\ awaited'[a][b] = awaited[a][b]
            /\ (b \in conn'[a] => a \in conn'[b])
        BY <1>8, <1>9, <1>10, <3>1, <3>4 DEF Open
      <4>2. \A type : At(a, b, type)' = At(a, b, type) /\ At(b, a, type)' = At(b, a, type)
        BY <1>11, <3>4
      <4>3. Inquiry(a, b)' BY <1>4, <3>1, <4>1, <4>2 DEF Inquiry, InquiryOnce, Open
      <4>4. ASSUME NEW p \in Node PROVE Told(a, b, p)'
        <5>1. Carries(a, b, p)' = Carries(a, b, p) BY <4>1, <4>2 DEF Carries
        <5>2. Told(a, b, p) BY <3>1 DEF Open
        <5>3. hasty' = hasty /\ conn[a] \subseteq conn'[a] BY <1>4, <2>2
        <5>4. (Out(a, b, p)' <=> Out(a, b, p)) /\ (In(b, a, p)' <=> In(b, a, p)) BY <3>2
        <5>5. ToldOnce(a, b, p)' <=> ToldOnce(a, b, p) BY ONLY <5>1, <5>4 DEF ToldOnce
        <5>6. QED BY ONLY <5>2, <5>3, <5>4, <5>5 DEF Told
      <4>5. QED BY <3>1, <4>1, <4>2, <4>3, <4>4 DEF Open
    <3>5. QED BY <3>3, <3>4
  <2>4. \A a \in Node : pinging'[a].all \subseteq conn'[a] BY <1>4, <2>1, <2>2 DEF NeverClosed
  <2>5. QED BY <1>4, <2>1, <2>3, <2>4 DEF NeverClosed
<1>16. SpreadInv'
  <2>1. Undisturbed' = {} BY <1>4 DEF Undisturbed
  <2>2. QED BY <2>1 DEF SpreadInv
<1>17. QED BY <1>12, <1>13, <1>14, <1>15, <1>16 DEF GossipInv

(* What remove_peer leaves: the end or the rest of the channels of the lost connection is given
   by c, and those who were told of the peer are written of its loss.              *)
Left(n, m, a) == IF a = n THEN conn[a] \ {m} ELSE conn[a]

LEMMA RemovedAt ==
  ASSUME GossipTypes, NEW n \in Node, NEW m \in Node, NEW c \in Channels, remove_peer(n, m, c)
  PROVE  /\ conn' \in [Node -> SUBSET Node]
         /\ \A a \in Node : conn'[a] = Left(n, m, a)
         /\ chan' \in Channels
         /\ \A a, b \in Node :
              \/ chan'[a][b] = c[a][b]
              \/ /\ a = n /\ b \in conn[n] \ {m} /\ n \in conn[b]
                 /\ \E e \in Packet : e.type = "lost" /\ chan'[a][b] = Append(c[a][b], e)
         /\ shared' \in [Node -> [Node -> [Node -> Directions]]]
         /\ seen' \in [Node -> [Node -> SUBSET Object]]
         /\ \A a, b \in Node : seen'[a][b] \subseteq seen[a][b]
         /\ awaited' \in [Node -> [Node -> BOOLEAN]]
<1>1. PICK told : told = ToldOf(n, m) OBVIOUS
<1>2. told \subseteq conn[n] \ {m} /\ told \subseteq Node BY <1>1 DEF ToldOf, GossipTypes
<1>3. PICK e : e = [type |-> "lost", addr |-> m] OBVIOUS
<1>4. e \in Packet /\ e.type = "lost" BY <1>3 DEF Packet
<1>5. PICK to : to = [p \in told |-> <<[type |-> "lost", addr |-> m]>>] OBVIOUS
<1>6. DOMAIN to = told /\ \A p \in told : to[p] = <<e>> /\ to[p] \in Seq(Packet) BY <1>3, <1>4, <1>5
<1>7. chan' = Sent(c, n, to) BY <1>1, <1>5 DEF remove_peer
<1>8. /\ Sent(c, n, to) \in Channels
      /\ \A a, b \in Node : Sent(c, n, to)[a][b] =
           IF a = n /\ b \in DOMAIN to /\ n \in conn[b] THEN c[a][b] \o to[b] ELSE c[a][b]
  <2>1. \A b \in Node : b \in DOMAIN to => to[b] \in Seq(Packet) BY <1>6
  <2>2. QED BY ONLY <2>1, c \in Channels, n \in Node, SentAt
<1>9. ASSUME NEW a \in Node, NEW b \in Node
      PROVE  \/ chan'[a][b] = c[a][b]
             \/ /\ a = n /\ b \in conn[n] \ {m} /\ n \in conn[b]
                /\ \E f \in Packet : f.type = "lost" /\ chan'[a][b] = Append(c[a][b], f)
  <2>1. CASE a = n /\ b \in told /\ n \in conn[b]
    <3>1. chan'[a][b] = c[a][b] \o <<e>> BY <1>6, <1>7, <1>8, <2>1
    <3>2. c[a][b] \in Seq(Packet) BY DEF Channels
    <3>3. c[a][b] \o <<e>> = Append(c[a][b], e) BY <1>4, <3>2, Joined
    <3>4. QED BY <1>2, <1>4, <2>1, <3>1, <3>3
  <2>2. CASE ~(a = n /\ b \in told /\ n \in conn[b])
    BY <1>6, <1>7, <1>8, <2>2
  <2>3. QED BY <2>1, <2>2
<1>10. conn' \in [Node -> SUBSET Node] /\ \A a \in Node : conn'[a] = Left(n, m, a)
  BY DEF GossipTypes, remove_peer, Left
<1>11. shared' \in [Node -> [Node -> [Node -> Directions]]]
  <2>1. PICK line : line = [p \in Node |-> IF p = m THEN NobodyKnown
                              ELSE IF p \in told THEN [shared[n][p] EXCEPT ![m] = None] ELSE shared[n][p]]
    OBVIOUS
  <2>2. shared' = [shared EXCEPT ![n] = line] BY <1>1, <2>1 DEF remove_peer
  <2>3. None \in Directions /\ NobodyKnown \in [Node -> Directions] BY DEF Directions, NobodyKnown
  <2>4. line \in [Node -> [Node -> Directions]]
    <3>1. ASSUME NEW p \in Node
          PROVE  (IF p = m THEN NobodyKnown
                  ELSE IF p \in told THEN [shared[n][p] EXCEPT ![m] = None] ELSE shared[n][p]) \in [Node -> Directions]
      <4>1. shared[n][p] \in [Node -> Directions] BY DEF GossipTypes
      <4>2. [shared[n][p] EXCEPT ![m] = None] \in [Node -> Directions] BY <2>3, <4>1
      <4>3. QED BY <2>3, <4>1, <4>2
    <3>2. QED BY <2>1, <3>1
  <2>5. QED BY <2>2, <2>4 DEF GossipTypes
<1>12. /\ seen' \in [Node -> [Node -> SUBSET Object]]
       /\ \A a, b \in Node : seen'[a][b] \subseteq seen[a][b]
       /\ awaited' \in [Node -> [Node -> BOOLEAN]]
  BY DEF GossipTypes, remove_peer
<1>13. QED BY <1>7, <1>8, <1>9, <1>10, <1>11, <1>12

(* A queue of a to b whose end, if it has one, is last and after b was removed, and which says
   what a has.                                                                     *)
Ended(q, peers, b) == \A i \in Places(q, "end") : i = Len(q) /\ b \notin peers
Says(q, a) ==
    /\ \A i \in Places(q, "announce") : q[i].object \in has[a] \ casting[a]
    /\ \A i \in Places(q, "inventory") : q[i].txs \subseteq has[a]

LEMMA RemoveKeeps ==
  ASSUME GossipInv, NEW n \in Node, NEW m \in Node, NEW c \in Channels, remove_peer(n, m, c),
         UNCHANGED <<has, casting, created, pinging, blamed>>, closes' \in Nat \ {0},
         \A a, b \in Node : /\ c[a][b] # <<>> => a \in conn[b] /\ ~(a = m /\ b = n)
                            /\ Ended(c[a][b], Left(n, m, a), b)
                            /\ Says(c[a][b], a)
  PROVE  GossipInv'
<1>0. GossipTypes /\ NodesInv /\ WiresInv
  BY DEF GossipInv
<1>1. /\ conn' \in [Node -> SUBSET Node]
      /\ \A a \in Node : conn'[a] = Left(n, m, a)
      /\ chan' \in Channels
      /\ \A a, b \in Node :
           \/ chan'[a][b] = c[a][b]
           \/ /\ a = n /\ b \in conn[n] \ {m} /\ n \in conn[b]
              /\ \E e \in Packet : e.type = "lost" /\ chan'[a][b] = Append(c[a][b], e)
      /\ shared' \in [Node -> [Node -> [Node -> Directions]]]
      /\ seen' \in [Node -> [Node -> SUBSET Object]]
      /\ \A a, b \in Node : seen'[a][b] \subseteq seen[a][b]
      /\ awaited' \in [Node -> [Node -> BOOLEAN]]
  BY <1>0, RemovedAt
<1>2. GossipTypes'
  BY <1>0, <1>1 DEF GossipTypes, Channels
<1>3. NodesInv'
  BY <1>0 DEF NodesInv, Kept
<1>4. ClosedInv'
  BY DEF ClosedInv
<1>5. SpreadInv'
  <2>1. Undisturbed' = {} BY DEF Undisturbed, remove_peer
  <2>2. QED BY <2>1 DEF SpreadInv
<1>6. WiresInv'
  <2> SUFFICES ASSUME NEW a \in Node, NEW b \in Node PROVE Wire(a, b)' /\ Honest(a, b)'
    BY DEF WiresInv
  <2>1. Wire(a, b) /\ Honest(a, b) BY <1>0 DEF WiresInv
  <2>2. PICK q : q = c[a][b] OBVIOUS
  <2>3. /\ q # <<>> => a \in conn[b] /\ ~(a = m /\ b = n)
        /\ Ended(q, conn'[a], b) /\ Says(q, a) /\ q \in Seq(Packet)
    BY <1>1, <2>2 DEF Channels
  <2>4. b \in conn'[a] => b # a BY <1>1, <2>1 DEF Wire, Left
  <2>5. seen'[a][b] \subseteq created' BY <1>1, <2>1 DEF Honest
  <2>6. CASE chan'[a][b] = q
    <3>1. \A type : At(a, b, type)' = Places(q, type) BY <2>6 DEF At
    <3>2. chan'[a][b] # <<>> => a \in conn'[b] BY <1>1, <2>3, <2>6 DEF Left
    <3>3. QED BY <2>3, <2>4, <2>5, <2>6, <3>1, <3>2 DEF Wire, Honest, Ended, Says
  <2>7. ASSUME a = n, b \in conn[n] \ {m}, n \in conn[b],
               NEW e \in Packet, e.type = "lost", chan'[a][b] = Append(q, e)
        PROVE  Wire(a, b)' /\ Honest(a, b)'
    <3>1. b # n BY <2>1, <2>7 DEF Wire
    <3>2. a \in conn'[b] /\ b \in conn'[a] BY <1>1, <2>7, <3>1 DEF Left
    <3>3. /\ Len(q) \in Nat
          /\ \A type : \A i \in Places(q, type) : i \in 1..Len(q)
          /\ \A i \in 1..Len(q) : Append(q, e)[i] = q[i]
          /\ \A type : e.type # type => Places(Append(q, e), type) = Places(q, type)
      BY <2>3, PlacesAppended
    <3>4. /\ At(a, b, "end")' = Places(q, "end") /\ At(a, b, "announce")' = Places(q, "announce")
          /\ At(a, b, "inventory")' = Places(q, "inventory")
      BY <2>7, <3>3 DEF At
    <3>5. Places(q, "end") = {} BY <2>3, <3>2 DEF Ended
    <3>6. Wire(a, b)' BY <2>4, <3>2, <3>4, <3>5 DEF Wire
    <3>7. \A i \in Places(q, "announce") \union Places(q, "inventory") : chan'[a][b][i] = q[i]
      BY <2>7, <3>3
    <3>8. Honest(a, b)' BY <2>3, <2>5, <3>4, <3>7 DEF Honest, Says
    <3>9. QED BY <3>6, <3>8
  <2>8. \/ chan'[a][b] = q
        \/ /\ a = n /\ b \in conn[n] \ {m} /\ n \in conn[b]
           /\ \E e \in Packet : e.type = "lost" /\ chan'[a][b] = Append(q, e)
    <3>1. \/ chan'[a][b] = c[a][b]
          \/ /\ a = n /\ b \in conn[n] \ {m} /\ n \in conn[b]
             /\ \E e \in Packet : e.type = "lost" /\ chan'[a][b] = Append(c[a][b], e)
      BY ONLY <1>1, a \in Node, b \in Node
    <3>2. QED BY ONLY <2>2, <3>1
  <2>9. QED BY ONLY <2>6, <2>7, <2>8
<1>7. QED BY <1>2, <1>3, <1>4, <1>5, <1>6 DEF GossipInv

LEMMA EmptySays ==
  ASSUME NEW a, NEW b, NEW peers
  PROVE  Ended(<<>>, peers, b) /\ Says(<<>>, a)
  BY PlacesNone DEF Ended, Says

(* The channels that the lost connection does not concern.                         *)
LEMMA OtherSays ==
  ASSUME GossipInv, NEW n \in Node, NEW m \in Node, NEW a \in Node, NEW b \in Node
  PROVE  /\ chan[a][b] # <<>> => a \in conn[b]
         /\ Ended(chan[a][b], Left(n, m, a), b)
         /\ Says(chan[a][b], a)
<1>1. Wire(a, b) /\ Honest(a, b) BY DEF GossipInv, WiresInv
<1>2. QED BY <1>1 DEF Wire, Honest, Ended, Says, At, Left

(* The end is read: it was the last packet.                                        *)
LEMMA ReadEndKeeps ==
  ASSUME GossipInv, NEW n \in Node, NEW m \in Node, ReadEnd(n, m)
  PROVE  GossipInv'
<1>0. GossipTypes /\ Wire(m, n) /\ closes \in Nat
  BY DEF GossipInv, GossipTypes, WiresInv
<1>1. chan[m][n] # <<>> /\ 1 \in At(m, n, "end") /\ m # n
  BY FirstPacket DEF ReadEnd
<1>2. Tail(chan[m][n]) = <<>>
  <2>1. PICK q : q = chan[m][n] OBVIOUS
  <2>2. q \in Seq(Packet) BY <1>0, <2>1 DEF GossipTypes
  <2>3. Len(q) = 1 BY <1>0, <1>1, <2>1 DEF Wire
  <2>4. Tail(q) \in Seq(Packet) /\ Len(Tail(q)) = 0 BY <2>2, <2>3
  <2>5. PICK rest : rest = Tail(q) OBVIOUS
  <2>7. rest \in Seq(Packet) /\ Len(rest) = 0 BY <2>4, <2>5
  <2>8. rest = <<>> BY <2>7
  <2>9. QED BY <2>1, <2>5, <2>8
<1>3. PICK c : c = Taken(n, m) OBVIOUS
<1>4. c \in Channels /\ \A a, b \in Node : c[a][b] = IF a = m /\ b = n THEN <<>> ELSE chan[a][b]
  <2>1. /\ Taken(n, m) \in Channels
        /\ \A a, b \in Node : Taken(n, m)[a][b] = IF a = m /\ b = n THEN Tail(chan[a][b]) ELSE chan[a][b]
    BY <1>0, <1>1, TakenAt
  <2>2. ASSUME NEW a \in Node, NEW b \in Node
        PROVE  c[a][b] = IF a = m /\ b = n THEN <<>> ELSE chan[a][b]
    <3>1. CASE a = m /\ b = n BY <1>2, <1>3, <2>1, <3>1
    <3>2. CASE ~(a = m /\ b = n) BY <1>3, <2>1, <3>2
    <3>3. QED BY <3>1, <3>2
  <2>3. QED BY <1>3, <2>1, <2>2
<1>5. remove_peer(n, m, c) /\ UNCHANGED <<has, casting, created, pinging, blamed>> /\ closes' = closes
  BY <1>3 DEF ReadEnd, objects
<1>6. closes # 0
  BY <1>1 DEF GossipInv, ClosedInv, NeverClosed, Open
<1>7. ASSUME NEW a \in Node, NEW b \in Node
      PROVE  /\ c[a][b] # <<>> => a \in conn[b] /\ ~(a = m /\ b = n)
             /\ Ended(c[a][b], Left(n, m, a), b)
             /\ Says(c[a][b], a)
  <2>1. CASE a = m /\ b = n BY <1>4, <2>1, EmptySays
  <2>2. CASE ~(a = m /\ b = n) BY <1>4, <2>2, OtherSays
  <2>3. QED BY <2>1, <2>2
<1>8. closes' \in Nat \ {0} BY <1>0, <1>5, <1>6
<1>9. QED BY ONLY GossipInv, n \in Node, m \in Node, <1>4, <1>5, <1>7, <1>8, RemoveKeeps

LEMMA EndAppended ==
  ASSUME NEW q \in Seq(Packet), NEW e \in Packet, e.type = "end"
  PROVE  /\ Append(q, e) \in Seq(Packet) /\ Len(Append(q, e)) = Len(q) + 1 /\ Len(q) \in Nat
         /\ \A type : \A i \in Places(q, type) : i \in 1..Len(q)
         /\ \A i \in 1..Len(q) : Append(q, e)[i] = q[i]
         /\ \A type : e.type # type => Places(Append(q, e), type) = Places(q, type)
         /\ Places(Append(q, e), "end") = Places(q, "end") \union {Len(q) + 1}
<1>1. ASSUME NEW type
      PROVE  /\ \A i \in Places(q, type) : i \in 1..Len(q)
             /\ e.type # type => Places(Append(q, e), type) = Places(q, type)
  BY PlacesAppended
<1>2. /\ Len(Append(q, e)) = Len(q) + 1 /\ Len(q) \in Nat
      /\ \A i \in 1..Len(q) : Append(q, e)[i] = q[i]
      /\ Places(Append(q, e), "end") = Places(q, "end") \union {Len(q) + 1}
  BY PlacesAppended
<1>3. Append(q, e) \in Seq(Packet) OBVIOUS
<1>4. QED BY <1>1, <1>2, <1>3

(* Some of what was on the way is read before the end.                             *)
LEMMA CutQueue ==
  ASSUME NEW q \in Seq(Packet), NEW k \in 0..Len(q), NEW e \in Packet, e.type = "end",
         Places(q, "end") = {}, NEW a, Says(q, a), NEW peers, NEW b, b \notin peers
  PROVE  /\ SubSeq(q, 1, k) \o <<e>> \in Seq(Packet)
         /\ Ended(SubSeq(q, 1, k) \o <<e>>, peers, b)
         /\ Says(SubSeq(q, 1, k) \o <<e>>, a)
<1>1. PICK s : s = SubSeq(q, 1, k) OBVIOUS
<1>2. k \in Nat /\ k <= Len(q) /\ Len(q) \in Nat OBVIOUS
<1>3. s \in Seq(Packet) /\ Len(s) = k /\ \A i \in 1..k : s[i] = q[i]
  BY <1>1, <1>2
<1>4. s \o <<e>> = Append(s, e) BY <1>3, Joined
<1>5. \A type : \A i \in Places(s, type) : i \in Places(q, type) /\ s[i] = q[i]
  <2>1. DOMAIN s = 1..k /\ DOMAIN q = 1..Len(q) BY <1>3
  <2>2. 1..k \subseteq 1..Len(q) BY <1>2
  <2>3. QED BY <1>3, <2>1, <2>2 DEF Places
<1>a. s \in Seq(Packet) /\ e \in Packet BY <1>3
<1>6. /\ Append(s, e) \in Seq(Packet) /\ Len(Append(s, e)) = Len(s) + 1 /\ Len(s) \in Nat
      /\ \A type : \A i \in Places(s, type) : i \in 1..Len(s)
      /\ \A i \in 1..Len(s) : Append(s, e)[i] = s[i]
      /\ \A type : e.type # type => Places(Append(s, e), type) = Places(s, type)
      /\ Places(Append(s, e), "end") = Places(s, "end") \union {Len(s) + 1}
  BY ONLY <1>a, e.type = "end", EndAppended
<1>7. Places(s, "end") = {} BY <1>5
<1>8. Ended(Append(s, e), peers, b) BY <1>6, <1>7 DEF Ended
<1>9. Says(Append(s, e), a)
  <2>1. Places(Append(s, e), "announce") = Places(s, "announce")
        /\ Places(Append(s, e), "inventory") = Places(s, "inventory") BY <1>6
  <2>2. \A i \in Places(s, "announce") \union Places(s, "inventory") : Append(s, e)[i] = q[i]
    BY <1>5, <1>6
  <2>3. QED BY <1>5, <2>1, <2>2 DEF Says
<1>10. QED BY <1>1, <1>4, <1>6, <1>8, <1>9

LEMMA CloseKeeps ==
  ASSUME GossipInv, NEW n \in Node, NEW m \in Node, Close(n, m)
  PROVE  GossipInv'
<1>0. GossipTypes /\ Wire(n, m) /\ closes \in Nat
  BY DEF GossipInv, GossipTypes, WiresInv
<1>1. m \in conn[n] /\ n \in conn[m] /\ m # n
  BY <1>0 DEF Close, Wire
<1>2. PICK e : e = [type |-> "end"] OBVIOUS
<1>3. e \in Packet /\ e.type = "end" BY <1>2 DEF Packet
<1>4. PICK k \in 0..Len(chan[n][m]) :
        remove_peer(n, m, [chan EXCEPT ![n][m] = SubSeq(@, 1, k) \o <<e>>, ![m][n] = <<>>])
  BY <1>2 DEF Close
<1>5. PICK q : q = chan[n][m] OBVIOUS
<1>6. PICK s : s = SubSeq(q, 1, k) \o <<e>> OBVIOUS
<1>7. PICK peers : peers = conn[n] \ {m} OBVIOUS
<1>8. s \in Seq(Packet) /\ Ended(s, peers, m) /\ Says(s, n)
  <2>1. q \in Seq(Packet) /\ k \in 0..Len(q) BY <1>0, <1>5 DEF GossipTypes
  <2>2. Places(q, "end") = {} BY <1>0, <1>1, <1>5 DEF Wire, At
  <2>3. Says(q, n) BY <1>5, OtherSays
  <2>4. m \notin peers BY <1>7
  <2>5. QED BY ONLY <1>3, <1>6, <2>1, <2>2, <2>3, <2>4, CutQueue
<1>9. PICK c : c = [chan EXCEPT ![n][m] = s, ![m][n] = <<>>] OBVIOUS
<1>10. c \in Channels
  <2>1. <<>> \in Seq(Packet) OBVIOUS
  <2>2. QED BY <1>0, <1>8, <1>9, <2>1 DEF GossipTypes, Channels
<1>11. \A a, b \in Node : c[a][b] = IF a = m /\ b = n THEN <<>> ELSE IF a = n /\ b = m THEN s ELSE chan[a][b]
  BY <1>0, <1>1, <1>9 DEF GossipTypes
<1>12. remove_peer(n, m, c)
  <2>1. c = [chan EXCEPT ![n][m] = SubSeq(@, 1, k) \o <<e>>, ![m][n] = <<>>] BY <1>5, <1>6, <1>9
  <2>2. QED BY <1>4, <2>1
<1>13. UNCHANGED <<has, casting, created, pinging, blamed>> /\ closes' \in Nat \ {0}
  BY <1>0 DEF Close, objects
<1>14. ASSUME NEW a \in Node, NEW b \in Node
       PROVE  /\ c[a][b] # <<>> => a \in conn[b] /\ ~(a = m /\ b = n)
              /\ Ended(c[a][b], Left(n, m, a), b)
              /\ Says(c[a][b], a)
  <2>1. CASE a = m /\ b = n BY <1>11, <2>1, EmptySays
  <2>2. CASE a = n /\ b = m
    <3>1. c[a][b] = s /\ Left(n, m, a) = peers BY <1>1, <1>7, <1>11, <2>2 DEF Left
    <3>2. QED BY <1>1, <1>8, <2>2, <3>1
  <2>3. CASE ~(a = m /\ b = n) /\ ~(a = n /\ b = m) BY <1>11, <2>3, OtherSays
  <2>4. QED BY <2>1, <2>2, <2>3
<1>15. QED BY ONLY GossipInv, n \in Node, m \in Node, <1>10, <1>12, <1>13, <1>14, RemoveKeeps

-------------------------------------------------------------------------------
LEMMA GossipStep ==
  ASSUME GossipInv, [Next]_vars
  PROVE  GossipInv'
<1>1. CASE Run
  <2>1. ASSUME NEW n \in Node, NEW m \in Node,
               \/ HandlePing(n, m) \/ HandleEarlyPing(n, m) \/ HandlePeerDisconnected(n, m) \/ ReadEnd(n, m)
               \/ HandlePropagation(n, m) \/ HandleInventoryRequest(n, m) \/ HandleInventoryResponse(n, m)
               \/ Ping(n, m)
        PROVE  GossipInv'
    BY <2>1, HandlePingKeeps, EarlyPingKeeps, PeerDisconnectedKeeps, ReadEndKeeps, PropagationKeeps,
       InventoryRequestKeeps, InventoryResponseKeeps, PingKeeps
  <2>2. ASSUME NEW n \in Node, PingStart(n) PROVE GossipInv'
    BY <2>2, PingStartKeeps
  <2>3. ASSUME NEW n \in Node, NEW x \in Tx \union Block, Broadcast(n, x) PROVE GossipInv'
    BY <2>3, BroadcastKeeps DEF Object
  <2>4. QED BY <1>1, <2>1, <2>2, <2>3 DEF Run
<1>2. CASE Environment
  <2>1. ASSUME NEW n \in Node, NEW m \in Node,
               Connect(n, m) \/ Close(n, m) \/ request_inventory_of(n, m)
        PROVE  GossipInv'
    BY <2>1, ConnectKeeps, CloseKeeps, RequestKeeps
  <2>2. ASSUME NEW n \in Node, NEW x \in Tx \union Block, Submit(n, x) PROVE GossipInv'
    BY <2>2, SubmitKeeps DEF Object
  <2>3. QED BY <1>2, <2>1, <2>2 DEF Environment
<1>3. CASE UNCHANGED vars
  <2>1. UNCHANGED <<conn, chan, shared, seen, awaited, has, casting, pinging, closes, created, disturbed, blamed,
                  hasty>>
    BY <1>3 DEF vars, links, objects
  <2>2. GossipTypes' = GossipTypes BY <2>1 DEF GossipTypes
  <2>3. WiresInv' = WiresInv BY <2>1 DEF WiresInv, Wire, Honest, At
  <2>4. NodesInv' = NodesInv BY <2>1 DEF NodesInv, Kept
  <2>5. ClosedInv' = ClosedInv
    BY <2>1 DEF ClosedInv, NeverClosed, Open, Inquiry, InquiryOnce, Told, ToldOnce, Out, In, Carries, At
  <2>6. SpreadInv' = SpreadInv
    <3>1. Truthful' = Truthful BY <2>1 DEF Truthful
    <3>2. \A x : Spread(x)' = Spread(x) BY <2>1 DEF Spread, Knows, Announced, At
    <3>3. QED BY <2>1, <3>1, <3>2 DEF SpreadInv, Undisturbed
  <2>7. QED BY <2>2, <2>3, <2>4, <2>5, <2>6 DEF GossipInv
<1>4. QED BY <1>1, <1>2, <1>3 DEF Next

(* The invariant of the gossip: packets wait on connections their reader has and say what their
   sender has, peers are told of once while no connection was closed, and an object that nothing
   disturbed is known to, or on its way to, everybody who is thought to have it.   *)
THEOREM GossipInvariant == Spec => []GossipInv
<1>1. GossipInv /\ [Next]_vars => GossipInv'
  BY GossipStep
<1>2. QED BY <1>1, GossipStart, PTL DEF Spec

(* While all is quiet, an undisturbed object is at both ends of a connection or at neither. *)
LEMMA DeliveredThen ==
  ASSUME GossipInv
  PROVE  Delivered
<1> SUFFICES ASSUME Quiet, NEW x \in created \ disturbed, NEW n \in Node, NEW m \in conn[n]
             PROVE  x \in has[n] <=> x \in has[m]
  BY DEF Delivered
<1>1. GossipTypes /\ Spread(x) /\ Truthful /\ m \in Node
  BY DEF GossipInv, SpreadInv, Undisturbed, GossipTypes
<1>2. n \in conn[m]
  BY <1>1 DEF Truthful
<1>3. \A a, b \in Node : At(a, b, "announce") = {}
  BY PlacesNone DEF Quiet, At
<1>4. \A b \in Node : Knows(b, x) => x \in has[b]
  BY <1>3 DEF Knows, Announced
<1>5. casting[n] = {} /\ casting[m] = {}
  BY <1>1 DEF Quiet
<1>6. QED BY <1>1, <1>2, <1>4, <1>5 DEF Spread

(* While all is quiet, each side has told the other of all of its peers.           *)
LEMMA CommonPeersThen ==
  ASSUME GossipInv
  PROVE  CommonPeersKnown
<1> SUFFICES ASSUME Quiet, closes = 0, NEW n \in Node, NEW m \in conn[n], NEW p \in Node \ {n, m},
                    <<n, m>> \notin hasty
             PROVE  shared[n][m][p] = "Both" <=> p \in conn[n] \intersect conn[m]
  BY DEF CommonPeersKnown
<1>1. GossipTypes /\ NeverClosed /\ m \in Node
  BY DEF GossipInv, ClosedInv, GossipTypes
<1>2. n \in conn[m]
  BY <1>1 DEF NeverClosed, Open
<1>3. \A a, b \in Node : Carries(a, b, p) = {}
  BY PlacesNone DEF Quiet, At, Carries
<1>4. Out(m, n, p) <=> In(n, m, p)
  BY <1>1, <1>3 DEF NeverClosed, Open, Told, ToldOnce
<1>5. ASSUME NEW a \in Node, NEW b \in conn[a], a \in conn[b], p # b, b \in Node
      PROVE  Out(a, b, p) <=> p \in conn[a]
  <2>1. Out(a, b, p) => p \in conn[a]
    BY <1>1, <1>5 DEF NeverClosed, Open, Told
  <2>2. ASSUME p \in conn[a] PROVE Out(a, b, p)
    <3>1. Uninformed(a) = {} BY DEF Quiet
    <3>2. NewPeers(a, b, conn[a]) = {} BY <1>5, <3>1 DEF Uninformed
    <3>3. ~Updates(shared[a][b][p], "Out") BY <1>5, <2>2, <3>2 DEF NewPeers
    <3>4. shared[a][b][p] \in Directions BY <1>1, <1>5 DEF GossipTypes
    <3>5. QED BY <3>3, <3>4, UpdateOut DEF Out
  <2>3. QED BY <2>1, <2>2
<1>6. Out(n, m, p) <=> p \in conn[n]
  BY <1>1, <1>2, <1>5
<1>7. Out(m, n, p) <=> p \in conn[m]
  BY <1>1, <1>2, <1>5
<1>8. In(n, m, p) <=> p \in conn[m]
  BY <1>1, <1>4, <1>7
<1>9. shared[n][m][p] = "Both" <=> Out(n, m, p) /\ In(n, m, p)
  BY DEF Out, In
<1>10. QED BY <1>6, <1>8, <1>9

(* ping_loop, update_peer, remove_peer, broadcast_tx_hash, broadcast_block and the handlers of
   propagations and inventories keep their beliefs right, whatever crosses, in any network and for
   any number of objects. While no connection is lost, a node blames another only when it asked it
   twice for an inventory or read two of its lists too close. Once the nodes are quiet, what one of
   them accepted undisturbed is known to all its peers, and a node knows exactly whom it has in common
   with a peer none of whose lists it refused.                                     *)
THEOREM GossipIsSound == Spec => []GossipSound
<1>1. GossipInv => GossipSound
  <2> SUFFICES ASSUME GossipInv PROVE GossipSound
    OBVIOUS
  <2>1. TypeOK
    <3>1. GossipTypes /\ WiresInv /\ NodesInv BY DEF GossipInv
    <3>2. ASSUME NEW n \in Node, NEW m \in Node
          PROVE  /\ m \in conn[n] => m # n
                 /\ shared[n][m] \in [Node -> {"In", "Out", "Both", None}]
                 /\ awaited[n][m] \in BOOLEAN
                 /\ chan[m][n] # <<>> => m \in conn[n]
      <4>1. Wire(n, m) /\ Wire(m, n) BY <3>1 DEF WiresInv
      <4>2. shared[n][m] \in [Node -> Directions] /\ awaited[n][m] \in BOOLEAN BY <3>1 DEF GossipTypes
      <4>3. QED BY <4>1, <4>2 DEF Wire, Directions
    <3>3. QED BY <3>1, <3>2 DEF NodesInv, Kept, TypeOK
  <2>2. HonestNotBlamed
    BY DEF GossipInv, GossipTypes, ClosedInv, NeverClosed, HonestNotBlamed
  <2>3. QED BY <2>1, <2>2, DeliveredThen, CommonPeersThen DEF GossipSound
<1>2. QED BY <1>1, GossipInvariant, PTL
===============================================================================
