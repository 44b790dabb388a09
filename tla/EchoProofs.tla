----------------------------- MODULE EchoProofs ------------------------------
(***************************************************************************)
(* Proofs about the echo programs, for every number of connections, every     *)
(* message, every size of a read and however the operations divide the bytes:  *)
(* Echo, and as instances of their modules DotEcho and TaskEcho.                *)
(***************************************************************************)
EXTENDS Echo, TaskEchoState, DotEchoState, SequenceTheorems, FiniteSetTheorems, TLAPS

(* w has the bytes of q after its first o. *)
HasAt(w, o, q) == \A k \in 1..Len(q) : w[o + k] = q[k]

(* Two sequences joined are w when it has their bytes. *)
LEMMA Joined ==
  ASSUME NEW S, NEW q \in Seq(S), NEW r \in Seq(S), NEW w \in Seq(S),
         Len(w) = Len(q) + Len(r), HasAt(w, 0, q), HasAt(w, Len(q), r)
  PROVE  q \o r = w
<1>1. Len(q) \in Nat /\ Len(r) \in Nat
  BY LenProperties
<1>2. /\ q \o r \in Seq(S) /\ Len(q \o r) = Len(q) + Len(r)
      /\ \A k \in 1..(Len(q) + Len(r)) :
           (q \o r)[k] = IF k <= Len(q) THEN q[k] ELSE r[k - Len(q)]
  BY ConcatProperties
<1>3. ASSUME NEW k \in 1..(Len(q) + Len(r)) PROVE (q \o r)[k] = w[k]
  <2>1. CASE k <= Len(q)
    BY <1>1, <1>2, <2>1 DEF HasAt
  <2>2. CASE k > Len(q)
    <3>1. k - Len(q) \in 1..Len(r) /\ Len(q) + (k - Len(q)) = k
      BY <1>1, <2>2
    <3>2. w[k] = r[k - Len(q)]
      BY <3>1 DEF HasAt
    <3>3. (q \o r)[k] = r[k - Len(q)]
      BY <1>1, <1>2, <2>2
    <3>4. QED
      BY <3>2, <3>3
  <2>3. QED
    BY <1>1, <2>1, <2>2
<1>4. QED
  BY <1>2, <1>3, SeqEqual

(* The first n bytes and the others. *)
LEMMA Split ==
  ASSUME NEW S, NEW q \in Seq(S), NEW n \in 0..Len(q)
  PROVE  /\ Front(q, n) \in Seq(S) /\ Len(Front(q, n)) = n
         /\ \A k \in 1..n : Front(q, n)[k] = q[k]
         /\ From(q, n) \in Seq(S) /\ Len(From(q, n)) = Len(q) - n
         /\ \A k \in 1..(Len(q) - n) : From(q, n)[k] = q[n + k]
         /\ Front(q, n) \o From(q, n) = q
<1>1. /\ Len(q) \in Nat /\ n \in Nat /\ n <= Len(q)
      /\ \A k \in 1..Len(q) : q[k] \in S
  BY LenProperties, ElementOfSeq
<1>2. /\ SubSeq(q, 1, n) \in Seq(S) /\ Len(SubSeq(q, 1, n)) = n
      /\ \A k \in 1..n : SubSeq(q, 1, n)[k] = q[k]
  <2>1. \A k \in 1..n : q[k] \in S
    BY <1>1
  <2>2. /\ SubSeq(q, 1, n) \in Seq(S)
        /\ Len(SubSeq(q, 1, n)) = IF 1 <= n THEN n - 1 + 1 ELSE 0
        /\ \A k \in 1..(n - 1 + 1) : SubSeq(q, 1, n)[k] = q[1 + k - 1]
    BY <1>1, <2>1, SubSeqProperties
  <2>3. QED
    BY <1>1, <2>2
<1>3. /\ SubSeq(q, n + 1, Len(q)) \in Seq(S) /\ Len(SubSeq(q, n + 1, Len(q))) = Len(q) - n
      /\ \A k \in 1..(Len(q) - n) : SubSeq(q, n + 1, Len(q))[k] = q[n + k]
  <2>1. \A k \in (n + 1)..Len(q) : q[k] \in S
    BY <1>1
  <2>2. /\ SubSeq(q, n + 1, Len(q)) \in Seq(S)
        /\ Len(SubSeq(q, n + 1, Len(q))) =
             IF n + 1 <= Len(q) THEN Len(q) - (n + 1) + 1 ELSE 0
        /\ \A k \in 1..(Len(q) - (n + 1) + 1) :
             SubSeq(q, n + 1, Len(q))[k] = q[(n + 1) + k - 1]
    BY <1>1, <2>1, SubSeqProperties
  <2>3. QED
    BY <1>1, <2>2
<1>4. SubSeq(q, 1, n) \o SubSeq(q, n + 1, Len(q)) = q
  <2>1. Len(q) = n + (Len(q) - n)
    BY <1>1
  <2>2. HasAt(q, 0, SubSeq(q, 1, n)) /\ HasAt(q, n, SubSeq(q, n + 1, Len(q)))
    BY <1>2, <1>3 DEF HasAt
  <2>3. QED
    BY <1>2, <1>3, <2>1, <2>2, Joined
<1>5. QED
  BY <1>2, <1>3, <1>4 DEF Front, From

(* Sequences with the same bytes. *)
LEMMA SplitEnds ==
  ASSUME NEW S, NEW q \in Seq(S)
  PROVE  /\ Front(q, 0) = <<>> /\ From(q, 0) = q
         /\ Front(q, Len(q)) = q /\ From(q, Len(q)) = <<>>
<1>1. Len(q) \in Nat
  BY LenProperties
<1>2. Front(q, 0) = <<>> /\ From(q, Len(q)) = <<>>
  BY <1>1, SubSeqEmpty DEF Front, From
<1>3. Front(q, Len(q)) = q /\ From(q, 0) = q
  BY <1>1, SubSeqFull DEF Front, From
<1>4. QED
  BY <1>2, <1>3

(* k bytes more of what follows the first n. *)
LEMMA FrontMore ==
  ASSUME NEW S, NEW q \in Seq(S), NEW n \in 0..Len(q), NEW k \in 0..(Len(q) - n)
  PROVE  Front(q, n) \o Front(From(q, n), k) = Front(q, n + k)
<1>1. Len(q) \in Nat /\ n \in Nat /\ k \in Nat /\ n + k \in 0..Len(q)
  BY LenProperties
<1>2. /\ From(q, n) \in Seq(S) /\ Len(From(q, n)) = Len(q) - n
      /\ \A j \in 1..(Len(q) - n) : From(q, n)[j] = q[n + j]
      /\ Front(q, n) \in Seq(S) /\ Len(Front(q, n)) = n
      /\ \A j \in 1..n : Front(q, n)[j] = q[j]
  BY Split
<1>3. /\ Front(q, n + k) \in Seq(S) /\ Len(Front(q, n + k)) = n + k
      /\ \A j \in 1..(n + k) : Front(q, n + k)[j] = q[j]
  BY <1>1, Split
<1>4. /\ Front(From(q, n), k) \in Seq(S) /\ Len(Front(From(q, n), k)) = k
      /\ \A j \in 1..k : Front(From(q, n), k)[j] = From(q, n)[j]
  BY <1>2, Split
<1>5. ASSUME NEW j \in 1..k PROVE Front(q, n + k)[n + j] = Front(From(q, n), k)[j]
  <2>1. j \in 1..(Len(q) - n) /\ n + j \in 1..(n + k)
    BY <1>1
  <2>2. QED
    BY <1>2, <1>3, <1>4, <2>1
<1>6. ASSUME NEW j \in 1..n PROVE Front(q, n + k)[j] = Front(q, n)[j]
  <2>1. j \in 1..(n + k)
    BY <1>1
  <2>2. QED
    BY <1>2, <1>3, <2>1
<1> DEFINE f == Front(q, n)
           g == Front(From(q, n), k)
           w == Front(q, n + k)
<1>7. /\ f \in Seq(S) /\ Len(f) = n /\ g \in Seq(S) /\ Len(g) = k
      /\ w \in Seq(S) /\ Len(w) = n + k
      /\ HasAt(w, 0, f) /\ HasAt(w, n, g)
  BY <1>2, <1>3, <1>4, <1>5, <1>6 DEF HasAt
<1> HIDE DEF f, g, w
<1>8. f \o g = w
  BY <1>7, Joined
<1>9. QED
  BY <1>8 DEF f, g, w

(* A part in front of something is the beginning of the whole. *)
Joins(q, r, w) == q \o r = w

LEMMA FrontOfWhole ==
  ASSUME NEW S, NEW q \in Seq(S), NEW r \in Seq(S), NEW w \in Seq(S), Joins(q, r, w)
  PROVE  Len(q) + Len(r) = Len(w) /\ q = Front(w, Len(q))
<1>1. Len(q) \in Nat /\ Len(r) \in Nat /\ Len(w) \in Nat
  BY LenProperties
<1>2. /\ Len(q) + Len(r) = Len(w)
      /\ \A k \in 1..Len(q) : w[k] = q[k]
      /\ Len(q) \in 0..Len(w)
  <2>1. /\ Len(q \o r) = Len(q) + Len(r)
        /\ \A k \in 1..(Len(q) + Len(r)) :
             (q \o r)[k] = IF k <= Len(q) THEN q[k] ELSE r[k - Len(q)]
    BY ConcatProperties
  <2>2. QED
    BY <1>1, <2>1 DEF Joins
<1>3. /\ Front(w, Len(q)) \in Seq(S) /\ Len(Front(w, Len(q))) = Len(q)
      /\ \A k \in 1..Len(q) : Front(w, Len(q))[k] = w[k]
  <2>1. Len(q) \in 0..Len(w)
    BY <1>2
  <2>2. QED
    BY <2>1, Split
<1>4. q = Front(w, Len(q))
  BY <1>2, <1>3, SeqEqual
<1>5. QED
  BY <1>2, <1>4

(* Front is taken of a front. *)
LEMMA FrontOfFront ==
  ASSUME NEW S, NEW q \in Seq(S), NEW n \in 0..Len(q), NEW k \in 0..n
  PROVE  Front(Front(q, n), k) = Front(q, k)
<1>1. Len(q) \in Nat /\ n \in Nat /\ k \in 0..Len(q)
  BY LenProperties
<1>2. /\ Front(q, n) \in Seq(S) /\ Len(Front(q, n)) = n
      /\ \A j \in 1..n : Front(q, n)[j] = q[j]
  BY Split
<1>3. /\ Front(Front(q, n), k) \in Seq(S) /\ Len(Front(Front(q, n), k)) = k
      /\ \A j \in 1..k : Front(Front(q, n), k)[j] = Front(q, n)[j]
  BY <1>2, Split
<1>4. /\ Front(q, k) \in Seq(S) /\ Len(Front(q, k)) = k
      /\ \A j \in 1..k : Front(q, k)[j] = q[j]
  BY <1>1, Split
<1>5. \A j \in 1..k : Front(Front(q, n), k)[j] = Front(q, k)[j]
  BY <1>1, <1>2, <1>3, <1>4
<1>6. QED
  BY <1>3, <1>4, <1>5, SeqEqual

(* vector::resize() keeps what it does not cut. *)
LEMMA ResizeKeeps ==
  ASSUME NEW S, NEW b \in Seq(S), NEW pad \in S, NEW n \in Nat
  PROVE  /\ Resize(b, n, pad) \in Seq(S) /\ Len(Resize(b, n, pad)) = n
         /\ \A o \in 0..n : o <= Len(b) => Front(Resize(b, n, pad), o) = Front(b, o)
<1> DEFINE r == Resize(b, n, pad)
<1>1. Len(b) \in Nat /\ \A k \in 1..Len(b) : b[k] \in S
  BY LenProperties, ElementOfSeq
<1>2. r \in [1..n -> S] /\ \A k \in 1..n : r[k] = IF k <= Len(b) THEN b[k] ELSE pad
  BY <1>1 DEF Resize
<1>3. r \in Seq(S) /\ Len(r) = n
  BY <1>2
<1> HIDE DEF r
<1>4. ASSUME NEW o \in 0..n, o <= Len(b) PROVE Front(r, o) = Front(b, o)
  <2>1. /\ Front(r, o) \in Seq(S) /\ Len(Front(r, o)) = o
        /\ \A k \in 1..o : Front(r, o)[k] = r[k]
    BY <1>3, Split
  <2>2. /\ Front(b, o) \in Seq(S) /\ Len(Front(b, o)) = o
        /\ \A k \in 1..o : Front(b, o)[k] = b[k]
    BY <1>1, <1>4, Split
  <2>3. \A k \in 1..o : Front(r, o)[k] = Front(b, o)[k]
    BY <1>1, <1>2, <1>4, <2>1, <2>2
  <2>4. QED
    BY <2>1, <2>2, <2>3, SeqEqual
<1>5. QED
  BY <1>3, <1>4 DEF r

(* A read appends to what has been read. *)
LEMMA StoreAppends ==
  ASSUME NEW S, NEW b \in Seq(S), NEW o \in 0..Len(b), NEW bytes \in Seq(S),
         o + Len(bytes) <= Len(b)
  PROVE  /\ Store(b, o, bytes) \in Seq(S) /\ Len(Store(b, o, bytes)) = Len(b)
         /\ Front(Store(b, o, bytes), o + Len(bytes)) = Front(b, o) \o bytes
<1> DEFINE r == Store(b, o, bytes)
<1>1. /\ Len(b) \in Nat /\ Len(bytes) \in Nat /\ o \in Nat /\ DOMAIN b = 1..Len(b)
      /\ \A k \in 1..Len(b) : b[k] \in S
      /\ \A k \in 1..Len(bytes) : bytes[k] \in S
      /\ o + Len(bytes) \in 0..Len(b)
  BY LenProperties, ElementOfSeq
<1>2. /\ r = [k \in 1..Len(b) |->
                IF k > o /\ k <= o + Len(bytes) THEN bytes[k - o] ELSE b[k]]
  BY <1>1 DEF Store
<1>3. /\ r \in [1..Len(b) -> S]
      /\ \A k \in 1..Len(b) :
           r[k] = IF k > o /\ k <= o + Len(bytes) THEN bytes[k - o] ELSE b[k]
  <2>1. ASSUME NEW k \in 1..Len(b), k > o, k <= o + Len(bytes) PROVE bytes[k - o] \in S
    <3>1. k - o \in 1..Len(bytes)
      BY <1>1, <2>1
    <3>2. QED
      BY <1>1, <3>1
  <2>2. QED
    BY <1>1, <1>2, <2>1
<1> HIDE DEF r
<1>4. r \in Seq(S) /\ Len(r) = Len(b)
  BY <1>1, <1>3
<1>5. /\ Front(r, o + Len(bytes)) \in Seq(S) /\ Len(Front(r, o + Len(bytes))) = o + Len(bytes)
      /\ \A k \in 1..(o + Len(bytes)) : Front(r, o + Len(bytes))[k] = r[k]
  BY <1>1, <1>4, Split
<1>6. /\ Front(b, o) \in Seq(S) /\ Len(Front(b, o)) = o
      /\ \A k \in 1..o : Front(b, o)[k] = b[k]
  BY <1>1, Split
<1>7. \A k \in 1..o : Front(r, o + Len(bytes))[k] = Front(b, o)[k]
  BY <1>1, <1>3, <1>5, <1>6
<1>8. \A k \in 1..Len(bytes) : Front(r, o + Len(bytes))[o + k] = bytes[k]
  <2>1. ASSUME NEW k \in 1..Len(bytes) PROVE Front(r, o + Len(bytes))[o + k] = bytes[k]
    <3>1. /\ o + k \in 1..Len(b) /\ o + k \in 1..(o + Len(bytes))
          /\ o + k > o /\ o + k <= o + Len(bytes) /\ (o + k) - o = k
      BY <1>1
    <3>2. QED
      BY <1>3, <1>5, <3>1
  <2>2. QED
    BY <2>1
<1>9. Front(r, o + Len(bytes)) = Front(b, o) \o bytes
  <2> DEFINE f == Front(b, o)
             w == Front(r, o + Len(bytes))
  <2>1. /\ f \in Seq(S) /\ Len(f) = o /\ w \in Seq(S) /\ Len(w) = o + Len(bytes)
        /\ HasAt(w, 0, f) /\ HasAt(w, o, bytes)
    BY <1>5, <1>6, <1>7, <1>8 DEF HasAt
  <2> HIDE DEF f, w
  <2>2. f \o bytes = w
    BY <2>1, Joined
  <2>3. QED
    BY <2>2 DEF f, w
<1>10. QED
  BY <1>4, <1>9 DEF r

------------------------------------------------------------------------------
(* The variables of Duplex. *)
Ops == {"connect", "new", "read", "timer", "write", "over"}

(* The types of the variables of Duplex; an offset is a place in its buffer. *)
DuplexTypes ==
  /\ program \in [Side -> {"up", "returned", "down"}]
  /\ accepting \in BOOLEAN
  /\ op \in [Side -> [Conn -> Ops]]
  /\ buffer \in [Side -> [Conn -> Seq(Nat)]]
  /\ offset \in [Side -> [Conn -> Nat]]
  /\ link \in [Conn -> {"none", "up", "reset"}]
  /\ wire \in [Side -> [Conn -> Seq(Nat)]]
  /\ faults \in Nat
  /\ \A e \in Side, c \in Conn : offset[e][c] <= Len(buffer[e][c])

AllOver == \A c \in Conn : op["client"][c] = "over"
SomeReset == \E c \in Conn : link[c] = "reset"

(* A client that has left run() has no connection left, and neither a reset nor *)
(* the end of the server comes without a fault while a client is still at work.  *)
Weather ==
  /\ program["client"] # "up" => AllOver
  /\ faults = 0 /\ (program["server"] # "up" \/ SomeReset) => AllOver

(* Where the bytes of a connection are while its client reads. *)
Reading(c) ==
  LET sv == op["server"][c] IN
  \/ /\ sv \in {"new", "read"}
     /\ offset["client"][c] = 0 /\ wire["client"][c] = <<>>
     /\ Received("server", c) \o wire["server"][c] = Message
  \/ /\ sv = "timer"
     /\ offset["client"][c] = 0 /\ wire["client"][c] = <<>> /\ wire["server"][c] = <<>>
     /\ Received("server", c) = Message
  \/ /\ sv = "write"
     /\ buffer["server"][c] = Message /\ wire["server"][c] = <<>>
     /\ offset["server"][c] < Len(Message)
     /\ Received("client", c) \o wire["client"][c] = Front(Message, offset["server"][c])
  \/ /\ sv = "read"
     /\ offset["server"][c] = 0 /\ wire["server"][c] = <<>>
     /\ Received("client", c) \o wire["client"][c] = Message
  \/ /\ sv = "over"
     /\ \E n \in 0..Len(Message) :
          Received("client", c) \o wire["client"][c] = Front(Message, n)

(* How far a connection is. *)
Talk(c) ==
  LET cl == op["client"][c]  sv == op["server"][c] IN
  /\ cl \in {"connect", "write", "read", "over"}
  /\ sv \in {"new", "read", "timer", "write", "over"}
  /\ sv = "new" => buffer["server"][c] = <<>> /\ offset["server"][c] = 0
  /\ cl = "connect" =>
       /\ link[c] = "none" /\ buffer["client"][c] = <<>> /\ offset["client"][c] = 0
       /\ wire["client"][c] = <<>> /\ wire["server"][c] = <<>>
       /\ sv = "new" \/ (sv = "over" /\ program["server"] # "up")
  /\ cl = "write" =>
       /\ buffer["client"][c] = Message /\ offset["client"][c] < Len(Message)
       /\ wire["client"][c] = <<>> /\ sv \in {"new", "read", "over"}
       /\ sv # "over" => Received("server", c) \o wire["server"][c]
                           = Front(Message, offset["client"][c])
  /\ cl = "read" => offset["client"][c] < Len(Message) /\ Reading(c)
  /\ cl = "over" /\ sv = "new" => Received("client", c) # Message

(* What a step leaves of side e of c, and of the connection c. *)
KeptAt(e, c) ==
  op'[e][c] = op[e][c] /\ buffer'[e][c] = buffer[e][c] /\ offset'[e][c] = offset[e][c]
KeptLine(c) == link'[c] = link[c] /\ \A e \in Side : wire'[e][c] = wire[e][c]
Untouched(c) == KeptLine(c) /\ \A e \in Side : KeptAt(e, c)
Others(c) == \A d \in Conn \ {c} : Untouched(d)

(* What Starts leaves: side e of c has b and o, nothing else has changed. *)
Moved(e, c, next, b, o) ==
  /\ op'[e][c] = next /\ buffer'[e][c] = b /\ offset'[e][c] = o
  /\ KeptAt(Peer(e), c)
  /\ \A d \in Conn \ {c}, f \in Side : KeptAt(f, d)

(* The types of what Starts changes. *)
PlaceTypes ==
  /\ op \in [Side -> [Conn -> Ops]]
  /\ buffer \in [Side -> [Conn -> Seq(Nat)]]
  /\ offset \in [Side -> [Conn -> Nat]]
  /\ \A e \in Side, c \in Conn : offset[e][c] <= Len(buffer[e][c])

LEMMA Sides ==
  /\ \A e \in Side : Peer(e) \in Side /\ Peer(e) # e /\ Peer(Peer(e)) = e
  /\ Peer("client") = "server" /\ Peer("server") = "client"
  /\ "client" \in Side /\ "server" \in Side
  /\ \A e, f \in Side : f = e \/ f = Peer(e)
BY DEF Side, Peer

(* A function of sides and connections changed in one place. *)
Places(S) == [Side -> [Conn -> S]]
Put(h, g, e, c, v) == h = [g EXCEPT ![e][c] = v]

LEMMA OnePlace ==
  ASSUME NEW S, NEW g \in Places(S), NEW e \in Side, NEW c \in Conn, NEW v \in S,
         NEW h, Put(h, g, e, c, v)
  PROVE  /\ h \in Places(S)
         /\ h[e][c] = v /\ h[Peer(e)][c] = g[Peer(e)][c]
         /\ \A d \in Conn \ {c}, f \in Side : h[f][d] = g[f][d]
<1>1. h = [g EXCEPT ![e] = [g[e] EXCEPT ![c] = v]]
  BY DEF Put, Places
<1>2. /\ h[e] = [g[e] EXCEPT ![c] = v] /\ h[e] \in [Conn -> S]
      /\ \A f \in Side \ {e} : h[f] = g[f]
      /\ h \in [Side -> [Conn -> S]]
  BY <1>1 DEF Places
<1>3. h[e][c] = v /\ \A d \in Conn \ {c} : h[e][d] = g[e][d]
  BY <1>2
<1>4. QED
  BY <1>2, <1>3, Sides DEF Places

(* The changes of one side of one connection. *)
LEMMA StartsOne ==
  ASSUME DuplexTypes, NEW e \in Side, NEW c \in Conn, NEW next \in Ops,
         NEW b \in Seq(Nat), NEW o \in Nat, o <= Len(b), Starts(e, c, next, b, o)
  PROVE  PlaceTypes' /\ Moved(e, c, next, b, o)
<1>1. /\ op' \in [Side -> [Conn -> Ops]]
      /\ op'[e][c] = next /\ op'[Peer(e)][c] = op[Peer(e)][c]
      /\ \A d \in Conn \ {c}, f \in Side : op'[f][d] = op[f][d]
  <2>1. op \in Places(Ops) /\ Put(op', op, e, c, next)
    BY DEF Starts, DuplexTypes, Put, Places
  <2>2. /\ op' \in Places(Ops)
        /\ op'[e][c] = next /\ op'[Peer(e)][c] = op[Peer(e)][c]
        /\ \A d \in Conn \ {c}, f \in Side : op'[f][d] = op[f][d]
    BY <2>1, OnePlace
  <2>3. QED
    BY <2>2 DEF Places
<1>2. /\ buffer' \in [Side -> [Conn -> Seq(Nat)]]
      /\ buffer'[e][c] = b /\ buffer'[Peer(e)][c] = buffer[Peer(e)][c]
      /\ \A d \in Conn \ {c}, f \in Side : buffer'[f][d] = buffer[f][d]
  <2>1. buffer \in Places(Seq(Nat)) /\ Put(buffer', buffer, e, c, b)
    BY DEF Starts, DuplexTypes, Put, Places
  <2>2. /\ buffer' \in Places(Seq(Nat))
        /\ buffer'[e][c] = b /\ buffer'[Peer(e)][c] = buffer[Peer(e)][c]
        /\ \A d \in Conn \ {c}, f \in Side : buffer'[f][d] = buffer[f][d]
    BY <2>1, OnePlace
  <2>3. QED
    BY <2>2 DEF Places
<1>3. /\ offset' \in [Side -> [Conn -> Nat]]
      /\ offset'[e][c] = o /\ offset'[Peer(e)][c] = offset[Peer(e)][c]
      /\ \A d \in Conn \ {c}, f \in Side : offset'[f][d] = offset[f][d]
  <2> DEFINE S == Nat
  <2>1. offset \in Places(S) /\ o \in S /\ Put(offset', offset, e, c, o)
    BY DEF Starts, DuplexTypes, Put, Places
  <2> HIDE DEF S
  <2>2. /\ offset' \in Places(S)
        /\ offset'[e][c] = o /\ offset'[Peer(e)][c] = offset[Peer(e)][c]
        /\ \A d \in Conn \ {c}, f \in Side : offset'[f][d] = offset[f][d]
    BY <2>1, OnePlace
  <2>3. QED
    BY <2>2 DEF Places, S
<1>4. \A f \in Side, d \in Conn : offset[f][d] <= Len(buffer[f][d])
  BY DEF DuplexTypes
<1>5. ASSUME NEW f \in Side, NEW d \in Conn PROVE offset'[f][d] <= Len(buffer'[f][d])
  <2>1. CASE d # c
    <3>1. offset'[f][d] = offset[f][d] /\ buffer'[f][d] = buffer[f][d]
      BY <1>2, <1>3, <2>1
    <3>2. QED
      BY <1>4, <3>1
  <2>2. CASE d = c /\ f = e
    BY <1>2, <1>3, <2>2
  <2>3. CASE d = c /\ f = Peer(e)
    <3>1. offset'[f][d] = offset[f][d] /\ buffer'[f][d] = buffer[f][d]
      BY <1>2, <1>3, <2>3
    <3>2. QED
      BY <1>4, <3>1
  <2>4. QED
    BY <2>1, <2>2, <2>3, Sides
<1>6. PlaceTypes'
  BY <1>1, <1>2, <1>3, <1>5 DEF PlaceTypes
<1>7. Moved(e, c, next, b, o)
  BY <1>1, <1>2, <1>3 DEF Moved, KeptAt
<1>8. QED
  BY <1>6, <1>7

(* A write moves the first k bytes of what is left of it onto the wire. *)
Wrote(e, c, k) ==
  /\ op[e][c] = "write" /\ link[c] = "up"
  /\ k \in Nat \ {0} /\ offset[e][c] + k <= Len(buffer[e][c])
  /\ wire' \in [Side -> [Conn -> Seq(Nat)]]
  /\ wire'[Peer(e)][c] = wire[Peer(e)][c] \o Front(From(buffer[e][c], offset[e][c]), k)
  /\ wire'[e][c] = wire[e][c]
  /\ \A d \in Conn \ {c}, f \in Side : wire'[f][d] = wire[f][d]
  /\ UNCHANGED <<program, accepting, link, faults>>

LEMMA WrittenOne ==
  ASSUME DuplexTypes, NEW e \in Side, NEW c \in Conn, NEW k, Written(e, c, k)
  PROVE  Wrote(e, c, k)
<1> DEFINE b == buffer[e][c]
           o == offset[e][c]
           w == wire[Peer(e)][c]
<1>1. /\ op[e][c] = "write" /\ link[c] = "up" /\ k \in Amounts(From(b, o), Len(From(b, o)))
      /\ wire' = [wire EXCEPT ![Peer(e)][c] = w \o Front(From(b, o), k)]
      /\ UNCHANGED <<program, accepting, link, faults>>
  BY DEF Written
<1>2. b \in Seq(Nat) /\ o \in Nat /\ o <= Len(b) /\ w \in Seq(Nat) /\ Peer(e) \in Side
  BY Sides DEF DuplexTypes
<1> HIDE DEF b, o, w
<1>3. Len(b) \in Nat /\ o \in 0..Len(b)
  BY <1>2, LenProperties
<1>4. From(b, o) \in Seq(Nat) /\ Len(From(b, o)) = Len(b) - o
  BY <1>2, <1>3, Split
<1>5. k \in Nat \ {0} /\ o + k <= Len(b) /\ k \in 0..Len(From(b, o))
  BY <1>1, <1>3, <1>4 DEF Amounts
<1>6. Front(From(b, o), k) \in Seq(Nat)
  BY <1>4, <1>5, Split
<1>7. w \o Front(From(b, o), k) \in Seq(Nat)
  BY <1>2, <1>6, ConcatProperties
<1>8. /\ wire' \in [Side -> [Conn -> Seq(Nat)]]
      /\ wire'[Peer(e)][c] = w \o Front(From(b, o), k)
      /\ wire'[Peer(Peer(e))][c] = wire[Peer(Peer(e))][c]
      /\ \A d \in Conn \ {c}, f \in Side : wire'[f][d] = wire[f][d]
  <2> DEFINE v == w \o Front(From(b, o), k)
             p == Peer(e)
  <2>1. wire \in Places(Seq(Nat)) /\ Put(wire', wire, p, c, v) /\ p \in Side /\ v \in Seq(Nat)
    BY <1>1, <1>2, <1>7 DEF DuplexTypes, Put, Places
  <2> HIDE DEF v, p
  <2>2. /\ wire' \in Places(Seq(Nat))
        /\ wire'[p][c] = v /\ wire'[Peer(p)][c] = wire[Peer(p)][c]
        /\ \A d \in Conn \ {c}, f \in Side : wire'[f][d] = wire[f][d]
    BY <2>1, OnePlace
  <2>3. QED
    BY <2>2 DEF Places, v, p
<1>9. Peer(Peer(e)) = e
  BY Sides
<1>10. QED
  BY <1>1, <1>5, <1>8, <1>9 DEF b, o, w, Wrote

(* A read moves the first k bytes of the wire behind what has been read. *)
HasRead(e, c, k) ==
  /\ op[e][c] = "read" /\ link[c] = "up" /\ wire[e][c] # <<>>
  /\ k \in Nat \ {0} /\ k <= Len(wire[e][c]) /\ offset[e][c] + k <= Len(buffer[e][c])
  /\ Filled(e, c, k) \in Seq(Nat) /\ Len(Filled(e, c, k)) = Len(buffer[e][c])
  /\ Front(Filled(e, c, k), offset[e][c] + k) = Received(e, c) \o Front(wire[e][c], k)
  /\ Front(Filled(e, c, k), offset[e][c] + k) \o wire'[e][c] = Received(e, c) \o wire[e][c]
  /\ wire' \in [Side -> [Conn -> Seq(Nat)]]
  /\ wire'[e][c] = From(wire[e][c], k) /\ wire'[Peer(e)][c] = wire[Peer(e)][c]
  /\ \A d \in Conn \ {c}, f \in Side : wire'[f][d] = wire[f][d]
  /\ UNCHANGED <<program, accepting, link, faults>>

LEMMA ReadOne ==
  ASSUME DuplexTypes, NEW e \in Side, NEW c \in Conn, NEW k, Read(e, c, k)
  PROVE  HasRead(e, c, k)
<1> DEFINE b == buffer[e][c]
           o == offset[e][c]
           w == wire[e][c]
<1>1. /\ op[e][c] = "read" /\ link[c] = "up" /\ k \in Amounts(w, Len(b) - o)
      /\ wire' = [wire EXCEPT ![e][c] = From(w, k)]
      /\ Filled(e, c, k) = Store(b, o, Front(w, k)) /\ Received(e, c) = Front(b, o)
      /\ UNCHANGED <<program, accepting, link, faults>>
  BY DEF Read, Filled, Received
<1>2. b \in Seq(Nat) /\ o \in Nat /\ o <= Len(b) /\ w \in Seq(Nat)
  BY DEF DuplexTypes
<1> HIDE DEF b, o, w
<1>3. Len(b) \in Nat /\ Len(w) \in Nat /\ o \in 0..Len(b)
  BY <1>2, LenProperties
<1>4. k \in Nat \ {0} /\ k \in 0..Len(w) /\ o + k <= Len(b)
  BY <1>1, <1>3 DEF Amounts
<1>5. w # <<>>
  <2>1. Len(w) # 0
    BY <1>3, <1>4
  <2>2. QED
    BY <1>2, <2>1, EmptySeq
<1>6. /\ Front(w, k) \in Seq(Nat) /\ Len(Front(w, k)) = k /\ From(w, k) \in Seq(Nat)
      /\ Front(w, k) \o From(w, k) = w
  BY <1>2, <1>4, Split
<1> DEFINE t == Front(w, k)
<1>7. t \in Seq(Nat) /\ Len(t) = k /\ o + Len(t) <= Len(b)
  BY <1>4, <1>6
<1> HIDE DEF t
<1>8. /\ Store(b, o, t) \in Seq(Nat) /\ Len(Store(b, o, t)) = Len(b)
      /\ Front(Store(b, o, t), o + k) = Front(b, o) \o t
  <2>1. /\ Store(b, o, t) \in Seq(Nat) /\ Len(Store(b, o, t)) = Len(b)
        /\ Front(Store(b, o, t), o + Len(t)) = Front(b, o) \o t
    BY <1>2, <1>3, <1>7, StoreAppends
  <2>2. QED
    BY <1>7, <2>1
<1>9. /\ wire' \in [Side -> [Conn -> Seq(Nat)]]
      /\ wire'[e][c] = From(w, k) /\ wire'[Peer(e)][c] = wire[Peer(e)][c]
      /\ \A d \in Conn \ {c}, f \in Side : wire'[f][d] = wire[f][d]
  <2>1. wire \in Places(Seq(Nat)) /\ Put(wire', wire, e, c, From(w, k))
    BY <1>1 DEF DuplexTypes, Put, Places
  <2>2. /\ wire' \in Places(Seq(Nat))
        /\ wire'[e][c] = From(w, k) /\ wire'[Peer(e)][c] = wire[Peer(e)][c]
        /\ \A d \in Conn \ {c}, f \in Side : wire'[f][d] = wire[f][d]
    BY <1>6, <2>1, OnePlace
  <2>3. QED
    BY <2>2 DEF Places
<1>10. Front(b, o) \in Seq(Nat)
  BY <1>2, <1>3, Split
<1>11. (Front(b, o) \o t) \o From(w, k) = Front(b, o) \o (t \o From(w, k))
  BY <1>6, <1>7, <1>10, ConcatAssociative
<1>12. t \o From(w, k) = w
  BY <1>6 DEF t
<1>13. Front(Store(b, o, t), o + k) \o wire'[e][c] = Front(b, o) \o w
  BY <1>8, <1>9, <1>11, <1>12
<1>14. Filled(e, c, k) = Store(b, o, t)
  BY <1>1 DEF t
<1>15. Front(Filled(e, c, k), o + k) = Front(b, o) \o Front(w, k)
  BY <1>8, <1>14 DEF t
<1> DEFINE r == Filled(e, c, k)
<1>16. /\ r \in Seq(Nat) /\ Len(r) = Len(b)
       /\ Front(r, o + k) = Received(e, c) \o Front(w, k)
       /\ Front(r, o + k) \o wire'[e][c] = Received(e, c) \o w
       /\ k \in Nat \ {0} /\ k <= Len(w) /\ o + k <= Len(b)
  <2>1. r \in Seq(Nat) /\ Len(r) = Len(b)
    BY <1>8, <1>14
  <2>2. Received(e, c) = Front(b, o)
    BY <1>1
  <2>3. Front(r, o + k) = Received(e, c) \o Front(w, k)
    BY <1>15, <2>2
  <2>4. Front(r, o + k) \o wire'[e][c] = Received(e, c) \o w
    BY <1>13, <1>14, <2>2
  <2>5. k \in Nat \ {0} /\ k <= Len(w) /\ o + k <= Len(b)
    BY <1>3, <1>4
  <2>6. QED
    BY <2>1, <2>3, <2>4, <2>5
<1> HIDE DEF r
<1>17. /\ op[e][c] = "read" /\ link[c] = "up" /\ w # <<>>
       /\ UNCHANGED <<program, accepting, link, faults>>
  BY <1>1, <1>5
<1>18. QED
  BY <1>9, <1>16, <1>17 DEF b, o, w, r, HasRead

(* The sequences of a connection, and the message. *)
LEMMA ReceivedTyped ==
  ASSUME DuplexTypes, NEW e \in Side, NEW c \in Conn
  PROVE  /\ Received(e, c) \in Seq(Nat) /\ Len(Received(e, c)) = offset[e][c]
         /\ buffer[e][c] \in Seq(Nat) /\ wire[e][c] \in Seq(Nat)
         /\ Len(buffer[e][c]) \in Nat /\ Len(wire[e][c]) \in Nat
         /\ offset[e][c] \in 0..Len(buffer[e][c])
<1>1. buffer[e][c] \in Seq(Nat) /\ wire[e][c] \in Seq(Nat)
  BY DEF DuplexTypes
<1>2. Len(buffer[e][c]) \in Nat /\ Len(wire[e][c]) \in Nat
  BY <1>1, LenProperties
<1>3. offset[e][c] \in 0..Len(buffer[e][c])
  BY <1>2 DEF DuplexTypes
<1>4. QED
  BY <1>1, <1>2, <1>3, Split DEF Received

LEMMA MessageFacts ==
  /\ Message \in Seq(Nat) /\ Message # <<>> /\ Len(Message) \in Nat \ {0}
  /\ \A k \in 1..Len(Message) : Message[k] = EndChar <=> k = Len(Message)
<1>1. Message \in Seq(Nat) /\ Message # <<>>
  BY EchoAssumption
<1>2. Len(Message) \in Nat /\ Len(Message) # 0
  BY <1>1, LenProperties, EmptySeq
<1>3. QED
  BY <1>1, <1>2, EchoAssumption

(* Nothing joined to a sequence, or a sequence to nothing. *)
LEMMA JoinedEmpty ==
  ASSUME NEW q \in Seq(Nat)
  PROVE  <<>> \o q = q /\ q \o <<>> = q /\ Len(<<>>) = 0 /\ <<>> \in Seq(Nat)
BY ConcatEmptySeq, EmptySeq

(* Three parts may be joined in either order. *)
LEMMA Associative ==
  ASSUME NEW q \in Seq(Nat), NEW r \in Seq(Nat), NEW w \in Seq(Nat)
  PROVE  (q \o r) \o w = q \o (r \o w)
<1> DEFINE S == Nat
<1>1. q \in Seq(S) /\ r \in Seq(S) /\ w \in Seq(S)
  OBVIOUS
<1> HIDE DEF S
<1>2. QED
  BY <1>1, ConcatAssociative

(* What two steps have in common that leave a program's state alone. *)
LEMMA WeatherKept ==
  ASSUME Weather, faults \in Nat, faults' \in Nat, faults <= faults',
         AllOver => AllOver', program' = program, SomeReset' => SomeReset
  PROVE  Weather'
BY DEF Weather

LEMMA Elsewhere ==
  ASSUME NEW e \in Side, NEW c \in Conn, NEW next, NEW b, NEW o, Moved(e, c, next, b, o),
         \A d \in Conn \ {c} : KeptLine(d)
  PROVE  Others(c)
BY DEF Moved, Others, Untouched

(* A client that is at work does not make one of those that are over. *)
LEMMA OverStays ==
  ASSUME NEW e \in Side, NEW c \in Conn, NEW next, NEW b, NEW o, Moved(e, c, next, b, o),
         e = "server" \/ op["client"][c] # "over"
  PROVE  AllOver => AllOver'
<1>1. CASE e = "client"
  BY <1>1 DEF AllOver
<1>2. CASE e = "server"
  <2>1. \A d \in Conn : op'["client"][d] = op["client"][d]
    BY <1>2, Sides DEF Moved, KeptAt
  <2>2. QED
    BY <2>1 DEF AllOver
<1>3. QED
  BY <1>1, <1>2 DEF Side

(* The types after a step that begins an operation. *)
LEMMA TypesAfter ==
  ASSUME PlaceTypes', program' \in [Side -> {"up", "returned", "down"}], accepting' \in BOOLEAN,
         link' \in [Conn -> {"none", "up", "reset"}], wire' \in [Side -> [Conn -> Seq(Nat)]],
         faults' \in Nat
  PROVE  DuplexTypes'
BY DEF PlaceTypes, DuplexTypes

------------------------------------------------------------------------------
(* The phase that the refinement gives a connection. *)
Phase(c) ==
  IF Got(c) THEN "answered"
  ELSE IF \/ op["client"][c] = "over" \/ link[c] = "reset"
          \/ op["server"][c] = "over" /\ ~Replied(c)
       THEN "failed"
  ELSE IF op["server"][c] \in {"timer", "write"} \/ Replied(c) THEN "asked"
  ELSE "new"

Same(c) == Phase(c)' = Phase(c)
Asks(c) == Phase(c) = "new" /\ Phase(c)' = "asked"
Answers(c) == Phase(c) = "asked" /\ Phase(c)' = "answered"
Fails(c) == Phase(c) # "answered" /\ Phase(c)' = "failed" /\ faults' > 0

(* A step of one connection. *)
Handled(c) == DuplexTypes' /\ Weather' /\ Talk(c)' /\ Others(c) /\ UNCHANGED program

(* A connection nothing happens to. *)
LEMMA Undisturbed ==
  ASSUME NEW c \in Conn, Untouched(c), Talk(c),
         program["server"] # "up" => program'["server"] # "up"
  PROVE  Talk(c)' /\ Same(c)
<1>1. /\ op'["client"][c] = op["client"][c] /\ op'["server"][c] = op["server"][c]
      /\ buffer'["client"][c] = buffer["client"][c] /\ buffer'["server"][c] = buffer["server"][c]
      /\ offset'["client"][c] = offset["client"][c] /\ offset'["server"][c] = offset["server"][c]
      /\ wire'["client"][c] = wire["client"][c] /\ wire'["server"][c] = wire["server"][c]
      /\ link'[c] = link[c]
  BY Sides DEF Untouched, KeptLine, KeptAt
<1>2. Received("client", c)' = Received("client", c) /\ Received("server", c)' = Received("server", c)
  BY <1>1 DEF Received
<1>3. Reading(c)' <=> Reading(c)
  BY <1>1, <1>2 DEF Reading
<1>4. Talk(c)'
  BY <1>1, <1>2, <1>3 DEF Talk
<1>5. (Got(c)' <=> Got(c)) /\ (Replied(c)' <=> Replied(c))
  BY <1>1, <1>2 DEF Got, Replied
<1>6. QED
  BY <1>1, <1>4, <1>5 DEF Same, Phase

(* Until its connection is over a client has not read the whole reply. *)
LEMMA NotYet ==
  ASSUME DuplexTypes, NEW c \in Conn, Talk(c), op["client"][c] # "over"
  PROVE  /\ offset["client"][c] < Len(Message) /\ Received("client", c) # Message
         /\ Received("client", c) \o <<>> # Message
<1>1. offset["client"][c] < Len(Message)
  BY MessageFacts DEF Talk
<1>2. Received("client", c) \in Seq(Nat) /\ Len(Received("client", c)) = offset["client"][c]
  BY ReceivedTyped, Sides
<1>3. Received("client", c) # Message
  BY <1>1, <1>2, MessageFacts
<1>4. QED
  BY <1>1, <1>2, <1>3, JoinedEmpty

(* on_connect. *)
LEMMA Connects ==
  ASSUME DuplexTypes, Weather, NEW c \in Conn, Talk(c), Connect(c)
  PROVE  Handled(c) /\ Same(c) /\ UNCHANGED <<faults, g_count>>
<1>1. /\ op["client"][c] = "connect" /\ program["server"] = "up"
      /\ link' = [link EXCEPT ![c] = "up"] /\ Starts("client", c, "write", Message, 0)
      /\ UNCHANGED <<program, accepting, wire, faults, g_count>>
  BY DEF Connect, Connected, counters
<1>2. PlaceTypes' /\ Moved("client", c, "write", Message, 0)
  <2>1. "write" \in Ops /\ 0 <= Len(Message) /\ Message \in Seq(Nat) /\ 0 \in Nat
    BY MessageFacts DEF Ops
  <2>2. QED
    BY <1>1, <2>1, StartsOne, Sides
<1>3. /\ link' \in [Conn -> {"none", "up", "reset"}] /\ link'[c] = "up"
      /\ \A d \in Conn \ {c} : link'[d] = link[d]
  BY <1>1 DEF DuplexTypes
<1>4. /\ op'["client"][c] = "write" /\ buffer'["client"][c] = Message
      /\ offset'["client"][c] = 0 /\ op'["server"][c] = op["server"][c]
      /\ buffer'["server"][c] = buffer["server"][c] /\ offset'["server"][c] = offset["server"][c]
  BY <1>2, Sides DEF Moved, KeptAt
<1>5. DuplexTypes'
  BY <1>1, <1>2, <1>3, TypesAfter DEF DuplexTypes
<1>6. Weather'
  <2>1. AllOver => AllOver'
    BY <1>1 DEF AllOver
  <2>2. SomeReset' => SomeReset
    BY <1>3 DEF SomeReset
  <2>3. faults \in Nat /\ faults' \in Nat /\ faults <= faults'
    BY <1>1 DEF DuplexTypes
  <2>4. QED
    BY <1>1, <2>1, <2>2, <2>3, WeatherKept
<1>7. Others(c)
  <2>1. \A d \in Conn \ {c} : KeptLine(d)
    BY <1>1, <1>3 DEF KeptLine
  <2>2. QED
    BY <1>2, <2>1, Elsewhere, Sides
<1>8. /\ wire["client"][c] = <<>> /\ wire["server"][c] = <<>> /\ op["server"][c] = "new"
      /\ buffer["server"][c] = <<>> /\ offset["server"][c] = 0
  BY <1>1 DEF Talk
<1>9. Talk(c)'
  <2>1. Received("server", c)' = <<>>
    <3>1. <<>> \in Seq(Nat)
      BY JoinedEmpty
    <3>2. QED
      BY <1>4, <1>8, <3>1, SplitEnds DEF Received
  <2>2. Received("server", c)' \o wire'["server"][c] = Front(Message, 0)
    BY <1>1, <1>8, <2>1, JoinedEmpty, SplitEnds, MessageFacts
  <2>3. QED
    BY <1>1, <1>4, <1>8, <2>2, MessageFacts DEF Talk
<1>10. Same(c)
  <2>1. ~Got(c) /\ ~Replied(c) /\ ~Got(c)' /\ ~Replied(c)'
    BY <1>1, <1>4 DEF Got, Replied
  <2>2. link[c] = "none"
    BY <1>1 DEF Talk
  <2>3. QED
    BY <1>1, <1>3, <1>4, <1>8, <2>1, <2>2 DEF Same, Phase
<1>11. QED
  BY <1>1, <1>5, <1>6, <1>7, <1>9, <1>10 DEF Handled

(* A step that moves one side, and the wire of its connection, keeps the rest. *)
LEMMA OneSide ==
  ASSUME DuplexTypes, Weather, NEW e \in Side, NEW c \in Conn, NEW next, NEW b, NEW o,
         PlaceTypes', Moved(e, c, next, b, o), e = "server" \/ op["client"][c] # "over",
         wire' \in [Side -> [Conn -> Seq(Nat)]], accepting' \in BOOLEAN,
         \A d \in Conn \ {c}, f \in Side : wire'[f][d] = wire[f][d],
         UNCHANGED <<program, link>>, faults' \in Nat, faults <= faults'
  PROVE  DuplexTypes' /\ Weather' /\ Others(c) /\ link'[c] = link[c]
<1>1. DuplexTypes'
  BY TypesAfter DEF DuplexTypes
<1>2. Weather'
  <2>1. AllOver => AllOver'
    BY OverStays
  <2>2. SomeReset' => SomeReset
    BY DEF SomeReset
  <2>3. faults \in Nat
    BY DEF DuplexTypes
  <2>4. QED
    BY <2>1, <2>2, <2>3, WeatherKept
<1>3. \A d \in Conn \ {c} : KeptLine(d)
  BY DEF KeptLine
<1>4. Others(c)
  BY <1>3, Elsewhere
<1>5. QED
  BY <1>1, <1>2, <1>4

(* The place a read starts from: nothing has been read. *)
LEMMA FreshRead ==
  ASSUME NEW b \in Seq(Nat), NEW pad \in Nat, NEW n \in Nat
  PROVE  /\ Resize(b, n, pad) \in Seq(Nat) /\ 0 <= Len(Resize(b, n, pad))
         /\ Front(Resize(b, n, pad), 0) = <<>>
<1> DEFINE r == Resize(b, n, pad)
<1>1. r \in Seq(Nat) /\ Len(r) = n
  BY ResizeKeeps
<1> HIDE DEF r
<1>2. Front(r, 0) = <<>>
  BY <1>1, SplitEnds
<1>3. QED
  BY <1>1, <1>2 DEF r

(* on_accept. *)
LEMMA Accepts ==
  ASSUME DuplexTypes, Weather, NEW c \in Conn, Talk(c), Accept(c)
  PROVE  Handled(c) /\ Same(c) /\ UNCHANGED <<faults, g_count>>
<1> DEFINE b == Resize(<<>>, Chunk, EmptyChar)
<1>1. /\ link[c] # "none" /\ op["server"][c] = "new" /\ accepting' = TRUE
      /\ Starts("server", c, "read", b, 0)
      /\ UNCHANGED <<program, link, wire, faults, g_count>>
  BY DEF Accept, Accepted, counters
<1>2. b \in Seq(Nat) /\ 0 <= Len(b) /\ Front(b, 0) = <<>>
  <2>1. <<>> \in Seq(Nat) /\ EmptyChar \in Nat /\ Chunk \in Nat
    BY JoinedEmpty, EchoAssumption
  <2>2. QED
    BY <2>1, FreshRead
<1> HIDE DEF b
<1>3. PlaceTypes' /\ Moved("server", c, "read", b, 0)
  BY <1>1, <1>2, StartsOne, Sides DEF Ops
<1>4. /\ op'["server"][c] = "read" /\ buffer'["server"][c] = b /\ offset'["server"][c] = 0
      /\ op'["client"][c] = op["client"][c] /\ buffer'["client"][c] = buffer["client"][c]
      /\ offset'["client"][c] = offset["client"][c]
  BY <1>3, Sides DEF Moved, KeptAt
<1>5. DuplexTypes' /\ Weather' /\ Others(c) /\ link'[c] = link[c]
  <2>1. /\ wire' \in [Side -> [Conn -> Seq(Nat)]] /\ accepting' \in BOOLEAN
        /\ \A d \in Conn \ {c}, f \in Side : wire'[f][d] = wire[f][d]
        /\ faults' \in Nat /\ faults <= faults'
    BY <1>1 DEF DuplexTypes
  <2>2. QED
    BY <1>1, <1>3, <2>1, OneSide, Sides
<1>6. /\ Received("client", c)' = Received("client", c)
      /\ Received("server", c)' = <<>> /\ Received("server", c) = <<>>
  <2>1. buffer["server"][c] = <<>> /\ offset["server"][c] = 0 /\ <<>> \in Seq(Nat)
    BY <1>1, JoinedEmpty DEF Talk
  <2>2. QED
    BY <1>2, <1>4, <2>1, SplitEnds DEF Received
<1>7. Talk(c)'
  <2>1. Reading(c) => Reading(c)'
    BY <1>1, <1>4, <1>6 DEF Reading
  <2>2. QED
    BY <1>1, <1>4, <1>6, <2>1 DEF Talk
<1>8. Same(c)
  <2>1. (Got(c)' <=> Got(c)) /\ (Replied(c)' <=> Replied(c))
    BY <1>1, <1>4, <1>6 DEF Got, Replied, Talk
  <2>2. QED
    BY <1>1, <1>4, <1>5, <2>1 DEF Same, Phase
<1>9. QED
  BY <1>1, <1>5, <1>7, <1>8 DEF Handled

(* The timer's handler. *)
LEMMA TimesOut ==
  ASSUME DuplexTypes, Weather, NEW c \in Conn, Talk(c), Timeout(c)
  PROVE  Handled(c) /\ Same(c) /\ UNCHANGED <<faults, g_count>>
<1> DEFINE b == Received("server", c)
<1>1. /\ op["server"][c] = "timer" /\ Starts("server", c, "write", b, 0)
      /\ UNCHANGED <<program, accepting, link, wire, faults, g_count>>
  BY DEF Timeout, counters
<1>2. b \in Seq(Nat) /\ 0 <= Len(b)
  BY ReceivedTyped, Sides, LenProperties
<1> HIDE DEF b
<1>3. PlaceTypes' /\ Moved("server", c, "write", b, 0)
  BY <1>1, <1>2, StartsOne, Sides DEF Ops
<1>4. /\ op'["server"][c] = "write" /\ buffer'["server"][c] = b /\ offset'["server"][c] = 0
      /\ op'["client"][c] = op["client"][c] /\ buffer'["client"][c] = buffer["client"][c]
      /\ offset'["client"][c] = offset["client"][c]
  BY <1>3, Sides DEF Moved, KeptAt
<1>5. DuplexTypes' /\ Weather' /\ Others(c) /\ link'[c] = link[c]
  <2>1. /\ wire' \in [Side -> [Conn -> Seq(Nat)]] /\ accepting' \in BOOLEAN
        /\ \A d \in Conn \ {c}, f \in Side : wire'[f][d] = wire[f][d]
        /\ faults' \in Nat /\ faults <= faults'
    BY <1>1 DEF DuplexTypes
  <2>2. QED
    BY <1>1, <1>3, <2>1, OneSide, Sides
<1>6. Received("client", c)' = Received("client", c)
  BY <1>4 DEF Received
<1>7. op["client"][c] \in {"read", "over"}
  BY <1>1 DEF Talk
<1>8. Talk(c)'
  <2>1. CASE op["client"][c] = "over"
    BY <1>1, <1>4, <2>1 DEF Talk
  <2>2. CASE op["client"][c] = "read"
    <3>1. /\ offset["client"][c] = 0 /\ wire["client"][c] = <<>> /\ wire["server"][c] = <<>>
          /\ b = Message
      BY <1>1, <2>2 DEF Talk, Reading, b
    <3>2. Received("client", c)' \o wire'["client"][c] = Front(Message, 0)
      <4>1. Received("client", c) = <<>>
        BY <3>1, ReceivedTyped, Sides, SplitEnds DEF Received
      <4>2. QED
        BY <1>1, <1>6, <3>1, <4>1, SplitEnds, MessageFacts, JoinedEmpty
    <3>3. Reading(c)'
      BY <1>1, <1>4, <3>1, <3>2, MessageFacts DEF Reading
    <3>4. QED
      BY <1>4, <2>2, <3>3, MessageFacts, <3>1 DEF Talk
  <2>3. QED
    BY <1>7, <2>1, <2>2
<1>9. Same(c)
  <2>1. (Got(c)' <=> Got(c)) /\ (Replied(c)' <=> Replied(c))
    BY <1>1, <1>4, <1>6 DEF Got, Replied
  <2>2. QED
    BY <1>1, <1>4, <1>5, <2>1 DEF Same, Phase
<1>10. QED
  BY <1>1, <1>5, <1>8, <1>9 DEF Handled

(* on_write of the client: what has arrived of the message grows. *)
LEMMA ClientWrites ==
  ASSUME DuplexTypes, Weather, NEW c \in Conn, Talk(c), WriteSome("client", c)
  PROVE  Handled(c) /\ Same(c) /\ UNCHANGED <<faults, g_count>>
<1>1. PICK k \in 1..Len(Message) :
        LET b == buffer["client"][c]  o == offset["client"][c] + k IN
        /\ Written("client", c, k)
        /\ IF o = Len(b) THEN Starts("client", c, "read", Resize(b, Chunk, EmptyChar), 0)
           ELSE Starts("client", c, "write", b, o)
        /\ UNCHANGED counters
  BY DEF WriteSome, AfterWrite
<1> DEFINE oc == offset["client"][c]
           o == oc + k
           r == Resize(Message, Chunk, EmptyChar)
           ws == wire["server"][c]
           rs == Received("server", c)
           t == Front(From(Message, oc), k)
<1>2. /\ op["client"][c] = "write" /\ link[c] = "up" /\ k \in Nat \ {0}
      /\ wire' \in [Side -> [Conn -> Seq(Nat)]]
      /\ wire'["server"][c] = ws \o Front(From(buffer["client"][c], oc), k)
      /\ wire'["client"][c] = wire["client"][c]
      /\ \A d \in Conn \ {c}, f \in Side : wire'[f][d] = wire[f][d]
      /\ UNCHANGED <<program, accepting, link, faults>>
      /\ oc + k <= Len(buffer["client"][c])
  <2>1. Written("client", c, k)
    BY <1>1
  <2>2. Wrote("client", c, k)
    BY <2>1, WrittenOne, Sides
  <2>3. Peer("client") = "server"
    BY Sides
  <2>4. QED
    BY <2>2, <2>3 DEF Wrote
<1>3. /\ buffer["client"][c] = Message /\ oc < Len(Message) /\ oc \in Nat
      /\ wire["client"][c] = <<>> /\ op["server"][c] \in {"new", "read", "over"}
      /\ op["server"][c] # "over" => rs \o ws = Front(Message, oc)
  <2>1. oc \in Nat
    BY ReceivedTyped, Sides
  <2>2. QED
    BY <1>2, <2>1 DEF Talk
<1>4. /\ o \in Nat /\ o \in 1..Len(Message) /\ oc \in 0..Len(Message)
      /\ k \in 0..(Len(Message) - oc)
  <2>1. Len(Message) \in Nat \ {0} /\ oc + k <= Len(Message)
    BY <1>2, <1>3, MessageFacts
  <2>2. QED
    BY <1>2, <1>3, <2>1
<1>5. rs \in Seq(Nat) /\ ws \in Seq(Nat) /\ t \in Seq(Nat)
  <2>1. rs \in Seq(Nat) /\ ws \in Seq(Nat)
    BY ReceivedTyped, Sides
  <2> HIDE DEF oc, o, rs, ws
  <2>2. Message \in Seq(Nat)
    BY MessageFacts
  <2>3. From(Message, oc) \in Seq(Nat) /\ Len(From(Message, oc)) = Len(Message) - oc
    BY <1>4, <2>2, Split
  <2>4. t \in Seq(Nat)
    BY <1>4, <2>3, Split
  <2>5. QED
    BY <2>1, <2>4
<1>6. r \in Seq(Nat) /\ 0 <= Len(r) /\ Front(r, 0) = <<>>
  BY FreshRead, MessageFacts, EchoAssumption
<1>7. wire'["server"][c] = ws \o t
  BY <1>2, <1>3
<1>8. Front(Message, oc) \o t = Front(Message, o)
  BY <1>4, FrontMore, MessageFacts
<1>9. IF o = Len(Message) THEN Starts("client", c, "read", r, 0)
      ELSE Starts("client", c, "write", Message, o)
  BY <1>1, <1>3
<1>10. UNCHANGED g_count
  BY <1>1 DEF counters
<1> HIDE DEF oc, o, r, ws, rs, t
<1>11. op["server"][c] # "over" => rs \o wire'["server"][c] = Front(Message, o)
  <2>1. ASSUME op["server"][c] # "over" PROVE rs \o (ws \o t) = Front(Message, o)
    <3>1. (rs \o ws) \o t = rs \o (ws \o t)
      BY <1>5, Associative
    <3>2. QED
      BY <1>3, <1>8, <2>1, <3>1
  <2>2. QED
    BY <1>7, <2>1
<1>12. CASE o = Len(Message)
  <2>1. PlaceTypes' /\ Moved("client", c, "read", r, 0)
    BY <1>6, <1>9, <1>12, StartsOne, Sides DEF Ops
  <2>2. /\ op'["client"][c] = "read" /\ buffer'["client"][c] = r /\ offset'["client"][c] = 0
        /\ op'["server"][c] = op["server"][c] /\ buffer'["server"][c] = buffer["server"][c]
        /\ offset'["server"][c] = offset["server"][c]
    BY <2>1, Sides DEF Moved, KeptAt
  <2>3. DuplexTypes' /\ Weather' /\ Others(c) /\ link'[c] = link[c]
    <3>1. accepting' \in BOOLEAN /\ faults' \in Nat /\ faults <= faults'
      BY <1>2 DEF DuplexTypes
    <3>2. QED
      BY <1>2, <2>1, <3>1, OneSide, Sides
  <2>4. Received("server", c)' = rs /\ Received("client", c)' = <<>>
    BY <1>6, <2>2 DEF Received, rs
  <2>5. Received("client", c)' \o wire'["client"][c] = <<>>
    BY <1>2, <1>3, <2>4, JoinedEmpty
  <2>6. Front(Message, Len(Message)) = Message /\ Front(Message, 0) = <<>>
    BY MessageFacts, SplitEnds
  <2>7. Reading(c)'
    <3>1. CASE op["server"][c] = "over"
      <4>1. 0 \in 0..Len(Message)
        BY MessageFacts
      <4>2. Received("client", c)' \o wire'["client"][c] = Front(Message, 0)
        BY <2>5, <2>6
      <4>3. QED
        BY <2>2, <3>1, <4>1, <4>2 DEF Reading
    <3>2. CASE op["server"][c] # "over"
      BY <1>2, <1>3, <1>11, <1>12, <2>2, <2>4, <2>6, <3>2 DEF Reading
    <3>3. QED
      BY <3>1, <3>2
  <2>8. Talk(c)'
    BY <1>3, <2>2, <2>7, MessageFacts DEF Talk
  <2>9. Same(c)
    <3>1. ~Got(c) /\ ~Replied(c) /\ ~Got(c)' /\ ~Replied(c)'
      BY <1>2, <2>2, <2>5, MessageFacts DEF Got, Replied
    <3>2. QED
      BY <1>2, <2>2, <2>3, <3>1 DEF Same, Phase
  <2>10. QED
    BY <1>2, <1>10, <2>3, <2>8, <2>9 DEF Handled
<1>13. CASE o # Len(Message)
  <2>1. PlaceTypes' /\ Moved("client", c, "write", Message, o)
    BY <1>4, <1>9, <1>13, StartsOne, Sides, MessageFacts DEF Ops
  <2>2. /\ op'["client"][c] = "write" /\ buffer'["client"][c] = Message
        /\ offset'["client"][c] = o
        /\ op'["server"][c] = op["server"][c] /\ buffer'["server"][c] = buffer["server"][c]
        /\ offset'["server"][c] = offset["server"][c]
    BY <2>1, Sides DEF Moved, KeptAt
  <2>3. DuplexTypes' /\ Weather' /\ Others(c) /\ link'[c] = link[c]
    <3>1. accepting' \in BOOLEAN /\ faults' \in Nat /\ faults <= faults'
      BY <1>2 DEF DuplexTypes
    <3>2. QED
      BY <1>2, <2>1, <3>1, OneSide, Sides
  <2>4. Received("server", c)' = rs
    BY <2>2 DEF Received, rs
  <2>5. Talk(c)'
    <3>1. o < Len(Message)
      BY <1>4, <1>13, MessageFacts
    <3>2. op["server"][c] = "new" =>
            buffer["server"][c] = <<>> /\ offset["server"][c] = 0
      BY DEF Talk
    <3>3. QED
      BY <1>2, <1>3, <1>11, <2>2, <2>4, <3>1, <3>2 DEF Talk
  <2>6. Same(c)
    <3>1. ~Got(c) /\ ~Replied(c) /\ ~Got(c)' /\ ~Replied(c)'
      BY <1>2, <2>2 DEF Got, Replied
    <3>2. QED
      BY <1>2, <2>2, <2>3, <3>1 DEF Same, Phase
  <2>7. QED
    BY <1>2, <1>10, <2>3, <2>5, <2>6 DEF Handled
<1>14. QED
  BY <1>12, <1>13

(* on_write of the server: what has arrived of the reply grows. *)
LEMMA ServerWrites ==
  ASSUME DuplexTypes, Weather, NEW c \in Conn, Talk(c), WriteSome("server", c)
  PROVE  Handled(c) /\ Same(c) /\ UNCHANGED <<faults, g_count>>
<1>1. PICK k \in 1..Len(Message) :
        LET b == buffer["server"][c]  o == offset["server"][c] + k IN
        /\ Written("server", c, k)
        /\ IF o = Len(b) THEN \/ Starts("server", c, "over", b, Len(b))
                              \/ Starts("server", c, "read", Resize(b, Chunk, EmptyChar), 0)
           ELSE Starts("server", c, "write", b, o)
        /\ UNCHANGED counters
  BY DEF WriteSome, AfterWrite
<1> DEFINE b == buffer["server"][c]
           os == offset["server"][c]
           o == os + k
           r == Resize(b, Chunk, EmptyChar)
           wc == wire["client"][c]
           rc == Received("client", c)
<1>2. /\ op["server"][c] = "write" /\ link[c] = "up" /\ k \in Nat \ {0}
      /\ wire' \in [Side -> [Conn -> Seq(Nat)]]
      /\ wire'["client"][c] = wc \o Front(From(b, os), k)
      /\ wire'["server"][c] = wire["server"][c]
      /\ \A d \in Conn \ {c}, f \in Side : wire'[f][d] = wire[f][d]
      /\ UNCHANGED <<program, accepting, link, faults>>
      /\ os + k <= Len(b)
  <2>1. Written("server", c, k)
    BY <1>1
  <2>2. Wrote("server", c, k)
    BY <2>1, WrittenOne, Sides
  <2>3. Peer("server") = "client"
    BY Sides
  <2>4. QED
    BY <2>2, <2>3 DEF Wrote
<1>3. /\ b \in Seq(Nat) /\ Len(b) \in Nat /\ os \in 0..Len(b) /\ o \in Nat /\ o <= Len(b)
      /\ k \in 0..(Len(b) - os) /\ rc \in Seq(Nat) /\ wc \in Seq(Nat)
  <2>1. /\ b \in Seq(Nat) /\ Len(b) \in Nat /\ os \in 0..Len(b)
        /\ rc \in Seq(Nat) /\ wc \in Seq(Nat)
    BY ReceivedTyped, Sides
  <2> HIDE DEF b, os, rc, wc
  <2>2. QED
    BY <1>2, <2>1
<1>4. r \in Seq(Nat) /\ 0 <= Len(r)
  BY <1>3, FreshRead, EchoAssumption
<1>5. /\ op["client"][c] \in {"read", "over"}
      /\ op["client"][c] = "read" =>
           /\ b = Message /\ wire["server"][c] = <<>> /\ os < Len(Message)
           /\ rc \o wc = Front(Message, os) /\ offset["client"][c] < Len(Message)
  BY <1>2 DEF Talk, Reading
<1>6. UNCHANGED g_count
  BY <1>1 DEF counters
<1>7. PICK next \in {"over", "read", "write"}, bb \in Seq(Nat), oo \in Nat :
        /\ Starts("server", c, next, bb, oo) /\ oo <= Len(bb)
        /\ o # Len(b) => next = "write" /\ bb = b /\ oo = o
        /\ o = Len(b) => next \in {"over", "read"} /\ (next = "read" => oo = 0)
  <2>1. CASE o = Len(b) /\ Starts("server", c, "over", b, Len(b))
    BY <1>3, <2>1
  <2>2. CASE o = Len(b) /\ Starts("server", c, "read", r, 0)
    BY <1>4, <2>2
  <2>3. CASE o # Len(b)
    <3>1. Starts("server", c, "write", b, o)
      BY <1>1, <2>3
    <3>2. QED
      BY <1>3, <2>3, <3>1
  <2>4. QED
    BY <1>1, <2>1, <2>2, <2>3
<1> DEFINE t == Front(From(b, os), k)
<1>8. t \in Seq(Nat)
  <2>1. From(b, os) \in Seq(Nat) /\ Len(From(b, os)) = Len(b) - os
    BY <1>3, Split
  <2>2. QED
    BY <1>3, <2>1, Split
<1>9. Front(b, os) \o t = Front(b, o)
  BY <1>3, FrontMore
<1>10. wire'["client"][c] = wc \o t
  BY <1>2
<1> HIDE DEF b, os, o, r, wc, t
<1>11. op["client"][c] = "read" => rc \o wire'["client"][c] = Front(Message, o)
  <2>1. (rc \o wc) \o t = rc \o (wc \o t)
    BY <1>3, <1>8, Associative
  <2>2. QED
    BY <1>5, <1>9, <1>10, <2>1
<1>12. PlaceTypes' /\ Moved("server", c, next, bb, oo)
  <2>1. next \in Ops
    BY DEF Ops
  <2>2. QED
    BY <1>7, <2>1, StartsOne, Sides
<1>13. /\ op'["server"][c] = next /\ buffer'["server"][c] = bb /\ offset'["server"][c] = oo
       /\ op'["client"][c] = op["client"][c] /\ buffer'["client"][c] = buffer["client"][c]
       /\ offset'["client"][c] = offset["client"][c]
  BY <1>12, Sides DEF Moved, KeptAt
<1>14. DuplexTypes' /\ Weather' /\ Others(c) /\ link'[c] = link[c]
  <2>1. accepting' \in BOOLEAN /\ faults' \in Nat /\ faults <= faults'
    BY <1>2 DEF DuplexTypes
  <2>2. QED
    BY <1>2, <1>12, <2>1, OneSide, Sides
<1>15. Received("client", c)' = rc
  BY <1>13 DEF Received, rc
<1> HIDE DEF rc
<1>16. CASE op["client"][c] = "over"
  <2>1. Talk(c)'
    BY <1>7, <1>13, <1>16 DEF Talk
  <2>2. Same(c)
    <3>1. (Got(c)' <=> Got(c)) /\ ~Replied(c) /\ ~Replied(c)'
      BY <1>2, <1>7, <1>13, <1>15, <1>16 DEF Got, Replied, rc
    <3>2. QED
      BY <1>13, <1>16, <3>1 DEF Same, Phase
  <2>3. QED
    BY <1>2, <1>6, <1>14, <2>1, <2>2 DEF Handled
<1>17. CASE op["client"][c] = "read"
  <2>1. rc \o wire'["client"][c] = Front(Message, o) /\ b = Message
    BY <1>5, <1>11, <1>17
  <2>2. o = Len(Message) => Front(Message, o) = Message
    BY MessageFacts, SplitEnds
  <2>3. o \in 0..Len(Message)
    BY <1>3, <2>1
  <2>4. Reading(c)'
    <3>1. CASE o # Len(Message)
      <4>1. next = "write" /\ bb = Message /\ oo = o /\ oo < Len(Message)
        BY <1>7, <2>1, <2>3, <3>1
      <4>2. wire'["server"][c] = <<>>
        BY <1>2, <1>5, <1>17
      <4>3. QED
        BY <1>13, <1>15, <2>1, <4>1, <4>2 DEF Reading
    <3>2. CASE o = Len(Message)
      BY <1>2, <1>5, <1>7, <1>13, <1>15, <1>17, <2>1, <2>2, <2>3, <3>2 DEF Reading
    <3>3. QED
      BY <3>1, <3>2
  <2>5. Talk(c)'
    BY <1>5, <1>7, <1>13, <1>17, <2>4 DEF Talk
  <2>6. Same(c)
    <3>1. ~Got(c) /\ ~Got(c)'
      BY <1>13, <1>17 DEF Got
    <3>2. o = Len(Message) => Replied(c)'
      BY <1>13, <1>15, <1>17, <2>1, <2>2 DEF Replied
    <3>3. Phase(c) = "asked"
      BY <1>2, <1>17, <3>1 DEF Phase
    <3>4. Phase(c)' = "asked"
      BY <1>2, <1>7, <1>13, <1>14, <1>17, <2>1, <3>1, <3>2 DEF Phase
    <3>5. QED
      BY <3>3, <3>4 DEF Same
  <2>7. QED
    BY <1>2, <1>6, <1>14, <2>5, <2>6 DEF Handled
<1>18. QED
  BY <1>5, <1>16, <1>17

(* What has been read in front of what is on the wire is the beginning of what *)
(* has been written.                                                            *)
LEMMA ReadByte ==
  ASSUME NEW f \in Seq(Nat), NEW w \in Seq(Nat), NEW m \in Seq(Nat), NEW n \in 0..Len(m),
         NEW o \in 1..Len(f), Joins(Front(f, o), w, Front(m, n))
  PROVE  /\ o <= n /\ Front(f, o) = Front(m, o) /\ f[o] = m[o]
         /\ o + Len(w) = n /\ (o = n => w = <<>>)
<1>1. Len(m) \in Nat /\ Len(w) \in Nat /\ Len(f) \in Nat /\ o \in 0..Len(f)
  BY LenProperties
<1>2. /\ Front(f, o) \in Seq(Nat) /\ Len(Front(f, o)) = o
      /\ \A k \in 1..o : Front(f, o)[k] = f[k]
  BY <1>1, Split
<1>3. Front(m, n) \in Seq(Nat) /\ Len(Front(m, n)) = n
  BY <1>1, Split
<1> DEFINE q == Front(f, o)
           v == Front(m, n)
<1>4. q \in Seq(Nat) /\ v \in Seq(Nat) /\ Joins(q, w, v) /\ Len(q) = o /\ Len(v) = n
  BY <1>2, <1>3
<1> HIDE DEF q, v
<1>5. Len(q) + Len(w) = Len(v) /\ q = Front(v, Len(q))
  <2> DEFINE S == Nat
  <2>1. q \in Seq(S) /\ v \in Seq(S) /\ w \in Seq(S)
    BY <1>4
  <2> HIDE DEF S
  <2>2. QED
    BY <1>4, <2>1, FrontOfWhole
<1>6. o + Len(w) = n /\ o <= n /\ o \in 0..n /\ q = Front(v, o)
  BY <1>1, <1>4, <1>5
<1>7. Front(v, o) = Front(m, o)
  BY <1>6, FrontOfFront DEF v
<1>8. f[o] = m[o]
  <2>1. o \in 0..Len(m) /\ o \in 1..o
    BY <1>1, <1>6
  <2>2. \A k \in 1..o : Front(m, o)[k] = m[k]
    BY <2>1, Split
  <2>3. q[o] = f[o]
    BY <1>2, <2>1 DEF q
  <2>4. QED
    BY <1>6, <1>7, <2>1, <2>2, <2>3
<1>9. o = n => w = <<>>
  BY <1>1, <1>6, EmptySeq
<1>10. QED
  BY <1>6, <1>7, <1>8, <1>9 DEF q

(* The room made for the next read. *)
LEMMA MoreRoom ==
  ASSUME NEW b \in Seq(Nat), NEW pad \in Nat, NEW o \in 0..Len(b), NEW n \in Nat
  PROVE  /\ Resize(b, o + n, pad) \in Seq(Nat) /\ o <= Len(Resize(b, o + n, pad))
         /\ Front(Resize(b, o + n, pad), o) = Front(b, o)
<1>1. Len(b) \in Nat /\ o \in Nat /\ o + n \in Nat /\ o \in 0..(o + n) /\ o <= Len(b)
  BY LenProperties
<1> DEFINE S == Nat
           m == o + n
<1>2. b \in Seq(S) /\ pad \in S /\ m \in Nat /\ o \in 0..m
  BY <1>1
<1> HIDE DEF S, m
<1>3. /\ Resize(b, m, pad) \in Seq(S) /\ Len(Resize(b, m, pad)) = m
      /\ \A i \in 0..m : i <= Len(b) => Front(Resize(b, m, pad), i) = Front(b, i)
  BY <1>2, ResizeKeeps
<1>4. QED
  BY <1>1, <1>2, <1>3 DEF S, m

(* on_read of the client. *)
LEMMA ClientReads ==
  ASSUME DuplexTypes, Weather, NEW c \in Conn, Talk(c), ReadSome("client", c)
  PROVE  /\ Handled(c) /\ UNCHANGED faults
         /\ \/ Same(c) /\ UNCHANGED g_count
            \/ Answers(c) /\ g_count' = g_count + 1
<1> DEFINE oc == offset["client"][c]
           rc == Received("client", c)
           wc == wire["client"][c]
           sv == op["server"][c]
<1>1. PICK k \in 1..Chunk :
        LET b == Filled("client", c, k)  o == oc + k IN
        /\ Read("client", c, k)
        /\ IF Complete("client", b, o)
           THEN Starts("client", c, "over", b, o) /\ g_count' = g_count + 1
           ELSE ReadMore("client", c, b, o) /\ UNCHANGED g_count
  BY DEF ReadSome
<1> DEFINE f == Filled("client", c, k)
           o == oc + k
           r == Resize(f, o + Chunk, EmptyChar)
           w == wire'["client"][c]
<1>2. /\ Complete("client", f, o) =>
           Starts("client", c, "over", f, o) /\ g_count' = g_count + 1
      /\ ~Complete("client", f, o) => Starts("client", c, "read", r, o) /\ UNCHANGED g_count
      /\ Complete("client", f, o) <=> f[o] = EndChar
      /\ Read("client", c, k)
  BY <1>1 DEF ReadMore, Complete
<1>3. HasRead("client", c, k) /\ Peer("client") = "server"
  BY <1>2, ReadOne, Sides
<1>4. /\ op["client"][c] = "read" /\ link[c] = "up" /\ wc # <<>>
      /\ k \in Nat \ {0} /\ o <= Len(buffer["client"][c])
      /\ f \in Seq(Nat) /\ Len(f) = Len(buffer["client"][c])
      /\ Front(f, o) \o w = rc \o wc
      /\ wire' \in [Side -> [Conn -> Seq(Nat)]] /\ wire'["server"][c] = wire["server"][c]
      /\ \A d \in Conn \ {c}, i \in Side : wire'[i][d] = wire[i][d]
      /\ UNCHANGED <<program, accepting, link, faults>>
  BY <1>3 DEF HasRead
<1>5. oc \in Nat /\ Len(buffer["client"][c]) \in Nat
  BY ReceivedTyped, Sides
<1>6. w \in Seq(Nat)
  BY <1>4, Sides
<1> HIDE DEF f, w, wc, rc, sv, oc
<1>7. o \in 1..Len(f) /\ o \in 0..Len(f)
  BY <1>4, <1>5
<1>8. PICK n \in 0..Len(Message) :
        /\ rc \o wc = Front(Message, n)
        /\ \/ sv = "write" /\ n = offset["server"][c] /\ n < Len(Message)
              /\ buffer["server"][c] = Message
           \/ sv = "read" /\ n = Len(Message) /\ offset["server"][c] = 0
           \/ sv = "over"
        /\ sv \in {"read", "write"} => wire["server"][c] = <<>>
  <2>1. Reading(c)
    BY <1>4 DEF Talk
  <2>2. CASE sv = "write"
    <3>1. /\ buffer["server"][c] = Message /\ wire["server"][c] = <<>>
          /\ offset["server"][c] < Len(Message) /\ offset["server"][c] \in 0..Len(Message)
          /\ rc \o wc = Front(Message, offset["server"][c])
      BY <2>1, <2>2, ReceivedTyped, Sides DEF Reading, sv, rc, wc
    <3>2. QED
      BY <2>2, <3>1
  <2>3. CASE sv = "over"
    BY <2>1, <2>3 DEF Reading, sv, rc, wc
  <2>4. CASE sv \notin {"write", "over"}
    <3>1. /\ sv = "read" /\ offset["server"][c] = 0 /\ wire["server"][c] = <<>>
          /\ rc \o wc = Message
      BY <1>4, <2>1, <2>4 DEF Reading, sv, rc, wc
    <3>2. Message = Front(Message, Len(Message)) /\ Len(Message) \in 0..Len(Message)
      BY MessageFacts, SplitEnds
    <3>3. QED
      BY <3>1, <3>2
  <2>5. QED
    BY <2>2, <2>3, <2>4
<1> DEFINE m == Message
<1>9. m \in Seq(Nat) /\ n \in 0..Len(m) /\ Joins(Front(f, o), w, Front(m, n))
  BY <1>4, <1>8, MessageFacts DEF Joins
<1> HIDE DEF o, m
<1>10. /\ o <= n /\ Front(f, o) = Front(m, o) /\ f[o] = m[o]
       /\ o + Len(w) = n /\ (o = n => w = <<>>)
  BY <1>4, <1>6, <1>7, <1>9, ReadByte
<1> USE DEF m
<1>11. /\ Complete("client", f, o) <=> o = Len(Message)
       /\ o \in 1..Len(Message) /\ (o = Len(Message) => n = o)
  <2>1. Len(Message) \in Nat /\ o \in 1..Len(Message)
    BY <1>7, <1>8, <1>10, MessageFacts
  <2>2. Message[o] = EndChar <=> o = Len(Message)
    BY <2>1, MessageFacts
  <2>3. QED
    BY <1>2, <1>8, <1>10, <2>1, <2>2
<1>12. CASE o = Len(Message)
  <2>1. Starts("client", c, "over", f, o) /\ g_count' = g_count + 1
    BY <1>2, <1>11, <1>12
  <2>2. PlaceTypes' /\ Moved("client", c, "over", f, o)
    <3>1. "over" \in Ops /\ o \in Nat /\ o <= Len(f)
      BY <1>7 DEF Ops
    <3>2. QED
      BY <1>4, <2>1, <3>1, StartsOne, Sides
  <2>3. /\ op'["client"][c] = "over" /\ buffer'["client"][c] = f /\ offset'["client"][c] = o
        /\ op'["server"][c] = op["server"][c] /\ buffer'["server"][c] = buffer["server"][c]
        /\ offset'["server"][c] = offset["server"][c]
    BY <2>2, Sides DEF Moved, KeptAt
  <2>4. DuplexTypes' /\ Weather' /\ Others(c) /\ link'[c] = link[c]
    <3>1. accepting' \in BOOLEAN /\ faults' \in Nat /\ faults <= faults'
      BY <1>4 DEF DuplexTypes
    <3>2. QED
      BY <1>4, <2>2, <3>1, OneSide, Sides
  <2>5. Received("client", c)' = Message
    BY <1>10, <1>12, <2>3, MessageFacts, SplitEnds DEF Received
  <2>6. sv \in {"read", "over"} /\ rc \o wc = Message
    BY <1>8, <1>11, <1>12, MessageFacts, SplitEnds
  <2>7. Talk(c)'
    BY <2>3, <2>6 DEF Talk, sv
  <2>8. Phase(c) = "asked"
    BY <1>4, <2>6 DEF Phase, Got, Replied, rc, wc, sv
  <2>9. Phase(c)' = "answered"
    BY <2>3, <2>5, <2>6 DEF Phase, Got, sv
  <2>10. QED
    BY <1>4, <2>1, <2>4, <2>7, <2>8, <2>9 DEF Handled, Answers
<1>13. CASE o # Len(Message)
  <2>1. Starts("client", c, "read", r, o) /\ UNCHANGED g_count
    BY <1>2, <1>11, <1>13
  <2>2. r \in Seq(Nat) /\ o <= Len(r) /\ Front(r, o) = Front(f, o)
    <3>1. Chunk \in Nat /\ EmptyChar \in Nat
      BY EchoAssumption
    <3>2. QED
      BY <1>4, <1>7, <3>1, MoreRoom
  <2> HIDE DEF r
  <2>3. PlaceTypes' /\ Moved("client", c, "read", r, o)
    <3>1. "read" \in Ops /\ o \in Nat
      BY <1>7 DEF Ops
    <3>2. QED
      BY <2>1, <2>2, <3>1, StartsOne, Sides
  <2>4. /\ op'["client"][c] = "read" /\ buffer'["client"][c] = r /\ offset'["client"][c] = o
        /\ op'["server"][c] = op["server"][c] /\ buffer'["server"][c] = buffer["server"][c]
        /\ offset'["server"][c] = offset["server"][c]
    BY <2>3, Sides DEF Moved, KeptAt
  <2>5. DuplexTypes' /\ Weather' /\ Others(c) /\ link'[c] = link[c]
    <3>1. accepting' \in BOOLEAN /\ faults' \in Nat /\ faults <= faults'
      BY <1>4 DEF DuplexTypes
    <3>2. QED
      BY <1>4, <2>3, <3>1, OneSide, Sides
  <2>6. Received("client", c)' \o wire'["client"][c] = rc \o wc
    BY <1>4, <2>2, <2>4 DEF Received, w
  <2>7. Reading(c)'
    <3>1. CASE sv = "write"
      BY <1>4, <1>8, <2>4, <2>6, <3>1 DEF Reading, sv
    <3>2. CASE sv = "over"
      BY <1>8, <2>4, <2>6, <3>2 DEF Reading, sv
    <3>3. CASE sv = "read"
      <4>1. rc \o wc = Message
        BY <1>8, <3>3, MessageFacts, SplitEnds
      <4>2. QED
        BY <1>4, <1>8, <2>4, <2>6, <3>3, <4>1 DEF Reading, sv
    <3>4. QED
      BY <1>8, <3>1, <3>2, <3>3
  <2>8. Talk(c)'
    <3>1. o < Len(Message) /\ sv \in {"read", "write", "over"}
      BY <1>8, <1>11, <1>13, MessageFacts
    <3>2. QED
      BY <2>4, <2>7, <3>1 DEF Talk, sv
  <2>9. Same(c)
    <3>1. ~Got(c) /\ ~Got(c)' /\ (Replied(c)' <=> Replied(c))
      BY <1>4, <2>4, <2>6 DEF Got, Replied, rc, wc
    <3>2. QED
      BY <1>4, <2>4, <2>5, <3>1 DEF Same, Phase
  <2>10. QED
    BY <1>4, <2>1, <2>5, <2>8, <2>9 DEF Handled
<1>14. QED
  BY <1>12, <1>13

(* on_read of the server. *)
LEMMA ServerReads ==
  ASSUME DuplexTypes, Weather, NEW c \in Conn, Talk(c), ReadSome("server", c)
  PROVE  Handled(c) /\ UNCHANGED <<faults, g_count>> /\ (Same(c) \/ Asks(c))
<1> DEFINE os == offset["server"][c]
           rs == Received("server", c)
           ws == wire["server"][c]
           cl == op["client"][c]
<1>1. PICK k \in 1..Chunk :
        LET b == Filled("server", c, k)  o == os + k IN
        /\ Read("server", c, k)
        /\ IF Complete("server", b, o)
           THEN Starts("server", c, "timer", b, o)
           ELSE ReadMore("server", c, b, o)
        /\ UNCHANGED g_count
  BY DEF ReadSome
<1> DEFINE f == Filled("server", c, k)
           o == os + k
           r == Resize(f, o + Chunk, EmptyChar)
           w == wire'["server"][c]
<1>2. /\ Complete("server", f, o) => Starts("server", c, "timer", f, o)
      /\ ~Complete("server", f, o) => Starts("server", c, "read", r, o)
      /\ Complete("server", f, o) <=> f[o] = EndChar
      /\ Read("server", c, k) /\ UNCHANGED g_count
  BY <1>1 DEF ReadMore, Complete
<1>3. HasRead("server", c, k) /\ Peer("server") = "client"
  BY <1>2, ReadOne, Sides
<1>4. /\ op["server"][c] = "read" /\ link[c] = "up" /\ ws # <<>>
      /\ k \in Nat \ {0} /\ o <= Len(buffer["server"][c])
      /\ f \in Seq(Nat) /\ Len(f) = Len(buffer["server"][c])
      /\ Front(f, o) \o w = rs \o ws
      /\ wire' \in [Side -> [Conn -> Seq(Nat)]] /\ wire'["client"][c] = wire["client"][c]
      /\ \A d \in Conn \ {c}, i \in Side : wire'[i][d] = wire[i][d]
      /\ UNCHANGED <<program, accepting, link, faults>>
  BY <1>3 DEF HasRead
<1>5. os \in Nat /\ Len(buffer["server"][c]) \in Nat
  BY ReceivedTyped, Sides
<1>6. w \in Seq(Nat)
  BY <1>4, Sides
<1> HIDE DEF f, w, ws, rs, cl, os
<1>7. o \in 1..Len(f) /\ o \in 0..Len(f)
  BY <1>4, <1>5
<1>8. r \in Seq(Nat) /\ o <= Len(r) /\ Front(r, o) = Front(f, o)
  <2>1. Chunk \in Nat /\ EmptyChar \in Nat
    BY EchoAssumption
  <2> HIDE DEF o
  <2>2. QED
    BY <1>4, <1>7, <2>1, MoreRoom
<1> HIDE DEF r, o
<1>9. PICK next \in {"timer", "read"}, b \in Seq(Nat) :
        /\ Starts("server", c, next, b, o) /\ o <= Len(b) /\ Front(b, o) = Front(f, o)
        /\ next = "timer" <=> f[o] = EndChar
  <2>1. CASE f[o] = EndChar
    BY <1>2, <1>4, <1>7, <2>1
  <2>2. CASE f[o] # EndChar
    BY <1>2, <1>8, <2>2
  <2>3. QED
    BY <2>1, <2>2
<1>10. PlaceTypes' /\ Moved("server", c, next, b, o)
  <2>1. next \in Ops /\ o \in Nat
    BY <1>7 DEF Ops
  <2>2. QED
    BY <1>9, <2>1, StartsOne, Sides
<1>11. /\ op'["server"][c] = next /\ buffer'["server"][c] = b /\ offset'["server"][c] = o
       /\ op'["client"][c] = op["client"][c] /\ buffer'["client"][c] = buffer["client"][c]
       /\ offset'["client"][c] = offset["client"][c]
  BY <1>10, Sides DEF Moved, KeptAt
<1>12. DuplexTypes' /\ Weather' /\ Others(c) /\ link'[c] = link[c]
  <2>1. accepting' \in BOOLEAN /\ faults' \in Nat /\ faults <= faults'
    BY <1>4 DEF DuplexTypes
  <2>2. QED
    BY <1>4, <1>10, <2>1, OneSide, Sides
<1>13. Received("client", c)' = Received("client", c)
  BY <1>11 DEF Received
<1>14. Received("server", c)' \o wire'["server"][c] = rs \o ws
  BY <1>4, <1>9, <1>11 DEF Received, w
<1>15. cl \in {"write", "read", "over"}
  BY <1>4 DEF Talk, cl
<1>16. (Got(c)' <=> Got(c)) /\ (Replied(c)' <=> Replied(c))
  BY <1>4, <1>9, <1>11, <1>13 DEF Got, Replied
<1>17. CASE cl = "over"
  <2>1. Talk(c)'
    BY <1>9, <1>11, <1>17 DEF Talk, cl
  <2>2. Same(c)
    BY <1>11, <1>16, <1>17 DEF Same, Phase, cl
  <2>3. QED
    BY <1>2, <1>4, <1>12, <2>1, <2>2 DEF Handled
<1> DEFINE m == Message
<1>18. CASE cl = "write"
  <2> DEFINE n == offset["client"][c]
  <2>1. /\ buffer["client"][c] = Message /\ n < Len(Message) /\ n \in 0..Len(Message)
        /\ wire["client"][c] = <<>> /\ rs \o ws = Front(Message, n)
    BY <1>4, <1>18, ReceivedTyped, Sides DEF Talk, cl, rs, ws
  <2>2. m \in Seq(Nat) /\ n \in 0..Len(m) /\ Joins(Front(f, o), w, Front(m, n))
    BY <1>4, <2>1, MessageFacts DEF Joins
  <2>3. o <= n /\ f[o] = m[o]
    <3> HIDE DEF m, n
    <3>1. QED
      BY <1>4, <1>6, <1>7, <2>2, ReadByte
  <2>4. f[o] # EndChar
    <3>1. o \in 1..Len(Message) /\ o # Len(Message)
      BY <1>7, <2>1, <2>3, MessageFacts
    <3>2. QED
      BY <2>3, <3>1, MessageFacts
  <2>5. next = "read"
    BY <1>9, <2>4
  <2>6. Talk(c)'
    BY <1>4, <1>11, <1>14, <1>18, <2>1, <2>5 DEF Talk, cl
  <2>7. Same(c)
    BY <1>4, <1>11, <1>12, <1>16, <2>5 DEF Same, Phase
  <2>8. QED
    BY <1>2, <1>4, <1>12, <2>6, <2>7 DEF Handled
<1>19. CASE cl = "read"
  <2>1. /\ offset["client"][c] = 0 /\ wire["client"][c] = <<>> /\ rs \o ws = Message
        /\ offset["client"][c] < Len(Message)
    BY <1>4, <1>19 DEF Talk, Reading, cl, rs, ws
  <2>2. ~Got(c) /\ ~Replied(c)
    <3>1. Received("client", c) \o wire["client"][c] # Message
      BY <1>19, <2>1, NotYet DEF cl
    <3>2. QED
      BY <1>19, <3>1 DEF Got, Replied, cl
  <2> DEFINE n == Len(Message)
  <2>3. m \in Seq(Nat) /\ n \in 0..Len(m) /\ Joins(Front(f, o), w, Front(m, n))
    BY <1>4, <2>1, MessageFacts, SplitEnds DEF Joins
  <2>4. o <= n /\ Front(f, o) = Front(m, o) /\ f[o] = m[o] /\ (o = n => w = <<>>)
    <3> HIDE DEF m, n
    <3>1. QED
      BY <1>4, <1>6, <1>7, <2>3, ReadByte
  <2>5. f[o] = EndChar <=> o = Len(Message)
    <3>1. o \in 1..Len(Message)
      BY <1>7, <2>4, MessageFacts
    <3>2. QED
      BY <2>4, <3>1, MessageFacts
  <2>6. Phase(c) = "new"
    BY <1>4, <1>19, <2>2 DEF Phase, cl
  <2>7. CASE o = Len(Message)
    <3>1. next = "timer" /\ wire'["server"][c] = <<>> /\ Received("server", c)' = Message
      BY <1>9, <1>11, <2>4, <2>5, <2>7, MessageFacts, SplitEnds DEF Received, w
    <3>2. Talk(c)'
      BY <1>4, <1>11, <1>19, <2>1, <3>1 DEF Talk, Reading, cl
    <3>3. Phase(c)' = "asked"
      BY <1>4, <1>11, <1>12, <1>16, <1>19, <2>2, <3>1 DEF Phase, cl
    <3>4. QED
      BY <1>2, <1>4, <1>12, <2>6, <3>2, <3>3 DEF Handled, Asks
  <2>8. CASE o # Len(Message)
    <3>1. next = "read"
      BY <1>9, <2>5, <2>8
    <3>2. Talk(c)'
      BY <1>4, <1>11, <1>14, <1>19, <2>1, <3>1 DEF Talk, Reading, cl
    <3>3. Same(c)
      BY <1>4, <1>11, <1>12, <1>16, <3>1 DEF Same, Phase
    <3>4. QED
      BY <1>2, <1>4, <1>12, <3>2, <3>3 DEF Handled
  <2>9. QED
    BY <2>7, <2>8
<1>20. QED
  BY <1>15, <1>17, <1>18, <1>19

------------------------------------------------------------------------------
(* Side e of c lets its connection go. *)
Closes(e, c) ==
  /\ op'[e][c] = "over" /\ op'[Peer(e)][c] = op[Peer(e)][c] /\ KeptLine(c)
  /\ \A f \in Side : buffer'[f][c] = buffer[f][c] /\ offset'[f][c] = offset[f][c]

LEMMA LeavesOne ==
  ASSUME DuplexTypes, NEW e \in Side, NEW c \in Conn, LetsGo(e, c)
  PROVE  /\ PlaceTypes' /\ Moved(e, c, "over", buffer[e][c], offset[e][c])
         /\ Closes(e, c) /\ UNCHANGED <<program, accepting, link, wire>>
<1>1. /\ op' = [op EXCEPT ![e][c] = "over"]
      /\ UNCHANGED <<program, accepting, buffer, offset, link, wire>>
  BY DEF LetsGo
<1>2. /\ op' \in [Side -> [Conn -> Ops]]
      /\ op'[e][c] = "over" /\ op'[Peer(e)][c] = op[Peer(e)][c]
      /\ \A d \in Conn \ {c}, f \in Side : op'[f][d] = op[f][d]
  <2>1. op \in Places(Ops) /\ "over" \in Ops /\ Put(op', op, e, c, "over")
    BY <1>1 DEF DuplexTypes, Ops, Places, Put
  <2>2. /\ op' \in Places(Ops)
        /\ op'[e][c] = "over" /\ op'[Peer(e)][c] = op[Peer(e)][c]
        /\ \A d \in Conn \ {c}, f \in Side : op'[f][d] = op[f][d]
    BY <2>1, OnePlace
  <2>3. QED
    BY <2>2 DEF Places
<1>3. PlaceTypes'
  BY <1>1, <1>2 DEF DuplexTypes, PlaceTypes
<1>4. Moved(e, c, "over", buffer[e][c], offset[e][c])
  BY <1>1, <1>2 DEF Moved, KeptAt
<1>5. Closes(e, c)
  BY <1>1, <1>2 DEF Closes, KeptLine
<1>6. QED
  BY <1>1, <1>3, <1>4, <1>5

(* An exception lets every connection of its program go. *)
LEMMA DeathOfAll ==
  ASSUME DuplexTypes, NEW e \in Side, Dies(e), faults' \in Nat
  PROVE  /\ DuplexTypes' /\ \A c \in Conn : Closes(e, c)
         /\ program'[e] = "down" /\ program'[Peer(e)] = program[Peer(e)] /\ UNCHANGED link
<1>1. /\ program' = [program EXCEPT ![e] = "down"]
      /\ accepting' = (accepting /\ e # "server")
      /\ op' = [op EXCEPT ![e] = [c \in Conn |-> "over"]]
      /\ UNCHANGED <<buffer, offset, link, wire>>
  BY DEF Dies
<1>2. /\ op' \in [Side -> [Conn -> Ops]]
      /\ \A c \in Conn : op'[e][c] = "over" /\ op'[Peer(e)][c] = op[Peer(e)][c]
  BY <1>1, Sides DEF DuplexTypes, Ops
<1>3. /\ program' \in [Side -> {"up", "returned", "down"}]
      /\ program'[e] = "down" /\ program'[Peer(e)] = program[Peer(e)]
  BY <1>1, Sides DEF DuplexTypes
<1>4. PlaceTypes'
  BY <1>1, <1>2 DEF DuplexTypes, PlaceTypes
<1>5. accepting' \in BOOLEAN
  BY <1>1
<1>6. DuplexTypes'
  BY <1>1, <1>3, <1>4, <1>5, TypesAfter DEF DuplexTypes
<1>7. ASSUME NEW c \in Conn PROVE Closes(e, c)
  BY <1>1, <1>2 DEF Closes, KeptLine
<1>8. QED
  BY <1>1, <1>3, <1>6, <1>7

(* What stays of a connection that is let go. *)
LEMMA WhatStays ==
  ASSUME NEW e \in Side, NEW c \in Conn, Closes(e, c)
  PROVE  /\ op'[e][c] = "over" /\ op'[Peer(e)][c] = op[Peer(e)][c]
         /\ buffer'["client"][c] = buffer["client"][c]
         /\ buffer'["server"][c] = buffer["server"][c]
         /\ offset'["client"][c] = offset["client"][c]
         /\ offset'["server"][c] = offset["server"][c]
         /\ wire'["client"][c] = wire["client"][c] /\ wire'["server"][c] = wire["server"][c]
         /\ link'[c] = link[c]
         /\ Received("client", c)' = Received("client", c)
         /\ Received("server", c)' = Received("server", c)
<1>1. /\ op'[e][c] = "over" /\ op'[Peer(e)][c] = op[Peer(e)][c]
      /\ buffer'["client"][c] = buffer["client"][c]
      /\ buffer'["server"][c] = buffer["server"][c]
      /\ offset'["client"][c] = offset["client"][c]
      /\ offset'["server"][c] = offset["server"][c]
      /\ wire'["client"][c] = wire["client"][c] /\ wire'["server"][c] = wire["server"][c]
      /\ link'[c] = link[c]
  BY Sides DEF Closes, KeptLine
<1>2. QED
  BY <1>1 DEF Received

(* The client's side is let go: without the whole reply, unless it had it. *)
LEMMA ClientLeaves ==
  ASSUME DuplexTypes, NEW c \in Conn, Talk(c), Closes("client", c)
  PROVE  /\ Talk(c)' /\ (Got(c)' <=> Got(c))
         /\ Same(c) \/ (~Got(c) /\ op["client"][c] # "over" /\ Phase(c)' = "failed")
<1>1. /\ op'["client"][c] = "over" /\ op'["server"][c] = op["server"][c]
      /\ buffer'["client"][c] = buffer["client"][c]
      /\ buffer'["server"][c] = buffer["server"][c]
      /\ offset'["client"][c] = offset["client"][c]
      /\ offset'["server"][c] = offset["server"][c]
      /\ wire'["client"][c] = wire["client"][c] /\ wire'["server"][c] = wire["server"][c]
      /\ link'[c] = link[c]
      /\ Received("client", c)' = Received("client", c)
  BY WhatStays, Sides
<1>2. CASE op["client"][c] = "over"
  <2>1. Talk(c)'
    BY <1>1, <1>2 DEF Talk
  <2>2. (Got(c)' <=> Got(c)) /\ ~Replied(c) /\ ~Replied(c)'
    BY <1>1, <1>2 DEF Got, Replied
  <2>3. QED
    BY <1>1, <1>2, <2>1, <2>2 DEF Same, Phase
<1>3. CASE op["client"][c] # "over"
  <2>1. Received("client", c) # Message
    BY <1>3, NotYet
  <2>2. ~Got(c) /\ ~Got(c)'
    BY <1>1, <1>3, <2>1 DEF Got
  <2>3. Talk(c)'
    BY <1>1, <2>1 DEF Talk
  <2>4. Phase(c)' = "failed"
    BY <1>1, <2>2 DEF Phase
  <2>5. QED
    BY <1>3, <2>2, <2>3, <2>4
<1>4. QED
  BY <1>2, <1>3

(* The server's side is let go. *)
LEMMA ServerLeaves ==
  ASSUME DuplexTypes, NEW c \in Conn, Talk(c), Closes("server", c),
         op["server"][c] # "new" \/ program'["server"] # "up",
         program["server"] # "up" => program'["server"] # "up"
  PROVE  /\ Talk(c)' /\ (Got(c)' <=> Got(c))
         /\ Same(c) \/ (~Got(c) /\ op["client"][c] # "over" /\ Phase(c)' = "failed")
<1>1. /\ op'["server"][c] = "over" /\ op'["client"][c] = op["client"][c]
      /\ buffer'["client"][c] = buffer["client"][c]
      /\ buffer'["server"][c] = buffer["server"][c]
      /\ offset'["client"][c] = offset["client"][c]
      /\ offset'["server"][c] = offset["server"][c]
      /\ wire'["client"][c] = wire["client"][c] /\ wire'["server"][c] = wire["server"][c]
      /\ link'[c] = link[c]
      /\ Received("client", c)' = Received("client", c)
  BY WhatStays, Sides
<1>2. (Got(c)' <=> Got(c)) /\ (Replied(c)' <=> Replied(c))
  BY <1>1 DEF Got, Replied, Talk
<1>3. Talk(c)'
  <2>1. Reading(c) => Reading(c)'
    <3>1. ASSUME Reading(c)
          PROVE  \E n \in 0..Len(Message) :
                   Received("client", c) \o wire["client"][c] = Front(Message, n)
      <4>1. CASE offset["client"][c] = 0 /\ wire["client"][c] = <<>>
        <5>1. Received("client", c) = <<>>
          BY <4>1, ReceivedTyped, Sides, SplitEnds DEF Received
        <5>2. Received("client", c) \o wire["client"][c] = Front(Message, 0)
          BY <4>1, <5>1, JoinedEmpty, SplitEnds, MessageFacts
        <5>3. 0 \in 0..Len(Message)
          BY MessageFacts
        <5>4. QED
          BY <5>2, <5>3
      <4>2. CASE /\ op["server"][c] = "write" /\ offset["server"][c] < Len(Message)
                 /\ Received("client", c) \o wire["client"][c]
                      = Front(Message, offset["server"][c])
        <5>1. offset["server"][c] \in 0..Len(Message)
          BY <4>2, ReceivedTyped, Sides, MessageFacts
        <5>2. QED
          BY <4>2, <5>1
      <4>3. CASE Received("client", c) \o wire["client"][c] = Message
        <5>1. Message = Front(Message, Len(Message)) /\ Len(Message) \in 0..Len(Message)
          BY MessageFacts, SplitEnds
        <5>2. QED
          BY <4>3, <5>1
      <4>4. QED
        BY <3>1, <4>1, <4>2, <4>3 DEF Reading
    <3>2. QED
      BY <1>1, <3>1 DEF Reading
  <2>2. QED
    BY <1>1, <2>1 DEF Talk
<1>4. Same(c) \/ (~Got(c) /\ op["client"][c] # "over" /\ Phase(c)' = "failed")
  <2>1. CASE Got(c)
    BY <1>2, <2>1 DEF Same, Phase
  <2>2. CASE Replied(c)
    BY <1>1, <1>2, <2>2 DEF Same, Phase
  <2>3. CASE ~Got(c) /\ ~Replied(c) /\ op["client"][c] = "over"
    BY <1>1, <1>2, <2>3 DEF Same, Phase
  <2>4. CASE ~Got(c) /\ ~Replied(c) /\ op["client"][c] # "over"
    BY <1>1, <1>2, <2>4 DEF Phase
  <2>5. QED
    BY <2>1, <2>2, <2>3, <2>4
<1>5. QED
  BY <1>2, <1>3, <1>4

(* One side lets its connection go and its program goes on. *)
LEMMA Leaves ==
  ASSUME DuplexTypes, Weather, NEW e \in Side, NEW c \in Conn, Talk(c), LetsGo(e, c),
         op[e][c] \notin {"new", "over"}, faults' \in Nat, faults <= faults'
  PROVE  /\ Handled(c)
         /\ Same(c) \/ (~Got(c) /\ op["client"][c] # "over" /\ Phase(c)' = "failed")
<1>1. /\ PlaceTypes' /\ Moved(e, c, "over", buffer[e][c], offset[e][c])
      /\ Closes(e, c) /\ UNCHANGED <<program, accepting, link, wire>>
  BY LeavesOne
<1>2. DuplexTypes' /\ Weather' /\ Others(c)
  <2>1. /\ e = "server" \/ op["client"][c] # "over"
        /\ wire' \in [Side -> [Conn -> Seq(Nat)]] /\ accepting' \in BOOLEAN
        /\ \A d \in Conn \ {c}, f \in Side : wire'[f][d] = wire[f][d]
    BY <1>1 DEF DuplexTypes, Side
  <2>2. QED
    BY <1>1, <2>1, OneSide
<1>3. CASE e = "client"
  BY <1>1, <1>2, <1>3, ClientLeaves DEF Handled
<1>4. CASE e = "server"
  BY <1>1, <1>2, <1>4, ServerLeaves DEF Handled
<1>5. QED
  BY <1>3, <1>4 DEF Side

(* Nothing is lost by a read or write that fails: the connection had failed. *)
LEMMA GivesUpSame ==
  ASSUME DuplexTypes, Weather, NEW e \in Side, NEW c \in Conn, Talk(c), GivesUp(e, c)
  PROVE  Handled(c) /\ Same(c) /\ UNCHANGED faults
<1>1. /\ \/ op[e][c] \in {"read", "write"} /\ link[c] = "reset"
         \/ op[e][c] = "read" /\ op[Peer(e)][c] = "over" /\ wire[e][c] = <<>>
         \/ op[e][c] = "write" /\ op[Peer(e)][c] = "over"
      /\ LetsGo(e, c) /\ UNCHANGED faults
  BY DEF GivesUp
<1>2. faults \in Nat
  BY DEF DuplexTypes
<1>3. /\ Handled(c)
      /\ Same(c) \/ (~Got(c) /\ op["client"][c] # "over" /\ Phase(c)' = "failed")
  <2>1. op[e][c] \notin {"new", "over"} /\ faults' \in Nat /\ faults <= faults'
    BY <1>1, <1>2
  <2>2. QED
    BY <1>1, <2>1, Leaves
<1>4. ASSUME ~Got(c), op["client"][c] # "over" PROVE Phase(c) = "failed"
  <2>1. CASE link[c] = "reset"
    BY <1>4, <2>1 DEF Phase
  <2>2. CASE link[c] # "reset" /\ e = "server"
    BY <1>1, <1>4, <2>2, Sides
  <2>3. CASE link[c] # "reset" /\ e = "client"
    <3>1. op["server"][c] = "over" /\ (op["client"][c] = "read" => wire["client"][c] = <<>>)
      BY <1>1, <2>3, Sides
    <3>2. ~Replied(c)
      BY <1>4, <3>1, NotYet DEF Replied
    <3>3. QED
      BY <3>1, <3>2, <1>4 DEF Phase
  <2>4. QED
    BY <2>1, <2>2, <2>3 DEF Side
<1>5. Same(c)
  BY <1>3, <1>4 DEF Same
<1>6. QED
  BY <1>1, <1>3, <1>5

(* The timer fails. *)
LEMMA TimerLost ==
  ASSUME DuplexTypes, Weather, NEW c \in Conn, Talk(c), TimerFails(c)
  PROVE  Handled(c) /\ (Same(c) \/ Fails(c)) /\ faults <= faults' /\ UNCHANGED g_count
<1>1. /\ op["server"][c] = "timer" /\ LetsGo("server", c) /\ faults' = faults + 1
      /\ faults \in Nat /\ UNCHANGED g_count
  BY DEF TimerFails, Fault, DuplexTypes, counters
<1>2. faults' \in Nat /\ faults <= faults' /\ faults' > 0
  BY <1>1
<1>3. /\ Handled(c)
      /\ Same(c) \/ (~Got(c) /\ op["client"][c] # "over" /\ Phase(c)' = "failed")
  BY <1>1, <1>2, Leaves, Sides
<1>4. ~Got(c) => Phase(c) # "answered"
  BY DEF Phase
<1>5. QED
  BY <1>1, <1>2, <1>3, <1>4 DEF Fails

(* An exception ends a program. *)
LEMMA Death ==
  ASSUME DuplexTypes, Weather, \A c \in Conn : Talk(c), NEW e \in Side, Dies(e),
         faults' \in Nat, faults <= faults', faults' > 0 \/ AllOver
  PROVE  /\ DuplexTypes' /\ Weather' /\ \A c \in Conn : Talk(c)'
         /\ \A c \in Conn : Same(c) \/ Fails(c)
<1>1. /\ DuplexTypes' /\ \A c \in Conn : Closes(e, c)
      /\ program'[e] = "down" /\ program'[Peer(e)] = program[Peer(e)] /\ UNCHANGED link
  BY DeathOfAll
<1>2. Weather'
  <2>1. CASE e = "client"
    <3>1. AllOver'
      BY <1>1, <2>1 DEF AllOver, Closes
    <3>2. QED
      BY <3>1 DEF Weather
  <2>2. CASE e = "server"
    <3>1. AllOver => AllOver'
      BY <1>1, <2>2, Sides DEF AllOver, Closes
    <3>2. program'["client"] = program["client"] /\ faults \in Nat
      BY <1>1, <2>2, Sides DEF DuplexTypes
    <3>3. QED
      BY <3>1, <3>2 DEF Weather
  <2>3. QED
    BY <2>1, <2>2 DEF Side
<1>3. ASSUME NEW c \in Conn PROVE Talk(c)' /\ (Same(c) \/ Fails(c))
  <2>1. Talk(c) /\ Closes(e, c)
    BY <1>1
  <2>2. /\ Talk(c)'
        /\ Same(c) \/ (~Got(c) /\ op["client"][c] # "over" /\ Phase(c)' = "failed")
    <3>1. CASE e = "client"
      BY <2>1, <3>1, ClientLeaves
    <3>2. CASE e = "server"
      BY <1>1, <2>1, <3>2, ServerLeaves
    <3>3. QED
      BY <3>1, <3>2 DEF Side
  <2>3. ASSUME ~Got(c), op["client"][c] # "over", Phase(c)' = "failed" PROVE Fails(c)
    BY <2>3 DEF Fails, AllOver, Phase
  <2>4. QED
    BY <2>2, <2>3
<1>4. QED
  BY <1>1, <1>2, <1>3

(* A handler throws. *)
LEMMA Thrown ==
  ASSUME DuplexTypes, Weather, \A c \in Conn : Talk(c), NEW e \in Side, NEW c \in Conn,
         Throws(e, c, {"read", "timer", "write"})
  PROVE  /\ DuplexTypes' /\ Weather' /\ \A d \in Conn : Talk(d)'
         /\ \A d \in Conn : Same(d) \/ Fails(d)
         /\ UNCHANGED faults
<1>1. /\ op[e][c] \in {"read", "timer", "write"} /\ link[c] = "reset" /\ Dies(e)
      /\ UNCHANGED faults
  BY DEF Throws
<1>2. faults' \in Nat /\ faults <= faults'
  BY <1>1 DEF DuplexTypes
<1>3. faults' > 0 \/ AllOver
  BY <1>1, <1>2 DEF Weather, SomeReset
<1>4. QED
  BY <1>1, <1>2, <1>3, Death

(* The network, or the end of a program, resets a connection. *)
LEMMA Resets ==
  ASSUME DuplexTypes, Weather, NEW c \in Conn, Talk(c), Reset(c)
  PROVE  Handled(c) /\ (Same(c) \/ Fails(c)) /\ faults <= faults'
<1>1. /\ link[c] = "up" /\ link' = [link EXCEPT ![c] = "reset"]
      /\ IF \A e \in Side : program[e] = "up" THEN Fault ELSE UNCHANGED faults
      /\ UNCHANGED <<program, accepting, op, buffer, offset, wire>>
  BY DEF Reset
<1>2. faults \in Nat /\ faults' \in Nat /\ faults <= faults'
  BY <1>1 DEF DuplexTypes, Fault
<1>3. /\ link' \in [Conn -> {"none", "up", "reset"}] /\ link'[c] = "reset"
      /\ \A d \in Conn \ {c} : link'[d] = link[d]
  BY <1>1 DEF DuplexTypes
<1>4. DuplexTypes'
  BY <1>1, <1>2, <1>3 DEF DuplexTypes
<1>5. Others(c)
  BY <1>1, <1>3 DEF Others, Untouched, KeptAt, KeptLine
<1>6. faults' > 0 \/ AllOver
  BY <1>1, <1>2 DEF Weather, Fault, Side
<1>7. Weather'
  <2>1. AllOver' <=> AllOver
    BY <1>1 DEF AllOver
  <2>2. QED
    BY <1>1, <1>2, <1>6, <2>1 DEF Weather
<1>8. Received("client", c)' = Received("client", c) /\ Received("server", c)' = Received("server", c)
  BY <1>1 DEF Received
<1>9. Talk(c)'
  <2>1. Reading(c)' <=> Reading(c)
    BY <1>1, <1>8 DEF Reading
  <2>2. QED
    BY <1>1, <1>8, <2>1 DEF Talk
<1>10. Same(c) \/ Fails(c)
  <2>1. Got(c)' <=> Got(c)
    BY <1>1, <1>8 DEF Got
  <2>2. CASE Got(c)
    BY <2>1, <2>2 DEF Same, Phase
  <2>3. CASE ~Got(c)
    <3>1. Phase(c)' = "failed" /\ Phase(c) # "answered"
      BY <1>3, <2>1, <2>3 DEF Phase
    <3>2. AllOver => Phase(c) = "failed"
      BY <2>3 DEF AllOver, Phase
    <3>3. QED
      BY <1>6, <3>1, <3>2 DEF Same, Fails
  <2>4. QED
    BY <2>2, <2>3
<1>11. QED
  BY <1>1, <1>2, <1>4, <1>5, <1>7, <1>9, <1>10 DEF Handled

------------------------------------------------------------------------------
(* What a step does to the connections: one is answered and counted, one asks, *)
(* or some fail.                                                               *)
OthersSame(c) == \A d \in Conn \ {c} : Same(d)
Outcome ==
  /\ faults <= faults'
  /\ \/ \E c \in Conn : Answers(c) /\ g_count' = g_count + 1 /\ OthersSame(c)
     \/ \E c \in Conn : Asks(c) /\ UNCHANGED g_count /\ OthersSame(c)
     \/ UNCHANGED g_count /\ \A c \in Conn : Same(c) \/ Fails(c)

(* The inductive invariant. *)
Connections == DuplexTypes /\ Weather /\ \A c \in Conn : Talk(c)

LEMMA OneHandled ==
  ASSUME Connections, NEW c \in Conn, Handled(c), faults <= faults',
         \/ Answers(c) /\ g_count' = g_count + 1
         \/ Asks(c) /\ UNCHANGED g_count
         \/ UNCHANGED g_count /\ (Same(c) \/ Fails(c))
  PROVE  Connections' /\ Outcome
<1>1. ASSUME NEW d \in Conn \ {c} PROVE Talk(d)' /\ Same(d)
  BY Undisturbed DEF Connections, Handled, Others
<1>2. OthersSame(c)
  BY <1>1 DEF OthersSame
<1>3. Connections'
  BY <1>1 DEF Connections, Handled
<1>4. (Same(c) \/ Fails(c)) => \A d \in Conn : Same(d) \/ Fails(d)
  BY <1>1
<1>5. QED
  BY <1>2, <1>3, <1>4 DEF Outcome

(* A step that is none of the connections' business. *)
LEMMA NothingHappens ==
  ASSUME Connections, DuplexTypes', Weather', \A c \in Conn : Untouched(c),
         program["server"] # "up" => program'["server"] # "up",
         UNCHANGED <<faults, g_count>>
  PROVE  Connections' /\ Outcome
<1>1. ASSUME NEW c \in Conn PROVE Talk(c)' /\ Same(c)
  BY Undisturbed DEF Connections
<1>2. faults <= faults'
  BY DEF Connections, DuplexTypes
<1>3. QED
  BY <1>1, <1>2 DEF Connections, Outcome

(* Every step of a side. *)
LEMMA SideStep ==
  ASSUME Connections, NEW e \in Side, NEW c \in Conn, Step(e, c)
  PROVE  Connections' /\ Outcome
<1>1. DuplexTypes /\ Weather /\ Talk(c) /\ \A d \in Conn : Talk(d)
  BY DEF Connections
<1>2. faults \in Nat
  BY <1>1 DEF DuplexTypes
<1>3. CASE WriteSome(e, c)
  <2>1. Handled(c) /\ Same(c) /\ UNCHANGED <<faults, g_count>>
    BY <1>1, <1>3, ClientWrites, ServerWrites DEF Side
  <2>2. QED
    BY <1>2, <2>1, OneHandled
<1>4. CASE ReadSome(e, c)
  <2>1. /\ Handled(c) /\ UNCHANGED faults
        /\ \/ Answers(c) /\ g_count' = g_count + 1
           \/ Asks(c) /\ UNCHANGED g_count
           \/ UNCHANGED g_count /\ Same(c)
    <3>1. CASE e = "client"
      BY <1>1, <1>4, <3>1, ClientReads
    <3>2. CASE e = "server"
      BY <1>1, <1>4, <3>2, ServerReads
    <3>3. QED
      BY <3>1, <3>2 DEF Side
  <2>2. QED
    BY <1>2, <2>1, OneHandled
<1>5. CASE Loses(e, c)
  <2>1. UNCHANGED g_count
    BY <1>5 DEF Loses, counters
  <2>2. CASE GivesUp(e, c)
    <3>1. Handled(c) /\ Same(c) /\ UNCHANGED faults
      BY <1>1, <2>2, GivesUpSame
    <3>2. QED
      BY <1>2, <2>1, <3>1, OneHandled
  <2>3. CASE Throws(e, c, {"read", "timer", "write"})
    BY <1>1, <1>2, <2>1, <2>3, Thrown DEF Connections, Outcome
  <2>4. QED
    BY <1>5, <2>2, <2>3 DEF Loses
<1>6. QED
  BY <1>3, <1>4, <1>5 DEF Step

LEMMA ConnectionsStep ==
  ASSUME Connections, [Next]_vars
  PROVE  Connections' /\ Outcome
<1>1. /\ DuplexTypes /\ Weather /\ \A c \in Conn : Talk(c)
      /\ faults \in Nat
  BY DEF Connections, DuplexTypes
<1>2. ASSUME UNCHANGED <<duplexVars, g_count>> PROVE Connections' /\ Outcome
  <2>1. UNCHANGED duplexVars /\ UNCHANGED g_count
    BY <1>2
  <2>2. DuplexTypes'
    BY <1>1, <2>1 DEF DuplexTypes, duplexVars
  <2>3. Weather'
    BY <1>1, <2>1 DEF Weather, AllOver, SomeReset, duplexVars
  <2>4. \A c \in Conn : Untouched(c)
    BY <2>1 DEF Untouched, KeptLine, KeptAt, duplexVars
  <2>5. UNCHANGED <<program, faults, g_count>>
    BY <2>1 DEF duplexVars
  <2>6. QED
    BY <2>2, <2>3, <2>4, <2>5, NothingHappens
<1>3. ASSUME NEW c \in Conn, ClientStep(c) PROVE Connections' /\ Outcome
  <2>1. CASE Connect(c)
    BY <1>1, <2>1, Connects, OneHandled
  <2>2. CASE Reconnect(c)
    BY <1>2, <2>2 DEF Reconnect
  <2>3. CASE Step("client", c)
    BY <2>3, SideStep, Sides
  <2>4. QED
    BY <1>3, <2>1, <2>2, <2>3 DEF ClientStep
<1>4. ASSUME NEW c \in Conn, ServerStep(c) PROVE Connections' /\ Outcome
  <2>1. CASE Accept(c)
    BY <1>1, <2>1, Accepts, OneHandled
  <2>2. CASE Timeout(c)
    BY <1>1, <2>2, TimesOut, OneHandled
  <2>3. CASE TimerFails(c)
    BY <1>1, <2>3, TimerLost, OneHandled
  <2>4. CASE Step("server", c)
    BY <2>4, SideStep, Sides
  <2>5. QED
    BY <1>4, <2>1, <2>2, <2>3, <2>4 DEF ServerStep
<1>5. CASE ClientReturns
  <2>1. /\ \A c \in Conn : op["client"][c] \in {"over", "new"}
        /\ program' = [program EXCEPT !["client"] = "returned"]
        /\ UNCHANGED <<accepting, op, buffer, offset, link, wire, faults, g_count>>
    BY <1>5 DEF ClientReturns, Returns, counters
  <2>2. AllOver /\ AllOver'
    BY <1>1, <2>1 DEF AllOver, Talk
  <2>3. DuplexTypes' /\ program'["server"] = program["server"]
    BY <1>1, <2>1 DEF DuplexTypes, Side
  <2>4. Weather'
    BY <2>2 DEF Weather
  <2>5. \A c \in Conn : Untouched(c)
    BY <2>1 DEF Untouched, KeptLine, KeptAt
  <2>6. QED
    BY <2>1, <2>3, <2>4, <2>5, NothingHappens
<1>6. CASE AcceptorEnds
  <2>1. Dies("server") /\ faults' = faults + 1 /\ UNCHANGED g_count
    BY <1>6 DEF AcceptorEnds, AcceptFails, Fault, counters
  <2>2. faults' \in Nat /\ faults <= faults' /\ faults' > 0
    BY <1>1, <2>1
  <2>3. QED
    BY <1>1, <2>1, <2>2, Death, Sides DEF Connections, Outcome
<1>7. CASE Network
  <2>1. PICK c \in Conn : Reset(c) /\ UNCHANGED counters
    BY <1>7 DEF Network
  <2>2. Handled(c) /\ (Same(c) \/ Fails(c)) /\ faults <= faults' /\ UNCHANGED g_count
    BY <1>1, <2>1, Resets DEF counters
  <2>3. QED
    BY <2>2, OneHandled
<1>8. CASE UNCHANGED vars
  BY <1>2, <1>8 DEF vars, counters
<1>9. QED
  BY <1>3, <1>4, <1>5, <1>6, <1>7, <1>8 DEF Next

LEMMA ConnectionsInit == Init => Connections /\ g_count = 0
<1> SUFFICES ASSUME Init PROVE Connections /\ g_count = 0
  OBVIOUS
<1>1. /\ program = [e \in Side |-> "up"] /\ accepting = TRUE
      /\ op = PerConn("connect", "new")
      /\ buffer = PerConn(<<>>, <<>>) /\ offset = PerConn(0, 0)
      /\ link = [c \in Conn |-> "none"] /\ wire = PerConn(<<>>, <<>>)
      /\ faults = 0 /\ g_count = 0
  BY DEF Init, DuplexInit
<1>2. <<>> \in Seq(Nat) /\ Len(<<>>) = 0
  BY JoinedEmpty
<1>3. /\ \A e \in Side, c \in Conn : buffer[e][c] = <<>> /\ offset[e][c] = 0 /\ wire[e][c] = <<>>
      /\ \A c \in Conn : op["client"][c] = "connect" /\ op["server"][c] = "new" /\ link[c] = "none"
      /\ program["client"] = "up" /\ program["server"] = "up"
  BY <1>1, Sides DEF PerConn
<1>4. DuplexTypes
  <2>1. op \in [Side -> [Conn -> Ops]]
    BY <1>1 DEF PerConn, Ops
  <2>2. buffer \in [Side -> [Conn -> Seq(Nat)]] /\ wire \in [Side -> [Conn -> Seq(Nat)]]
    BY <1>1, <1>2 DEF PerConn
  <2>3. offset \in [Side -> [Conn -> Nat]]
    BY <1>1 DEF PerConn
  <2>4. program \in [Side -> {"up", "returned", "down"}] /\ link \in [Conn -> {"none", "up", "reset"}]
    BY <1>1
  <2>5. \A e \in Side, c \in Conn : offset[e][c] <= Len(buffer[e][c])
    BY <1>2, <1>3
  <2>6. QED
    BY <1>1, <2>1, <2>2, <2>3, <2>4, <2>5 DEF DuplexTypes
<1>5. Weather
  BY <1>1, <1>3 DEF Weather, SomeReset
<1>6. ASSUME NEW c \in Conn PROVE Talk(c)
  BY <1>3, Sides DEF Talk
<1>7. QED
  BY <1>1, <1>4, <1>5, <1>6 DEF Connections

LEMMA ConnectionsHold == Spec => []Connections
<1>1. Connections /\ [Next]_vars => Connections'
  BY ConnectionsStep
<1>2. QED
  BY <1>1, ConnectionsInit, PTL DEF Spec

(* Whatever operations move in one go, nothing of a message is lost, repeated  *)
(* or made up: Echo's BytesConserved, of on_read and on_write of both programs.  *)
THEOREM BytesConservedCorrect == Spec => []BytesConserved
<1>1. Connections => BytesConserved
  <2> SUFFICES ASSUME Connections, NEW e \in Side, NEW c \in Conn,
                      op[e][c] = "read", op[Peer(e)][c] = "write"
               PROVE  Conversation(e, c) = Message
    BY DEF BytesConserved
  <2>1. DuplexTypes /\ Talk(c)
    BY DEF Connections
  <2> DEFINE r == Received(e, c)
             w == wire[e][c]
             b == buffer[Peer(e)][c]
             o == offset[Peer(e)][c]
  <2>2. b = Message /\ o \in 0..Len(Message) /\ r \o w = Front(Message, o)
    <3>1. CASE e = "client"
      BY <2>1, <3>1, Sides, ReceivedTyped DEF Talk, Reading
    <3>2. CASE e = "server"
      BY <2>1, <3>2, Sides, ReceivedTyped DEF Talk
    <3>3. QED
      BY <3>1, <3>2 DEF Side
  <2>3. Conversation(e, c) = (r \o w) \o From(b, o)
    BY DEF Conversation
  <2>4. Front(Message, o) \o From(Message, o) = Message
    <3> HIDE DEF o
    <3>1. Message \in Seq(Nat)
      BY MessageFacts
    <3>2. QED
      BY <2>2, <3>1, Split
  <2>5. QED
    BY <2>2, <2>3, <2>4
<1>2. QED
  BY <1>1, ConnectionsHold, PTL

(* The connections whose whole reply has been read. *)
Answered == {c \in Conn : Got(c)}

LEMMA CountStep ==
  ASSUME Outcome, CountsReplies
  PROVE  CountsReplies'
<1>1. \A c \in Conn : (Got(c) <=> Phase(c) = "answered") /\ (Got(c)' <=> Phase(c)' = "answered")
  BY DEF Phase
<1>2. IsFiniteSet(Answered)
  <2>1. IsFiniteSet(Conn)
    BY FS_Interval, DuplexAssumption DEF Conn
  <2>2. QED
    BY <2>1, FS_Subset DEF Answered
<1>3. ASSUME NEW c \in Conn, Answers(c), g_count' = g_count + 1, OthersSame(c)
      PROVE  CountsReplies'
  <2>1. Answered' = Answered \cup {c} /\ c \notin Answered
    BY <1>1, <1>3 DEF Answered, Answers, OthersSame, Same
  <2>2. Cardinality(Answered') = Cardinality(Answered) + 1
    BY <1>2, <2>1, FS_AddElement
  <2>3. QED
    BY <1>3, <2>2 DEF CountsReplies, Answered
<1>4. ASSUME NEW c \in Conn, Asks(c), UNCHANGED g_count, OthersSame(c)
      PROVE  CountsReplies'
  <2>1. Answered' = Answered
    BY <1>1, <1>4 DEF Answered, Asks, OthersSame, Same
  <2>2. QED
    BY <1>4, <2>1 DEF CountsReplies, Answered
<1>5. ASSUME UNCHANGED g_count, \A c \in Conn : Same(c) \/ Fails(c)
      PROVE  CountsReplies'
  <2>1. Answered' = Answered
    BY <1>1, <1>5 DEF Answered, Fails, Same
  <2>2. QED
    BY <1>5, <2>1 DEF CountsReplies, Answered
<1>6. QED
  BY <1>3, <1>4, <1>5 DEF Outcome

(* The client's counter is the number of whole replies: Echo's CountsReplies,   *)
(* of ++g_count in on_read.                                                     *)
THEOREM CountsRepliesCorrect == Spec => []CountsReplies
<1>1. Init => CountsReplies
  <2> SUFFICES ASSUME Init PROVE CountsReplies
    OBVIOUS
  <2>1. g_count = 0 /\ \A c \in Conn : op["client"][c] = "connect"
    BY Sides DEF Init, DuplexInit, PerConn
  <2>2. {c \in Conn : Got(c)} = {}
    BY <2>1 DEF Got
  <2>3. QED
    BY <2>1, <2>2, FS_EmptySet DEF CountsReplies
<1>2. Connections /\ [Next]_vars /\ CountsReplies => CountsReplies'
  BY ConnectionsStep, CountStep
<1>3. QED
  BY <1>1, <1>2, ConnectionsHold, PTL DEF Spec

(* Every connection is answered once, after its whole request has arrived, or   *)
(* fails after a fault: Echo implements Exchange, whatever is divided and        *)
(* whatever goes wrong.                                                         *)
THEOREM RefinesExchangeCorrect == Spec => RefinesExchange
<1> DEFINE phase == [c \in Conn |-> Phase(c)]
           faulted == faults > 0
<1>1. /\ X!Init <=> phase = [c \in Conn |-> "new"] /\ faulted \in BOOLEAN
      /\ X!vars = <<phase, faulted>> /\ X!vars' = <<phase', faulted'>>
  BY DEF X!Init, X!vars, Phase
<1>2. /\ \A c \in Conn : X!Ask(c) <=> phase[c] = "new" /\ phase' = [phase EXCEPT ![c] = "asked"]
      /\ \A c \in Conn :
           X!Answer(c) <=> phase[c] = "asked" /\ phase' = [phase EXCEPT ![c] = "answered"]
      /\ \A F \in SUBSET Conn :
           X!Fail(F) <=> /\ faulted'
                         /\ \A c \in F : phase[c] # "answered"
                         /\ phase' = [c \in Conn |-> IF c \in F THEN "failed" ELSE phase[c]]
  BY DEF X!Ask, X!Answer, X!Fail, Phase
<1>3. X!Next <=> /\ faulted => faulted'
                 /\ \/ \E c \in Conn : X!Ask(c) \/ X!Answer(c)
                    \/ \E F \in SUBSET Conn : X!Fail(F)
  BY DEF X!Next
<1>4. Init => X!Init
  <2> SUFFICES ASSUME Init PROVE X!Init
    OBVIOUS
  <2>1. \A c \in Conn : op["client"][c] = "connect" /\ op["server"][c] = "new" /\ link[c] = "none"
    BY Sides DEF Init, DuplexInit, PerConn
  <2>2. \A c \in Conn : Phase(c) = "new"
    BY <2>1 DEF Phase, Got, Replied
  <2>3. QED
    BY <1>1, <2>2
<1>5. Connections /\ [Next]_vars => [X!Next]_(X!vars)
  <2> SUFFICES ASSUME Connections, [Next]_vars PROVE X!Next \/ UNCHANGED X!vars
    OBVIOUS
  <2>1. Outcome /\ faults \in Nat /\ faults' \in Nat
    BY ConnectionsStep DEF Connections, DuplexTypes
  <2>2. faulted => faulted'
    BY <2>1 DEF Outcome
  <2>3. ASSUME NEW c \in Conn, Asks(c) \/ Answers(c), OthersSame(c) PROVE X!Next
    <3>1. X!Ask(c) \/ X!Answer(c)
      BY <1>2, <2>3 DEF Asks, Answers, OthersSame, Same
    <3>2. QED
      BY <1>3, <2>2, <3>1
  <2>4. ASSUME \A c \in Conn : Same(c) \/ Fails(c) PROVE X!Next \/ UNCHANGED X!vars
    <3>1. CASE faulted'
      <4>0. PICK F \in SUBSET Conn : \A c \in Conn : c \in F <=> Fails(c)
        <5>1. {c \in Conn : Fails(c)} \in SUBSET Conn
          OBVIOUS
        <5>2. QED
          BY <5>1
      <4>1. phase' = [c \in Conn |-> IF c \in F THEN "failed" ELSE phase[c]]
        BY <2>4, <4>0 DEF Same, Fails
      <4>2. \A c \in F : phase[c] # "answered"
        BY <4>0 DEF Fails
      <4> HIDE DEF phase
      <4>3. X!Fail(F)
        BY <1>2, <3>1, <4>1, <4>2
      <4>4. QED
        BY <1>3, <2>2, <4>3
    <3>2. CASE ~faulted'
      <4>1. \A c \in Conn : Same(c)
        BY <2>4, <3>2 DEF Fails
      <4>2. phase' = phase
        BY <4>1 DEF Same
      <4>3. faulted' = faulted
        BY <2>2, <3>2
      <4>4. QED
        BY <1>1, <4>2, <4>3
    <3>3. QED
      BY <3>1, <3>2
  <2>5. QED
    BY <2>1, <2>3, <2>4 DEF Outcome
<1>6. QED
  BY <1>4, <1>5, ConnectionsHold, PTL DEF Spec, RefinesExchange, X!Spec

------------------------------------------------------------------------------
(* What the operations of Duplex do, for the other echo programs: one side of  *)
(* one connection moves on, the program goes on.                                *)
SideMoves(e, c, next, b, o) ==
  /\ Moved(e, c, next, b, o) /\ DuplexTypes' /\ Weather' /\ Others(c)
  /\ AllOver => AllOver'
  /\ UNCHANGED program

LEMMA StartsSide ==
  ASSUME DuplexTypes, Weather, NEW e \in Side, NEW c \in Conn, NEW next \in Ops,
         NEW b \in Seq(Nat), NEW o \in Nat, o <= Len(b), Starts(e, c, next, b, o),
         e = "server" \/ op["client"][c] # "over",
         wire' \in [Side -> [Conn -> Seq(Nat)]], accepting' \in BOOLEAN,
         \A d \in Conn \ {c}, f \in Side : wire'[f][d] = wire[f][d],
         UNCHANGED <<program, link, faults>>
  PROVE  SideMoves(e, c, next, b, o)
<1>1. PlaceTypes' /\ Moved(e, c, next, b, o)
  BY StartsOne
<1>2. faults' \in Nat /\ faults <= faults'
  BY DEF DuplexTypes
<1>3. DuplexTypes' /\ Weather' /\ Others(c)
  BY <1>1, <1>2, OneSide
<1>4. AllOver => AllOver'
  BY <1>1, OverStays
<1>5. QED
  BY <1>1, <1>3, <1>4 DEF SideMoves

LEMMA ConnectedSide ==
  ASSUME DuplexTypes, Weather, NEW c \in Conn, NEW next \in Ops, NEW b \in Seq(Nat),
         Connected(c, next, b)
  PROVE  /\ SideMoves("client", c, next, b, 0)
         /\ op["client"][c] = "connect" /\ program["server"] = "up" /\ link'[c] = "up"
         /\ UNCHANGED <<accepting, wire, faults>>
<1>1. /\ op["client"][c] = "connect" /\ program["server"] = "up"
      /\ link' = [link EXCEPT ![c] = "up"] /\ Starts("client", c, next, b, 0)
      /\ UNCHANGED <<program, accepting, wire, faults>>
  BY DEF Connected
<1>2. PlaceTypes' /\ Moved("client", c, next, b, 0)
  <2>1. 0 <= Len(b) /\ 0 \in Nat
    BY LenProperties
  <2>2. QED
    BY <1>1, <2>1, StartsOne, Sides
<1>3. /\ link' \in [Conn -> {"none", "up", "reset"}] /\ link'[c] = "up"
      /\ \A d \in Conn \ {c} : link'[d] = link[d]
  BY <1>1 DEF DuplexTypes
<1>4. DuplexTypes'
  BY <1>1, <1>2, <1>3, TypesAfter DEF DuplexTypes
<1>5. AllOver => AllOver'
  BY <1>1 DEF AllOver
<1>6. Weather'
  <2>1. SomeReset' => SomeReset
    BY <1>3 DEF SomeReset
  <2>2. faults \in Nat /\ faults' \in Nat /\ faults <= faults'
    BY <1>1 DEF DuplexTypes
  <2>3. QED
    BY <1>1, <1>5, <2>1, <2>2, WeatherKept
<1>7. Others(c)
  <2>1. \A d \in Conn \ {c} : KeptLine(d)
    BY <1>1, <1>3 DEF KeptLine
  <2>2. QED
    BY <1>2, <2>1, Elsewhere, Sides
<1>8. QED
  BY <1>1, <1>2, <1>3, <1>4, <1>5, <1>6, <1>7 DEF SideMoves

LEMMA AcceptedSide ==
  ASSUME DuplexTypes, Weather, NEW c \in Conn, NEW b \in Seq(Nat), Accepted(c, TRUE, b)
  PROVE  /\ SideMoves("server", c, "read", b, 0)
         /\ link[c] # "none" /\ op["server"][c] = "new" /\ accepting' = TRUE
         /\ UNCHANGED <<link, wire, faults>>
<1>1. /\ link[c] # "none" /\ op["server"][c] = "new" /\ accepting' = TRUE
      /\ Starts("server", c, "read", b, 0)
      /\ UNCHANGED <<program, link, wire, faults>>
  BY DEF Accepted
<1>2. /\ wire' \in [Side -> [Conn -> Seq(Nat)]] /\ accepting' \in BOOLEAN
      /\ \A d \in Conn \ {c}, f \in Side : wire'[f][d] = wire[f][d]
      /\ 0 <= Len(b) /\ 0 \in Nat /\ "read" \in Ops
  BY <1>1, LenProperties DEF DuplexTypes, Ops
<1>3. SideMoves("server", c, "read", b, 0)
  BY <1>1, <1>2, StartsSide, Sides
<1>4. QED
  BY <1>1, <1>3

LEMMA WrittenSide ==
  ASSUME DuplexTypes, Weather, NEW e \in Side, NEW c \in Conn, NEW k, Written(e, c, k),
         NEW next \in Ops, NEW b \in Seq(Nat), NEW o \in Nat, o <= Len(b),
         Starts(e, c, next, b, o)
  PROVE  SideMoves(e, c, next, b, o) /\ Wrote(e, c, k) /\ wire'[Peer(e)][c] # <<>>
<1>1. Wrote(e, c, k)
  BY WrittenOne
<1>2. SideMoves(e, c, next, b, o)
  BY <1>1, StartsSide DEF Wrote, DuplexTypes, Side
<1> DEFINE q == wire[Peer(e)][c]
           p == buffer[e][c]
           i == offset[e][c]
           t == Front(From(p, i), k)
<1>3. wire'[Peer(e)][c] = q \o t /\ k \in Nat \ {0} /\ i + k <= Len(p)
  BY <1>1 DEF Wrote
<1>4. p \in Seq(Nat) /\ i \in 0..Len(p) /\ Len(p) \in Nat /\ q \in Seq(Nat)
  BY ReceivedTyped, Sides
<1> HIDE DEF p, i, q
<1>5. From(p, i) \in Seq(Nat) /\ Len(From(p, i)) = Len(p) - i
  BY <1>4, Split
<1>6. k \in 0..Len(From(p, i))
  BY <1>3, <1>4, <1>5
<1>7. t \in Seq(Nat) /\ Len(t) = k
  BY <1>5, <1>6, Split
<1> HIDE DEF t
<1>8. Len(q \o t) = Len(q) + Len(t) /\ Len(q) \in Nat
  BY <1>4, <1>7, ConcatProperties, LenProperties
<1>9. q \o t # <<>>
  BY <1>3, <1>7, <1>8, JoinedEmpty
<1>10. QED
  BY <1>1, <1>2, <1>3, <1>9

LEMMA ReadSide ==
  ASSUME DuplexTypes, Weather, NEW e \in Side, NEW c \in Conn, NEW k, Read(e, c, k),
         NEW next \in Ops, NEW b \in Seq(Nat), NEW o \in Nat, o <= Len(b),
         Starts(e, c, next, b, o)
  PROVE  SideMoves(e, c, next, b, o) /\ HasRead(e, c, k)
<1>1. HasRead(e, c, k)
  BY ReadOne
<1>2. SideMoves(e, c, next, b, o)
  BY <1>1, StartsSide DEF HasRead, DuplexTypes, Side
<1>3. QED
  BY <1>1, <1>2

LEMMA LeftSide ==
  ASSUME DuplexTypes, Weather, NEW e \in Side, NEW c \in Conn, LetsGo(e, c),
         op[e][c] # "over", faults' \in Nat, faults <= faults'
  PROVE  /\ SideMoves(e, c, "over", buffer[e][c], offset[e][c])
         /\ Closes(e, c) /\ UNCHANGED <<accepting, link, wire>>
<1>1. /\ PlaceTypes' /\ Moved(e, c, "over", buffer[e][c], offset[e][c])
      /\ Closes(e, c) /\ UNCHANGED <<program, accepting, link, wire>>
  BY LeavesOne
<1>2. e = "server" \/ op["client"][c] # "over"
  BY DEF Side
<1>3. DuplexTypes' /\ Weather' /\ Others(c)
  <2>1. /\ wire' \in [Side -> [Conn -> Seq(Nat)]] /\ accepting' \in BOOLEAN
        /\ \A d \in Conn \ {c}, f \in Side : wire'[f][d] = wire[f][d]
    BY <1>1 DEF DuplexTypes
  <2>2. QED
    BY <1>1, <1>2, <2>1, OneSide
<1>4. AllOver => AllOver'
  BY <1>1, <1>2, OverStays
<1>5. QED
  BY <1>1, <1>3, <1>4 DEF SideMoves

(* The side that moves and its peer. *)
LEMMA SideFacts ==
  ASSUME NEW e \in Side, NEW c \in Conn, NEW next, NEW b, NEW o, SideMoves(e, c, next, b, o)
  PROVE  /\ op'[e][c] = next /\ buffer'[e][c] = b /\ offset'[e][c] = o
         /\ op'[Peer(e)][c] = op[Peer(e)][c] /\ buffer'[Peer(e)][c] = buffer[Peer(e)][c]
         /\ offset'[Peer(e)][c] = offset[Peer(e)][c]
         /\ \A d \in Conn \ {c}, f \in Side : op'[f][d] = op[f][d]
         /\ program' = program
BY DEF SideMoves, Moved, KeptAt

(* While both programs of it are at work a server goes on accepting. *)
Acceptor == ~accepting /\ faults = 0 => AllOver

(* A reset, or an exception, has a cause while a client is at work. *)
LEMMA ResetCause ==
  ASSUME DuplexTypes, Weather, NEW c \in Conn, Reset(c)
  PROVE  /\ DuplexTypes' /\ Weather' /\ Others(c) /\ faults <= faults'
         /\ faults' > 0 \/ AllOver
         /\ link[c] = "up" /\ link'[c] = "reset"
         /\ AllOver => AllOver'
         /\ UNCHANGED <<program, accepting, op, buffer, offset, wire>>
<1>1. /\ link[c] = "up" /\ link' = [link EXCEPT ![c] = "reset"]
      /\ IF \A e \in Side : program[e] = "up" THEN Fault ELSE UNCHANGED faults
      /\ UNCHANGED <<program, accepting, op, buffer, offset, wire>>
  BY DEF Reset
<1>2. faults \in Nat /\ faults' \in Nat /\ faults <= faults'
  BY <1>1 DEF DuplexTypes, Fault
<1>3. /\ link' \in [Conn -> {"none", "up", "reset"}] /\ link'[c] = "reset"
      /\ \A d \in Conn \ {c} : link'[d] = link[d]
  BY <1>1 DEF DuplexTypes
<1>4. DuplexTypes'
  BY <1>1, <1>2, <1>3 DEF DuplexTypes
<1>5. Others(c)
  BY <1>1, <1>3 DEF Others, Untouched, KeptAt, KeptLine
<1>6. faults' > 0 \/ AllOver
  BY <1>1, <1>2 DEF Weather, Fault, Side
<1>7. AllOver' <=> AllOver
  BY <1>1 DEF AllOver
<1>8. Weather'
  BY <1>1, <1>2, <1>6, <1>7 DEF Weather
<1>9. QED
  BY <1>1, <1>2, <1>3, <1>4, <1>5, <1>6, <1>7, <1>8

LEMMA DeathCause ==
  ASSUME DuplexTypes, Weather, NEW e \in Side, Dies(e), faults' \in Nat, faults <= faults',
         faults' > 0 \/ AllOver \/ e = "client"
  PROVE  /\ DuplexTypes' /\ Weather' /\ \A c \in Conn : Closes(e, c)
         /\ (AllOver => AllOver') /\ (e = "client" => AllOver')
         /\ program'[e] = "down" /\ program'[Peer(e)] = program[Peer(e)] /\ UNCHANGED link
<1>1. /\ DuplexTypes' /\ \A c \in Conn : Closes(e, c)
      /\ program'[e] = "down" /\ program'[Peer(e)] = program[Peer(e)] /\ UNCHANGED link
  BY DeathOfAll
<1>2. CASE e = "client"
  <2>1. AllOver'
    BY <1>1, <1>2 DEF AllOver, Closes
  <2>2. QED
    BY <1>1, <1>2, <2>1 DEF Weather
<1>3. CASE e = "server"
  <2>1. AllOver => AllOver'
    BY <1>1, <1>3, Sides DEF AllOver, Closes
  <2>2. program'["client"] = program["client"] /\ faults \in Nat
    BY <1>1, <1>3, Sides DEF DuplexTypes
  <2>3. QED
    BY <1>1, <1>3, <2>1, <2>2 DEF Weather
<1>4. QED
  BY <1>2, <1>3 DEF Side

------------------------------------------------------------------------------
(* TaskEcho. *)
CONSTANTS ClientTypes, ServerTypes, Zero, Room

T == INSTANCE TaskEcho

(* How far a connection of TaskEcho is. *)
TaskTalk(c) ==
  LET cl == op["client"][c]  sv == op["server"][c] IN
  /\ cl \in {"connect", "write", "read", "over"}
  /\ sv \in {"new", "read", "write", "over"}
  /\ cl # "over" => offset["client"][c] = 0
  /\ sv # "over" => wire["client"][c] = <<>>
  /\ cl \in {"connect", "write"} =>
       wire["client"][c] = <<>> /\ wire["server"][c] = <<>> /\ sv # "write"
  /\ cl = "connect" => link[c] = "none" /\ (sv = "new" \/ program["server"] # "up")

FrameRight(e, c) ==
  program[e] # "down" =>
    (frame[e][c] = "suspended" <=> T!IsTask(e) /\ op[e][c] \in {"read", "write"})

TaskTypes ==
  /\ type \in [Side -> T!AsyncType]
  /\ frame \in [Side -> [Conn -> {"none", "suspended", "destroyed"}]]
  /\ promise \in [Side -> [Conn -> {"ok", "error"}]]
  /\ got \in [Side -> [Conn -> {"none", "ok", "error"}]]

Frames == TaskTypes /\ \A e \in Side, c \in Conn : FrameRight(e, c)

TaskPhase(c) ==
  IF TaskGot(c) THEN "answered"
  ELSE IF \/ op["client"][c] = "over" \/ link[c] = "reset"
          \/ op["server"][c] = "over" /\ wire["client"][c] = <<>>
       THEN "failed"
  ELSE IF op["server"][c] \in {"write", "over"} THEN "asked"
  ELSE "new"

TaskFaulted ==
  faults > 0 \/ type["client"] = "CoroResumeValue" \/ type["server"] \notin T!KnownStyles

TaskSame(c) == TaskPhase(c)' = TaskPhase(c)
TaskAsks(c) == TaskPhase(c) = "new" /\ TaskPhase(c)' = "asked"
TaskAnswers(c) == TaskPhase(c) = "asked" /\ TaskPhase(c)' = "answered"
TaskFails(c) == TaskPhase(c) # "answered" /\ TaskPhase(c)' = "failed" /\ TaskFaulted'

(* The inductive invariant of TaskEcho. *)
Tasks ==
  DuplexTypes /\ Weather /\ Acceptor /\ Frames /\ \A c \in Conn : TaskTalk(c)

(* The module's copies of what it takes from Duplex. *)
LEMMA TaskNames ==
  /\ T!Conn = Conn /\ T!Side = Side
  /\ \A e \in Side : T!Peer(e) = Peer(e)
  /\ \A c, next, b : T!Connected(c, next, b) <=> Connected(c, next, b)
  /\ \A c, again, b : T!Accepted(c, again, b) <=> Accepted(c, again, b)
  /\ \A e, c, k : T!Written(e, c, k) <=> Written(e, c, k)
  /\ \A e, c, k : T!Read(e, c, k) <=> Read(e, c, k)
  /\ \A e, c : T!LetsGo(e, c) <=> LetsGo(e, c)
  /\ \A e, c : T!GivesUp(e, c) <=> GivesUp(e, c)
  /\ \A e : T!Dies(e) <=> Dies(e)
  /\ \A e : T!Returns(e) <=> Returns(e)
  /\ \A c : T!Reset(c) <=> Reset(c)
  /\ T!Fault <=> Fault
<1>1. T!Conn = Conn /\ T!Side = Side /\ \A e \in Side : T!Peer(e) = Peer(e)
  BY DEF T!Conn, Conn, T!Side, Side, T!Peer, Peer
<1>2. \A c, next, b : T!Connected(c, next, b) <=> Connected(c, next, b)
  BY DEF T!Connected, Connected, T!Starts, Starts
<1>3. \A c, again, b : T!Accepted(c, again, b) <=> Accepted(c, again, b)
  BY DEF T!Accepted, Accepted, T!Starts, Starts
<1>4. \A e, c, k : T!Written(e, c, k) <=> Written(e, c, k)
  BY DEF T!Written, Written, T!From, From, T!Amounts, Amounts, T!Front, Front, T!Peer, Peer
<1>5. \A e, c, k : T!Read(e, c, k) <=> Read(e, c, k)
  BY DEF T!Read, Read, T!From, From, T!Amounts, Amounts
<1>6. \A e, c : T!LetsGo(e, c) <=> LetsGo(e, c)
  BY DEF T!LetsGo, LetsGo
<1>7. \A e, c : T!GivesUp(e, c) <=> GivesUp(e, c)
  BY DEF T!GivesUp, GivesUp, T!LetsGo, LetsGo, T!Peer, Peer
<1>8. \A e : T!Dies(e) <=> Dies(e)
  BY DEF T!Dies, Dies, T!Conn, Conn
<1>9. \A e : T!Returns(e) <=> Returns(e)
  BY DEF T!Returns, Returns, T!Conn, Conn
<1>10. \A c : T!Reset(c) <=> Reset(c)
  BY DEF T!Reset, Reset, T!Side, Side, T!Fault, Fault
<1>11. T!Fault <=> Fault
  BY DEF T!Fault, Fault
<1>12. QED
  BY <1>1, <1>2, <1>3, <1>4, <1>5, <1>6, <1>7, <1>8, <1>9, <1>10, <1>11

Running == {"read", "write"}

(* The frame of a task becomes v. *)
FrameBecomes(e, c, v) ==
  frame' = IF T!IsTask(e) THEN [frame EXCEPT ![e][c] = v] ELSE frame

LEMMA FramePlace ==
  ASSUME TaskTypes, NEW e \in Side, NEW c \in Conn,
         NEW v \in {"none", "suspended", "destroyed"}, FrameBecomes(e, c, v)
  PROVE  /\ frame' \in [Side -> [Conn -> {"none", "suspended", "destroyed"}]]
         /\ frame'[e][c] = IF T!IsTask(e) THEN v ELSE frame[e][c]
         /\ frame'[Peer(e)][c] = frame[Peer(e)][c]
         /\ \A d \in Conn \ {c}, f \in Side : frame'[f][d] = frame[f][d]
<1>1. CASE T!IsTask(e)
  <2> DEFINE S == {"none", "suspended", "destroyed"}
  <2>1. frame \in Places(S) /\ Put(frame', frame, e, c, v) /\ v \in S
    BY <1>1 DEF TaskTypes, Places, Put, FrameBecomes
  <2> HIDE DEF S
  <2>2. /\ frame' \in Places(S)
        /\ frame'[e][c] = v /\ frame'[Peer(e)][c] = frame[Peer(e)][c]
        /\ \A d \in Conn \ {c}, f \in Side : frame'[f][d] = frame[f][d]
    BY <2>1, OnePlace
  <2>3. QED
    BY <1>1, <2>2 DEF Places, S
<1>2. CASE ~T!IsTask(e)
  BY <1>2 DEF TaskTypes, FrameBecomes
<1>3. QED
  BY <1>1, <1>2

(* A frame is made, destroyed or kept as the operation under way asks for. *)
LEMMA FramesMove ==
  ASSUME Frames, NEW e \in Side, NEW c \in Conn, NEW next, NEW b, NEW o,
         SideMoves(e, c, next, b, o), type' = type,
         promise' \in [Side -> [Conn -> {"ok", "error"}]],
         got' \in [Side -> [Conn -> {"none", "ok", "error"}]],
         \/ T!Suspends(e, c) /\ next \in Running
         \/ FrameBecomes(e, c, "destroyed") /\ next \notin Running
         \/ frame' = frame /\ (next \in Running <=> op[e][c] \in Running)
  PROVE  Frames'
<1>1. TaskTypes /\ \A f \in Side, d \in Conn : FrameRight(f, d)
  BY DEF Frames
<1>2. /\ frame' \in [Side -> [Conn -> {"none", "suspended", "destroyed"}]]
      /\ frame'[Peer(e)][c] = frame[Peer(e)][c]
      /\ \A d \in Conn \ {c}, f \in Side : frame'[f][d] = frame[f][d]
      /\ program[e] # "down" =>
           (frame'[e][c] = "suspended" <=> T!IsTask(e) /\ next \in Running)
  <2>1. program[e] # "down" =>
          (frame[e][c] = "suspended" <=> T!IsTask(e) /\ op[e][c] \in Running)
    BY <1>1 DEF FrameRight, Running
  <2>2. CASE T!Suspends(e, c) /\ next \in Running
    <3>1. FrameBecomes(e, c, "suspended")
      BY <2>2 DEF T!Suspends, FrameBecomes
    <3>2. /\ frame' \in [Side -> [Conn -> {"none", "suspended", "destroyed"}]]
          /\ frame'[e][c] = IF T!IsTask(e) THEN "suspended" ELSE frame[e][c]
          /\ frame'[Peer(e)][c] = frame[Peer(e)][c]
          /\ \A d \in Conn \ {c}, f \in Side : frame'[f][d] = frame[f][d]
      BY <1>1, <3>1, FramePlace
    <3>3. QED
      BY <2>1, <2>2, <3>2
  <2>3. CASE FrameBecomes(e, c, "destroyed") /\ next \notin Running
    <3>1. /\ frame' \in [Side -> [Conn -> {"none", "suspended", "destroyed"}]]
          /\ frame'[e][c] = IF T!IsTask(e) THEN "destroyed" ELSE frame[e][c]
          /\ frame'[Peer(e)][c] = frame[Peer(e)][c]
          /\ \A d \in Conn \ {c}, f \in Side : frame'[f][d] = frame[f][d]
      BY <1>1, <2>3, FramePlace
    <3>2. QED
      BY <2>1, <2>3, <3>1
  <2>4. CASE frame' = frame /\ (next \in Running <=> op[e][c] \in Running)
    BY <1>1, <2>1, <2>4 DEF TaskTypes
  <2>5. QED
    BY <2>2, <2>3, <2>4
<1>3. /\ op'[e][c] = next /\ op'[Peer(e)][c] = op[Peer(e)][c] /\ program' = program
      /\ \A d \in Conn \ {c}, f \in Side : op'[f][d] = op[f][d]
  BY SideFacts
<1>4. \A f : T!IsTask(f)' <=> T!IsTask(f)
  BY DEF T!IsTask
<1>5. ASSUME NEW f \in Side, NEW d \in Conn PROVE FrameRight(f, d)'
  <2>1. FrameRight(f, d)
    BY <1>1
  <2>2. CASE d = c /\ f = e
    BY <1>2, <1>3, <1>4, <2>2 DEF FrameRight, Running
  <2>3. CASE d = c /\ f = Peer(e)
    BY <1>2, <1>3, <1>4, <2>1, <2>3 DEF FrameRight
  <2>4. CASE d # c
    <3>1. frame'[f][d] = frame[f][d] /\ op'[f][d] = op[f][d]
      BY <1>2, <1>3, <2>4
    <3>2. QED
      BY <1>3, <1>4, <2>1, <3>1 DEF FrameRight
  <2>5. QED
    BY <2>2, <2>3, <2>4, Sides
<1>6. TaskTypes'
  BY <1>1, <1>2 DEF TaskTypes
<1>7. QED
  BY <1>5, <1>6 DEF Frames

(* get() returns one of the promise's values. *)
LEMMA GetTyped ==
  ASSUME TaskTypes, NEW e \in Side, NEW c \in Conn, T!Get(e, c)
  PROVE  /\ type' = type /\ promise' \in [Side -> [Conn -> {"ok", "error"}]]
         /\ got' \in [Side -> [Conn -> {"none", "ok", "error"}]]
BY DEF T!Get, TaskTypes

LEMMA ReturnsTyped ==
  ASSUME TaskTypes, NEW e \in Side, NEW c \in Conn, NEW result \in {"ok", "error"},
         T!CoReturns(e, c, result)
  PROVE  /\ type' = type /\ promise' \in [Side -> [Conn -> {"ok", "error"}]]
         /\ got' \in [Side -> [Conn -> {"none", "ok", "error"}]]
         /\ FrameBecomes(e, c, "destroyed")
<1>1. /\ promise' = IF T!CallsGet(e) THEN [promise EXCEPT ![e][c] = result] ELSE promise
      /\ frame' = IF T!IsTask(e) THEN [frame EXCEPT ![e][c] = "destroyed"] ELSE frame
      /\ UNCHANGED <<type, got>>
  BY DEF T!CoReturns
<1>2. promise' \in [Side -> [Conn -> {"ok", "error"}]]
  BY <1>1 DEF TaskTypes
<1>3. QED
  BY <1>1, <1>2 DEF TaskTypes, FrameBecomes

(* An exception may leave frames behind, in its own program. *)
LEMMA FramesDeath ==
  ASSUME Frames, NEW e \in Side, \A c \in Conn : op'[Peer(e)][c] = op[Peer(e)][c],
         program'[e] = "down",
         program'[Peer(e)] = program[Peer(e)], UNCHANGED <<type, frame, promise, got>>
  PROVE  Frames'
<1>1. TaskTypes'
  BY DEF Frames, TaskTypes
<1>2. ASSUME NEW f \in Side, NEW c \in Conn PROVE FrameRight(f, c)'
  <2>1. FrameRight(f, c) /\ op'[Peer(e)][c] = op[Peer(e)][c]
    BY DEF Frames
  <2>2. T!IsTask(f)' <=> T!IsTask(f)
    BY DEF T!IsTask
  <2>3. QED
    BY <2>1, <2>2, Sides DEF FrameRight
<1>3. QED
  BY <1>1, <1>2 DEF Frames

(* Nothing happens to a frame. *)
LEMMA FramesKept ==
  ASSUME Frames, UNCHANGED <<op, type, frame, promise, got>>,
         \A e \in Side : program[e] = "down" => program'[e] = "down"
  PROVE  Frames'
<1>1. TaskTypes'
  BY DEF Frames, TaskTypes
<1>2. ASSUME NEW f \in Side, NEW c \in Conn PROVE FrameRight(f, c)'
  <2>1. FrameRight(f, c)
    BY DEF Frames
  <2>2. T!IsTask(f)' <=> T!IsTask(f)
    BY DEF T!IsTask
  <2>3. /\ frame'[f][c] = frame[f][c] /\ op'[f][c] = op[f][c]
        /\ program[f] = "down" => program'[f] = "down"
    OBVIOUS
  <2>4. QED
    BY <2>1, <2>2, <2>3 DEF FrameRight
<1>3. QED
  BY <1>1, <1>2 DEF Frames

LEMMA TaskStarts ==
  /\ \A e, c, next, b, o : T!Starts(e, c, next, b, o) <=> Starts(e, c, next, b, o)
  /\ \A e, c, k : T!Filled(e, c, k) = Filled(e, c, k)
  /\ \A e, c, ops : T!Throws(e, c, ops) <=> Throws(e, c, ops)
<1>1. \A e, c, next, b, o : T!Starts(e, c, next, b, o) <=> Starts(e, c, next, b, o)
  BY DEF T!Starts, Starts
<1>2. \A e, c, k : T!Filled(e, c, k) = Filled(e, c, k)
  BY DEF T!Filled, Filled, T!Store, Store, T!Front, Front
<1>3. \A e, c, ops : T!Throws(e, c, ops) <=> Throws(e, c, ops)
  BY DEF T!Throws, Throws, T!Dies, Dies, T!Conn, Conn
<1>4. QED
  BY <1>1, <1>2, <1>3

(* What the programs write and read into. *)
LEMMA TaskWords ==
  ASSUME T!TaskEchoAssumption
  PROVE  /\ T!Resize(<<>>, Room, Zero) \in Seq(Nat)
         /\ \A b \in Seq(Nat) : 0 \in Nat /\ 0 <= Len(b)
         /\ \A e \in Side : Text[e] \in Seq(Nat)
<1>1. /\ Room \in Nat /\ Zero \in Nat
      /\ \A e \in Side : Text[e] \in Seq(Nat)
  BY DEF T!TaskEchoAssumption, T!Side, Side
<1>2. \A b \in Seq(Nat) : 0 \in Nat /\ 0 <= Len(b)
  BY LenProperties
<1>3. T!Resize(<<>>, Room, Zero) \in Seq(Nat)
  <2> DEFINE r == T!Resize(<<>>, Room, Zero)
  <2>1. r \in [1..Room -> Nat]
    BY <1>1, EmptySeq DEF T!Resize
  <2>2. QED
    BY <1>1, <2>1
<1>4. QED
  BY <1>1, <1>2, <1>3

(* The acceptor after a step that leaves it alone. *)
LEMMA AcceptorKept ==
  ASSUME Acceptor, DuplexTypes, AllOver => AllOver', accepting => accepting',
         faults' \in Nat, faults <= faults'
  PROVE  Acceptor'
BY DEF Acceptor, DuplexTypes

(* A step of one connection that goes on. *)
TaskHandled(c) ==
  /\ DuplexTypes' /\ Weather' /\ Acceptor' /\ Frames' /\ TaskTalk(c)'
  /\ Others(c) /\ UNCHANGED <<program, type>> /\ faults <= faults'

(* A step that begins, ends or goes on with the task of one connection. *)
LEMMA TaskMoves ==
  ASSUME DuplexTypes, Acceptor, NEW e \in Side, NEW c \in Conn, NEW next, NEW b, NEW o,
         SideMoves(e, c, next, b, o), Frames', TaskTalk(c)', type' = type,
         accepting => accepting', faults <= faults'
  PROVE  TaskHandled(c)
<1>1. /\ DuplexTypes' /\ Weather' /\ Others(c) /\ program' = program
      /\ AllOver => AllOver'
  BY DEF SideMoves
<1>2. faults' \in Nat
  BY <1>1 DEF DuplexTypes
<1>3. Acceptor'
  BY <1>1, <1>2, AcceptorKept
<1>4. QED
  BY <1>1, <1>3 DEF TaskHandled

LEMMA TaskConnects ==
  ASSUME T!TaskEchoAssumption, DuplexTypes, Weather, Acceptor, Frames,
         NEW c \in Conn, TaskTalk(c), T!Connect(c)
  PROVE  TaskHandled(c) /\ TaskSame(c)
<1>1. /\ Connected(c, "write", Text["client"])
      /\ T!Suspends("client", c) /\ T!Get("client", c)
  BY TaskNames DEF T!Connect
<1>2. Text["client"] \in Seq(Nat) /\ "write" \in Ops
  BY TaskWords, Sides DEF Ops
<1>3. /\ SideMoves("client", c, "write", Text["client"], 0)
      /\ op["client"][c] = "connect" /\ program["server"] = "up" /\ link'[c] = "up"
      /\ UNCHANGED <<accepting, wire, faults>>
  BY <1>1, <1>2, ConnectedSide
<1>4. /\ op'["client"][c] = "write" /\ offset'["client"][c] = 0
      /\ op'["server"][c] = op["server"][c] /\ program' = program
  BY <1>3, SideFacts, Sides
<1>5. TaskTalk(c)'
  BY <1>3, <1>4 DEF TaskTalk
<1>6. /\ type' = type /\ promise' \in [Side -> [Conn -> {"ok", "error"}]]
      /\ got' \in [Side -> [Conn -> {"none", "ok", "error"}]]
  BY <1>1, GetTyped, Sides DEF Frames
<1>7. Frames'
  BY <1>1, <1>3, <1>6, FramesMove, Sides DEF Running
<1>8. faults <= faults'
  BY <1>3 DEF DuplexTypes
<1>9. TaskHandled(c)
  BY <1>3, <1>5, <1>6, <1>7, <1>8, TaskMoves, Sides
<1>10. TaskSame(c)
  BY <1>3, <1>4 DEF TaskTalk, TaskSame, TaskPhase, TaskGot
<1>11. QED
  BY <1>9, <1>10

LEMMA TaskConnectFails ==
  ASSUME DuplexTypes, Weather, Acceptor, Frames, NEW c \in Conn, TaskTalk(c),
         T!ConnectFails(c)
  PROVE  TaskHandled(c) /\ TaskFails(c)
<1>1. /\ op["client"][c] = "connect" /\ LetsGo("client", c)
      /\ IF program["server"] = "up" THEN Fault ELSE UNCHANGED faults
      /\ UNCHANGED <<type, frame, promise, got>>
  BY TaskNames DEF T!ConnectFails, T!taskVars
<1>2. faults \in Nat /\ faults' \in Nat /\ faults <= faults'
  BY <1>1 DEF DuplexTypes, Fault
<1>3. faults' > 0
  BY <1>1, <1>2 DEF Weather, AllOver, Fault
<1>4. /\ SideMoves("client", c, "over", buffer["client"][c], offset["client"][c])
      /\ UNCHANGED <<accepting, link, wire>>
  BY <1>1, <1>2, LeftSide, Sides
<1>5. /\ op'["client"][c] = "over" /\ offset'["client"][c] = offset["client"][c]
      /\ op'["server"][c] = op["server"][c] /\ program' = program
  BY <1>4, SideFacts, Sides
<1>6. TaskTalk(c)'
  BY <1>1, <1>4, <1>5 DEF TaskTalk
<1>7. Frames'
  BY <1>1, <1>4, FramesMove, Sides DEF Frames, TaskTypes, Running
<1>8. TaskHandled(c)
  BY <1>1, <1>2, <1>4, <1>6, <1>7, TaskMoves, Sides
<1>9. offset["client"][c] = 0
  BY <1>1 DEF TaskTalk
<1>10. TaskFails(c)
  BY <1>1, <1>3, <1>5, <1>9 DEF TaskFails, TaskPhase, TaskFaulted, TaskGot
<1>11. QED
  BY <1>8, <1>10

LEMMA TaskAccepts ==
  ASSUME T!TaskEchoAssumption, DuplexTypes, Weather, Acceptor, Frames,
         NEW c \in Conn, TaskTalk(c), T!Accept(c)
  PROVE  TaskHandled(c) /\ TaskSame(c)
<1> DEFINE b == T!Resize(<<>>, Room, Zero)
<1>1. Accepted(c, TRUE, b) /\ T!Suspends("server", c) /\ T!Get("server", c)
  BY TaskNames DEF T!Accept
<1>2. b \in Seq(Nat)
  BY TaskWords
<1> HIDE DEF b
<1>3. /\ SideMoves("server", c, "read", b, 0)
      /\ link[c] # "none" /\ op["server"][c] = "new" /\ accepting' = TRUE
      /\ UNCHANGED <<link, wire, faults>>
  BY <1>1, <1>2, AcceptedSide
<1>4. /\ op'["server"][c] = "read"
      /\ op'["client"][c] = op["client"][c] /\ offset'["client"][c] = offset["client"][c]
  BY <1>3, SideFacts, Sides
<1>5. TaskTalk(c)'
  BY <1>3, <1>4 DEF TaskTalk
<1>6. /\ type' = type /\ promise' \in [Side -> [Conn -> {"ok", "error"}]]
      /\ got' \in [Side -> [Conn -> {"none", "ok", "error"}]]
  BY <1>1, GetTyped, Sides DEF Frames
<1>7. Frames'
  BY <1>1, <1>3, <1>6, FramesMove, Sides DEF Running
<1>8. faults <= faults'
  BY <1>3 DEF DuplexTypes
<1>9. TaskHandled(c)
  BY <1>3, <1>5, <1>6, <1>7, <1>8, TaskMoves, Sides
<1>10. TaskSame(c)
  BY <1>3, <1>4 DEF TaskSame, TaskPhase, TaskGot
<1>11. QED
  BY <1>9, <1>10

LEMMA TaskIgnored ==
  ASSUME DuplexTypes, Weather, Acceptor, Frames, NEW c \in Conn, TaskTalk(c),
         T!AcceptIgnores(c)
  PROVE  TaskHandled(c) /\ (TaskSame(c) \/ TaskFails(c))
<1>1. /\ type["server"] \notin T!KnownStyles /\ link[c] # "none"
      /\ op["server"][c] = "new" /\ LetsGo("server", c)
      /\ UNCHANGED <<faults, type, frame, promise, got>>
  BY TaskNames DEF T!AcceptIgnores, T!taskVars
<1>2. faults' \in Nat /\ faults <= faults'
  BY <1>1 DEF DuplexTypes
<1>3. /\ SideMoves("server", c, "over", buffer["server"][c], offset["server"][c])
      /\ UNCHANGED <<accepting, link, wire>>
  BY <1>1, <1>2, LeftSide, Sides
<1>4. /\ op'["server"][c] = "over"
      /\ op'["client"][c] = op["client"][c] /\ offset'["client"][c] = offset["client"][c]
  BY <1>3, SideFacts, Sides
<1>5. TaskTalk(c)'
  BY <1>1, <1>3, <1>4 DEF TaskTalk
<1>6. Frames'
  BY <1>1, <1>3, FramesMove, Sides DEF Frames, TaskTypes, Running
<1>7. TaskHandled(c)
  BY <1>1, <1>2, <1>3, <1>5, <1>6, TaskMoves, Sides
<1>8. TaskFaulted'
  BY <1>1 DEF TaskFaulted, T!KnownStyles
<1>9. wire["client"][c] = <<>>
  BY <1>1 DEF TaskTalk
<1>10. TaskSame(c) \/ TaskFails(c)
  BY <1>3, <1>4, <1>8, <1>9 DEF TaskFails, TaskSame, TaskPhase, TaskGot
<1>11. QED
  BY <1>7, <1>10
LEMMA TaskClientWrites ==
  ASSUME T!TaskEchoAssumption, DuplexTypes, Weather, Acceptor, Frames,
         NEW c \in Conn, TaskTalk(c), T!ClientWrites(c)
  PROVE  TaskHandled(c) /\ TaskSame(c)
<1> DEFINE b == T!Resize(<<>>, Room, Zero)
<1>1. PICK k : Written("client", c, k)
  BY TaskNames DEF T!ClientWrites
<1>2. /\ Starts("client", c, "read", b, 0)
      /\ UNCHANGED <<type, frame, promise, got>>
  BY TaskStarts DEF T!ClientWrites, T!taskVars
<1>3. b \in Seq(Nat) /\ 0 \in Nat /\ 0 <= Len(b) /\ "read" \in Ops
  BY TaskWords DEF Ops
<1> HIDE DEF b
<1>4. SideMoves("client", c, "read", b, 0) /\ Wrote("client", c, k)
  BY <1>1, <1>2, <1>3, WrittenSide, Sides
<1>5. /\ op["client"][c] = "write" /\ link[c] = "up" /\ wire'["client"][c] = wire["client"][c]
      /\ UNCHANGED <<program, accepting, link, faults>>
  BY <1>4 DEF Wrote
<1>6. /\ op'["client"][c] = "read" /\ offset'["client"][c] = 0
      /\ op'["server"][c] = op["server"][c]
  BY <1>4, SideFacts, Sides
<1>7. TaskTalk(c)'
  BY <1>5, <1>6 DEF TaskTalk
<1>8. Frames'
  BY <1>2, <1>4, <1>5, FramesMove, Sides DEF Frames, TaskTypes, Running
<1>9. faults <= faults'
  BY <1>5 DEF DuplexTypes
<1>10. TaskHandled(c)
  BY <1>2, <1>4, <1>5, <1>7, <1>8, <1>9, TaskMoves, Sides
<1>11. TaskSame(c)
  BY <1>5, <1>6 DEF TaskTalk, TaskSame, TaskPhase, TaskGot
<1>12. QED
  BY <1>10, <1>11

LEMMA TaskClientReads ==
  ASSUME DuplexTypes, Weather, Acceptor, Frames, NEW c \in Conn, TaskTalk(c),
         T!ClientReads(c)
  PROVE  TaskHandled(c) /\ TaskAnswers(c)
<1>1. PICK k \in 1..Room :
        Read("client", c, k) /\ Starts("client", c, "over", Filled("client", c, k), k)
  BY TaskNames, TaskStarts DEF T!ClientReads
<1>2. T!CoReturns("client", c, "ok")
  BY DEF T!ClientReads
<1> DEFINE b == Filled("client", c, k)
<1>3. HasRead("client", c, k)
  BY <1>1, ReadOne, Sides
<1>4. /\ op["client"][c] = "read" /\ link[c] = "up" /\ wire["client"][c] # <<>>
      /\ k \in Nat \ {0} /\ offset["client"][c] + k <= Len(buffer["client"][c])
      /\ b \in Seq(Nat) /\ Len(b) = Len(buffer["client"][c])
      /\ UNCHANGED <<program, accepting, link, faults>>
  BY <1>3 DEF HasRead
<1>5. offset["client"][c] = 0 /\ op["server"][c] = "over"
  BY <1>4 DEF TaskTalk
<1>6. k \in Nat /\ k <= Len(b) /\ "over" \in Ops
  BY <1>4, <1>5, LenProperties DEF Ops
<1> HIDE DEF b
<1>7. SideMoves("client", c, "over", b, k)
  BY <1>1, <1>4, <1>6, ReadSide, Sides DEF b
<1>8. /\ op'["client"][c] = "over" /\ offset'["client"][c] = k
      /\ op'["server"][c] = op["server"][c]
  BY <1>7, SideFacts, Sides
<1>9. TaskTalk(c)'
  BY <1>5, <1>8 DEF TaskTalk
<1>10. /\ type' = type /\ promise' \in [Side -> [Conn -> {"ok", "error"}]]
       /\ got' \in [Side -> [Conn -> {"none", "ok", "error"}]]
       /\ FrameBecomes("client", c, "destroyed")
  BY <1>2, ReturnsTyped, Sides DEF Frames
<1>11. Frames'
  BY <1>7, <1>10, FramesMove, Sides DEF Running
<1>12. faults <= faults'
  BY <1>4 DEF DuplexTypes
<1>13. TaskHandled(c)
  BY <1>4, <1>7, <1>9, <1>10, <1>11, <1>12, TaskMoves, Sides
<1>14. TaskAnswers(c)
  <2>1. TaskPhase(c) = "asked"
    BY <1>4, <1>5 DEF TaskPhase, TaskGot
  <2>2. TaskPhase(c)' = "answered"
    BY <1>4, <1>8 DEF TaskPhase, TaskGot
  <2>3. QED
    BY <2>1, <2>2 DEF TaskAnswers
<1>15. QED
  BY <1>13, <1>14

LEMMA TaskServerReads ==
  ASSUME T!TaskEchoAssumption, DuplexTypes, Weather, Acceptor, Frames,
         NEW c \in Conn, TaskTalk(c), T!ServerReads(c)
  PROVE  TaskHandled(c) /\ (TaskSame(c) \/ TaskAsks(c))
<1> DEFINE b == Text["server"]
<1>1. PICK k : Read("server", c, k)
  BY TaskNames DEF T!ServerReads
<1>2. /\ Starts("server", c, "write", b, 0)
      /\ UNCHANGED <<type, frame, promise, got>>
  BY TaskStarts DEF T!ServerReads, T!taskVars
<1>3. b \in Seq(Nat) /\ 0 \in Nat /\ 0 <= Len(b) /\ "write" \in Ops
  BY TaskWords, Sides DEF Ops
<1> HIDE DEF b
<1>4. SideMoves("server", c, "write", b, 0) /\ HasRead("server", c, k)
  BY <1>1, <1>2, <1>3, ReadSide, Sides
<1>5. /\ op["server"][c] = "read" /\ link[c] = "up" /\ wire["server"][c] # <<>>
      /\ wire'["client"][c] = wire["client"][c]
      /\ UNCHANGED <<program, accepting, link, faults>>
  BY <1>4, Sides DEF HasRead
<1>6. /\ op'["server"][c] = "write"
      /\ op'["client"][c] = op["client"][c] /\ offset'["client"][c] = offset["client"][c]
  BY <1>4, SideFacts, Sides
<1>7. op["client"][c] \in {"read", "over"}
  BY <1>5 DEF TaskTalk
<1>8. TaskTalk(c)'
  BY <1>5, <1>6, <1>7 DEF TaskTalk
<1>9. Frames'
  BY <1>2, <1>4, <1>5, FramesMove, Sides DEF Frames, TaskTypes, Running
<1>10. faults <= faults'
  BY <1>5 DEF DuplexTypes
<1>11. TaskHandled(c)
  BY <1>2, <1>4, <1>5, <1>8, <1>9, <1>10, TaskMoves, Sides
<1>12. TaskSame(c) \/ TaskAsks(c)
  BY <1>5, <1>6, <1>7 DEF TaskAsks, TaskSame, TaskPhase, TaskGot
<1>13. QED
  BY <1>11, <1>12

LEMMA TaskServerWrites ==
  ASSUME T!TaskEchoAssumption, DuplexTypes, Weather, Acceptor, Frames,
         NEW c \in Conn, TaskTalk(c), T!ServerWrites(c)
  PROVE  TaskHandled(c) /\ TaskSame(c)
<1> DEFINE b == Text["server"]
<1>1. PICK k \in 1..Len(b) : Written("server", c, k) /\ Starts("server", c, "over", b, k)
  BY TaskNames, TaskStarts DEF T!ServerWrites
<1>2. T!CoReturns("server", c, "ok")
  BY DEF T!ServerWrites
<1>3. b \in Seq(Nat)
  BY TaskWords, Sides
<1> HIDE DEF b
<1>4. k \in Nat /\ k <= Len(b) /\ "over" \in Ops
  BY <1>1, <1>3, LenProperties DEF Ops
<1>5. /\ SideMoves("server", c, "over", b, k) /\ Wrote("server", c, k)
      /\ wire'[Peer("server")][c] # <<>>
  BY <1>1, <1>3, <1>4, WrittenSide, Sides
<1>6. /\ op["server"][c] = "write" /\ link[c] = "up" /\ wire'["client"][c] # <<>>
      /\ UNCHANGED <<program, accepting, link, faults>>
  BY <1>5, Sides DEF Wrote
<1>7. /\ op'["server"][c] = "over"
      /\ op'["client"][c] = op["client"][c] /\ offset'["client"][c] = offset["client"][c]
  BY <1>5, SideFacts, Sides
<1>8. op["client"][c] \in {"read", "over"}
  BY <1>6 DEF TaskTalk
<1>9. TaskTalk(c)'
  BY <1>7, <1>8 DEF TaskTalk
<1>10. /\ type' = type /\ promise' \in [Side -> [Conn -> {"ok", "error"}]]
       /\ got' \in [Side -> [Conn -> {"none", "ok", "error"}]]
       /\ FrameBecomes("server", c, "destroyed")
  BY <1>2, ReturnsTyped, Sides DEF Frames
<1>11. Frames'
  BY <1>5, <1>10, FramesMove, Sides DEF Running
<1>12. faults <= faults'
  BY <1>6 DEF DuplexTypes
<1>13. TaskHandled(c)
  BY <1>5, <1>6, <1>9, <1>10, <1>11, <1>12, TaskMoves, Sides
<1>14. TaskSame(c)
  BY <1>6, <1>7, <1>8 DEF TaskSame, TaskPhase, TaskGot
<1>15. QED
  BY <1>13, <1>14

(* A read or write that fails loses nothing that was not lost before. *)
LEMMA TaskGivesUp ==
  ASSUME DuplexTypes, Weather, Acceptor, Frames, NEW e \in Side, NEW c \in Conn,
         TaskTalk(c), T!Fails(e, c)
  PROVE  TaskHandled(c) /\ TaskSame(c)
<1>1. GivesUp(e, c) /\ T!CoReturns(e, c, "error")
  BY TaskNames DEF T!Fails
<1>2. /\ \/ op[e][c] \in {"read", "write"} /\ link[c] = "reset"
         \/ op[e][c] = "read" /\ op[Peer(e)][c] = "over" /\ wire[e][c] = <<>>
         \/ op[e][c] = "write" /\ op[Peer(e)][c] = "over"
      /\ LetsGo(e, c) /\ UNCHANGED faults
  BY <1>1 DEF GivesUp
<1>3. faults' \in Nat /\ faults <= faults' /\ op[e][c] # "over"
  BY <1>2 DEF DuplexTypes
<1>4. /\ SideMoves(e, c, "over", buffer[e][c], offset[e][c])
      /\ UNCHANGED <<accepting, link, wire>>
  BY <1>2, <1>3, LeftSide
<1>5. /\ op'[e][c] = "over" /\ offset'[e][c] = offset[e][c] /\ program' = program
      /\ op'[Peer(e)][c] = op[Peer(e)][c] /\ offset'[Peer(e)][c] = offset[Peer(e)][c]
  BY <1>4, SideFacts
<1>6. /\ type' = type /\ promise' \in [Side -> [Conn -> {"ok", "error"}]]
      /\ got' \in [Side -> [Conn -> {"none", "ok", "error"}]]
      /\ FrameBecomes(e, c, "destroyed")
  BY <1>1, ReturnsTyped DEF Frames
<1>7. Frames'
  BY <1>4, <1>6, FramesMove DEF Running
<1>8. TaskTalk(c)' /\ TaskSame(c)
  <2>1. CASE e = "client"
    <3>1. /\ op'["client"][c] = "over" /\ offset'["client"][c] = offset["client"][c]
          /\ op'["server"][c] = op["server"][c]
      BY <1>5, <2>1, Sides
    <3>2. TaskTalk(c)'
      BY <1>4, <3>1 DEF TaskTalk
    <3>3. TaskSame(c)
      BY <1>2, <1>4, <2>1, <3>1, Sides DEF TaskTalk, TaskSame, TaskPhase, TaskGot
    <3>4. QED
      BY <3>2, <3>3
  <2>2. CASE e = "server"
    <3>1. /\ op'["server"][c] = "over" /\ offset'["client"][c] = offset["client"][c]
          /\ op'["client"][c] = op["client"][c]
      BY <1>5, <2>2, Sides
    <3>2. op["client"][c] = "over" \/ link[c] = "reset"
      BY <1>2, <2>2, Sides
    <3>3. TaskTalk(c)'
      BY <1>4, <3>1, <3>2 DEF TaskTalk
    <3>4. TaskSame(c)
      BY <1>4, <3>1, <3>2 DEF TaskSame, TaskPhase, TaskGot
    <3>5. QED
      BY <3>3, <3>4
  <2>3. QED
    BY <2>1, <2>2 DEF Side
<1>9. TaskHandled(c)
  BY <1>3, <1>4, <1>6, <1>7, <1>8, TaskMoves
<1>10. QED
  BY <1>8, <1>9
(* coro_resume_value() does not return: the client and its connections are gone. *)
LEMMA TaskFlowsOff ==
  ASSUME Tasks, NEW c \in Conn, T!ClientFlowsOff(c)
  PROVE  Tasks' /\ UNCHANGED <<faults, type>> /\ \A d \in Conn : TaskSame(d) \/ TaskFails(d)
<1>1. /\ type["client"] = "CoroResumeValue" /\ Dies("client")
      /\ UNCHANGED <<faults, type, frame, promise, got>>
  BY TaskNames DEF T!ClientFlowsOff, T!taskVars
<1>2. DuplexTypes /\ Weather /\ Frames /\ \A d \in Conn : TaskTalk(d)
  BY DEF Tasks
<1>3. faults' \in Nat /\ faults <= faults'
  BY <1>1, <1>2 DEF DuplexTypes
<1>4. /\ DuplexTypes' /\ Weather' /\ AllOver' /\ \A d \in Conn : Closes("client", d)
      /\ program'["client"] = "down" /\ program'["server"] = program["server"]
      /\ UNCHANGED link
  BY <1>1, <1>2, <1>3, DeathCause, Sides
<1>5. ASSUME NEW d \in Conn PROVE TaskTalk(d)' /\ (TaskSame(d) \/ TaskFails(d))
  <2>1. /\ op'["client"][d] = "over" /\ offset'["client"][d] = offset["client"][d]
        /\ op'["server"][d] = op["server"][d] /\ wire'["client"][d] = wire["client"][d]
    BY <1>4, Sides DEF Closes, KeptLine
  <2>2. TaskTalk(d)
    BY <1>2
  <2>3. TaskTalk(d)'
    BY <2>1, <2>2 DEF TaskTalk
  <2>4. TaskFaulted'
    BY <1>1 DEF TaskFaulted
  <2>5. TaskSame(d) \/ TaskFails(d)
    BY <1>4, <2>1, <2>2, <2>4 DEF TaskTalk, TaskSame, TaskFails, TaskPhase, TaskGot
  <2>6. QED
    BY <2>3, <2>5
<1>6. Frames'
  <2>1. program'[Peer("client")] = program[Peer("client")]
    BY <1>4, Sides
  <2>2. QED
    BY <1>1, <1>2, <1>4, <2>1, FramesDeath, Sides DEF Closes
<1>7. Acceptor'
  BY <1>4 DEF Acceptor
<1>8. QED
  BY <1>1, <1>4, <1>5, <1>6, <1>7 DEF Tasks

(* on_connect throws: the client and its connections are gone. *)
LEMMA TaskConnectThrows ==
  ASSUME Tasks, NEW c \in Conn, T!ConnectThrows(c)
  PROVE  /\ Tasks' /\ faults <= faults' /\ UNCHANGED type
         /\ \A d \in Conn : TaskSame(d) \/ TaskFails(d)
<1>1. /\ op["client"][c] = "connect"
      /\ IF program["server"] = "up" THEN Fault ELSE UNCHANGED faults
      /\ link' = [link EXCEPT ![c] = "reset"]
      /\ program' = [program EXCEPT !["client"] = "down"]
      /\ op' = [op EXCEPT !["client"] = [d \in Conn |-> "over"]]
      /\ UNCHANGED <<accepting, buffer, offset, wire, type, frame, promise, got>>
  BY TaskNames DEF T!ConnectThrows, T!taskVars
<1>2. DuplexTypes /\ Weather /\ Frames /\ \A d \in Conn : TaskTalk(d)
  BY DEF Tasks
<1>3. faults \in Nat /\ faults' \in Nat /\ faults <= faults'
  BY <1>1, <1>2 DEF DuplexTypes, Fault
<1>4. faults' > 0
  BY <1>1, <1>3, <1>2 DEF Weather, AllOver, Fault
<1>5. /\ program'["client"] = "down" /\ program'["server"] = program["server"]
      /\ \A d \in Conn : op'["client"][d] = "over" /\ op'["server"][d] = op["server"][d]
  BY <1>1, <1>2, Sides DEF DuplexTypes
<1>6. DuplexTypes'
  <2>1. program' \in [Side -> {"up", "returned", "down"}]
    BY <1>1, <1>2 DEF DuplexTypes
  <2>2. [d \in Conn |-> "over"] \in [Conn -> Ops]
    BY DEF Ops
  <2>3. op' \in [Side -> [Conn -> Ops]] /\ link' \in [Conn -> {"none", "up", "reset"}]
    BY <1>1, <1>2, <2>2 DEF DuplexTypes
  <2>4. QED
    BY <1>1, <1>2, <1>3, <2>1, <2>3 DEF DuplexTypes
<1>7. AllOver' /\ Weather' /\ Acceptor'
  <2>1. AllOver'
    BY <1>5 DEF AllOver
  <2>2. QED
    BY <2>1 DEF Weather, Acceptor
<1>8. ASSUME NEW d \in Conn PROVE TaskTalk(d)' /\ (TaskSame(d) \/ TaskFails(d))
  <2>1. /\ op'["client"][d] = "over" /\ offset'["client"][d] = offset["client"][d]
        /\ op'["server"][d] = op["server"][d] /\ wire'["client"][d] = wire["client"][d]
    BY <1>1, <1>5
  <2>2. TaskTalk(d)
    BY <1>2
  <2>3. TaskTalk(d)'
    BY <2>1, <2>2 DEF TaskTalk
  <2>4. TaskSame(d) \/ TaskFails(d)
    BY <1>4, <2>1, <2>2 DEF TaskTalk, TaskSame, TaskFails, TaskFaulted, TaskPhase, TaskGot
  <2>5. QED
    BY <2>3, <2>4
<1>9. Frames'
  BY <1>1, <1>2, <1>5, FramesDeath, Sides
<1>10. QED
  BY <1>1, <1>3, <1>6, <1>7, <1>8, <1>9 DEF Tasks

(* on_accept throws: the server and its connections are gone. *)
LEMMA TaskThrows ==
  ASSUME Tasks, NEW c \in Conn, T!AcceptThrows(c)
  PROVE  Tasks' /\ UNCHANGED <<faults, type>> /\ \A d \in Conn : TaskSame(d) \/ TaskFails(d)
<1>1. /\ link[c] = "reset" /\ Dies("server")
      /\ UNCHANGED <<faults, type, frame, promise, got>>
  BY TaskStarts DEF T!AcceptThrows, T!taskVars, Throws
<1>2. DuplexTypes /\ Weather /\ Frames /\ \A d \in Conn : TaskTalk(d)
  BY DEF Tasks
<1>3. faults' \in Nat /\ faults <= faults'
  BY <1>1, <1>2 DEF DuplexTypes
<1>4. faults' > 0 \/ AllOver
  <2>1. SomeReset
    BY <1>1 DEF SomeReset
  <2>2. QED
    BY <1>1, <1>2, <1>3, <2>1 DEF Weather
<1>5. /\ DuplexTypes' /\ Weather' /\ (AllOver => AllOver')
      /\ \A d \in Conn : Closes("server", d)
      /\ program'["server"] = "down" /\ program'["client"] = program["client"]
      /\ UNCHANGED link
  BY <1>1, <1>2, <1>3, <1>4, DeathCause, Sides
<1>6. ASSUME NEW d \in Conn PROVE TaskTalk(d)' /\ (TaskSame(d) \/ TaskFails(d))
  <2>1. /\ op'["server"][d] = "over" /\ offset'["client"][d] = offset["client"][d]
        /\ op'["client"][d] = op["client"][d] /\ link'[d] = link[d]
        /\ wire'["client"][d] = wire["client"][d] /\ wire'["server"][d] = wire["server"][d]
    BY <1>5, Sides DEF Closes, KeptLine
  <2>2. TaskTalk(d)
    BY <1>2
  <2>3. TaskTalk(d)'
    BY <1>5, <2>1, <2>2 DEF TaskTalk
  <2>4. faults' > 0 => TaskSame(d) \/ TaskFails(d)
    BY <2>1, <2>2 DEF TaskTalk, TaskSame, TaskFails, TaskFaulted, TaskPhase, TaskGot
  <2>5. AllOver => TaskSame(d)
    BY <2>1 DEF AllOver, TaskSame, TaskPhase, TaskGot
  <2>6. QED
    BY <1>4, <2>3, <2>4, <2>5
<1>7. Frames'
  <2>1. program'[Peer("server")] = program[Peer("server")]
    BY <1>5, Sides
  <2>2. QED
    BY <1>1, <1>2, <1>5, <2>1, FramesDeath, Sides DEF Closes
<1>8. Acceptor'
  BY <1>1, <1>4, <1>5 DEF Acceptor
<1>9. QED
  BY <1>1, <1>5, <1>6, <1>7, <1>8 DEF Tasks

(* A connection nothing happens to. *)
LEMMA TaskUndisturbed ==
  ASSUME NEW c \in Conn, Untouched(c), TaskTalk(c),
         program["server"] # "up" => program'["server"] # "up"
  PROVE  TaskTalk(c)' /\ TaskSame(c)
<1>1. /\ op'["client"][c] = op["client"][c] /\ op'["server"][c] = op["server"][c]
      /\ offset'["client"][c] = offset["client"][c] /\ link'[c] = link[c]
      /\ wire'["client"][c] = wire["client"][c] /\ wire'["server"][c] = wire["server"][c]
  BY Sides DEF Untouched, KeptLine, KeptAt
<1>2. QED
  BY <1>1 DEF TaskTalk, TaskSame, TaskPhase, TaskGot

LEMMA TaskResets ==
  ASSUME DuplexTypes, Weather, Acceptor, Frames, NEW c \in Conn, TaskTalk(c), T!Network(c)
  PROVE  TaskHandled(c) /\ (TaskSame(c) \/ TaskFails(c))
<1>1. Reset(c) /\ UNCHANGED <<type, frame, promise, got>>
  BY TaskNames DEF T!Network, T!taskVars
<1>2. /\ DuplexTypes' /\ Weather' /\ Others(c) /\ faults <= faults'
      /\ faults' > 0 \/ AllOver
      /\ link[c] = "up" /\ link'[c] = "reset"
      /\ AllOver => AllOver'
      /\ UNCHANGED <<program, accepting, op, buffer, offset, wire>>
  BY <1>1, ResetCause
<1>3. TaskTalk(c)'
  BY <1>2 DEF TaskTalk
<1>4. Frames'
  BY <1>1, <1>2, FramesKept
<1>5. Acceptor'
  BY <1>2, AcceptorKept DEF DuplexTypes
<1>6. faults' > 0 => TaskSame(c) \/ TaskFails(c)
  BY <1>2 DEF TaskSame, TaskFails, TaskFaulted, TaskPhase, TaskGot
<1>7. AllOver => TaskSame(c)
  BY <1>2 DEF AllOver, TaskSame, TaskPhase, TaskGot
<1>8. TaskHandled(c)
  BY <1>1, <1>2, <1>3, <1>4, <1>5 DEF TaskHandled
<1>9. QED
  BY <1>2, <1>6, <1>7, <1>8

(* What a step does to the connections: one asks or is answered, or some fail. *)
TaskOthersSame(c) == \A d \in Conn \ {c} : TaskSame(d)
TaskOutcome ==
  /\ faults <= faults' /\ type' = type
  /\ \/ \E c \in Conn : (TaskAsks(c) \/ TaskAnswers(c)) /\ TaskOthersSame(c)
     \/ \A c \in Conn : TaskSame(c) \/ TaskFails(c)

LEMMA TaskHandledOne ==
  ASSUME Tasks, NEW c \in Conn, TaskHandled(c),
         TaskSame(c) \/ TaskFails(c) \/ TaskAsks(c) \/ TaskAnswers(c)
  PROVE  Tasks' /\ TaskOutcome
<1>1. ASSUME NEW d \in Conn \ {c} PROVE TaskTalk(d)' /\ TaskSame(d)
  BY TaskUndisturbed DEF Tasks, TaskHandled, Others
<1>2. Tasks'
  BY <1>1 DEF Tasks, TaskHandled
<1>3. faults <= faults' /\ type' = type
  BY DEF TaskHandled
<1>4. TaskOthersSame(c)
  BY <1>1 DEF TaskOthersSame
<1>5. CASE TaskAsks(c) \/ TaskAnswers(c)
  BY <1>2, <1>3, <1>4, <1>5 DEF TaskOutcome
<1>6. CASE TaskSame(c) \/ TaskFails(c)
  <2>1. \A d \in Conn : TaskSame(d) \/ TaskFails(d)
    BY <1>4, <1>6 DEF TaskOthersSame
  <2>2. QED
    BY <1>2, <1>3, <2>1 DEF TaskOutcome
<1>7. QED
  BY <1>5, <1>6

(* A step that is none of the connections' business. *)
LEMMA TaskNothing ==
  ASSUME Tasks, DuplexTypes', Weather', Acceptor', \A c \in Conn : Untouched(c),
         program["server"] # "up" => program'["server"] # "up",
         \A e \in Side : program[e] = "down" => program'[e] = "down",
         UNCHANGED <<op, type, frame, promise, got>>, faults <= faults'
  PROVE  Tasks' /\ TaskOutcome
<1>1. ASSUME NEW c \in Conn PROVE TaskTalk(c)' /\ TaskSame(c)
  BY TaskUndisturbed DEF Tasks
<1>2. Frames'
  BY FramesKept DEF Tasks
<1>3. QED
  BY <1>1, <1>2 DEF Tasks, TaskOutcome

LEMMA TaskEnds ==
  ASSUME Tasks, NEW e \in Side, T!Ends(e)
  PROVE  Tasks' /\ TaskOutcome
<1>1. /\ program[e] = "up" /\ (e = "server" => ~accepting)
      /\ \A c \in Conn : op[e][c] \in {"over", "new"}
      /\ program' = [program EXCEPT ![e] = "returned"]
      /\ UNCHANGED <<accepting, op, buffer, offset, link, wire, faults, type, frame, promise, got>>
  BY TaskNames DEF T!Ends, Returns, T!taskVars
<1>2. DuplexTypes /\ Weather /\ Acceptor /\ \A c \in Conn : TaskTalk(c)
  BY DEF Tasks
<1>3. /\ DuplexTypes' /\ program'[e] = "returned"
      /\ program'[Peer(e)] = program[Peer(e)] /\ faults <= faults'
  BY <1>1, <1>2, Sides DEF DuplexTypes
<1>4. \A c \in Conn : Untouched(c)
  BY <1>1 DEF Untouched, KeptLine, KeptAt
<1>5. (AllOver' <=> AllOver) /\ (SomeReset' <=> SomeReset)
  BY <1>1 DEF AllOver, SomeReset
<1>6. Acceptor'
  BY <1>1, <1>2, <1>5 DEF Acceptor
<1>7. Weather'
  <2>1. CASE e = "client"
    <3>1. AllOver
      BY <1>1, <1>2, <2>1 DEF AllOver, TaskTalk
    <3>2. QED
      BY <1>5, <3>1 DEF Weather
  <2>2. CASE e = "server"
    <3>1. faults = 0 => AllOver
      BY <1>1, <1>2, <2>2 DEF Acceptor
    <3>2. program'["client"] = program["client"]
      BY <1>3, <2>2, Sides
    <3>3. QED
      BY <1>1, <1>2, <1>5, <3>1, <3>2 DEF Weather
  <2>3. QED
    BY <2>1, <2>2 DEF Side
<1>8. \A f \in Side : program[f] # "up" => program'[f] = program[f]
  BY <1>1, <1>3, Sides
<1>9. QED
  BY <1>1, <1>3, <1>4, <1>6, <1>7, <1>8, TaskNothing, Sides

LEMMA TaskAcceptFails ==
  ASSUME Tasks, T!AcceptFails
  PROVE  Tasks' /\ TaskOutcome
<1>1. /\ faults' = faults + 1 /\ accepting' = FALSE
      /\ UNCHANGED <<program, op, buffer, offset, link, wire, type, frame, promise, got>>
  BY DEF T!AcceptFails, T!Fault, T!taskVars
<1>2. DuplexTypes /\ Weather
  BY DEF Tasks
<1>3. DuplexTypes' /\ faults \in Nat /\ faults' \in Nat /\ faults <= faults' /\ faults' > 0
  <2>1. faults \in Nat /\ faults' \in Nat
    BY <1>1, <1>2 DEF DuplexTypes
  <2>2. DuplexTypes'
    BY <1>1, <1>2, <2>1 DEF DuplexTypes
  <2>3. QED
    BY <1>1, <2>1, <2>2
<1>4. \A c \in Conn : Untouched(c)
  BY <1>1 DEF Untouched, KeptLine, KeptAt
<1>5. (AllOver' <=> AllOver) /\ (SomeReset' <=> SomeReset)
  BY <1>1 DEF AllOver, SomeReset
<1>6. Weather' /\ Acceptor'
  BY <1>1, <1>2, <1>3, <1>5 DEF Weather, Acceptor
<1>7. QED
  BY <1>1, <1>3, <1>4, <1>6, TaskNothing
LEMMA TasksStep ==
  ASSUME T!TaskEchoAssumption, Tasks, [T!Next]_(T!vars)
  PROVE  Tasks' /\ TaskOutcome
<1>1. /\ DuplexTypes /\ Weather /\ Acceptor /\ Frames /\ \A c \in Conn : TaskTalk(c)
      /\ faults \in Nat /\ faults <= faults
  BY DEF Tasks, DuplexTypes
<1>2. ASSUME NEW c \in Conn, T!ClientStep(c) PROVE Tasks' /\ TaskOutcome
  <2>1. CASE T!Connect(c)
    BY <1>1, <2>1, TaskConnects, TaskHandledOne
  <2>2. CASE T!ConnectFails(c)
    BY <1>1, <2>2, TaskConnectFails, TaskHandledOne
  <2>3. CASE T!ClientWrites(c)
    BY <1>1, <2>3, TaskClientWrites, TaskHandledOne
  <2>4. CASE T!ClientReads(c)
    BY <1>1, <2>4, TaskClientReads, TaskHandledOne
  <2>5. CASE T!ClientFlowsOff(c)
    <3>1. Tasks' /\ UNCHANGED <<faults, type>> /\ \A d \in Conn : TaskSame(d) \/ TaskFails(d)
      BY <2>5, TaskFlowsOff
    <3>2. QED
      BY <1>1, <3>1 DEF TaskOutcome
  <2>6. CASE T!Fails("client", c)
    BY <1>1, <2>6, TaskGivesUp, TaskHandledOne, Sides
  <2>7. CASE T!ConnectThrows(c)
    <3>1. /\ Tasks' /\ faults <= faults' /\ UNCHANGED type
          /\ \A d \in Conn : TaskSame(d) \/ TaskFails(d)
      BY <2>7, TaskConnectThrows
    <3>2. QED
      BY <1>1, <3>1 DEF TaskOutcome
  <2>8. QED
    BY <1>2, <2>1, <2>2, <2>3, <2>4, <2>5, <2>6, <2>7 DEF T!ClientStep
<1>3. ASSUME NEW c \in Conn, T!ServerStep(c) PROVE Tasks' /\ TaskOutcome
  <2>1. CASE T!Accept(c)
    BY <1>1, <2>1, TaskAccepts, TaskHandledOne
  <2>2. CASE T!AcceptIgnores(c)
    BY <1>1, <2>2, TaskIgnored, TaskHandledOne
  <2>3. CASE T!AcceptThrows(c)
    <3>1. Tasks' /\ UNCHANGED <<faults, type>> /\ \A d \in Conn : TaskSame(d) \/ TaskFails(d)
      BY <2>3, TaskThrows
    <3>2. QED
      BY <1>1, <3>1 DEF TaskOutcome
  <2>4. CASE T!ServerReads(c)
    BY <1>1, <2>4, TaskServerReads, TaskHandledOne
  <2>5. CASE T!ServerWrites(c)
    BY <1>1, <2>5, TaskServerWrites, TaskHandledOne
  <2>6. CASE T!Fails("server", c)
    BY <1>1, <2>6, TaskGivesUp, TaskHandledOne, Sides
  <2>7. QED
    BY <1>3, <2>1, <2>2, <2>3, <2>4, <2>5, <2>6 DEF T!ServerStep
<1>4. ASSUME NEW c \in Conn, T!Network(c) PROVE Tasks' /\ TaskOutcome
  BY <1>1, <1>4, TaskResets, TaskHandledOne
<1>5. ASSUME NEW e \in Side, T!Ends(e) PROVE Tasks' /\ TaskOutcome
  BY <1>5, TaskEnds
<1>6. CASE T!AcceptFails
  BY <1>6, TaskAcceptFails
<1>7. CASE UNCHANGED T!vars
  <2>1. /\ UNCHANGED <<program, accepting, op, buffer, offset, link, wire, faults>>
        /\ UNCHANGED <<type, frame, promise, got>>
    BY <1>7 DEF T!vars, T!duplexVars, T!taskVars
  <2>2. DuplexTypes'
    BY <1>1, <2>1 DEF DuplexTypes
  <2>3. (AllOver' <=> AllOver) /\ (SomeReset' <=> SomeReset)
    BY <2>1 DEF AllOver, SomeReset
  <2>4. Weather' /\ Acceptor'
    BY <1>1, <2>1, <2>3 DEF Weather, Acceptor
  <2>5. \A c \in Conn : Untouched(c)
    BY <2>1 DEF Untouched, KeptLine, KeptAt
  <2>6. QED
    BY <1>1, <2>1, <2>2, <2>4, <2>5, TaskNothing
<1>8. QED
  BY <1>2, <1>3, <1>4, <1>5, <1>6, <1>7, TaskNames DEF T!Next

LEMMA TasksInit == T!TaskEchoAssumption => (T!Init => Tasks /\ \A c \in Conn : TaskPhase(c) = "new")
<1> SUFFICES ASSUME T!TaskEchoAssumption, T!Init
             PROVE  Tasks /\ \A c \in Conn : TaskPhase(c) = "new"
  OBVIOUS
<1>1. /\ program = [e \in Side |-> "up"] /\ accepting = TRUE
      /\ op = PerConn("connect", "new")
      /\ buffer = PerConn(<<>>, <<>>) /\ offset = PerConn(0, 0)
      /\ link = [c \in Conn |-> "none"] /\ wire = PerConn(<<>>, <<>>)
      /\ faults = 0
      /\ type \in [Side -> T!AsyncType]
      /\ frame = PerConn("none", "none")
      /\ promise = PerConn("ok", "ok")
      /\ got = PerConn("none", "none")
  BY DEF T!Init, T!DuplexInit, T!PerConn, PerConn, T!Side, Side, T!Conn, Conn
<1>2. <<>> \in Seq(Nat) /\ Len(<<>>) = 0
  BY JoinedEmpty
<1>3. /\ \A e \in Side, c \in Conn : buffer[e][c] = <<>> /\ offset[e][c] = 0 /\ wire[e][c] = <<>>
      /\ \A c \in Conn : op["client"][c] = "connect" /\ op["server"][c] = "new" /\ link[c] = "none"
      /\ program["client"] = "up" /\ program["server"] = "up"
      /\ \A e \in Side, c \in Conn : frame[e][c] = "none"
  BY <1>1, Sides DEF PerConn
<1>4. DuplexTypes
  <2>1. op \in [Side -> [Conn -> Ops]]
    BY <1>1 DEF PerConn, Ops
  <2>2. buffer \in [Side -> [Conn -> Seq(Nat)]] /\ wire \in [Side -> [Conn -> Seq(Nat)]]
    BY <1>1, <1>2 DEF PerConn
  <2>3. offset \in [Side -> [Conn -> Nat]]
    BY <1>1 DEF PerConn
  <2>4. program \in [Side -> {"up", "returned", "down"}] /\ link \in [Conn -> {"none", "up", "reset"}]
    BY <1>1
  <2>5. \A e \in Side, c \in Conn : offset[e][c] <= Len(buffer[e][c])
    BY <1>2, <1>3
  <2>6. QED
    BY <1>1, <2>1, <2>2, <2>3, <2>4, <2>5 DEF DuplexTypes
<1>5. Weather /\ Acceptor
  BY <1>1, <1>3 DEF Weather, SomeReset, Acceptor
<1>6. Frames
  <2>1. TaskTypes
    BY <1>1 DEF TaskTypes, PerConn
  <2>2. ASSUME NEW e \in Side, NEW c \in Conn PROVE FrameRight(e, c)
    <3>1. op[e][c] \in {"connect", "new"} /\ frame[e][c] = "none"
      BY <1>3 DEF Side
    <3>2. QED
      BY <3>1 DEF FrameRight
  <2>3. QED
    BY <2>1, <2>2 DEF Frames
<1>7. ASSUME NEW c \in Conn PROVE TaskTalk(c) /\ TaskPhase(c) = "new"
  BY <1>3, Sides DEF TaskTalk, TaskPhase, TaskGot
<1>8. QED
  BY <1>4, <1>5, <1>6, <1>7 DEF Tasks

LEMMA TasksHold == T!TaskEchoAssumption => (T!Spec => []Tasks)
<1> SUFFICES ASSUME T!TaskEchoAssumption PROVE T!Spec => []Tasks
  OBVIOUS
<1>1. T!Init => Tasks
  BY TasksInit
<1>2. Tasks /\ [T!Next]_(T!vars) => Tasks'
  BY TasksStep
<1>3. QED
  BY <1>1, <1>2, PTL DEF T!Spec

(* A frame lives as long as an operation is under way that will resume it:      *)
(* TaskEcho's FrameLife, of the lite::task of coro.hpp and its awaiters.        *)
THEOREM FrameLifeCorrect == T!TaskEchoAssumption => (T!Spec => []FrameLife)
<1> SUFFICES ASSUME T!TaskEchoAssumption PROVE T!Spec => []FrameLife
  OBVIOUS
<1>1. Tasks => FrameLife
  BY TaskNames DEF Tasks, Frames, FrameRight, FrameLife, IsTask, T!IsTask
<1>2. QED
  BY <1>1, TasksHold, PTL

(* Every connection is answered once, after its request has arrived, or fails   *)
(* for a reason: TaskEcho implements Exchange, in every style of both programs.  *)
THEOREM TaskRefinesExchangeCorrect == T!TaskEchoAssumption => (T!Spec => TaskRefinesExchange)
<1> SUFFICES ASSUME T!TaskEchoAssumption PROVE T!Spec => TaskRefinesExchange
  OBVIOUS
<1> DEFINE phase == [c \in Conn |-> TaskPhase(c)]
           faulted == TaskFaulted
<1>0. T!Conn = Conn /\ T!KnownStyles = KnownStyles
  BY TaskNames DEF T!KnownStyles, KnownStyles
<1>1. /\ TaskX!Init <=> phase = [c \in Conn |-> "new"] /\ faulted \in BOOLEAN
      /\ TaskX!vars = <<phase, faulted>> /\ TaskX!vars' = <<phase', faulted'>>
  BY <1>0 DEF TaskX!Init, TaskX!vars, TaskPhase, TaskFaulted
<1>2. /\ \A c \in Conn : TaskX!Ask(c) <=> phase[c] = "new" /\ phase' = [phase EXCEPT ![c] = "asked"]
      /\ \A c \in Conn :
           TaskX!Answer(c) <=> phase[c] = "asked" /\ phase' = [phase EXCEPT ![c] = "answered"]
      /\ \A F \in SUBSET Conn :
           TaskX!Fail(F) <=> /\ faulted'
                             /\ \A c \in F : phase[c] # "answered"
                             /\ phase' = [c \in Conn |-> IF c \in F THEN "failed" ELSE phase[c]]
  BY <1>0 DEF TaskX!Ask, TaskX!Answer, TaskX!Fail, TaskPhase, TaskFaulted
<1>3. TaskX!Next <=> /\ faulted => faulted'
                     /\ \/ \E c \in Conn : TaskX!Ask(c) \/ TaskX!Answer(c)
                        \/ \E F \in SUBSET Conn : TaskX!Fail(F)
  BY <1>0 DEF TaskX!Next, TaskFaulted
<1>4. T!Init => TaskX!Init
  BY <1>1, TasksInit DEF TaskFaulted
<1>5. Tasks /\ [T!Next]_(T!vars) => [TaskX!Next]_(TaskX!vars)
  <2> SUFFICES ASSUME Tasks, [T!Next]_(T!vars) PROVE TaskX!Next \/ UNCHANGED TaskX!vars
    OBVIOUS
  <2>1. Tasks' /\ TaskOutcome
    BY TasksStep
  <2>2. faulted => faulted'
    <3>1. faults \in Nat /\ faults' \in Nat
      BY <2>1 DEF Tasks, DuplexTypes
    <3>2. QED
      BY <2>1, <3>1 DEF TaskOutcome, TaskFaulted, T!KnownStyles
  <2>3. ASSUME NEW c \in Conn, TaskAsks(c) \/ TaskAnswers(c), TaskOthersSame(c) PROVE TaskX!Next
    <3>1. TaskX!Ask(c) \/ TaskX!Answer(c)
      BY <1>2, <2>3 DEF TaskAsks, TaskAnswers, TaskOthersSame, TaskSame
    <3>2. QED
      BY <1>3, <2>2, <3>1
  <2>4. ASSUME \A c \in Conn : TaskSame(c) \/ TaskFails(c)
        PROVE  TaskX!Next \/ UNCHANGED TaskX!vars
    <3>1. CASE faulted'
      <4>0. PICK F \in SUBSET Conn : \A c \in Conn : c \in F <=> TaskFails(c)
        <5>1. {c \in Conn : TaskFails(c)} \in SUBSET Conn
          OBVIOUS
        <5>2. QED
          BY <5>1
      <4>1. phase' = [c \in Conn |-> IF c \in F THEN "failed" ELSE phase[c]]
        BY <2>4, <4>0 DEF TaskSame, TaskFails
      <4>2. \A c \in F : phase[c] # "answered"
        BY <4>0 DEF TaskFails
      <4> HIDE DEF phase
      <4>3. TaskX!Fail(F)
        BY <1>2, <3>1, <4>1, <4>2
      <4>4. QED
        BY <1>3, <2>2, <4>3
    <3>2. CASE ~faulted'
      <4>1. \A c \in Conn : TaskSame(c)
        BY <2>4, <3>2 DEF TaskFails
      <4>2. phase' = phase
        BY <4>1 DEF TaskSame
      <4>3. faulted' = faulted
        <5>1. faulted \in BOOLEAN /\ faulted' \in BOOLEAN
          BY DEF TaskFaulted
        <5>2. QED
          BY <2>2, <3>2, <5>1
      <4>4. QED
        BY <1>1, <4>2, <4>3
    <3>3. QED
      BY <3>1, <3>2
  <2>5. QED
    BY <2>1, <2>3, <2>4 DEF TaskOutcome
<1>6. QED
  BY <1>4, <1>5, TasksHold, PTL DEF T!Spec, TaskRefinesExchange, TaskX!Spec
------------------------------------------------------------------------------
(* DotEcho. *)
CONSTANTS Styles, Dot

D == INSTANCE DotEcho

(* What side e of c has read and what is on its way to it. *)
Said(e, c) == Received(e, c) \o wire[e][c]

(* The whole request has been written, or, cut short, a part that has no dot. *)
DotAsked(c) ==
  \/ ~cut[c] /\ Said("server", c) = Text["client"]
  \/ cut[c] /\ \E n \in 0..(Len(Text["client"]) - 1) :
                 Said("server", c) = Front(Text["client"], n)

DotWriting(c) ==
  /\ wire["client"][c] = <<>>
  /\ \/ /\ buffer["client"][c] = Text["client"] /\ ~cut[c]
        /\ offset["client"][c] < Len(Text["client"])
        /\ op["server"][c] # "over" =>
             Said("server", c) = Front(Text["client"], offset["client"][c])
     \/ /\ buffer["client"][c] = <<>> /\ offset["client"][c] = 0 /\ cut[c]
        /\ op["server"][c] # "over" => DotAsked(c)

DotReading(c) ==
  LET sv == op["server"][c] IN
  /\ offset["client"][c] < Len(Text["server"])
  /\ \E m \in 0..Len(Text["server"]) :
       Said("client", c) = Front(Text["server"], m) /\ (cut[c] => m < Len(Text["server"]))
  /\ \/ /\ sv \in {"new", "read"} /\ DotAsked(c)
        /\ offset["client"][c] = 0 /\ wire["client"][c] = <<>>
     \/ /\ sv = "read" /\ wire["server"][c] = <<>>
        /\ cut[c] \/ Said("client", c) = Text["server"]
     \/ /\ sv = "write" /\ buffer["server"][c] = Text["server"] /\ ~cut[c]
        /\ offset["server"][c] < Len(Text["server"])
        /\ Said("client", c) = Front(Text["server"], offset["server"][c])
     \/ sv = "write" /\ buffer["server"][c] = <<>> /\ cut[c]
     \/ sv = "over"

(* How far a connection of DotEcho is. *)
DotTalk(c) ==
  LET cl == op["client"][c]  sv == op["server"][c] IN
  /\ cl \in {"connect", "write", "read", "over"}
  /\ sv \in {"new", "read", "write", "over"}
  /\ sv = "new" => buffer["server"][c] = <<>> /\ offset["server"][c] = 0
  /\ sv \in {"new", "read"} =>
       \E n \in 0..Len(Text["client"]) : Said("server", c) = Front(Text["client"], n)
  /\ sv = "write" => wire["server"][c] = <<>> /\ cl \in {"read", "over"}
  /\ cl = "connect" =>
       /\ link[c] = "none" /\ buffer["client"][c] = <<>> /\ offset["client"][c] = 0
       /\ wire["client"][c] = <<>> /\ wire["server"][c] = <<>> /\ ~cut[c]
       /\ sv = "new" \/ program["server"] # "up"
  /\ cl = "write" => DotWriting(c)
  /\ cl = "read" => DotReading(c)

DotTypes == style \in [Side -> Styles] /\ cut \in [Conn -> BOOLEAN]

DotPhase(c) ==
  IF DotGot(c) THEN "answered"
  ELSE IF \/ op["client"][c] = "over" \/ link[c] = "reset" \/ cut[c]
          \/ op["server"][c] = "over" /\ ~DotReplied(c)
       THEN "failed"
  ELSE IF op["server"][c] = "write" \/ DotReplied(c) THEN "asked"
  ELSE "new"

DotFaulted == faults > 0 \/ \E c \in Conn : cut[c]

DotSame(c) == DotPhase(c)' = DotPhase(c)
DotAsks(c) == DotPhase(c) = "new" /\ DotPhase(c)' = "asked"
DotAnswers(c) == DotPhase(c) = "asked" /\ DotPhase(c)' = "answered"
DotFails(c) == DotPhase(c) # "answered" /\ DotPhase(c)' = "failed" /\ DotFaulted'

(* The inductive invariant of DotEcho. *)
Dots == DuplexTypes /\ Weather /\ Acceptor /\ DotTypes /\ \A c \in Conn : DotTalk(c)

(* The module's copies of what it takes from Duplex and Bytes. *)
LEMMA DotNames ==
  /\ D!Conn = Conn /\ D!Side = Side
  /\ \A e \in Side : D!Peer(e) = Peer(e)
  /\ \A e, c, next, b, o : D!Starts(e, c, next, b, o) <=> Starts(e, c, next, b, o)
  /\ \A c, next, b : D!Connected(c, next, b) <=> Connected(c, next, b)
  /\ \A c, again, b : D!Accepted(c, again, b) <=> Accepted(c, again, b)
  /\ \A e, c, k : D!Written(e, c, k) <=> Written(e, c, k)
  /\ \A e, c, k : D!Read(e, c, k) <=> Read(e, c, k)
  /\ \A e, c, k : D!Filled(e, c, k) = Filled(e, c, k)
  /\ \A e, c : D!LetsGo(e, c) <=> LetsGo(e, c)
  /\ \A e, c : D!GivesUp(e, c) <=> GivesUp(e, c)
  /\ \A e, c, ops : D!Throws(e, c, ops) <=> Throws(e, c, ops)
  /\ \A e : D!Returns(e) <=> Returns(e)
  /\ \A c : D!Reset(c) <=> Reset(c)
  /\ D!Fault <=> Fault
  /\ \A e, c : D!Received(e, c) = Received(e, c)
  /\ \A b, n, pad : D!Resize(b, n, pad) = Resize(b, n, pad)
<1>1. D!Conn = Conn /\ D!Side = Side /\ \A e \in Side : D!Peer(e) = Peer(e)
  BY DEF D!Conn, Conn, D!Side, Side, D!Peer, Peer
<1>2. \A e, c, next, b, o : D!Starts(e, c, next, b, o) <=> Starts(e, c, next, b, o)
  BY DEF D!Starts, Starts
<1>3. \A c, next, b : D!Connected(c, next, b) <=> Connected(c, next, b)
  BY DEF D!Connected, Connected, D!Starts, Starts
<1>4. \A c, again, b : D!Accepted(c, again, b) <=> Accepted(c, again, b)
  BY DEF D!Accepted, Accepted, D!Starts, Starts
<1>5. \A e, c, k : D!Written(e, c, k) <=> Written(e, c, k)
  BY DEF D!Written, Written, D!From, From, D!Amounts, Amounts, D!Front, Front, D!Peer, Peer
<1>6. \A e, c, k : D!Read(e, c, k) <=> Read(e, c, k)
  BY DEF D!Read, Read, D!From, From, D!Amounts, Amounts
<1>7. \A e, c, k : D!Filled(e, c, k) = Filled(e, c, k)
  BY DEF D!Filled, Filled, D!Store, Store, D!Front, Front
<1>8. \A e, c : D!LetsGo(e, c) <=> LetsGo(e, c)
  BY DEF D!LetsGo, LetsGo
<1>9. \A e, c : D!GivesUp(e, c) <=> GivesUp(e, c)
  BY DEF D!GivesUp, GivesUp, D!LetsGo, LetsGo, D!Peer, Peer
<1>10. \A e, c, ops : D!Throws(e, c, ops) <=> Throws(e, c, ops)
  BY DEF D!Throws, Throws, D!Dies, Dies, D!Conn, Conn
<1>11. \A e : D!Returns(e) <=> Returns(e)
  BY DEF D!Returns, Returns, D!Conn, Conn
<1>12. \A c : D!Reset(c) <=> Reset(c)
  BY DEF D!Reset, Reset, D!Side, Side, D!Fault, Fault
<1>13. D!Fault <=> Fault
  BY DEF D!Fault, Fault
<1>14. \A e, c : D!Received(e, c) = Received(e, c)
  BY DEF D!Received, Received, D!Front, Front
<1>15. \A b, n, pad : D!Resize(b, n, pad) = Resize(b, n, pad)
  BY DEF D!Resize, Resize
<1>16. QED
  BY <1>1, <1>2, <1>3, <1>4, <1>5, <1>6, <1>7, <1>8, <1>9, <1>10, <1>11, <1>12, <1>13,
     <1>14, <1>15

LEMMA Texts ==
  ASSUME D!DotEchoAssumption
  PROVE  /\ Chunk \in Nat \ {0} /\ Zero \in Nat
         /\ \A e \in Side :
              /\ Text[e] \in Seq(Nat) /\ Text[e] # <<>> /\ Len(Text[e]) \in Nat \ {0}
              /\ \A k \in 1..Len(Text[e]) : Text[e][k] = Dot <=> k = Len(Text[e])
<1>1. /\ Chunk \in Nat \ {0} /\ Zero \in Nat
      /\ \A e \in Side :
           /\ Text[e] \in Seq(Nat) \ {<<>>} /\ Text[e][Len(Text[e])] = Dot
           /\ \A k \in 1..(Len(Text[e]) - 1) : Text[e][k] # Dot
  BY DEF D!DotEchoAssumption, D!Side, Side
<1>2. ASSUME NEW e \in Side
      PROVE  /\ Text[e] \in Seq(Nat) /\ Text[e] # <<>> /\ Len(Text[e]) \in Nat \ {0}
             /\ \A k \in 1..Len(Text[e]) : Text[e][k] = Dot <=> k = Len(Text[e])
  <2>1. Text[e] \in Seq(Nat) /\ Text[e] # <<>>
    BY <1>1
  <2>2. Len(Text[e]) \in Nat /\ Len(Text[e]) # 0
    BY <2>1, LenProperties, EmptySeq
  <2>3. QED
    BY <1>1, <2>1, <2>2
<1>3. QED
  BY <1>1, <1>2

(* What has been read, and with it what has been said, is a sequence. *)
LEMMA SaidTyped ==
  ASSUME DuplexTypes, NEW e \in Side, NEW c \in Conn
  PROVE  /\ Said(e, c) \in Seq(Nat)
         /\ Len(Said(e, c)) = offset[e][c] + Len(wire[e][c])
         /\ wire[e][c] = <<>> => Said(e, c) = Received(e, c)
<1> DEFINE r == Received(e, c)
           w == wire[e][c]
<1>1. /\ r \in Seq(Nat) /\ w \in Seq(Nat) /\ Len(r) = offset[e][c]
  BY ReceivedTyped
<1>2. Said(e, c) = r \o w
  BY DEF Said
<1> HIDE DEF r, w
<1>3. r \o w \in Seq(Nat) /\ Len(r \o w) = Len(r) + Len(w)
  BY <1>1, ConcatProperties
<1>4. w = <<>> => r \o w = r
  BY <1>1, JoinedEmpty
<1>5. QED
  BY <1>1, <1>2, <1>3, <1>4 DEF r, w

(* The beginning of a text has its length, the whole text is no shorter one. *)
LEMMA Beginnings ==
  ASSUME D!DotEchoAssumption, NEW e \in Side, NEW n \in 0..Len(Text[e])
  PROVE  /\ Len(Front(Text[e], n)) = n /\ Front(Text[e], 0) = <<>>
         /\ Front(Text[e], Len(Text[e])) = Text[e]
         /\ n # Len(Text[e]) => Front(Text[e], n) # Text[e]
<1>1. Text[e] \in Seq(Nat)
  BY Texts
<1>2. Len(Front(Text[e], n)) = n
  BY <1>1, Split
<1>3. Front(Text[e], 0) = <<>> /\ Front(Text[e], Len(Text[e])) = Text[e]
  BY <1>1, SplitEnds
<1>4. QED
  BY <1>2, <1>3

(* Until its connection is over a client has not read the whole reply. *)
LEMMA DotNotYet ==
  ASSUME D!DotEchoAssumption, DuplexTypes, NEW c \in Conn, DotTalk(c),
         op["client"][c] # "over"
  PROVE  /\ Received("client", c) # Text["server"]
         /\ wire["client"][c] = <<>> => ~DotReplied(c)
<1> DEFINE q == Text["client"]
           s == Text["server"]
           r == Received("client", c)
           o == offset["client"][c]
<1>1. /\ q \in Seq(Nat) /\ s \in Seq(Nat) /\ Len(q) \in Nat \ {0} /\ Len(s) \in Nat \ {0}
      /\ \A k \in 1..Len(q) : q[k] = Dot <=> k = Len(q)
      /\ \A k \in 1..Len(s) : s[k] = Dot <=> k = Len(s)
  BY Texts, Sides
<1>2. /\ r \in Seq(Nat) /\ Len(r) = o /\ o \in 0..Len(buffer["client"][c])
      /\ Len(buffer["client"][c]) \in Nat
  BY ReceivedTyped, Sides
<1> HIDE DEF q, s
<1>3. ASSUME \/ op["client"][c] \in {"connect", "read"}
             \/ op["client"][c] = "write" /\ buffer["client"][c] = <<>>
      PROVE  r # s
  <2>1. o < Len(s)
    <3>1. op["client"][c] = "read" => o < Len(s)
      BY DEF DotTalk, DotReading, s
    <3>2. op["client"][c] # "read" => o = 0
      BY <1>2, <1>3, EmptySeq DEF DotTalk
    <3>3. QED
      BY <1>1, <3>1, <3>2
  <2>2. QED
    BY <1>2, <2>1
<1>4. ASSUME op["client"][c] = "write", buffer["client"][c] # <<>>
      PROVE  r # s
  <2>1. buffer["client"][c] = q /\ o < Len(q)
    BY <1>4 DEF DotTalk, DotWriting, q
  <2>2. r = Front(q, o) /\ o \in 0..Len(q)
    BY <1>2, <2>1 DEF Received
  <2> HIDE DEF r, o
  <2>3. \A k \in 1..o : r[k] = q[k]
    <3>1. q \in Seq(Nat) /\ o \in 0..Len(q)
      BY <1>1, <2>2
    <3>2. \A k \in 1..o : Front(q, o)[k] = q[k]
      BY <3>1, Split
    <3>3. QED
      BY <2>2, <3>2
  <2>4. ASSUME r = s PROVE FALSE
    <3>1. Len(s) \in 1..o /\ Len(s) \in 1..Len(q) /\ Len(s) # Len(q)
      BY <1>1, <1>2, <2>1, <2>2, <2>4
    <3>2. s[Len(s)] = Dot /\ q[Len(s)] # Dot
      BY <1>1, <3>1
    <3>3. QED
      BY <2>3, <2>4, <3>1, <3>2
  <2>5. QED
    BY <2>4
<1>5. Received("client", c) # Text["server"]
  BY <1>3, <1>4 DEF DotTalk, s
<1>6. wire["client"][c] = <<>> => ~DotReplied(c)
  <2>1. ASSUME wire["client"][c] = <<>> PROVE Received("client", c) \o wire["client"][c] = r
    BY <1>2, <2>1, JoinedEmpty
  <2>2. QED
    BY <1>5, <2>1, DotNames DEF DotReplied
<1>7. QED
  BY <1>5, <1>6
(* A read is under way into the room made behind the first o bytes of b. *)
LEMMA RoomMade ==
  ASSUME D!DotEchoAssumption, NEW e, NEW c, NEW b \in Seq(Nat), NEW o \in 0..Len(b),
         D!ReadsOn(e, c, b, o)
  PROVE  \E r \in Seq(Nat) : /\ Starts(e, c, "read", r, o) /\ o <= Len(r)
                             /\ Front(r, o) = Front(b, o)
<1> DEFINE r == Resize(b, o + Chunk, Zero)
<1>1. Starts(e, c, "read", r, o)
  BY DotNames DEF D!ReadsOn
<1>2. Chunk \in Nat /\ Zero \in Nat
  BY Texts
<1>3. r \in Seq(Nat) /\ o <= Len(r) /\ Front(r, o) = Front(b, o)
  BY <1>2, MoreRoom
<1>4. QED
  BY <1>1, <1>3

(* The bytes of a write are said to the peer. *)
LEMMA SaidMore ==
  ASSUME DuplexTypes, NEW e \in Side, NEW c \in Conn, NEW k, Wrote(e, c, k),
         NEW next, NEW b, NEW o, SideMoves(e, c, next, b, o),
         Said(Peer(e), c) = Front(buffer[e][c], offset[e][c])
  PROVE  Said(Peer(e), c)' = Front(buffer[e][c], offset[e][c] + k)
<1> DEFINE p == buffer[e][c]
           i == offset[e][c]
           r == Received(Peer(e), c)
           w == wire[Peer(e)][c]
           t == Front(From(p, i), k)
<1>1. /\ k \in Nat \ {0} /\ i + k <= Len(p)
      /\ wire'[Peer(e)][c] = w \o t
  BY DEF Wrote
<1>2. /\ p \in Seq(Nat) /\ Len(p) \in Nat /\ i \in 0..Len(p)
      /\ r \in Seq(Nat) /\ w \in Seq(Nat)
  BY ReceivedTyped, Sides
<1>3. buffer'[Peer(e)][c] = buffer[Peer(e)][c] /\ offset'[Peer(e)][c] = offset[Peer(e)][c]
  BY SideFacts
<1>4. Received(Peer(e), c)' = r
  BY <1>3 DEF Received
<1>5. Said(Peer(e), c)' = r \o (w \o t) /\ r \o w = Front(p, i)
  BY <1>1, <1>4 DEF Said
<1> HIDE DEF p, i, r, w
<1>6. k \in 0..(Len(p) - i)
  BY <1>1, <1>2
<1>7. From(p, i) \in Seq(Nat) /\ Len(From(p, i)) = Len(p) - i
  BY <1>2, Split
<1>8. t \in Seq(Nat)
  BY <1>6, <1>7, Split
<1>9. Front(p, i) \o t = Front(p, i + k)
  BY <1>2, <1>6, FrontMore
<1> HIDE DEF t
<1>10. (r \o w) \o t = r \o (w \o t)
  BY <1>2, <1>8, Associative
<1>11. QED
  BY <1>5, <1>9, <1>10 DEF p, i

(* A write that takes side e of c to place n of its buffer. *)
DotWrote(e, c, n) ==
  /\ op[e][c] = "write" /\ link[c] = "up"
  /\ offset[e][c] < n /\ n \in 1..Len(buffer[e][c])
  /\ wire'[e][c] = wire[e][c] /\ UNCHANGED <<program, accepting, link, faults>>
  /\ Said(Peer(e), c) = Front(buffer[e][c], offset[e][c]) =>
       Said(Peer(e), c)' = Front(buffer[e][c], n)
DotWroteAll(e, c, n) ==
  /\ DotWrote(e, c, n) /\ n = Len(buffer[e][c]) /\ cut' = cut
  /\ \/ \E b \in Seq(Nat) : SideMoves(e, c, "read", b, 0)
     \/ e = "server" /\ SideMoves(e, c, "over", buffer[e][c], n)
DotWroteOn(e, c, n) ==
  /\ DotWrote(e, c, n) /\ n < Len(buffer[e][c])
  /\ \/ cut' = cut /\ SideMoves(e, c, "write", buffer[e][c], n)
     \/ cut' = [cut EXCEPT ![c] = TRUE] /\ SideMoves(e, c, "write", <<>>, 0)

LEMMA DotWrites ==
  ASSUME D!DotEchoAssumption, DuplexTypes, Weather, NEW e \in Side, NEW c \in Conn,
         DotTypes, D!CallbackWrite(e, c) \/ (D!SwitchWrite(e, c) /\ UNCHANGED cut)
  PROVE  \E n \in 1..Len(buffer[e][c]) : DotWroteAll(e, c, n) \/ DotWroteOn(e, c, n)
<1> DEFINE p == buffer[e][c]
           i == offset[e][c]
<1>1. PICK k \in 1..Len(Text[e]) :
        /\ Written(e, c, k)
        /\ \/ /\ IF i + k = Len(p) THEN D!ReadsOn(e, c, p, 0)
                 ELSE Starts(e, c, "write", <<>>, 0)
              /\ cut' = [cut EXCEPT ![c] = cut[c] \/ i + k # Len(p)]
           \/ /\ IF i + k < Len(p) THEN Starts(e, c, "write", p, i + k)
                 ELSE IF e = "client" THEN D!ReadsOn(e, c, <<>>, 0)
                 ELSE Starts(e, c, "over", p, i + k)
              /\ cut' = cut
  BY DotNames DEF D!CallbackWrite, D!SwitchWrite
<1>2. Wrote(e, c, k)
  BY <1>1, WrittenOne
<1>3. /\ op[e][c] = "write" /\ link[c] = "up" /\ k \in Nat \ {0} /\ i + k <= Len(p)
      /\ wire'[e][c] = wire[e][c] /\ UNCHANGED <<program, accepting, link, faults>>
  BY <1>2 DEF Wrote
<1>4. p \in Seq(Nat) /\ i \in Nat /\ Len(p) \in Nat
  BY ReceivedTyped
<1> DEFINE n == i + k
<1>5. n \in 1..Len(p) /\ i < n /\ n \in Nat /\ n <= Len(p)
  BY <1>3, <1>4
<1>6. ASSUME NEW next, NEW b, NEW o, SideMoves(e, c, next, b, o)
      PROVE  DotWrote(e, c, n)
  <2>1. Said(Peer(e), c) = Front(p, i) => Said(Peer(e), c)' = Front(p, n)
    BY <1>2, <1>6, SaidMore
  <2>2. QED
    BY <1>3, <1>5, <2>1 DEF DotWrote
<1>7. <<>> \in Seq(Nat) /\ Len(<<>>) = 0
  BY JoinedEmpty
<1>8. ASSUME NEW b \in Seq(Nat), D!ReadsOn(e, c, b, 0)
      PROVE  \E r \in Seq(Nat) : SideMoves(e, c, "read", r, 0)
  <2>1. 0 \in 0..Len(b)
    BY LenProperties
  <2>2. PICK r \in Seq(Nat) : Starts(e, c, "read", r, 0) /\ 0 <= Len(r)
    BY <1>8, <2>1, RoomMade
  <2>3. SideMoves(e, c, "read", r, 0)
    <3>1. "read" \in Ops /\ 0 \in Nat
      BY DEF Ops
    <3>2. QED
      BY <1>1, <2>2, <3>1, WrittenSide
  <2>4. QED
    BY <2>3
<1>9. CASE n = Len(p)
  <2>1. cut' = cut
    BY <1>1, <1>9 DEF DotTypes
  <2>2. \/ \E b \in Seq(Nat) : SideMoves(e, c, "read", b, 0)
        \/ e = "server" /\ SideMoves(e, c, "over", p, n)
    <3>1. CASE D!ReadsOn(e, c, p, 0)
      BY <1>4, <1>8, <3>1
    <3>2. CASE D!ReadsOn(e, c, <<>>, 0)
      BY <1>7, <1>8, <3>2
    <3>3. CASE e # "client" /\ Starts(e, c, "over", p, n)
      <4>1. "over" \in Ops
        BY DEF Ops
      <4>2. SideMoves(e, c, "over", p, n)
        BY <1>1, <1>4, <1>5, <3>3, <4>1, WrittenSide
      <4>3. QED
        BY <3>3, <4>2 DEF Side
    <3>4. QED
      BY <1>1, <1>4, <1>9, <3>1, <3>2, <3>3
  <2>3. DotWrote(e, c, n)
    BY <1>6, <2>2
  <2>4. DotWroteAll(e, c, n)
    BY <1>9, <2>1, <2>2, <2>3 DEF DotWroteAll
  <2>5. QED
    BY <1>5, <2>4
<1>10. CASE n # Len(p)
  <2>1. n < Len(p)
    BY <1>4, <1>5, <1>10
  <2>2. \/ cut' = cut /\ SideMoves(e, c, "write", p, n)
        \/ cut' = [cut EXCEPT ![c] = TRUE] /\ SideMoves(e, c, "write", <<>>, 0)
    <3>1. "write" \in Ops /\ 0 \in Nat /\ 0 <= Len(<<>>)
      BY <1>7 DEF Ops
    <3>2. CASE Starts(e, c, "write", <<>>, 0) /\ cut' = [cut EXCEPT ![c] = TRUE]
      BY <1>1, <1>7, <3>1, <3>2, WrittenSide
    <3>3. CASE Starts(e, c, "write", p, n) /\ cut' = cut
      BY <1>1, <1>4, <1>5, <3>1, <3>3, WrittenSide
    <3>4. QED
      BY <1>1, <1>10, <2>1, <3>2, <3>3
  <2>3. DotWrote(e, c, n)
    BY <1>6, <2>2
  <2>4. DotWroteOn(e, c, n)
    BY <2>1, <2>2, <2>3 DEF DotWroteOn
  <2>5. QED
    BY <1>5, <2>4
<1>11. QED
  BY <1>9, <1>10
(* A read of side e of c, of a part or of all that its peer has to say. *)
DotRead(e, c) ==
  /\ op[e][c] = "read" /\ link[c] = "up" /\ wire[e][c] # <<>>
  /\ wire'[Peer(e)][c] = wire[Peer(e)][c] /\ UNCHANGED <<program, accepting, link, faults>>
DotReadOn(e, c) ==
  /\ DotRead(e, c) /\ Said(e, c)' = Said(e, c)
  /\ \E b \in Seq(Nat), o \in Nat : SideMoves(e, c, "read", b, o) /\ o < Len(Text[Peer(e)])
DotReadAll(e, c) ==
  /\ DotRead(e, c) /\ Said(e, c) = Text[Peer(e)] /\ wire'[e][c] = <<>>
  /\ \/ /\ e = "client" /\ Received("client", c)' = Text["server"]
        /\ \E b \in Seq(Nat), o \in Nat : SideMoves("client", c, "over", b, o)
     \/ e = "server" /\ SideMoves("server", c, "write", Text["server"], 0)

LEMMA DotReads ==
  ASSUME D!DotEchoAssumption, DuplexTypes, Weather, NEW e \in Side, NEW c \in Conn,
         D!ReadSome(e, c), NEW n \in 0..Len(Text[Peer(e)]),
         Said(e, c) = Front(Text[Peer(e)], n)
  PROVE  DotReadAll(e, c) \/ DotReadOn(e, c)
<1> DEFINE m == Text[Peer(e)]
           i == offset[e][c]
           w == wire'[e][c]
<1>1. PICK k \in 1..Chunk :
        Read(e, c, k) /\ D!GoesOn(e, c, Filled(e, c, k), i + k)
  BY DotNames DEF D!ReadSome
<1> DEFINE f == Filled(e, c, k)
           o == i + k
<1>2. /\ f[o] # Dot => D!ReadsOn(e, c, f, o)
      /\ f[o] = Dot /\ e = "client" => Starts(e, c, "over", f, o)
      /\ f[o] = Dot /\ e # "client" => Starts(e, c, "write", Text[e], 0)
  BY <1>1, DotNames DEF D!GoesOn
<1>3. HasRead(e, c, k)
  BY <1>1, ReadOne
<1>4. /\ k \in Nat \ {0} /\ o <= Len(buffer[e][c])
      /\ f \in Seq(Nat) /\ Len(f) = Len(buffer[e][c])
      /\ Front(f, o) \o w = Said(e, c)
      /\ wire' \in [Side -> [Conn -> Seq(Nat)]]
  BY <1>3 DEF HasRead, Said
<1>5. DotRead(e, c)
  BY <1>3 DEF HasRead, DotRead
<1>6. i \in Nat /\ Len(buffer[e][c]) \in Nat /\ w \in Seq(Nat)
  BY <1>4, ReceivedTyped
<1>7. /\ m \in Seq(Nat) /\ Len(m) \in Nat \ {0}
      /\ \A j \in 1..Len(m) : m[j] = Dot <=> j = Len(m)
  BY Texts, Sides
<1>8. n \in 0..Len(m) /\ Joins(Front(f, o), w, Front(m, n))
  BY <1>4 DEF Joins
<1>9. Front(m, Len(m)) = m
  BY <1>7, SplitEnds
<1> HIDE DEF f, w, m
<1>10. o \in 1..Len(f) /\ o \in 0..Len(f) /\ o \in Nat
  BY <1>4, <1>6
<1> HIDE DEF o
<1>11. /\ o <= n /\ Front(f, o) = Front(m, o) /\ f[o] = m[o] /\ (o = n => w = <<>>)
  BY <1>4, <1>6, <1>7, <1>8, <1>10, ReadByte
<1>12. f[o] = Dot <=> o = Len(m)
  <2>1. o \in 1..Len(m)
    BY <1>7, <1>8, <1>10, <1>11
  <2>2. QED
    BY <1>7, <1>11, <2>1
<1>13. CASE o = Len(m)
  <2>1. n = o /\ w = <<>> /\ Said(e, c) = m /\ Front(f, o) = m
    <3>1. n = o
      BY <1>7, <1>8, <1>10, <1>11, <1>13
    <3>2. QED
      BY <1>9, <1>11, <1>13, <3>1 DEF m
  <2>2. CASE e = "client"
    <3>1. "over" \in Ops /\ o <= Len(f)
      BY <1>10 DEF Ops
    <3>2. SideMoves(e, c, "over", f, o)
      BY <1>1, <1>2, <1>4, <1>10, <1>12, <1>13, <2>2, <3>1, ReadSide
    <3>3. buffer'[e][c] = f /\ offset'[e][c] = o
      BY <3>2, SideFacts
    <3>4. Received("client", c)' = m
      BY <2>1, <2>2, <3>3 DEF Received
    <3>5. QED
      BY <1>4, <1>5, <1>10, <2>1, <2>2, <3>2, <3>4, Sides DEF DotReadAll, m, w
  <2>3. CASE e # "client"
    <3>1. e = "server" /\ Text[e] \in Seq(Nat) /\ "write" \in Ops
      BY <2>3, Texts DEF Side, Ops
    <3>2. 0 \in Nat /\ 0 <= Len(Text[e])
      BY <3>1, LenProperties
    <3>3. SideMoves(e, c, "write", Text[e], 0)
      BY <1>1, <1>2, <1>12, <1>13, <2>3, <3>1, <3>2, ReadSide
    <3>4. QED
      BY <1>5, <2>1, <3>1, <3>3 DEF DotReadAll, m, w
  <2>4. QED
    BY <2>2, <2>3
<1>14. CASE o # Len(m)
  <2>1. PICK r \in Seq(Nat) : /\ Starts(e, c, "read", r, o) /\ o <= Len(r)
                              /\ Front(r, o) = Front(f, o)
    BY <1>2, <1>4, <1>10, <1>12, <1>14, RoomMade
  <2>2. SideMoves(e, c, "read", r, o)
    <3>1. "read" \in Ops
      BY DEF Ops
    <3>2. QED
      BY <1>1, <1>10, <2>1, <3>1, ReadSide
  <2>3. buffer'[e][c] = r /\ offset'[e][c] = o
    BY <2>2, SideFacts
  <2>4. Said(e, c)' = Said(e, c)
    BY <1>4, <2>1, <2>3 DEF Said, Received, w
  <2>5. o < Len(m)
    BY <1>7, <1>8, <1>10, <1>11, <1>14
  <2>6. QED
    BY <1>5, <1>10, <2>2, <2>4, <2>5 DEF DotReadOn, m
<1>15. QED
  BY <1>13, <1>14
(* A step of one connection after which its programs go on. *)
DotHandled(c) ==
  /\ DuplexTypes' /\ Weather' /\ Acceptor' /\ DotTypes' /\ DotTalk(c)'
  /\ Others(c) /\ UNCHANGED <<program, style>> /\ faults <= faults'
  /\ cut[c] => cut'[c]
  /\ \A d \in Conn \ {c} : cut'[d] = cut[d]

LEMMA DotMoves ==
  ASSUME DuplexTypes, Acceptor, DotTypes, NEW e \in Side, NEW c \in Conn,
         NEW next, NEW b, NEW o, SideMoves(e, c, next, b, o), DotTalk(c)',
         cut' = cut \/ cut' = [cut EXCEPT ![c] = TRUE], UNCHANGED style,
         accepting => accepting', faults <= faults'
  PROVE  DotHandled(c)
<1>1. /\ DuplexTypes' /\ Weather' /\ Others(c) /\ program' = program
      /\ AllOver => AllOver'
  BY DEF SideMoves
<1>2. faults' \in Nat
  BY <1>1 DEF DuplexTypes
<1>3. Acceptor'
  BY <1>1, <1>2, AcceptorKept
<1>4. /\ DotTypes' /\ (cut[c] => cut'[c])
      /\ \A d \in Conn \ {c} : cut'[d] = cut[d]
  BY DEF DotTypes
<1>5. QED
  BY <1>1, <1>3, <1>4 DEF DotHandled

(* What one side of c does not change of the other. *)
LEMMA PeerSaid ==
  ASSUME NEW e \in Side, NEW c \in Conn, NEW next, NEW b, NEW o, SideMoves(e, c, next, b, o)
  PROVE  /\ Received(Peer(e), c)' = Received(Peer(e), c)
         /\ wire'[Peer(e)][c] = wire[Peer(e)][c] => Said(Peer(e), c)' = Said(Peer(e), c)
<1>1. buffer'[Peer(e)][c] = buffer[Peer(e)][c] /\ offset'[Peer(e)][c] = offset[Peer(e)][c]
  BY SideFacts
<1>2. QED
  BY <1>1 DEF Said, Received

(* Got and Replied, now and after a step. *)
LEMMA GotSaid ==
  ASSUME NEW c \in Conn
  PROVE  /\ DotGot(c) <=> op["client"][c] = "over" /\ Received("client", c) = Text["server"]
         /\ DotGot(c)' <=> op'["client"][c] = "over" /\ Received("client", c)' = Text["server"]
         /\ DotReplied(c) <=> op["client"][c] = "read" /\ Said("client", c) = Text["server"]
         /\ DotReplied(c)' <=> op'["client"][c] = "read" /\ Said("client", c)' = Text["server"]
BY DEF DotGot, DotReplied, Said, Received, D!Received, D!Front, Front

(* The beginning of a side's operation: nothing has been read yet. *)
LEMMA SaidNothing ==
  ASSUME DuplexTypes', NEW e \in Side, NEW c \in Conn, offset'[e][c] = 0
  PROVE  Received(e, c)' = <<>> /\ (wire'[e][c] = <<>> => Said(e, c)' = <<>>)
<1> DEFINE b == buffer'[e][c]
<1>1. b \in Seq(Nat)
  BY DEF DuplexTypes
<1>2. Received(e, c)' = Front(b, 0)
  BY DEF Received
<1> HIDE DEF b
<1>3. Front(b, 0) = <<>>
  BY <1>1, SplitEnds
<1>4. <<>> \o <<>> = <<>>
  BY JoinedEmpty
<1>5. QED
  BY <1>2, <1>3, <1>4 DEF Said

LEMMA DotConnects ==
  ASSUME D!DotEchoAssumption, DuplexTypes, Weather, Acceptor, DotTypes,
         NEW c \in Conn, DotTalk(c), D!Connect(c), UNCHANGED <<style, cut>>
  PROVE  DotHandled(c) /\ DotSame(c)
<1>1. Connected(c, "write", Text["client"])
  BY DotNames DEF D!Connect
<1>2. Text["client"] \in Seq(Nat) /\ "write" \in Ops
  BY Texts, Sides DEF Ops
<1>3. /\ SideMoves("client", c, "write", Text["client"], 0)
      /\ op["client"][c] = "connect" /\ program["server"] = "up" /\ link'[c] = "up"
      /\ UNCHANGED <<accepting, wire, faults>>
  BY <1>1, <1>2, ConnectedSide
<1>4. /\ op'["client"][c] = "write" /\ offset'["client"][c] = 0
      /\ buffer'["client"][c] = Text["client"]
      /\ op'["server"][c] = op["server"][c] /\ buffer'["server"][c] = buffer["server"][c]
      /\ offset'["server"][c] = offset["server"][c] /\ program' = program
  BY <1>3, SideFacts, Sides
<1>5. /\ link[c] = "none" /\ op["server"][c] = "new" /\ ~cut[c]
      /\ wire["client"][c] = <<>> /\ wire["server"][c] = <<>> /\ offset["server"][c] = 0
  BY <1>3 DEF DotTalk
<1>6. Said("server", c)' = <<>>
  BY <1>3, <1>4, <1>5, SaidNothing, Sides DEF SideMoves
<1>7. Front(Text["client"], 0) = <<>> /\ 0 \in 0..Len(Text["client"])
      /\ 0 < Len(Text["client"])
  BY Texts, Beginnings, Sides
<1>8. DotTalk(c)'
  <2>1. DotWriting(c)'
    BY <1>3, <1>4, <1>5, <1>6, <1>7 DEF DotWriting
  <2>2. QED
    BY <1>3, <1>4, <1>5, <1>6, <1>7, <2>1 DEF DotTalk
<1>9. faults <= faults'
  BY <1>3 DEF DuplexTypes
<1>10. DotHandled(c)
  BY <1>3, <1>8, <1>9, DotMoves, Sides
<1>11. DotSame(c)
  BY <1>3, <1>4, <1>5 DEF DotSame, DotPhase, DotGot, DotReplied
<1>12. QED
  BY <1>10, <1>11

(* Side e of c lets its connection go; nothing that was answered is lost. *)
LEMMA DotLeft ==
  ASSUME D!DotEchoAssumption, DuplexTypes, NEW e \in Side, NEW c \in Conn, DotTalk(c),
         Closes(e, c), UNCHANGED cut,
         e = "server" /\ op["client"][c] = "connect" => program'["server"] # "up",
         program["server"] # "up" => program'["server"] # "up"
  PROVE  /\ DotTalk(c)'
         /\ DotSame(c) \/ /\ DotPhase(c) # "answered" /\ DotPhase(c)' = "failed"
                          /\ op["client"][c] # "over"
<1>1. /\ op'[e][c] = "over" /\ op'[Peer(e)][c] = op[Peer(e)][c] /\ link'[c] = link[c]
      /\ \A f \in Side : /\ buffer'[f][c] = buffer[f][c] /\ offset'[f][c] = offset[f][c]
                         /\ wire'[f][c] = wire[f][c]
  BY DEF Closes, KeptLine
<1>2. \A f \in Side : Received(f, c)' = Received(f, c) /\ Said(f, c)' = Said(f, c)
  BY <1>1 DEF Received, Said
<1>3. /\ DotGot(c) <=> op["client"][c] = "over" /\ Received("client", c) = Text["server"]
      /\ DotGot(c)' <=> op'["client"][c] = "over" /\ Received("client", c)' = Text["server"]
      /\ DotReplied(c) <=> op["client"][c] = "read" /\ Said("client", c) = Text["server"]
      /\ DotReplied(c)' <=> op'["client"][c] = "read" /\ Said("client", c)' = Text["server"]
  BY GotSaid
<1>4. DotAsked(c)' <=> DotAsked(c)
  BY <1>2, Sides DEF DotAsked
<1>5. CASE e = "client"
  <2>1. op'["client"][c] = "over" /\ op'["server"][c] = op["server"][c]
    BY <1>1, <1>5, Sides
  <2>2. DotTalk(c)'
    BY <1>1, <1>2, <2>1, Sides DEF DotTalk
  <2>3. op["client"][c] # "over" => Received("client", c) # Text["server"]
    BY DotNotYet
  <2>4. QED
    BY <1>1, <1>2, <1>3, <2>1, <2>2, <2>3, Sides DEF DotSame, DotPhase
<1>6. CASE e = "server"
  <2>1. op'["server"][c] = "over" /\ op'["client"][c] = op["client"][c]
    BY <1>1, <1>6, Sides
  <2>2. op["client"][c] = "write" => DotWriting(c)'
    BY <1>1, <2>1, Sides DEF DotTalk, DotWriting
  <2>3. op["client"][c] = "read" => DotReading(c)'
    BY <1>1, <1>2, <2>1, Sides DEF DotTalk, DotReading
  <2>4. DotTalk(c)'
    BY <1>1, <1>6, <2>1, <2>2, <2>3, Sides DEF DotTalk
  <2>5. (DotGot(c)' <=> DotGot(c)) /\ (DotReplied(c)' <=> DotReplied(c))
    BY <1>2, <1>3, <2>1, Sides
  <2>6. DotSame(c) \/ /\ DotPhase(c) # "answered" /\ DotPhase(c)' = "failed"
                      /\ op["client"][c] # "over"
    BY <1>1, <2>1, <2>5 DEF DotSame, DotPhase
  <2>7. QED
    BY <2>4, <2>6
<1>7. QED
  BY <1>5, <1>6 DEF Side
LEMMA DotConnectFails ==
  ASSUME D!DotEchoAssumption, DuplexTypes, Weather, Acceptor, DotTypes,
         NEW c \in Conn, DotTalk(c), D!ConnectFails(c), UNCHANGED <<style, cut>>
  PROVE  DotHandled(c) /\ DotFails(c)
<1>1. /\ op["client"][c] = "connect" /\ LetsGo("client", c)
      /\ IF program["server"] = "up" THEN Fault ELSE UNCHANGED faults
  BY DotNames DEF D!ConnectFails
<1>2. faults \in Nat /\ faults' \in Nat /\ faults <= faults'
  BY <1>1 DEF DuplexTypes, Fault
<1>3. faults' > 0
  BY <1>1, <1>2 DEF Weather, AllOver, Fault
<1>4. /\ SideMoves("client", c, "over", buffer["client"][c], offset["client"][c])
      /\ Closes("client", c) /\ UNCHANGED <<accepting, link, wire>>
  BY <1>1, <1>2, LeftSide, Sides
<1>5. DotTalk(c)' /\ (DotSame(c) \/ (DotPhase(c) # "answered" /\ DotPhase(c)' = "failed"))
  <2>1. program' = program /\ UNCHANGED cut /\ Closes("client", c) /\ "client" \in Side
    BY <1>4, SideFacts, Sides
  <2>2. DotTalk(c)' /\ (DotSame(c) \/ (DotPhase(c) # "answered" /\ DotPhase(c)' = "failed"))
    BY <2>1, DotLeft
  <2>3. QED
    BY <2>2
<1>6. DotHandled(c)
  BY <1>2, <1>4, <1>5, DotMoves, Sides
<1>7. DotPhase(c) # "answered" /\ DotPhase(c)' = "failed"
  <2>1. op'["client"][c] = "over"
    BY <1>4 DEF Closes
  <2>2. DotPhase(c)' \in {"answered", "failed"} /\ DotPhase(c) # "answered"
    BY <1>1, <2>1, GotSaid DEF DotPhase
  <2>3. QED
    BY <1>5, <2>2 DEF DotSame
<1>8. QED
  BY <1>3, <1>6, <1>7 DEF DotFails, DotFaulted

LEMMA DotAccepts ==
  ASSUME D!DotEchoAssumption, DuplexTypes, Weather, Acceptor, DotTypes,
         NEW c \in Conn, DotTalk(c), D!Accept(c), UNCHANGED <<style, cut>>
  PROVE  DotHandled(c) /\ DotSame(c)
<1> DEFINE b == Resize(<<>>, Chunk, Zero)
<1>1. Accepted(c, TRUE, b)
  BY DotNames DEF D!Accept
<1>2. b \in Seq(Nat)
  <2>1. Chunk \in Nat /\ Zero \in Nat /\ <<>> \in Seq(Nat)
    BY Texts, JoinedEmpty
  <2>2. QED
    BY <2>1, FreshRead
<1> HIDE DEF b
<1>3. /\ SideMoves("server", c, "read", b, 0)
      /\ link[c] # "none" /\ op["server"][c] = "new" /\ accepting' = TRUE
      /\ UNCHANGED <<link, wire, faults>>
  BY <1>1, <1>2, AcceptedSide
<1>4. /\ op'["server"][c] = "read" /\ offset'["server"][c] = 0
      /\ op'["client"][c] = op["client"][c] /\ buffer'["client"][c] = buffer["client"][c]
      /\ offset'["client"][c] = offset["client"][c]
  BY <1>3, SideFacts, Sides
<1>5. Received("client", c)' = Received("client", c) /\ Said("client", c)' = Said("client", c)
  BY <1>3, PeerSaid, Sides
<1>6. Said("server", c)' = Said("server", c)
  <2>1. buffer["server"][c] = <<>> /\ offset["server"][c] = 0
    BY <1>3 DEF DotTalk
  <2>2. Received("server", c) = <<>>
    <3>1. Received("server", c) \in Seq(Nat) /\ Len(Received("server", c)) = 0
      BY <2>1, ReceivedTyped, Sides
    <3>2. QED
      BY <3>1, EmptySeq
  <2>3. Received("server", c)' = <<>>
    BY <1>3, <1>4, SaidNothing, Sides DEF SideMoves
  <2>4. QED
    BY <1>3, <2>2, <2>3 DEF Said
<1>7. DotAsked(c)' <=> DotAsked(c)
  BY <1>6 DEF DotAsked
<1>8. DotTalk(c)'
  <2>1. op["client"][c] \in {"write", "read", "over"}
    BY <1>3 DEF DotTalk
  <2>2. op["client"][c] = "write" => DotWriting(c)'
    BY <1>3, <1>4, <1>6, <1>7 DEF DotTalk, DotWriting
  <2>3. op["client"][c] = "read" => DotReading(c)'
    BY <1>3, <1>4, <1>5, <1>7 DEF DotTalk, DotReading
  <2>4. \E n \in 0..Len(Text["client"]) : Said("server", c)' = Front(Text["client"], n)
    BY <1>3, <1>6 DEF DotTalk
  <2>5. QED
    BY <1>4, <2>1, <2>2, <2>3, <2>4 DEF DotTalk
<1>9. faults <= faults'
  BY <1>3 DEF DuplexTypes
<1>10. DotHandled(c)
  BY <1>3, <1>8, <1>9, DotMoves, Sides
<1>11. (DotGot(c)' <=> DotGot(c)) /\ (DotReplied(c)' <=> DotReplied(c))
  BY <1>4, <1>5, GotSaid
<1>12. DotSame(c)
  BY <1>3, <1>4, <1>11 DEF DotSame, DotPhase
<1>13. QED
  BY <1>10, <1>12

LEMMA DotClientWrites ==
  ASSUME D!DotEchoAssumption, DuplexTypes, Weather, Acceptor, DotTypes,
         NEW c \in Conn, DotTalk(c), UNCHANGED style, NEW n,
         DotWroteAll("client", c, n) \/ DotWroteOn("client", c, n)
  PROVE  DotHandled(c) /\ (DotSame(c) \/ DotFails(c))
<1> DEFINE q == Text["client"]
           s == Text["server"]
           sv == op["server"][c]
<1>1. /\ op["client"][c] = "write" /\ link[c] = "up"
      /\ n \in 1..Len(buffer["client"][c])
      /\ wire'["client"][c] = wire["client"][c]
      /\ UNCHANGED <<program, accepting, link, faults>>
      /\ Said("server", c) = Front(buffer["client"][c], offset["client"][c]) =>
           Said("server", c)' = Front(buffer["client"][c], n)
  <2>1. DotWrote("client", c, n)
    BY DEF DotWroteAll, DotWroteOn
  <2>2. QED
    BY <2>1, Sides DEF DotWrote
<1>2. /\ q \in Seq(Nat) /\ s \in Seq(Nat) /\ Len(q) \in Nat \ {0} /\ Len(s) \in Nat \ {0}
      /\ Front(q, Len(q)) = q /\ Front(s, 0) = <<>> /\ s # <<>>
  BY Texts, Sides, SplitEnds
<1>3. /\ buffer["client"][c] = q /\ ~cut[c] /\ wire["client"][c] = <<>>
      /\ sv \in {"new", "read"} => Said("server", c)' = Front(q, n)
      /\ sv \in {"new", "read", "over"}
      /\ n \in 1..Len(q)
  <2>1. DotWriting(c)
    BY <1>1 DEF DotTalk
  <2>2. buffer["client"][c] # <<>>
    BY <1>1, EmptySeq
  <2>3. /\ buffer["client"][c] = q /\ ~cut[c] /\ wire["client"][c] = <<>>
        /\ sv # "over" => Said("server", c) = Front(q, offset["client"][c])
    BY <2>1, <2>2 DEF DotWriting
  <2>4. sv \in {"new", "read", "over"}
    BY <1>1 DEF DotTalk
  <2>5. QED
    BY <1>1, <2>3, <2>4
<1>4. ~DotGot(c) /\ ~DotReplied(c)
  BY <1>1, GotSaid
<1>5. faults <= faults'
  BY <1>1 DEF DuplexTypes
<1> HIDE DEF q, s
<1>6. CASE DotWroteAll("client", c, n)
  <2>1. n = Len(q) /\ cut' = cut /\ \E b \in Seq(Nat) : SideMoves("client", c, "read", b, 0)
    BY <1>3, <1>6, Sides DEF DotWroteAll
  <2>2. PICK b \in Seq(Nat) : SideMoves("client", c, "read", b, 0)
    BY <2>1
  <2>3. /\ op'["client"][c] = "read" /\ offset'["client"][c] = 0
        /\ op'["server"][c] = sv /\ buffer'["server"][c] = buffer["server"][c]
        /\ offset'["server"][c] = offset["server"][c]
    BY <2>2, SideFacts, Sides
  <2>4. Received("client", c)' = <<>> /\ Said("client", c)' = <<>>
    BY <1>1, <1>3, <2>2, <2>3, SaidNothing, Sides DEF SideMoves
  <2>5. sv \in {"new", "read"} => Said("server", c)' = q
    BY <1>2, <1>3, <2>1
  <2>6. DotTalk(c)'
    <3>1. sv \in {"new", "read"} => DotAsked(c)'
      BY <1>3, <2>1, <2>5 DEF DotAsked, q
    <3>2. DotReading(c)'
      <4>1. 0 \in 0..Len(s) /\ 0 < Len(s) /\ Said("client", c)' = Front(s, 0)
        BY <1>2, <2>4
      <4>2. QED
        BY <1>1, <1>3, <2>3, <3>1, <4>1 DEF DotReading, s
    <3>3. Len(q) \in 0..Len(q)
      BY <1>2
    <3>4. sv = "new" => buffer["server"][c] = <<>> /\ offset["server"][c] = 0
      BY DEF DotTalk
    <3>5. QED
      BY <1>2, <1>3, <2>3, <2>5, <3>2, <3>3, <3>4 DEF DotTalk, q
  <2>7. DotHandled(c)
    BY <1>1, <1>5, <2>1, <2>2, <2>6, DotMoves, Sides
  <2>8. ~DotGot(c)' /\ ~DotReplied(c)'
    BY <1>2, <2>3, <2>4, GotSaid DEF s
  <2>9. DotSame(c)
    BY <1>1, <1>3, <1>4, <2>1, <2>3, <2>8 DEF DotSame, DotPhase
  <2>10. QED
    BY <2>7, <2>9
<1>7. CASE DotWroteOn("client", c, n)
  <2>1. n < Len(q) /\ n \in 0..(Len(q) - 1) /\ n \in 0..Len(q)
    BY <1>2, <1>3, <1>7 DEF DotWroteOn
  <2>2. sv = "new" => buffer["server"][c] = <<>> /\ offset["server"][c] = 0
    BY DEF DotTalk
  <2>3. CASE cut' = cut /\ SideMoves("client", c, "write", q, n)
    <3>1. /\ op'["client"][c] = "write" /\ offset'["client"][c] = n
          /\ buffer'["client"][c] = q
          /\ op'["server"][c] = sv /\ buffer'["server"][c] = buffer["server"][c]
          /\ offset'["server"][c] = offset["server"][c]
      BY <2>3, SideFacts, Sides
    <3>2. DotWriting(c)'
      BY <1>1, <1>3, <2>1, <2>3, <3>1 DEF DotWriting, q
    <3>3. DotTalk(c)'
      BY <1>3, <2>1, <2>2, <3>1, <3>2 DEF DotTalk, q
    <3>4. DotHandled(c)
      BY <1>1, <1>5, <2>3, <3>3, DotMoves, Sides
    <3>5. ~DotGot(c)' /\ ~DotReplied(c)'
      BY <3>1, GotSaid
    <3>6. DotSame(c)
      BY <1>1, <1>3, <1>4, <2>3, <3>1, <3>5 DEF DotSame, DotPhase
    <3>7. QED
      BY <3>4, <3>6
  <2>4. CASE cut' = [cut EXCEPT ![c] = TRUE] /\ SideMoves("client", c, "write", <<>>, 0)
    <3>1. /\ op'["client"][c] = "write" /\ offset'["client"][c] = 0
          /\ buffer'["client"][c] = <<>>
          /\ op'["server"][c] = sv /\ buffer'["server"][c] = buffer["server"][c]
          /\ offset'["server"][c] = offset["server"][c]
      BY <2>4, SideFacts, Sides
    <3>2. cut'[c]
      BY <2>4 DEF DotTypes
    <3>3. sv \in {"new", "read"} => DotAsked(c)'
      BY <1>3, <2>1, <3>2 DEF DotAsked, q
    <3>4. DotWriting(c)'
      BY <1>1, <1>3, <3>1, <3>2, <3>3 DEF DotWriting
    <3>5. DotTalk(c)'
      BY <1>3, <2>1, <2>2, <3>1, <3>4 DEF DotTalk, q
    <3>6. DotHandled(c)
      BY <1>1, <1>5, <2>4, <3>5, DotMoves, Sides
    <3>7. ~DotGot(c)'
      BY <3>1, GotSaid
    <3>8. DotFails(c)
      BY <1>4, <3>2, <3>7 DEF DotFails, DotPhase, DotFaulted
    <3>9. QED
      BY <3>6, <3>8
  <2>5. QED
    BY <1>3, <1>7, <2>3, <2>4 DEF DotWroteOn
<1>8. QED
  BY <1>6, <1>7
LEMMA DotServerWrites ==
  ASSUME D!DotEchoAssumption, DuplexTypes, Weather, Acceptor, DotTypes,
         NEW c \in Conn, DotTalk(c), UNCHANGED style, NEW n,
         DotWroteAll("server", c, n) \/ DotWroteOn("server", c, n)
  PROVE  DotHandled(c) /\ (DotSame(c) \/ DotFails(c))
<1> DEFINE q == Text["client"]
           s == Text["server"]
           cl == op["client"][c]
           p == buffer["server"][c]
<1>1. /\ op["server"][c] = "write" /\ link[c] = "up" /\ n \in 1..Len(p)
      /\ wire'["server"][c] = wire["server"][c]
      /\ UNCHANGED <<program, accepting, link, faults>>
      /\ Said("client", c) = Front(p, offset["server"][c]) => Said("client", c)' = Front(p, n)
  <2>1. DotWrote("server", c, n)
    BY DEF DotWroteAll, DotWroteOn
  <2>2. QED
    BY <2>1, Sides DEF DotWrote
<1>2. /\ q \in Seq(Nat) /\ s \in Seq(Nat) /\ Len(q) \in Nat \ {0} /\ Len(s) \in Nat \ {0}
      /\ Front(s, Len(s)) = s /\ Front(q, 0) = <<>> /\ s # <<>>
  BY Texts, Sides, SplitEnds
<1>3. cl \in {"read", "over"} /\ wire["server"][c] = <<>>
  BY <1>1 DEF DotTalk
<1>4. cl = "read" =>
        /\ p = s /\ ~cut[c] /\ Said("client", c)' = Front(s, n)
        /\ offset["client"][c] < Len(s)
  <2> SUFFICES ASSUME cl = "read"
               PROVE  /\ p = s /\ ~cut[c] /\ Said("client", c)' = Front(s, n)
                      /\ offset["client"][c] < Len(s)
    OBVIOUS
  <2>1. DotReading(c) /\ p # <<>>
    BY <1>1, EmptySeq DEF DotTalk
  <2>2. /\ p = s /\ ~cut[c] /\ Said("client", c) = Front(s, offset["server"][c])
        /\ offset["client"][c] < Len(s)
    BY <1>1, <2>1 DEF DotReading
  <2>3. QED
    BY <1>1, <2>2
<1>5. faults <= faults'
  BY <1>1 DEF DuplexTypes
<1>6. PICK next, b, o :
        /\ SideMoves("server", c, next, b, o) /\ next \in {"read", "write", "over"}
        /\ \/ /\ n = Len(p) /\ cut' = cut
              /\ (next = "read" /\ o = 0) \/ next = "over"
           \/ n < Len(p) /\ cut' = cut /\ next = "write" /\ b = p /\ o = n
           \/ n < Len(p) /\ cut' = [cut EXCEPT ![c] = TRUE] /\ next = "write" /\ b = <<>>
  BY DEF DotWroteAll, DotWroteOn
<1>7. /\ op'["server"][c] = next /\ buffer'["server"][c] = b /\ offset'["server"][c] = o
      /\ op'["client"][c] = cl /\ offset'["client"][c] = offset["client"][c]
  BY <1>6, SideFacts, Sides
<1>8. Received("client", c)' = Received("client", c)
  BY <1>6, PeerSaid, Sides
<1>9. next = "read" => Said("server", c)' = <<>>
  <2>1. next = "read" => offset'["server"][c] = 0
    BY <1>6, <1>7
  <2>2. QED
    BY <1>1, <1>3, <1>6, <2>1, SaidNothing, Sides DEF SideMoves
<1>10. 0 \in 0..Len(q)
  BY <1>2
<1> HIDE DEF q, s, p
<1>11. CASE cl = "over"
  <2>0. next \in {"read", "write", "over"}
    BY <1>6
  <2>1. DotTalk(c)'
    BY <1>1, <1>2, <1>3, <1>7, <1>9, <1>10, <1>11, <2>0 DEF DotTalk, q
  <2>2. DotHandled(c)
    BY <1>1, <1>5, <1>6, <2>1, DotMoves, Sides
  <2>3. DotGot(c)' <=> DotGot(c)
    BY <1>7, <1>8, GotSaid
  <2>4. DotSame(c)
    BY <1>7, <1>11, <2>3 DEF DotSame, DotPhase
  <2>5. QED
    BY <2>2, <2>4
<1>12. CASE cl = "read"
  <2>1. /\ p = s /\ ~cut[c] /\ Said("client", c)' = Front(s, n)
        /\ offset["client"][c] < Len(s) /\ n \in 0..Len(s)
    BY <1>1, <1>2, <1>4, <1>12
  <2>2. ~DotGot(c) /\ ~DotGot(c)'
    BY <1>7, <1>12, GotSaid
  <2>3. DotPhase(c) = "asked"
    BY <1>1, <1>12, <2>1, <2>2 DEF DotPhase
  <2>4. CASE n = Len(p) /\ cut' = cut
    <3>1. Said("client", c)' = s /\ next \in {"read", "over"}
      BY <1>2, <1>6, <2>1, <2>4
    <3>2. DotReading(c)'
      BY <1>1, <1>3, <1>7, <2>1, <2>4, <3>1 DEF DotReading, s
    <3>3. DotTalk(c)'
      BY <1>2, <1>7, <1>9, <1>10, <1>12, <3>1, <3>2 DEF DotTalk, q
    <3>4. DotHandled(c)
      BY <1>1, <1>5, <1>6, <3>3, DotMoves, Sides
    <3>5. DotReplied(c)'
      BY <1>7, <1>12, <3>1, GotSaid DEF s
    <3>6. DotPhase(c)' = "asked"
      BY <1>1, <1>7, <1>12, <2>1, <2>2, <2>4, <3>5 DEF DotPhase
    <3>7. QED
      BY <2>3, <3>4, <3>6 DEF DotSame
  <2>5. CASE n < Len(p) /\ cut' = cut /\ next = "write" /\ b = p /\ o = n
    <3>1. DotReading(c)'
      BY <1>7, <2>1, <2>5 DEF DotReading, s
    <3>2. DotTalk(c)'
      BY <1>1, <1>3, <1>7, <1>12, <2>5, <3>1 DEF DotTalk
    <3>3. DotHandled(c)
      BY <1>1, <1>5, <1>6, <3>2, DotMoves, Sides
    <3>4. DotPhase(c)' = "asked"
      BY <1>1, <1>7, <1>12, <2>1, <2>2, <2>5 DEF DotPhase
    <3>5. QED
      BY <2>3, <3>3, <3>4 DEF DotSame
  <2>6. CASE n < Len(p) /\ cut' = [cut EXCEPT ![c] = TRUE] /\ next = "write" /\ b = <<>>
    <3>1. cut'[c]
      BY <2>6 DEF DotTypes
    <3>2. DotReading(c)'
      BY <1>7, <2>1, <2>6, <3>1 DEF DotReading, s
    <3>3. DotTalk(c)'
      BY <1>1, <1>3, <1>7, <1>12, <2>6, <3>2 DEF DotTalk
    <3>4. DotHandled(c)
      BY <1>1, <1>5, <1>6, <2>6, <3>3, DotMoves, Sides
    <3>5. DotFails(c)
      BY <2>2, <2>3, <3>1 DEF DotFails, DotPhase, DotFaulted
    <3>6. QED
      BY <3>4, <3>5
  <2>7. QED
    BY <1>6, <2>4, <2>5, <2>6
<1>13. QED
  BY <1>3, <1>11, <1>12

LEMMA DotClientReads ==
  ASSUME D!DotEchoAssumption, DuplexTypes, Weather, Acceptor, DotTypes,
         NEW c \in Conn, DotTalk(c), UNCHANGED <<style, cut>>,
         DotReadAll("client", c) \/ DotReadOn("client", c)
  PROVE  DotHandled(c) /\ (DotSame(c) \/ DotAnswers(c))
<1> DEFINE s == Text["server"]
           sv == op["server"][c]
<1>1. /\ op["client"][c] = "read" /\ link[c] = "up" /\ wire["client"][c] # <<>>
      /\ wire'["server"][c] = wire["server"][c]
      /\ UNCHANGED <<program, accepting, link, faults>>
  <2>1. DotRead("client", c)
    BY DEF DotReadAll, DotReadOn
  <2>2. QED
    BY <2>1, Sides DEF DotRead
<1>2. DotReading(c) /\ sv \in {"new", "read", "write", "over"} /\ sv # "new"
  BY <1>1 DEF DotTalk, DotReading
<1>3. ~DotGot(c)
  BY <1>1, GotSaid
<1>4. faults <= faults'
  BY <1>1 DEF DuplexTypes
<1>5. CASE DotReadAll("client", c)
  <2>1. PICK b \in Seq(Nat), o \in Nat : SideMoves("client", c, "over", b, o)
    BY <1>5 DEF DotReadAll
  <2>2. Said("client", c) = s /\ Received("client", c)' = s
    BY <1>5, Sides DEF DotReadAll
  <2>3. /\ op'["client"][c] = "over" /\ op'["server"][c] = sv
        /\ buffer'["server"][c] = buffer["server"][c]
        /\ offset'["server"][c] = offset["server"][c]
    BY <2>1, SideFacts, Sides
  <2>4. Said("server", c)' = Said("server", c)
    BY <1>1, <2>1, PeerSaid, Sides
  <2>5. DotTalk(c)'
    BY <1>1, <1>2, <2>3, <2>4 DEF DotTalk
  <2>6. DotHandled(c)
    BY <1>1, <1>4, <2>1, <2>5, DotMoves, Sides
  <2>7. ~cut[c]
    <3>1. PICK m \in 0..Len(s) : s = Front(s, m) /\ (cut[c] => m < Len(s))
      BY <1>2, <2>2 DEF DotReading
    <3>2. m = Len(s)
      BY <3>1, Beginnings, Sides
    <3>3. Len(s) \in Nat
      BY Texts, Sides
    <3> HIDE DEF s
    <3>4. QED
      BY <3>1, <3>2, <3>3
  <2>8. DotReplied(c) /\ DotGot(c)'
    BY <1>1, <2>2, <2>3, GotSaid
  <2>9. DotPhase(c) = "asked"
    BY <1>1, <1>3, <2>7, <2>8 DEF DotPhase
  <2>10. DotPhase(c)' = "answered"
    BY <2>8 DEF DotPhase
  <2>11. QED
    BY <2>6, <2>9, <2>10 DEF DotAnswers
<1>6. CASE DotReadOn("client", c)
  <2>1. PICK b \in Seq(Nat), o \in Nat : SideMoves("client", c, "read", b, o) /\ o < Len(s)
    BY <1>6, Sides DEF DotReadOn
  <2>2. Said("client", c)' = Said("client", c)
    BY <1>6 DEF DotReadOn
  <2>3. /\ op'["client"][c] = "read" /\ op'["server"][c] = sv /\ offset'["client"][c] = o
        /\ buffer'["server"][c] = buffer["server"][c]
        /\ offset'["server"][c] = offset["server"][c]
    BY <2>1, SideFacts, Sides
  <2>4. Said("server", c)' = Said("server", c)
    BY <1>1, <2>1, PeerSaid, Sides
  <2>5. DotReading(c)'
    BY <1>1, <1>2, <2>1, <2>2, <2>3 DEF DotReading
  <2>6. DotTalk(c)'
    BY <1>1, <1>2, <2>3, <2>4, <2>5 DEF DotTalk
  <2>7. DotHandled(c)
    BY <1>1, <1>4, <2>1, <2>6, DotMoves, Sides
  <2>8. ~DotGot(c)' /\ (DotReplied(c)' <=> DotReplied(c))
    BY <1>1, <2>2, <2>3, GotSaid
  <2>9. DotSame(c)
    BY <1>1, <1>3, <2>3, <2>8 DEF DotSame, DotPhase
  <2>10. QED
    BY <2>7, <2>9
<1>7. QED
  BY <1>5, <1>6
LEMMA DotServerReads ==
  ASSUME D!DotEchoAssumption, DuplexTypes, Weather, Acceptor, DotTypes,
         NEW c \in Conn, DotTalk(c), UNCHANGED <<style, cut>>,
         DotReadAll("server", c) \/ DotReadOn("server", c)
  PROVE  DotHandled(c) /\ (DotSame(c) \/ DotAsks(c))
<1> DEFINE q == Text["client"]
           s == Text["server"]
           cl == op["client"][c]
<1>1. /\ op["server"][c] = "read" /\ link[c] = "up" /\ wire["server"][c] # <<>>
      /\ wire'["client"][c] = wire["client"][c]
      /\ UNCHANGED <<program, accepting, link, faults>>
  <2>1. DotRead("server", c)
    BY DEF DotReadAll, DotReadOn
  <2>2. QED
    BY <2>1, Sides DEF DotRead
<1>2. cl \in {"write", "read", "over"}
  BY <1>1 DEF DotTalk
<1>3. PICK next, b, o :
        /\ SideMoves("server", c, next, b, o) /\ next \in {"read", "write"}
        /\ next = "write" => DotReadAll("server", c) /\ b = s /\ o = 0
        /\ next = "read" => DotReadOn("server", c)
  BY DEF DotReadAll, DotReadOn
<1>4. /\ op'["server"][c] = next /\ buffer'["server"][c] = b /\ offset'["server"][c] = o
      /\ op'["client"][c] = cl /\ buffer'["client"][c] = buffer["client"][c]
      /\ offset'["client"][c] = offset["client"][c]
  BY <1>3, SideFacts, Sides
<1>5. Received("client", c)' = Received("client", c) /\ Said("client", c)' = Said("client", c)
  BY <1>1, <1>3, PeerSaid, Sides
<1>6. (DotGot(c)' <=> DotGot(c)) /\ (DotReplied(c)' <=> DotReplied(c))
  BY <1>4, <1>5, GotSaid
<1>7. faults <= faults'
  BY <1>1 DEF DuplexTypes
<1>8. cl = "read" => /\ DotReading(c) /\ DotAsked(c) /\ wire["client"][c] = <<>>
                     /\ offset["client"][c] = 0
  BY <1>1 DEF DotTalk, DotReading
<1>9. CASE next = "read"
  <2>1. Said("server", c)' = Said("server", c)
    BY <1>3, <1>9 DEF DotReadOn
  <2>2. DotAsked(c)' <=> DotAsked(c)
    BY <2>1 DEF DotAsked
  <2>3. cl = "write" => DotWriting(c)'
    BY <1>1, <1>4, <2>1, <2>2 DEF DotTalk, DotWriting
  <2>4. cl = "read" => DotReading(c)'
    BY <1>1, <1>4, <1>5, <1>8, <1>9, <2>2 DEF DotReading
  <2>5. DotTalk(c)'
    BY <1>1, <1>2, <1>4, <1>9, <2>1, <2>3, <2>4 DEF DotTalk
  <2>6. DotHandled(c)
    BY <1>1, <1>3, <1>7, <2>5, DotMoves, Sides
  <2>7. DotSame(c)
    BY <1>1, <1>4, <1>6, <1>9 DEF DotSame, DotPhase
  <2>8. QED
    BY <2>6, <2>7
<1>10. CASE next = "write"
  <2>1. Said("server", c) = q /\ wire'["server"][c] = <<>> /\ b = s /\ o = 0
    BY <1>3, <1>10, Sides DEF DotReadAll
  <2>2. q \in Seq(Nat) /\ Len(q) \in Nat \ {0} /\ s \in Seq(Nat) /\ Len(s) \in Nat \ {0}
        /\ Front(s, 0) = <<>> /\ s # <<>>
    BY Texts, Sides, SplitEnds
  <2>3. DotAsked(c) => ~cut[c]
    <3> SUFFICES ASSUME DotAsked(c), cut[c] PROVE FALSE
      OBVIOUS
    <3>1. PICK n \in 0..(Len(q) - 1) : q = Front(q, n)
      BY <2>1 DEF DotAsked
    <3>2. n \in 0..Len(q) /\ n # Len(q)
      BY <2>2, <3>1
    <3>3. QED
      BY <3>1, <3>2, Beginnings, Sides
  <2>4. cl # "write"
    <3> SUFFICES ASSUME cl = "write" PROVE FALSE
      OBVIOUS
    <3>1. DotWriting(c)
      BY DEF DotTalk
    <3>2. CASE /\ ~cut[c] /\ offset["client"][c] < Len(q)
               /\ Said("server", c) = Front(q, offset["client"][c])
      <4>1. offset["client"][c] \in 0..Len(q) /\ offset["client"][c] # Len(q)
        BY <2>2, <3>2, ReceivedTyped, Sides
      <4>2. QED
        BY <2>1, <3>2, <4>1, Beginnings, Sides
    <3>3. CASE cut[c] /\ DotAsked(c)
      BY <2>3, <3>3
    <3>4. QED
      BY <1>1, <3>1, <3>2, <3>3 DEF DotWriting
  <2>5. cl = "read" => ~cut[c] /\ ~DotReplied(c) /\ Said("client", c)' = <<>>
    <3> SUFFICES ASSUME cl = "read" PROVE ~cut[c] /\ ~DotReplied(c) /\ Said("client", c)' = <<>>
      OBVIOUS
    <3>1. ~cut[c] /\ ~DotReplied(c)
      BY <1>8, <2>3, DotNotYet
    <3>2. offset'["client"][c] = 0 /\ wire'["client"][c] = <<>>
      BY <1>1, <1>4, <1>8
    <3>3. Said("client", c)' = <<>>
      BY <1>3, <3>2, SaidNothing, Sides DEF SideMoves
    <3>4. QED
      BY <3>1, <3>3
  <2>6. cl = "read" => DotReading(c)'
    <3>1. 0 \in 0..Len(s) /\ 0 < Len(s)
      BY <2>2
    <3>2. cl = "read" => Said("client", c)' = Front(s, 0)
      BY <2>2, <2>5
    <3> HIDE DEF s
    <3>3. QED
      BY <1>4, <1>8, <1>10, <2>1, <2>5, <3>1, <3>2 DEF DotReading, s
  <2>7. DotTalk(c)'
    BY <1>2, <1>4, <1>10, <2>1, <2>4, <2>6 DEF DotTalk
  <2>8. DotHandled(c)
    BY <1>1, <1>3, <1>7, <2>7, DotMoves, Sides
  <2>9. cl = "over" => DotSame(c)
    BY <1>4, <1>6 DEF DotSame, DotPhase
  <2>10. cl = "read" => DotAsks(c)
    <3> SUFFICES ASSUME cl = "read" PROVE DotAsks(c)
      OBVIOUS
    <3>1. ~DotGot(c) /\ ~DotGot(c)'
      BY <1>6, GotSaid
    <3>2. DotPhase(c) = "new"
      BY <1>1, <2>5, <3>1 DEF DotPhase
    <3>3. DotPhase(c)' = "asked"
      BY <1>1, <1>4, <1>10, <2>5, <3>1 DEF DotPhase
    <3>4. QED
      BY <3>2, <3>3 DEF DotAsks
  <2>11. QED
    BY <1>2, <2>4, <2>8, <2>9, <2>10
<1>11. QED
  BY <1>3, <1>9, <1>10

(* on_write that finds its text gone reads; what it reads will not be a reply. *)
LEMMA DotWritesNothing ==
  ASSUME D!DotEchoAssumption, DuplexTypes, Weather, Acceptor, DotTypes,
         NEW e \in Side, NEW c \in Conn, DotTalk(c), D!CallbackWriteNothing(e, c),
         UNCHANGED style
  PROVE  DotHandled(c) /\ DotSame(c)
<1>1. /\ op[e][c] = "write" /\ buffer[e][c] = <<>> /\ D!ReadsOn(e, c, <<>>, 0)
      /\ UNCHANGED <<program, accepting, link, wire, faults, cut>>
  BY DEF D!CallbackWriteNothing
<1>2. <<>> \in Seq(Nat) /\ 0 \in 0..Len(<<>>) /\ 0 \in Nat /\ "read" \in Ops
  BY JoinedEmpty DEF Ops
<1>3. PICK b \in Seq(Nat) : Starts(e, c, "read", b, 0) /\ 0 <= Len(b)
  BY <1>1, <1>2, RoomMade
<1>4. SideMoves(e, c, "read", b, 0)
  <2>1. /\ wire' \in [Side -> [Conn -> Seq(Nat)]] /\ accepting' \in BOOLEAN
        /\ \A d \in Conn \ {c}, f \in Side : wire'[f][d] = wire[f][d]
        /\ e = "server" \/ op["client"][c] # "over"
    BY <1>1 DEF DuplexTypes, Side
  <2>2. QED
    BY <1>1, <1>2, <1>3, <2>1, StartsSide
<1>5. /\ op'[e][c] = "read" /\ offset'[e][c] = 0
      /\ op'[Peer(e)][c] = op[Peer(e)][c] /\ buffer'[Peer(e)][c] = buffer[Peer(e)][c]
      /\ offset'[Peer(e)][c] = offset[Peer(e)][c]
  BY <1>4, SideFacts
<1>6. /\ Received(Peer(e), c)' = Received(Peer(e), c) /\ Said(Peer(e), c)' = Said(Peer(e), c)
      /\ Received(e, c)' = <<>> /\ (wire[e][c] = <<>> => Said(e, c)' = <<>>)
  <2>1. Received(Peer(e), c)' = Received(Peer(e), c) /\ Said(Peer(e), c)' = Said(Peer(e), c)
    BY <1>1, <1>4, PeerSaid
  <2>2. Received(e, c)' = <<>> /\ (wire[e][c] = <<>> => Said(e, c)' = <<>>)
    BY <1>1, <1>4, <1>5, SaidNothing DEF SideMoves
  <2>3. QED
    BY <2>1, <2>2
<1>7. /\ Text["client"] # <<>> /\ Text["server"] # <<>>
      /\ 0 \in 0..Len(Text["client"]) /\ 0 \in 0..Len(Text["server"])
      /\ 0 < Len(Text["server"])
      /\ Front(Text["client"], 0) = <<>> /\ Front(Text["server"], 0) = <<>>
  BY Texts, Sides, SplitEnds
<1>8. DotTalk(c)' /\ DotSame(c)
  <2>1. CASE e = "client"
    <3>1. /\ op'["client"][c] = "read" /\ offset'["client"][c] = 0
          /\ op'["server"][c] = op["server"][c] /\ buffer'["server"][c] = buffer["server"][c]
          /\ offset'["server"][c] = offset["server"][c]
          /\ Said("server", c)' = Said("server", c)
      BY <1>5, <1>6, <2>1, Sides
    <3>2. /\ op["client"][c] = "write" /\ DotWriting(c) /\ wire["client"][c] = <<>>
          /\ cut[c] /\ (op["server"][c] # "over" => DotAsked(c))
          /\ op["server"][c] \in {"new", "read", "over"}
      <4>1. op["client"][c] = "write" /\ DotWriting(c)
        BY <1>1, <2>1 DEF DotTalk
      <4>2. QED
        BY <1>1, <1>7, <2>1, <4>1 DEF DotWriting, DotTalk
    <3>3. DotAsked(c)' <=> DotAsked(c)
      BY <1>1, <3>1 DEF DotAsked
    <3>4. DotReading(c)'
      <4>1. Said("client", c)' = Front(Text["server"], 0)
        BY <1>6, <1>7, <2>1, <3>2
      <4>2. QED
        BY <1>1, <1>7, <3>1, <3>2, <3>3, <4>1 DEF DotReading
    <3>5. DotTalk(c)'
      BY <1>1, <3>1, <3>2, <3>4 DEF DotTalk
    <3>6. DotSame(c)
      BY <1>1, <3>1, <3>2, GotSaid DEF DotSame, DotPhase
    <3>7. QED
      BY <3>5, <3>6
  <2>2. CASE e = "server"
    <3>1. /\ op'["server"][c] = "read" /\ op'["client"][c] = op["client"][c]
          /\ offset'["client"][c] = offset["client"][c]
          /\ Received("client", c)' = Received("client", c)
          /\ Said("client", c)' = Said("client", c)
      BY <1>5, <1>6, <2>2, Sides
    <3>2. op["client"][c] \in {"read", "over"} /\ wire["server"][c] = <<>>
      BY <1>1, <2>2 DEF DotTalk
    <3>3. Said("server", c)' = Front(Text["client"], 0)
      BY <1>6, <1>7, <2>2, <3>2
    <3>4. op["client"][c] = "read" => cut[c] /\ DotReading(c)
      <4>1. op["client"][c] = "read" => DotReading(c)
        BY DEF DotTalk
      <4>2. QED
        BY <1>1, <1>7, <2>2, <4>1 DEF DotReading
    <3>5. op["client"][c] = "read" => DotReading(c)'
      BY <1>1, <3>1, <3>2, <3>4 DEF DotReading
    <3>6. DotTalk(c)'
      BY <1>7, <3>1, <3>2, <3>3, <3>5 DEF DotTalk
    <3>7. DotSame(c)
      BY <1>1, <3>1, <3>2, <3>4, GotSaid DEF DotSame, DotPhase
    <3>8. QED
      BY <3>6, <3>7
  <2>3. QED
    BY <2>1, <2>2 DEF Side
<1>9. faults <= faults'
  BY <1>1 DEF DuplexTypes
<1>10. DotHandled(c)
  BY <1>1, <1>4, <1>8, <1>9, DotMoves
<1>11. QED
  BY <1>8, <1>10
LEMMA DotGivesUp ==
  ASSUME D!DotEchoAssumption, DuplexTypes, Weather, Acceptor, DotTypes, NEW e \in Side,
         NEW c \in Conn, DotTalk(c), GivesUp(e, c), UNCHANGED <<style, cut>>
  PROVE  DotHandled(c) /\ DotSame(c)
<1>1. /\ \/ op[e][c] \in {"read", "write"} /\ link[c] = "reset"
         \/ op[e][c] = "read" /\ op[Peer(e)][c] = "over" /\ wire[e][c] = <<>>
         \/ op[e][c] = "write" /\ op[Peer(e)][c] = "over"
      /\ LetsGo(e, c) /\ UNCHANGED faults
  BY DEF GivesUp
<1>2. faults' \in Nat /\ faults <= faults' /\ op[e][c] # "over" /\ op[e][c] # "new"
  BY <1>1 DEF DuplexTypes
<1>3. /\ SideMoves(e, c, "over", buffer[e][c], offset[e][c])
      /\ Closes(e, c) /\ UNCHANGED <<accepting, link, wire>>
  BY <1>1, <1>2, LeftSide
<1>4. program' = program
  BY <1>3, SideFacts
<1>5. e = "server" /\ op["client"][c] = "connect" => program'["server"] # "up"
  BY <1>2, <1>4 DEF DotTalk
<1>6. /\ DotTalk(c)'
      /\ DotSame(c) \/ /\ DotPhase(c) # "answered" /\ DotPhase(c)' = "failed"
                       /\ op["client"][c] # "over"
  BY <1>3, <1>4, <1>5, DotLeft
<1>7. op["client"][c] # "over" => DotPhase(c) = "failed"
  <2> SUFFICES ASSUME op["client"][c] # "over" PROVE DotPhase(c) = "failed"
    OBVIOUS
  <2>1. ~DotGot(c)
    BY GotSaid
  <2>2. CASE link[c] = "reset"
    BY <2>1, <2>2 DEF DotPhase
  <2>3. CASE link[c] # "reset"
    <3>1. op[Peer(e)][c] = "over"
      BY <1>1, <2>3
    <3>2. e = "client" /\ op["server"][c] = "over"
      BY <3>1, Sides DEF Side
    <3>3. ~DotReplied(c)
      <4>1. op["client"][c] = "write" \/ wire["client"][c] = <<>>
        BY <1>1, <2>3, <3>2
      <4>2. QED
        BY <4>1, DotNotYet, GotSaid
    <3>4. QED
      BY <2>1, <3>2, <3>3 DEF DotPhase
  <2>4. QED
    BY <2>2, <2>3
<1>8. DotSame(c)
  BY <1>6, <1>7 DEF DotSame
<1>9. DotHandled(c)
  BY <1>2, <1>3, <1>6, DotMoves
<1>10. QED
  BY <1>8, <1>9

(* remote_endpoint() throws: the program of side e and its connections are gone. *)
LEMMA DotThrows ==
  ASSUME D!DotEchoAssumption, Dots, NEW e \in Side, NEW c \in Conn, NEW ops,
         Throws(e, c, ops), UNCHANGED <<style, cut>>
  PROVE  Dots' /\ UNCHANGED faults /\ \A d \in Conn : DotSame(d) \/ DotFails(d)
<1>1. link[c] = "reset" /\ Dies(e) /\ UNCHANGED faults
  BY DEF Throws
<1>2. DuplexTypes /\ Weather /\ Acceptor /\ DotTypes /\ \A d \in Conn : DotTalk(d)
  BY DEF Dots
<1>3. faults \in Nat /\ faults' \in Nat /\ faults <= faults'
  BY <1>1, <1>2 DEF DuplexTypes
<1>4. faults' > 0 \/ AllOver
  <2>1. SomeReset
    BY <1>1 DEF SomeReset
  <2>2. QED
    BY <1>1, <1>2, <1>3, <2>1 DEF Weather
<1>5. /\ DuplexTypes' /\ Weather' /\ (AllOver => AllOver')
      /\ \A d \in Conn : Closes(e, d)
      /\ program'[e] = "down" /\ program'[Peer(e)] = program[Peer(e)]
  BY <1>1, <1>2, <1>3, <1>4, DeathCause
<1>6. /\ e = "server" => program'["server"] # "up"
      /\ program["server"] # "up" => program'["server"] # "up"
  BY <1>5, Sides DEF Side
<1>7. ASSUME NEW d \in Conn PROVE DotTalk(d)' /\ (DotSame(d) \/ DotFails(d))
  <2>1. /\ DotTalk(d)'
        /\ DotSame(d) \/ /\ DotPhase(d) # "answered" /\ DotPhase(d)' = "failed"
                         /\ op["client"][d] # "over"
    BY <1>2, <1>5, <1>6, DotLeft
  <2>2. op["client"][d] # "over" => DotFaulted'
    BY <1>4 DEF AllOver, DotFaulted
  <2>3. QED
    BY <2>1, <2>2 DEF DotFails
<1>8. Acceptor'
  BY <1>1, <1>4, <1>5 DEF Acceptor
<1>9. DotTypes'
  BY <1>2 DEF DotTypes
<1>10. QED
  BY <1>1, <1>5, <1>7, <1>8, <1>9 DEF Dots

LEMMA DotResets ==
  ASSUME DuplexTypes, Weather, Acceptor, DotTypes, NEW c \in Conn, DotTalk(c), Reset(c),
         UNCHANGED <<style, cut>>
  PROVE  DotHandled(c) /\ (DotSame(c) \/ DotFails(c))
<1>1. /\ DuplexTypes' /\ Weather' /\ Others(c) /\ faults <= faults'
      /\ faults' > 0 \/ AllOver
      /\ link[c] = "up" /\ link'[c] = "reset"
      /\ AllOver => AllOver'
      /\ UNCHANGED <<program, accepting, op, buffer, offset, wire>>
  BY ResetCause
<1>2. \A f \in Side : Received(f, c)' = Received(f, c) /\ Said(f, c)' = Said(f, c)
  BY <1>1 DEF Received, Said
<1>3. DotTalk(c)'
  <2>1. DotAsked(c)' <=> DotAsked(c)
    BY <1>2, Sides DEF DotAsked
  <2>2. DotWriting(c)' <=> DotWriting(c)
    BY <1>1, <1>2, <2>1, Sides DEF DotWriting
  <2>3. DotReading(c)' <=> DotReading(c)
    BY <1>1, <1>2, <2>1, Sides DEF DotReading
  <2>4. op["client"][c] # "connect"
    BY <1>1 DEF DotTalk
  <2>5. QED
    BY <1>1, <1>2, <2>2, <2>3, <2>4, Sides DEF DotTalk
<1>4. Acceptor'
  BY <1>1, AcceptorKept DEF DuplexTypes
<1>5. DotTypes'
  BY DEF DotTypes
<1>6. (DotGot(c)' <=> DotGot(c)) /\ (DotReplied(c)' <=> DotReplied(c))
  BY <1>1, <1>2, GotSaid, Sides
<1>7. faults' > 0 => DotSame(c) \/ DotFails(c)
  BY <1>1, <1>6 DEF DotSame, DotFails, DotFaulted, DotPhase
<1>8. AllOver => DotSame(c)
  BY <1>1, <1>6 DEF AllOver, DotSame, DotPhase
<1>9. DotHandled(c)
  BY <1>1, <1>3, <1>4, <1>5 DEF DotHandled
<1>10. QED
  BY <1>1, <1>7, <1>8, <1>9

(* A connection nothing happens to. *)
LEMMA DotUndisturbed ==
  ASSUME NEW c \in Conn, Untouched(c), DotTalk(c), cut'[c] = cut[c],
         program["server"] # "up" => program'["server"] # "up"
  PROVE  DotTalk(c)' /\ DotSame(c)
<1>1. /\ link'[c] = link[c]
      /\ \A e \in Side : /\ op'[e][c] = op[e][c] /\ buffer'[e][c] = buffer[e][c]
                         /\ offset'[e][c] = offset[e][c] /\ wire'[e][c] = wire[e][c]
  BY DEF Untouched, KeptLine, KeptAt
<1>2. \A f \in Side : Received(f, c)' = Received(f, c) /\ Said(f, c)' = Said(f, c)
  BY <1>1 DEF Received, Said
<1>3. DotAsked(c)' <=> DotAsked(c)
  BY <1>2, Sides DEF DotAsked
<1>4. DotWriting(c)' <=> DotWriting(c)
  BY <1>1, <1>2, <1>3, Sides DEF DotWriting
<1>5. DotReading(c)' <=> DotReading(c)
  BY <1>1, <1>2, <1>3, Sides DEF DotReading
<1>6. DotTalk(c)'
  BY <1>1, <1>2, <1>4, <1>5, Sides DEF DotTalk
<1>7. DotSame(c)
  BY <1>1, <1>2, GotSaid, Sides DEF DotSame, DotPhase
<1>8. QED
  BY <1>6, <1>7

(* What a step does to the connections: one asks or is answered, or some fail. *)
DotOthersSame(c) == \A d \in Conn \ {c} : DotSame(d)
DotOutcome ==
  /\ faults <= faults' /\ \A c \in Conn : cut[c] => cut'[c]
  /\ \/ \E c \in Conn : (DotAsks(c) \/ DotAnswers(c)) /\ DotOthersSame(c)
     \/ \A c \in Conn : DotSame(c) \/ DotFails(c)

LEMMA DotHandledOne ==
  ASSUME Dots, NEW c \in Conn, DotHandled(c),
         DotSame(c) \/ DotFails(c) \/ DotAsks(c) \/ DotAnswers(c)
  PROVE  Dots' /\ DotOutcome
<1>1. ASSUME NEW d \in Conn \ {c} PROVE DotTalk(d)' /\ DotSame(d)
  <2>1. Untouched(d) /\ DotTalk(d) /\ cut'[d] = cut[d] /\ program' = program
    BY DEF Dots, DotHandled, Others
  <2>2. QED
    BY <2>1, DotUndisturbed
<1>2. Dots'
  BY <1>1 DEF Dots, DotHandled
<1>3. faults <= faults' /\ \A d \in Conn : cut[d] => cut'[d]
  BY DEF DotHandled
<1>4. DotOthersSame(c)
  BY <1>1 DEF DotOthersSame
<1>5. CASE DotAsks(c) \/ DotAnswers(c)
  BY <1>2, <1>3, <1>4, <1>5 DEF DotOutcome
<1>6. CASE DotSame(c) \/ DotFails(c)
  <2>1. \A d \in Conn : DotSame(d) \/ DotFails(d)
    BY <1>4, <1>6 DEF DotOthersSame
  <2>2. QED
    BY <1>2, <1>3, <2>1 DEF DotOutcome
<1>7. QED
  BY <1>5, <1>6

(* A step that is none of the connections' business. *)
LEMMA DotNothing ==
  ASSUME Dots, DuplexTypes', Weather', Acceptor', \A c \in Conn : Untouched(c),
         program["server"] # "up" => program'["server"] # "up",
         faults <= faults', UNCHANGED <<style, cut>>
  PROVE  Dots' /\ DotOutcome
<1>1. ASSUME NEW c \in Conn PROVE DotTalk(c)' /\ DotSame(c)
  <2>1. Untouched(c) /\ DotTalk(c) /\ cut'[c] = cut[c]
    BY DEF Dots
  <2>2. QED
    BY <2>1, DotUndisturbed
<1>2. DotTypes'
  BY DEF Dots, DotTypes
<1>3. QED
  BY <1>1, <1>2 DEF Dots, DotOutcome
LEMMA DotEnds ==
  ASSUME Dots, NEW e \in Side, D!Ends(e)
  PROVE  Dots' /\ DotOutcome
<1>1. /\ program[e] = "up" /\ (e = "server" => ~accepting)
      /\ \A c \in Conn : op[e][c] \in {"over", "new"}
      /\ program' = [program EXCEPT ![e] = "returned"]
      /\ UNCHANGED <<accepting, op, buffer, offset, link, wire, faults, style, cut>>
  BY DotNames DEF D!Ends, Returns
<1>2. DuplexTypes /\ Weather /\ Acceptor /\ \A c \in Conn : DotTalk(c)
  BY DEF Dots
<1>3. /\ DuplexTypes' /\ program'[e] = "returned"
      /\ program'[Peer(e)] = program[Peer(e)] /\ faults <= faults'
  BY <1>1, <1>2, Sides DEF DuplexTypes
<1>4. \A c \in Conn : Untouched(c)
  BY <1>1 DEF Untouched, KeptLine, KeptAt
<1>5. (AllOver' <=> AllOver) /\ (SomeReset' <=> SomeReset)
  BY <1>1 DEF AllOver, SomeReset
<1>6. Acceptor'
  BY <1>1, <1>2, <1>5 DEF Acceptor
<1>7. Weather'
  <2>1. CASE e = "client"
    <3>1. AllOver
      BY <1>1, <1>2, <2>1 DEF AllOver, DotTalk
    <3>2. QED
      BY <1>5, <3>1 DEF Weather
  <2>2. CASE e = "server"
    <3>1. faults = 0 => AllOver
      BY <1>1, <1>2, <2>2 DEF Acceptor
    <3>2. program'["client"] = program["client"]
      BY <1>3, <2>2, Sides
    <3>3. QED
      BY <1>1, <1>2, <1>5, <3>1, <3>2 DEF Weather
  <2>3. QED
    BY <2>1, <2>2 DEF Side
<1>8. program["server"] # "up" => program'["server"] # "up"
  BY <1>1, <1>3, Sides DEF Side
<1>9. QED
  BY <1>1, <1>3, <1>4, <1>6, <1>7, <1>8, DotNothing

LEMMA DotAcceptFails ==
  ASSUME Dots, D!AcceptorEnds
  PROVE  Dots' /\ DotOutcome
<1>1. /\ faults' = faults + 1 /\ accepting' = FALSE
      /\ UNCHANGED <<program, op, buffer, offset, link, wire, style, cut>>
  BY DEF D!AcceptorEnds, D!AcceptFails, D!Fault
<1>2. DuplexTypes /\ Weather
  BY DEF Dots
<1>3. DuplexTypes' /\ faults \in Nat /\ faults' \in Nat /\ faults <= faults' /\ faults' > 0
  <2>1. faults \in Nat /\ faults' \in Nat
    BY <1>1, <1>2 DEF DuplexTypes
  <2>2. DuplexTypes'
    BY <1>1, <1>2, <2>1 DEF DuplexTypes
  <2>3. QED
    BY <1>1, <2>1, <2>2
<1>4. \A c \in Conn : Untouched(c)
  BY <1>1 DEF Untouched, KeptLine, KeptAt
<1>5. (AllOver' <=> AllOver) /\ (SomeReset' <=> SomeReset)
  BY <1>1 DEF AllOver, SomeReset
<1>6. Weather' /\ Acceptor'
  BY <1>1, <1>2, <1>3, <1>5 DEF Weather, Acceptor
<1>7. QED
  BY <1>1, <1>3, <1>4, <1>6, DotNothing

(* A write that completes, of either program and either style. *)
LEMMA DotWriteStep ==
  ASSUME D!DotEchoAssumption, Dots, NEW e \in Side, NEW c \in Conn, UNCHANGED style,
         D!CallbackWrite(e, c) \/ (D!SwitchWrite(e, c) /\ UNCHANGED cut)
  PROVE  Dots' /\ DotOutcome
<1>1. /\ DuplexTypes /\ Weather /\ Acceptor /\ DotTypes /\ DotTalk(c)
  BY DEF Dots
<1>2. PICK n \in 1..Len(buffer[e][c]) : DotWroteAll(e, c, n) \/ DotWroteOn(e, c, n)
  BY <1>1, DotWrites
<1>3. CASE e = "client"
  BY <1>1, <1>2, <1>3, DotClientWrites, DotHandledOne
<1>4. CASE e = "server"
  BY <1>1, <1>2, <1>4, DotServerWrites, DotHandledOne
<1>5. QED
  BY <1>3, <1>4 DEF Side

(* A read that completes. *)
LEMMA DotReadStep ==
  ASSUME D!DotEchoAssumption, Dots, NEW e \in Side, NEW c \in Conn, D!ReadSome(e, c),
         UNCHANGED <<style, cut>>
  PROVE  Dots' /\ DotOutcome
<1>1. /\ DuplexTypes /\ Weather /\ Acceptor /\ DotTypes /\ DotTalk(c)
  BY DEF Dots
<1>2. op[e][c] = "read"
  BY DotNames DEF D!ReadSome, Read
<1>3. CASE e = "client"
  <2>1. PICK n \in 0..Len(Text["server"]) : Said("client", c) = Front(Text["server"], n)
    BY <1>1, <1>2, <1>3 DEF DotTalk, DotReading
  <2>2. DotReadAll("client", c) \/ DotReadOn("client", c)
    BY <1>1, <1>3, <2>1, DotReads, Sides
  <2>3. QED
    BY <1>1, <2>2, DotClientReads, DotHandledOne
<1>4. CASE e = "server"
  <2>1. PICK n \in 0..Len(Text["client"]) : Said("server", c) = Front(Text["client"], n)
    BY <1>1, <1>2, <1>4 DEF DotTalk
  <2>2. DotReadAll("server", c) \/ DotReadOn("server", c)
    BY <1>1, <1>4, <2>1, DotReads, Sides
  <2>3. QED
    BY <1>1, <2>2, DotServerReads, DotHandledOne
<1>5. QED
  BY <1>3, <1>4 DEF Side

LEMMA DotSideStep ==
  ASSUME D!DotEchoAssumption, Dots, NEW e \in Side, NEW c \in Conn, D!Step(e, c)
  PROVE  Dots' /\ DotOutcome
<1>1. /\ DuplexTypes /\ Weather /\ Acceptor /\ DotTypes /\ DotTalk(c)
      /\ faults \in Nat /\ UNCHANGED style
  BY DEF Dots, DuplexTypes, D!Step
<1>2. CASE D!CallbackWrite(e, c) \/ (D!SwitchWrite(e, c) /\ UNCHANGED cut)
  BY <1>1, <1>2, DotWriteStep
<1>3. CASE D!CallbackWriteNothing(e, c)
  BY <1>1, <1>3, DotWritesNothing, DotHandledOne
<1>4. CASE D!ReadSome(e, c) /\ UNCHANGED cut
  BY <1>1, <1>4, DotReadStep
<1>5. CASE GivesUp(e, c) /\ UNCHANGED cut
  BY <1>1, <1>5, DotGivesUp, DotHandledOne
<1>6. ASSUME NEW ops, Throws(e, c, ops), UNCHANGED cut PROVE Dots' /\ DotOutcome
  <2>1. Dots' /\ UNCHANGED faults /\ \A d \in Conn : DotSame(d) \/ DotFails(d)
    BY <1>1, <1>6, DotThrows
  <2>2. faults <= faults' /\ \A d \in Conn : cut[d] => cut'[d]
    BY <1>1, <1>6, <2>1
  <2>3. QED
    BY <2>1, <2>2 DEF DotOutcome
<1>7. CASE D!Loses(e, c) /\ UNCHANGED cut
  BY <1>5, <1>6, <1>7, DotNames DEF D!Loses
<1>8. QED
  BY <1>2, <1>3, <1>4, <1>7 DEF D!Step

LEMMA DotsStep ==
  ASSUME D!DotEchoAssumption, Dots, [D!Next]_(D!vars)
  PROVE  Dots' /\ DotOutcome
<1>1. DuplexTypes /\ Weather /\ Acceptor /\ DotTypes /\ \A c \in Conn : DotTalk(c)
  BY DEF Dots
<1>2. ASSUME NEW c \in Conn, D!ClientStep(c) PROVE Dots' /\ DotOutcome
  <2>1. CASE D!Connect(c) /\ UNCHANGED <<style, cut>>
    BY <1>1, <2>1, DotConnects, DotHandledOne
  <2>2. CASE D!ConnectFails(c) /\ UNCHANGED <<style, cut>>
    BY <1>1, <2>2, DotConnectFails, DotHandledOne
  <2>3. CASE D!Step("client", c)
    BY <2>3, DotSideStep, Sides
  <2>4. QED
    BY <1>2, <2>1, <2>2, <2>3 DEF D!ClientStep
<1>3. ASSUME NEW c \in Conn, D!ServerStep(c) PROVE Dots' /\ DotOutcome
  <2>1. CASE D!Accept(c) /\ UNCHANGED <<style, cut>>
    BY <1>1, <2>1, DotAccepts, DotHandledOne
  <2>2. CASE D!Step("server", c)
    BY <2>2, DotSideStep, Sides
  <2>3. QED
    BY <1>3, <2>1, <2>2 DEF D!ServerStep
<1>4. ASSUME NEW c \in Conn, D!Network(c) PROVE Dots' /\ DotOutcome
  <2>1. Reset(c) /\ UNCHANGED <<style, cut>>
    BY <1>4, DotNames DEF D!Network
  <2>2. QED
    BY <1>1, <2>1, DotResets, DotHandledOne
<1>5. ASSUME NEW e \in Side, D!Ends(e) PROVE Dots' /\ DotOutcome
  BY <1>5, DotEnds
<1>6. CASE D!AcceptorEnds
  BY <1>6, DotAcceptFails
<1>7. CASE UNCHANGED D!vars
  <2>1. UNCHANGED <<program, accepting, op, buffer, offset, link, wire, faults, style, cut>>
    BY <1>7 DEF D!vars, D!duplexVars
  <2>2. DuplexTypes' /\ faults <= faults'
    BY <1>1, <2>1 DEF DuplexTypes
  <2>3. (AllOver' <=> AllOver) /\ (SomeReset' <=> SomeReset)
    BY <2>1 DEF AllOver, SomeReset
  <2>4. Weather' /\ Acceptor'
    BY <1>1, <2>1, <2>3 DEF Weather, Acceptor
  <2>5. \A c \in Conn : Untouched(c)
    BY <2>1 DEF Untouched, KeptLine, KeptAt
  <2>6. QED
    BY <2>1, <2>2, <2>4, <2>5, DotNothing
<1>8. QED
  BY <1>2, <1>3, <1>4, <1>5, <1>6, <1>7, DotNames DEF D!Next
LEMMA DotsInit == D!DotEchoAssumption => (D!Init => Dots /\ \A c \in Conn : DotPhase(c) = "new")
<1> SUFFICES ASSUME D!DotEchoAssumption, D!Init
             PROVE  Dots /\ \A c \in Conn : DotPhase(c) = "new"
  OBVIOUS
<1>1. /\ program = [e \in Side |-> "up"] /\ accepting = TRUE
      /\ op = PerConn("connect", "new")
      /\ buffer = PerConn(<<>>, <<>>) /\ offset = PerConn(0, 0)
      /\ link = [c \in Conn |-> "none"] /\ wire = PerConn(<<>>, <<>>)
      /\ faults = 0
      /\ style \in [Side -> Styles] /\ cut = [c \in Conn |-> FALSE]
  BY DEF D!Init, D!DuplexInit, D!PerConn, PerConn, D!Side, Side, D!Conn, Conn
<1>2. <<>> \in Seq(Nat) /\ Len(<<>>) = 0
  BY JoinedEmpty
<1>3. /\ \A e \in Side, c \in Conn : buffer[e][c] = <<>> /\ offset[e][c] = 0 /\ wire[e][c] = <<>>
      /\ \A c \in Conn : op["client"][c] = "connect" /\ op["server"][c] = "new"
      /\ \A c \in Conn : link[c] = "none" /\ ~cut[c]
      /\ program["client"] = "up" /\ program["server"] = "up"
  BY <1>1, Sides DEF PerConn
<1>4. DuplexTypes
  <2>1. op \in [Side -> [Conn -> Ops]]
    BY <1>1 DEF PerConn, Ops
  <2>2. buffer \in [Side -> [Conn -> Seq(Nat)]] /\ wire \in [Side -> [Conn -> Seq(Nat)]]
    BY <1>1, <1>2 DEF PerConn
  <2>3. offset \in [Side -> [Conn -> Nat]]
    BY <1>1 DEF PerConn
  <2>4. program \in [Side -> {"up", "returned", "down"}] /\ link \in [Conn -> {"none", "up", "reset"}]
    BY <1>1
  <2>5. \A e \in Side, c \in Conn : offset[e][c] <= Len(buffer[e][c])
    BY <1>2, <1>3
  <2>6. QED
    BY <1>1, <2>1, <2>2, <2>3, <2>4, <2>5 DEF DuplexTypes
<1>5. Weather /\ Acceptor
  BY <1>1, <1>3 DEF Weather, SomeReset, Acceptor
<1>6. DotTypes
  BY <1>1 DEF DotTypes
<1>7. ASSUME NEW c \in Conn PROVE DotTalk(c) /\ DotPhase(c) = "new"
  <2>1. Said("server", c) = <<>>
    <3>1. Front(<<>>, 0) = <<>> /\ <<>> \o <<>> = <<>>
      BY <1>2, SplitEnds, JoinedEmpty
    <3>2. QED
      BY <1>3, <3>1, Sides DEF Said, Received
  <2>2. 0 \in 0..Len(Text["client"]) /\ Front(Text["client"], 0) = <<>>
    BY Texts, SplitEnds, Sides
  <2>3. DotTalk(c)
    BY <1>3, <2>1, <2>2, Sides DEF DotTalk
  <2>4. ~DotGot(c) /\ ~DotReplied(c)
    BY <1>3, GotSaid
  <2>5. DotPhase(c) = "new"
    BY <1>3, <2>4 DEF DotPhase
  <2>6. QED
    BY <2>3, <2>5
<1>8. QED
  BY <1>4, <1>5, <1>6, <1>7 DEF Dots

LEMMA DotsHold == D!DotEchoAssumption => (D!Spec => []Dots)
<1> SUFFICES ASSUME D!DotEchoAssumption PROVE D!Spec => []Dots
  OBVIOUS
<1>1. D!Init => Dots
  BY DotsInit
<1>2. Dots /\ [D!Next]_(D!vars) => Dots'
  BY DotsStep
<1>3. QED
  BY <1>1, <1>2, PTL DEF D!Spec

(* Only the end of a write is reported: an operation that starts moves one side *)
(* of one connection, and one that is given up, or ended by an exception, leaves *)
(* the offsets as they are.                                                      *)
LEMMA ReportPlace ==
  ASSUME DuplexTypes, NEW e \in Side, NEW c \in Conn, Reports(e, c),
         NEW f \in Side, NEW d \in Conn
  PROVE  /\ ~LetsGo(f, d) /\ ~Dies(f) /\ op' # op
         /\ \A next, b, o : Starts(f, d, next, b, o) => e = f /\ c = d /\ next # "write"
<1>1. /\ op \in [Side -> [Conn -> Ops]] /\ offset \in [Side -> [Conn -> Nat]]
      /\ offset[e][c] \in Nat
  BY DEF DuplexTypes
<1>2. op[e][c] = "write" /\ op'[e][c] # "write"
  BY DEF Reports
<1>3. offset' = offset => op'[e][c] = "read"
  BY <1>1 DEF Reports
<1>4. ~LetsGo(f, d)
  <2> SUFFICES ASSUME LetsGo(f, d) PROVE FALSE
    OBVIOUS
  <2>1. op' = [op EXCEPT ![f][d] = "over"] /\ offset' = offset
    BY DEF LetsGo
  <2>2. op'[e][c] = op[e][c] \/ op'[e][c] = "over"
    BY <1>1, <2>1
  <2>3. QED
    BY <1>2, <1>3, <2>1, <2>2
<1>5. ~Dies(f)
  <2> SUFFICES ASSUME Dies(f) PROVE FALSE
    OBVIOUS
  <2>1. op' = [op EXCEPT ![f] = [x \in Conn |-> "over"]] /\ offset' = offset
    BY DEF Dies
  <2>2. op'[e][c] = op[e][c] \/ op'[e][c] = "over"
    BY <1>1, <2>1
  <2>3. QED
    BY <1>2, <1>3, <2>1, <2>2
<1>6. ASSUME NEW next, NEW b, NEW o, Starts(f, d, next, b, o)
      PROVE  e = f /\ c = d /\ next # "write"
  <2>1. op' = [op EXCEPT ![f][d] = next]
    BY <1>6 DEF Starts
  <2>2. e = f /\ c = d => op'[e][c] = next
    BY <1>1, <2>1
  <2>3. e # f \/ c # d => op'[e][c] = op[e][c]
    BY <1>1, <2>1
  <2>4. QED
    BY <1>2, <2>2, <2>3
<1>7. QED
  BY <1>2, <1>4, <1>5, <1>6

(* The steps that report are the completions of writes. *)
LEMMA DotReports ==
  ASSUME Dots, [D!Next]_(D!vars), NEW e \in Side, NEW c \in Conn, Reports(e, c)
  PROVE  \/ D!CallbackWrite(e, c)
         \/ D!SwitchWrite(e, c) /\ UNCHANGED cut
         \/ D!CallbackWriteNothing(e, c)
<1>1. DuplexTypes /\ op[e][c] = "write"
  BY DEF Dots, Reports
<1>2. op' # op
  BY <1>1, ReportPlace
<1>3. ASSUME NEW f \in Side, NEW d \in Conn
      PROVE  /\ ~LetsGo(f, d) /\ ~Dies(f)
             /\ \A next, b, o : Starts(f, d, next, b, o) => e = f /\ c = d /\ next # "write"
  BY <1>1, ReportPlace
<1>4. ASSUME NEW f \in Side, NEW d \in Conn, D!Step(f, d)
      PROVE  e = f /\ c = d /\ ~D!ReadSome(f, d) /\ ~D!Loses(f, d)
  <2>1. ~D!Loses(f, d)
    BY <1>3, DotNames DEF D!Loses, GivesUp, Throws
  <2>2. \A b, o : D!ReadsOn(f, d, b, o) => e = f /\ c = d
    BY <1>3, DotNames DEF D!ReadsOn
  <2>3. D!CallbackWrite(f, d) => e = f /\ c = d
    BY <1>3, <2>2, DotNames DEF D!CallbackWrite
  <2>4. D!SwitchWrite(f, d) => e = f /\ c = d
    BY <1>3, <2>2, DotNames DEF D!SwitchWrite
  <2>5. D!CallbackWriteNothing(f, d) => e = f /\ c = d
    BY <2>2 DEF D!CallbackWriteNothing
  <2>6. ~D!ReadSome(f, d)
    <3> SUFFICES ASSUME D!ReadSome(f, d) PROVE FALSE
      OBVIOUS
    <3>1. op[f][d] = "read"
      BY DotNames DEF D!ReadSome, Read
    <3>2. e = f /\ c = d
      BY <1>3, <2>2, DotNames DEF D!ReadSome, D!GoesOn
    <3>3. QED
      BY <1>1, <3>1, <3>2
  <2>7. QED
    BY <1>4, <2>1, <2>3, <2>4, <2>5, <2>6 DEF D!Step
<1>5. ASSUME NEW d \in Conn
      PROVE  /\ ~D!Connect(d) /\ ~D!ConnectFails(d) /\ ~D!Accept(d) /\ ~D!Network(d)
  <2>1. ~D!Connect(d)
    BY <1>3, Sides, DotNames DEF D!Connect, Connected
  <2>2. ~D!ConnectFails(d)
    BY <1>3, Sides, DotNames DEF D!ConnectFails
  <2>3. ~D!Accept(d)
    <3> SUFFICES ASSUME D!Accept(d) PROVE FALSE
      OBVIOUS
    <3>1. PICK b : op["server"][d] = "new" /\ Starts("server", d, "read", b, 0)
      BY DotNames DEF D!Accept, Accepted
    <3>2. e = "server" /\ c = d
      BY <1>3, <3>1, Sides
    <3>3. QED
      BY <1>1, <3>1, <3>2
  <2>4. ~D!Network(d)
    BY <1>2, DotNames DEF D!Network, Reset
  <2>5. QED
    BY <2>1, <2>2, <2>3, <2>4
<1>6. ~D!AcceptorEnds /\ \A f \in Side : ~D!Ends(f)
  BY <1>2, DotNames DEF D!AcceptorEnds, D!AcceptFails, D!Ends, Returns
<1>7. ~UNCHANGED D!vars
  BY <1>2 DEF D!vars, D!duplexVars
<1>8. PICK f \in Side, d \in Conn : D!Step(f, d)
  BY <1>5, <1>6, <1>7, Sides, DotNames DEF D!Next, D!ClientStep, D!ServerStep
<1>9. QED
  BY <1>4, <1>8 DEF D!Step

(* A side whose peer has not let go writes what it says from where it is: the   *)
(* bytes before its offset have left it.  Its buffer is empty only after a cut.  *)
LEMMA DotSays ==
  ASSUME Dots, NEW e \in Side, NEW c \in Conn, op[e][c] = "write", op[Peer(e)][c] # "over"
  PROVE  \/ buffer[e][c] = <<>> /\ cut[c]
         \/ buffer[e][c] = Text[e] /\ Said(Peer(e), c) = Front(buffer[e][c], offset[e][c])
<1>1. DotTalk(c)
  BY DEF Dots
<1>2. CASE e = "client"
  BY <1>1, <1>2, Sides DEF DotTalk, DotWriting
<1>3. CASE e = "server"
  <2>1. op["client"][c] = "read"
    BY <1>1, <1>3, Sides DEF DotTalk
  <2>2. DotReading(c)
    BY <1>1, <2>1 DEF DotTalk
  <2>3. QED
    BY <1>3, <2>2, Sides DEF DotReading
<1>4. QED
  BY <1>2, <1>3 DEF Side

(* What a side, client or server, reports as written has left it whole, unless  *)
(* its peer has let go, and no report is false but that of common.cpp's empty     *)
(* write: DotEcho's FinishedMeansWritten, of common.cpp's on_write and the write  *)
(* loops of the coroutines.                                                      *)
THEOREM FinishedMeansWrittenCorrect ==
  D!DotEchoAssumption => (D!Spec => FinishedMeansWritten)
<1> SUFFICES ASSUME D!DotEchoAssumption PROVE D!Spec => FinishedMeansWritten
  OBVIOUS
<1>1. ASSUME Dots, [D!Next]_(D!vars), NEW e \in Side, NEW c \in Conn,
             Reports(e, c), op'[Peer(e)][c] # "over"
      PROVE  TextIsOut(e, c)' \/ WritesNothing(e, c)
  <2>1. DuplexTypes /\ Weather /\ DotTypes /\ op[e][c] = "write" /\ op'[e][c] # "write"
    BY <1>1 DEF Dots, Reports
  <2>2. CASE D!CallbackWrite(e, c) \/ (D!SwitchWrite(e, c) /\ UNCHANGED cut)
    <3>1. PICK n \in 1..Len(buffer[e][c]) : DotWroteAll(e, c, n) \/ DotWroteOn(e, c, n)
      BY <2>1, <2>2, DotWrites
    <3>2. DotWroteAll(e, c, n)
      <4>1. ASSUME NEW b, NEW o, SideMoves(e, c, "write", b, o) PROVE FALSE
        BY <2>1, <4>1, SideFacts
      <4>2. QED
        BY <3>1, <4>1 DEF DotWroteOn
    <3>3. PICK next, b, o : SideMoves(e, c, next, b, o)
      BY <3>2 DEF DotWroteAll
    <3>4. op[Peer(e)][c] # "over" /\ cut' = cut /\ n = Len(buffer[e][c])
      BY <1>1, <3>2, <3>3, SideFacts DEF DotWroteAll
    <3>5. buffer[e][c] = Text[e] /\ Said(Peer(e), c) = Front(buffer[e][c], offset[e][c])
      <4>1. buffer[e][c] # <<>>
        BY <3>1
      <4>2. QED
        BY <1>1, <2>1, <3>4, <4>1, DotSays
    <3>6. Said(Peer(e), c)' = Front(Text[e], Len(Text[e]))
      BY <3>2, <3>4, <3>5 DEF DotWroteAll, DotWrote
    <3>7. Text[e] \in Seq(Nat) /\ Front(Text[e], Len(Text[e])) = Text[e]
      BY Texts, SplitEnds
    <3>8. QED
      BY <3>6, <3>7, DotNames DEF TextIsOut, Said
  <2>3. CASE D!CallbackWriteNothing(e, c)
    <3>1. style[e] = "callback" /\ buffer[e][c] = <<>> /\ D!ReadsOn(e, c, <<>>, 0)
      BY <2>3 DEF D!CallbackWriteNothing
    <3>2. op[Peer(e)][c] # "over"
      <4>1. op' = [op EXCEPT ![e][c] = "read"]
        BY <3>1, DotNames DEF D!ReadsOn, Starts
      <4>2. op'[Peer(e)][c] = op[Peer(e)][c]
        BY <2>1, <4>1, Sides DEF DuplexTypes, Side
      <4>3. QED
        BY <1>1, <4>2
    <3>3. Text[e] # <<>>
      BY Texts, Sides DEF Side
    <3>4. QED
      BY <1>1, <2>1, <3>1, <3>2, <3>3, DotSays DEF WritesNothing
  <2>4. QED
    BY <1>1, <2>2, <2>3, DotReports
<1>2. Dots /\ [D!Next]_(D!vars) =>
        [\A e \in Side, c \in Conn :
           Reports(e, c) /\ op'[Peer(e)][c] # "over" => TextIsOut(e, c)' \/ WritesNothing(e, c)
        ]_<<duplexVars, style, cut>>
  BY <1>1
<1>3. QED
  BY <1>2, DotsHold, PTL DEF D!Spec, FinishedMeansWritten

(* A side reads nothing but the beginning of what its peer has to say, however  *)
(* writes are divided: DotEcho's BeginningsOnly, of the async_write() of         *)
(* common.cpp, which clears the text when it is called for the rest.             *)
THEOREM BeginningsOnlyCorrect ==
  D!DotEchoAssumption => (D!Spec => []BeginningsOnly)
<1> SUFFICES ASSUME D!DotEchoAssumption PROVE D!Spec => []BeginningsOnly
  OBVIOUS
<1>1. Dots => BeginningsOnly
  <2> SUFFICES ASSUME Dots, NEW e \in Side, NEW c \in Conn, op[e][c] = "read"
               PROVE  Said(e, c) = Front(Text[Peer(e)], Len(Said(e, c)))
    BY DotNames DEF BeginningsOnly, Said, D!Front, Front
  <2>1. DotTalk(c)
    BY DEF Dots
  <2>2. PICK n \in 0..Len(Text[Peer(e)]) : Said(e, c) = Front(Text[Peer(e)], n)
    <3>1. CASE e = "client"
      BY <2>1, <3>1, Sides DEF DotTalk, DotReading
    <3>2. CASE e = "server"
      BY <2>1, <3>2, Sides DEF DotTalk
    <3>3. QED
      BY <3>1, <3>2 DEF Side
  <2>3. Len(Front(Text[Peer(e)], n)) = n
    BY <2>2, Beginnings, Sides
  <2>4. QED
    BY <2>2, <2>3
<1>2. QED
  BY <1>1, DotsHold, PTL

(* Every connection is answered once, after its request has arrived, or fails   *)
(* for a reason: DotEcho implements Exchange, whichever client of the older      *)
(* programs talks to whichever server.                                           *)
THEOREM DotRefinesExchangeCorrect == D!DotEchoAssumption => (D!Spec => DotRefinesExchange)
<1> SUFFICES ASSUME D!DotEchoAssumption PROVE D!Spec => DotRefinesExchange
  OBVIOUS
<1> DEFINE phase == [c \in Conn |-> DotPhase(c)]
           faulted == DotFaulted
<1>0. D!Conn = Conn
  BY DotNames
<1>1. /\ DotX!Init <=> phase = [c \in Conn |-> "new"] /\ faulted \in BOOLEAN
      /\ DotX!vars = <<phase, faulted>> /\ DotX!vars' = <<phase', faulted'>>
  BY <1>0 DEF DotX!Init, DotX!vars, DotPhase, DotFaulted
<1>2. /\ \A c \in Conn : DotX!Ask(c) <=> phase[c] = "new" /\ phase' = [phase EXCEPT ![c] = "asked"]
      /\ \A c \in Conn :
           DotX!Answer(c) <=> phase[c] = "asked" /\ phase' = [phase EXCEPT ![c] = "answered"]
      /\ \A F \in SUBSET Conn :
           DotX!Fail(F) <=> /\ faulted'
                            /\ \A c \in F : phase[c] # "answered"
                            /\ phase' = [c \in Conn |-> IF c \in F THEN "failed" ELSE phase[c]]
  BY <1>0 DEF DotX!Ask, DotX!Answer, DotX!Fail, DotPhase, DotFaulted
<1>3. DotX!Next <=> /\ faulted => faulted'
                    /\ \/ \E c \in Conn : DotX!Ask(c) \/ DotX!Answer(c)
                       \/ \E F \in SUBSET Conn : DotX!Fail(F)
  BY <1>0 DEF DotX!Next, DotFaulted
<1>4. D!Init => DotX!Init
  BY <1>1, DotsInit DEF DotFaulted
<1>5. Dots /\ [D!Next]_(D!vars) => [DotX!Next]_(DotX!vars)
  <2> SUFFICES ASSUME Dots, [D!Next]_(D!vars) PROVE DotX!Next \/ UNCHANGED DotX!vars
    OBVIOUS
  <2>1. Dots' /\ DotOutcome
    BY DotsStep
  <2>2. faulted => faulted'
    <3>1. faults \in Nat /\ faults' \in Nat
      BY <2>1 DEF Dots, DuplexTypes
    <3>2. QED
      BY <2>1, <3>1 DEF DotOutcome, DotFaulted
  <2>3. ASSUME NEW c \in Conn, DotAsks(c) \/ DotAnswers(c), DotOthersSame(c) PROVE DotX!Next
    <3>1. DotX!Ask(c) \/ DotX!Answer(c)
      BY <1>2, <2>3 DEF DotAsks, DotAnswers, DotOthersSame, DotSame
    <3>2. QED
      BY <1>3, <2>2, <3>1
  <2>4. ASSUME \A c \in Conn : DotSame(c) \/ DotFails(c)
        PROVE  DotX!Next \/ UNCHANGED DotX!vars
    <3>1. CASE faulted'
      <4>0. PICK F \in SUBSET Conn : \A c \in Conn : c \in F <=> DotFails(c)
        <5>1. {c \in Conn : DotFails(c)} \in SUBSET Conn
          OBVIOUS
        <5>2. QED
          BY <5>1
      <4>1. phase' = [c \in Conn |-> IF c \in F THEN "failed" ELSE phase[c]]
        BY <2>4, <4>0 DEF DotSame, DotFails
      <4>2. \A c \in F : phase[c] # "answered"
        BY <4>0 DEF DotFails
      <4> HIDE DEF phase
      <4>3. DotX!Fail(F)
        BY <1>2, <3>1, <4>1, <4>2
      <4>4. QED
        BY <1>3, <2>2, <4>3
    <3>2. CASE ~faulted'
      <4>1. \A c \in Conn : DotSame(c)
        BY <2>4, <3>2 DEF DotFails
      <4>2. phase' = phase
        BY <4>1 DEF DotSame
      <4>3. faulted' = faulted
        <5>1. faulted \in BOOLEAN /\ faulted' \in BOOLEAN
          BY DEF DotFaulted
        <5>2. QED
          BY <2>2, <3>2, <5>1
      <4>4. QED
        BY <1>1, <4>2, <4>3
    <3>3. QED
      BY <3>1, <3>2
  <2>5. QED
    BY <2>1, <2>3, <2>4 DEF DotOutcome
<1>6. QED
  BY <1>4, <1>5, DotsHold, PTL DEF D!Spec, DotRefinesExchange, DotX!Spec
==============================================================================
