---------------------------- MODULE Rtl8150Proofs ----------------------------
(***************************************************************************)
(* The bulk endpoints of the RTL8150, for frames, packets, URBs and bursts *)
(* of any size and any number of frames: no frame is cut, joined, doubled  *)
(* or overtaken, in either direction, but by what the properties name.     *)
(***************************************************************************)
EXTENDS Rtl8150, SequenceTheorems, WellFoundedInduction, TLAPS

------------------------------------------------------------------------------
(* Arithmetic.                                                             *)

\* Every set of numbers that is not empty has a least one.
LEMMA LeastNumber ==
    ASSUME NEW T, T \subseteq Nat, T # {}
    PROVE  \E x \in T : \A y \in T : x <= y
  <1>1. PICK x \in T : \A y \in T : <<y, x>> \notin OpToRel(<, Nat)
    BY NatLessThanWellFounded, WFMin
  <1>2. ASSUME NEW y \in T PROVE x <= y
    <2>1. x \in Nat /\ y \in Nat /\ ~(y < x)
      BY <1>1 DEF OpToRel
    <2> QED  BY <2>1
  <1> QED  BY <1>2

\* A multiple of m that is not 0 is not nearer to 0 than m.
LEMMA MultipleIsFar ==
    ASSUME NEW m \in Nat \ {0}, NEW d \in Int
    PROVE  /\ d >= 1 => m * d >= m
           /\ d <= -1 => m * d <= -m
  <1>1. ASSUME NEW a \in Nat PROVE m * a \in Nat
    OBVIOUS
  <1>2. d >= 1 => m * d >= m
    <2>1. m * d = m * (d - 1) + m
      OBVIOUS
    <2>2. d >= 1 => d - 1 \in Nat
      OBVIOUS
    <2> QED  BY <1>1, <2>1, <2>2
  <1>3. d <= -1 => m * d <= -m
    <2>1. m * d = - (m * (- 1 - d)) - m
      OBVIOUS
    <2>2. d <= -1 => -1 - d \in Nat
      OBVIOUS
    <2> QED  BY <1>1, <2>1, <2>2
  <1> QED  BY <1>2, <1>3

\* There is one remainder.
LEMMA RemainderIsUnique ==
    ASSUME NEW m \in Nat \ {0}, NEW q \in Int, NEW p \in Int,
           NEW r \in 0..(m - 1), NEW s \in 0..(m - 1), m * q + r = m * p + s
    PROVE  r = s
  <1>1. m * (q - p) = s - r
    <2>1. m * (q - p) = m * q - m * p
      OBVIOUS
    <2>2. m * q \in Int /\ m * p \in Int
      OBVIOUS
    <2> QED  BY <2>1, <2>2
  <1>2. q - p \in Int
    OBVIOUS
  <1>3. (q - p >= 1 => m * (q - p) >= m) /\ (q - p <= -1 => m * (q - p) <= -m)
    BY <1>2, MultipleIsFar
  <1>4. q - p = 0 => m * (q - p) = 0
    OBVIOUS
  <1>5. q - p >= 1 \/ q - p <= -1 \/ q - p = 0
    OBVIOUS
  <1>6. s - r < m /\ s - r > -m
    OBVIOUS
  <1> QED  BY <1>1, <1>3, <1>4, <1>5, <1>6

\* Taking a packet away leaves the remainder.
LEMMA RemainderStays ==
    ASSUME NEW x \in Nat, NEW m \in Nat \ {0}, x >= m
    PROVE  (x - m) % m = x % m
  <1> DEFINE q == x \div m
             p == (x - m) \div m
  <1>1. x = m * q + (x % m) /\ q \in Int /\ x % m \in 0..(m - 1)
    OBVIOUS
  <1>2. x - m = m * p + ((x - m) % m) /\ p \in Int /\ (x - m) % m \in 0..(m - 1)
    <2>1. x - m \in Nat
      OBVIOUS
    <2> QED  BY <2>1
  <1> HIDE DEF q, p
  <1>3. m * (q - 1) + (x % m) = m * p + ((x - m) % m)
    <2>1. m * (q - 1) = m * q - m
      BY <1>1
    <2>2. m * q \in Int /\ m * p \in Int
      BY <1>1, <1>2
    <2> QED  BY <1>1, <1>2, <2>1, <2>2
  <1>4. q - 1 \in Int
    BY <1>1
  <1> QED  BY <1>1, <1>2, <1>3, <1>4, RemainderIsUnique
------------------------------------------------------------------------------
(* Pieces of a frame.                                                      *)

\* The bytes of a buffer from behind m up to n.
Cut(a, m, n) == SubSeq(a, m + 1, n)

\* The bytes of a frame or a transfer from behind s up to e.
Piece(id, s, e) == [i \in 1..(e - s) |-> <<id, s + i>>]

\* A piece is a sequence of bytes.
LEMMA PieceIsSeq ==
    \A id \in 0..(MaxRx + MaxTx), s \in Nat, e \in Nat :
        s <= e => Piece(id, s, e) \in Seq(AllBytes)
  <1> SUFFICES ASSUME NEW id \in 0..(MaxRx + MaxTx), NEW s \in Nat, NEW e \in Nat,
                      s <= e
               PROVE  Piece(id, s, e) \in Seq(AllBytes)
    OBVIOUS
  <1>1. \A i \in 1..(e - s) : <<id, s + i>> \in AllBytes
    BY DEF AllBytes
  <1>2. e - s \in Nat
    OBVIOUS
  <1> QED  BY <1>1, <1>2 DEF Piece

\* As many as lie between its ends.
LEMMA PieceLength ==
    \A id : \A s \in Nat, e \in Nat : s <= e => Len(Piece(id, s, e)) = e - s
  <1> SUFFICES ASSUME NEW id, NEW s \in Nat, NEW e \in Nat, s <= e
               PROVE  Len(Piece(id, s, e)) = e - s
    OBVIOUS
  <1>1. e - s \in Nat
    OBVIOUS
  <1> QED  BY <1>1 DEF Piece

\* The bytes behind its start.
LEMMA PieceBytes ==
    \A id : \A s \in Nat, e \in Nat :
        \A i \in 1..(e - s) : Piece(id, s, e)[i] = <<id, s + i>>
  BY DEF Piece

\* None when its ends meet, and only then.
LEMMA PieceIsEmpty ==
    \A id \in 0..(MaxRx + MaxTx), s \in Nat, e \in Nat :
        s <= e => (Piece(id, s, e) = <<>> <=> s = e)
  <1> SUFFICES ASSUME NEW id \in 0..(MaxRx + MaxTx), NEW s \in Nat, NEW e \in Nat,
                      s <= e
               PROVE  Piece(id, s, e) = <<>> <=> s = e
    OBVIOUS
  <1>1. Piece(id, s, e) \in Seq(AllBytes) /\ Len(Piece(id, s, e)) = e - s
    BY PieceIsSeq, PieceLength
  <1>2. e - s = 0 <=> s = e
    OBVIOUS
  <1>3. Piece(id, s, e) = <<>> <=> Len(Piece(id, s, e)) = 0
    BY <1>1, EmptySeq
  <1> QED  BY <1>1, <1>2, <1>3

\* Adjacent pieces make one.
LEMMA PiecesJoin ==
    ASSUME NEW id \in 0..(MaxRx + MaxTx),
           NEW s \in Nat, NEW p \in Nat, NEW e \in Nat, s <= p, p <= e
    PROVE  Piece(id, s, p) \o Piece(id, p, e) = Piece(id, s, e)
  <1> DEFINE a == Piece(id, s, p)
             b == Piece(id, p, e)
             c == Piece(id, s, e)
  <1>1. /\ a \in Seq(AllBytes) /\ Len(a) = p - s
        /\ \A i \in 1..(p - s) : a[i] = <<id, s + i>>
    BY PieceIsSeq, PieceLength, PieceBytes
  <1>2. /\ b \in Seq(AllBytes) /\ Len(b) = e - p
        /\ \A i \in 1..(e - p) : b[i] = <<id, p + i>>
    BY PieceIsSeq, PieceLength, PieceBytes
  <1>3. /\ c \in Seq(AllBytes) /\ Len(c) = e - s
        /\ \A i \in 1..(e - s) : c[i] = <<id, s + i>>
    <2>1. s <= e
      OBVIOUS
    <2> QED  BY <2>1, PieceIsSeq, PieceLength, PieceBytes
  <1> HIDE DEF a, b, c
  <1>4. /\ a \o b \in Seq(AllBytes) /\ Len(a \o b) = e - s
        /\ \A i \in 1..(e - s) : (a \o b)[i] = IF i <= p - s THEN a[i] ELSE b[i - (p - s)]
    <2>1. (p - s) + (e - p) = e - s
      OBVIOUS
    <2>2. /\ a \o b \in Seq(AllBytes) /\ Len(a \o b) = Len(a) + Len(b)
          /\ \A i \in 1..(Len(a) + Len(b)) :
                 (a \o b)[i] = IF i <= Len(a) THEN a[i] ELSE b[i - Len(a)]
      BY <1>1, <1>2, ConcatProperties
    <2>3. Len(a) = p - s /\ Len(b) = e - p
      BY <1>1, <1>2
    <2> QED  BY <2>1, <2>2, <2>3
  <1>5. ASSUME NEW i \in 1..(e - s) PROVE (a \o b)[i] = c[i]
    <2>1. CASE i <= p - s
      <3>1. i \in 1..(p - s)
        BY <2>1
      <3> QED  BY <1>1, <1>3, <1>4, <2>1, <3>1
    <2>2. CASE ~(i <= p - s)
      <3>1. i - (p - s) \in 1..(e - p) /\ p + (i - (p - s)) = s + i
        BY <2>2
      <3> QED  BY <1>2, <1>3, <1>4, <2>2, <3>1
    <2> QED  BY <2>1, <2>2
  <1>6. a \o b = c
    BY <1>3, <1>4, <1>5, SeqEqual
  <1> QED  BY <1>6 DEF a, b, c

\* A part of a piece is a piece.
LEMMA PieceIsCut ==
    ASSUME NEW id \in 0..(MaxRx + MaxTx), NEW s \in Nat, NEW e \in Nat, s <= e,
           NEW m \in Nat, NEW n \in Nat, m <= n, n <= e - s
    PROVE  Cut(Piece(id, s, e), m, n) = Piece(id, s + m, s + n)
  <1> DEFINE a == Piece(id, s, e)
             b == Piece(id, s + m, s + n)
  <1>1. /\ a \in Seq(AllBytes) /\ Len(a) = e - s
        /\ \A i \in 1..(e - s) : a[i] = <<id, s + i>>
    BY PieceIsSeq, PieceLength, PieceBytes
  <1>2. /\ b \in Seq(AllBytes) /\ Len(b) = n - m
        /\ \A i \in 1..(n - m) : b[i] = <<id, s + m + i>>
    <2> DEFINE u == s + m
               v == s + n
    <2>1. u \in Nat /\ v \in Nat /\ u <= v /\ v - u = n - m
      OBVIOUS
    <2> HIDE DEF u, v
    <2>2. Piece(id, u, v) \in Seq(AllBytes) /\ Len(Piece(id, u, v)) = v - u
      BY <2>1, PieceIsSeq, PieceLength, Zenon
    <2>3. \A i \in 1..(v - u) : Piece(id, u, v)[i] = <<id, u + i>>
      BY <2>1, PieceBytes, Zenon
    <2> QED  BY <2>1, <2>2, <2>3, Zenon DEF u, v
  <1> HIDE DEF a, b
  <1> DEFINE c == SubSeq(a, m + 1, n)
  <1>3. /\ c \in Seq(AllBytes) /\ Len(c) = n - m
        /\ \A i \in 1..(n - m) : c[i] = a[m + i]
    <2>1. \A i \in (m + 1)..n : a[i] \in AllBytes
      BY <1>1, ElementOfSeq
    <2>2. /\ c \in Seq(AllBytes)
          /\ Len(c) = IF m + 1 <= n THEN n - (m + 1) + 1 ELSE 0
          /\ \A i \in 1..(n - (m + 1) + 1) : c[i] = a[(m + 1) + i - 1]
      <3>1. m + 1 \in Int /\ n \in Int
        OBVIOUS
      <3> QED  BY <2>1, <3>1, SubSeqProperties
    <2>3. n - (m + 1) + 1 = n - m
      OBVIOUS
    <2>4. \A i \in 1..(n - m) : (m + 1) + i - 1 = m + i
      OBVIOUS
    <2> QED  BY <2>2, <2>3, <2>4
  <1> HIDE DEF c
  <1>4. ASSUME NEW i \in 1..(n - m) PROVE c[i] = b[i]
    <2>1. m + i \in 1..(e - s) /\ s + (m + i) = s + m + i
      OBVIOUS
    <2> QED  BY <1>1, <1>2, <1>3, <2>1
  <1>5. c = b
    BY <1>2, <1>3, <1>4, SeqEqual
  <1> QED  BY <1>5 DEF a, b, c, Cut

\* A packet goes from the front of a piece to the end of the one before.
LEMMA PacketMoves ==
    ASSUME NEW id \in 0..(MaxRx + MaxTx), NEW p \in Nat, NEW e \in Nat, p <= e,
           NEW n \in Nat, n <= e - p
    PROVE  /\ Piece(id, 0, p) \o Cut(Piece(id, p, e), 0, n) = Piece(id, 0, p + n)
           /\ Cut(Piece(id, p, e), n, e - p) = Piece(id, p + n, e)
  <1>1. /\ p + n \in Nat /\ 0 <= p /\ p <= p + n /\ 0 \in Nat /\ 0 <= n
        /\ e - p \in Nat /\ e - p <= e - p
    OBVIOUS
  <1>2. Cut(Piece(id, p, e), 0, n) = Piece(id, p + 0, p + n)
    BY <1>1, PieceIsCut
  <1>3. Cut(Piece(id, p, e), 0, n) = Piece(id, p, p + n)
    BY <1>2
  <1>4. Piece(id, 0, p) \o Piece(id, p, p + n) = Piece(id, 0, p + n)
    BY <1>1, PiecesJoin
  <1>5. Cut(Piece(id, p, e), n, e - p) = Piece(id, p + n, p + (e - p))
    BY <1>1, PieceIsCut
  <1>6. p + (e - p) = e
    OBVIOUS
  <1> QED  BY <1>3, <1>4, <1>5, <1>6

\* The bytes of a frame, and of a transfer, are a piece.
LEMMA WholeIsPiece == ASSUME NEW id, NEW n \in Nat PROVE Bytes(id, n) = Piece(id, 0, n)
  <1>1. 1..(n - 0) = 1..n /\ \A i \in 1..n : 0 + i = i
    OBVIOUS
  <1> QED  BY <1>1 DEF Bytes, Piece

\* A piece has bytes of one frame.
LEMMA SendersOfPiece ==
    ASSUME NEW id \in 0..(MaxRx + MaxTx), NEW s \in Nat, NEW e \in Nat, s <= e
    PROVE  Senders(Piece(id, s, e)) = IF s = e THEN {} ELSE {id}
  <1>1. DOMAIN Piece(id, s, e) = 1..(e - s)
        /\ \A i \in 1..(e - s) : Piece(id, s, e)[i][1] = id
    BY DEF Piece
  <1>2. s # e => 1 \in 1..(e - s)
    OBVIOUS
  <1>3. s = e => 1..(e - s) = {}
    OBVIOUS
  <1> QED  BY <1>1, <1>2, <1>3 DEF Senders

\* What is put together has the bytes of its parts.
LEMMA SendersJoin ==
    ASSUME NEW S, NEW a \in Seq(S), NEW b \in Seq(S)
    PROVE  Senders(a \o b) \subseteq Senders(a) \cup Senders(b)
  <1> SUFFICES ASSUME NEW i \in DOMAIN (a \o b)
               PROVE  (a \o b)[i][1] \in Senders(a) \cup Senders(b)
    BY DEF Senders
  <1>1. i \in 1..(Len(a) + Len(b)) /\ Len(a) \in Nat /\ Len(b) \in Nat
    BY ConcatProperties, LenProperties
  <1>2. CASE i <= Len(a)
    <2>1. i \in DOMAIN a /\ (a \o b)[i] = a[i]
      BY <1>1, <1>2, ConcatProperties, LenProperties
    <2> QED  BY <2>1 DEF Senders
  <1>3. CASE ~(i <= Len(a))
    <2>1. i - Len(a) \in DOMAIN b /\ (a \o b)[i] = b[i - Len(a)]
      BY <1>1, <1>3, ConcatProperties, LenProperties
    <2> QED  BY <2>1 DEF Senders
  <1> QED  BY <1>2, <1>3

\* What is cut off has bytes of the whole.
LEMMA SendersOfPart ==
    ASSUME NEW S, NEW a \in Seq(S), NEW m \in Nat, NEW n \in Nat,
           m <= n, n <= Len(a)
    PROVE  /\ Cut(a, m, n) \in Seq(S)
           /\ Senders(Cut(a, m, n)) \subseteq Senders(a)
           /\ Len(Cut(a, m, n)) = n - m
  <1>1. \A i \in (m + 1)..n : i \in DOMAIN a /\ a[i] \in S
    BY LenProperties, ElementOfSeq
  <1>2. /\ SubSeq(a, m + 1, n) \in Seq(S)
        /\ Len(SubSeq(a, m + 1, n)) = IF m + 1 <= n THEN n - (m + 1) + 1 ELSE 0
        /\ \A i \in 1..(n - (m + 1) + 1) : SubSeq(a, m + 1, n)[i] = a[(m + 1) + i - 1]
    <2>1. m + 1 \in Int /\ n \in Int
      OBVIOUS
    <2> QED  BY <1>1, <2>1, SubSeqProperties
  <1> DEFINE c == SubSeq(a, m + 1, n)
  <1> HIDE DEF c
  <1>3. /\ c \in Seq(S) /\ Len(c) = n - m
        /\ \A i \in 1..(n - m) : c[i] = a[m + i]
    BY <1>2 DEF c
  <1>4. ASSUME NEW i \in DOMAIN c PROVE c[i][1] \in Senders(a)
    <2>1. i \in 1..(n - m) /\ m + i \in (m + 1)..n
      BY <1>3, LenProperties
    <2> QED  BY <1>1, <1>3, <2>1 DEF Senders
  <1>5. c = Cut(a, m, n)
    BY DEF c, Cut
  <1>6. Senders(c) \subseteq Senders(a)
    BY <1>4 DEF Senders
  <1> QED  BY <1>3, <1>5, <1>6

\* Frames are numbers.
LEMMA SendersAreNumbers ==
    ASSUME NEW a \in Seq(AllBytes)
    PROVE  Senders(a) \subseteq 0..(MaxRx + MaxTx)
  <1> SUFFICES ASSUME NEW i \in DOMAIN a PROVE a[i][1] \in 0..(MaxRx + MaxTx)
    BY DEF Senders
  <1>1. a[i] \in AllBytes
    BY ElementOfSeq, LenProperties
  <1> QED  BY <1>1 DEF AllBytes
------------------------------------------------------------------------------
(* Out to the network.  The transmission under way is what OutPacket has    *)
(* gathered and what is left to gather, two pieces of the last frame, and   *)
(* what is left never is a whole number of packets; or it is spoiled.       *)

Clean == \E n \in TxSizes, p \in 0..MTU :
             /\ p < n /\ (n - p) % MAX_PACKET # 0
             /\ submitted >= 1
             /\ tx_buf = Piece(submitted, 0, p) /\ out = Piece(submitted, p, n)

Dirty == Senders(tx_buf) \cup Senders(out) \subseteq txSpoiled

WireOK == \A i \in DOMAIN wire : \A a \in Senders(wire[i]) \ txSpoiled :
              a <= submitted /\ (out # <<>> => a < submitted)

TxTypeOK ==
    /\ tx_buf \in Seq(AllBytes) /\ Len(tx_buf) <= MTU
    /\ out \in Seq(AllBytes)
    /\ submitted \in 0..MaxTx
    /\ wire \in Seq(Seq(AllBytes))
    /\ txSpoiled \subseteq 1..MaxTx

TxInv == TxTypeOK /\ (Clean \/ Dirty) /\ WireOK /\ SentWhole

LEMMA TxInit == Init => TxInv
  <1> SUFFICES ASSUME Init PROVE TxInv
    OBVIOUS
  <1>1. tx_buf = <<>> /\ out = <<>> /\ wire = <<>> /\ txSpoiled = {} /\ submitted = 0
    BY DEF Init
  <1>2. TxTypeOK
    BY <1>1, SizeAssumption DEF TxTypeOK
  <1>3. Dirty
    BY <1>1 DEF Dirty, Senders
  <1>4. WireOK /\ SentWhole
    BY <1>1 DEF WireOK, SentWhole
  <1> QED  BY <1>2, <1>3, <1>4 DEF TxInv

\* The pieces of a clean transmission.
LEMMA CleanPieces ==
    ASSUME TxTypeOK, NEW n \in TxSizes, NEW p \in 0..MTU, p < n, submitted >= 1
    PROVE  /\ n \in Nat /\ p \in Nat /\ n <= MTU /\ submitted \in 1..MaxTx
           /\ submitted \in 0..(MaxRx + MaxTx)
           /\ Senders(Piece(submitted, p, n)) = {submitted}
           /\ Senders(Piece(submitted, 0, p)) \subseteq {submitted}
           /\ Len(Piece(submitted, p, n)) = n - p
           /\ Len(Piece(submitted, 0, p)) = p
           /\ Piece(submitted, p, n) \in Seq(AllBytes)
           /\ Piece(submitted, 0, p) \in Seq(AllBytes)
  <1>1. /\ n \in Nat /\ p \in Nat /\ n <= MTU /\ 0 \in Nat /\ 0 <= p /\ p <= n
        /\ submitted \in 1..MaxTx /\ p # n
    BY SizeAssumption DEF TxTypeOK
  <1>2. submitted \in 0..(MaxRx + MaxTx)
    BY <1>1, SizeAssumption
  <1>3. /\ Senders(Piece(submitted, p, n)) = {submitted}
        /\ Senders(Piece(submitted, 0, p)) \subseteq {submitted}
    <2>1. Senders(Piece(submitted, p, n)) = IF p = n THEN {} ELSE {submitted}
      BY <1>1, <1>2, SendersOfPiece
    <2>2. Senders(Piece(submitted, 0, p)) = IF 0 = p THEN {} ELSE {submitted}
      BY <1>1, <1>2, SendersOfPiece
    <2> QED  BY <1>1, <2>1, <2>2
  <1>4. Len(Piece(submitted, p, n)) = n - p /\ Len(Piece(submitted, 0, p)) = p - 0
    BY <1>1, PieceLength
  <1>5. Piece(submitted, p, n) \in Seq(AllBytes) /\ Piece(submitted, 0, p) \in Seq(AllBytes)
    BY <1>1, <1>2, PieceIsSeq
  <1> QED  BY <1>1, <1>2, <1>3, <1>4, <1>5

\* A burst or all that is left: nothing else can be asked for.
LEMMA AskedFor ==
    ASSUME NEW n \in Nat, NEW size \in Asked(n)
    PROVE  size = n \/ (size = MAX_PACKET /\ MAX_PACKET < n)
  BY SizeAssumption DEF Asked, Least

\* A new transmission.
LEMMA TxSubmit == ASSUME TxInv, NEW n \in TxSizes, Submit(n) PROVE TxInv'
  <1> DEFINE k == submitted + 1
  <1>1. /\ out = <<>> /\ submitted < MaxTx /\ submitted' = k /\ tx_buf' = tx_buf
        /\ out' = Bytes(k, n) /\ wire' = wire
        /\ txSpoiled' = IF tx_buf = <<>> THEN txSpoiled ELSE txSpoiled \cup {k}
    BY DEF Submit
  <1>2. TxTypeOK /\ WireOK /\ SentWhole
    BY DEF TxInv
  <1>3. /\ n \in Nat /\ n >= 1 /\ n <= MTU /\ k \in 1..MaxTx /\ k \in 0..(MaxRx + MaxTx)
        /\ k >= 1 /\ 0 \in 0..MTU /\ n % MAX_PACKET # 0
    BY <1>1, <1>2, SizeAssumption, PaddingAssumption DEF TxTypeOK
  <1>4. out' = Piece(k, 0, n) /\ out' \in Seq(AllBytes) /\ Senders(out') \subseteq {k}
    <2>1. Bytes(k, n) = Piece(k, 0, n)
      BY <1>3, WholeIsPiece
    <2>2. 0 \in Nat /\ 0 <= n /\ 0 # n
      BY <1>3
    <2>3. Piece(k, 0, n) \in Seq(AllBytes)
      BY <1>3, <2>2, PieceIsSeq
    <2>4. Senders(Piece(k, 0, n)) = IF 0 = n THEN {} ELSE {k}
      BY <1>3, <2>2, SendersOfPiece
    <2> QED  BY <1>1, <2>1, <2>2, <2>3, <2>4
  <1>5. Dirty
    <2>1. ~Clean
      <3> SUFFICES ASSUME NEW m \in TxSizes, NEW p \in 0..MTU, p < m, submitted >= 1,
                          out = Piece(submitted, p, m)
                   PROVE  FALSE
        BY DEF Clean
      <3>1. Senders(out) = {submitted}
        BY <1>2, CleanPieces
      <3> QED  BY <1>1, <3>1 DEF Senders
    <2> QED  BY <2>1 DEF TxInv
  <1>6. TxTypeOK'
    <2>1. txSpoiled' \subseteq 1..MaxTx
      BY <1>1, <1>2, <1>3 DEF TxTypeOK
    <2>2. submitted' \in 0..MaxTx
      BY <1>1, <1>3
    <2> QED  BY <1>1, <1>2, <1>4, <2>1, <2>2 DEF TxTypeOK
  <1>7. ASSUME tx_buf = <<>> PROVE Clean'
    <2>1. Piece(k, 0, 0) = <<>>
      BY <1>3, PieceIsEmpty
    <2>2. (n - 0) % MAX_PACKET # 0 /\ 0 < n
      BY <1>3
    <2>3. Clean'
      BY <1>1, <1>3, <1>4, <1>7, <2>1, <2>2, Zenon DEF Clean
    <2> QED  BY <2>3
  <1>8. ASSUME tx_buf # <<>> PROVE Dirty'
    <2>1. Senders(tx_buf') \subseteq txSpoiled'
      BY <1>1, <1>5 DEF Dirty
    <2>2. Senders(out') \subseteq txSpoiled'
      BY <1>1, <1>4, <1>8
    <2> QED  BY <2>1, <2>2 DEF Dirty
  <1>9. WireOK'
    <2> SUFFICES ASSUME NEW i \in DOMAIN wire', NEW a \in Senders(wire'[i]) \ txSpoiled'
                 PROVE  a <= submitted' /\ a < submitted'
      BY DEF WireOK
    <2>1. a \in Senders(wire[i]) \ txSpoiled /\ i \in DOMAIN wire
      BY <1>1
    <2>2. a <= submitted
      BY <1>2, <2>1 DEF WireOK
    <2>3. a \in Int
      <3>1. wire[i] \in Seq(AllBytes)
        BY <1>2, <2>1, ElementOfSeq, LenProperties DEF TxTypeOK
      <3>2. Senders(wire[i]) \subseteq 0..(MaxRx + MaxTx)
        BY <3>1, SendersAreNumbers
      <3> QED  BY <2>1, <3>2
    <2>4. submitted \in Int
      BY <1>2 DEF TxTypeOK
    <2> QED  BY <1>1, <2>2, <2>3, <2>4
  <1>10. SentWhole'
    BY <1>1, <1>2 DEF SentWhole
  <1> QED  BY <1>6, <1>7, <1>8, <1>9, <1>10 DEF TxInv

\* What a packet of the transmission does to a clean one.
LEMMA TxCleanPacket ==
    ASSUME TxInv, Clean, out # <<>>, NEW size \in Asked(Len(out)), OutPacket(size)
    PROVE  /\ out' \in Seq(AllBytes) /\ tx_buf' \in Seq(AllBytes) /\ Len(tx_buf') <= MTU
           /\ \/ Clean' /\ wire' = wire /\ out' # <<>>
              \/ /\ tx_buf' = <<>> /\ out' = <<>>
                 /\ \E n \in TxSizes : wire' = Append(wire, Bytes(submitted, n))
  <1> USE DEF TxInv
  <1>1. PICK n \in TxSizes, p \in 0..MTU :
             /\ p < n /\ (n - p) % MAX_PACKET # 0 /\ submitted >= 1
             /\ tx_buf = Piece(submitted, 0, p) /\ out = Piece(submitted, p, n)
    BY DEF Clean
  <1> DEFINE k == submitted
  <1>2. /\ n \in Nat /\ p \in Nat /\ n <= MTU /\ k \in 1..MaxTx /\ k \in 0..(MaxRx + MaxTx)
        /\ Len(out) = n - p /\ Len(tx_buf) = p
        /\ out \in Seq(AllBytes) /\ tx_buf \in Seq(AllBytes)
    BY <1>1, CleanPieces
  <1>3. /\ out' = SubSeq(out, size + 1, Len(out)) /\ submitted' = k
        /\ tx_buf' = IF EndsFrame(size) THEN <<>>
                     ELSE tx_buf \o SubSeq(out, 1, Copied(size))
        /\ wire' = IF EndsFrame(size) THEN Append(wire, tx_buf \o SubSeq(out, 1, Copied(size)))
                                      ELSE wire
    BY DEF OutPacket
  <1>4. MTU \in Nat /\ MAX_PACKET \in Nat \ {0} /\ n - p \in Nat
    BY <1>1, <1>2, SizeAssumption
  <1>5. size \in Nat /\ 1 <= size /\ size <= n - p
        /\ (size = n - p \/ (size = MAX_PACKET /\ MAX_PACKET < n - p))
    BY <1>1, <1>2, <1>4, AskedFor
  <1>6. Copied(size) = size
    BY <1>2, <1>4, <1>5 DEF Copied, Least
  <1>7. /\ Piece(k, 0, p) \o Cut(Piece(k, p, n), 0, size) = Piece(k, 0, p + size)
        /\ Cut(Piece(k, p, n), size, n - p) = Piece(k, p + size, n)
    <2> HIDE DEF k
    <2>1. /\ k \in 0..(MaxRx + MaxTx) /\ p \in Nat /\ n \in Nat
          /\ size \in Nat /\ p <= n /\ size <= n - p
      BY <1>1, <1>2, <1>5
    <2> QED  BY <2>1, PacketMoves
  <1>8. /\ tx_buf \o SubSeq(out, 1, size) = Piece(k, 0, p + size)
        /\ out' = Piece(k, p + size, n)
    <2>1. Cut(out, 0, size) = SubSeq(out, 1, size)
          /\ Cut(out, size, n - p) = SubSeq(out, size + 1, n - p)
      BY DEF Cut
    <2> QED  BY <1>1, <1>2, <1>3, <1>7, <2>1
  <1>9. out' \in Seq(AllBytes) /\ Piece(k, 0, p + size) \in Seq(AllBytes)
        /\ Len(Piece(k, 0, p + size)) <= MTU
    <2> DEFINE u == p + size
    <2>1. u \in Nat /\ u <= n /\ 0 \in Nat /\ 0 <= u /\ u - 0 <= MTU
      BY <1>2, <1>4, <1>5
    <2> HIDE DEF u
    <2>2. Piece(k, u, n) \in Seq(AllBytes) /\ Piece(k, 0, u) \in Seq(AllBytes)
      BY <1>2, <2>1, PieceIsSeq, Zenon
    <2>3. Len(Piece(k, 0, u)) = u - 0
      BY <2>1, PieceLength, Zenon
    <2> QED  BY <1>8, <2>1, <2>2, <2>3 DEF u
  <1>10. CASE size = n - p
    <2>1. EndsFrame(size)
      BY <1>1, <1>10 DEF EndsFrame
    <2>2. p + size = n
      BY <1>2, <1>10
    <2>3. out' = <<>>
      BY <1>2, <1>8, <2>2, PieceIsEmpty
    <2>4. Bytes(k, n) = Piece(k, 0, n)
      BY <1>2, WholeIsPiece
    <2>5. tx_buf' = <<>> /\ wire' = Append(wire, Bytes(k, n))
      BY <1>3, <1>6, <1>8, <2>1, <2>2, <2>4
    <2> QED  BY <1>4, <1>9, <2>3, <2>5
  <1>11. CASE size # n - p
    <2>1. size = MAX_PACKET /\ MAX_PACKET < n - p
      BY <1>5, <1>11
    <2>2. ~EndsFrame(size)
      <3>1. MAX_PACKET % MAX_PACKET = 0
        BY <1>4
      <3> QED  BY <1>5, <2>1, <3>1 DEF EndsFrame
    <2>3. tx_buf' = Piece(k, 0, p + size) /\ wire' = wire
      BY <1>3, <1>6, <1>8, <2>2
    <2>4. (n - p - MAX_PACKET) % MAX_PACKET = (n - p) % MAX_PACKET
      BY <1>4, <2>1, RemainderStays
    <2>5. p + size \in 0..MTU /\ p + size < n /\ n - (p + size) = n - p - MAX_PACKET
      BY <1>2, <1>4, <2>1
    <2>6. Clean'
      <3>1. (n - (p + size)) % MAX_PACKET # 0
        BY <1>1, <2>4, <2>5
      <3> QED  BY <1>1, <1>3, <1>8, <2>3, <2>5, <3>1, Zenon DEF Clean
    <2>7. out' # <<>>
      <3>1. p + size \in Nat /\ p + size <= n /\ p + size # n
        BY <1>2, <2>5
      <3> QED  BY <1>2, <1>8, <3>1, PieceIsEmpty
    <2> QED  BY <1>9, <2>3, <2>6, <2>7
  <1> QED  BY <1>10, <1>11

\* A frame that is whole, or spoiled, may go on the wire behind the others.
LEMMA TxAppend ==
    ASSUME TxInv, out # <<>>, NEW w \in Seq(AllBytes),
           wire' = Append(wire, w), txSpoiled' = txSpoiled, submitted' = submitted,
           out' = <<>> \/ Senders(w) \subseteq txSpoiled,
           \/ Senders(w) \subseteq txSpoiled
           \/ \E n \in TxSizes : w = Bytes(submitted, n) /\ submitted \in 1..MaxTx
    PROVE  wire' \in Seq(Seq(AllBytes)) /\ WireOK' /\ SentWhole'
  <1> USE DEF TxInv
  <1> DEFINE l == Len(wire)
  <1>1. wire \in Seq(Seq(AllBytes)) /\ l \in Nat /\ DOMAIN wire = 1..l
    BY LenProperties DEF TxTypeOK
  <1>2. /\ wire' \in Seq(Seq(AllBytes)) /\ DOMAIN wire' = 1..(l + 1)
        /\ wire'[l + 1] = w
    BY <1>1, AppendProperties, LenProperties
  <1>3. \A i \in 1..l : wire'[i] = wire[i]
    BY <1>1, AppendProperties
  <1>4. \A a \in Senders(w) \ txSpoiled : a = submitted
    <2>1. \A n : \A i \in DOMAIN Bytes(submitted, n) : Bytes(submitted, n)[i][1] = submitted
      BY DEF Bytes
    <2>2. \A n : \A a \in Senders(Bytes(submitted, n)) : a = submitted
      BY <2>1, Zenon DEF Senders
    <2> QED  BY <2>2, Zenon
  <1>5. \A i \in 1..l : \A a \in Senders(wire[i]) \ txSpoiled : a <= submitted /\ a < submitted
    BY <1>1 DEF WireOK
  <1>6. submitted \in Nat
    BY DEF TxTypeOK
  <1>7. WireOK'
    <2> SUFFICES ASSUME NEW i \in 1..(l + 1), NEW a \in Senders(wire'[i]) \ txSpoiled
                 PROVE  a <= submitted /\ (out' # <<>> => a < submitted)
      BY <1>2 DEF WireOK
    <2>1. CASE i \in 1..l
      BY <1>3, <1>5, <2>1
    <2>2. CASE i = l + 1
      BY <1>2, <1>4, <1>6, <2>2
    <2> QED  BY <1>1, <2>1, <2>2
  <1>8. ASSUME NEW i \in DOMAIN wire', ~(Senders(wire'[i]) \subseteq txSpoiled')
        PROVE  \E id \in 1..MaxTx, n \in TxSizes : wire'[i] = Bytes(id, n)
    <2>1. CASE i \in 1..l
      BY <1>1, <1>3, <1>8, <2>1 DEF SentWhole
    <2>2. CASE i = l + 1
      BY <1>2, <1>8, <2>2
    <2> QED  BY <1>1, <1>2, <2>1, <2>2
  <1>9. ASSUME NEW i \in DOMAIN wire', NEW j \in DOMAIN wire', i < j,
               NEW a \in Senders(wire'[i]) \ txSpoiled',
               NEW b \in Senders(wire'[j]) \ txSpoiled'
        PROVE  a < b
    <2>1. i \in 1..l
      BY <1>1, <1>2, <1>9
    <2>2. CASE j \in 1..l
      BY <1>1, <1>3, <1>9, <2>1, <2>2 DEF SentWhole
    <2>3. CASE j = l + 1
      <3>1. b = submitted
        BY <1>2, <1>4, <2>3
      <3>2. a < submitted
        BY <1>3, <1>5, <2>1
      <3> QED  BY <3>1, <3>2
    <2> QED  BY <1>1, <1>2, <2>2, <2>3
  <1>10. SentWhole'
    BY <1>8, <1>9 DEF SentWhole
  <1> QED  BY <1>2, <1>7, <1>10

\* What a packet does to a spoiled transmission: all it leaves is spoiled.
LEMMA TxDirtyPacket ==
    ASSUME TxInv, Dirty, out # <<>>, NEW size \in Asked(Len(out)), OutPacket(size)
    PROVE  /\ out' \in Seq(AllBytes) /\ tx_buf' \in Seq(AllBytes) /\ Len(tx_buf') <= MTU
           /\ Dirty'
           /\ \/ wire' = wire
              \/ \E w \in Seq(AllBytes) :
                     wire' = Append(wire, w) /\ Senders(w) \subseteq txSpoiled
  <1> DEFINE l == Len(out)
             c == Cut(out, 0, Copied(size))
             held == tx_buf \o c
  <1>1. out \in Seq(AllBytes) /\ tx_buf \in Seq(AllBytes) /\ Len(tx_buf) <= MTU
        /\ l \in Nat /\ Len(tx_buf) \in Nat
    BY LenProperties DEF TxInv, TxTypeOK
  <1>2. MTU \in Nat /\ MAX_PACKET \in Nat \ {0}
    BY SizeAssumption
  <1>3. size \in Nat /\ size <= l
    BY <1>1, <1>2, AskedFor
  <1>4. Copied(size) \in Nat /\ Copied(size) <= size /\ Copied(size) <= MTU - Len(tx_buf)
    BY <1>1, <1>2, <1>3 DEF Copied, Least
  <1>5. c \in Seq(AllBytes) /\ Senders(c) \subseteq Senders(out) /\ Len(c) <= MTU - Len(tx_buf)
    <2>1. Copied(size) <= l /\ 0 \in Nat
      BY <1>1, <1>3, <1>4
    <2> DEFINE m == Copied(size)
    <2>2. m \in Nat /\ m <= Len(out) /\ m <= MTU - Len(tx_buf)
      BY <1>4, <2>1
    <2> HIDE DEF m
    <2>3. /\ Cut(out, 0, m) \in Seq(AllBytes)
          /\ Senders(Cut(out, 0, m)) \subseteq Senders(out)
          /\ Len(Cut(out, 0, m)) = m - 0
      <3>1. 0 <= m
        BY <2>2
      <3> QED  BY <1>1, <2>1, <2>2, <3>1, SendersOfPart
    <2>4. /\ Cut(out, 0, m) \in Seq(AllBytes)
          /\ Senders(Cut(out, 0, m)) \subseteq Senders(out)
          /\ Len(Cut(out, 0, m)) <= MTU - Len(tx_buf)
      BY <2>2, <2>3
    <2> QED  BY <2>4 DEF m
  <1>6. held \in Seq(AllBytes) /\ Len(held) <= MTU /\ Senders(held) \subseteq txSpoiled
    <2>1. held \in Seq(AllBytes) /\ Len(held) = Len(tx_buf) + Len(c) /\ Len(c) \in Nat
      BY <1>1, <1>5, ConcatProperties, LenProperties
    <2>2. Senders(held) \subseteq Senders(tx_buf) \cup Senders(c)
      BY <1>1, <1>5, SendersJoin
    <2> QED  BY <1>1, <1>2, <1>5, <2>1, <2>2 DEF Dirty
  <1>7. Cut(out, size, l) \in Seq(AllBytes) /\ Senders(Cut(out, size, l)) \subseteq Senders(out)
    <2>1. l <= l
      BY <1>1
    <2> QED  BY <1>1, <1>3, <2>1, SendersOfPart
  <1>8. /\ out' = Cut(out, size, l) /\ txSpoiled' = txSpoiled
        /\ tx_buf' = IF EndsFrame(size) THEN <<>> ELSE held
        /\ wire' = IF EndsFrame(size) THEN Append(wire, held) ELSE wire
    <2>1. c = SubSeq(out, 1, Copied(size))
      BY DEF Cut
    <2> QED  BY <2>1 DEF OutPacket, Cut
  <1>9. <<>> \in Seq(AllBytes) /\ Len(<<>>) = 0 /\ Senders(<<>>) = {}
    BY DEF Senders
  <1>10. out' \in Seq(AllBytes) /\ tx_buf' \in Seq(AllBytes) /\ Len(tx_buf') <= MTU
    BY <1>2, <1>6, <1>7, <1>8, <1>9
  <1>11. Dirty'
    <2>1. Senders(tx_buf') \subseteq txSpoiled'
      BY <1>6, <1>8, <1>9
    <2>2. Senders(out') \subseteq txSpoiled'
      BY <1>7, <1>8 DEF Dirty
    <2> QED  BY <2>1, <2>2 DEF Dirty
  <1> QED  BY <1>6, <1>8, <1>10, <1>11

\* A packet of the transmission keeps the invariant.
LEMMA TxPacket ==
    ASSUME TxInv, NEW size \in Asked(Len(out)), OutPacket(size)
    PROVE  TxInv'
  <1>1. /\ out # <<>> /\ submitted' = submitted /\ txSpoiled' = txSpoiled
        /\ submitted \in 0..MaxTx /\ txSpoiled \subseteq 1..MaxTx
        /\ wire \in Seq(Seq(AllBytes)) /\ WireOK /\ SentWhole
    BY DEF OutPacket, TxInv, TxTypeOK
  <1>2. CASE Clean
    <2>1. out' \in Seq(AllBytes) /\ tx_buf' \in Seq(AllBytes) /\ Len(tx_buf') <= MTU
      BY <1>1, <1>2, TxCleanPacket
    <2>2. CASE Clean' /\ wire' = wire /\ out' # <<>>
      <3>1. TxTypeOK'
        BY <1>1, <2>1, <2>2 DEF TxTypeOK
      <3>2. WireOK' /\ SentWhole'
        BY <1>1, <2>2 DEF WireOK, SentWhole
      <3> QED  BY <2>2, <3>1, <3>2 DEF TxInv
    <2>3. CASE /\ tx_buf' = <<>> /\ out' = <<>>
               /\ \E n \in TxSizes : wire' = Append(wire, Bytes(submitted, n))
      <3>1. PICK n \in TxSizes : wire' = Append(wire, Bytes(submitted, n))
        BY <2>3
      <3>2. submitted \in 1..MaxTx
        BY <1>1, <1>2 DEF Clean
      <3>3. Bytes(submitted, n) \in Seq(AllBytes)
        <4>1. n \in Nat /\ 0 \in Nat /\ 0 <= n /\ submitted \in 0..(MaxRx + MaxTx)
          BY <3>2, SizeAssumption
        <4>2. Piece(submitted, 0, n) \in Seq(AllBytes)
          BY <4>1, PieceIsSeq
        <4>3. Bytes(submitted, n) = Piece(submitted, 0, n)
          BY <4>1, WholeIsPiece
        <4> QED  BY <4>2, <4>3
      <3>4. wire' \in Seq(Seq(AllBytes)) /\ WireOK' /\ SentWhole'
        BY <1>1, <2>3, <3>1, <3>2, <3>3, TxAppend
      <3>5. TxTypeOK'
        BY <1>1, <2>1, <3>4 DEF TxTypeOK
      <3>6. Dirty'
        BY <2>3 DEF Dirty, Senders
      <3> QED  BY <3>4, <3>5, <3>6 DEF TxInv
    <2> QED  BY <1>1, <1>2, <2>2, <2>3, TxCleanPacket
  <1>3. CASE Dirty
    <2>1. /\ out' \in Seq(AllBytes) /\ tx_buf' \in Seq(AllBytes) /\ Len(tx_buf') <= MTU
          /\ Dirty'
      BY <1>1, <1>3, TxDirtyPacket
    <2>2. CASE wire' = wire
      <3>1. TxTypeOK'
        BY <1>1, <2>1, <2>2 DEF TxTypeOK
      <3>2. WireOK' /\ SentWhole'
        BY <1>1, <2>2 DEF WireOK, SentWhole
      <3> QED  BY <2>1, <3>1, <3>2 DEF TxInv
    <2>3. CASE \E w \in Seq(AllBytes) :
                   wire' = Append(wire, w) /\ Senders(w) \subseteq txSpoiled
      <3>1. PICK w \in Seq(AllBytes) :
                     wire' = Append(wire, w) /\ Senders(w) \subseteq txSpoiled
        BY <2>3
      <3>2. wire' \in Seq(Seq(AllBytes)) /\ WireOK' /\ SentWhole'
        BY <1>1, <3>1, TxAppend
      <3>3. TxTypeOK'
        BY <1>1, <2>1, <3>2 DEF TxTypeOK
      <3> QED  BY <2>1, <3>2, <3>3 DEF TxInv
    <2> QED  BY <1>1, <1>3, <2>2, <2>3, TxDirtyPacket
  <1> QED  BY <1>2, <1>3 DEF TxInv

\* What a killed transmission or a reset leaves is spoiled.
LEMMA TxStopped ==
    ASSUME TxInv, out' = <<>>, tx_buf' = tx_buf \/ tx_buf' = <<>>,
           txSpoiled' = txSpoiled \cup Senders(out), submitted' = submitted, wire' = wire,
           out # <<>> \/ tx_buf' = <<>>
    PROVE  TxInv'
  <1>1. TxTypeOK /\ WireOK /\ SentWhole /\ (Clean \/ Dirty)
    BY DEF TxInv
  <1>2. Senders(out') = {}
    BY DEF Senders
  <1>3. /\ Senders(tx_buf') \subseteq txSpoiled'
        /\ txSpoiled' \subseteq 1..MaxTx
    <2>1. CASE Clean
      <3>1. PICK n \in TxSizes, p \in 0..MTU :
                 /\ p < n /\ submitted >= 1
                 /\ tx_buf = Piece(submitted, 0, p) /\ out = Piece(submitted, p, n)
        BY <2>1 DEF Clean
      <3>2. /\ submitted \in 1..MaxTx /\ Senders(out) = {submitted}
            /\ Senders(tx_buf) \subseteq {submitted}
        BY <1>1, <3>1, CleanPieces
      <3>3. tx_buf' = <<>> => Senders(tx_buf') = {}
        BY DEF Senders
      <3> QED  BY <1>1, <3>2, <3>3 DEF TxTypeOK
    <2>2. CASE Dirty
      <3>1. tx_buf' = <<>> => Senders(tx_buf') = {}
        BY DEF Senders
      <3> QED  BY <1>1, <2>2, <3>1 DEF TxTypeOK, Dirty
    <2> QED  BY <1>1, <2>1, <2>2
  <1>4. Dirty'
    BY <1>2, <1>3 DEF Dirty
  <1>5. TxTypeOK'
    <2>1. <<>> \in Seq(AllBytes) /\ Len(<<>>) = 0 /\ 0 <= MTU
      BY SizeAssumption
    <2> QED  BY <1>1, <1>3, <2>1 DEF TxTypeOK
  <1>6. WireOK' /\ SentWhole'
    BY <1>1 DEF WireOK, SentWhole
  <1> QED  BY <1>4, <1>5, <1>6 DEF TxInv

LEMMA TxNext == TxInv /\ [Next]_vars => TxInv'
  <1> SUFFICES ASSUME TxInv, [Next]_vars PROVE TxInv'
    OBVIOUS
  <1>1. ASSUME UNCHANGED tx PROVE TxInv'
    <2>1. /\ tx_buf' = tx_buf /\ out' = out /\ submitted' = submitted
          /\ wire' = wire /\ txSpoiled' = txSpoiled
      BY <1>1 DEF tx
    <2>2. TxTypeOK' /\ WireOK' /\ SentWhole' /\ (Clean \/ Dirty)'
      BY <2>1 DEF TxInv, TxTypeOK, WireOK, SentWhole, Clean, Dirty
    <2> QED  BY <2>2 DEF TxInv
  <1>2. CASE \E n \in RxSizes : Arrive(n)
    BY <1>1, <1>2 DEF Arrive
  <1>3. CASE In
    BY <1>1, <1>3 DEF In, InPacket
  <1>4. CASE \E n \in TxSizes : Submit(n)
    BY <1>4, TxSubmit
  <1>5. CASE Out
    BY <1>5, TxPacket DEF Out
  <1>6. CASE KillRx
    BY <1>1, <1>6 DEF KillRx
  <1>7. CASE KillTx
    BY <1>7, TxStopped DEF KillTx
  <1>8. CASE Configure
    BY <1>1, <1>8 DEF Configure
  <1>9. CASE HandleReset
    BY <1>9, TxStopped DEF HandleReset
  <1>10. CASE UNCHANGED vars
    BY <1>1, <1>10 DEF vars
  <1> QED  BY <1>2, <1>3, <1>4, <1>5, <1>6, <1>7, <1>8, <1>9, <1>10 DEF Next

\* Whatever the driver sends, in packets of whatever size: no frame goes to the
\* network cut, joined to another or twice, and they go in order, but the ones
\* that a killed transmission touched (rtl8150_handle_data ends a frame only at
\* a short packet, and rtl8150_start_xmit never sends whole packets only).
THEOREM FramesGoOutWhole == Spec => []SentWhole
  <1>1. TxInv => SentWhole
    BY DEF TxInv
  <1> QED  BY TxInit, TxNext, <1>1, PTL DEF Spec
------------------------------------------------------------------------------
(* In to the guest.  The device is idle; or it hands over a transfer, and   *)
(* what it has handed over since the URB was posted is in the URB; or it    *)
(* owes the empty packet, and the end of the transfer may be in the URB.    *)
(* What is left of a transfer always fits the URB, so a packet that does    *)
(* not end the transfer is a full one, and one that ends it but not the URB *)
(* ends a whole number of packets: then the empty packet is owed.           *)

\* The URB holds the transfer up to e, from its start or from a killed URB on.
UrbHolds(e) == \E s \in 0..e : /\ urb = Piece(rx_frame.id, s, e)
                               /\ s = 0 \/ rx_frame.id \in spoiled

Idle == rx_total = 0 /\ rx_ptr = 0 /\ ~rx_zlp /\ urb = <<>>

Sending == /\ config /\ rx_frame \in Frame /\ Fits(rx_frame)
           /\ rx_total = rx_frame.size + STATUS_LEN /\ ~rx_zlp
           /\ rx_ptr \in Nat /\ rx_ptr < rx_total
           /\ (rx_total - rx_ptr) % MAX_PACKET = rx_total % MAX_PACKET
           /\ UrbHolds(rx_ptr)

Owing == /\ config /\ rx_frame \in Frame /\ Fits(rx_frame)
         /\ rx_total = 0 /\ rx_ptr = 0 /\ rx_zlp
         /\ urb = <<>> \/ UrbHolds(rx_frame.size + STATUS_LEN)

RxTypeOK ==
    /\ config \in BOOLEAN
    /\ rx_frame \in Frame \cup {NoFrame}
    /\ rx_total \in 0..(MTU + STATUS_LEN)
    /\ rx_ptr \in 0..rx_total
    /\ rx_zlp \in BOOLEAN
    /\ queue \in Seq(Frame) /\ receive_disabled \in BOOLEAN
    /\ urb \in Seq(AllBytes) /\ Len(urb) < URB_LEN
    /\ arrived \in 0..MaxRx
    /\ got \in Seq(Seq(AllBytes))
    /\ spoiled \subseteq Ids /\ excused \subseteq Ids

RxInv == RxTypeOK /\ (Idle \/ Sending \/ Owing) /\ OneFramePerUrb

LEMMA RxInit == Init => RxInv
  <1> SUFFICES ASSUME Init PROVE RxInv
    OBVIOUS
  <1>1. RxTypeOK
    <2>1. /\ 0 \in 0..(MTU + STATUS_LEN) /\ 0 \in 0..MaxRx /\ 0 \in 0..0
          /\ Len(<<>>) < URB_LEN
      BY SizeAssumption
    <2>2. <<>> \in Seq(AllBytes) /\ <<>> \in Seq(Frame) /\ <<>> \in Seq(Seq(AllBytes))
      OBVIOUS
    <2> QED  BY <2>1, <2>2, Zenon DEF Init, RxTypeOK
  <1>2. Idle /\ OneFramePerUrb
    BY DEF Init, Idle, OneFramePerUrb
  <1> QED  BY <1>1, <1>2 DEF RxInv

\* The numbers of a frame that fits.
LEMMA FrameNumbers ==
    ASSUME NEW f \in Frame, Fits(f)
    PROVE  /\ f.id \in Ids /\ f.id \in 0..(MaxRx + MaxTx) /\ f.size \in RxSizes
           /\ f.size \in Nat /\ f.size >= 1 /\ f.size <= MTU
           /\ f.size + STATUS_LEN \in Nat /\ f.size + STATUS_LEN <= URB_LEN
           /\ f.size + STATUS_LEN > 1 /\ f.size + STATUS_LEN <= MTU + STATUS_LEN
  <1>1. f.id \in 1..MaxRx /\ f.size \in RxSizes /\ f.size <= MTU
    BY DEF Frame, Fits
  <1>2. f.size \in Nat \ {0} /\ MaxRx \in Nat /\ MaxTx \in Nat
        /\ STATUS_LEN \in Nat \ {0} /\ MTU \in Nat
    BY <1>1, SizeAssumption
  <1>3. f.size + STATUS_LEN <= URB_LEN
    BY <1>1, UrbAssumption
  <1> QED  BY <1>1, <1>2, <1>3 DEF Ids

\* What a URB holds: a piece of the frame in rx_buf.
LEMMA UrbIsPiece ==
    ASSUME NEW e \in Nat, rx_frame \in Frame, Fits(rx_frame), UrbHolds(e)
    PROVE  \E s \in 0..e :
               /\ urb = Piece(rx_frame.id, s, e) /\ Len(urb) = e - s
               /\ s = 0 \/ rx_frame.id \in spoiled
               /\ Senders(urb) = IF s = e THEN {} ELSE {rx_frame.id}
  <1>1. PICK s \in 0..e : urb = Piece(rx_frame.id, s, e)
                          /\ (s = 0 \/ rx_frame.id \in spoiled)
    BY DEF UrbHolds
  <1>2. rx_frame.id \in 0..(MaxRx + MaxTx)
    BY FrameNumbers
  <1>3. s \in Nat /\ s <= e
    BY <1>1
  <1>4. Len(urb) = e - s
    BY <1>1, <1>3, PieceLength
  <1>5. Senders(urb) = IF s = e THEN {} ELSE {rx_frame.id}
    BY <1>1, <1>2, <1>3, SendersOfPiece
  <1> QED  BY <1>1, <1>4, <1>5

\* What QEMU's queue hands to an idle device.
LEMMA OfferTakes ==
    ASSUME NEW q \in Seq(Frame), Offer(q)
    PROVE  \E k \in 0..Len(q) :
               /\ queue' = Cut(q, k, Len(q))
               /\ receive_disabled' = (queue' # <<>>)
               /\ excused' = excused \cup {q[i].id : i \in {j \in 1..k : ~Fits(q[j])}}
               /\ \/ /\ k = Len(q) /\ \A j \in 1..k : ~Fits(q[j])
                     /\ rx_frame' = NoFrame /\ rx_total' = 0 /\ rx_ptr' = 0
                  \/ /\ k \in DOMAIN q /\ Fits(q[k])
                     /\ \A j \in 1..k : j # k => ~Fits(q[j])
                     /\ rx_frame' = q[k] /\ rx_ptr' = 0
                     /\ rx_total' = q[k].size + STATUS_LEN
  <1> DEFINE fit == {i \in DOMAIN q : Fits(q[i])}
             First(i) == \A j \in fit : i <= j
             k == IF fit = {} THEN Len(q) ELSE CHOOSE i \in fit : First(i)
  <1>1. Len(q) \in Nat /\ DOMAIN q = 1..Len(q)
    BY LenProperties
  <1>2. fit # {} => k \in fit /\ First(k)
    <2>1. fit \subseteq Nat
      BY <1>1
    <2>2. fit # {} => \E i \in fit : First(i)
      BY <2>1, LeastNumber
    <2> QED  BY <2>2
  <1>3. /\ queue' = SubSeq(q, k + 1, Len(q))
        /\ receive_disabled' = (SubSeq(q, k + 1, Len(q)) # <<>>)
        /\ excused' = excused \cup {q[i].id : i \in {j \in 1..k : ~Fits(q[j])}}
        /\ IF fit = {}
             THEN rx_frame' = NoFrame /\ rx_total' = 0 /\ rx_ptr' = 0
             ELSE /\ rx_frame' = q[k] /\ rx_total' = q[k].size + STATUS_LEN
                  /\ rx_ptr' = 0
    BY DEF Offer
  <1>4. fit = {} => k = Len(q)
    OBVIOUS
  <1> HIDE DEF k
  <1>5. k \in 0..Len(q)
    BY <1>1, <1>2, <1>4
  <1>6. queue' = Cut(q, k, Len(q)) /\ receive_disabled' = (queue' # <<>>)
    BY <1>3 DEF Cut
  <1>7. CASE fit = {}
    <2>1. \A j \in 1..k : ~Fits(q[j])
      BY <1>1, <1>4, <1>7
    <2> QED  BY <1>3, <1>4, <1>5, <1>6, <1>7, <2>1
  <1>8. CASE fit # {}
    <2>1. k \in DOMAIN q /\ Fits(q[k])
      BY <1>2, <1>8
    <2>2. ASSUME NEW j \in 1..k, j # k PROVE ~Fits(q[j])
      <3>1. j \in DOMAIN q /\ j < k
        BY <1>1, <1>5, <2>2
      <3>2. j \in fit => k <= j
        BY <1>2, <1>8
      <3> QED  BY <1>5, <3>1, <3>2
    <2> QED  BY <1>3, <1>5, <1>6, <1>8, <2>1, <2>2
  <1> QED  BY <1>7, <1>8

\* After the offer the device is idle or at the start of a transfer.
LEMMA OfferStarts ==
    ASSUME NEW q \in Seq(Frame), Offer(q), excused \subseteq Ids,
           urb' = <<>>, ~rx_zlp', config'
    PROVE  /\ queue' \in Seq(Frame) /\ receive_disabled' \in BOOLEAN
           /\ excused' \subseteq Ids
           /\ rx_frame' \in Frame \cup {NoFrame}
           /\ rx_total' \in 0..(MTU + STATUS_LEN) /\ rx_ptr' \in 0..rx_total'
           /\ Idle' \/ Sending'
  <1>1. PICK k \in 0..Len(q) :
               /\ queue' = Cut(q, k, Len(q))
               /\ receive_disabled' = (queue' # <<>>)
               /\ excused' = excused \cup {q[i].id : i \in {j \in 1..k : ~Fits(q[j])}}
               /\ \/ rx_frame' = NoFrame /\ rx_total' = 0 /\ rx_ptr' = 0
                  \/ /\ k \in DOMAIN q /\ Fits(q[k])
                     /\ rx_frame' = q[k] /\ rx_ptr' = 0
                     /\ rx_total' = q[k].size + STATUS_LEN
    BY OfferTakes
  <1>2. Len(q) \in Nat /\ DOMAIN q = 1..Len(q) /\ \A i \in DOMAIN q : q[i] \in Frame
    BY LenProperties, ElementOfSeq
  <1>3. queue' \in Seq(Frame)
    <2>1. k \in Nat /\ k <= Len(q) /\ Len(q) <= Len(q)
      BY <1>2
    <2>2. Cut(q, k, Len(q)) \in Seq(Frame)
      BY <1>2, <2>1, SendersOfPart
    <2> QED  BY <1>1, <2>2
  <1>4. excused' \subseteq Ids
    <2>1. \A i \in DOMAIN q : q[i].id \in Ids
      BY <1>2 DEF Frame, Ids
    <2>2. 1..k \subseteq DOMAIN q
      BY <1>2
    <2> QED  BY <1>1, <2>1, <2>2
  <1>5. CASE rx_frame' = NoFrame /\ rx_total' = 0 /\ rx_ptr' = 0
    <2>1. 0 \in 0..(MTU + STATUS_LEN) /\ 0 \in 0..0
      BY SizeAssumption
    <2> QED  BY <1>1, <1>3, <1>4, <1>5, <2>1 DEF Idle
  <1>6. CASE /\ k \in DOMAIN q /\ Fits(q[k])
             /\ rx_frame' = q[k] /\ rx_ptr' = 0
             /\ rx_total' = q[k].size + STATUS_LEN
    <2> DEFINE f == q[k]
    <2>1. f \in Frame /\ Fits(f)
      BY <1>2, <1>6
    <2>2. /\ f.size + STATUS_LEN \in Nat /\ f.size + STATUS_LEN > 1
          /\ f.size + STATUS_LEN <= MTU + STATUS_LEN /\ f.id \in 0..(MaxRx + MaxTx)
      BY <2>1, FrameNumbers
    <2>3. /\ rx_total' \in 0..(MTU + STATUS_LEN) /\ rx_ptr' \in 0..rx_total'
          /\ rx_ptr' < rx_total' /\ rx_total' - rx_ptr' = rx_total'
      BY <1>6, <2>2, SizeAssumption
    <2>4. UrbHolds(rx_ptr)'
      <3>1. Piece(f.id, 0, 0) = <<>>
        BY <2>2, PieceIsEmpty
      <3>2. 0 \in 0..0
        OBVIOUS
      <3> QED  BY <1>6, <3>1, <3>2 DEF UrbHolds
    <2>5. Fits(rx_frame)'
      BY <1>6, <2>1 DEF Fits
    <2>6. Sending'
      BY <1>6, <2>1, <2>3, <2>4, <2>5 DEF Sending
    <2> QED  BY <1>1, <1>3, <1>4, <1>6, <2>1, <2>3, <2>6
  <1> QED  BY <1>1, <1>5, <1>6

\* What a completed URB holds: the transfer, from its start or from a killed URB on.
Finished(w) == \E s \in 0..(rx_frame.size + STATUS_LEN) :
                   /\ s < rx_frame.size + STATUS_LEN
                   /\ w = Piece(rx_frame.id, s, rx_frame.size + STATUS_LEN)
                   /\ s = 0 \/ rx_frame.id \in spoiled

Kept == UNCHANGED <<rx_frame, queue, receive_disabled, excused>>

\* A packet of a transfer: the next bytes of it, or the last ones.
LEMMA RxDataPacket ==
    ASSUME RxTypeOK, Sending, NEW size \in Asked(Room), InPacket(size)
    PROVE  /\ urb' \in Seq(AllBytes) /\ Len(urb') < URB_LEN
           /\ \/ Sending' /\ got' = got /\ Kept
              \/ Owing' /\ got' = got /\ urb' # <<>> /\ Kept
              \/ /\ Owing' /\ urb' = <<>> /\ Kept
                 /\ \E w \in Seq(AllBytes) : Finished(w) /\ got' = Append(got, w)
              \/ /\ Offer(queue) /\ urb' = <<>> /\ ~rx_zlp'
                 /\ \E w \in Seq(AllBytes) : Finished(w) /\ got' = Append(got, w)
  <1> DEFINE id == rx_frame.id
             T == rx_frame.size + STATUS_LEN
             n == Least(T - rx_ptr, size)
             all == urb \o Cut(Transfer(rx_frame), rx_ptr, rx_ptr + n)
             e == rx_ptr + n
  <1>1. /\ rx_frame \in Frame /\ Fits(rx_frame) /\ config /\ ~rx_zlp
        /\ rx_total = T /\ rx_ptr < T /\ rx_ptr \in Nat
        /\ T \in Nat /\ T <= URB_LEN /\ id \in 0..(MaxRx + MaxTx)
    <2>1. rx_frame \in Frame /\ Fits(rx_frame) /\ rx_total = T /\ rx_ptr < rx_total
          /\ rx_ptr \in 0..rx_total /\ config /\ ~rx_zlp
      BY DEF Sending, RxTypeOK
    <2>2. T \in Nat /\ T <= URB_LEN /\ id \in 0..(MaxRx + MaxTx)
      BY <2>1, FrameNumbers
    <2> QED  BY <2>1, <2>2
  <1>2. PICK s \in 0..rx_ptr : /\ urb = Piece(id, s, rx_ptr) /\ Len(urb) = rx_ptr - s
                               /\ s = 0 \/ id \in spoiled
    BY <1>1, UrbIsPiece DEF Sending
  <1>3. MAX_PACKET \in Nat \ {0} /\ URB_LEN \in Nat
    BY SizeAssumption
  <1>4. /\ Room \in Nat /\ Room >= 1 /\ Room >= T - rx_ptr /\ Room = URB_LEN - (rx_ptr - s)
    BY <1>1, <1>2, <1>3 DEF Room, RxTypeOK
  <1>5. size \in Nat /\ size >= 1
        /\ (size = Room \/ (size = MAX_PACKET /\ MAX_PACKET < Room))
    BY <1>3, <1>4, AskedFor
  <1>6. n \in Nat /\ n >= 1 /\ n <= size /\ n <= T - rx_ptr /\ (n = size \/ n = T - rx_ptr)
    BY <1>1, <1>5 DEF Least
  <1>7. /\ s \in Nat /\ e \in Nat /\ s <= rx_ptr /\ rx_ptr <= e /\ s < e /\ e <= T
        /\ 0 \in Nat /\ 0 <= T /\ e <= T - 0 /\ 0 + rx_ptr = rx_ptr /\ 0 + e = e
    BY <1>1, <1>2, <1>6
  <1>8. Transfer(rx_frame) = Piece(id, 0, T)
    BY <1>1, WholeIsPiece DEF Transfer
  <1> HIDE DEF id, T, n, e
  <1>9. Cut(Piece(id, 0, T), rx_ptr, e) = Piece(id, rx_ptr, e)
    <2>1. Cut(Piece(id, 0, T), rx_ptr, e) = Piece(id, 0 + rx_ptr, 0 + e)
      BY <1>1, <1>7, PieceIsCut
    <2> QED  BY <1>7, <2>1
  <1>10. all = Piece(id, s, e) /\ Piece(id, s, e) \in Seq(AllBytes)
         /\ Len(Piece(id, s, e)) = e - s /\ Piece(id, s, e) # <<>>
    <2>1. Piece(id, s, rx_ptr) \o Piece(id, rx_ptr, e) = Piece(id, s, e)
      BY <1>1, <1>7, PiecesJoin
    <2>2. s <= e /\ s # e
      BY <1>7
    <2>3. Piece(id, s, e) \in Seq(AllBytes) /\ Len(Piece(id, s, e)) = e - s
      BY <1>1, <1>7, <2>2, PieceIsSeq, PieceLength
    <2>4. Piece(id, s, e) # <<>>
      BY <1>1, <1>7, <2>2, PieceIsEmpty
    <2> QED  BY <1>2, <1>8, <1>9, <2>1, <2>3, <2>4 DEF e
  <1>11. Cut(Transfer(rx_frame), rx_ptr, e) = Piece(id, rx_ptr, e)
         /\ Len(Piece(id, rx_ptr, e)) = n
    <2>1. Len(Piece(id, rx_ptr, e)) = e - rx_ptr
      BY <1>1, <1>7, PieceLength
    <2>2. e - rx_ptr = n
      BY <1>1, <1>6 DEF e
    <2> QED  BY <1>8, <1>9, <2>1, <2>2
  <1>12. /\ urb' = IF n < size \/ e - s = URB_LEN THEN <<>> ELSE Piece(id, s, e)
         /\ got' = IF n < size \/ e - s = URB_LEN THEN Append(got, Piece(id, s, e)) ELSE got
    <2>1. TakePacket(Cut(Transfer(rx_frame), rx_ptr, e), size)
      BY <1>1 DEF InPacket, Cut, n, e, T
    <2> HIDE DEF all
    <2>2. urb \o Cut(Transfer(rx_frame), rx_ptr, e) = Piece(id, s, e)
      BY <1>10 DEF all, e
    <2> QED  BY <1>10, <1>11, <2>1, <2>2 DEF TakePacket
  <1>13. UNCHANGED <<config, spoiled>>
    BY DEF InPacket
  <1> HIDE DEF all
  <1>14. urb' \in Seq(AllBytes) /\ Len(urb') < URB_LEN
    <2>1. Len(<<>>) = 0 /\ <<>> \in Seq(AllBytes) /\ 0 < URB_LEN
      BY SizeAssumption
    <2>2. e - s # URB_LEN => e - s < URB_LEN
      BY <1>1, <1>3, <1>7
    <2> QED  BY <1>10, <1>12, <2>1, <2>2
  <1>15. CASE e < T
    <2>1. rx_ptr' = e /\ UNCHANGED <<rx_frame, rx_total, rx_zlp, queue, receive_disabled,
                                     excused>>
      <3>1. ~(e >= T)
        BY <1>1, <1>7, <1>15
      <3> QED  BY <1>1, <3>1 DEF InPacket, n, e, T
    <2>2. n = size /\ size = MAX_PACKET /\ MAX_PACKET < T - rx_ptr /\ e - s < URB_LEN
      <3>1. n < T - rx_ptr
        BY <1>1, <1>6, <1>15 DEF e
      <3> QED  BY <1>1, <1>3, <1>4, <1>5, <1>6, <1>7, <1>15, <3>1
    <2>3. urb' = Piece(id, s, e) /\ got' = got
      BY <1>3, <1>5, <1>7, <1>12, <2>2
    <2>4. (T - e) % MAX_PACKET = T % MAX_PACKET
      <3> DEFINE r == T - rx_ptr
      <3>1. r \in Nat /\ r >= MAX_PACKET /\ T - e = r - MAX_PACKET
        BY <1>1, <1>3, <2>2 DEF e
      <3>2. r % MAX_PACKET = T % MAX_PACKET
        BY <1>1 DEF Sending
      <3> HIDE DEF r
      <3>3. (r - MAX_PACKET) % MAX_PACKET = r % MAX_PACKET
        BY <1>3, <3>1, RemainderStays
      <3> QED  BY <3>1, <3>2, <3>3
    <2>5. UrbHolds(rx_ptr)'
      <3>1. s \in 0..e
        BY <1>7
      <3> QED  BY <1>2, <1>13, <2>1, <2>3, <3>1 DEF UrbHolds, id
    <2>6. Sending'
      BY <1>1, <1>7, <1>13, <1>15, <2>1, <2>4, <2>5 DEF Sending, Fits, T
    <2> QED  BY <1>14, <2>1, <2>3, <2>6 DEF Kept
  <1>16. CASE e = T
    <2>1. /\ rx_zlp' = OwesEmptyPacket(T)
          /\ IF ~OwesEmptyPacket(T)
               THEN Offer(queue)
               ELSE /\ rx_total' = 0 /\ rx_ptr' = 0
                    /\ UNCHANGED <<rx_frame, queue, receive_disabled, excused>>
      <3>1. e >= T
        BY <1>1, <1>16
      <3> QED  BY <1>1, <3>1 DEF InPacket, Flushes, n, e, T
    <2>2. OwesEmptyPacket(T) <=> T % MAX_PACKET = 0
      BY <1>1, <1>7 DEF OwesEmptyPacket
    <2>3. Finished(Piece(id, s, e))
      <3>1. s \in 0..T /\ s < T
        BY <1>1, <1>7, <1>16
      <3> QED  BY <1>2, <1>16, <3>1 DEF Finished, id, T
    <2>4. CASE n < size \/ e - s = URB_LEN
      <3>1. urb' = <<>> /\ got' = Append(got, Piece(id, s, e))
        BY <1>12, <2>4
      <3>2. \E w \in Seq(AllBytes) : Finished(w) /\ got' = Append(got, w)
        BY <1>10, <2>3, <3>1
      <3>3. CASE OwesEmptyPacket(T)
        <4>1. Owing'
          BY <1>1, <1>13, <2>1, <3>1, <3>3 DEF Owing, Fits
        <4> QED  BY <1>14, <2>1, <3>1, <3>2, <3>3, <4>1 DEF Kept
      <3>4. CASE ~OwesEmptyPacket(T)
        BY <1>14, <2>1, <3>1, <3>2, <3>4
      <3> QED  BY <3>3, <3>4
    <2>5. CASE ~(n < size \/ e - s = URB_LEN)
      <3>1. urb' = Piece(id, s, e) /\ got' = got
        BY <1>12, <2>5
      <3>2. size = MAX_PACKET /\ T - rx_ptr = MAX_PACKET
        <4>1. n = size /\ T - rx_ptr = n
          BY <1>1, <1>5, <1>6, <1>16, <2>5 DEF e
        <4>2. e = rx_ptr + n
          BY DEF e
        <4>3. ASSUME size = Room PROVE e - s = URB_LEN
          <5>1. n = URB_LEN - (rx_ptr - s)
            BY <1>4, <4>1, <4>3
          <5> QED  BY <1>1, <1>3, <1>7, <4>2, <5>1
        <4> QED  BY <1>5, <2>5, <4>1, <4>3
      <3>3. OwesEmptyPacket(T)
        <4>1. (T - rx_ptr) % MAX_PACKET = T % MAX_PACKET
          BY <1>1 DEF Sending
        <4>2. MAX_PACKET % MAX_PACKET = 0
          BY <1>3
        <4> QED  BY <2>2, <3>2, <4>1, <4>2
      <3>4. UrbHolds(rx_frame.size + STATUS_LEN)'
        <4>1. s \in 0..T
          BY <1>1, <1>7
        <4> QED  BY <1>2, <1>13, <1>16, <2>1, <3>1, <3>3, <4>1 DEF UrbHolds, id, T
      <3>5. Owing'
        BY <1>1, <1>13, <2>1, <3>3, <3>4 DEF Owing, Fits
      <3> QED  BY <1>10, <1>14, <2>1, <3>1, <3>3, <3>5 DEF Kept
    <2> QED  BY <2>4, <2>5
  <1> QED  BY <1>1, <1>7, <1>15, <1>16

\* The empty packet: it ends the URB, and the device goes on.
LEMMA RxEmptyPacket ==
    ASSUME RxTypeOK, Owing, NEW size \in Asked(Room), InPacket(size)
    PROVE  /\ Offer(queue) /\ urb' = <<>> /\ ~rx_zlp'
           /\ got' = IF urb = <<>> THEN got ELSE Append(got, urb)
           /\ urb # <<>> => Finished(urb)
  <1>1. /\ rx_total = 0 /\ rx_ptr = 0 /\ rx_frame \in Frame /\ Fits(rx_frame)
        /\ urb \in Seq(AllBytes)
    BY DEF Owing, RxTypeOK
  <1>2. size \in Nat /\ size >= 1
    <2>1. Room \in Nat /\ Room >= 1 /\ MAX_PACKET \in Nat \ {0}
      BY SizeAssumption, LenProperties DEF Room, RxTypeOK
    <2> QED  BY <2>1, AskedFor
  <1>3. Least(rx_total - rx_ptr, size) = 0
    BY <1>1, <1>2 DEF Least
  <1>4. Cut(Transfer(rx_frame), 0, 0) = <<>>
    <2> DEFINE T == rx_frame.size + STATUS_LEN
    <2>1. T \in Nat /\ rx_frame.id \in 0..(MaxRx + MaxTx) /\ 0 \in Nat /\ 0 <= T /\ 0 <= T - 0
          /\ 0 + 0 = 0 /\ 0 <= 0
      BY <1>1, FrameNumbers
    <2>2. Transfer(rx_frame) = Piece(rx_frame.id, 0, T)
      BY <2>1, WholeIsPiece DEF Transfer
    <2> HIDE DEF T
    <2>3. Cut(Piece(rx_frame.id, 0, T), 0, 0) = Piece(rx_frame.id, 0 + 0, 0 + 0)
      BY <2>1, PieceIsCut
    <2>4. Piece(rx_frame.id, 0, 0) = <<>>
      BY <2>1, PieceIsEmpty
    <2> QED  BY <2>1, <2>2, <2>3, <2>4
  <1>5. urb \o <<>> = urb
    BY <1>1, ConcatEmptySeq
  <1>6. TakePacket(<<>>, size)
    <2>1. TakePacket(Cut(Transfer(rx_frame), rx_ptr, rx_ptr + Least(rx_total - rx_ptr, size)), size)
      BY DEF InPacket, Cut
    <2>2. rx_ptr + Least(rx_total - rx_ptr, size) = 0
      BY <1>1, <1>3
    <2> QED  BY <1>1, <1>4, <2>1, <2>2
  <1>7. urb' = <<>> /\ got' = IF urb = <<>> THEN got ELSE Append(got, urb)
    <2>1. Len(<<>>) < size
      BY <1>2
    <2> QED  BY <1>5, <1>6, <2>1 DEF TakePacket
  <1>8. Offer(queue) /\ ~rx_zlp'
    <2>1. rx_ptr + Least(rx_total - rx_ptr, size) >= rx_total
      BY <1>1, <1>3
    <2>2. OwesEmptyPacket(rx_total) = FALSE
      BY <1>1 DEF OwesEmptyPacket
    <2> QED  BY <2>1, <2>2 DEF InPacket, Flushes
  <1>9. ASSUME urb # <<>> PROVE Finished(urb)
    <2> DEFINE T == rx_frame.size + STATUS_LEN
    <2>1. T \in Nat /\ rx_frame.id \in 0..(MaxRx + MaxTx)
      BY <1>1, FrameNumbers
    <2>2. PICK s \in 0..T : urb = Piece(rx_frame.id, s, T)
                            /\ (s = 0 \/ rx_frame.id \in spoiled)
      BY <1>9 DEF Owing, UrbHolds
    <2> HIDE DEF T
    <2>3. s \in Nat /\ s <= T
      BY <2>1, <2>2
    <2>4. s # T
      BY <1>9, <2>1, <2>2, <2>3, PieceIsEmpty
    <2>5. s < T
      BY <2>1, <2>3, <2>4
    <2> QED  BY <2>2, <2>5 DEF Finished, T
  <1> QED  BY <1>7, <1>8, <1>9

\* One frame and its status word.
IsTransfer(w) == \E id \in Ids, n \in RxSizes : w = Transfer([id |-> id, size |-> n])

\* A completed URB is a whole transfer, or of a frame that a killed URB cut.
LEMMA FinishedUrb ==
    ASSUME NEW w, rx_frame \in Frame, Fits(rx_frame), Finished(w)
    PROVE  /\ Senders(w) \subseteq {rx_frame.id}
           /\ Senders(w) \subseteq spoiled \/ IsTransfer(w)
  <1> DEFINE T == rx_frame.size + STATUS_LEN
  <1>1. /\ T \in Nat /\ rx_frame.id \in 0..(MaxRx + MaxTx) /\ rx_frame.id \in Ids
        /\ rx_frame.size \in RxSizes
    BY FrameNumbers
  <1>2. PICK s \in 0..T : /\ s < T /\ w = Piece(rx_frame.id, s, T)
                          /\ s = 0 \/ rx_frame.id \in spoiled
    BY DEF Finished
  <1> HIDE DEF T
  <1>3. Senders(w) \subseteq {rx_frame.id}
    <2>1. s \in Nat /\ s <= T
      BY <1>1, <1>2
    <2>2. Senders(Piece(rx_frame.id, s, T)) = IF s = T THEN {} ELSE {rx_frame.id}
      BY <1>1, <2>1, SendersOfPiece
    <2> QED  BY <1>2, <2>2
  <1>4. CASE s = 0
    <2>1. w = Bytes(rx_frame.id, T)
      BY <1>1, <1>2, <1>4, WholeIsPiece
    <2>2. w = Transfer([id |-> rx_frame.id, size |-> rx_frame.size])
      BY <2>1 DEF Transfer, T
    <2> QED  BY <1>1, <1>3, <2>2 DEF IsTransfer
  <1>5. CASE s # 0
    BY <1>2, <1>3, <1>5
  <1> QED  BY <1>4, <1>5

\* Such a URB may join the completed ones.
LEMMA GotAppend ==
    ASSUME RxTypeOK, OneFramePerUrb, rx_frame \in Frame, Fits(rx_frame), spoiled' = spoiled,
           NEW w \in Seq(AllBytes), Finished(w), got' = Append(got, w)
    PROVE  got' \in Seq(Seq(AllBytes)) /\ OneFramePerUrb'
  <1>1. got \in Seq(Seq(AllBytes)) /\ Len(got) \in Nat /\ DOMAIN got = 1..Len(got)
    BY LenProperties DEF RxTypeOK
  <1>2. /\ got' \in Seq(Seq(AllBytes)) /\ DOMAIN got' = 1..(Len(got) + 1)
        /\ got'[Len(got) + 1] = w
    BY <1>1, AppendProperties, LenProperties
  <1>3. \A i \in 1..Len(got) : got'[i] = got[i]
    BY <1>1, AppendProperties
  <1>4. ASSUME NEW i \in DOMAIN got', ~(Senders(got'[i]) \subseteq spoiled')
        PROVE  IsTransfer(got'[i])
    <2>1. CASE i \in 1..Len(got)
      BY <1>1, <1>3, <1>4, <2>1 DEF OneFramePerUrb, IsTransfer
    <2>2. CASE i = Len(got) + 1
      <3>1. Senders(w) \subseteq spoiled \/ IsTransfer(w)
        BY FinishedUrb
      <3>2. got'[i] = w
        BY <1>2, <2>2
      <3>3. ~(Senders(w) \subseteq spoiled)
        BY <1>4, <3>2
      <3> QED  BY <3>1, <3>2, <3>3
    <2> QED  BY <1>1, <1>2, <2>1, <2>2
  <1> QED  BY <1>2, <1>4 DEF OneFramePerUrb, IsTransfer

\* A packet to the guest keeps the invariant.
LEMMA RxPacket == ASSUME RxInv, NEW size \in Asked(Room), InPacket(size) PROVE RxInv'
  <1>1. /\ config' /\ arrived' = arrived /\ spoiled' = spoiled /\ Busy
        /\ RxTypeOK /\ OneFramePerUrb /\ excused \subseteq Ids /\ queue \in Seq(Frame)
    BY DEF InPacket, RxInv, RxTypeOK
  <1>2. ASSUME Offer(queue), urb' = <<>>, ~rx_zlp',
               got' \in Seq(Seq(AllBytes)), OneFramePerUrb'
        PROVE  RxInv'
    <2>1. /\ queue' \in Seq(Frame) /\ receive_disabled' \in BOOLEAN
          /\ excused' \subseteq Ids /\ rx_frame' \in Frame \cup {NoFrame}
          /\ rx_total' \in 0..(MTU + STATUS_LEN) /\ rx_ptr' \in 0..rx_total'
          /\ Idle' \/ Sending'
      BY <1>1, <1>2, OfferStarts
    <2>2. rx_zlp' \in BOOLEAN /\ config' \in BOOLEAN
      BY <1>1 DEF InPacket, OwesEmptyPacket, RxTypeOK
    <2>3. urb' \in Seq(AllBytes) /\ Len(urb') < URB_LEN
      BY <1>2, SizeAssumption
    <2>4. RxTypeOK'
      BY <1>1, <1>2, <2>1, <2>2, <2>3 DEF RxTypeOK
    <2> QED  BY <1>2, <2>1, <2>4 DEF RxInv
  <1>3. ASSUME Sending' \/ Owing', Kept, urb' \in Seq(AllBytes), Len(urb') < URB_LEN,
               got' \in Seq(Seq(AllBytes)), OneFramePerUrb'
        PROVE  RxInv'
    <2>1. rx_total' \in 0..(MTU + STATUS_LEN) /\ rx_ptr' \in 0..rx_total'
      <3>1. CASE Sending'
        <4>1. rx_frame' \in Frame /\ Fits(rx_frame') /\ rx_ptr' \in Nat /\ rx_ptr' < rx_total'
              /\ rx_total' = rx_frame'.size + STATUS_LEN
          BY <3>1 DEF Sending, Fits
        <4>2. rx_total' \in Nat /\ rx_total' <= MTU + STATUS_LEN /\ MTU + STATUS_LEN \in Nat
          BY <4>1, FrameNumbers, SizeAssumption
        <4> QED  BY <4>1, <4>2
      <3>2. CASE Owing'
        <4>1. 0 \in 0..0 /\ 0 \in 0..(MTU + STATUS_LEN)
          BY SizeAssumption
        <4> QED  BY <3>2, <4>1 DEF Owing
      <3> QED  BY <1>3, <3>1, <3>2
    <2>2. rx_zlp' \in BOOLEAN /\ config' \in BOOLEAN
      BY <1>1, <1>3 DEF Sending, Owing, InPacket, OwesEmptyPacket, RxTypeOK
    <2>3. /\ rx_frame' = rx_frame /\ queue' = queue /\ excused' = excused
          /\ receive_disabled' = receive_disabled
      BY <1>3 DEF Kept
    <2>4. RxTypeOK'
      BY <1>1, <1>3, <2>1, <2>2, <2>3 DEF RxTypeOK
    <2> QED  BY <1>3, <2>4 DEF RxInv
  <1>4. CASE Sending
    <2>1. rx_frame \in Frame /\ Fits(rx_frame) /\ urb' \in Seq(AllBytes) /\ Len(urb') < URB_LEN
      BY <1>1, <1>4, RxDataPacket DEF Sending
    <2>2. got' = got => got' \in Seq(Seq(AllBytes)) /\ OneFramePerUrb'
      BY <1>1 DEF OneFramePerUrb, RxTypeOK
    <2>3. (\E w \in Seq(AllBytes) : Finished(w) /\ got' = Append(got, w))
              => got' \in Seq(Seq(AllBytes)) /\ OneFramePerUrb'
      BY <1>1, <2>1, GotAppend
    <2>4. got' \in Seq(Seq(AllBytes)) /\ OneFramePerUrb'
      BY <1>1, <1>4, <2>2, <2>3, RxDataPacket
    <2>5. \/ Sending' /\ Kept
          \/ Owing' /\ Kept
          \/ Offer(queue) /\ urb' = <<>> /\ ~rx_zlp'
      BY <1>1, <1>4, RxDataPacket
    <2> QED  BY <1>2, <1>3, <2>1, <2>4, <2>5
  <1>5. CASE Owing
    <2>1. /\ Offer(queue) /\ urb' = <<>> /\ ~rx_zlp'
          /\ got' = IF urb = <<>> THEN got ELSE Append(got, urb)
          /\ urb # <<>> => Finished(urb)
      BY <1>1, <1>5, RxEmptyPacket
    <2>2. rx_frame \in Frame /\ Fits(rx_frame) /\ urb \in Seq(AllBytes)
      BY <1>1, <1>5 DEF Owing, RxTypeOK
    <2>3. got' \in Seq(Seq(AllBytes)) /\ OneFramePerUrb'
      <3>1. CASE urb = <<>>
        BY <1>1, <2>1, <3>1 DEF OneFramePerUrb, RxTypeOK
      <3>2. CASE urb # <<>>
        BY <1>1, <2>1, <2>2, <3>2, GotAppend
      <3> QED  BY <3>1, <3>2
    <2> QED  BY <1>2, <2>1, <2>3
  <1>6. ~Idle
    BY <1>1 DEF Idle, Busy
  <1> QED  BY <1>4, <1>5, <1>6 DEF RxInv

\* A frame from the network keeps the invariant.
LEMMA RxArrive == ASSUME RxInv, NEW n \in RxSizes, Arrive(n) PROVE RxInv'
  <1> DEFINE f == [id |-> arrived + 1, size |-> n]
  <1>1. /\ RxTypeOK /\ OneFramePerUrb /\ queue \in Seq(Frame) /\ excused \subseteq Ids
        /\ arrived \in 0..MaxRx /\ MaxRx \in Nat
    BY SizeAssumption DEF RxInv, RxTypeOK
  <1>2. /\ arrived < MaxRx /\ arrived' = arrived + 1
        /\ UNCHANGED <<config, urb, got, spoiled>>
        /\ IF receive_disabled \/ ~CanReceive
             THEN /\ queue' = Append(queue, f)
                  /\ excused' = IF config THEN excused ELSE excused \cup {f.id}
                  /\ UNCHANGED <<rx_frame, rx_total, rx_ptr, rx_zlp, receive_disabled>>
             ELSE Offer(<<f>> \o queue) /\ UNCHANGED rx_zlp
    BY DEF Arrive, device
  <1>3. f \in Frame /\ f.id \in Ids /\ arrived' \in 0..MaxRx
    BY <1>1, <1>2 DEF Frame, Ids
  <1>4. OneFramePerUrb'
    BY <1>1, <1>2 DEF OneFramePerUrb
  <1> HIDE DEF f
  <1>5. CASE receive_disabled \/ ~CanReceive
    <2>1. queue' \in Seq(Frame) /\ excused' \subseteq Ids
      BY <1>1, <1>2, <1>3, <1>5
    <2>2. RxTypeOK'
      BY <1>1, <1>2, <1>3, <1>5, <2>1 DEF RxTypeOK
    <2>3. (Idle \/ Sending \/ Owing)'
      BY <1>2, <1>5 DEF RxInv, Idle, Sending, Owing, UrbHolds, Fits
    <2> QED  BY <1>4, <2>2, <2>3 DEF RxInv
  <1>6. CASE ~(receive_disabled \/ ~CanReceive)
    <2>1. config /\ Idle
      BY <1>6 DEF CanReceive, Busy, RxInv, Sending, Owing
    <2>2. <<f>> \o queue \in Seq(Frame)
      BY <1>1, <1>3
    <2>3. Offer(<<f>> \o queue) /\ urb' = <<>> /\ ~rx_zlp' /\ config'
      BY <1>2, <1>6, <2>1 DEF Idle
    <2>4. /\ queue' \in Seq(Frame) /\ receive_disabled' \in BOOLEAN
          /\ excused' \subseteq Ids /\ rx_frame' \in Frame \cup {NoFrame}
          /\ rx_total' \in 0..(MTU + STATUS_LEN) /\ rx_ptr' \in 0..rx_total'
          /\ Idle' \/ Sending'
      BY <1>1, <2>2, <2>3, OfferStarts
    <2>5. rx_zlp' \in BOOLEAN
      BY <1>1, <1>2, <1>6 DEF RxTypeOK
    <2>6. RxTypeOK'
      BY <1>1, <1>2, <1>3, <2>4, <2>5 DEF RxTypeOK
    <2> QED  BY <1>4, <2>4, <2>6 DEF RxInv
  <1> QED  BY <1>5, <1>6

\* The frame in the URB is the one in rx_buf.
LEMMA UrbSenders ==
    ASSUME RxInv
    PROVE  /\ Senders(urb) \subseteq {rx_frame.id}
           /\ urb # <<>> => /\ Senders(urb) = {rx_frame.id}
                            /\ rx_frame \in Frame /\ Fits(rx_frame)
  <1>1. urb = <<>> => Senders(urb) = {}
    BY DEF Senders
  <1>2. ASSUME NEW e \in Nat, rx_frame \in Frame, Fits(rx_frame), UrbHolds(e)
        PROVE  /\ Senders(urb) \subseteq {rx_frame.id}
               /\ urb # <<>> => Senders(urb) = {rx_frame.id}
    <2>1. PICK s \in 0..e :
               /\ urb = Piece(rx_frame.id, s, e)
               /\ Senders(urb) = IF s = e THEN {} ELSE {rx_frame.id}
      BY <1>2, UrbIsPiece
    <2>2. rx_frame.id \in 0..(MaxRx + MaxTx) /\ s \in Nat /\ s <= e
      BY <1>2, <2>1, FrameNumbers
    <2>3. s = e => urb = <<>>
      BY <1>2, <2>1, <2>2, PieceIsEmpty
    <2> QED  BY <2>1, <2>3
  <1>3. CASE Idle
    BY <1>1, <1>3 DEF Idle
  <1>4. CASE Sending
    BY <1>2, <1>4 DEF Sending
  <1>5. CASE Owing
    <2>1. rx_frame \in Frame /\ Fits(rx_frame) /\ rx_frame.size + STATUS_LEN \in Nat
      BY <1>5, FrameNumbers DEF Owing
    <2> QED  BY <1>1, <1>2, <1>5, <2>1 DEF Owing
  <1> QED  BY <1>3, <1>4, <1>5 DEF RxInv

\* A killed URB spoils the frame it held.
LEMMA RxKill == ASSUME RxInv, KillRx PROVE RxInv'
  <1>1. /\ urb # <<>> /\ urb' = <<>> /\ spoiled' = spoiled \cup {rx_frame.id}
        /\ rx_frame \in Frame /\ rx_frame.id \in Ids /\ Fits(rx_frame)
        /\ UNCHANGED <<config, rx_frame, rx_total, rx_ptr, rx_zlp, queue, receive_disabled,
                       arrived, got, excused>>
    <2>1. Senders(urb) = {rx_frame.id} /\ rx_frame \in Frame /\ Fits(rx_frame)
      BY UrbSenders DEF KillRx
    <2> QED  BY <2>1, FrameNumbers DEF KillRx, device, net
  <1>2. RxTypeOK'
    <2>1. urb' \in Seq(AllBytes) /\ Len(urb') < URB_LEN
      BY <1>1, SizeAssumption
    <2> QED  BY <1>1, <2>1 DEF RxInv, RxTypeOK
  <1>3. OneFramePerUrb'
    BY <1>1 DEF RxInv, OneFramePerUrb
  <1>4. CASE Sending
    <2>1. rx_ptr \in 0..rx_ptr /\ Piece(rx_frame.id, rx_ptr, rx_ptr) = <<>>
      <3>1. rx_ptr \in Nat /\ rx_ptr <= rx_ptr /\ rx_frame.id \in 0..(MaxRx + MaxTx)
        BY <1>1, <1>4, FrameNumbers DEF Sending
      <3> QED  BY <3>1, PieceIsEmpty
    <2>2. UrbHolds(rx_ptr)'
      BY <1>1, <2>1 DEF UrbHolds
    <2>3. Sending'
      BY <1>1, <1>4, <2>2 DEF Sending, Fits
    <2> QED  BY <1>2, <1>3, <2>3 DEF RxInv
  <1>5. CASE Owing
    <2>1. Owing'
      BY <1>1, <1>5 DEF Owing, Fits
    <2> QED  BY <1>2, <1>3, <2>1 DEF RxInv
  <1>6. ~Idle
    BY <1>1 DEF Idle
  <1> QED  BY <1>4, <1>5, <1>6 DEF RxInv

\* A reset leaves the device idle.
LEMMA RxReset == ASSUME RxInv, HandleReset PROVE RxInv'
  <1>1. /\ rx_total' = 0 /\ rx_ptr' = 0 /\ rx_zlp' = FALSE /\ urb' = <<>>
        /\ excused' = excused \cup Waiting \cup InDevice
        /\ UNCHANGED <<rx_frame, config, queue, receive_disabled, arrived, got, spoiled>>
        /\ RxTypeOK /\ queue \in Seq(Frame) /\ excused \subseteq Ids
    BY DEF HandleReset, net, RxInv, RxTypeOK
  <1>2. Waiting \subseteq Ids
    <2>1. \A i \in DOMAIN queue : queue[i] \in Frame
      BY <1>1, ElementOfSeq, LenProperties
    <2> QED  BY <2>1 DEF Waiting, Frame, Ids
  <1>3. InDevice \subseteq Ids
    <2>1. Busy => rx_frame \in Frame
      BY DEF Busy, RxInv, Idle, Sending, Owing
    <2> QED  BY <2>1 DEF InDevice, Frame, Ids
  <1>4. RxTypeOK'
    <2>1. /\ urb' \in Seq(AllBytes) /\ Len(urb') < URB_LEN
          /\ rx_total' \in 0..(MTU + STATUS_LEN) /\ rx_ptr' \in 0..rx_total'
      BY <1>1, SizeAssumption
    <2> QED  BY <1>1, <1>2, <1>3, <2>1 DEF RxTypeOK
  <1>5. Idle'
    BY <1>1 DEF Idle
  <1>6. OneFramePerUrb'
    BY <1>1 DEF RxInv, OneFramePerUrb
  <1> QED  BY <1>4, <1>5, <1>6 DEF RxInv

LEMMA RxNext == RxInv /\ [Next]_vars => RxInv'
  <1> SUFFICES ASSUME RxInv, [Next]_vars PROVE RxInv'
    OBVIOUS
  <1>1. ASSUME UNCHANGED rx, config' = config \/ config' = TRUE PROVE RxInv'
    <2>1. UNCHANGED <<rx_frame, rx_total, rx_ptr, rx_zlp, queue, receive_disabled, arrived,
                      urb, got, spoiled, excused>>
      BY <1>1 DEF rx, device, net
    <2>2. RxTypeOK'
      BY <1>1, <2>1 DEF RxInv, RxTypeOK
    <2>3. (Idle \/ Sending \/ Owing)'
      BY <1>1, <2>1 DEF RxInv, Idle, Sending, Owing, UrbHolds, Fits
    <2>4. OneFramePerUrb'
      BY <2>1 DEF RxInv, OneFramePerUrb
    <2> QED  BY <2>2, <2>3, <2>4 DEF RxInv
  <1>2. CASE \E n \in RxSizes : Arrive(n)
    BY <1>2, RxArrive
  <1>3. CASE In
    BY <1>3, RxPacket DEF In
  <1>4. CASE \E n \in TxSizes : Submit(n)
    BY <1>1, <1>4 DEF Submit
  <1>5. CASE Out
    BY <1>1, <1>5 DEF Out, OutPacket
  <1>6. CASE KillRx
    BY <1>6, RxKill
  <1>7. CASE KillTx
    BY <1>1, <1>7 DEF KillTx
  <1>8. CASE Configure
    BY <1>1, <1>8 DEF Configure
  <1>9. CASE HandleReset
    BY <1>9, RxReset
  <1>10. CASE UNCHANGED vars
    BY <1>1, <1>10 DEF vars
  <1> QED  BY <1>2, <1>3, <1>4, <1>5, <1>6, <1>7, <1>8, <1>9, <1>10 DEF Next

\* The buffers keep their bounds: rx_ptr within the transfer, the transfer within
\* rx_buf, tx_ptr within tx_buf, and the URB within what the driver posted, for
\* packets of any size the host asks for (rtl8150_handle_data).
THEOREM TypeCorrect == Spec => []TypeOK
  <1>1. TxInv /\ RxInv => TypeOK
    BY DEF TxInv, RxInv, TxTypeOK, RxTypeOK, TypeOK
  <1> QED  BY TxInit, TxNext, RxInit, RxNext, <1>1, PTL DEF Spec

\* A completed URB that holds bytes of an uncut frame is that frame with its
\* status word and nothing else: the empty packet after a whole number of packets
\* keeps two transfers apart.
THEOREM UrbsHoldOneFrame == Spec => []OneFramePerUrb
  <1>1. RxInv => OneFramePerUrb
    BY DEF RxInv
  <1> QED  BY RxInit, RxNext, <1>1, PTL DEF Spec
------------------------------------------------------------------------------
(* The device and QEMU's queue are a FrameLink.  Every frame that came has  *)
(* reached the driver, waits, is in flight, or is loose; the frames that    *)
(* are not loose wait in order, behind the one in flight.                   *)

Loose == spoiled \cup excused

Reached == {Collected[i] : i \in DOMAIN Collected}

\* The frame that the driver may yet get from the device.
InFlight == IF rx_total # 0 \/ urb # <<>> THEN {rx_frame.id} ELSE {}

IdsOf(q) == {q[i].id : i \in DOMAIN q}

\* No frame twice, and only the frames of L out of order.
OrderedBut(q, L) ==
    \A i, j \in DOMAIN q :
        i < j => /\ q[i].id # q[j].id
                 /\ q[i].id < q[j].id \/ q[i].id \in L \/ q[j].id \in L

LinkInv ==
    /\ Loose \subseteq 1..arrived
    /\ Reached \subseteq 0..arrived
    /\ IdsOf(queue) \subseteq (1..arrived) \ Reached
    /\ Busy => rx_frame.id \in 1..arrived
    /\ InFlight \subseteq (1..arrived) \ (Reached \cup IdsOf(queue))
    /\ 1..arrived \subseteq Reached \cup Loose \cup IdsOf(queue) \cup InFlight
    /\ OrderedBut(queue, Loose)
    /\ \A id \in InFlight \ Loose, k \in IdsOf(queue) \ Loose : id < k
    /\ ~receive_disabled /\ ~Busy => IdsOf(queue) \subseteq Loose

\* A sequence with one value more is the sequence with that value behind it.
LEMMA OneMore ==
    ASSUME NEW S, NEW l \in Nat, NEW F \in [1..l -> S], NEW G \in [1..(l + 1) -> S],
           \A i \in 1..l : G[i] = F[i]
    PROVE  G = Append(F, G[l + 1])
  <1> DEFINE x == G[l + 1]
  <1>1. l + 1 \in Nat /\ 1..l \subseteq 1..(l + 1) /\ l + 1 \in 1..(l + 1)
    OBVIOUS
  <1>2. x \in S
    BY <1>1
  <1> HIDE DEF x
  <1>3. F \in Seq(S) /\ Len(F) = l
    OBVIOUS
  <1>4. G \in Seq(S) /\ Len(G) = l + 1
    BY <1>1
  <1>5. /\ Append(F, x) \in Seq(S) /\ Len(Append(F, x)) = l + 1
        /\ Append(F, x)[l + 1] = x
        /\ \A i \in 1..l : Append(F, x)[i] = F[i]
    BY <1>2, <1>3, AppendProperties
  <1>6. ASSUME NEW i \in 1..(l + 1) PROVE G[i] = Append(F, x)[i]
    <2>1. CASE i \in 1..l
      BY <1>5, <2>1
    <2>2. CASE i = l + 1
      BY <1>5, <2>2 DEF x
    <2> QED  BY <2>1, <2>2
  <1>7. G = Append(F, x)
    BY <1>4, <1>5, <1>6, SeqEqual
  <1> QED  BY <1>7 DEF x

\* What the driver makes of a completed URB: the frame if it is whole, or a scrap.
Delivery(w) == IF IsWhole(w) THEN w[1][1] ELSE 0

\* A completed URB more is one more delivery.
LEMMA CollectedGrows ==
    ASSUME RxTypeOK, NEW w \in Seq(AllBytes), got' = Append(got, w)
    PROVE  /\ Collected' = Append(Collected, Delivery(w))
           /\ Reached' = Reached \cup {Delivery(w)}
  <1> DEFINE l == Len(got)
             F == [i \in 1..l |-> Delivery(got[i])]
             G == [i \in 1..(l + 1) |-> Delivery(got'[i])]
  <1>1. got \in Seq(Seq(AllBytes)) /\ l \in Nat /\ DOMAIN got = 1..l
    BY LenProperties DEF RxTypeOK
  <1>2. /\ DOMAIN got' = 1..(l + 1) /\ got'[l + 1] = w
        /\ \A i \in 1..l : got'[i] = got[i]
    BY <1>1, AppendProperties, LenProperties
  <1>3. Collected = F /\ Collected' = G
    BY <1>1, <1>2 DEF Collected, Delivery
  <1>4. /\ \A i \in 1..l : F[i] = Delivery(got[i])
        /\ \A i \in 1..(l + 1) : G[i] = Delivery(got'[i])
        /\ DOMAIN F = 1..l /\ DOMAIN G = 1..(l + 1)
    OBVIOUS
  <1> DEFINE S == {G[i] : i \in 1..(l + 1)}
  <1>5. F \in [1..l -> S] /\ G \in [1..(l + 1) -> S]
    <2>1. \A i \in 1..l : i \in 1..(l + 1) /\ F[i] = G[i]
      BY <1>1, <1>2, <1>4
    <2> QED  BY <2>1
  <1> HIDE DEF F, G, l, S
  <1>6. 1..(l + 1) = 1..l \cup {l + 1} /\ l + 1 \in 1..(l + 1)
    BY <1>1
  <1>7. G[l + 1] = Delivery(w) /\ \A i \in 1..l : G[i] = F[i]
    BY <1>2, <1>4, <1>6
  <1>8. G = Append(F, G[l + 1])
    BY <1>1, <1>5, <1>7, OneMore
  <1>9. {G[i] : i \in 1..(l + 1)} = {F[i] : i \in 1..l} \cup {Delivery(w)}
    BY <1>6, <1>7
  <1>10. Reached = {F[i] : i \in 1..l} /\ Reached' = {G[i] : i \in 1..(l + 1)}
    BY <1>3, <1>4 DEF Reached
  <1> QED  BY <1>3, <1>7, <1>8, <1>9, <1>10

\* A completed URB is the frame, or a scrap of a frame that a killed URB cut.
LEMMA FinishedDelivery ==
    ASSUME rx_frame \in Frame, Fits(rx_frame), NEW w, Finished(w)
    PROVE  Delivery(w) = rx_frame.id \/ (Delivery(w) = 0 /\ rx_frame.id \in spoiled)
  <1> DEFINE T == rx_frame.size + STATUS_LEN
  <1>1. T \in Nat /\ rx_frame.size \in RxSizes
    BY FrameNumbers
  <1>2. PICK s \in 0..T : /\ s < T /\ w = Piece(rx_frame.id, s, T)
                          /\ s = 0 \/ rx_frame.id \in spoiled
    BY DEF Finished
  <1>3. w[1][1] = rx_frame.id
    <2>1. 1 \in 1..(T - s) /\ s \in Nat
      BY <1>1, <1>2
    <2> HIDE DEF T
    <2> QED  BY <1>2, <2>1 DEF Piece
  <1>4. s = 0 => IsWhole(w)
    <2>1. Piece(rx_frame.id, 0, T) = Bytes(rx_frame.id, T)
      BY <1>1, WholeIsPiece
    <2>2. s = 0 => w = Transfer([id |-> w[1][1], size |-> rx_frame.size])
      BY <1>2, <1>3, <2>1 DEF Transfer
    <2> QED  BY <1>1, <2>2 DEF IsWhole
  <1> QED  BY <1>2, <1>3, <1>4 DEF Delivery

\* What an offer does to the numbers of the frames.
LEMMA OfferOrders ==
    ASSUME NEW q \in Seq(Frame), Offer(q), OrderedBut(q, Loose), spoiled' = spoiled,
           urb' = <<>>, ~rx_zlp'
    PROVE  /\ IdsOf(queue') \subseteq IdsOf(q) /\ InFlight' \subseteq IdsOf(q)
           /\ InFlight' \cap IdsOf(queue') = {}
           /\ Loose \subseteq Loose' /\ Loose' \subseteq Loose \cup IdsOf(q)
           /\ IdsOf(q) \subseteq Loose' \cup IdsOf(queue') \cup InFlight'
           /\ OrderedBut(queue', Loose')
           /\ \A id \in InFlight' \ Loose', k \in IdsOf(queue') \ Loose' : id < k
           /\ ~receive_disabled' => IdsOf(queue') = {}
           /\ Busy' => rx_frame'.id \in IdsOf(q)
  <1> DEFINE l == Len(q)
  <1>1. PICK k \in 0..l :
               /\ queue' = Cut(q, k, l)
               /\ receive_disabled' = (queue' # <<>>)
               /\ excused' = excused \cup {q[i].id : i \in {j \in 1..k : ~Fits(q[j])}}
               /\ \/ /\ k = l /\ \A j \in 1..k : ~Fits(q[j])
                     /\ rx_frame' = NoFrame /\ rx_total' = 0 /\ rx_ptr' = 0
                  \/ /\ k \in DOMAIN q /\ Fits(q[k])
                     /\ \A j \in 1..k : j # k => ~Fits(q[j])
                     /\ rx_frame' = q[k] /\ rx_ptr' = 0
                     /\ rx_total' = q[k].size + STATUS_LEN
    BY OfferTakes
  <1>2. l \in Nat /\ DOMAIN q = 1..l /\ \A i \in 1..l : q[i] \in Frame
    BY LenProperties, ElementOfSeq
  <1> HIDE DEF l
  <1>3. k \in Nat /\ k <= l
    BY <1>1, <1>2
  <1>4. /\ Len(queue') = l - k /\ DOMAIN queue' = 1..(l - k) /\ queue' \in Seq(Frame)
        /\ \A i \in 1..(l - k) : k + i \in 1..l /\ queue'[i] = q[k + i]
    <2>1. \A i \in (k + 1)..l : q[i] \in Frame
      BY <1>2, <1>3
    <2>2. k + 1 \in Int /\ l \in Int /\ queue' = SubSeq(q, k + 1, l)
      BY <1>1, <1>2, <1>3 DEF Cut
    <2>3. /\ queue' \in Seq(Frame)
          /\ Len(queue') = IF k + 1 <= l THEN l - (k + 1) + 1 ELSE 0
          /\ \A i \in 1..(l - (k + 1) + 1) : queue'[i] = q[(k + 1) + i - 1]
      BY <2>1, <2>2, SubSeqProperties
    <2>4. l - (k + 1) + 1 = l - k /\ \A i \in 1..(l - k) : (k + 1) + i - 1 = k + i
      BY <1>2, <1>3
    <2>5. Len(queue') = l - k
      BY <1>2, <1>3, <2>3
    <2> QED  BY <1>2, <1>3, <2>3, <2>4, <2>5, LenProperties
  <1>5. IdsOf(queue') = {q[j].id : j \in (k + 1)..l}
    <2>1. ASSUME NEW j \in (k + 1)..l PROVE q[j].id \in IdsOf(queue')
      <3>1. j - k \in 1..(l - k) /\ k + (j - k) = j
        BY <1>2, <1>3
      <3> QED  BY <1>4, <3>1 DEF IdsOf
    <2>2. ASSUME NEW i \in 1..(l - k) PROVE queue'[i].id \in {q[j].id : j \in (k + 1)..l}
      <3>1. k + i \in (k + 1)..l
        BY <1>2, <1>3
      <3> QED  BY <1>4, <3>1
    <2> QED  BY <1>4, <2>1, <2>2 DEF IdsOf
  <1>6. IdsOf(q) = {q[j].id : j \in 1..l}
    BY <1>2 DEF IdsOf
  <1>7. (k + 1)..l \subseteq 1..l /\ 1..k \subseteq 1..l /\ 1..l = 1..k \cup (k + 1)..l
    BY <1>2, <1>3
  <1>8. IdsOf(queue') \subseteq IdsOf(q)
    BY <1>5, <1>6, <1>7
  <1>9. /\ Loose \subseteq Loose' /\ Loose' \subseteq Loose \cup IdsOf(q)
        /\ \A j \in 1..k : ~Fits(q[j]) => q[j].id \in Loose'
    BY <1>1, <1>6, <1>7 DEF Loose
  <1>10. /\ Busy' <=> rx_total' # 0
         /\ InFlight' = IF rx_total' # 0 THEN {rx_frame'.id} ELSE {}
    BY DEF Busy, InFlight
  <1>11. \/ /\ k = l /\ \A j \in 1..k : ~Fits(q[j])
            /\ InFlight' = {} /\ ~Busy'
         \/ /\ k \in 1..l /\ \A j \in 1..k : j # k => ~Fits(q[j])
            /\ InFlight' = {q[k].id} /\ Busy' /\ rx_frame' = q[k]
    <2>1. k \in 1..l /\ Fits(q[k]) => q[k].size + STATUS_LEN # 0
      BY <1>2, FrameNumbers
    <2> QED  BY <1>1, <1>2, <1>10, <2>1
  <1>12. /\ InFlight' \subseteq IdsOf(q)
         /\ Busy' => rx_frame'.id \in IdsOf(q)
    BY <1>6, <1>11
  <1>13. \A i, j \in 1..l :
             i < j => /\ q[i].id # q[j].id
                      /\ q[i].id < q[j].id \/ q[i].id \in Loose \/ q[j].id \in Loose
    BY <1>2 DEF OrderedBut
  <1>14. \A id \in InFlight', n \in IdsOf(queue') :
             id # n /\ (id < n \/ id \in Loose' \/ n \in Loose')
    <2> SUFFICES ASSUME k \in 1..l, NEW j \in (k + 1)..l
                 PROVE  /\ q[k].id # q[j].id
                        /\ q[k].id < q[j].id \/ q[k].id \in Loose' \/ q[j].id \in Loose'
      BY <1>5, <1>11
    <2>1. k < j /\ j \in 1..l
      BY <1>2, <1>3
    <2> QED  BY <1>9, <1>13, <2>1
  <1>15. IdsOf(q) \subseteq Loose' \cup IdsOf(queue') \cup InFlight'
    <2> SUFFICES ASSUME NEW j \in 1..l
                 PROVE  q[j].id \in Loose' \cup IdsOf(queue') \cup InFlight'
      BY <1>6
    <2>1. CASE j \in (k + 1)..l
      BY <1>5, <2>1
    <2>2. CASE j \in 1..k
      BY <1>9, <1>11, <2>2
    <2> QED  BY <1>7, <2>1, <2>2
  <1>16. OrderedBut(queue', Loose')
    <2> SUFFICES ASSUME NEW i \in 1..(l - k), NEW j \in 1..(l - k), i < j
                 PROVE  /\ queue'[i].id # queue'[j].id
                        /\ \/ queue'[i].id < queue'[j].id
                           \/ queue'[i].id \in Loose' \/ queue'[j].id \in Loose'
      BY <1>4 DEF OrderedBut
    <2>1. k + i \in 1..l /\ k + j \in 1..l /\ k + i < k + j
      BY <1>3, <1>4
    <2> QED  BY <1>4, <1>9, <1>13, <2>1
  <1>17. ~receive_disabled' => IdsOf(queue') = {}
    <2>1. ~receive_disabled' => queue' = <<>>
      BY <1>1, Zenon
    <2>2. IdsOf(<<>>) = {}
      BY DEF IdsOf
    <2> QED  BY <2>1, <2>2
  <1> QED  BY <1>8, <1>9, <1>12, <1>14, <1>15, <1>16, <1>17

LEMMA LinkInit == Init => LinkInv /\ Link!Init
  <1> SUFFICES ASSUME Init PROVE LinkInv /\ Link!Init
    OBVIOUS
  <1>1. /\ rx_total = 0 /\ ~rx_zlp /\ urb = <<>> /\ queue = <<>> /\ arrived = 0 /\ got = <<>>
        /\ spoiled = {} /\ excused = {}
    BY DEF Init
  <1>2. Collected = <<>>
    <2>1. DOMAIN got = {}
      BY <1>1
    <2> QED  BY <2>1 DEF Collected
  <1>3. Reached = {} /\ Loose = {} /\ InFlight = {} /\ ~Busy
    BY <1>1, <1>2 DEF Reached, Loose, InFlight, Busy
  <1>4. IdsOf(queue) = {} /\ OrderedBut(queue, Loose)
    BY <1>1 DEF IdsOf, OrderedBut
  <1>5. 1..arrived = {}
    BY <1>1
  <1> QED  BY <1>1, <1>2, <1>3, <1>4, <1>5 DEF LinkInv, Link!Init, Loose

\* What an offer after a packet does.
LEMMA LinkOffer ==
    ASSUME RxTypeOK, LinkInv, Offer(queue), urb' = <<>>, ~rx_zlp',
           spoiled' = spoiled, arrived' = arrived,
           Reached \subseteq Reached', Reached' \subseteq Reached \cup InFlight \cup {0},
           InFlight \subseteq Reached' \cup Loose
    PROVE  LinkInv' /\ Loose \subseteq Loose'
  <1>1. /\ queue \in Seq(Frame) /\ OrderedBut(queue, Loose) /\ arrived \in Nat
    BY DEF RxTypeOK, LinkInv
  <1>2. /\ IdsOf(queue') \subseteq IdsOf(queue) /\ InFlight' \subseteq IdsOf(queue)
        /\ InFlight' \cap IdsOf(queue') = {}
        /\ Loose \subseteq Loose' /\ Loose' \subseteq Loose \cup IdsOf(queue)
        /\ IdsOf(queue) \subseteq Loose' \cup IdsOf(queue') \cup InFlight'
        /\ OrderedBut(queue', Loose')
        /\ \A id \in InFlight' \ Loose', k \in IdsOf(queue') \ Loose' : id < k
        /\ ~receive_disabled' => IdsOf(queue') = {}
        /\ Busy' => rx_frame'.id \in IdsOf(queue)
    BY <1>1, OfferOrders
  <1>3. /\ Loose \subseteq 1..arrived /\ Reached \subseteq 0..arrived
        /\ IdsOf(queue) \subseteq (1..arrived) \ Reached
        /\ InFlight \subseteq (1..arrived) \ (Reached \cup IdsOf(queue))
        /\ 1..arrived \subseteq Reached \cup Loose \cup IdsOf(queue) \cup InFlight
    BY DEF LinkInv
  <1>4. 0 \notin 1..arrived /\ 0 \in 0..arrived /\ 1..arrived \subseteq 0..arrived
    BY <1>1
  <1>5. IdsOf(queue) \cap Reached' = {}
    BY <1>3, <1>4
  <1>6. Loose' \subseteq 1..arrived' /\ Reached' \subseteq 0..arrived'
    BY <1>2, <1>3, <1>4
  <1>7. /\ IdsOf(queue') \subseteq (1..arrived') \ Reached'
        /\ Busy' => rx_frame'.id \in 1..arrived'
        /\ InFlight' \subseteq (1..arrived') \ (Reached' \cup IdsOf(queue'))
    BY <1>2, <1>3, <1>5
  <1>8. 1..arrived' \subseteq Reached' \cup Loose' \cup IdsOf(queue') \cup InFlight'
    BY <1>2, <1>3
  <1> QED  BY <1>2, <1>6, <1>7, <1>8 DEF LinkInv

\* What a packet does that offers nothing.
LEMMA LinkKept ==
    ASSUME LinkInv, RxTypeOK, Kept, UNCHANGED <<spoiled, arrived>>, Busy, Busy',
           Reached \subseteq Reached', Reached' \subseteq Reached \cup InFlight \cup {0},
           InFlight' \subseteq InFlight \ Reached',
           InFlight \subseteq Reached' \cup Loose \cup InFlight'
    PROVE  LinkInv' /\ Loose' = Loose
  <1>1. /\ rx_frame' = rx_frame /\ queue' = queue /\ Loose' = Loose /\ arrived' = arrived
        /\ arrived \in Nat
    BY DEF Kept, Loose, RxTypeOK
  <1>2. 0 \notin 1..arrived /\ 0 \in 0..arrived /\ 1..arrived \subseteq 0..arrived
    BY <1>1
  <1>3. /\ Loose \subseteq 1..arrived /\ Reached \subseteq 0..arrived
        /\ IdsOf(queue) \subseteq (1..arrived) \ Reached
        /\ Busy => rx_frame.id \in 1..arrived
        /\ InFlight \subseteq (1..arrived) \ (Reached \cup IdsOf(queue))
        /\ 1..arrived \subseteq Reached \cup Loose \cup IdsOf(queue) \cup InFlight
        /\ OrderedBut(queue, Loose)
        /\ \A id \in InFlight \ Loose, k \in IdsOf(queue) \ Loose : id < k
    BY DEF LinkInv
  <1>4. Reached' \subseteq 0..arrived' /\ IdsOf(queue') \subseteq (1..arrived') \ Reached'
    BY <1>1, <1>2, <1>3
  <1>5. /\ InFlight' \subseteq (1..arrived') \ (Reached' \cup IdsOf(queue'))
        /\ 1..arrived' \subseteq Reached' \cup Loose' \cup IdsOf(queue') \cup InFlight'
    BY <1>1, <1>3
  <1>6. \A id \in InFlight' \ Loose', k \in IdsOf(queue') \ Loose' : id < k
    BY <1>1, <1>3
  <1> QED  BY <1>1, <1>3, <1>4, <1>5, <1>6 DEF LinkInv

\* A completed URB is a delivery of the link.
LEMMA LinkDelivers ==
    ASSUME LinkInv, RxTypeOK, rx_frame \in Frame, Fits(rx_frame),
           InFlight = {rx_frame.id}, NEW w \in Seq(AllBytes), Finished(w),
           got' = Append(got, w), arrived' = arrived,
           Loose \subseteq Loose', Loose' \subseteq 1..arrived'
    PROVE  Link!Next
  <1> DEFINE id == rx_frame.id
  <1>1. Collected' = Append(Collected, Delivery(w))
    BY CollectedGrows
  <1>2. Link!Loosen
    BY DEF Link!Loosen, Loose
  <1>3. CASE Delivery(w) = id
    <2>1. id \in 1..arrived /\ id \notin Reached /\ id \notin IdsOf(queue) /\ arrived \in Nat
      BY DEF LinkInv, RxTypeOK
    <2>2. ASSUME id \notin Loose, NEW m \in 1..(id - 1) PROVE m \in Reached \cup Loose
      <3>1. m \in 1..arrived /\ m < id /\ m # id /\ id \in Int /\ m \in Int
        BY <2>1
      <3>2. m \in Reached \cup Loose \cup IdsOf(queue)
        BY <3>1 DEF LinkInv
      <3>3. m \in IdsOf(queue) \ Loose => id < m
        BY <2>2 DEF LinkInv
      <3> QED  BY <3>1, <3>2, <3>3
    <2>3. Link!Got = Reached
      BY DEF Link!Got, Reached
    <2>4. Link!Deliver(id)
      <3>1. id \in Loose \/ 1..(id - 1) \subseteq Reached \cup Loose
        BY <2>2
      <3> QED  BY <1>1, <1>2, <1>3, <2>1, <2>3, <3>1 DEF Link!Deliver, Loose
    <2> QED  BY <2>1, <2>4 DEF Link!Next
  <1>4. CASE Delivery(w) = 0 /\ id \in spoiled
    <2>1. Link!DeliverScrap
      BY <1>1, <1>2, <1>4 DEF Link!DeliverScrap, Link!Scrap
    <2> QED  BY <2>1 DEF Link!Next
  <1> QED  BY <1>3, <1>4, FinishedDelivery

\* Nothing that the link knows of, but perhaps what is loose.
LEMMA LinkDisturbed ==
    ASSUME got' = got, arrived' = arrived, Loose \subseteq Loose', Loose' \subseteq 1..arrived'
    PROVE  Link!Next /\ Reached' = Reached
  <1>1. Collected' = Collected
    BY DEF Collected
  <1>2. Link!Disturb
    BY <1>1 DEF Link!Disturb, Link!Loosen, Loose
  <1> QED  BY <1>1, <1>2 DEF Link!Next, Reached

\* A packet to the guest.
LEMMA LinkPacket ==
    ASSUME RxInv, RxInv', LinkInv, NEW size \in Asked(Room), InPacket(size)
    PROVE  LinkInv' /\ Link!Next
  <1>1. /\ RxTypeOK /\ arrived' = arrived /\ spoiled' = spoiled /\ Busy
        /\ Loose \subseteq 1..arrived
    BY DEF InPacket, RxInv, LinkInv
  <1>2. ASSUME LinkInv', Loose \subseteq Loose' PROVE Loose' \subseteq 1..arrived'
    BY <1>2 DEF LinkInv
  <1>3. ASSUME NEW w \in Seq(AllBytes), Finished(w), got' = Append(got, w),
               rx_frame \in Frame, Fits(rx_frame), InFlight = {rx_frame.id}
        PROVE  /\ Reached \subseteq Reached' /\ Reached' \subseteq Reached \cup InFlight \cup {0}
               /\ InFlight \subseteq Reached' \cup Loose
    <2>1. Reached' = Reached \cup {Delivery(w)}
      BY <1>1, <1>3, CollectedGrows
    <2>2. Delivery(w) = rx_frame.id \/ (Delivery(w) = 0 /\ rx_frame.id \in spoiled)
      BY <1>3, FinishedDelivery
    <2> QED  BY <1>3, <2>1, <2>2 DEF Loose
  <1>4. CASE Sending
    <2>1. /\ rx_frame \in Frame /\ Fits(rx_frame) /\ InFlight = {rx_frame.id}
      <3>1. rx_total # 0
        BY <1>4, FrameNumbers DEF Sending
      <3> QED  BY <1>4, <3>1 DEF Sending, InFlight
    <2>2. CASE got' = got /\ Kept /\ (Sending' \/ (Owing' /\ urb' # <<>>))
      <3>1. Busy' /\ InFlight' = InFlight
        <4>1. Sending' => rx_total' # 0
          <5>1. Sending' => rx_total' > rx_ptr' /\ rx_ptr' \in Nat
            BY DEF Sending
          <5> QED  BY <5>1
        <4>2. rx_frame' = rx_frame
          BY <2>2 DEF Kept
        <4> QED  BY <2>1, <2>2, <4>1, <4>2 DEF Busy, InFlight, Owing
      <3>2. Reached' = Reached
        BY <2>2 DEF Reached, Collected
      <3>3. InFlight \cap Reached = {}
        BY DEF LinkInv
      <3>4. LinkInv' /\ Loose' = Loose
        BY <1>1, <2>2, <3>1, <3>2, <3>3, LinkKept
      <3>5. Link!Next
        BY <1>1, <2>2, <3>4, LinkDisturbed
      <3> QED  BY <3>4, <3>5
    <2>3. CASE /\ Owing' /\ urb' = <<>> /\ Kept
               /\ \E w \in Seq(AllBytes) : Finished(w) /\ got' = Append(got, w)
      <3>1. PICK w \in Seq(AllBytes) : Finished(w) /\ got' = Append(got, w)
        BY <2>3
      <3>2. InFlight' = {} /\ Busy'
        BY <2>3 DEF InFlight, Owing, Busy
      <3>3. /\ Reached \subseteq Reached' /\ Reached' \subseteq Reached \cup InFlight \cup {0}
            /\ InFlight \subseteq Reached' \cup Loose
        BY <1>3, <2>1, <3>1
      <3>4. LinkInv' /\ Loose' = Loose
        BY <1>1, <2>3, <3>2, <3>3, LinkKept
      <3>5. Link!Next
        BY <1>1, <1>2, <2>1, <3>1, <3>4, LinkDelivers
      <3> QED  BY <3>4, <3>5
    <2>4. CASE /\ Offer(queue) /\ urb' = <<>> /\ ~rx_zlp'
               /\ \E w \in Seq(AllBytes) : Finished(w) /\ got' = Append(got, w)
      <3>1. PICK w \in Seq(AllBytes) : Finished(w) /\ got' = Append(got, w)
        BY <2>4
      <3>2. /\ Reached \subseteq Reached' /\ Reached' \subseteq Reached \cup InFlight \cup {0}
            /\ InFlight \subseteq Reached' \cup Loose
        BY <1>3, <2>1, <3>1
      <3>3. LinkInv' /\ Loose \subseteq Loose'
        BY <1>1, <2>4, <3>2, LinkOffer
      <3>4. Link!Next
        BY <1>1, <1>2, <2>1, <3>1, <3>3, LinkDelivers
      <3> QED  BY <3>3, <3>4
    <2> QED  BY <1>1, <1>4, <2>2, <2>3, <2>4, RxDataPacket
  <1>5. CASE Owing
    <2>1. /\ Offer(queue) /\ urb' = <<>> /\ ~rx_zlp'
          /\ got' = IF urb = <<>> THEN got ELSE Append(got, urb)
          /\ urb # <<>> => Finished(urb)
      BY <1>1, <1>5, RxEmptyPacket
    <2>2. /\ rx_frame \in Frame /\ Fits(rx_frame) /\ urb \in Seq(AllBytes)
          /\ InFlight = IF urb = <<>> THEN {} ELSE {rx_frame.id}
      BY <1>1, <1>5 DEF Owing, InFlight, RxTypeOK
    <2>3. CASE urb = <<>>
      <3>1. Reached' = Reached
        BY <2>1, <2>3 DEF Reached, Collected
      <3>2. LinkInv' /\ Loose \subseteq Loose'
        BY <1>1, <2>1, <2>2, <2>3, <3>1, LinkOffer
      <3>3. Link!Next
        BY <1>1, <1>2, <2>1, <2>3, <3>2, LinkDisturbed
      <3> QED  BY <3>2, <3>3
    <2>4. CASE urb # <<>>
      <3>1. /\ Reached \subseteq Reached' /\ Reached' \subseteq Reached \cup InFlight \cup {0}
            /\ InFlight \subseteq Reached' \cup Loose
        BY <1>3, <2>1, <2>2, <2>4
      <3>2. LinkInv' /\ Loose \subseteq Loose'
        BY <1>1, <2>1, <3>1, LinkOffer
      <3>3. Link!Next
        BY <1>1, <1>2, <2>1, <2>2, <2>4, <3>2, LinkDelivers
      <3> QED  BY <3>2, <3>3
    <2> QED  BY <2>3, <2>4
  <1>6. ~Idle
    BY <1>1 DEF Idle, Busy
  <1> QED  BY <1>4, <1>5, <1>6 DEF RxInv

\* A frame from the network.
LEMMA LinkArrive ==
    ASSUME RxInv, LinkInv, NEW n \in RxSizes, Arrive(n)
    PROVE  LinkInv' /\ Link!Next
  <1> DEFINE f == [id |-> arrived + 1, size |-> n]
  <1>1. /\ RxTypeOK /\ queue \in Seq(Frame) /\ arrived \in Nat /\ arrived < MaxRx
        /\ arrived' = arrived + 1 /\ MaxRx \in Nat
        /\ UNCHANGED <<config, urb, got, spoiled>>
        /\ IF receive_disabled \/ ~CanReceive
             THEN /\ queue' = Append(queue, f)
                  /\ excused' = IF config THEN excused ELSE excused \cup {f.id}
                  /\ UNCHANGED <<rx_frame, rx_total, rx_ptr, rx_zlp, receive_disabled>>
             ELSE Offer(<<f>> \o queue) /\ UNCHANGED rx_zlp
    BY SizeAssumption DEF Arrive, device, RxInv, RxTypeOK
  <1>2. /\ f \in Frame /\ f.id = arrived + 1
        /\ 1..arrived' = 1..arrived \cup {f.id} /\ f.id \notin 0..arrived
        /\ 0..arrived \subseteq 0..arrived' /\ 1..arrived \subseteq 0..arrived
    BY <1>1 DEF Frame
  <1> HIDE DEF f
  <1>3. Collected' = Collected /\ Reached' = Reached
    BY <1>1 DEF Collected, Reached
  <1>4. ASSUME Loose \subseteq Loose', Loose' \subseteq 1..arrived' PROVE Link!Next
    <2>1. Link!Send
      BY <1>1, <1>3, <1>4 DEF Link!Send, Link!Loosen, Loose
    <2> QED  BY <2>1 DEF Link!Next
  <1>5. /\ Loose \subseteq 1..arrived /\ Reached \subseteq 0..arrived
        /\ IdsOf(queue) \subseteq (1..arrived) \ Reached
        /\ Busy => rx_frame.id \in 1..arrived
        /\ InFlight \subseteq (1..arrived) \ (Reached \cup IdsOf(queue))
        /\ 1..arrived \subseteq Reached \cup Loose \cup IdsOf(queue) \cup InFlight
        /\ OrderedBut(queue, Loose)
        /\ \A id \in InFlight \ Loose, k \in IdsOf(queue) \ Loose : id < k
        /\ ~receive_disabled /\ ~Busy => IdsOf(queue) \subseteq Loose
    BY DEF LinkInv
  <1>6. CASE receive_disabled \/ ~CanReceive
    <2> DEFINE l == Len(queue)
    <2>1. l \in Nat /\ DOMAIN queue = 1..l
      BY <1>1, LenProperties
    <2>2. /\ DOMAIN queue' = 1..(l + 1) /\ queue'[l + 1] = f
          /\ \A i \in 1..l : queue'[i] = queue[i]
      BY <1>1, <1>2, <1>6, <2>1, AppendProperties, LenProperties
    <2> HIDE DEF l
    <2>3. 1..(l + 1) = 1..l \cup {l + 1}
      BY <2>1
    <2>4. IdsOf(queue') = IdsOf(queue) \cup {f.id}
      BY <2>1, <2>2, <2>3 DEF IdsOf
    <2>5. /\ rx_frame' = rx_frame /\ Busy' = Busy /\ InFlight' = InFlight
          /\ receive_disabled' = receive_disabled
      BY <1>1, <1>6 DEF Busy, InFlight
    <2>6. /\ Loose \subseteq Loose' /\ Loose' \subseteq Loose \cup {f.id}
          /\ ~config => f.id \in Loose'
      BY <1>1, <1>6 DEF Loose
    <2>7. OrderedBut(queue', Loose')
      <3> SUFFICES ASSUME NEW i \in 1..(l + 1), NEW j \in 1..(l + 1), i < j
                   PROVE  /\ queue'[i].id # queue'[j].id
                          /\ \/ queue'[i].id < queue'[j].id
                             \/ queue'[i].id \in Loose' \/ queue'[j].id \in Loose'
        BY <2>2 DEF OrderedBut
      <3>1. i \in 1..l
        BY <2>1
      <3>2. CASE j \in 1..l
        BY <1>5, <2>1, <2>2, <2>6, <3>1, <3>2 DEF OrderedBut
      <3>3. CASE j = l + 1
        <4>1. queue[i].id \in 1..arrived
          BY <1>5, <2>1, <3>1 DEF IdsOf
        <4>2. queue[i].id < f.id
          BY <1>1, <1>2, <4>1
        <4>3. queue[i].id # f.id
          BY <1>2, <4>1
        <4> QED  BY <2>2, <3>1, <3>3, <4>2, <4>3
      <3> QED  BY <2>3, <3>2, <3>3
    <2>8. \A id \in InFlight' \ Loose', k \in IdsOf(queue') \ Loose' : id < k
      <3>1. \A id \in 1..arrived : id < f.id
        BY <1>1, <1>2
      <3> QED  BY <1>5, <2>4, <2>5, <2>6, <3>1
    <2>9. ~receive_disabled' /\ ~Busy' => IdsOf(queue') \subseteq Loose'
      BY <1>5, <1>6, <2>4, <2>5, <2>6 DEF CanReceive
    <2>10. Loose' \subseteq 1..arrived' /\ Reached' \subseteq 0..arrived'
      BY <1>2, <1>3, <1>5, <2>6
    <2>11. /\ IdsOf(queue') \subseteq (1..arrived') \ Reached'
           /\ Busy' => rx_frame'.id \in 1..arrived'
           /\ InFlight' \subseteq (1..arrived') \ (Reached' \cup IdsOf(queue'))
      BY <1>2, <1>3, <1>5, <2>4, <2>5
    <2>12. 1..arrived' \subseteq Reached' \cup Loose' \cup IdsOf(queue') \cup InFlight'
      BY <1>2, <1>3, <1>5, <2>4, <2>5, <2>6
    <2> QED  BY <1>4, <2>6, <2>7, <2>8, <2>9, <2>10, <2>11, <2>12 DEF LinkInv
  <1>7. CASE ~(receive_disabled \/ ~CanReceive)
    <2> DEFINE q == <<f>> \o queue
               l == Len(queue)
    <2>1. Idle /\ ~Busy /\ ~receive_disabled /\ InFlight = {}
      BY <1>7 DEF CanReceive, Busy, RxInv, Sending, Owing, Idle, InFlight
    <2>2. Offer(q) /\ urb' = <<>> /\ ~rx_zlp' /\ spoiled' = spoiled
      BY <1>1, <1>7, <2>1 DEF Idle
    <2>3. /\ q \in Seq(Frame) /\ l \in Nat /\ DOMAIN queue = 1..l /\ DOMAIN q = 1..(l + 1)
          /\ q[1] = f /\ \A i \in 1..(l + 1) : i # 1 => i - 1 \in 1..l /\ q[i] = queue[i - 1]
      <3>1. <<f>> \in Seq(Frame) /\ Len(<<f>>) = 1 /\ <<f>>[1] = f
        BY <1>2
      <3>2. l \in Nat /\ DOMAIN queue = 1..l
        BY <1>1, LenProperties
      <3>3. /\ q \in Seq(Frame) /\ Len(q) = 1 + l
            /\ \A i \in 1..(1 + l) : q[i] = IF i <= 1 THEN <<f>>[i] ELSE queue[i - 1]
        BY <1>1, <3>1, ConcatProperties
      <3>4. DOMAIN q = 1..(l + 1)
        BY <3>2, <3>3, LenProperties
      <3> HIDE DEF q, l
      <3>5. q[1] = f
        BY <3>1, <3>2, <3>3
      <3>6. \A i \in 1..(l + 1) : i # 1 => i - 1 \in 1..l /\ q[i] = queue[i - 1]
        BY <3>2, <3>3
      <3> QED  BY <3>2, <3>3, <3>4, <3>5, <3>6
    <2> HIDE DEF q, l
    <2>4. IdsOf(q) = IdsOf(queue) \cup {f.id}
      <3>1. \A i \in 1..l : i + 1 \in 1..(l + 1) /\ q[i + 1] = queue[i]
        <4>1. \A i \in 1..l : i + 1 \in 1..(l + 1) /\ i + 1 # 1 /\ (i + 1) - 1 = i
          BY <2>3
        <4> QED  BY <2>3, <4>1
      <3>2. 1 \in 1..(l + 1)
        BY <2>3
      <3>3. IdsOf(q) = {q[i].id : i \in 1..(l + 1)} /\ IdsOf(queue) = {queue[i].id : i \in 1..l}
        BY <2>3 DEF IdsOf
      <3>4. ASSUME NEW i \in 1..(l + 1) PROVE q[i].id \in IdsOf(queue) \cup {f.id}
        BY <2>3, <3>3
      <3>5. ASSUME NEW i \in 1..l PROVE queue[i].id \in IdsOf(q)
        BY <3>1, <3>3
      <3>6. f.id \in IdsOf(q)
        BY <2>3, <3>2, <3>3
      <3> QED  BY <3>3, <3>4, <3>5, <3>6
    <2>5. OrderedBut(q, Loose)
      <3> SUFFICES ASSUME NEW i \in 1..(l + 1), NEW j \in 1..(l + 1), i < j
                   PROVE  /\ q[i].id # q[j].id
                          /\ q[i].id < q[j].id \/ q[i].id \in Loose \/ q[j].id \in Loose
        BY <2>3 DEF OrderedBut
      <3>1. j # 1 /\ j - 1 \in 1..l /\ q[j] = queue[j - 1] /\ q[j].id \in IdsOf(queue)
        <4>1. j # 1
          BY <2>3
        <4> QED  BY <2>3, <4>1 DEF IdsOf
      <3>2. CASE i = 1
        BY <1>2, <1>5, <2>1, <2>3, <3>1, <3>2
      <3>3. CASE i # 1
        <4>1. i - 1 \in 1..l /\ q[i] = queue[i - 1] /\ i - 1 < j - 1
          BY <2>3, <3>3
        <4> QED  BY <1>5, <2>3, <3>1, <4>1 DEF OrderedBut
      <3> QED  BY <3>2, <3>3
    <2>6. /\ IdsOf(queue') \subseteq IdsOf(q) /\ InFlight' \subseteq IdsOf(q)
          /\ InFlight' \cap IdsOf(queue') = {}
          /\ Loose \subseteq Loose' /\ Loose' \subseteq Loose \cup IdsOf(q)
          /\ IdsOf(q) \subseteq Loose' \cup IdsOf(queue') \cup InFlight'
          /\ OrderedBut(queue', Loose')
          /\ \A id \in InFlight' \ Loose', k \in IdsOf(queue') \ Loose' : id < k
          /\ ~receive_disabled' => IdsOf(queue') = {}
          /\ Busy' => rx_frame'.id \in IdsOf(q)
      BY <2>2, <2>3, <2>5, OfferOrders
    <2>7. IdsOf(q) \subseteq (1..arrived') \ Reached
      BY <1>2, <1>5, <2>4
    <2>8. Loose' \subseteq 1..arrived' /\ Reached' \subseteq 0..arrived'
      BY <1>2, <1>3, <1>5, <2>6, <2>7
    <2>9. /\ IdsOf(queue') \subseteq (1..arrived') \ Reached'
          /\ Busy' => rx_frame'.id \in 1..arrived'
          /\ InFlight' \subseteq (1..arrived') \ (Reached' \cup IdsOf(queue'))
      BY <1>3, <2>6, <2>7
    <2>10. 1..arrived' \subseteq Reached' \cup Loose' \cup IdsOf(queue') \cup InFlight'
      BY <1>2, <1>3, <1>5, <2>1, <2>4, <2>6
    <2> QED  BY <1>4, <2>6, <2>8, <2>9, <2>10 DEF LinkInv
  <1> QED  BY <1>6, <1>7

\* A killed URB: the frame it held is loose.
LEMMA LinkKill == ASSUME RxInv, LinkInv, KillRx PROVE LinkInv' /\ Link!Next
  <1>1. /\ urb # <<>> /\ urb' = <<>> /\ spoiled' = spoiled \cup {rx_frame.id}
        /\ UNCHANGED <<rx_frame, rx_total, rx_ptr, rx_zlp, queue, receive_disabled,
                       arrived, got, excused>>
    BY UrbSenders DEF KillRx, device, net
  <1>2. /\ Loose' = Loose \cup InFlight /\ InFlight = {rx_frame.id}
        /\ InFlight' \subseteq InFlight /\ Busy' = Busy
    BY <1>1 DEF Loose, InFlight, Busy
  <1>3. Loose \subseteq Loose' /\ Loose' \subseteq 1..arrived'
    BY <1>1, <1>2 DEF LinkInv
  <1>4. Link!Next /\ Reached' = Reached
    BY <1>1, <1>3, LinkDisturbed
  <1>5. OrderedBut(queue', Loose')
    BY <1>1, <1>2 DEF LinkInv, OrderedBut
  <1>6. LinkInv'
    BY <1>1, <1>2, <1>3, <1>4, <1>5 DEF LinkInv
  <1> QED  BY <1>4, <1>6

\* A reset: the frames that it finds are loose.
LEMMA LinkReset == ASSUME RxInv, LinkInv, HandleReset PROVE LinkInv' /\ Link!Next
  <1>1. /\ rx_total' = 0 /\ rx_zlp' = FALSE /\ urb' = <<>>
        /\ excused' = excused \cup IdsOf(queue) \cup InDevice
        /\ UNCHANGED <<rx_frame, queue, receive_disabled, arrived, got, spoiled>>
    BY DEF HandleReset, net, Waiting, IdsOf
  <1>2. InFlight' = {} /\ ~Busy'
    BY <1>1 DEF InFlight, Busy
  <1>3. InFlight \subseteq InDevice /\ InDevice \subseteq 1..arrived
    BY DEF InFlight, InDevice, Busy, RxInv, Idle, Sending, Owing, LinkInv
  <1>4. Loose' = Loose \cup IdsOf(queue) \cup InDevice
    BY <1>1 DEF Loose
  <1>5. Loose \subseteq Loose' /\ Loose' \subseteq 1..arrived'
    BY <1>1, <1>3, <1>4 DEF LinkInv
  <1>6. Link!Next /\ Reached' = Reached
    BY <1>1, <1>5, LinkDisturbed
  <1>7. OrderedBut(queue', Loose')
    BY <1>1, <1>4 DEF LinkInv, OrderedBut
  <1>8. LinkInv'
    BY <1>1, <1>2, <1>3, <1>4, <1>5, <1>6, <1>7 DEF LinkInv
  <1> QED  BY <1>6, <1>8

LEMMA LinkNext ==
    RxInv /\ RxInv' /\ LinkInv /\ [Next]_vars => LinkInv' /\ [Link!Next]_(Link!vars)
  <1> SUFFICES ASSUME RxInv, RxInv', LinkInv, [Next]_vars
               PROVE  LinkInv' /\ [Link!Next]_(Link!vars)
    OBVIOUS
  <1>1. ASSUME UNCHANGED rx PROVE LinkInv' /\ UNCHANGED Link!vars
    <2>1. UNCHANGED <<rx_frame, rx_total, rx_ptr, rx_zlp, queue, receive_disabled, arrived,
                      urb, got, spoiled, excused>>
      BY <1>1 DEF rx, device, net
    <2>2. /\ Collected' = Collected /\ Loose' = Loose /\ InFlight' = InFlight
          /\ Busy' = Busy /\ Reached' = Reached
      BY <2>1 DEF Collected, Loose, InFlight, Busy, Reached
    <2>3. LinkInv'
      BY <2>1, <2>2 DEF LinkInv
    <2> QED  BY <2>1, <2>2, <2>3 DEF Link!vars, Loose
  <1>2. CASE \E n \in RxSizes : Arrive(n)
    BY <1>2, LinkArrive
  <1>3. CASE In
    BY <1>3, LinkPacket DEF In
  <1>4. CASE \E n \in TxSizes : Submit(n)
    BY <1>1, <1>4 DEF Submit
  <1>5. CASE Out
    BY <1>1, <1>5 DEF Out, OutPacket
  <1>6. CASE KillRx
    BY <1>6, LinkKill
  <1>7. CASE KillTx
    BY <1>1, <1>7 DEF KillTx
  <1>8. CASE Configure
    BY <1>1, <1>8 DEF Configure
  <1>9. CASE HandleReset
    BY <1>9, LinkReset
  <1>10. CASE UNCHANGED vars
    BY <1>1, <1>10 DEF vars
  <1> QED  BY <1>2, <1>3, <1>4, <1>5, <1>6, <1>7, <1>8, <1>9, <1>10 DEF Next

\* The device and QEMU's queue are a FrameLink, for any number of frames of any
\* size, and packets, URBs and bursts of any size: every frame reaches the driver at
\* most once, and only after every frame before it, but the frames that were too
\* long or that a kill, a reset or the configuration touched.
THEOREM FramesComeInOrder == Spec => ImplementsLink
  <1>1. Init => RxInv /\ LinkInv /\ Link!Init
    BY RxInit, LinkInit
  <1> QED  BY RxNext, LinkNext, <1>1, PTL DEF Spec, ImplementsLink, Link!Spec
==============================================================================
