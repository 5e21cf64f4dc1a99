----------------------------- MODULE WireProofs -----------------------------
(***************************************************************************)
(* Proofs about a connection, byte by byte (Wire): what arrives is what    *)
(* was sent, availability is what was announced, blocks hold the bytes of  *)
(* the file and are the whole piece, for files, pieces and blocks of every *)
(* size.                                                                   *)
(*                                                                         *)
(* The first part is about the operators: numbers as bytes, messages as    *)
(* bytes, and what a reader makes of them.  The second is the inductive    *)
(* invariant.  Its heart is Streamed: the bytes of the remote are frames,  *)
(* one behind the other, and whoever still reads stands at the end of the  *)
(* last message handled, so that the next is read from its beginning.      *)
(***************************************************************************)
EXTENDS Wire, DataLemmas, SequenceTheorems, TLAPS

-----------------------------------------------------------------------------
(* Numbers and blocks *)

\* IntToBytes and the two ways to read its bytes, for the code and for the remote.
LEMMA NumberBytes ==
  ASSUME NEW n \in Numbers
  PROVE  /\ IntToBytes(n) \in Seq(0 .. 255)
         /\ IntToBytes(n) \in Seq(Int)
         /\ Len(IntToBytes(n)) = 4
         /\ \A k \in 1 .. 4 : IntToBytes(n)[k] \in 0 .. 255
         /\ BytesToInt(IntToBytes(n)) = n
         /\ BigEndian(IntToBytes(n)) = n
<1> DEFINE c == n \div 256
           b == c \div 256
           a == b \div 256
           s == <<a % 256, b % 256, c % 256, n % 256>>
<1>1. /\ n \in Nat /\ c \in Nat /\ b \in Nat /\ a \in 0 .. 63
      /\ n % 256 \in 0 .. 255 /\ n = c * 256 + (n % 256)
  BY DEF Numbers
<1> HIDE DEF a
<1>2. b = a * 256 + (b % 256) /\ b % 256 \in 0 .. 255
  BY <1>1 DEF a
<1> HIDE DEF b
<1>3. c = b * 256 + (c % 256) /\ c % 256 \in 0 .. 255
  BY <1>1 DEF b
<1> HIDE DEF c
<1>4. a % 256 = a
  BY <1>1
<1>5. IntToBytes(n) = s
  BY DEF IntToBytes, a, b, c
<1>6. /\ s \in Seq(0 .. 255) /\ s \in Seq(Int) /\ Len(s) = 4
      /\ s[1] = a /\ s[2] = b % 256 /\ s[3] = c % 256 /\ s[4] = n % 256
      /\ \A k \in 1 .. 4 : s[k] \in 0 .. 255
  BY <1>1, <1>2, <1>3, <1>4
<1>7. BytesToInt(s) = n /\ BigEndian(s) = n
  BY <1>1, <1>2, <1>3, <1>6 DEF BytesToInt, BigEndian
<1> QED
  BY <1>5, <1>6, <1>7

\* A number below 2^30 is read back as it was written: BytesToInt(IntToBytes(n)) is n.
THEOREM NumbersReadBack == \A n \in Numbers : BytesToInt(IntToBytes(n)) = n
BY NumberBytes

\* A block is not empty, begins in the piece, and is found again from its offset.
LEMMA BlockFacts ==
  ASSUME NEW b \in 0 .. BlockCount - 1
  PROVE  /\ BlockCount \in Nat
         /\ b \in Nat
         /\ Offset(b) \in 0 .. PieceLength - 1
         /\ Offset(b) \div BLOCK_SIZE = b
         /\ BlockLength(b) \in 1 .. PieceLength
<1> DEFINE d == BLOCK_SIZE
           q == (PieceLength + d - 1) \div d
<1>1. d \in Nat \ {0} /\ PieceLength \in Nat \ {0}
  BY LengthAssumption DEF Numbers
<1>2. q \in Nat /\ q * d <= PieceLength + d - 1
  BY <1>1, Division
<1>3. b \in Nat /\ b <= q - 1
  BY <1>2 DEF BlockCount
<1>4. b * d \in Nat /\ b * d <= (q - 1) * d
  BY <1>1, <1>2, <1>3
<1>5. (q - 1) * d = q * d - d
  BY <1>1, <1>2
<1>6. b * d \in 0 .. PieceLength - 1
  BY <1>1, <1>2, <1>4, <1>5
<1>7. (b * d) \div d = b
  BY <1>1, <1>3, Multiple
<1> QED
  BY <1>1, <1>2, <1>3, <1>6, <1>7 DEF BlockCount, Offset, BlockLength

-----------------------------------------------------------------------------
(* Bytes and messages *)

\* The message that answers a request for block b.
Answer(b) ==
  Says(PieceId, IntToBytes(Index) \o IntToBytes(Offset(b)) \o File(Offset(b), BlockLength(b)), {})

\* The bytes of that request.
Asks(b) ==
  MessageBytes(Request, IntToBytes(Index) \o IntToBytes(Offset(b)) \o IntToBytes(BlockLength(b)))

\* The Have message of piece i.
Tells(i) == Says(Have, IntToBytes(i), {i})

Blocks == 0 .. BlockCount - 1

\* All that the remote ever says.
Said ==
  BitFields \cup {Tells(i) : i \in Haves} \cup {Says(id, <<>>, {}) : id \in {Unchoke, KeepAlive}}
    \cup {Answer(b) : b \in Blocks}

\* The bytes of a file, as a sequence.
LEMMA FileFacts ==
  ASSUME NEW begin \in Nat, NEW n \in Nat
  PROVE  /\ File(begin, n) \in Seq(Int)
         /\ Len(File(begin, n)) = n
         /\ \A k \in 1 .. n : File(begin, n)[k] = (begin + k) % 256
<1>1. \A k \in 1 .. n : (begin + k) % 256 \in Int
  OBVIOUS
<1>2. File(begin, n) \in [1 .. n -> Int]
  BY <1>1 DEF File
<1> QED
  BY <1>2 DEF File

\* What is written as a number fits into its four bytes.
LEMMA SomeNumbers ==
  /\ \A i \in Pieces : i \in Numbers
  /\ \A b \in Blocks : Offset(b) \in Numbers /\ BlockLength(b) \in Numbers /\ BlockLength(b) + 9 \in Numbers
  /\ (NPieces + 7) \div 8 + 1 \in Numbers
<1>1. \A i \in Pieces : i \in Numbers
  BY NPiecesAssumption DEF Numbers, Pieces
<1>2. ASSUME NEW b \in Blocks
      PROVE  Offset(b) \in Numbers /\ BlockLength(b) \in Numbers /\ BlockLength(b) + 9 \in Numbers
  BY BlockFacts, LengthAssumption DEF Numbers, Blocks
<1>3. (NPieces + 7) \div 8 + 1 \in Numbers
  BY NPiecesAssumption DEF Numbers
<1> QED
  BY <1>1, <1>2, <1>3

\* Concatenation is handled by Zenon, which knows no arithmetic: elsewhere it is hidden.
LEMMA Concat ==
  ASSUME NEW u \in Seq(Int), NEW v \in Seq(Int)
  PROVE  /\ u \o v \in Seq(Int)
         /\ Len(u \o v) = Len(u) + Len(v)
         /\ \A k \in 1 .. Len(u) : (u \o v)[k] = u[k]
         /\ \A k \in 1 .. Len(v) : (u \o v)[Len(u) + k] = v[k]
<1> DEFINE w == u \o v
<1>1. /\ w \in Seq(Int)
      /\ Len(w) = Len(u) + Len(v)
      /\ \A i \in 1 .. Len(u) + Len(v) : w[i] = IF i <= Len(u) THEN u[i] ELSE v[i - Len(u)]
  BY ConcatProperties, Zenon
<1> HIDE DEF w
<1>2. Len(u) \in Nat /\ Len(v) \in Nat
  OBVIOUS
<1>3. \A k \in 1 .. Len(u) : w[k] = u[k]
  BY <1>1, <1>2
<1>4. ASSUME NEW k \in 1 .. Len(v)
      PROVE  w[Len(u) + k] = v[k]
  <2> DEFINE i == Len(u) + k
  <2>1. i \in 1 .. Len(u) + Len(v) /\ ~(i <= Len(u)) /\ i - Len(u) = k
    BY <1>2
  <2> HIDE DEF i
  <2>2. w[i] = v[k]
    BY <1>1, <2>1
  <2> QED
    BY <2>2 DEF i
<1> QED
  BY <1>1, <1>3, <1>4 DEF w

\* A part of a sequence has the elements of the sequence;
LEMMA SubSeqAt ==
  ASSUME NEW s \in Seq(Int), NEW n \in Nat, NEW len \in Nat, n + len <= Len(s),
         NEW d, d = SubSeq(s, n + 1, n + len)
  PROVE  d \in Seq(Int) /\ Len(d) = len /\ \A k \in 1 .. len : d[k] = s[n + k]
<1> DEFINE a == n + 1
           b == n + len
<1>1. a \in Int /\ b \in Int /\ b - a + 1 = len /\ (IF a <= b THEN b - a + 1 ELSE 0) = len
  OBVIOUS
<1>2. \A i \in a .. b : s[i] \in Int
  OBVIOUS
<1>3. \A k \in 1 .. len : a + k - 1 = n + k
  OBVIOUS
<1> HIDE DEF a, b
<1>4. /\ SubSeq(s, a, b) \in Seq(Int)
      /\ Len(SubSeq(s, a, b)) = IF a <= b THEN b - a + 1 ELSE 0
      /\ \A k \in 1 .. b - a + 1 : SubSeq(s, a, b)[k] = s[a + k - 1]
  BY <1>1, <1>2, SubSeqProperties, SMTT(30)
<1>5. d = SubSeq(s, a, b)
  BY DEF a, b
<1>6. d \in Seq(Int) /\ Len(d) = len /\ \A k \in 1 .. len : d[k] = s[a + k - 1]
  BY <1>1, <1>4, <1>5, Zenon
<1> QED
  BY <1>3, <1>6

\* and is what has the same ones.
LEMMA SubSeqIs ==
  ASSUME NEW t \in Seq(Int), NEW s \in Seq(Int), NEW m \in Nat, NEW n \in Nat,
         n = m + Len(s), n <= Len(t), \A k \in 1 .. Len(s) : t[m + k] = s[k]
  PROVE  SubSeq(t, m + 1, n) = s
BY PartIs, Zenon

\* Two numbers and a string, one behind the other.
AreFields(t, m, n, s) ==
  /\ t \in Seq(Int)
  /\ Len(t) = 8 + Len(s)
  /\ \A k \in 1 .. 4 : t[k] = IntToBytes(m)[k] /\ t[4 + k] = IntToBytes(n)[k]
  /\ \A k \in 1 .. Len(s) : t[8 + k] = s[k]
  /\ SubSeq(t, 5, 8) = IntToBytes(n)
  /\ SubSeq(t, 9, Len(t)) = s

\* The parts of a payload are where the reader looks for them.
LEMMA Fields ==
  ASSUME NEW m \in Numbers, NEW n \in Numbers, NEW s \in Seq(Int)
  PROVE  AreFields(IntToBytes(m) \o IntToBytes(n) \o s, m, n, s)
<1> DEFINE u == IntToBytes(m)
           v == IntToBytes(n)
           w == u \o v
           t == w \o s
<1>1. u \in Seq(Int) /\ v \in Seq(Int) /\ Len(u) = 4 /\ Len(v) = 4
  BY NumberBytes
<1> HIDE DEF u, v
<1>2. w \in Seq(Int)
  BY <1>1, Concat, Zenon
<1>3. /\ Len(w) = Len(u) + Len(v)
      /\ \A k \in 1 .. Len(u) : w[k] = u[k]
      /\ \A k \in 1 .. Len(v) : w[Len(u) + k] = v[k]
  BY <1>1, Concat, Zenon
<1> HIDE DEF w
<1>4. /\ t \in Seq(Int)
      /\ Len(t) = Len(w) + Len(s)
      /\ \A k \in 1 .. Len(w) : t[k] = w[k]
      /\ \A k \in 1 .. Len(s) : t[Len(w) + k] = s[k]
  BY <1>2, Concat, Zenon
<1> HIDE DEF t
<1>5. Len(w) = 8 /\ Len(t) = 8 + Len(s) /\ Len(s) \in Nat
  BY <1>1, <1>3, <1>4
<1>6. ASSUME NEW k \in 1 .. 4
       PROVE  t[k] = u[k] /\ t[4 + k] = v[k]
  <2>1. 4 + k \in 1 .. Len(w) /\ k \in 1 .. Len(w)
    BY <1>5
  <2>2. w[k] = u[k] /\ w[4 + k] = v[k]
    BY <1>1, <1>3
  <2> QED
    BY <1>4, <2>1, <2>2
<1>7. \A k \in 1 .. Len(s) : t[8 + k] = s[k]
  BY <1>4, <1>5
<1>8. SubSeq(t, 4 + 1, 8) = v
  BY <1>1, <1>4, <1>5, <1>6, SubSeqIs
<1>9. SubSeq(t, 8 + 1, Len(t)) = s
  BY <1>4, <1>5, SubSeqIs
<1>10. SubSeq(t, 5, 8) = v /\ SubSeq(t, 9, Len(t)) = s
  BY <1>8, <1>9
<1>11. t \in Seq(Int) /\ Len(t) = 8 + Len(s)
  BY <1>4, <1>5
<1> QED
  BY <1>10, <1>11, <1>6, <1>7, Zenon DEF AreFields, t, w, u, v

\* A message in bytes: its length, its id, its payload.
LEMMA Framed ==
  ASSUME NEW id \in Int, NEW payload \in Seq(Int), 1 + Len(payload) \in Numbers
  PROVE  LET t == MessageBytes(id, payload)
         IN  /\ t \in Seq(Int)
             /\ Len(t) = 5 + Len(payload)
             /\ \A k \in 1 .. 4 : t[k] = IntToBytes(1 + Len(payload))[k]
             /\ t[5] = id
             /\ \A k \in 1 .. Len(payload) : t[5 + k] = payload[k]
<1> DEFINE u == IntToBytes(1 + Len(payload))
           v == <<id>>
           w == u \o v
           t == w \o payload
<1>1. u \in Seq(Int) /\ Len(u) = 4 /\ v \in Seq(Int) /\ Len(v) = 1 /\ v[1] = id
  BY NumberBytes
<1> HIDE DEF u, v
<1>2. w \in Seq(Int)
  BY <1>1, Concat, Zenon
<1>3. /\ Len(w) = Len(u) + Len(v)
      /\ \A k \in 1 .. Len(u) : w[k] = u[k]
      /\ \A k \in 1 .. Len(v) : w[Len(u) + k] = v[k]
  BY <1>1, Concat, Zenon
<1> HIDE DEF w
<1>4. /\ t \in Seq(Int)
      /\ Len(t) = Len(w) + Len(payload)
      /\ \A k \in 1 .. Len(w) : t[k] = w[k]
      /\ \A k \in 1 .. Len(payload) : t[Len(w) + k] = payload[k]
  BY <1>2, Concat, Zenon
<1> HIDE DEF t
<1>5. Len(w) = 5 /\ Len(t) = 5 + Len(payload)
  BY <1>1, <1>3, <1>4
<1>6. w[4 + 1] = id
  BY <1>1, <1>3
<1>7. ASSUME NEW k \in 1 .. 4
      PROVE  t[k] = u[k]
  <2>1. k \in 1 .. Len(u) /\ k \in 1 .. Len(w)
    BY <1>1, <1>5
  <2> QED
    BY <1>3, <1>4, <2>1
<1>8. t[5] = id
  BY <1>4, <1>5, <1>6
<1>9. \A k \in 1 .. Len(payload) : t[5 + k] = payload[k]
  BY <1>4, <1>5
<1> QED
  BY <1>4, <1>5, <1>7, <1>8, <1>9, Zenon DEF MessageBytes, t, w, u, v

\* What the remote reads in a request: the offset and the length of the block.
LEMMA RequestFields ==
  ASSUME NEW b \in Blocks
  PROVE  /\ SubSeq(Asks(b), 6, 9) = IntToBytes(Index)
         /\ SubSeq(Asks(b), 10, 13) = IntToBytes(Offset(b))
         /\ SubSeq(Asks(b), 14, 17) = IntToBytes(BlockLength(b))
<1> DEFINE u == IntToBytes(Index)
           v == IntToBytes(Offset(b))
           x == IntToBytes(BlockLength(b))
           p == u \o v \o x
           t == MessageBytes(Request, p)
<1>1. Index \in Numbers /\ Offset(b) \in Numbers /\ BlockLength(b) \in Numbers
  BY NPiecesAssumption, SomeNumbers
<1>2. u \in Seq(Int) /\ v \in Seq(Int) /\ x \in Seq(Int) /\ Len(u) = 4 /\ Len(v) = 4 /\ Len(x) = 4
  BY <1>1, NumberBytes
<1> HIDE DEF x
<1>3. x \in Seq(Int)
  BY <1>2
<1>4. AreFields(p, Index, Offset(b), x)
  BY <1>1, <1>3, Fields, Zenon
<1> HIDE DEF p
<1>5. /\ p \in Seq(Int)
      /\ Len(p) = 8 + Len(x)
      /\ \A k \in 1 .. 4 : p[k] = u[k] /\ p[4 + k] = v[k]
      /\ \A k \in 1 .. Len(x) : p[8 + k] = x[k]
  BY <1>4 DEF AreFields
<1> HIDE DEF u, v
<1>6. 1 + Len(p) \in Numbers /\ Len(p) = 12 /\ Request \in Int
  BY <1>2, <1>5 DEF Numbers, Request
<1>7. /\ t \in Seq(Int)
      /\ Len(t) = 5 + Len(p)
      /\ \A k \in 1 .. Len(p) : t[5 + k] = p[k]
  BY <1>5, <1>6, Framed, Zenon
<1> HIDE DEF t
<1>8. Len(t) = 17
  BY <1>6, <1>7
<1>9. ASSUME NEW k \in 1 .. 4
      PROVE  t[5 + k] = u[k] /\ t[9 + k] = v[k] /\ t[13 + k] = x[k]
  <2>1. k \in 1 .. Len(p) /\ 4 + k \in 1 .. Len(p) /\ 8 + k \in 1 .. Len(p)
    BY <1>6
  <2>2. t[5 + k] = p[k] /\ t[5 + (4 + k)] = p[4 + k] /\ t[5 + (8 + k)] = p[8 + k]
    BY <1>7, <2>1
  <2>3. p[k] = u[k] /\ p[4 + k] = v[k] /\ p[8 + k] = x[k]
    BY <1>2, <1>5
  <2>4. 5 + (4 + k) = 9 + k /\ 5 + (8 + k) = 13 + k
    OBVIOUS
  <2> QED
    BY <2>2, <2>3, <2>4
<1>10. u \in Seq(Int) /\ v \in Seq(Int) /\ Len(u) = 4 /\ Len(v) = 4
  BY <1>2 DEF u, v
<1>11. /\ SubSeq(t, 5 + 1, 9) = u
      /\ SubSeq(t, 9 + 1, 13) = v
      /\ SubSeq(t, 13 + 1, 17) = x
  <2>1. SubSeq(t, 5 + 1, 9) = u
    <3>1. \A k \in 1 .. Len(u) : t[5 + k] = u[k]
      BY <1>10, <1>9
    <3>2. 9 = 5 + Len(u) /\ 9 <= Len(t)
      BY <1>10, <1>8
    <3> QED
      BY <1>10, <1>7, <3>1, <3>2, SubSeqIs
  <2>2. SubSeq(t, 9 + 1, 13) = v
    <3>1. \A k \in 1 .. Len(v) : t[9 + k] = v[k]
      BY <1>10, <1>9
    <3>2. 13 = 9 + Len(v) /\ 13 <= Len(t)
      BY <1>10, <1>8
    <3> QED
      BY <1>10, <1>7, <3>1, <3>2, SubSeqIs
  <2>3. SubSeq(t, 13 + 1, 17) = x
    <3>1. \A k \in 1 .. Len(x) : t[13 + k] = x[k]
      BY <1>2, <1>9
    <3>2. 17 = 13 + Len(x) /\ 17 <= Len(t)
      BY <1>2, <1>8
    <3> QED
      BY <1>2, <1>7, <3>1, <3>2, SubSeqIs
  <2> QED
    BY <2>1, <2>2, <2>3
<1>12. SubSeq(t, 6, 9) = u /\ SubSeq(t, 10, 13) = v /\ SubSeq(t, 14, 17) = x
  BY <1>11
<1> QED
  BY <1>12, Zenon DEF Asks, t, p, u, v, x

-----------------------------------------------------------------------------
(* Frames, and what is read from them *)

\* What every message of the remote has in common.
LEMMA SaidFacts ==
  ASSUME NEW m \in Said
  PROVE  /\ m.id \in Int
         /\ m.payload \in Seq(Int)
         /\ 1 + Len(m.payload) \in Numbers
         /\ m.id = KeepAlive => m.payload = <<>>
<1>1. CASE m \in BitFields
  <2>1. /\ m = [id |-> BitField, payload |-> m.payload, announced |-> m.announced]
        /\ m.payload \in Seq(0 .. 255)
        /\ Len(m.payload) = (NPieces + 7) \div 8
    BY <1>1, BitFieldsAssumption
  <2>2. m.id = BitField
    BY <2>1
  <2>3. (NPieces + 7) \div 8 + 1 = 1 + (NPieces + 7) \div 8
    BY NPiecesAssumption DEF Numbers
  <2>4. 1 + Len(m.payload) \in Numbers
    BY <2>1, <2>3, SomeNumbers
  <2>5. m.payload \in Seq(Int)
    <3>1. 0 .. 255 \subseteq Int
      OBVIOUS
    <3> QED
      BY <2>1, <3>1, SeqMonotonic, Zenon
  <2> QED
    BY <2>2, <2>4, <2>5 DEF BitField, KeepAlive
<1>2. CASE \E i \in Haves : m = Tells(i)
  <2>1. PICK i \in Haves : m = Tells(i)
    BY <1>2
  <2>2. i \in Numbers
    BY HavesAssumption, SomeNumbers
  <2>3. IntToBytes(i) \in Seq(Int) /\ Len(IntToBytes(i)) = 4
    BY <2>2, NumberBytes
  <2>4. m.id = Have /\ m.payload = IntToBytes(i)
    BY <2>1 DEF Tells, Says
  <2>5. 1 + 4 \in Numbers /\ m.id # KeepAlive /\ m.id \in Int
    BY <2>4 DEF Have, KeepAlive, Numbers
  <2>6. Len(m.payload) = 4 /\ m.payload \in Seq(Int)
    BY <2>3, <2>4
  <2> QED
    BY <2>5, <2>6
<1>3. CASE \E id \in {Unchoke, KeepAlive} : m = Says(id, <<>>, {})
  <2>1. m.id \in {Unchoke, KeepAlive} /\ m.payload = <<>>
    BY <1>3 DEF Says
  <2> QED
    BY <2>1 DEF Unchoke, KeepAlive, Numbers
<1>4. CASE \E b \in Blocks : m = Answer(b)
  <2>1. PICK b \in Blocks : m = Answer(b)
    BY <1>4
  <2> DEFINE s == File(Offset(b), BlockLength(b))
             p == IntToBytes(Index) \o IntToBytes(Offset(b)) \o s
  <2>2. /\ Index \in Numbers /\ Offset(b) \in Numbers
        /\ BlockLength(b) \in Numbers /\ BlockLength(b) + 9 \in Numbers
    BY NPiecesAssumption, SomeNumbers
  <2>3. s \in Seq(Int) /\ Len(s) = BlockLength(b)
    BY <2>2, FileFacts DEF Numbers
  <2> HIDE DEF s
  <2>4. s \in Seq(Int)
    BY <2>3
  <2>5. Index \in Numbers /\ Offset(b) \in Numbers
    BY <2>2
  <2>6. AreFields(p, Index, Offset(b), s)
    BY <2>4, <2>5, Fields, Zenon
  <2>7. m.id = PieceId /\ m.payload = p
    BY <2>1, Zenon DEF Answer, Says, s
  <2> HIDE DEF p
  <2>8. p \in Seq(Int) /\ Len(p) = 8 + Len(s)
    BY <2>6 DEF AreFields
  <2>9. 1 + Len(p) = BlockLength(b) + 9
    BY <2>2, <2>3, <2>8 DEF Numbers
  <2> QED
    BY <2>2, <2>8, <2>7, <2>9 DEF PieceId, KeepAlive
<1> QED
  BY <1>1, <1>2, <1>3, <1>4, Zenon DEF Said

\* The number of its bytes.
FrameLength(m) == IF m.id = KeepAlive THEN 4 ELSE 5 + Len(m.payload)

\* The bytes of a message, one by one.
LEMMA FrameFacts ==
  ASSUME NEW m \in Said
  PROVE  /\ Frame(m) \in Seq(Int)
         /\ Len(Frame(m)) = FrameLength(m)
         /\ FrameLength(m) \in Nat
         /\ FrameLength(m) >= 4
         /\ m.id = KeepAlive => \A k \in 1 .. 4 : Frame(m)[k] = IntToBytes(0)[k]
         /\ m.id # KeepAlive =>
              /\ \A k \in 1 .. 4 : Frame(m)[k] = IntToBytes(1 + Len(m.payload))[k]
              /\ Frame(m)[5] = m.id
              /\ \A k \in 1 .. Len(m.payload) : Frame(m)[5 + k] = m.payload[k]
<1>1. m.id \in Int /\ m.payload \in Seq(Int) /\ 1 + Len(m.payload) \in Numbers
  BY SaidFacts
<1>2. Len(m.payload) \in Nat
  BY <1>1
<1>3. CASE m.id = KeepAlive
  <2>1. 0 \in Numbers
    BY DEF Numbers
  <2>2. Frame(m) = IntToBytes(0)
    BY <1>3 DEF Frame
  <2> QED
    BY <1>3, <2>1, <2>2, NumberBytes DEF FrameLength
<1>4. CASE m.id # KeepAlive
  <2> DEFINE t == MessageBytes(m.id, m.payload)
  <2>1. /\ t \in Seq(Int)
        /\ Len(t) = 5 + Len(m.payload)
        /\ \A k \in 1 .. 4 : t[k] = IntToBytes(1 + Len(m.payload))[k]
        /\ t[5] = m.id
        /\ \A k \in 1 .. Len(m.payload) : t[5 + k] = m.payload[k]
    BY <1>1, Framed, Zenon
  <2>2. Frame(m) = t
    BY <1>4 DEF Frame
  <2> HIDE DEF t
  <2> QED
    BY <1>2, <1>4, <2>1, <2>2, SMTT(30) DEF FrameLength
<1> QED
  BY <1>3, <1>4

\* An index into a part is one into the whole.
LEMMA Between ==
  ASSUME NEW a \in Nat, NEW n \in Nat, NEW j \in 1 .. n, NEW len \in Nat, a + n <= len
  PROVE  a + j \in 1 .. len
  OBVIOUS

\* The id and the payload, in the ways of ReceiveBitfield and of Parse.
LEMMA HeadAndRest ==
  ASSUME NEW data \in Seq(Int), NEW p \in Seq(Int), Len(data) = 1 + Len(p),
         \A k \in 1 .. Len(p) : data[1 + k] = p[k]
  PROVE  /\ data # <<>>
         /\ SubSeq(data, 2, Len(data)) = p
         /\ Head(data) = data[1]
         /\ Tail(data) = p
<1>1. Len(p) \in Nat /\ Len(data) \in Nat
  OBVIOUS
<1>2. data # <<>>
  BY <1>1
<1>3. SubSeq(data, 1 + 1, Len(data)) = p
  BY <1>1, SubSeqIs
<1>4. SubSeq(data, 2, Len(data)) = p
  BY <1>3
<1>5. Tail(data) = SubSeq(data, 2, Len(data))
  BY <1>2, TailIsSubSeq, Zenon
<1> QED
  BY <1>2, <1>4, <1>5, SMTT(30)

\* Whoever reads at the beginning of a message reads its length,
LEMMA ReadLength ==
  ASSUME NEW m \in Said, NEW s \in Seq(Int), NEW n \in Nat, n + FrameLength(m) <= Len(s),
         \A k \in 1 .. FrameLength(m) : s[n + k] = Frame(m)[k]
  PROVE  /\ BytesToInt(SubSeq(s, n + 1, n + 4)) \in Nat
         /\ 4 + BytesToInt(SubSeq(s, n + 1, n + 4)) = FrameLength(m)
<1>1. Len(m.payload) \in Nat /\ 1 + Len(m.payload) \in Numbers
      /\ FrameLength(m) \in Nat /\ FrameLength(m) >= 4
  BY SaidFacts, FrameFacts
<1> DEFINE x == IF m.id = KeepAlive THEN 0 ELSE 1 + Len(m.payload)
<1>2. x \in Numbers /\ 4 + x = FrameLength(m)
  BY <1>1 DEF FrameLength, Numbers
<1>3. \A k \in 1 .. 4 : Frame(m)[k] = IntToBytes(x)[k]
  BY FrameFacts
<1> HIDE DEF x
<1>4. ASSUME NEW k \in 1 .. 4
      PROVE  s[n + k] = IntToBytes(x)[k]
  <2>1. k \in 1 .. FrameLength(m)
    BY <1>1, SMTT(30)
  <2> QED
    BY <1>3, <2>1
<1>5. IntToBytes(x) \in Seq(Int) /\ Len(IntToBytes(x)) = 4 /\ BytesToInt(IntToBytes(x)) = x
  BY <1>2, NumberBytes
<1>6. n + 4 <= Len(s) /\ n + 4 = n + Len(IntToBytes(x)) /\ n + 4 \in Nat
  BY <1>1, <1>5
<1>7. \A k \in 1 .. Len(IntToBytes(x)) : s[n + k] = IntToBytes(x)[k]
  BY <1>4, <1>5
<1>8. SubSeq(s, n + 1, n + 4) = IntToBytes(x)
  BY <1>5, <1>6, <1>7, SubSeqIs
<1>9. x \in Nat
  BY <1>2 DEF Numbers
<1> QED
  BY <1>2, <1>5, <1>8, <1>9

\* What the code makes of the bytes of a message: in ReceiveBitfield and in Parse.
ReadsAs(data, m) ==
  /\ m.id = KeepAlive => data = <<>>
  /\ m.id # KeepAlive =>
       /\ data # <<>>
       /\ data[1] = m.id
       /\ SubSeq(data, 2, Len(data)) = m.payload
  /\ Parse(data) = [id |-> m.id, payload |-> m.payload]

\* the whole of it, and no more.
LEMMA ReadFrame ==
  ASSUME NEW m \in Said, NEW s \in Seq(Int), NEW n \in Nat, n + FrameLength(m) <= Len(s),
         \A k \in 1 .. FrameLength(m) : s[n + k] = Frame(m)[k],
         NEW len \in Nat, 4 + len = FrameLength(m),
         NEW data, data = SubSeq(s, n + 5, n + 4 + len)
  PROVE  ReadsAs(data, m)
<1>1. /\ m.id \in Int /\ m.payload \in Seq(Int)
      /\ m.id = KeepAlive => m.payload = <<>>
  BY SaidFacts
<1>2. Len(m.payload) \in Nat
  BY <1>1
<1>3. n + 4 \in Nat /\ n + 4 + len <= Len(s) /\ (n + 4) + 1 = n + 5
  OBVIOUS
<1>4. data = SubSeq(s, (n + 4) + 1, (n + 4) + len)
  BY <1>3
<1>5. data \in Seq(Int) /\ Len(data) = len /\ \A k \in 1 .. len : data[k] = s[n + 4 + k]
  BY <1>3, <1>4, SubSeqAt
<1>6. CASE m.id = KeepAlive
  <2>1. data = <<>>
    BY <1>5, <1>6 DEF FrameLength
  <2>2. Parse(data) = [id |-> m.id, payload |-> m.payload]
    BY <1>1, <1>6, <2>1 DEF Parse
  <2> QED
    BY <1>6, <2>1, <2>2 DEF ReadsAs
<1>7. CASE m.id # KeepAlive
  <2>1. len = 1 + Len(m.payload) /\ FrameLength(m) = 5 + Len(m.payload)
    BY <1>2, <1>7 DEF FrameLength
  <2>2. data \in Seq(Int) /\ Len(data) = len /\ \A k \in 1 .. len : data[k] = s[n + 4 + k]
    BY <1>5
  <2>3. data[1] = m.id
    <3>1. 5 \in 1 .. FrameLength(m) /\ 1 \in 1 .. len /\ n + 4 + 1 = n + 5
      BY <1>2, <2>1
    <3>2. data[1] = s[n + 5] /\ s[n + 5] = Frame(m)[5]
      BY <2>2, <3>1
    <3> QED
      BY <1>7, <3>2, FrameFacts
  <2>4. ASSUME NEW k \in 1 .. Len(m.payload)
        PROVE  data[1 + k] = m.payload[k]
    <3>1. 5 + k \in 1 .. FrameLength(m) /\ 1 + k \in 1 .. len /\ n + 4 + (1 + k) = n + (5 + k)
      BY <1>2, <2>1
    <3>2. data[1 + k] = s[n + (5 + k)] /\ s[n + (5 + k)] = Frame(m)[5 + k]
      BY <2>2, <3>1
    <3> QED
      BY <1>7, <3>2, FrameFacts
  <2>5. /\ data # <<>>
        /\ SubSeq(data, 2, Len(data)) = m.payload
        /\ Head(data) = data[1]
        /\ Tail(data) = m.payload
    <3>1. data \in Seq(Int) /\ Len(data) = 1 + Len(m.payload)
      BY <2>1, <2>2
    <3> QED
      BY <1>1, <2>4, <3>1, HeadAndRest, Zenon
  <2>6. Parse(data) = [id |-> m.id, payload |-> m.payload]
    BY <2>3, <2>5, Zenon DEF Parse
  <2> QED
    BY <1>7, <2>3, <2>5, <2>6 DEF ReadsAs
<1> QED
  BY <1>7, <1>6

-----------------------------------------------------------------------------
(* The stream *)

Typed ==
  /\ stage \in {"handshake", "bitfield", "loop", "over"}
  /\ stream \in Seq(Int) /\ arrived \in Nat /\ arrived <= Len(stream) /\ position \in Nat
  /\ sent \in Seq(Said)
  /\ handled \in Seq([id : Int, payload : Seq(Int)])

\* The file of the stream begins with a handshake, the right one if anything is read on.
Shaken ==
  /\ Len(stream) >= HandshakeSize /\ stream[3] = 0 /\ stream[5] = 0
  /\ stage \in {"bitfield", "loop"} \/ handled # <<>> =>
       stream[1] = 19 /\ stream[2] = Protocol /\ stream[4] = InfoHash
  /\ stage = "handshake" => handled = <<>>

\* Where each message ends: the next begins there.
Ends(ends) ==
  /\ ends \in [0 .. Len(sent) -> Nat]
  /\ ends[0] = HandshakeSize
  /\ ends[Len(sent)] = Len(stream)
  /\ \A k \in 1 .. Len(sent) :
       /\ ends[k] = ends[k - 1] + FrameLength(sent[k])
       /\ ends[k] <= Len(stream)
       /\ \A j \in 1 .. FrameLength(sent[k]) : stream[ends[k - 1] + j] = Frame(sent[k])[j]

Streamed ==
  \E ends :
    /\ Ends(ends)
    /\ stage \in {"bitfield", "loop"} => position = ends[Len(handled)]

\* What is handled is what was sent.
Faithful ==
  /\ Len(handled) <= Len(sent)
  /\ \A k \in 1 .. Len(handled) :
       \/ handled[k] = [id |-> sent[k].id, payload |-> sent[k].payload]
       \/ sent[k].id = KeepAlive /\ handled[k] = [id |-> Choke, payload |-> <<>>]

\* The remote answers requests for blocks.
Requested == request = <<>> \/ \E b \in Blocks : request = Asks(b)

Arrival == Typed /\ Shaken /\ Streamed /\ Faithful /\ Requested

\* The message that is read next is the first that has not been handled.
LEMMA NextMessage ==
  ASSUME Arrival, stage \in {"bitfield", "loop"}, MessageHasArrived
  PROVE  /\ Len(handled) + 1 \in 1 .. Len(sent)
         /\ sent[Len(handled) + 1] \in Said
         /\ ReadsAs(ReceivedData, sent[Len(handled) + 1])
         /\ \E ends : Ends(ends) /\ position + 4 + MessageLength = ends[Len(handled) + 1]
<1> DEFINE n == Len(handled)
           m == sent[n + 1]
<1>1. /\ stream \in Seq(Int) /\ arrived \in Nat /\ arrived <= Len(stream) /\ position \in Nat
      /\ sent \in Seq(Said) /\ n \in Nat /\ Len(sent) \in Nat /\ Len(stream) \in Nat /\ n <= Len(sent)
  BY DEF Arrival, Typed, Faithful
<1>2. PICK ends : Ends(ends) /\ position = ends[n]
  BY DEF Arrival, Streamed
<1> HIDE DEF n
<1>3. position + 4 <= arrived
  BY DEF MessageHasArrived
<1>4. n + 1 \in 1 .. Len(sent)
  <2>1. n # Len(sent)
    BY <1>1, <1>2, <1>3 DEF Ends
  <2> QED
    BY <1>1, <2>1
<1>5. m \in Said
  BY <1>1, <1>4
<1>6. /\ ends[n + 1] = position + FrameLength(m)
      /\ ends[n + 1] <= Len(stream)
      /\ \A j \in 1 .. FrameLength(m) : stream[position + j] = Frame(m)[j]
  <2>1. (n + 1) - 1 = n
    BY <1>1
  <2> QED
    BY <1>2, <1>4, <2>1 DEF Ends
<1>7. FrameLength(m) \in Nat /\ FrameLength(m) >= 4
  BY <1>5, FrameFacts
<1> HIDE DEF m
<1>8. MessageLength \in Nat /\ 4 + MessageLength = FrameLength(m)
  BY <1>1, <1>5, <1>6, ReadLength DEF MessageLength
<1>9. ReadsAs(ReceivedData, m)
  <2> DEFINE len == MessageLength
             data == ReceivedData
  <2>1. data = SubSeq(stream, position + 5, position + 4 + len)
    BY DEF ReceivedData
  <2>2. len \in Nat /\ 4 + len = FrameLength(m)
    BY <1>8
  <2>3. position + FrameLength(m) <= Len(stream)
    BY <1>6
  <2>4. stream \in Seq(Int) /\ position \in Nat
    BY <1>1
  <2>5. \A k \in 1 .. FrameLength(m) : stream[position + k] = Frame(m)[k]
    BY <1>6
  <2> HIDE DEF len, data
  <2>6. ReadsAs(data, m)
    BY <1>5, <2>1, <2>2, <2>3, <2>4, <2>5, ReadFrame, Zenon
  <2> QED
    BY <2>6 DEF data
<1>10. position + 4 + MessageLength = ends[n + 1]
  BY <1>1, <1>6, <1>8
<1> QED
  BY <1>2, <1>4, <1>5, <1>9, <1>10, Zenon DEF m, n

\* To handle the next message as what it is keeps all of this.
LEMMA HandleStep ==
  ASSUME Arrival, stage \in {"bitfield", "loop"}, stage' \in {"bitfield", "loop"},
         UNCHANGED <<stream, arrived, sent, request>>,
         NEW h \in [id : Int, payload : Seq(Int)], Handle(h),
         LET m == sent[Len(handled) + 1]
         IN  \/ h = [id |-> m.id, payload |-> m.payload]
             \/ m.id = KeepAlive /\ h = [id |-> Choke, payload |-> <<>>]
  PROVE  Arrival' /\ Len(handled') = Len(handled) + 1
<1> DEFINE n == Len(handled)
           m == sent[n + 1]
<1>1. /\ n + 1 \in 1 .. Len(sent)
      /\ \E ends : Ends(ends) /\ position + 4 + MessageLength = ends[n + 1]
  BY NextMessage, Zenon DEF Handle
<1>2. /\ handled' = Append(handled, h)
      /\ position' = position + 4 + MessageLength
  BY DEF Handle
<1>3. /\ handled' \in Seq([id : Int, payload : Seq(Int)])
      /\ Len(handled') = n + 1 /\ n \in Nat
      /\ handled'[n + 1] = h
      /\ \A k \in 1 .. n : handled'[k] = handled[k]
  BY <1>2, AppendProperties DEF Arrival, Typed
<1>4. PICK ends : Ends(ends) /\ position' = ends[n + 1]
  BY <1>1, <1>2
<1>5. Ends(ends)'
  BY <1>4 DEF Ends
<1>6. Streamed'
  BY <1>3, <1>4, <1>5 DEF Streamed
<1>7. position' \in Nat
  <2>1. n + 1 \in 0 .. Len(sent)
    BY <1>1, <1>3
  <2>2. ends \in [0 .. Len(sent) -> Nat]
    BY <1>4 DEF Ends
  <2> QED
    BY <1>4, <2>1, <2>2
<1>8. Typed'
  BY <1>3, <1>7 DEF Arrival, Typed
<1>9. Shaken'
  BY DEF Arrival, Shaken
<1>10. Faithful'
  <2>1. Len(handled') <= Len(sent)
    BY <1>1, <1>3
  <2>2. ASSUME NEW k \in 1 .. n + 1
        PROVE  \/ handled'[k] = [id |-> sent[k].id, payload |-> sent[k].payload]
               \/ sent[k].id = KeepAlive /\ handled'[k] = [id |-> Choke, payload |-> <<>>]
    <3>1. CASE k = n + 1
      BY <1>3, <3>1
    <3>2. CASE k # n + 1
      <4>1. k \in 1 .. n
        BY <1>3, <3>2
      <4> QED
        BY <1>3, <4>1 DEF Arrival, Faithful
    <3> QED
      BY <3>1, <3>2
  <2> QED
    BY <1>3, <2>1, <2>2 DEF Faithful
<1>11. Requested'
  BY DEF Arrival, Requested
<1>12. Len(handled') = Len(handled) + 1
  BY <1>3
<1>13. Arrival'
  BY <1>6, <1>8, <1>9, <1>10, <1>11 DEF Arrival
<1> QED
  BY <1>12, <1>13

\* So does another message of the remote, at the end of its stream.
LEMMA SendStep ==
  ASSUME Arrival, NEW m \in Said, Send(m), Requested',
         UNCHANGED <<stage, arrived, position, handled>>
  PROVE  Arrival'
<1> DEFINE n == Len(sent)
           f == FrameLength(m)
<1>1. /\ stream \in Seq(Int) /\ Len(stream) \in Nat /\ sent \in Seq(Said) /\ n \in Nat
      /\ arrived \in Nat /\ arrived <= Len(stream)
  BY DEF Arrival, Typed
<1>2. /\ sent' \in Seq(Said) /\ Len(sent') = n + 1 /\ sent'[n + 1] = m
      /\ \A k \in 1 .. n : sent'[k] = sent[k]
  BY <1>1, AppendProperties DEF Send
<1>3. Frame(m) \in Seq(Int) /\ Len(Frame(m)) = f /\ f \in Nat
  BY FrameFacts
<1>4. /\ stream' \in Seq(Int)
      /\ Len(stream') = Len(stream) + Len(Frame(m))
      /\ \A k \in 1 .. Len(stream) : stream'[k] = stream[k]
      /\ \A k \in 1 .. Len(Frame(m)) : stream'[Len(stream) + k] = Frame(m)[k]
  <2>1. stream' = stream \o Frame(m)
    BY DEF Send
  <2>2. stream \in Seq(Int) /\ Frame(m) \in Seq(Int)
    BY <1>1, <1>3
  <2> QED
    BY <2>1, <2>2, Concat, Zenon
<1> HIDE DEF n, f
<1>5. Typed'
  <2>1. arrived' <= Len(stream')
    BY <1>1, <1>3, <1>4
  <2> QED
    BY <1>2, <1>4, <2>1 DEF Arrival, Typed
<1>6. Shaken'
  <2>1. Len(stream) >= 5
    BY DEF Arrival, Shaken, HandshakeSize
  <2>2. /\ stream'[1] = stream[1] /\ stream'[2] = stream[2] /\ stream'[3] = stream[3]
        /\ stream'[4] = stream[4] /\ stream'[5] = stream[5]
    <3>1. /\ 1 \in 1 .. Len(stream) /\ 2 \in 1 .. Len(stream) /\ 3 \in 1 .. Len(stream)
          /\ 4 \in 1 .. Len(stream) /\ 5 \in 1 .. Len(stream)
      BY <1>1, <2>1
    <3> QED
      BY <1>4, <3>1
  <2>3. Len(stream') >= HandshakeSize
    BY <1>1, <1>3, <1>4, <2>1 DEF HandshakeSize
  <2> QED
    BY <2>2, <2>3 DEF Arrival, Shaken
<1>7. Streamed'
  <2>1. PICK ends : Ends(ends) /\ (stage \in {"bitfield", "loop"} => position = ends[Len(handled)])
    BY DEF Arrival, Streamed
  <2>2. ends \in [0 .. n -> Nat] /\ ends[n] = Len(stream)
    BY <2>1 DEF Ends, n
  <2>3. PICK longer :
             /\ longer \in [0 .. n + 1 -> Nat]
             /\ longer[n + 1] = Len(stream) + f
             /\ \A k \in 0 .. n : longer[k] = ends[k]
    <3> DEFINE l == [k \in 0 .. n + 1 |-> IF k <= n THEN ends[k] ELSE Len(stream) + f]
    <3>1. /\ l \in [0 .. n + 1 -> Nat]
          /\ l[n + 1] = Len(stream) + f
          /\ \A k \in 0 .. n : l[k] = ends[k]
      BY <1>1, <1>3, <2>2
    <3> QED
      BY <3>1, Zenon
  <2>4. ASSUME NEW k \in 1 .. n
        PROVE  /\ longer[k] = longer[k - 1] + FrameLength(sent'[k])
               /\ longer[k] <= Len(stream')
               /\ \A j \in 1 .. FrameLength(sent'[k]) :
                    stream'[longer[k - 1] + j] = Frame(sent'[k])[j]
    <3>1. k \in 0 .. n /\ k - 1 \in 0 .. n
      BY <1>1
    <3>2. sent'[k] = sent[k] /\ longer[k] = ends[k] /\ longer[k - 1] = ends[k - 1]
      BY <1>2, <2>3, <3>1
    <3>3. /\ ends[k] = ends[k - 1] + FrameLength(sent[k])
          /\ ends[k] <= Len(stream)
          /\ \A j \in 1 .. FrameLength(sent[k]) : stream[ends[k - 1] + j] = Frame(sent[k])[j]
      BY <2>1 DEF Ends, n
    <3>4. ends[k] \in Nat /\ ends[k - 1] \in Nat
      BY <2>2, <3>1
    <3>5. sent[k] \in Said
      BY <1>1 DEF n
    <3>6. FrameLength(sent[k]) \in Nat
      BY <3>5, FrameFacts
    <3>7. ASSUME NEW j \in 1 .. FrameLength(sent[k])
          PROVE  stream'[ends[k - 1] + j] = Frame(sent[k])[j]
      <4>1. ends[k - 1] + j \in 1 .. Len(stream)
        <5>1. ends[k - 1] + FrameLength(sent[k]) <= Len(stream)
          BY <3>3
        <5> QED
          BY <1>1, <3>4, <3>6, <5>1, Between
      <4> QED
        BY <1>4, <3>3, <4>1
    <3>8. ends[k] <= Len(stream')
      BY <1>1, <1>3, <1>4, <3>3, <3>4
    <3> QED
      BY <3>2, <3>3, <3>7, <3>8
  <2>5. /\ longer[n + 1] = longer[(n + 1) - 1] + FrameLength(sent'[n + 1])
        /\ longer[n + 1] <= Len(stream')
        /\ \A j \in 1 .. FrameLength(sent'[n + 1]) :
             stream'[longer[(n + 1) - 1] + j] = Frame(sent'[n + 1])[j]
    <3>1. (n + 1) - 1 = n /\ n \in 0 .. n
      BY <1>1
    <3>2. longer[(n + 1) - 1] = Len(stream)
      BY <2>2, <2>3, <3>1
    <3>3. longer[n + 1] <= Len(stream')
      BY <1>1, <1>3, <1>4, <2>3
    <3> QED
      BY <1>2, <1>3, <1>4, <2>3, <3>2, <3>3 DEF f
  <2>6. \A k \in 1 .. n + 1 : k \in 1 .. n \/ k = n + 1
    BY <1>1
  <2>7. Ends(longer)'
    <3>1. longer[0] = HandshakeSize
      BY <1>1, <2>1, <2>3 DEF Ends
    <3>2. longer[Len(sent')] = Len(stream')
      BY <1>2, <1>3, <1>4, <2>3
    <3> QED
      BY <1>2, <2>3, <2>4, <2>5, <2>6, <3>1, <3>2 DEF Ends
  <2>8. stage' \in {"bitfield", "loop"} => position' = longer[Len(handled')]
    <3>1. Len(handled) \in 0 .. n
      BY <1>1 DEF Arrival, Faithful, Typed, n
    <3> QED
      BY <2>1, <2>3, <3>1
  <2> QED
    BY <2>7, <2>8 DEF Streamed
<1>8. Faithful'
  <2>1. Len(handled) \in Nat /\ Len(handled) <= n
    BY DEF Arrival, Faithful, Typed, n
  <2>2. \A k \in 1 .. Len(handled) : sent'[k] = sent[k]
    BY <1>1, <1>2, <2>1
  <2> QED
    BY <1>1, <1>2, <2>1, <2>2 DEF Arrival, Faithful
<1> QED
  BY <1>5, <1>6, <1>7, <1>8 DEF Arrival

-----------------------------------------------------------------------------
(* Availability *)

\* The bytes of the bitfield have a bit for every piece but, it may be, the last.
Announced ==
  /\ bitfield_ \in Seq(SUBSET (0 .. 7)) /\ Len(bitfield_) >= (NPieces + 6) \div 8
  /\ terminator \in SUBSET (0 .. 7)
  /\ \A k \in 1 .. Len(sent) : sent[k].id = BitField => k = 1
  /\ stage = "loop" => handled # <<>>
  /\ AvailabilityIsAnnounced

\* No two pieces have the same bit of the same byte,
LEMMA SameBit ==
  ASSUME NEW i \in Pieces, NEW j \in Pieces, i \div 8 = j \div 8, Bit(i) = Bit(j)
  PROVE  i = j
<1>1. i \in Nat /\ j \in Nat
  BY NPiecesAssumption DEF Pieces, Numbers
<1>2. i % 8 = j % 8
  <2>1. i % 8 \in 0 .. 7 /\ j % 8 \in 0 .. 7
    BY <1>1
  <2> QED
    BY <2>1 DEF Bit
<1>3. i = (i \div 8) * 8 + (i % 8) /\ j = (j \div 8) * 8 + (j % 8)
  BY <1>1
<1> QED
  BY <1>2, <1>3

\* and no two lie behind the bytes there are.
LEMMA OneBehind ==
  ASSUME NEW i \in Pieces, NEW j \in Pieces, NEW len \in Nat, len >= (NPieces + 6) \div 8,
         ~(i \div 8 < len), ~(j \div 8 < len)
  PROVE  i = j
<1>1. i \in 0 .. NPieces - 1 /\ j \in 0 .. NPieces - 1 /\ NPieces \in Nat
  BY NPiecesAssumption DEF Pieces, Numbers
<1>2. i \div 8 >= (NPieces + 6) \div 8 /\ j \div 8 >= (NPieces + 6) \div 8
  BY <1>1
<1> QED
  BY <1>1, <1>2

\* Where the bit of a piece is.
LEMMA PieceByte ==
  ASSUME NEW i \in Pieces
  PROVE  /\ i \in Nat /\ i \div 8 \in Nat /\ Bit(i) \in 0 .. 7
         /\ i \div 8 < (NPieces + 7) \div 8
<1>1. i \in 0 .. NPieces - 1 /\ NPieces \in Nat
  BY NPiecesAssumption DEF Pieces, Numbers
<1>2. i % 8 \in 0 .. 7
  BY <1>1
<1> QED
  BY <1>1, <1>2 DEF Bit

\* A sequence with one element changed.
LEMMA Excepted ==
  ASSUME NEW S, NEW q \in Seq(S), NEW i \in 1 .. Len(q), NEW e \in S,
         NEW r, r = [q EXCEPT ![i] = e]
  PROVE  /\ r \in Seq(S) /\ Len(r) = Len(q)
         /\ \A j \in 1 .. Len(q) : r[j] = IF j = i THEN e ELSE q[j]
  OBVIOUS

\* A Have message sets the bit of its piece, and no other piece's.
LEMMA HearHave ==
  ASSUME bitfield_ \in Seq(SUBSET (0 .. 7)), Len(bitfield_) >= (NPieces + 6) \div 8,
         terminator \in SUBSET (0 .. 7), AvailabilityIsAnnounced,
         NEW i \in Pieces, SetPieceAvailability(i), Told' = Told \cup {i}
  PROVE  /\ bitfield_' \in Seq(SUBSET (0 .. 7)) /\ Len(bitfield_') = Len(bitfield_)
         /\ terminator' \in SUBSET (0 .. 7)
         /\ AvailabilityIsAnnounced'
<1> DEFINE k == i \div 8
           len == Len(bitfield_)
<1>1. k \in Nat /\ Bit(i) \in 0 .. 7 /\ len \in Nat
  BY PieceByte
<1>2. CASE k < len
  <2>1. k + 1 \in 1 .. len
    BY <1>1, <1>2
  <2>2. /\ bitfield_' = [bitfield_ EXCEPT ![k + 1] = @ \cup {Bit(i)}]
        /\ terminator' = terminator
    BY <1>2 DEF SetPieceAvailability
  <2>3. bitfield_[k + 1] \in SUBSET (0 .. 7)
    BY <2>1
  <2>4. bitfield_[k + 1] \cup {Bit(i)} \in SUBSET (0 .. 7)
    BY <1>1, <2>3
  <2>5. /\ bitfield_' \in Seq(SUBSET (0 .. 7)) /\ Len(bitfield_') = len
        /\ \A j \in 1 .. len :
             bitfield_'[j] = IF j = k + 1 THEN bitfield_[k + 1] \cup {Bit(i)} ELSE bitfield_[j]
    <3> DEFINE e == bitfield_[k + 1] \cup {Bit(i)}
    <3>1. bitfield_' = [bitfield_ EXCEPT ![k + 1] = e]
      BY <2>2
    <3> HIDE DEF e
    <3>2. e \in SUBSET (0 .. 7)
      BY <2>4 DEF e
    <3>3. /\ bitfield_' \in Seq(SUBSET (0 .. 7)) /\ Len(bitfield_') = len
          /\ \A j \in 1 .. len : bitfield_'[j] = IF j = k + 1 THEN e ELSE bitfield_[j]
      BY <2>1, <3>1, <3>2, Excepted DEF len
    <3> QED
      BY <3>3 DEF e
  <2> HIDE DEF k, len
  <2>6. ASSUME NEW j \in Pieces
        PROVE  /\ IsPieceAvailable(j)' => j \in Told'
               /\ j \in Told' /\ j \div 8 < Len(bitfield_') => IsPieceAvailable(j)'
    <3> DEFINE l == j \div 8
    <3>1. l \in Nat
      BY PieceByte
    <3>2. /\ IsPieceAvailable(j) => j \in Told
          /\ j \in Told /\ l < len => IsPieceAvailable(j)
      BY DEF AvailabilityIsAnnounced, len
    <3>3. CASE l < len
      <4>1. l + 1 \in 1 .. len
        BY <1>1, <3>1, <3>3
      <4>2. /\ IsPieceAvailable(j) <=> Bit(j) \in bitfield_[l + 1]
            /\ IsPieceAvailable(j)' <=> Bit(j) \in bitfield_'[l + 1]
        BY <2>5, <3>3 DEF IsPieceAvailable, len
      <4>3. CASE l = k
        <5>1. Bit(j) = Bit(i) <=> j = i
          BY <4>3, SameBit DEF k
        <5>2. bitfield_'[l + 1] = bitfield_[l + 1] \cup {Bit(i)}
          BY <2>5, <4>1, <4>3
        <5> QED
          BY <3>2, <3>3, <4>2, <5>1, <5>2
      <4>4. CASE l # k
        <5>1. j # i /\ l + 1 # k + 1
          BY <1>1, <3>1, <4>4 DEF k
        <5>2. bitfield_'[l + 1] = bitfield_[l + 1]
          BY <2>5, <4>1, <5>1
        <5> QED
          BY <3>2, <3>3, <4>2, <5>1, <5>2
      <4> QED
        BY <4>3, <4>4
    <3>4. CASE ~(l < len)
      <4>1. /\ IsPieceAvailable(j) <=> Bit(j) \in terminator
            /\ IsPieceAvailable(j)' <=> Bit(j) \in terminator'
        BY <2>5, <3>4 DEF IsPieceAvailable, len
      <4> QED
        BY <2>2, <2>5, <3>2, <3>4, <4>1
    <3> QED
      BY <3>3, <3>4
  <2> QED
    BY <2>2, <2>5, <2>6 DEF AvailabilityIsAnnounced, len
<1>3. CASE ~(k < len)
  <2>1. /\ bitfield_' = bitfield_
        /\ terminator' \in {terminator, terminator \cup {Bit(i)}}
    BY <1>3 DEF SetPieceAvailability
  <2>2. terminator' \in SUBSET (0 .. 7)
    BY <1>1, <2>1
  <2> HIDE DEF k, len
  <2>3. ASSUME NEW j \in Pieces
        PROVE  /\ IsPieceAvailable(j)' => j \in Told'
               /\ j \in Told' /\ j \div 8 < Len(bitfield_') => IsPieceAvailable(j)'
    <3> DEFINE l == j \div 8
    <3>1. /\ IsPieceAvailable(j) => j \in Told
          /\ j \in Told /\ l < len => IsPieceAvailable(j)
      BY DEF AvailabilityIsAnnounced, len
    <3>2. CASE l < len
      <4>1. IsPieceAvailable(j)' <=> IsPieceAvailable(j)
        BY <2>1, <3>2 DEF IsPieceAvailable, len
      <4>2. j # i
        BY <1>3, <3>2 DEF k
      <4> QED
        BY <2>1, <3>1, <3>2, <4>1, <4>2 DEF len
    <3>3. CASE ~(l < len)
      <4>1. j = i
        BY <1>1, <1>3, <3>3, OneBehind DEF k, len
      <4> QED
        BY <2>1, <3>3, <4>1 DEF len
    <3> QED
      BY <3>2, <3>3
  <2> QED
    BY <2>1, <2>2, <2>3 DEF AvailabilityIsAnnounced
<1> QED
  BY <1>2, <1>3

\* A BitField message gives the bits of all pieces.
LEMMA HearBitField ==
  ASSUME NEW m \in BitFields, Told' = m.announced,
         bitfield_' = [k \in 1 .. Len(m.payload) |-> Bits(m.payload[k])]
  PROVE  /\ bitfield_' \in Seq(SUBSET (0 .. 7)) /\ Len(bitfield_') >= (NPieces + 6) \div 8
         /\ AvailabilityIsAnnounced'
<1>1. /\ m.payload \in Seq(0 .. 255) /\ Len(m.payload) = (NPieces + 7) \div 8
      /\ m.announced = {i \in Pieces : Bit(i) \in Bits(m.payload[i \div 8 + 1])}
  BY BitFieldsAssumption
<1>2. Len(m.payload) \in Nat
  BY <1>1
<1>3. \A byte : Bits(byte) \in SUBSET (0 .. 7)
  BY DEF Bits
<1>4. /\ bitfield_' \in Seq(SUBSET (0 .. 7)) /\ Len(bitfield_') = Len(m.payload)
      /\ \A k \in 1 .. Len(m.payload) : bitfield_'[k] = Bits(m.payload[k])
  BY <1>2, <1>3
<1>5. Len(bitfield_') >= (NPieces + 6) \div 8
  BY <1>1, <1>4, NPiecesAssumption DEF Numbers
<1>6. ASSUME NEW j \in Pieces
      PROVE  IsPieceAvailable(j)' <=> j \in Told'
  <2> DEFINE l == j \div 8
  <2>1. l \in Nat /\ l < Len(bitfield_')
    BY <1>1, <1>4, PieceByte
  <2>2. l + 1 \in 1 .. Len(m.payload)
    BY <1>2, <1>4, <2>1
  <2>3. IsPieceAvailable(j)' <=> Bit(j) \in bitfield_'[l + 1]
    BY <2>1 DEF IsPieceAvailable
  <2>4. bitfield_'[l + 1] = Bits(m.payload[l + 1])
    BY <1>4, <2>2
  <2> QED
    BY <1>1, <2>3, <2>4
<1> QED
  BY <1>4, <1>5, <1>6 DEF AvailabilityIsAnnounced

-----------------------------------------------------------------------------
(* Blocks *)

\* Blocks hold what BlocksAreOfFile says.
Placed == blocks \in [Blocks -> Seq(Int)] /\ BlocksAreOfFile

\* What the messages of each kind announce and carry.
LEMMA SaidKinds ==
  ASSUME NEW m \in Said
  PROVE  /\ m.id = BitField => m \in BitFields
         /\ m.id = Have => \E i \in Pieces : m.payload = IntToBytes(i) /\ m.announced = {i}
         /\ m.id \notin {Have, BitField} => m.announced = {}
         /\ m.id = PieceId => \E b \in Blocks : m = Answer(b)
<1>1. CASE m \in BitFields
  <2>1. m.id = BitField
    BY <1>1, BitFieldsAssumption
  <2> QED
    BY <1>1, <2>1 DEF BitField, Have, PieceId
<1>2. CASE \E i \in Haves : m = Tells(i)
  <2>1. PICK i \in Haves : m = Tells(i)
    BY <1>2
  <2>2. m.id = Have /\ m.payload = IntToBytes(i) /\ m.announced = {i} /\ i \in Pieces
    BY <2>1, HavesAssumption DEF Tells, Says
  <2> QED
    BY <2>2 DEF BitField, Have, PieceId
<1>3. CASE \E id \in {Unchoke, KeepAlive} : m = Says(id, <<>>, {})
  <2>1. m.id \in {Unchoke, KeepAlive} /\ m.announced = {}
    BY <1>3 DEF Says
  <2> QED
    BY <2>1 DEF BitField, Have, PieceId, Unchoke, KeepAlive
<1>4. CASE \E b \in Blocks : m = Answer(b)
  <2>1. PICK b \in Blocks : m = Answer(b)
    BY <1>4
  <2>2. m.id = PieceId /\ m.announced = {}
    BY <2>1, Zenon DEF Answer, Says
  <2>3. PieceId # BitField /\ PieceId # Have
    BY DEF BitField, Have, PieceId
  <2> QED
    BY <1>4, <2>2, <2>3, Zenon
<1> QED
  BY <1>1, <1>2, <1>3, <1>4, Zenon DEF Said

\* An answer says where its bytes belong.
LEMMA AnswerFields ==
  ASSUME NEW b \in Blocks
  PROVE  LET payload == Answer(b).payload
         IN  /\ Begin(payload) \div BLOCK_SIZE = b
             /\ Data(payload) = File(Offset(b), BlockLength(b))
<1> DEFINE s == File(Offset(b), BlockLength(b))
           p == IntToBytes(Index) \o IntToBytes(Offset(b)) \o s
<1>1. /\ Index \in Numbers /\ Offset(b) \in Numbers
  BY NPiecesAssumption, SomeNumbers
<1>2. s \in Seq(Int)
  BY SomeNumbers, FileFacts DEF Numbers
<1>3. Answer(b).payload = p
  BY Zenon DEF Answer, Says
<1> HIDE DEF s
<1>4. AreFields(p, Index, Offset(b), s)
  BY <1>1, <1>2, Fields, Zenon
<1> HIDE DEF p
<1>5. SubSeq(p, 5, 8) = IntToBytes(Offset(b)) /\ SubSeq(p, 9, Len(p)) = s
  BY <1>4 DEF AreFields
<1>6. BytesToInt(IntToBytes(Offset(b))) = Offset(b)
  BY <1>1, NumberBytes
<1>7. Offset(b) \div BLOCK_SIZE = b
  BY BlockFacts DEF Blocks
<1>8. Begin(p) \div BLOCK_SIZE = b
  BY <1>5, <1>6, <1>7 DEF Begin
<1> QED
  BY <1>3, <1>5, <1>8, Zenon DEF Data, s

-----------------------------------------------------------------------------
(* The inductive invariant *)

IInv == Arrival /\ Announced /\ Placed

\* The remote sends a message: nothing is heard of it yet.
LEMMA SendStays ==
  ASSUME IInv, NEW m \in Said, Send(m), Requested', m.id = BitField => sent = <<>>,
         UNCHANGED <<stage, arrived, position, handled, bitfield_, terminator, blocks>>
  PROVE  IInv'
<1>1. Arrival'
  BY SendStep DEF IInv
<1>2. /\ sent \in Seq(Said) /\ Len(sent) \in Nat /\ Len(handled) \in Nat /\ Len(handled) <= Len(sent)
  BY DEF IInv, Arrival, Typed, Faithful
<1>3. /\ Len(sent') = Len(sent) + 1 /\ sent'[Len(sent) + 1] = m
      /\ \A k \in 1 .. Len(sent) : sent'[k] = sent[k]
  BY <1>2, AppendProperties DEF Send
<1>4. Told' = Told
  <2>1. \A k \in 1 .. Len(handled) : sent'[k] = sent[k]
    BY <1>2, <1>3
  <2> QED
    BY <2>1 DEF Told
<1>5. AvailabilityIsAnnounced'
  BY <1>4 DEF IInv, Announced, AvailabilityIsAnnounced, IsPieceAvailable
<1>6. ASSUME NEW k \in 1 .. Len(sent'), sent'[k].id = BitField
      PROVE  k = 1
  <2>1. CASE k = Len(sent) + 1
    <3>1. sent = <<>>
      BY <1>3, <1>6, <2>1
    <3> QED
      BY <2>1, <3>1
  <2>2. CASE k # Len(sent) + 1
    <3>1. k \in 1 .. Len(sent)
      BY <1>2, <1>3, <2>2
    <3> QED
      BY <1>3, <1>6, <3>1 DEF IInv, Announced
  <2> QED
    BY <2>1, <2>2
<1>7. Announced'
  BY <1>5, <1>6 DEF IInv, Announced
<1>8. Placed'
  BY DEF IInv, Placed, BlocksAreOfFile
<1> QED
  BY <1>1, <1>7, <1>8 DEF IInv

\* With a message handled, the pieces it announces are told.
LEMMA ToldGrows ==
  ASSUME Len(handled) \in Nat, Len(handled') = Len(handled) + 1, sent' = sent
  PROVE  Told' = Told \cup sent[Len(handled) + 1].announced
<1>1. 1 .. Len(handled') = 1 .. Len(handled) \cup {Len(handled) + 1}
  OBVIOUS
<1> QED
  BY <1>1 DEF Told

\* It holds when a connection begins.
THEOREM Initially == Init => IInv
<1> SUFFICES ASSUME Init
             PROVE  IInv
  OBVIOUS
<1>1. PICK pstrlen \in {19, 20}, protocol \in {Protocol, 0}, infoHash \in {InfoHash, 0} :
        stream = Handshake(pstrlen, protocol, infoHash)
  BY DEF Init
<1>2. /\ stream \in Seq(Int) /\ Len(stream) = 5 /\ stream[3] = 0 /\ stream[5] = 0
  BY <1>1 DEF Handshake, Protocol, InfoHash
<1>3. /\ sent = <<>> /\ handled = <<>> /\ Len(sent) = 0 /\ Len(handled) = 0
      /\ stage = "handshake"
  BY DEF Init
<1>4. Typed
  BY <1>2, <1>3 DEF Init, Typed
<1>5. Shaken
  BY <1>2, <1>3 DEF Shaken, HandshakeSize
<1>6. Streamed
  <2> DEFINE ends == [k \in 0 .. 0 |-> 5]
  <2>1. Ends(ends)
    BY <1>2, <1>3 DEF Ends, HandshakeSize
  <2> QED
    BY <1>3, <2>1 DEF Streamed
<1>7. Faithful /\ Requested
  BY <1>3 DEF Init, Faithful, Requested
<1> DEFINE len == (NPieces - 1 + 7) \div 8
<1>8. len \in Nat /\ len >= (NPieces + 6) \div 8
  BY NPiecesAssumption DEF Numbers
<1>9. /\ bitfield_ = [k \in 1 .. len |-> {}]
      /\ terminator = {}
  BY DEF Init
<1> HIDE DEF len
<1>10. /\ bitfield_ \in Seq(SUBSET (0 .. 7)) /\ Len(bitfield_) = len
       /\ \A k \in 1 .. len : bitfield_[k] = {}
  BY <1>8, <1>9
<1>11. \A i \in Pieces : ~IsPieceAvailable(i)
  <2> SUFFICES ASSUME NEW i \in Pieces
               PROVE  ~IsPieceAvailable(i)
    OBVIOUS
  <2>1. i \div 8 \in Nat
    BY PieceByte
  <2>2. i \div 8 < len => i \div 8 + 1 \in 1 .. len
    BY <1>8, <2>1
  <2> QED
    BY <1>9, <1>10, <2>2 DEF IsPieceAvailable
<1>12. Told = {}
  BY <1>3 DEF Told
<1>13. Announced
  BY <1>3, <1>8, <1>9, <1>10, <1>11, <1>12 DEF Announced, AvailabilityIsAnnounced
<1>14. Placed
  BY DEF Init, Placed, Blocks, BlocksAreOfFile, Missing
<1> QED
  BY <1>4, <1>5, <1>6, <1>7, <1>13, <1>14 DEF IInv, Arrival

-----------------------------------------------------------------------------
(* The steps, one by one *)

\* A message before the Unchoke: its bits are the pieces it announces.
LEMMA ReceiveBitfieldStep == IInv /\ ReceiveBitfield => IInv'
<1> SUFFICES ASSUME IInv, ReceiveBitfield
             PROVE  IInv'
  OBVIOUS
<1> DEFINE n == Len(handled)
           m == sent[n + 1]
           data == ReceivedData
           id == IF data = <<>> THEN Choke ELSE data[1]
           payload == SubSeq(data, 2, Len(data))
           h == [id |-> id, payload |-> payload]
<1>1. /\ stage = "bitfield" /\ stage' \in {"bitfield", "loop"}
      /\ MessageHasArrived
      /\ Handle(h)
      /\ UNCHANGED <<stream, arrived, sent, blocks, pendingBlock_, request>>
  BY DEF ReceiveBitfield, Handle
<1>2. n + 1 \in 1 .. Len(sent) /\ m \in Said /\ ReadsAs(data, m)
  BY <1>1, NextMessage DEF IInv
<1>3. \/ (id \in {BitField}
          /\ bitfield_' = [k \in 1 .. Len(payload) |-> Bits(payload[k])]
          /\ terminator' = {})
      \/ (id \in {Have} /\ SetPieceAvailability(BytesToInt(payload)))
      \/ (id \notin {BitField, Have} /\ UNCHANGED <<bitfield_, terminator>>)
  BY DEF ReceiveBitfield
<1> HIDE DEF data
<1>4. /\ m.id \in Int /\ m.payload \in Seq(Int)
      /\ m.id = KeepAlive => m.payload = <<>>
  BY <1>2, SaidFacts
<1>5. \/ m.id = KeepAlive /\ id = Choke /\ payload = <<>>
      \/ m.id # KeepAlive /\ id = m.id /\ payload = m.payload
  <2>1. CASE m.id = KeepAlive
    <3>1. data = <<>>
      BY <1>2, <2>1 DEF ReadsAs
    <3>2. SubSeq(<<>>, 2, Len(<<>>)) = <<>>
      BY SubSeqEmpty
    <3> QED
      BY <2>1, <3>1, <3>2
  <2>2. CASE m.id # KeepAlive
    BY <1>2, <2>2 DEF ReadsAs
  <2> QED
    BY <2>1, <2>2
<1> HIDE DEF id, payload, m, n
<1>6. Arrival' /\ Len(handled') = n + 1
  <2>1. h \in [id : Int, payload : Seq(Int)]
    BY <1>4, <1>5 DEF Choke
  <2>2. \/ h = [id |-> m.id, payload |-> m.payload]
        \/ m.id = KeepAlive /\ h = [id |-> Choke, payload |-> <<>>]
    BY <1>5
  <2> HIDE DEF h
  <2> QED
    BY <1>1, <2>1, <2>2, HandleStep DEF IInv, m, n
<1>7. n \in Nat
  BY DEF IInv, Arrival, Typed, n
<1>8. Told' = Told \cup m.announced
  BY <1>1, <1>6, <1>7, ToldGrows DEF m, n
<1>9. /\ bitfield_ \in Seq(SUBSET (0 .. 7)) /\ Len(bitfield_) >= (NPieces + 6) \div 8
      /\ terminator \in SUBSET (0 .. 7)
      /\ AvailabilityIsAnnounced
  BY DEF IInv, Announced
<1>10. /\ bitfield_' \in Seq(SUBSET (0 .. 7)) /\ Len(bitfield_') >= (NPieces + 6) \div 8
       /\ terminator' \in SUBSET (0 .. 7)
       /\ AvailabilityIsAnnounced'
  <2>1. CASE /\ id = BitField
             /\ bitfield_' = [k \in 1 .. Len(payload) |-> Bits(payload[k])]
             /\ terminator' = {}
    <3>1. m.id = BitField /\ payload = m.payload
      BY <1>5, <2>1 DEF BitField, Choke
    <3>2. m \in BitFields
      BY <1>2, <3>1, SaidKinds
    <3>3. n + 1 = 1
      BY <1>2, <3>1 DEF IInv, Announced, m
    <3>4. Told = {}
      BY <1>7, <3>3 DEF Told, n
    <3>5. Told' = m.announced
      BY <1>8, <3>4
    <3> QED
      BY <2>1, <3>1, <3>2, <3>5, HearBitField
  <2>2. CASE id = Have /\ SetPieceAvailability(BytesToInt(payload))
    <3>1. m.id = Have /\ payload = m.payload
      BY <1>5, <2>2 DEF Have, Choke
    <3>2. PICK i \in Pieces : m.payload = IntToBytes(i) /\ m.announced = {i}
      BY <1>2, <3>1, SaidKinds
    <3>3. BytesToInt(payload) = i
      BY <3>1, <3>2, SomeNumbers, NumberBytes
    <3>4. Told' = Told \cup {i} /\ SetPieceAvailability(i)
      BY <1>8, <2>2, <3>2, <3>3
    <3> QED
      BY <1>9, <3>4, HearHave
  <2>3. CASE id \notin {BitField, Have} /\ UNCHANGED <<bitfield_, terminator>>
    <3>1. m.id \notin {BitField, Have}
      BY <1>5, <2>3 DEF KeepAlive, BitField, Have
    <3>2. m.announced = {}
      BY <1>2, <3>1, SaidKinds
    <3>3. Told' = Told
      BY <1>8, <3>2
    <3> QED
      BY <1>9, <2>3, <3>3 DEF AvailabilityIsAnnounced, IsPieceAvailable
  <2> QED
    BY <1>3, <2>1, <2>2, <2>3
<1>11. handled' # <<>>
  BY <1>6, <1>7
<1>12. Announced'
  BY <1>1, <1>10, <1>11 DEF IInv, Announced
<1>13. Placed'
  BY <1>1 DEF IInv, Placed, BlocksAreOfFile
<1> QED
  BY <1>6, <1>12, <1>13 DEF IInv

\* A message in the loop: an answer goes to the block that was asked for.
LEMMA ReceiveMessageStep == IInv /\ ReceiveMessage => IInv'
<1> SUFFICES ASSUME IInv, ReceiveMessage
             PROVE  IInv'
  OBVIOUS
<1> DEFINE n == Len(handled)
           m == sent[n + 1]
           msg == Parse(ReceivedData)
<1>1. /\ stage = "loop" /\ stage' = "loop"
      /\ MessageHasArrived
      /\ Handle(msg)
      /\ UNCHANGED <<stream, arrived, sent, request>>
  BY DEF ReceiveMessage, Handle
<1>2. n + 1 \in 1 .. Len(sent) /\ m \in Said /\ ReadsAs(ReceivedData, m)
  BY <1>1, NextMessage DEF IInv
<1>3. \/ (msg.id \in {Have}
          /\ SetPieceAvailability(BytesToInt(msg.payload))
          /\ blocks' = blocks)
      \/ (msg.id \in {PieceId}
          /\ blocks' = [blocks EXCEPT ![Begin(msg.payload) \div BLOCK_SIZE] = Data(msg.payload)]
          /\ UNCHANGED <<bitfield_, terminator>>)
      \/ (msg.id \notin {Have, PieceId} /\ UNCHANGED <<bitfield_, terminator, blocks>>)
  BY DEF ReceiveMessage
<1>4. /\ m.id \in Int /\ m.payload \in Seq(Int)
  BY <1>2, SaidFacts
<1>5. msg = [id |-> m.id, payload |-> m.payload]
  BY <1>2 DEF ReadsAs
<1> HIDE DEF msg, m, n
<1>6. Arrival' /\ Len(handled') = n + 1
  <2>1. msg \in [id : Int, payload : Seq(Int)]
    BY <1>4, <1>5
  <2> QED
    BY <1>1, <1>5, <2>1, HandleStep DEF IInv, m, n
<1>7. n \in Nat
  BY DEF IInv, Arrival, Typed, n
<1>8. Told' = Told \cup m.announced
  BY <1>1, <1>6, <1>7, ToldGrows DEF m, n
<1>9. /\ bitfield_ \in Seq(SUBSET (0 .. 7)) /\ Len(bitfield_) >= (NPieces + 6) \div 8
      /\ terminator \in SUBSET (0 .. 7)
      /\ AvailabilityIsAnnounced
  BY DEF IInv, Announced
<1>10. m.id # BitField
  <2>1. n # 0
    BY <1>1, <1>7 DEF IInv, Announced, Arrival, Typed, n
  <2> QED
    BY <1>2, <1>7, <2>1 DEF IInv, Announced, m
<1>11. m.id # Have => Told' = Told
  <2>1. m.id # Have => m.announced = {}
    BY <1>2, <1>10, SaidKinds
  <2> QED
    BY <1>8, <2>1
<1>12. /\ bitfield_' \in Seq(SUBSET (0 .. 7)) /\ Len(bitfield_') >= (NPieces + 6) \div 8
       /\ terminator' \in SUBSET (0 .. 7)
       /\ AvailabilityIsAnnounced'
  <2>1. CASE msg.id = Have /\ SetPieceAvailability(BytesToInt(msg.payload))
    <3>1. m.id = Have /\ msg.payload = m.payload
      BY <1>5, <2>1
    <3>2. PICK i \in Pieces : m.payload = IntToBytes(i) /\ m.announced = {i}
      BY <1>2, <3>1, SaidKinds
    <3>3. BytesToInt(msg.payload) = i
      BY <3>1, <3>2, SomeNumbers, NumberBytes
    <3>4. Told' = Told \cup {i} /\ SetPieceAvailability(i)
      BY <1>8, <2>1, <3>2, <3>3
    <3> QED
      BY <1>9, <3>4, HearHave
  <2>2. CASE msg.id # Have /\ UNCHANGED <<bitfield_, terminator>>
    <3>1. Told' = Told
      BY <1>5, <1>11, <2>2
    <3> QED
      BY <1>9, <2>2, <3>1 DEF AvailabilityIsAnnounced, IsPieceAvailable
  <2> QED
    BY <1>3, <2>1, <2>2 DEF Have, PieceId
<1>13. handled' # <<>>
  BY <1>6, <1>7
<1>14. Announced'
  BY <1>1, <1>12, <1>13 DEF IInv, Announced
<1>15. Placed'
  <2>1. CASE UNCHANGED blocks
    BY <2>1 DEF IInv, Placed, BlocksAreOfFile
  <2>2. CASE /\ msg.id = PieceId
             /\ blocks' = [blocks EXCEPT ![Begin(msg.payload) \div BLOCK_SIZE] = Data(msg.payload)]
    <3>1. PICK b \in Blocks : m = Answer(b)
      BY <1>2, <1>5, <2>2, SaidKinds
    <3>2. /\ Begin(msg.payload) \div BLOCK_SIZE = b
          /\ Data(msg.payload) = File(Offset(b), BlockLength(b))
      BY <1>5, <3>1, AnswerFields
    <3> DEFINE d == File(Offset(b), BlockLength(b))
    <3>3. d \in Seq(Int)
      BY SomeNumbers, FileFacts DEF Numbers
    <3>4. blocks' = [blocks EXCEPT ![b] = d]
      BY <2>2, <3>2
    <3> HIDE DEF d
    <3>5. /\ blocks' \in [Blocks -> Seq(Int)]
          /\ \A c \in Blocks : blocks'[c] = IF c = b THEN d ELSE blocks[c]
      BY <3>3, <3>4 DEF IInv, Placed
    <3>6. ASSUME NEW c \in Blocks, blocks'[c] # Missing
          PROVE  blocks'[c] = File(Offset(c), BlockLength(c))
      <4>1. CASE c = b
        BY <3>5, <4>1 DEF d
      <4>2. CASE c # b
        BY <3>5, <3>6, <4>2 DEF IInv, Placed, BlocksAreOfFile, Blocks
      <4> QED
        BY <4>1, <4>2
    <3> QED
      BY <3>5, <3>6 DEF Placed, BlocksAreOfFile, Blocks
  <2> QED
    BY <1>3, <2>1, <2>2
<1> QED
  BY <1>6, <1>14, <1>15 DEF IInv

\* A BitField message only comes first.
LEMMA RemoteAnnouncesStep == IInv /\ RemoteAnnounces => IInv'
<1> SUFFICES ASSUME IInv, RemoteAnnounces
             PROVE  IInv'
  OBVIOUS
<1>1. PICK m \in Announcements : Send(m)
  BY DEF RemoteAnnounces
<1>2. m \in Said /\ (m.id = BitField => sent = <<>>)
  <2>1. CASE \E i \in Haves : m = Tells(i)
    <3>1. m.id = Have
      BY <2>1 DEF Tells, Says
    <3> QED
      BY <2>1, <3>1 DEF Said, Have, BitField
  <2>2. CASE \E id \in {Unchoke, KeepAlive} : m = Says(id, <<>>, {})
    <3>1. m.id \in {Unchoke, KeepAlive}
      BY <2>2 DEF Says
    <3> QED
      BY <2>2, <3>1 DEF Said, Unchoke, KeepAlive, BitField
  <2>3. CASE m \in BitFields /\ sent = <<>>
    BY <2>3 DEF Said
  <2> QED
    BY <2>1, <2>2, <2>3 DEF Announcements, Tells
<1>3. Requested'
  BY DEF RemoteAnnounces, IInv, Arrival, Requested
<1>4. UNCHANGED <<stage, arrived, position, handled, bitfield_, terminator, blocks>>
  BY DEF RemoteAnnounces
<1> QED
  BY <1>1, <1>2, <1>3, <1>4, SendStays

\* The remote finds in the request what the code has put there.
LEMMA RemoteAnswersStep == IInv /\ RemoteAnswers => IInv'
<1> SUFFICES ASSUME IInv, RemoteAnswers
             PROVE  IInv'
  OBVIOUS
<1>1. PICK b \in Blocks : request = Asks(b)
  BY DEF RemoteAnswers, IInv, Arrival, Requested
<1>2. /\ SubSeq(request, 6, 9) = IntToBytes(Index)
      /\ SubSeq(request, 10, 13) = IntToBytes(Offset(b))
      /\ SubSeq(request, 14, 17) = IntToBytes(BlockLength(b))
  BY <1>1, RequestFields, Zenon
<1>3. /\ BigEndian(IntToBytes(Offset(b))) = Offset(b)
      /\ BigEndian(IntToBytes(BlockLength(b))) = BlockLength(b)
  BY SomeNumbers, NumberBytes
<1>4. Send(Answer(b))
  BY <1>2, <1>3, Zenon DEF RemoteAnswers, Answer
<1>5. Answer(b) \in Said
  BY Zenon DEF Said
<1>6. Answer(b).id # BitField
  <2>1. Answer(b).id = PieceId
    BY Zenon DEF Answer, Says
  <2> QED
    BY <2>1 DEF PieceId, BitField
<1>7. Requested'
  BY Zenon DEF RemoteAnswers, Requested
<1>8. UNCHANGED <<stage, arrived, position, handled, bitfield_, terminator, blocks>>
  BY Zenon DEF RemoteAnswers
<1> QED
  BY <1>4, <1>5, <1>6, <1>7, <1>8, SendStays, Zenon

\* Bytes arrive, and nothing is read.
LEMMA ArriveStep == IInv /\ Arrive => IInv'
<1> SUFFICES ASSUME IInv, Arrive
             PROVE  IInv'
  OBVIOUS
<1>1. /\ UNCHANGED <<stage, stream, position, sent, handled, bitfield_, terminator, blocks,
                     pendingBlock_, request>>
      /\ arrived' \in arrived + 1 .. Len(stream)
  BY DEF Arrive
<1>2. Typed'
  BY <1>1 DEF IInv, Arrival, Typed
<1>3. Shaken' /\ Faithful' /\ Requested'
  BY <1>1 DEF IInv, Arrival, Shaken, Faithful, Requested
<1>4. Streamed'
  BY <1>1 DEF IInv, Arrival, Streamed, Ends
<1>5. Announced'
  BY <1>1 DEF IInv, Announced, AvailabilityIsAnnounced, IsPieceAvailable, Told
<1>6. Placed'
  BY <1>1 DEF IInv, Placed, BlocksAreOfFile
<1> QED
  BY <1>2, <1>3, <1>4, <1>5, <1>6 DEF IInv, Arrival

\* Behind the handshake begins the first message.
LEMMA PerformHandshakeStep == IInv /\ PerformHandshake => IInv'
<1> SUFFICES ASSUME IInv, PerformHandshake
             PROVE  IInv'
  OBVIOUS
<1>1. /\ UNCHANGED <<stream, arrived, sent, handled, bitfield_, terminator, blocks,
                     pendingBlock_, request>>
      /\ stage = "handshake" /\ position' = HandshakeSize
      /\ stage' = IF stream[1] = 19 /\ stream[2] = Protocol /\ stream[4] = InfoHash
                  THEN "bitfield" ELSE "over"
  BY DEF PerformHandshake
<1>2. Typed'
  BY <1>1 DEF IInv, Arrival, Typed, HandshakeSize
<1>3. Shaken' /\ Faithful' /\ Requested'
  BY <1>1 DEF IInv, Arrival, Shaken, Faithful, Requested
<1>4. Streamed'
  <2>1. PICK ends : Ends(ends)
    BY DEF IInv, Arrival, Streamed
  <2>2. Ends(ends)'
    BY <1>1, <2>1 DEF Ends
  <2>3. Len(handled') = 0
    BY <1>1 DEF IInv, Arrival, Shaken
  <2> QED
    BY <1>1, <2>1, <2>2, <2>3 DEF Streamed, Ends
<1>5. Announced'
  BY <1>1 DEF IInv, Announced, AvailabilityIsAnnounced, IsPieceAvailable, Told
<1>6. Placed'
  BY <1>1 DEF IInv, Placed, BlocksAreOfFile
<1> QED
  BY <1>2, <1>3, <1>4, <1>5, <1>6 DEF IInv, Arrival

\* Who has lost bytes reads no more.
LEMMA ReceiveFailsStep == IInv /\ ReceiveFails => IInv'
<1> SUFFICES ASSUME IInv, ReceiveFails
             PROVE  IInv'
  OBVIOUS
<1>1. /\ UNCHANGED <<stream, arrived, sent, handled, bitfield_, terminator, blocks,
                     pendingBlock_, request>>
      /\ stage' = "over" /\ position' = arrived
  BY DEF ReceiveFails
<1>2. Typed'
  BY <1>1 DEF IInv, Arrival, Typed
<1>3. Shaken' /\ Faithful' /\ Requested'
  BY <1>1 DEF IInv, Arrival, Shaken, Faithful, Requested
<1>4. Streamed'
  BY <1>1 DEF IInv, Arrival, Streamed, Ends
<1>5. Announced'
  BY <1>1 DEF IInv, Announced, AvailabilityIsAnnounced, IsPieceAvailable, Told
<1>6. Placed'
  BY <1>1 DEF IInv, Placed, BlocksAreOfFile
<1> QED
  BY <1>2, <1>3, <1>4, <1>5, <1>6 DEF IInv, Arrival

\* The block that is asked for is one of the piece.
LEMMA FirstMissing ==
  ASSUME MissingBlocks # {}
  PROVE  FirstMissingBlock \in Blocks
<1>1. BlockCount \in Int
  BY LengthAssumption DEF BlockCount
<1>2. MissingBlocks \in SUBSET Nat
  BY <1>1 DEF MissingBlocks
<1>3. IsFiniteSet(MissingBlocks)
  <2>1. IsFiniteSet(0 .. BlockCount - 1)
    BY <1>1, FS_Interval
  <2>2. MissingBlocks \subseteq 0 .. BlockCount - 1
    BY DEF MissingBlocks
  <2> QED
    BY <2>1, <2>2, FS_Subset, Zenon
<1>4. \E b \in MissingBlocks : \A c \in MissingBlocks : b <= c
  BY <1>2, <1>3, LeastElement
<1>5. FirstMissingBlock \in MissingBlocks
  BY <1>4 DEF FirstMissingBlock
<1> QED
  BY <1>5 DEF MissingBlocks, Blocks

\* What is asked for is a block.
LEMMA RequestPieceStep == IInv /\ RequestPiece => IInv'
<1> SUFFICES ASSUME IInv, RequestPiece
             PROVE  IInv'
  OBVIOUS
<1>1. UNCHANGED <<stage, stream, arrived, position, sent, handled, bitfield_, terminator, blocks>>
  BY Zenon DEF RequestPiece
<1>2. Requested'
  <2>1. FirstMissingBlock \in Blocks
    BY FirstMissing DEF RequestPiece
  <2>2. request' = Asks(FirstMissingBlock)
    BY Zenon DEF RequestPiece, Asks
  <2> QED
    BY <2>1, <2>2, Zenon DEF Requested
<1>3. Typed' /\ Shaken' /\ Faithful'
  BY <1>1 DEF IInv, Arrival, Typed, Shaken, Faithful
<1>4. Streamed'
  BY <1>1 DEF IInv, Arrival, Streamed, Ends
<1>5. Announced'
  BY <1>1 DEF IInv, Announced, AvailabilityIsAnnounced, IsPieceAvailable, Told
<1>6. Placed'
  BY <1>1 DEF IInv, Placed, BlocksAreOfFile
<1> QED
  BY <1>2, <1>3, <1>4, <1>5, <1>6 DEF IInv, Arrival

\* A step that changes nothing.
LEMMA StutterStep == IInv /\ UNCHANGED vars => IInv'
<1> SUFFICES ASSUME IInv, UNCHANGED vars
             PROVE  IInv'
  OBVIOUS
<1>1. UNCHANGED <<stage, stream, arrived, position, sent, handled, bitfield_, terminator, blocks,
                  request>>
  BY DEF vars
<1>2. Typed' /\ Shaken' /\ Faithful' /\ Requested'
  BY <1>1 DEF IInv, Arrival, Typed, Shaken, Faithful, Requested
<1>3. Streamed'
  BY <1>1 DEF IInv, Arrival, Streamed, Ends
<1>4. Announced'
  BY <1>1 DEF IInv, Announced, AvailabilityIsAnnounced, IsPieceAvailable, Told
<1>5. Placed'
  BY <1>1 DEF IInv, Placed, BlocksAreOfFile
<1> QED
  BY <1>2, <1>3, <1>4, <1>5 DEF IInv, Arrival

-----------------------------------------------------------------------------

\* No step of the connection or of the remote breaks the inductive invariant.
THEOREM Invariance == IInv /\ [Next]_vars => IInv'
<1>1. Over => UNCHANGED vars
  BY DEF Over
<1> QED
  BY <1>1, PerformHandshakeStep, ReceiveBitfieldStep, RequestPieceStep, ReceiveMessageStep,
     ReceiveFailsStep, RemoteAnnouncesStep, RemoteAnswersStep, ArriveStep, StutterStep, Zenon DEF Next

-----------------------------------------------------------------------------
(* The blocks, one behind the other *)

\* How many bytes the first i blocks are.
BytesOf(i) == IF i = BlockCount THEN PieceLength ELSE i * BLOCK_SIZE

\* A part of the file, and the part behind it.
LEMMA FileParts ==
  ASSUME NEW m \in Nat, NEW n \in Nat
  PROVE  File(0, m) \o File(m, n) = File(0, m + n)
<1> DEFINE u == File(0, m)
           v == File(m, n)
           t == File(0, m + n)
<1>1. u \in Seq(Int) /\ Len(u) = m /\ \A k \in 1 .. m : u[k] = (0 + k) % 256
  BY FileFacts
<1>2. v \in Seq(Int) /\ Len(v) = n /\ \A k \in 1 .. n : v[k] = (m + k) % 256
  BY FileFacts
<1>3. t \in Seq(Int) /\ Len(t) = m + n /\ \A k \in 1 .. m + n : t[k] = (0 + k) % 256
  <2>1. 0 \in Nat /\ m + n \in Nat
    OBVIOUS
  <2> QED
    BY <2>1, FileFacts, Zenon
<1> HIDE DEF u, v, t
<1> DEFINE w == u \o v
<1>4. /\ w \in Seq(Int)
      /\ Len(w) = Len(u) + Len(v)
      /\ \A k \in 1 .. Len(u) : w[k] = u[k]
      /\ \A k \in 1 .. Len(v) : w[Len(u) + k] = v[k]
  BY <1>1, <1>2, Concat, ZenonT(40)
<1>5. w \in Seq(Int) /\ Len(w) = Len(u) + Len(v)
  BY <1>4, Zenon
<1>6. /\ \A k \in 1 .. m : w[k] = u[k]
      /\ \A k \in 1 .. n : w[m + k] = v[k]
  BY <1>1, <1>2, <1>4, Zenon
<1> HIDE DEF w
<1>7. ASSUME NEW k \in 1 .. m + n
      PROVE  w[k] = t[k]
  <2>1. CASE k \in 1 .. m
    BY <1>1, <1>3, <1>6, <2>1
  <2>2. CASE k \notin 1 .. m
    <3> DEFINE j == k - m
    <3>1. j \in 1 .. n /\ m + j = k /\ 0 + k = k
      BY <2>2
    <3> HIDE DEF j
    <3>2. w[k] = v[j] /\ v[j] = (m + j) % 256 /\ t[k] = (0 + k) % 256
      BY <1>2, <1>3, <1>6, <3>1, ZenonT(40)
    <3> QED
      BY <3>1, <3>2, Zenon
  <2> QED
    BY <2>1, <2>2
<1>8. w = t
  BY <1>1, <1>2, <1>3, <1>5, <1>7
<1> QED
  BY <1>8 DEF w, u, v, t

\* Block i - 1 goes on where the blocks before end, and ends where the next begins.
LEMMA NextBlock ==
  ASSUME NEW i \in 1 .. BlockCount
  PROVE  /\ i - 1 \in Blocks
         /\ BytesOf(i) \in Nat
         /\ i = 1 => Offset(i - 1) = 0
         /\ i # 1 => BytesOf(i - 1) = Offset(i - 1)
         /\ Offset(i - 1) \in Nat /\ BlockLength(i - 1) \in Nat
         /\ Offset(i - 1) + BlockLength(i - 1) = BytesOf(i)
<1> DEFINE d == BLOCK_SIZE
           q == BlockCount
<1>1. d \in Nat \ {0} /\ PieceLength \in Nat \ {0}
  BY LengthAssumption
<1>2. q \in Nat /\ q * d <= PieceLength + d - 1 /\ PieceLength + d - 1 < q * d + d
  BY <1>1, Division DEF BlockCount
<1> HIDE DEF q
<1>3. i \in Nat /\ i >= 1 /\ i <= q /\ i - 1 \in Blocks
  BY <1>2 DEF Blocks, q
<1>4. /\ Offset(i - 1) \in 0 .. PieceLength - 1
      /\ BlockLength(i - 1) \in 1 .. PieceLength
  BY <1>3, BlockFacts DEF Blocks
<1>5. Offset(i - 1) = i * d - d /\ i * d \in Nat /\ (i = 1 => i * d = d)
  BY <1>1, <1>3 DEF Offset
<1>6. CASE i = q
  <2>1. i * d - d + d >= PieceLength
    BY <1>1, <1>2, <1>5, <1>6
  <2> QED
    BY <1>1, <1>3, <1>4, <1>5, <1>6, <2>1 DEF BytesOf, BlockLength, q, Offset
<1>7. CASE i # q
  <2>1. i <= q - 1
    BY <1>2, <1>3, <1>7
  <2>2. i * d <= q * d - d
    <3>1. i * d <= (q - 1) * d
      BY <1>1, <1>2, <1>3, <2>1
    <3>2. (q - 1) * d = q * d - d
      BY <1>1, <1>2
    <3> QED
      BY <3>1, <3>2
  <2>3. i * d < PieceLength
    BY <1>1, <1>2, <1>5, <2>2
  <2> QED
    BY <1>1, <1>3, <1>4, <1>5, <1>7, <2>3 DEF BytesOf, BlockLength, q, Offset
<1> QED
  BY <1>6, <1>7

\* Blocks that hold their parts of the file are the piece, one behind the other.
LEMMA BlocksArePiece ==
  ASSUME \A b \in Blocks : blocks[b] = File(Offset(b), BlockLength(b))
  PROVE  GetData = File(0, PieceLength)
<1> DEFINE n == BlockCount
           seqs == [k \in 1 .. n |-> blocks[k - 1]]
           w == [i \in 1 .. n |-> File(0, BytesOf(i))]
<1>1. n \in Nat \ {0}
  <2>1. BLOCK_SIZE \in Nat \ {0} /\ PieceLength \in Nat \ {0}
    BY LengthAssumption
  <2>2. n \in Nat /\ PieceLength + BLOCK_SIZE - 1 < n * BLOCK_SIZE + BLOCK_SIZE
    BY <2>1, Division DEF BlockCount
  <2> QED
    BY <2>1, <2>2
<1>2. Len(seqs) = n
  BY <1>1
<1>3. ASSUME NEW i \in 1 .. n
      PROVE  w[i] = IF i = 1 THEN seqs[i] ELSE w[i - 1] \o seqs[i]
  <2>1. /\ i - 1 \in Blocks /\ BytesOf(i) \in Nat
        /\ i = 1 => Offset(i - 1) = 0
        /\ i # 1 => BytesOf(i - 1) = Offset(i - 1)
        /\ Offset(i - 1) \in Nat /\ BlockLength(i - 1) \in Nat
        /\ Offset(i - 1) + BlockLength(i - 1) = BytesOf(i)
    BY NextBlock
  <2>2. seqs[i] = File(Offset(i - 1), BlockLength(i - 1))
    BY <2>1, Zenon
  <2>3. CASE i = 1
    <3>1. Offset(i - 1) = 0 /\ BlockLength(i - 1) = BytesOf(i)
      BY <2>1, <2>3
    <3> QED
      BY <2>2, <2>3, <3>1, Zenon
  <2>4. CASE i # 1
    <3>1. i - 1 \in 1 .. n
      BY <1>1, <2>4
    <3>2. w[i - 1] = File(0, Offset(i - 1))
      BY <2>1, <2>4, <3>1, Zenon
    <3>3. File(0, Offset(i - 1)) \o seqs[i] = File(0, BytesOf(i))
      BY <2>1, <2>2, FileParts, Zenon
    <3> QED
      BY <2>4, <3>2, <3>3, Zenon
  <2> QED
    BY <2>3, <2>4
<1>4. w[n] = File(0, PieceLength)
  BY <1>1 DEF BytesOf
<1>5. GetData = FlattenSeq(seqs)
  BY DEF GetData
<1> HIDE DEF seqs, w, n
<1>6. FlattenSeq(seqs) = w[n]
  BY <1>1, <1>2, <1>3, FlattenIs
<1> QED
  BY <1>4, <1>5, <1>6, Zenon

-----------------------------------------------------------------------------
(* The theorems *)

\* IInv holds in every state.
LEMMA Inductive == Spec => []IInv
BY Initially, Invariance, PTL DEF Spec

\* For a file, blocks and messages of every size: what is handled is what was sent, in
\* order and whole, by a remote that has given the right handshake.
THEOREM MessagesAsSent == Spec => []MessagesArriveAsSent
<1>1. IInv => MessagesArriveAsSent
  <2> SUFFICES ASSUME IInv
               PROVE  MessagesArriveAsSent
    OBVIOUS
  <2>1. ASSUME handled # <<>>
        PROVE  SubSeq(stream, 1, HandshakeSize) = Handshake(19, Protocol, InfoHash)
    <3> DEFINE s == Handshake(19, Protocol, InfoHash)
    <3>1. /\ s \in Seq(Int) /\ Len(s) = 5
          /\ s[1] = 19 /\ s[2] = Protocol /\ s[3] = 0 /\ s[4] = InfoHash /\ s[5] = 0
      BY DEF Handshake, Protocol, InfoHash
    <3>2. /\ stream \in Seq(Int) /\ Len(stream) >= 5
          /\ stream[1] = 19 /\ stream[2] = Protocol /\ stream[3] = 0
          /\ stream[4] = InfoHash /\ stream[5] = 0
      BY <2>1 DEF IInv, Arrival, Typed, Shaken, HandshakeSize
    <3> HIDE DEF s
    <3>3. \A k \in 1 .. Len(s) : stream[0 + k] = s[k]
      BY <3>1, <3>2, SMTT(30)
    <3>4. SubSeq(stream, 0 + 1, 5) = s
      BY <3>1, <3>2, <3>3, SubSeqIs, SMTT(30)
    <3> QED
      BY <3>4 DEF s, HandshakeSize
  <2>2. Faithful
    BY DEF IInv, Arrival
  <2> QED
    BY <2>1, <2>2 DEF Faithful, MessagesArriveAsSent
<1> QED
  BY <1>1, Inductive, PTL

\* A piece is taken for available if the remote has announced it and only then, for
\* every number of pieces; only the last may be forgotten.
THEOREM AvailabilityAnnounced == Spec => []AvailabilityIsAnnounced
<1>1. IInv => AvailabilityIsAnnounced
  BY DEF IInv, Announced
<1> QED
  BY <1>1, Inductive, PTL

\* For every length of a piece and of a block: what a block holds are the bytes of the
\* remote's file from its offset on, as many as it has.
THEOREM BlocksOfFile == Spec => []BlocksAreOfFile
<1>1. IInv => BlocksAreOfFile
  BY DEF IInv, Placed
<1> QED
  BY <1>1, Inductive, PTL

\* For every length of a piece and of a block: the blocks, none of them missing, are the
\* bytes of the piece and nothing else.
THEOREM PieceOfFile == Spec => []PieceIsOfFile
<1>1. IInv => PieceIsOfFile
  <2> SUFFICES ASSUME IInv, MissingBlocks = {}
               PROVE  GetData = File(0, PieceLength)
    BY DEF PieceIsOfFile
  <2>1. \A b \in Blocks : blocks[b] = File(Offset(b), BlockLength(b))
    BY DEF IInv, Placed, BlocksAreOfFile, MissingBlocks, Blocks
  <2> QED
    BY <2>1, BlocksArePiece
<1> QED
  BY <1>1, Inductive, PTL
=============================================================================
