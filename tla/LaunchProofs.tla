----------------------------- MODULE LaunchProofs -----------------------------
(***************************************************************************)
(* What holds of Launch for every file length, piece length and option -p. *)
(***************************************************************************)
EXTENDS Launch, TLAPS

\* The numbers of pieces are natural numbers.
LEMMA PieceCounts ==
  ASSUME length \in Nat, pieceLength \in Nat \ {0}, procent \in Nat
  PROVE  PiecesToDownload \in Nat /\ pieces_cnt \in Nat
<1>1. PiecesToDownload \in Nat
  BY DEF PiecesToDownload
<1>2. PiecesToDownload * procent \in Nat
  BY <1>1
<1> QED
  BY <1>1, <1>2 DEF pieces_cnt

\* The hashes that are loaded are digests of the file.
LEMMA LoadTypes ==
  ASSUME TypeOK, length \in Nat, pieceLength \in Nat \ {0}, procent \in Nat, LoadTorrentFile
  PROVE  pieceHashes' \in Seq(Nat)
<1>1. PiecesToDownload \in Nat
  BY PieceCounts
<1>2. Digests \in Seq(Nat) /\ Len(Digests) = PiecesToDownload
  BY <1>1 DEF Digests
<1>3. CASE PiecesToDownload = 0
  BY <1>3 DEF LoadTorrentFile, TypeOK
<1>4. CASE PiecesToDownload # 0
  <2>1. pieceHashes' = SubSeq(Digests, 1, PiecesToDownload - 1)
    BY <1>4 DEF LoadTorrentFile, LoadedHashes
  <2> QED
    BY <1>1, <1>2, <1>4, <2>1
<1> QED
  BY <1>3, <1>4

\* The constructor makes pieces of some length, with a digest or without.
LEMMA ConstructTypes ==
  ASSUME TypeOK, length \in Nat, pieceLength \in Nat \ {0}, procent \in Nat, PieceStorage
  PROVE  created' \in Seq([length : Nat, hash : Nat \cup {NoDigest}])
<1> DEFINE P == [length : Nat, hash : Nat \cup {NoDigest}]
<1>1. pieces_cnt \in Nat
  BY PieceCounts
<1>2. ASSUME NEW k \in 1 .. pieces_cnt
      PROVE  CreatedPiece(k - 1) \in P
  <2>1. length % pieceLength \in Nat
    OBVIOUS
  <2>2. k - 1 \in Nat
    BY <1>1
  <2>3. k - 1 < Len(pieceHashes) => pieceHashes[(k - 1) + 1] \in Nat
    BY <1>1, <2>2 DEF TypeOK
  <2> QED
    BY <2>1, <2>3 DEF CreatedPiece
<1>3. CASE created' = [k \in 1 .. pieces_cnt |-> CreatedPiece(k - 1)]
  <2> HIDE DEF P
  <2>1. created' \in [1 .. pieces_cnt -> P]
    BY <1>2, <1>3
  <2>2. created' \in Seq(P)
    BY <1>1, <2>1
  <2> QED
    BY <2>2 DEF P
<1>4. CASE UNCHANGED created
  BY <1>4 DEF TypeOK
<1> QED
  BY <1>3, <1>4 DEF PieceStorage

\* Every variable keeps to its type, from the loading of the torrent to the check.
THEOREM TypeCorrect == Spec => []TypeOK
<1>1. Init => TypeOK
  BY DEF Init, TypeOK
<1>2. TypeOK /\ [Next]_vars => TypeOK'
  <2> SUFFICES ASSUME TypeOK, [Next]_vars
               PROVE  TypeOK'
    OBVIOUS
  <2>1. length \in Nat /\ pieceLength \in Nat \ {0} /\ procent \in Nat
    BY LengthsAssumption, PieceLengthsAssumption, PercentsAssumption DEF TypeOK
  <2>2. CASE LoadTorrentFile
    BY <2>1, <2>2, LoadTypes DEF LoadTorrentFile, TypeOK, inputVars
  <2>3. CASE PieceStorage
    BY <2>1, <2>3, ConstructTypes DEF PieceStorage, TypeOK, inputVars
  <2>4. CASE DownloadTorrentFile
    BY <2>4 DEF DownloadTorrentFile, TypeOK, inputVars
  <2>5. CASE CheckDownloadedPiecesIntegrity
    BY <2>5 DEF CheckDownloadedPiecesIntegrity, TypeOK, inputVars
  <2>6. CASE TrackerFails
    BY <2>6 DEF TrackerFails, TypeOK, inputVars
  <2>7. CASE UNCHANGED vars
    BY <2>7 DEF TypeOK, vars, inputVars
  <2> QED
    BY <2>2, <2>3, <2>4, <2>5, <2>6, <2>7 DEF Next, Waits, Ended
<1> QED
  BY <1>1, <1>2, PTL DEF Spec

-----------------------------------------------------------------------------

\* Each piece the constructor makes is of pieceLength, but the one with the last hash,
\* which may be shorter and is not empty.
LEMMA ConstructedLengths ==
  ASSUME TypeOK, PiecesHaveBlocks, PieceStorage
  PROVE  PiecesHaveBlocks'
<1>1. /\ length \in Nat /\ pieceLength \in Nat \ {0} /\ procent \in Nat
      /\ pieceLength' = pieceLength
  BY LengthsAssumption, PieceLengthsAssumption, PercentsAssumption
  DEF TypeOK, PieceStorage, inputVars
<1>2. pieces_cnt \in Nat /\ Len(pieceHashes) \in Nat
  BY <1>1, PieceCounts DEF TypeOK
<1>3. ASSUME NEW i \in Nat
      PROVE  /\ CreatedPiece(i).length \in 1 .. pieceLength
             /\ CreatedPiece(i).length # pieceLength => i = Len(pieceHashes) - 1
  <2>1. length % pieceLength \in 0 .. pieceLength - 1
    BY <1>1
  <2>2. CASE i = Len(pieceHashes) - 1 /\ length % pieceLength # 0
    BY <1>1, <2>1, <2>2 DEF CreatedPiece
  <2>3. CASE ~(i = Len(pieceHashes) - 1 /\ length % pieceLength # 0)
    BY <1>1, <2>3 DEF CreatedPiece
  <2> QED
    BY <2>2, <2>3
<1>4. CASE created' = [k \in 1 .. pieces_cnt |-> CreatedPiece(k - 1)]
  <2>1. Len(created') = pieces_cnt
    BY <1>2, <1>4
  <2>2. \A k \in 1 .. pieces_cnt : k - 1 \in Nat /\ created'[k] = CreatedPiece(k - 1)
    BY <1>2, <1>4
  <2>3. \A k \in 1 .. pieces_cnt :
          /\ created'[k].length \in 1 .. pieceLength
          /\ created'[k].length # pieceLength => k - 1 = Len(pieceHashes) - 1
    BY <1>3, <2>2
  <2>4. \A k \in 1 .. pieces_cnt : created'[k].length # pieceLength => k = Len(pieceHashes)
    BY <1>2, <2>3
  <2> QED
    BY <1>1, <2>1, <2>3, <2>4 DEF PiecesHaveBlocks
<1>5. CASE UNCHANGED created
  BY <1>1, <1>5 DEF PiecesHaveBlocks
<1> QED
  BY <1>4, <1>5 DEF PieceStorage

\* Whatever the length of the file, the length of a piece and the option -p, no piece
\* of the storage is without a block, and one at most is not of pieceLength.
THEOREM BlocksToAskFor == Spec => []PiecesHaveBlocks
<1>1. Init => PiecesHaveBlocks
  BY DEF Init, PiecesHaveBlocks
<1>2. TypeOK /\ PiecesHaveBlocks /\ [Next]_vars => PiecesHaveBlocks'
  <2> SUFFICES ASSUME TypeOK, PiecesHaveBlocks, [Next]_vars
               PROVE  PiecesHaveBlocks'
    OBVIOUS
  <2>1. CASE PieceStorage
    BY <2>1, ConstructedLengths
  <2>2. CASE ~PieceStorage
    <3>1. UNCHANGED <<created, pieceLength>>
      BY <2>2 DEF Next, LoadTorrentFile, DownloadTorrentFile, TrackerFails, Waits,
                  CheckDownloadedPiecesIntegrity, Ended, vars, inputVars
    <3> QED
      BY <3>1 DEF PiecesHaveBlocks
  <2> QED
    BY <2>1, <2>2
<1> QED
  BY <1>1, <1>2, TypeCorrect, PTL DEF Spec
=============================================================================
