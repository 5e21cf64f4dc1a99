-------------------------------- MODULE Launch --------------------------------
(***************************************************************************)
(* TestTorrentFile (main.cpp), around the download: LoadTorrentFile reads  *)
(* the torrent, the constructor of PieceStorage cuts the file into pieces, *)
(* DownloadTorrentFile returns when all of them are saved, and             *)
(* CheckDownloadedPiecesIntegrity reads them back.  What happens inside    *)
(* DownloadTorrentFile is the matter of TorrentClient; here it is one step.*)
(*                                                                         *)
(* The torrent is a well-formed one: its field `pieces` holds the digests  *)
(* of a file of `length` bytes, cut every `pieceLength` bytes.  The digest *)
(* of the piece i of the file is the number i.  procent is the option -p.  *)
(***************************************************************************)
EXTENDS Integers, Sequences

CONSTANTS Lengths, PieceLengths, Percents

ASSUME LengthsAssumption == Lengths \subseteq Nat
ASSUME PieceLengthsAssumption == PieceLengths \subseteq Nat \ {0}
ASSUME PercentsAssumption == Percents \subseteq Nat

VARIABLES
  stage,                         \* where TestTorrentFile stands, or how it ended
  length, pieceLength, procent,
  pieceHashes,                   \* TorrentFile::pieceHashes
  created,                       \* the pieces of the storage, as [length, hash]
  intact                         \* whether the file took every piece saved

inputVars == <<length, pieceLength, procent>>
vars == <<stage, inputVars, pieceHashes, created, intact>>

\* What lies behind the end of pieceHashes is not a digest of the file.
NoDigest == -1

\* PiecesToDownload: the pieces of the file.
PiecesToDownload == (length + pieceLength - 1) \div pieceLength

\* What the constructor of PieceStorage gets, and DownloadTorrentFile waits for.
pieces_cnt == (PiecesToDownload * procent) \div 100

\* The least number of pieces CheckDownloadedPiecesIntegrity accepts.
LeastTotal == 200

TypeOK ==
  /\ stage \in {"load", "construct", "download", "check", "passed", "threw", "crashed"}
  /\ length \in Lengths /\ pieceLength \in PieceLengths /\ procent \in Percents
  /\ pieceHashes \in Seq(Nat)
  /\ created \in Seq([length : Nat, hash : Nat \cup {NoDigest}])
  /\ intact \in BOOLEAN

Init ==
  /\ stage = "load"
  /\ length \in Lengths /\ pieceLength \in PieceLengths /\ procent \in Percents
  /\ pieceHashes = <<>>
  /\ created = <<>>
  /\ intact = TRUE

Digests == [i \in 1 .. PiecesToDownload |-> i - 1]

\* The loop ends 20 bytes, one digest, before the end of the string.
LoadedHashes == SubSeq(Digests, 1, PiecesToDownload - 1)

\* With no digest at all, pieces.size() - 20 wraps around, and substr throws.
LoadTorrentFile ==
  /\ stage = "load"
  /\ IF PiecesToDownload = 0
     THEN stage' = "threw" /\ UNCHANGED pieceHashes
     ELSE stage' = "construct" /\ pieceHashes' = LoadedHashes
  /\ UNCHANGED <<inputVars, created, intact>>

\* Mutant: each piece gets what is left of the file, pieceLength at most.
CreatedPiece_LeftOver(i) ==
  [length |-> IF length - i * pieceLength < pieceLength
              THEN length - i * pieceLength ELSE pieceLength,
   hash |-> IF i < Len(pieceHashes) THEN pieceHashes[i + 1] ELSE NoDigest]

\* Mutant: without the second half of the condition, which a comment calls in question.
CreatedPiece_NoTest(i) ==
  [length |-> IF i = Len(pieceHashes) - 1 THEN length % pieceLength ELSE pieceLength,
   hash |-> IF i < Len(pieceHashes) THEN pieceHashes[i + 1] ELSE NoDigest]

\* The piece with the last hash gets what is left over by the others, if anything.
CreatedPiece(i) ==
  [length |-> IF i = Len(pieceHashes) - 1 /\ length % pieceLength # 0
              THEN length % pieceLength ELSE pieceLength,
   hash |-> IF i < Len(pieceHashes) THEN pieceHashes[i + 1] ELSE NoDigest]

\* Reading behind the end of pieceHashes gives some string, or ends the process.
PieceStorage ==
  /\ stage = "construct"
  /\ \/ /\ stage' = "download"
        /\ created' = [k \in 1 .. pieces_cnt |-> CreatedPiece(k - 1)]
     \/ /\ pieces_cnt > Len(pieceHashes)
        /\ stage' = "crashed"
        /\ UNCHANGED created
  /\ UNCHANGED <<inputVars, pieceHashes, intact>>

\* The piece i of the file.
FilePiece(i) ==
  [length |-> IF i = PiecesToDownload - 1 /\ length % pieceLength # 0
              THEN length % pieceLength ELSE pieceLength,
   hash |-> i]

\* DownloadTorrentFile returns when every piece is saved, and a piece is saved only
\* with the length and the digest that the file has there.
DownloadTorrentFile ==
  /\ stage = "download"
  /\ \A i \in 0 .. pieces_cnt - 1 : created[i + 1] = FilePiece(i)
  /\ intact' \in BOOLEAN
  /\ stage' = "check"
  /\ UNCHANGED <<inputVars, pieceHashes, created>>

\* UpdatePeers throws, in the first round or a later one, and nobody catches it.
TrackerFails ==
  /\ stage = "download"
  /\ stage' = "threw"
  /\ UNCHANGED <<inputVars, pieceHashes, created, intact>>

\* DownloadTorrentFile waits for pieces that never come.
Waits ==
  /\ stage = "download"
  /\ UNCHANGED vars

CheckDownloadedPiecesIntegrity ==
  /\ stage = "check"
  /\ stage' = IF /\ intact
                 /\ pieces_cnt >= PiecesToDownload
                 /\ pieces_cnt = Len(pieceHashes)
                 /\ pieces_cnt >= LeastTotal
                 /\ \A k \in 1 .. pieces_cnt : pieceHashes[k] = k - 1
              THEN "passed" ELSE "threw"
  /\ UNCHANGED <<inputVars, pieceHashes, created, intact>>

Ended ==
  /\ stage \in {"passed", "threw", "crashed"}
  /\ UNCHANGED vars

Next ==
  \/ LoadTorrentFile \/ PieceStorage \/ DownloadTorrentFile \/ TrackerFails \/ Waits
  \/ CheckDownloadedPiecesIntegrity \/ Ended

Spec == Init /\ [][Next]_vars

-----------------------------------------------------------------------------

\* Every piece that is made has blocks to ask for, so that FirstMissingBlock finds one
\* and the piece is not complete before anything is retrieved; and one piece at most is
\* not of pieceLength.  piece_storage.cpp:10 asks whether its second condition is
\* needed: it is, for a file whose pieces are all of pieceLength.
PiecesHaveBlocks ==
  /\ \A k \in 1 .. Len(created) : created[k].length \in 1 .. pieceLength
  /\ \A j, k \in 1 .. Len(created) :
       created[j].length # pieceLength /\ created[k].length # pieceLength => j = k

-----------------------------------------------------------------------------
(* What the comments of the code say, and the code does not do *)

\* piece.h:33: all pieces but the last have pieceLength, and their hash is in the
\* torrent.  torrent_file.cpp:41: each substring of 20 bytes is the digest of the
\* segment with that index.
PiecesAreOfFile ==
  stage = "download" =>
    \A i \in 0 .. pieces_cnt - 1 : i < PiecesToDownload => created[i + 1] = FilePiece(i)
=============================================================================
