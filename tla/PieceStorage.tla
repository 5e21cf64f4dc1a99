----------------------------- MODULE PieceStorage -----------------------------
(***************************************************************************)
(* The work queue and the output file shared by all the peer threads:      *)
(* class PieceStorage.  Every method takes the mutex m_ for its whole body *)
(* so that each operator below is one atomic step of its caller.           *)
(***************************************************************************)
EXTENDS Piece, Sequences, FiniteSets

CONSTANTS
  NPieces,     \* the constructor's `count`, kept as pieces_cnt
  BlockCount,  \* blocks of each piece: the length divided by BLOCK_SIZE, rounded up
  Sound,       \* pieces created with the true length and hash of the file
  DiskFails    \* whether the output file may refuse to be opened or written

Pieces == 0 .. NPieces - 1

\* With no piece there is nothing to download and main's loop ends at once.
ASSUME NPiecesAssumption == NPieces \in Nat \ {0}
ASSUME BlockCountAssumption == BlockCount \in [Pieces -> Nat \ {0}]
ASSUME SoundAssumption == Sound \subseteq Pieces
ASSUME DiskAssumption == DiskFails \in BOOLEAN

VARIABLES
  pieces,        \* the heap objects behind the PiecePtr's, by index
  remainPieces_, \* std::queue of pieces nobody has taken yet
  saved_,        \* std::vector of the indices written, in order of writing
  outputFile_,   \* the state of the ofstream: once it has failed, it stays so
  disk           \* the region of the output file of each piece

fileVars == <<saved_, outputFile_, disk>>
storageVars == <<pieces, remainPieces_, fileVars>>

StorageTypeOK ==
  /\ pieces = [i \in Pieces |-> pieces[i]]
  /\ \A i \in Pieces : pieces[i] \in PieceOfSize(BlockCount[i])
  /\ remainPieces_ \in Seq(Pieces)
  /\ saved_ \in Seq(Pieces)
  /\ outputFile_ \in {"good", "failed"}
  /\ disk \in [Pieces -> {"Hole", "Good", "Bad"}]

StorageInit ==
  /\ pieces = [i \in Pieces |-> NewPiece(BlockCount[i])]
  /\ remainPieces_ = [k \in 1 .. NPieces |-> k - 1]
  /\ saved_ = <<>>
  /\ outputFile_ \in IF DiskFails THEN {"good", "failed"} ELSE {"good"}
  /\ disk = [i \in Pieces |-> "Hole"]

QueueIsEmpty == remainPieces_ = <<>>

\* The piece that GetNextPieceToDownload returns ...
NextPiece == IF QueueIsEmpty THEN Null ELSE Head(remainPieces_)

\* Mutant: front() without pop(), so that the next caller gets the same piece.
PopNextPiece_OnlyFront == UNCHANGED remainPieces_

\* ... and what it does to the queue.
PopNextPiece ==
  remainPieces_' = IF QueueIsEmpty THEN remainPieces_ ELSE Tail(remainPieces_)

PiecesSavedToDiscCount == Len(saved_)

\* A size_t in the code: InProgressNeverWraps says that it is never negative.
PiecesInProgressCount == NPieces - Len(remainPieces_) - Len(saved_)

\* Mutant: written at the place of the next piece to finish, not at its own.
SavePieceToDisk_InOrderOfArrival(i, piece) ==
  /\ disk' = [disk EXCEPT ![Len(saved_)] = GetData(piece)]
  /\ saved_' = Append(saved_, i)
  /\ UNCHANGED outputFile_

\* Mutant: the index is recorded twice.
SavePieceToDisk_Twice(i, piece) ==
  /\ disk' = [disk EXCEPT ![i] = GetData(piece)]
  /\ saved_' = saved_ \o <<i, i>>
  /\ UNCHANGED outputFile_

\* PieceProcessed: the piece as it is at the call, written at its own offset.
\* Nobody asks whether the stream took it; a failed one takes nothing.
SavePieceToDisk(i, piece) ==
  /\ saved_' = Append(saved_, i)
  /\ \/ /\ outputFile_ = "good"
        /\ disk' = [disk EXCEPT ![i] = GetData(piece)]
        /\ UNCHANGED outputFile_
     \/ /\ DiskFails
        /\ outputFile_' = "failed"
        /\ UNCHANGED disk
=============================================================================
