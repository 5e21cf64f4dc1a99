-------------------------------- MODULE Piece --------------------------------
(***************************************************************************)
(* One part of the downloaded file: class Piece (piece_storage/piece.h and *)
(* piece.cpp) as a value and pure operators on it.                         *)
(*                                                                         *)
(* A piece is a record: size stands for blocks_.size(), blocks gives for   *)
(* each block its Status and data, and retrieved_cnt is the counter of     *)
(* SaveBlock calls.  Block b is the one at offset b * BLOCK_SIZE.  Status  *)
(* and data are one value because the code always assigns them together:   *)
(* "Missing" (no data), or retrieved with "Good" bytes (those of the file) *)
(* or "Bad" ones.  The code never assigns Block::Status::Pending.          *)
(***************************************************************************)
EXTENDS Integers

\* The null pointer, for Block* and for PiecePtr.
Null == -1

Missing == "Missing"
BlockData == {"Good", "Bad"}

\* The C++ constructor: every block Missing.
NewPiece(size) ==
  [size |-> size,
   blocks |-> [b \in 0 .. size - 1 |-> Missing],
   retrieved_cnt |-> 0]

MissingBlocks(piece) ==
  {b \in 0 .. piece.size - 1 : piece.blocks[b] = Missing}

RetrievedBlocks(piece) ==
  {b \in 0 .. piece.size - 1 : piece.blocks[b] # Missing}

\* Mutant: the status of the block is not looked at.
FirstMissingBlock_AnyStatus(piece) == 0

FirstMissingBlock(piece) ==
  IF MissingBlocks(piece) = {}
  THEN Null
  ELSE CHOOSE b \in MissingBlocks(piece) :
         \A c \in MissingBlocks(piece) : b <= c

\* The counter moves on every call, whether or not the block was Missing.
SaveBlock(piece, b, data) ==
  [piece EXCEPT !.blocks[b] = data,
                !.retrieved_cnt = @ + 1]

AllBlocksRetrieved(piece) == piece.retrieved_cnt = piece.size

\* What GetData returns, as far as anyone can tell: the bytes of the file or not.
GetData(piece) ==
  IF \A b \in 0 .. piece.size - 1 : piece.blocks[b] = "Good" THEN "Good" ELSE "Bad"

\* Mutant: no comparison of hashes.
HashMatches_Unchecked(piece, sound) == TRUE

\* sound: the piece was built with the length and the hash that the file has there.
HashMatches(piece, sound) == sound /\ GetData(piece) = "Good"

\* Mutant: the counter is reset, the blocks stay retrieved.
Reset_KeepsBlocks(piece) == [piece EXCEPT !.retrieved_cnt = 0]

\* Mutant: the blocks are Missing again, the counter is not reset.
Reset_KeepsCount(piece) ==
  [NewPiece(piece.size) EXCEPT !.retrieved_cnt = piece.retrieved_cnt]

Reset(piece) == NewPiece(piece.size)

\* The values a piece of a given size can take.
PieceOfSize(size) ==
  [size : {size},
   blocks : [0 .. size - 1 -> {Missing} \cup BlockData],
   retrieved_cnt : 0 .. size]
=============================================================================
