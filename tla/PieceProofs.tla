----------------------------- MODULE PieceProofs -----------------------------
(***************************************************************************)
(* What the operators of Piece do, for pieces of every size.               *)
(***************************************************************************)
EXTENDS Piece, DataLemmas

\* retrieved_cnt counts calls of SaveBlock; Counted says that it is the number of
\* retrieved blocks all the same.
Counted(piece) == piece.retrieved_cnt = Cardinality(RetrievedBlocks(piece))

-----------------------------------------------------------------------------

\* The fields of a piece.
LEMMA PieceFields ==
  ASSUME NEW n \in Nat, NEW piece \in PieceOfSize(n)
  PROVE  /\ piece.size = n
         /\ piece.blocks \in [0 .. n - 1 -> {Missing} \cup BlockData]
         /\ piece.retrieved_cnt \in 0 .. n
         /\ MissingBlocks(piece) \subseteq 0 .. n - 1
         /\ IsFiniteSet(RetrievedBlocks(piece))
<1>1. /\ piece.size = n
      /\ piece.blocks \in [0 .. n - 1 -> {Missing} \cup BlockData]
      /\ piece.retrieved_cnt \in 0 .. n
  BY DEF PieceOfSize
<1>2. MissingBlocks(piece) \subseteq 0 .. n - 1
  BY <1>1 DEF MissingBlocks
<1>3. RetrievedBlocks(piece) \in SUBSET (0 .. n - 1)
  BY <1>1 DEF RetrievedBlocks
<1>4. IsFiniteSet(0 .. n - 1)
  BY FS_Interval
<1> QED
  BY <1>1, <1>2, <1>3, <1>4, FS_Subset

\* The constructor, and Reset, which gives back a new piece: nothing is retrieved.
LEMMA NewPieceCounted ==
  ASSUME NEW n \in Nat
  PROVE  /\ NewPiece(n) \in PieceOfSize(n)
         /\ NewPiece(n).retrieved_cnt = 0
         /\ Counted(NewPiece(n))
<1>1. NewPiece(n) \in PieceOfSize(n)
  BY DEF NewPiece, PieceOfSize
<1>2. NewPiece(n).retrieved_cnt = 0
  BY DEF NewPiece
<1>3. RetrievedBlocks(NewPiece(n)) = {}
  BY DEF RetrievedBlocks, NewPiece
<1> QED
  BY <1>1, <1>2, <1>3, FS_EmptySet DEF Counted

\* A piece whose count is short of its size has a missing block, and
\* FirstMissingBlock finds one.
LEMMA FirstMissingBlockFound ==
  ASSUME NEW n \in Nat, NEW piece \in PieceOfSize(n),
         Counted(piece), piece.retrieved_cnt < n
  PROVE  FirstMissingBlock(piece) \in MissingBlocks(piece)
<1>1. MissingBlocks(piece) # {}
  <2>1. SUFFICES ASSUME MissingBlocks(piece) = {}
                 PROVE  FALSE
    OBVIOUS
  <2>2. RetrievedBlocks(piece) = 0 .. n - 1
    BY <2>1, PieceFields DEF MissingBlocks, RetrievedBlocks
  <2>3. Cardinality(0 .. n - 1) = n
    BY FS_Interval
  <2> QED BY <2>2, <2>3 DEF Counted
<1>2. MissingBlocks(piece) \in SUBSET Nat /\ IsFiniteSet(MissingBlocks(piece))
  <2>1. IsFiniteSet(0 .. n - 1)
    BY FS_Interval
  <2>2. MissingBlocks(piece) \in SUBSET (0 .. n - 1)
    BY PieceFields
  <2> QED BY <2>1, <2>2, FS_Subset
<1>3. PICK b \in MissingBlocks(piece) : \A c \in MissingBlocks(piece) : b <= c
  BY <1>1, <1>2, LeastElement
<1> QED
  BY <1>1, <1>3 DEF FirstMissingBlock

\* Saving a missing block moves the count and the set of retrieved blocks together.
LEMMA SaveBlockCounted ==
  ASSUME NEW n \in Nat, NEW piece \in PieceOfSize(n),
         Counted(piece), piece.retrieved_cnt < n,
         NEW b \in MissingBlocks(piece), NEW data \in BlockData
  PROVE  /\ SaveBlock(piece, b, data) \in PieceOfSize(n)
         /\ SaveBlock(piece, b, data).retrieved_cnt = piece.retrieved_cnt + 1
         /\ Counted(SaveBlock(piece, b, data))
<1> DEFINE after == SaveBlock(piece, b, data)
           blocks == [piece.blocks EXCEPT ![b] = data]
<1>1. /\ piece.size = n
      /\ piece.blocks \in [0 .. n - 1 -> {Missing} \cup BlockData]
      /\ piece.retrieved_cnt \in 0 .. n
      /\ IsFiniteSet(RetrievedBlocks(piece))
      /\ b \in 0 .. n - 1 /\ piece.blocks[b] = Missing /\ data # Missing
  BY PieceFields DEF MissingBlocks, BlockData, Missing
<1>2. /\ blocks \in [0 .. n - 1 -> {Missing} \cup BlockData]
      /\ \A c \in 0 .. n - 1 : blocks[c] = IF c = b THEN data ELSE piece.blocks[c]
  BY <1>1
<1>3. /\ after.size = n
      /\ after.blocks = blocks
      /\ after.retrieved_cnt = piece.retrieved_cnt + 1
  BY <1>1 DEF SaveBlock, PieceOfSize
<1>4. after \in PieceOfSize(n)
  <2>1. after = [piece EXCEPT !.blocks = blocks, !.retrieved_cnt = piece.retrieved_cnt + 1]
    BY DEF SaveBlock
  <2>2. piece.retrieved_cnt + 1 \in 0 .. n
    BY <1>1
  <2> HIDE DEF after, blocks
  <2> QED BY <1>2, <2>1, <2>2 DEF PieceOfSize
<1>5. RetrievedBlocks(after) = RetrievedBlocks(piece) \cup {b} /\ b \notin RetrievedBlocks(piece)
  <2> HIDE DEF after, blocks
  <2> QED BY <1>1, <1>2, <1>3 DEF RetrievedBlocks
<1>6. Cardinality(RetrievedBlocks(after)) = Cardinality(RetrievedBlocks(piece)) + 1
  BY <1>1, <1>5, FS_AddElement
<1> QED
  BY <1>3, <1>4, <1>6 DEF Counted
=============================================================================
