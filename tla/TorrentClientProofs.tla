------------------------- MODULE TorrentClientProofs -------------------------
(***************************************************************************)
(* What holds of TorrentClient for every number of pieces, blocks and      *)
(* peers, whatever the remotes do: an inductive invariant and the          *)
(* theorems that follow from it.                                           *)
(***************************************************************************)
EXTENDS TorrentClient, PieceProofs, SequenceTheorems, TLAPS

-----------------------------------------------------------------------------
(* The inductive invariant *)

\* Pieces leave the queue in order of index: those below Taken have left it.
Taken == NPieces - Len(remainPieces_)

\* The queue holds Taken, Taken + 1, ..., NPieces - 1.
QueueInv ==
  /\ Len(remainPieces_) <= NPieces
  /\ \A k \in 1 .. Len(remainPieces_) : remainPieces_[k] = Taken + k - 1

\* The thread has written the piece it holds and not yet asked for another.
Delivered(p) == pc[p] \in {"processed", "next"}

\* ExclusiveOwnership, in terms of Taken.
OwnerInv ==
  /\ \A p, q \in Peers :
       pieceInProgress_[p] = pieceInProgress_[q] /\ pieceInProgress_[p] # Null => p = q
  /\ \A p \in Peers : pieceInProgress_[p] # Null =>
       /\ pieceInProgress_[p] < Taken
       /\ pieceInProgress_[p] \in Range(saved_) <=> Delivered(p)
  /\ \A k \in 1 .. Len(saved_) : saved_[k] < Taken
  /\ \A j, k \in 1 .. Len(saved_) : saved_[j] = saved_[k] => j = k

DiskInv ==
  /\ OnlyVerifiedOnDisk
  /\ Range(saved_) \subseteq Sound

\* The count reaches the number of blocks only in pieces that are on disk.
CountInv ==
  \A i \in Pieces :
    /\ Counted(pieces[i])
    /\ i \notin Range(saved_) => pieces[i].retrieved_cnt < pieces[i].size

\* A request for block b is on its way, or its answer is.
Awaits(p, b) ==
  /\ pendingBlock_[p]
  /\ pieceInProgress_[p] # Null
  /\ b \in MissingBlocks(pieces[pieceInProgress_[p]])

RequestsOf(p) ==
  /\ inbox[p] # NoMessage => pc[p] \in {"bitfield", "recv"}
  /\ outstanding[p] # Null => Awaits(p, outstanding[p])
  /\ inbox[p] # NoMessage /\ inbox[p].type = "Piece" =>
       pc[p] = "recv" /\ outstanding[p] = Null /\ Awaits(p, inbox[p].begin)
  /\ pc[p] = "request" \/ Delivered(p) => ~pendingBlock_[p]

RequestInv == \A p \in Peers : RequestsOf(p)

\* Only a first attempt finds terminated_ unset.
AttemptOf(p) ==
  /\ pc[p] \in Connected \cup {"handshake", "bitfield"} => attempts[p] = 1
  /\ pc[p] # "done" /\ ~terminated_[p] => attempts[p] = 1
  /\ pc[p] = "returned" => terminated_[p]

AttemptInv == \A p \in Peers : AttemptOf(p)

\* Where the main thread stands, and what it knows there.
MainInv ==
  /\ \A p \in Peers : p \notin connections => pc[p] = "done"
  /\ main_pc \in {"tracker", "check", "aborted"} => \A p \in Peers : pc[p] = "done"
  /\ main_pc \in {"poll", "progress"} => ~requestMorePeers
  /\ main_pc = "check" \/ (main_pc = "terminate" /\ ~requestMorePeers)
       => Len(saved_) >= NPieces

IInv ==
  /\ TypeOK
  /\ QueueInv
  /\ OwnerInv
  /\ DiskInv
  /\ CountInv
  /\ RequestInv
  /\ AttemptInv
  /\ MainInv

-----------------------------------------------------------------------------
(* The steps, by what they do to the storage and to the pieces held *)

\* p gets the next piece of the queue, or Null when there is none.
Takes(p) ==
  /\ pieceInProgress_[p] = Null \/ Delivered(p)
  /\ pc'[p] \notin {"processed", "next"}
  /\ \A q \in Peers \ {p} : pc'[q] = pc[q]
  /\ pieceInProgress_' = [pieceInProgress_ EXCEPT ![p] = NextPiece]
  /\ PopNextPiece
  /\ UNCHANGED <<pieces, fileVars>>

Quiet ==
  /\ UNCHANGED <<storageVars, pieceInProgress_>>
  /\ \A p \in Peers : pc'[p] \in {"processed", "next"} <=> Delivered(p)

\* Every step takes a piece, receives a block, starts a round or is quiet.
LEMMA StepKinds ==
  ASSUME TypeOK, [Next]_vars
  PROVE  Quiet \/ StartRound \/ \E p \in Peers : Takes(p) \/ ReceivePiece(p)
<1> USE DEF TypeOK, PeerTypeOK, Goto, Abandon, Terminate, Delivered
<1>1. CASE MainStep /\ ~StartRound
  BY <1>1 DEF MainStep, TrackerFails, PollSaved, PollInProgress, TerminatePeer, JoinPeers,
              Quiet, storageVars, fileVars, peerVars, connVars
<1>2. CASE \E p \in Peers : EnvironmentStep(p)
  BY <1>2 DEF EnvironmentStep, RemoteStep, RemoteAnnounces, RemoteChokes, RemoteAnswers,
              Quiet, storageVars, fileVars, connVars
<1>3. CASE \E p \in Peers : RetryRun(p) \/ Crash(p)
  BY <1>3 DEF RetryRun, Crash, Quiet, storageVars, fileVars, peerVars, connVars
<1>4. ASSUME NEW p \in Peers, PeerStep(p)
      PROVE  Quiet \/ Takes(p) \/ ReceivePiece(p)
  <2>1. CASE Run(p) \/ PerformHandshake(p) \/ SendInterested(p) \/ MainLoop(p)
    BY <2>1 DEF Run, PerformHandshake, SendInterested, MainLoop,
           Quiet, storageVars, fileVars, connVars
  <2>2. CASE ReceiveBitfield(p)
    BY <2>2 DEF ReceiveBitfield, Quiet, storageVars, fileVars
  <2>3. CASE EstablishFails(p) \/ ReceiveFails(p) \/ ReceiveControl(p) \/ CheckQueue(p)
    BY <2>3 DEF EstablishFails, ReceiveFails, ReceiveControl, CheckQueue,
           Quiet, storageVars, fileVars
  <2>4. CASE TakeNextPiece(p)
    BY <2>4 DEF TakeNextPiece, Takes
  <2>5. CASE RequestBlock(p) /\ pieceInProgress_[p] # Null
    BY <2>5 DEF RequestBlock, TakeRequestedPiece, RequestedPiece, Quiet, storageVars, fileVars
  <2>6. CASE RequestBlock(p) /\ pieceInProgress_[p] = Null
    BY <2>6 DEF RequestBlock, TakeRequestedPiece, RequestedPiece, Takes
  <2>7. CASE RequestNothing(p) /\ pieceInProgress_[p] # Null
    BY <2>7 DEF RequestNothing, TakeRequestedPiece, RequestedPiece, Quiet, storageVars, fileVars
  <2>8. CASE RequestNothing(p) /\ pieceInProgress_[p] = Null
    BY <2>8 DEF RequestNothing, TakeRequestedPiece, RequestedPiece, Takes
  <2> QED
    BY <1>4, <2>1, <2>2, <2>3, <2>4, <2>5, <2>6, <2>7, <2>8 DEF PeerStep
<1>5. CASE UNCHANGED vars
  BY <1>5 DEF vars, peerVars, connVars, Quiet
<1> QED
  BY <1>1, <1>2, <1>3, <1>4, <1>5 DEF Next, ThreadStep, ConnectionStep, Halted

\* The fields of a message, by its type.
LEMMA MessageFields ==
  ASSUME NEW m \in Message \cup {NoMessage}
  PROVE  /\ m.type = "BitField" => m.pieces \in SUBSET Pieces
         /\ m.type = "Have" => m.index \in Pieces
         /\ m.type = "Piece" => m.begin \in Nat /\ m.data \in BlockData
BY RemotesAssumption
DEF Message, NoMessage, Plain, BitFieldMessage, HaveMessage, PieceMessage

\* ReceivePiece saves the block in the piece held; that piece is then either short
\* of its size, or on disk with the bytes of the file.
Receives(p, i) ==
  /\ i = pieceInProgress_[p] /\ i \in Pieces /\ i \notin Range(saved_)
  /\ \A q \in Peers \ {p} : pc'[q] = pc[q]
  /\ pieces' = [pieces EXCEPT ![i] = pieces'[i]]
  /\ pieces'[i] \in PieceOfSize(BlockCount[i])
  /\ Counted(pieces'[i])
  /\ UNCHANGED <<remainPieces_, pieceInProgress_>>
  /\ \/ /\ pieces'[i].retrieved_cnt < BlockCount[i]
        /\ pc'[p] = "loop"
        /\ UNCHANGED fileVars
     \/ /\ i \in Sound
        /\ pc'[p] = "processed"
        /\ saved_' = Append(saved_, i)
        /\ \/ /\ outputFile_ = "good"
              /\ disk' = [disk EXCEPT ![i] = "Good"]
              /\ UNCHANGED outputFile_
           \/ /\ outputFile_' = "failed"
              /\ UNCHANGED disk

\* Those are the only effects of ReceivePiece in a state of the invariant.
LEMMA ReceiveEffect ==
  ASSUME IInv, NEW p \in Peers, ReceivePiece(p)
  PROVE  Receives(p, pieceInProgress_[p])
<1> DEFINE i == pieceInProgress_[p]
           piece == SaveBlock(pieces[i], inbox[p].begin, inbox[p].data)
           n == BlockCount[i]
<1>1. /\ pc[p] = "recv" /\ inbox[p] # NoMessage /\ inbox[p].type = "Piece"
      /\ UNCHANGED <<remainPieces_, pieceInProgress_>>
  BY DEF ReceivePiece
<1>2. i \in Pieces /\ inbox[p].begin \in MissingBlocks(pieces[i])
  BY <1>1 DEF IInv, RequestInv, RequestsOf, Awaits, TypeOK, PeerTypeOK
<1>3. inbox[p].data \in BlockData
  BY <1>1, MessageFields DEF IInv, TypeOK, PeerTypeOK
<1>4. n \in Nat \ {0} /\ pieces[i] \in PieceOfSize(n) /\ pieces[i].size = n
  BY <1>2, BlockCountAssumption, PieceFields DEF IInv, TypeOK, StorageTypeOK
<1>5. i \notin Range(saved_)
  BY <1>1, <1>2 DEF IInv, OwnerInv, Delivered, Null, Pieces
<1>6. Counted(pieces[i]) /\ pieces[i].retrieved_cnt < n
  BY <1>2, <1>4, <1>5 DEF IInv, CountInv
<1>7. piece \in PieceOfSize(n) /\ Counted(piece)
  BY <1>2, <1>3, <1>4, <1>6, SaveBlockCounted
<1>8. piece.size = n /\ piece.retrieved_cnt \in 0 .. n
  BY <1>4, <1>7, PieceFields
<1>9. /\ Reset(piece) \in PieceOfSize(n) /\ Counted(Reset(piece))
      /\ Reset(piece).retrieved_cnt = 0
  BY <1>4, <1>8, NewPieceCounted DEF Reset
<1>10. pieces = [j \in Pieces |-> pieces[j]]
  BY DEF IInv, TypeOK, StorageTypeOK
<1>11. \A q \in Peers \ {p} : pc'[q] = pc[q]
  BY DEF ReceivePiece, Goto, IInv, TypeOK, PeerTypeOK
<1> HIDE DEF i, piece, n
<1>12. CASE /\ ~AllBlocksRetrieved(piece)
            /\ pieces' = [pieces EXCEPT ![i] = piece]
            /\ Goto(p, "loop")
            /\ UNCHANGED fileVars
  <2>1. pieces'[i] = piece /\ pc'[p] = "loop"
    BY <1>2, <1>10, <1>12 DEF Goto, IInv, TypeOK, PeerTypeOK
  <2>2. piece.retrieved_cnt < n
    BY <1>8, <1>12, <1>4 DEF AllBlocksRetrieved
  <2> QED
    BY <1>1, <1>2, <1>5, <1>7, <1>11, <1>12, <2>1, <2>2 DEF Receives, i, n
<1>13. CASE /\ AllBlocksRetrieved(piece)
            /\ HashMatches(piece, i \in Sound)
            /\ pieces' = [pieces EXCEPT ![i] = piece]
            /\ SavePieceToDisk(i, piece)
            /\ Goto(p, "processed")
  <2>1. pieces'[i] = piece /\ pc'[p] = "processed"
    BY <1>2, <1>10, <1>13 DEF Goto, IInv, TypeOK, PeerTypeOK
  <2>2. i \in Sound /\ GetData(piece) = "Good"
    BY <1>13 DEF HashMatches
  <2> QED
    BY <1>1, <1>2, <1>5, <1>7, <1>11, <1>13, <2>1, <2>2 DEF Receives, SavePieceToDisk, i, n
<1>14. CASE /\ AllBlocksRetrieved(piece)
            /\ ~HashMatches(piece, i \in Sound)
            /\ pieces' = [pieces EXCEPT ![i] = Reset(piece)]
            /\ Goto(p, "loop")
            /\ UNCHANGED fileVars
  <2>1. pieces'[i] = Reset(piece) /\ pc'[p] = "loop"
    BY <1>2, <1>10, <1>14 DEF Goto, IInv, TypeOK, PeerTypeOK
  <2>2. Reset(piece).retrieved_cnt < n
    BY <1>4, <1>9
  <2> QED
    BY <1>1, <1>2, <1>5, <1>9, <1>11, <1>14, <2>1, <2>2 DEF Receives, i, n
<1> QED
  BY <1>12, <1>13, <1>14 DEF ReceivePiece, i, piece

\* GetNextPieceToDownload gives Taken, or Null when the queue is empty.
LEMMA TakeEffect ==
  ASSUME TypeOK, QueueInv, PopNextPiece
  PROVE  /\ remainPieces_' \in Seq(Pieces)
         /\ QueueInv'
         /\ Taken \in 0 .. NPieces /\ Taken' \in 0 .. NPieces
         /\ \/ NextPiece = Null /\ UNCHANGED remainPieces_ /\ Taken' = Taken
            \/ NextPiece = Taken /\ NextPiece \in Pieces /\ Taken' = Taken + 1
<1> USE NPiecesAssumption
<1>1. remainPieces_ \in Seq(Pieces) /\ Len(remainPieces_) \in 0 .. NPieces
  BY DEF TypeOK, StorageTypeOK, QueueInv
<1>2. CASE remainPieces_ = <<>>
  BY <1>1, <1>2 DEF PopNextPiece, QueueIsEmpty, NextPiece, QueueInv, Taken
<1>3. CASE remainPieces_ # <<>>
  <2>1. Len(remainPieces_) > 0
    BY <1>1, <1>3
  <2>2. /\ remainPieces_' = Tail(remainPieces_)
        /\ NextPiece = remainPieces_[1]
    BY <1>1, <1>3 DEF PopNextPiece, QueueIsEmpty, NextPiece
  <2>3. /\ remainPieces_' \in Seq(Pieces)
        /\ Len(remainPieces_') = Len(remainPieces_) - 1
        /\ \A k \in 1 .. Len(remainPieces_') : remainPieces_'[k] = remainPieces_[k + 1]
    BY <1>1, <2>1, <2>2
  <2>4. NextPiece = Taken
    BY <1>1, <2>1, <2>2 DEF QueueInv, Taken
  <2>5. NextPiece \in Pieces
    BY <1>1, <2>1, <2>4 DEF Taken, Pieces
  <2> QED
    BY <1>1, <2>1, <2>3, <2>4, <2>5 DEF QueueInv, Taken
<1> QED
  BY <1>2, <1>3

-----------------------------------------------------------------------------
(* Each part of the invariant is kept by every step *)

\* The initial state has the invariant.
LEMMA InitInv ==
  ASSUME Init
  PROVE  IInv
<1> USE NPiecesAssumption, BlockCountAssumption DEF Init, StorageInit
<1>1. ASSUME NEW i \in Pieces
      PROVE  /\ pieces[i] \in PieceOfSize(BlockCount[i])
             /\ Counted(pieces[i])
             /\ pieces[i].retrieved_cnt < pieces[i].size
  BY NewPieceCounted, PieceFields
<1>2. /\ remainPieces_ \in Seq(Pieces)
      /\ Len(remainPieces_) = NPieces
      /\ \A k \in 1 .. NPieces : remainPieces_[k] = k - 1
  BY DEF Pieces
<1>3. saved_ \in Seq(Pieces) /\ Len(saved_) = 0 /\ Range(saved_) = {}
  BY DEF Range
<1>4. StorageTypeOK
  BY <1>1, <1>2, <1>3 DEF StorageTypeOK
<1>5. PeerTypeOK
  BY DEF PeerTypeOK, Location
<1>6. TypeOK
  <2>1. attempts \in [Peers -> 0 .. MaxAttempts]
    BY DEF MaxAttempts
  <2>2. main_pc = "tracker" /\ connections = {} /\ signalled = {} /\ requestMorePeers = FALSE
    OBVIOUS
  <2> QED BY ONLY <1>4, <1>5, <2>1, <2>2 DEF TypeOK
<1>7. QueueInv /\ OwnerInv
  BY <1>2, <1>3 DEF QueueInv, OwnerInv, Taken
<1>8. DiskInv /\ CountInv
  BY <1>1, <1>3 DEF DiskInv, OnlyVerifiedOnDisk, CountInv
<1>9. RequestInv /\ AttemptInv /\ MainInv
  BY DEF RequestInv, RequestsOf, AttemptInv, AttemptOf, MainInv, Connected, Delivered
<1> QED
  BY <1>6, <1>7, <1>8, <1>9 DEF IInv

\* The queue holds the pieces from Taken on, in order.
LEMMA QueueStep ==
  ASSUME IInv, [Next]_vars
  PROVE  QueueInv' /\ remainPieces_' \in Seq(Pieces)
<1> USE DEF IInv
<1>1. CASE Quiet \/ StartRound
  BY <1>1 DEF Quiet, StartRound, storageVars, fileVars, QueueInv, Taken, TypeOK, StorageTypeOK
<1>2. ASSUME NEW p \in Peers, Takes(p)
      PROVE  QueueInv' /\ remainPieces_' \in Seq(Pieces)
  BY <1>2, TakeEffect DEF Takes
<1>3. ASSUME NEW p \in Peers, ReceivePiece(p)
      PROVE  QueueInv' /\ remainPieces_' \in Seq(Pieces)
  BY <1>3 DEF ReceivePiece, QueueInv, Taken, TypeOK, StorageTypeOK
<1> QED
  BY <1>1, <1>2, <1>3, StepKinds

\* saved_ grows by the piece received, if at all.
LEMMA AppendSaved ==
  ASSUME TypeOK, NEW i \in Pieces, saved_' = Append(saved_, i)
  PROVE  /\ saved_' \in Seq(Pieces)
         /\ Len(saved_) \in Nat /\ Len(saved_') = Len(saved_) + 1
         /\ \A k \in 1 .. Len(saved_) : saved_'[k] = saved_[k]
         /\ saved_'[Len(saved_) + 1] = i
         /\ Range(saved_') = Range(saved_) \cup {i}
<1>1. saved_ \in Seq(Pieces)
  BY DEF TypeOK, StorageTypeOK
<1>2. /\ saved_' \in Seq(Pieces)
      /\ Len(saved_) \in Nat /\ Len(saved_') = Len(saved_) + 1
      /\ \A k \in 1 .. Len(saved_) : saved_'[k] = saved_[k]
      /\ saved_'[Len(saved_) + 1] = i
  BY <1>1, AppendProperties
<1>3. /\ Range(saved_) = {saved_[k] : k \in 1 .. Len(saved_)}
      /\ Range(saved_') = {saved_'[k] : k \in 1 .. Len(saved_')}
  BY <1>1, <1>2 DEF Range
<1> QED
  BY <1>2, <1>3

\* The types of the storage's variables: the queue loses its head, saved_ gains the
\* piece received, and pieces stay the size they were made.
LEMMA StorageTypeStep ==
  ASSUME IInv, [Next]_vars
  PROVE  StorageTypeOK'
<1> USE DEF IInv
<1>1. remainPieces_' \in Seq(Pieces)
  BY QueueStep
<1>2. CASE Quiet \/ StartRound \/ \E p \in Peers : Takes(p)
  BY <1>1, <1>2 DEF Quiet, StartRound, Takes, storageVars, fileVars, TypeOK, StorageTypeOK
<1>3. ASSUME NEW p \in Peers, ReceivePiece(p)
      PROVE  StorageTypeOK'
  <2>1. PICK i : Receives(p, i)
    BY <1>3, ReceiveEffect
  <2>2. /\ pieces' = [j \in Pieces |-> pieces'[j]]
        /\ \A j \in Pieces : pieces'[j] \in PieceOfSize(BlockCount[j])
    BY <2>1 DEF Receives, TypeOK, StorageTypeOK
  <2>3. saved_' \in Seq(Pieces)
    BY <2>1, AppendSaved DEF Receives, TypeOK, StorageTypeOK, fileVars
  <2>4. disk' \in [Pieces -> {"Hole", "Good", "Bad"}] /\ outputFile_' \in {"good", "failed"}
    BY <2>1 DEF Receives, TypeOK, StorageTypeOK, fileVars
  <2> QED BY <1>1, <2>2, <2>3, <2>4 DEF StorageTypeOK
<1> QED
  BY <1>2, <1>3, StepKinds

\* A thread takes a piece nobody has had; it delivers the one it holds.
LEMMA OwnerStep ==
  ASSUME IInv, [Next]_vars
  PROVE  OwnerInv'
<1> USE DEF IInv
<1>1. CASE Quiet
  BY <1>1 DEF Quiet, storageVars, fileVars, OwnerInv, Delivered, Taken
<1>2. CASE StartRound
  BY <1>2 DEF StartRound, ConstructPeers, storageVars, fileVars, OwnerInv, Taken
<1>3. ASSUME NEW p \in Peers, Takes(p)
      PROVE  OwnerInv'
  <2>1. /\ Taken \in 0 .. NPieces /\ Taken' \in 0 .. NPieces
        /\ \/ NextPiece = Null /\ Taken' = Taken
           \/ NextPiece = Taken /\ NextPiece \in Pieces /\ Taken' = Taken + 1
    BY <1>3, TakeEffect DEF Takes
  <2>2. /\ pieceInProgress_'[p] = NextPiece
        /\ \A q \in Peers \ {p} : pieceInProgress_'[q] = pieceInProgress_[q]
        /\ \A q \in Peers \ {p} : Delivered(q)' <=> Delivered(q)
        /\ ~Delivered(p)'
        /\ saved_' = saved_
    BY <1>3 DEF Takes, fileVars, TypeOK, PeerTypeOK, Delivered
  <2>3. saved_ \in Seq(Pieces) /\ Range(saved_) = {saved_[k] : k \in 1 .. Len(saved_)}
    BY RangeEquality DEF TypeOK, StorageTypeOK
  <2>4. \A k \in 1 .. Len(saved_) : saved_[k] \in Int /\ saved_[k] < Taken
    <3>1. \A k \in 1 .. Len(saved_) : saved_[k] \in Pieces
      BY <2>3
    <3> QED BY <3>1, NPiecesAssumption DEF OwnerInv, Pieces
  <2>5. \A j \in Range(saved_) : j \in Int /\ j < Taken
    BY <2>3, <2>4
  <2>6. \A q \in Peers : pieceInProgress_[q] \in Int
    BY NPiecesAssumption DEF TypeOK, PeerTypeOK, Pieces, Null
  <2>7. \A q, r \in Peers :
          pieceInProgress_'[q] = pieceInProgress_'[r] /\ pieceInProgress_'[q] # Null => q = r
    BY <2>1, <2>2, <2>6 DEF OwnerInv
  <2>8. ASSUME NEW q \in Peers, pieceInProgress_'[q] # Null
        PROVE  /\ pieceInProgress_'[q] < Taken'
               /\ pieceInProgress_'[q] \in Range(saved_') <=> Delivered(q)'
    <3>1. CASE q = p
      BY <2>1, <2>2, <2>5, <2>8, <3>1
    <3>2. CASE q # p
      BY <2>1, <2>2, <2>6, <2>8, <3>2 DEF OwnerInv
    <3> QED BY <3>1, <3>2
  <2>9. \A k \in 1 .. Len(saved_') : saved_'[k] < Taken'
    BY <2>1, <2>2, <2>4
  <2> QED BY <2>2, <2>7, <2>8, <2>9 DEF OwnerInv
<1>4. ASSUME NEW p \in Peers, ReceivePiece(p)
      PROVE  OwnerInv'
  <2>1. PICK i : Receives(p, i)
    BY <1>4, ReceiveEffect
  <2>2. /\ Taken' = Taken /\ pieceInProgress_' = pieceInProgress_
        /\ i = pieceInProgress_[p] /\ i \in Pieces /\ i # Null /\ i < Taken
        /\ i \notin Range(saved_)
        /\ \A q \in Peers \ {p} : Delivered(q)' <=> Delivered(q)
        /\ \A q \in Peers \ {p} : pieceInProgress_[q] # i
    BY <2>1 DEF Receives, OwnerInv, Taken, Delivered, Pieces, Null
  <2>3. CASE saved_' = saved_ /\ pc'[p] = "loop"
    BY <2>2, <2>3 DEF OwnerInv, Delivered
  <2>4. CASE saved_' = Append(saved_, i) /\ pc'[p] = "processed"
    <3>1. /\ Len(saved_) \in Nat /\ Len(saved_') = Len(saved_) + 1
          /\ \A k \in 1 .. Len(saved_) : saved_'[k] = saved_[k]
          /\ saved_'[Len(saved_) + 1] = i
          /\ Range(saved_') = Range(saved_) \cup {i}
      BY <2>2, <2>4, AppendSaved
    <3>2. Range(saved_) = {saved_[k] : k \in 1 .. Len(saved_)}
      BY RangeEquality DEF TypeOK, StorageTypeOK
    <3>3. \A k \in 1 .. Len(saved_) : saved_[k] # i
      BY <2>2, <3>2
    <3>4. \A j, k \in 1 .. Len(saved_') : saved_'[j] = saved_'[k] => j = k
      BY <3>1, <3>3 DEF OwnerInv
    <3>5. \A k \in 1 .. Len(saved_') : saved_'[k] < Taken'
      BY <2>2, <3>1 DEF OwnerInv
    <3>6. \A q \in Peers : pieceInProgress_'[q] # Null =>
            /\ pieceInProgress_'[q] < Taken'
            /\ pieceInProgress_'[q] \in Range(saved_') <=> Delivered(q)'
      BY <2>2, <2>4, <3>1 DEF OwnerInv, Delivered
    <3> QED BY <2>2, <3>4, <3>5, <3>6 DEF OwnerInv
  <2> QED BY <2>1, <2>3, <2>4 DEF Receives, fileVars
<1> QED
  BY <1>1, <1>2, <1>3, <1>4, StepKinds

\* A region is written exactly when its index is recorded, with the right bytes.
LEMMA DiskStep ==
  ASSUME IInv, [Next]_vars
  PROVE  DiskInv'
<1> USE DEF IInv
<1>1. CASE Quiet \/ StartRound \/ \E p \in Peers : Takes(p)
  BY <1>1 DEF Quiet, StartRound, Takes, storageVars, fileVars, DiskInv, OnlyVerifiedOnDisk
<1>2. ASSUME NEW p \in Peers, ReceivePiece(p)
      PROVE  DiskInv'
  <2>1. PICK i : Receives(p, i)
    BY <1>2, ReceiveEffect
  <2>2. CASE UNCHANGED fileVars
    BY <2>2 DEF DiskInv, OnlyVerifiedOnDisk, fileVars
  <2>3. CASE /\ i \in Sound
             /\ saved_' = Append(saved_, i)
             /\ \/ outputFile_ = "good" /\ disk' = [disk EXCEPT ![i] = "Good"]
                \/ outputFile_' = "failed" /\ UNCHANGED disk
    <3>1. i \in Pieces /\ Range(saved_') = Range(saved_) \cup {i}
      BY <2>1, <2>3, AppendSaved DEF Receives
    <3>2. disk \in [Pieces -> {"Hole", "Good", "Bad"}]
      BY DEF TypeOK, StorageTypeOK
    <3> QED BY <2>3, <3>1, <3>2 DEF DiskInv, OnlyVerifiedOnDisk
  <2> QED BY <2>1, <2>2, <2>3 DEF Receives
<1> QED
  BY <1>1, <1>2, StepKinds

\* Only the piece received changes, and ReceiveEffect tells how.
LEMMA CountStep ==
  ASSUME IInv, [Next]_vars
  PROVE  CountInv'
<1> USE DEF IInv
<1>1. CASE Quiet \/ StartRound \/ \E p \in Peers : Takes(p)
  <2>1. UNCHANGED <<pieces, saved_>>
    BY <1>1 DEF Quiet, StartRound, Takes, storageVars, fileVars
  <2> QED BY <2>1 DEF CountInv, Counted, RetrievedBlocks
<1>2. ASSUME NEW p \in Peers, ReceivePiece(p)
      PROVE  CountInv'
  <2>1. PICK i : Receives(p, i)
    BY <1>2, ReceiveEffect
  <2>2. ASSUME NEW j \in Pieces, j # i
        PROVE  pieces'[j] = pieces[j] /\ (j \in Range(saved_') <=> j \in Range(saved_))
    BY <2>1, <2>2, AppendSaved DEF Receives, fileVars, TypeOK, StorageTypeOK
  <2>3. Counted(pieces'[i]) /\ pieces'[i].size = BlockCount[i]
    <3>1. BlockCount[i] \in Nat
      BY <2>1, BlockCountAssumption DEF Receives
    <3> QED BY <2>1, <3>1, PieceFields DEF Receives
  <2>4. i \in Range(saved_') \/ pieces'[i].retrieved_cnt < BlockCount[i]
    BY <2>1, AppendSaved DEF Receives
  <2>5. ASSUME NEW j \in Pieces
        PROVE  /\ Counted(pieces'[j])
               /\ j \notin Range(saved_') => pieces'[j].retrieved_cnt < pieces'[j].size
    <3>1. CASE j = i
      BY <2>3, <2>4, <3>1
    <3>2. CASE j # i
      BY <2>2, <3>2 DEF CountInv
    <3> QED BY <3>1, <3>2
  <2> QED BY <2>5 DEF CountInv, Counted, RetrievedBlocks
<1> QED
  BY <1>1, <1>2, StepKinds

\* A piece that is not on disk lacks a block, and FirstMissingBlock finds one.
LEMMA MissingBlockFound ==
  ASSUME IInv, NEW i \in Pieces, i \notin Range(saved_)
  PROVE  FirstMissingBlock(pieces[i]) \in MissingBlocks(pieces[i])
<1>1. BlockCount[i] \in Nat
  BY BlockCountAssumption
<1>2. pieces[i] \in PieceOfSize(BlockCount[i]) /\ pieces[i].size = BlockCount[i]
  BY <1>1, PieceFields DEF IInv, TypeOK, StorageTypeOK
<1>3. Counted(pieces[i]) /\ pieces[i].retrieved_cnt < BlockCount[i]
  BY <1>2 DEF IInv, CountInv
<1> QED
  BY <1>1, <1>2, <1>3, FirstMissingBlockFound

\* What RequestPiece looks at, if it is a piece, is not on disk.
LEMMA RequestedPieceIsFree ==
  ASSUME IInv, NEW p \in Peers, pc[p] = "request", RequestedPiece(p) # Null
  PROVE  /\ RequestedPiece(p) \in Pieces /\ RequestedPiece(p) \notin Range(saved_)
         /\ FirstMissingBlock(pieces[RequestedPiece(p)])
              \in MissingBlocks(pieces[RequestedPiece(p)])
<1> SUFFICES RequestedPiece(p) \in Pieces /\ RequestedPiece(p) \notin Range(saved_)
  BY MissingBlockFound
<1> USE DEF IInv
<1>1. CASE pieceInProgress_[p] # Null
  <2>1. RequestedPiece(p) = pieceInProgress_[p] /\ pieceInProgress_[p] \in Pieces
    BY <1>1 DEF RequestedPiece, TypeOK, PeerTypeOK
  <2>2. ~Delivered(p)
    BY DEF Delivered
  <2> QED BY <1>1, <2>1, <2>2 DEF OwnerInv
<1>2. CASE pieceInProgress_[p] = Null
  <2>1. remainPieces_ \in Seq(Pieces) /\ remainPieces_ # <<>>
    BY <1>2 DEF RequestedPiece, NextPiece, QueueIsEmpty, TypeOK, StorageTypeOK
  <2>2. RequestedPiece(p) = remainPieces_[1] /\ 1 \in 1 .. Len(remainPieces_)
    BY <1>2, <2>1 DEF RequestedPiece, NextPiece, QueueIsEmpty
  <2>3. RequestedPiece(p) \in Pieces
    BY <2>1, <2>2
  <2>4. RequestedPiece(p) = Taken
    BY <2>1, <2>2, NPiecesAssumption DEF QueueInv, Taken
  <2>5. saved_ \in Seq(Pieces) /\ Range(saved_) = {saved_[k] : k \in 1 .. Len(saved_)}
    BY RangeEquality DEF TypeOK, StorageTypeOK
  <2>6. \A k \in 1 .. Len(saved_) : saved_[k] \in Pieces /\ saved_[k] < Taken
    BY <2>5 DEF OwnerInv
  <2>7. Taken \in Int /\ \A k \in 1 .. Len(saved_) : saved_[k] # Taken
    BY <2>3, <2>4, <2>6, NPiecesAssumption DEF Pieces
  <2> QED BY <2>3, <2>4, <2>5, <2>7
<1> QED
  BY <1>1, <1>2

\* The types of the threads' variables, action by action.
LEMMA PeerTypeStep ==
  ASSUME IInv, [Next]_vars
  PROVE  PeerTypeOK'
<1> USE DEF IInv, TypeOK, PeerTypeOK, Goto, Abandon, Terminate, Location, Connected
<1>1. CASE StartRound
  BY <1>1 DEF StartRound, ConstructPeers
<1>2. CASE MainStep /\ ~StartRound
  BY <1>2 DEF MainStep, TrackerFails, PollSaved, PollInProgress, TerminatePeer, JoinPeers,
              peerVars, connVars
<1>3. ASSUME NEW p \in Peers, RemoteStep(p)
      PROVE  PeerTypeOK'
  <2>1. CASE RemoteAnnounces(p)
    BY <2>1 DEF RemoteAnnounces, connVars, Deliver, Message, Plain
  <2>2. CASE RemoteChokes(p)
    BY <2>2 DEF RemoteChokes, Deliver, Message, Plain
  <2>3. CASE RemoteAnswers(p)
    BY <2>3 DEF RemoteAnswers, Deliver, Message, PieceMessage
  <2> QED BY <1>3, <2>1, <2>2, <2>3 DEF RemoteStep
<1>4. ASSUME NEW p \in Peers, RetryRun(p) \/ Crash(p)
      PROVE  PeerTypeOK'
  BY <1>4 DEF RetryRun, Crash, peerVars, connVars
<1>5. ASSUME NEW p \in Peers, PeerStep(p)
      PROVE  PeerTypeOK'
  <2>1. CASE Run(p) \/ PerformHandshake(p) \/ SendInterested(p) \/ MainLoop(p)
    BY <2>1 DEF Run, PerformHandshake, SendInterested, MainLoop, connVars
  <2>2. CASE ReceiveBitfield(p)
    <3>1. /\ inbox[p].type = "BitField" => inbox[p].pieces \in SUBSET Pieces
          /\ inbox[p].type = "Have" => inbox[p].index \in Pieces
      BY MessageFields
    <3>2. inbox' \in [Peers -> Message \cup {NoMessage}]
      BY <2>2 DEF ReceiveBitfield
    <3>3. piecesAvailability_' \in [Peers -> SUBSET Pieces]
      BY <2>2, <3>1 DEF ReceiveBitfield
    <3>4. choked_' \in [Peers -> BOOLEAN]
      BY <2>2 DEF ReceiveBitfield
    <3>5. pc' \in [Peers -> Location]
      BY <2>2 DEF ReceiveBitfield
    <3> QED BY <2>2, <3>2, <3>3, <3>4, <3>5 DEF ReceiveBitfield
  <2>3. CASE EstablishFails(p) \/ ReceiveFails(p) \/ CheckQueue(p)
    BY <2>3 DEF EstablishFails, ReceiveFails, CheckQueue
  <2>4. CASE ReceiveControl(p)
    <3>1. inbox[p].type = "Have" => inbox[p].index \in Pieces
      BY MessageFields
    <3>2. inbox' \in [Peers -> Message \cup {NoMessage}]
      BY <2>4 DEF ReceiveControl
    <3>3. piecesAvailability_' \in [Peers -> SUBSET Pieces]
      BY <2>4, <3>1 DEF ReceiveControl
    <3>4. choked_' \in [Peers -> BOOLEAN] /\ pc' \in [Peers -> Location]
      BY <2>4 DEF ReceiveControl
    <3> QED BY <2>4, <3>2, <3>3, <3>4 DEF ReceiveControl
  <2>5. CASE TakeNextPiece(p)
    BY <2>5, TakeEffect DEF TakeNextPiece
  <2>6. CASE RequestBlock(p)
    <3>1. /\ RequestedPiece(p) \in Pieces
          /\ FirstMissingBlock(pieces[RequestedPiece(p)]) \in Nat
      <4>1. BlockCount[RequestedPiece(p)] \in Nat /\ RequestedPiece(p) \in Pieces
        BY <2>6, RequestedPieceIsFree, BlockCountAssumption DEF RequestBlock
      <4>2. MissingBlocks(pieces[RequestedPiece(p)]) \subseteq Nat
        BY <4>1, PieceFields DEF StorageTypeOK
      <4> QED BY <2>6, <4>1, <4>2, RequestedPieceIsFree DEF RequestBlock
    <3>2. pieceInProgress_' \in [Peers -> Pieces \cup {Null}]
      BY <2>6, <3>1 DEF RequestBlock, TakeRequestedPiece
    <3>3. /\ pc' \in [Peers -> Location]
          /\ terminated_' \in [Peers -> BOOLEAN]
          /\ pendingBlock_' \in [Peers -> BOOLEAN]
      BY <2>6 DEF RequestBlock
    <3>4. outstanding' \in [Peers -> Nat \cup {Null}]
      BY <2>6, <3>1 DEF RequestBlock
    <3> QED BY <2>6, <3>2, <3>3, <3>4 DEF RequestBlock
  <2>7. CASE RequestNothing(p)
    BY <2>7, RequestedPieceIsFree DEF RequestNothing, TakeRequestedPiece
  <2>8. CASE ReceivePiece(p)
    BY <2>8 DEF ReceivePiece
  <2> QED
    BY <1>5, <2>1, <2>2, <2>3, <2>4, <2>5, <2>6, <2>7, <2>8 DEF PeerStep
<1>6. CASE UNCHANGED vars
  BY <1>6 DEF vars, peerVars, connVars
<1> QED
  BY <1>1, <1>2, <1>3, <1>4, <1>5, <1>6
  DEF Next, ThreadStep, ConnectionStep, EnvironmentStep, Halted

\* A step of p, or of its remote, leaves the other connections alone.
LEMMA OthersKept ==
  ASSUME TypeOK, NEW p \in Peers, NEW q \in Peers, p # q,
         ThreadStep(p) \/ EnvironmentStep(p)
  PROVE  UNCHANGED <<pc[q], terminated_[q], pendingBlock_[q], pieceInProgress_[q],
                     inbox[q], outstanding[q], attempts[q]>>
<1> USE DEF TypeOK, PeerTypeOK, Goto, Abandon, Terminate
<1>1. CASE EnvironmentStep(p)
  BY <1>1 DEF EnvironmentStep, RemoteStep, RemoteAnnounces, RemoteChokes, RemoteAnswers,
              Deliver, connVars
<1>2. CASE RetryRun(p) \/ Crash(p)
  BY <1>2 DEF RetryRun, Crash, peerVars, connVars
<1>3. CASE PeerStep(p) /\ UNCHANGED <<mainVars, attempts>>
  <2>1. CASE Run(p) \/ PerformHandshake(p) \/ SendInterested(p) \/ MainLoop(p)
    BY <1>3, <2>1 DEF Run, PerformHandshake, SendInterested, MainLoop, connVars
  <2>2. CASE ReceiveBitfield(p) \/ ReceiveControl(p)
    BY <1>3, <2>2 DEF ReceiveBitfield, ReceiveControl
  <2>3. CASE EstablishFails(p) \/ ReceiveFails(p) \/ CheckQueue(p) \/ TakeNextPiece(p)
    BY <1>3, <2>3 DEF EstablishFails, ReceiveFails, CheckQueue, TakeNextPiece
  <2>4. CASE RequestBlock(p) \/ RequestNothing(p)
    BY <1>3, <2>4 DEF RequestBlock, RequestNothing, TakeRequestedPiece
  <2>5. CASE ReceivePiece(p)
    BY <1>3, <2>5 DEF ReceivePiece
  <2> QED
    BY <1>3, <2>1, <2>2, <2>3, <2>4, <2>5 DEF PeerStep
<1> QED
  BY <1>1, <1>2, <1>3 DEF ThreadStep, ConnectionStep

\* The piece q holds changes by a step of q only.
LEMMA HeldPieceKept ==
  ASSUME IInv, [Next]_vars, NEW q \in Peers, pieceInProgress_[q] # Null, pc'[q] = pc[q]
  PROVE  pieces'[pieceInProgress_[q]] = pieces[pieceInProgress_[q]]
<1>1. CASE Quiet \/ StartRound \/ \E p \in Peers : Takes(p)
  BY <1>1 DEF Quiet, StartRound, Takes, storageVars, fileVars
<1>2. ASSUME NEW p \in Peers, ReceivePiece(p)
      PROVE  pieces'[pieceInProgress_[q]] = pieces[pieceInProgress_[q]]
  <2>1. Receives(p, pieceInProgress_[p])
    BY <1>2, ReceiveEffect
  <2>2. p # q
    BY <1>2, <2>1 DEF Receives, ReceivePiece
  <2>3. pieceInProgress_[p] # pieceInProgress_[q]
    BY <2>2 DEF IInv, OwnerInv
  <2>4. pieceInProgress_[q] \in Pieces
    BY DEF IInv, TypeOK, PeerTypeOK
  <2> QED BY <2>1, <2>3, <2>4 DEF Receives, IInv, TypeOK, StorageTypeOK
<1> QED
  BY <1>1, <1>2, StepKinds DEF IInv

\* What is asked of a remote, and what it answers, is a block the piece held lacks.
LEMMA RequestStep ==
  ASSUME IInv, [Next]_vars
  PROVE  RequestInv'
<1> SUFFICES ASSUME NEW q \in Peers
             PROVE  RequestsOf(q)'
  BY DEF RequestInv
<1>1. RequestsOf(q) /\ TypeOK /\ PeerTypeOK
  BY DEF IInv, RequestInv, TypeOK
<1>2. ASSUME UNCHANGED <<pc[q], pendingBlock_[q], pieceInProgress_[q], inbox[q], outstanding[q]>>
      PROVE  RequestsOf(q)'
  BY <1>1, <1>2, HeldPieceKept DEF RequestsOf, Awaits, Delivered, MissingBlocks
<1>3. CASE StartRound
  BY <1>3 DEF StartRound, ConstructPeers, RequestsOf, Delivered
<1>4. CASE (MainStep /\ ~StartRound) \/ UNCHANGED vars
  BY <1>2, <1>4 DEF MainStep, TrackerFails, PollSaved, PollInProgress, TerminatePeer,
                    JoinPeers, vars, peerVars, connVars
<1>5. CASE \E p \in Peers \ {q} : ThreadStep(p) \/ EnvironmentStep(p)
  BY <1>1, <1>2, <1>5, OthersKept
<1>6. CASE EnvironmentStep(q)
  <2>1. CASE RemoteAnnounces(q)
    BY <1>1, <2>1 DEF RemoteAnnounces, Waiting, Deliver, HaveMessage, BitFieldMessage,
         connVars, storageVars, fileVars, RequestsOf, Awaits, Delivered, MissingBlocks, PeerTypeOK
  <2>2. CASE RemoteChokes(q)
    BY <1>1, <2>2 DEF RemoteChokes, Waiting, Deliver, storageVars, fileVars,
         RequestsOf, Awaits, Delivered, MissingBlocks, PeerTypeOK
  <2>3. CASE RemoteAnswers(q)
    BY <1>1, <2>3 DEF RemoteAnswers, Waiting, Deliver, storageVars, fileVars,
         RequestsOf, Awaits, Delivered, MissingBlocks, PeerTypeOK
  <2> QED BY <1>6, <2>1, <2>2, <2>3 DEF EnvironmentStep, RemoteStep
<1>7. CASE RetryRun(q) \/ Crash(q)
  BY <1>1, <1>7 DEF RetryRun, Crash, Goto, peerVars, connVars, storageVars, fileVars,
       RequestsOf, Awaits, Delivered, MissingBlocks, PeerTypeOK
<1>8. CASE PeerStep(q)
  <2> USE DEF RequestsOf, Awaits, Delivered, PeerTypeOK, Goto, Abandon, Terminate,
           storageVars, fileVars, connVars
  <2>1. CASE Run(q) \/ PerformHandshake(q) \/ SendInterested(q) \/ MainLoop(q)
    BY <1>1, <2>1 DEF Run, PerformHandshake, SendInterested, MainLoop
  <2>2. CASE ReceiveBitfield(q) \/ ReceiveControl(q)
    BY <1>1, <2>2 DEF ReceiveBitfield, ReceiveControl
  <2>3. CASE EstablishFails(q) \/ ReceiveFails(q) \/ CheckQueue(q)
    BY <1>1, <2>3 DEF EstablishFails, ReceiveFails, CheckQueue
  <2>4. CASE TakeNextPiece(q)
    BY <1>1, <2>4 DEF TakeNextPiece
  <2>5. CASE RequestNothing(q)
    BY <1>1, <2>5 DEF RequestNothing, TakeRequestedPiece
  <2>6. CASE RequestBlock(q)
    BY <1>1, <2>6, RequestedPieceIsFree DEF RequestBlock, TakeRequestedPiece
  <2>7. CASE ReceivePiece(q)
    BY <1>1, <2>7 DEF ReceivePiece
  <2> QED
    BY <1>8, <2>1, <2>2, <2>3, <2>4, <2>5, <2>6, <2>7 DEF PeerStep
<1> QED
  BY <1>3, <1>4, <1>5, <1>6, <1>7, <1>8 DEF Next, ThreadStep, ConnectionStep, Halted

\* Terminate is for good: past a thread's first attempt there is no connecting.
LEMMA AttemptStep ==
  ASSUME IInv, [Next]_vars
  PROVE  AttemptInv'
<1> SUFFICES ASSUME NEW q \in Peers
             PROVE  AttemptOf(q)'
  BY DEF AttemptInv
<1>1. AttemptOf(q) /\ TypeOK /\ PeerTypeOK /\ attempts \in [Peers -> 0 .. MaxAttempts]
  BY DEF IInv, AttemptInv, TypeOK
<1>2. ASSUME UNCHANGED <<pc[q], terminated_[q], attempts[q]>>
      PROVE  AttemptOf(q)'
  BY <1>1, <1>2 DEF AttemptOf
<1>3. CASE StartRound
  BY <1>3 DEF StartRound, ConstructPeers, AttemptOf, Connected
<1>4. CASE (MainStep /\ ~StartRound) \/ UNCHANGED vars \/ EnvironmentStep(q) \/ Crash(q)
  <2>1. pc' = pc /\ attempts' = attempts
    BY <1>4 DEF MainStep, TrackerFails, PollSaved, PollInProgress, TerminatePeer, JoinPeers,
        EnvironmentStep, RemoteStep, RemoteAnnounces, RemoteChokes, RemoteAnswers, Crash,
        vars, peerVars
  <2>2. terminated_[q] => terminated_'[q]
    BY <1>1, <1>4 DEF MainStep, TrackerFails, PollSaved, PollInProgress, TerminatePeer,
        JoinPeers, EnvironmentStep, RemoteStep, RemoteAnnounces, RemoteChokes, RemoteAnswers,
        Crash, Terminate, PeerTypeOK, vars, peerVars, connVars
  <2> QED BY <1>1, <2>1, <2>2 DEF AttemptOf
<1>5. CASE \E p \in Peers \ {q} : ThreadStep(p) \/ EnvironmentStep(p)
  BY <1>1, <1>2, <1>5, OthersKept
<1>6. CASE RetryRun(q)
  BY <1>1, <1>6 DEF RetryRun, Goto, AttemptOf, PeerTypeOK, Connected
<1>7. CASE ConnectionStep(q)
  <2> USE DEF AttemptOf, PeerTypeOK, Goto, Abandon, Terminate, connVars, Connected
  <2>1. attempts' = attempts
    BY <1>7 DEF ConnectionStep
  <2>2. CASE Run(q) \/ PerformHandshake(q) \/ SendInterested(q) \/ MainLoop(q)
    BY <1>1, <2>1, <2>2 DEF Run, PerformHandshake, SendInterested, MainLoop
  <2>3. CASE ReceiveBitfield(q) \/ ReceiveControl(q) \/ TakeNextPiece(q)
    BY <1>1, <2>1, <2>3 DEF ReceiveBitfield, ReceiveControl, TakeNextPiece
  <2>4. CASE EstablishFails(q) \/ ReceiveFails(q) \/ CheckQueue(q)
    BY <1>1, <2>1, <2>4 DEF EstablishFails, ReceiveFails, CheckQueue
  <2>5. CASE RequestBlock(q) \/ RequestNothing(q)
    BY <1>1, <2>1, <2>5 DEF RequestBlock, RequestNothing
  <2>6. CASE ReceivePiece(q)
    BY <1>1, <2>1, <2>6 DEF ReceivePiece
  <2> QED
    BY <1>7, <2>2, <2>3, <2>4, <2>5, <2>6 DEF ConnectionStep, PeerStep
<1> QED
  BY <1>3, <1>4, <1>5, <1>6, <1>7 DEF Next, ThreadStep, Halted

\* saved_ never shrinks, so that what the main thread has read of it stays true.
LEMMA SavedGrows ==
  ASSUME IInv, [Next]_vars
  PROVE  /\ Len(saved_) \in Nat /\ Len(saved_') \in Nat
         /\ Len(saved_') >= Len(saved_)
<1>1. Len(saved_) \in Nat
  BY DEF IInv, TypeOK, StorageTypeOK
<1>2. CASE UNCHANGED saved_
  BY <1>1, <1>2
<1>3. ASSUME NEW p \in Peers, ReceivePiece(p), saved_' # saved_
      PROVE  Len(saved_') = Len(saved_) + 1
  BY <1>3, ReceiveEffect, AppendSaved DEF Receives, fileVars, IInv
<1>4. UNCHANGED saved_ \/ \E p \in Peers : ReceivePiece(p)
  BY StepKinds DEF IInv, Quiet, StartRound, Takes, storageVars, fileVars
<1> QED
  BY <1>1, <1>2, <1>3, <1>4

\* The threads of a round run while the main thread is in it, and only then.
LEMMA MainStepInv ==
  ASSUME IInv, [Next]_vars
  PROVE  /\ MainInv'
         /\ main_pc' \in {"tracker", "poll", "progress", "terminate"} \cup Ended
         /\ connections' \in SUBSET Peers
         /\ signalled' \in SUBSET Peers
         /\ requestMorePeers' \in BOOLEAN
         /\ attempts' \in [Peers -> 0 .. MaxAttempts]
<1>1. Len(saved_) \in Nat /\ Len(saved_') \in Nat /\ Len(saved_') >= Len(saved_)
  BY SavedGrows
<1>2. MainInv /\ TypeOK /\ PeerTypeOK
  BY DEF IInv, TypeOK
<1> USE <1>1, <1>2, NPiecesAssumption DEF MainInv, TypeOK, Ended
<1>3. CASE StartRound
  <2>1. PICK named \in SUBSET Peers :
          /\ connections' = named
          /\ pc' = [p \in Peers |-> IF p \in named THEN "run" ELSE "done"]
          /\ attempts' = [p \in Peers |-> IF p \in named THEN 1 ELSE 0]
    BY <1>3 DEF StartRound
  <2>2. main_pc' = "poll" /\ signalled' = {} /\ requestMorePeers' = FALSE
    BY <1>3 DEF StartRound
  <2>3. attempts' \in [Peers -> 0 .. MaxAttempts]
    BY <2>1 DEF MaxAttempts
  <2> QED BY <2>1, <2>2, <2>3
<1>4. CASE TrackerFails
  BY <1>4 DEF TrackerFails, peerVars
<1>5. CASE PollSaved
  BY <1>5 DEF PollSaved, PiecesSavedToDiscCount, peerVars, storageVars, fileVars
<1>6. CASE PollInProgress
  BY <1>6 DEF PollInProgress, peerVars
<1>7. CASE \E p \in Peers : TerminatePeer(p)
  BY <1>7 DEF TerminatePeer
<1>8. CASE JoinPeers
  BY <1>8 DEF JoinPeers, peerVars
<1>9. CASE UNCHANGED vars
  BY <1>9 DEF vars, mainVars, peerVars
<1>10. ASSUME NEW p \in Peers, EnvironmentStep(p)
       PROVE  UNCHANGED <<mainVars, attempts, pc>>
  BY <1>10 DEF EnvironmentStep, RemoteStep, RemoteAnnounces, RemoteChokes, RemoteAnswers
<1>11. ASSUME NEW p \in Peers, ThreadStep(p)
       PROVE  pc[p] # "done"
  BY <1>11 DEF ThreadStep, ConnectionStep, PeerStep, RetryRun, Crash, RequestsNullPiece,
       BrokenPipe, Run, PerformHandshake, ReceiveBitfield, SendInterested, EstablishFails,
       MainLoop, RequestBlock, RequestNothing, ReceiveFails, ReceiveControl, ReceivePiece,
       CheckQueue, TakeNextPiece
<1>12. ASSUME NEW p \in Peers, ThreadStep(p), NEW q \in Peers, q # p
       PROVE  pc'[q] = pc[q]
  BY <1>12, OthersKept
<1>13. ASSUME NEW p \in Peers, ConnectionStep(p)
       PROVE  UNCHANGED <<mainVars, attempts>>
  BY <1>13 DEF ConnectionStep
<1>14. ASSUME NEW p \in Peers, RetryRun(p)
       PROVE  UNCHANGED mainVars /\ attempts' \in [Peers -> 0 .. MaxAttempts]
  BY <1>14 DEF RetryRun, MaxAttempts
<1>15. ASSUME NEW p \in Peers, Crash(p)
       PROVE  /\ main_pc' = "crashed"
              /\ UNCHANGED <<connections, signalled, requestMorePeers, attempts, pc>>
  BY <1>15 DEF Crash, peerVars
<1>16. ASSUME NEW p \in Peers, ThreadStep(p)
       PROVE  /\ p \in connections /\ main_pc \notin {"tracker", "check", "aborted"}
              /\ UNCHANGED <<connections, signalled, requestMorePeers>>
              /\ main_pc' \in {main_pc, "crashed"}
              /\ attempts' \in [Peers -> 0 .. MaxAttempts]
  BY <1>11, <1>13, <1>14, <1>15, <1>16 DEF ThreadStep, mainVars
<1>17. CASE \E p \in Peers : ThreadStep(p)
  BY <1>12, <1>16, <1>17
<1>18. CASE \E p \in Peers : EnvironmentStep(p)
  BY <1>10, <1>18 DEF mainVars
<1> QED
  BY <1>3, <1>4, <1>5, <1>6, <1>7, <1>8, <1>9, <1>17, <1>18 DEF Next, MainStep, Halted

\* Every step keeps the invariant.
LEMMA InvStep ==
  ASSUME IInv, [Next]_vars
  PROVE  IInv'
<1>1. TypeOK'
  BY StorageTypeStep, PeerTypeStep, MainStepInv DEF TypeOK
<1> QED
  BY <1>1, QueueStep, OwnerStep, DiskStep, CountStep, RequestStep, AttemptStep, MainStepInv
  DEF IInv

-----------------------------------------------------------------------------
(* Theorems *)

\* The invariant is inductive.
THEOREM Invariance == Spec => []IInv
<1>1. Init => IInv
  BY InitInv
<1>2. IInv /\ [Next]_vars => IInv'
  BY InvStep
<1> QED
  BY <1>1, <1>2, PTL DEF Spec

\* Every variable keeps to its type; in particular retrieved_cnt never passes the
\* number of blocks, beyond which AllBlocksRetrieved would never be true again.
THEOREM TypeCorrect == Spec => []TypeOK
<1>1. IInv => TypeOK
  BY DEF IInv
<1> QED
  BY <1>1, Invariance, PTL

\* No piece is ever in two hands.
THEOREM OwnershipIsExclusive == Spec => []ExclusiveOwnership
<1>1. ASSUME IInv
      PROVE  ExclusiveOwnership
  <2> USE <1>1 DEF IInv
  <2>1. /\ remainPieces_ \in Seq(Pieces)
        /\ Range(remainPieces_) = {remainPieces_[k] : k \in 1 .. Len(remainPieces_)}
        /\ saved_ \in Seq(Pieces)
        /\ Range(saved_) = {saved_[k] : k \in 1 .. Len(saved_)}
    BY RangeEquality DEF TypeOK, StorageTypeOK
  <2>2. Taken \in Int /\ \A j \in Range(remainPieces_) : j \in Int /\ j >= Taken
    BY <2>1, NPiecesAssumption DEF QueueInv, Taken
  <2>3. \A j \in Range(saved_) : j < Taken
    BY <2>1 DEF OwnerInv
  <2>4. Range(saved_) \cap Range(remainPieces_) = {}
    BY <2>2, <2>3
  <2>5. \A p \in Peers : pieceInProgress_[p] # Null =>
          pieceInProgress_[p] \notin Range(remainPieces_)
    BY <2>2 DEF OwnerInv
  <2> QED BY <2>4, <2>5 DEF ExclusiveOwnership, OwnerInv, Delivered
<1> QED
  BY <1>1, Invariance, PTL

\* The output file never holds bytes that were not checked.
THEOREM DiskIsVerified == Spec => []OnlyVerifiedOnDisk
<1>1. IInv => OnlyVerifiedOnDisk
  BY DEF IInv, DiskInv
<1> QED
  BY <1>1, Invariance, PTL

\* The block RequestPiece dereferences is there.
THEOREM BlockIsFound == Spec => []RequestFindsBlock
<1>1. ASSUME IInv
      PROVE  RequestFindsBlock
  <2> SUFFICES ASSUME NEW p \in Peers, pc[p] = "request", RequestedPiece(p) # Null
               PROVE  FirstMissingBlock(pieces[RequestedPiece(p)]) # Null
    BY DEF RequestFindsBlock
  <2>1. FirstMissingBlock(pieces[RequestedPiece(p)]) \in MissingBlocks(pieces[RequestedPiece(p)])
    BY <1>1, RequestedPieceIsFree
  <2>2. MissingBlocks(pieces[RequestedPiece(p)])
          \subseteq 0 .. pieces[RequestedPiece(p)].size - 1
    BY DEF MissingBlocks
  <2> QED BY <2>1, <2>2 DEF Null
<1> QED
  BY <1>1, Invariance, PTL

\* The block saved is one the piece held lacks.
THEOREM AnswersFit == Spec => []AnswerFitsPiece
<1>1. IInv => AnswerFitsPiece
  BY DEF IInv, RequestInv, RequestsOf, Awaits, AnswerFitsPiece
<1> QED
  BY <1>1, Invariance, PTL

\* The retry loop of a thread never connects again.
THEOREM NoReconnection == Spec => []OneConnectionPerThread
<1>1. IInv => OneConnectionPerThread
  BY DEF IInv, AttemptInv, AttemptOf, OneConnectionPerThread
<1> QED
  BY <1>1, Invariance, PTL

\* As many indices are saved as there are saved pieces, all of them below Taken.
LEMMA SavedBelowTaken ==
  ASSUME IInv
  PROVE  /\ Taken \in 0 .. NPieces
         /\ Len(saved_) <= Taken
         /\ Len(saved_) >= NPieces => Range(saved_) = Pieces
<1> USE DEF IInv
<1>1. saved_ \in Seq(Pieces) /\ Len(saved_) \in Nat /\ Taken \in 0 .. NPieces
  BY NPiecesAssumption DEF TypeOK, StorageTypeOK, QueueInv, Taken
<1>2. \A k \in 1 .. Len(saved_) : saved_[k] \in 0 .. Taken - 1
  <2>1. \A k \in 1 .. Len(saved_) : saved_[k] \in Pieces
    BY <1>1
  <2> QED BY <1>1, <2>1 DEF OwnerInv, Pieces
<1>3. saved_ \in [1 .. Len(saved_) -> 0 .. Taken - 1]
  BY <1>1, <1>2
<1>4. saved_ \in Injection(1 .. Len(saved_), 0 .. Taken - 1)
  BY <1>3 DEF Injection, IsInjective, OwnerInv
<1>5. /\ IsFiniteSet(0 .. Taken - 1) /\ Cardinality(0 .. Taken - 1) = Taken
      /\ IsFiniteSet(1 .. Len(saved_)) /\ Cardinality(1 .. Len(saved_)) = Len(saved_)
  <2>1. Taken \in Nat /\ Len(saved_) \in Nat
    BY <1>1, NPiecesAssumption
  <2>2. 0 \in Int /\ Taken - 1 \in Int
    BY <2>1
  <2>3. IsFiniteSet(0 .. Taken - 1) /\ Cardinality(0 .. Taken - 1) = Taken
    <3>1. IsFiniteSet(0 .. Taken - 1)
      BY ONLY <2>2, FS_Interval, Zenon
    <3>2. Cardinality(0 .. Taken - 1) = IF 0 > Taken - 1 THEN 0 ELSE (Taken - 1) - 0 + 1
      BY ONLY <2>2, FS_Interval, Zenon
    <3> QED BY <2>1, <3>1, <3>2
  <2>4. IsFiniteSet(1 .. Len(saved_)) /\ Cardinality(1 .. Len(saved_)) = Len(saved_)
    <3>1. 1 \in Int /\ Len(saved_) \in Int
      BY <2>1
    <3>2. IsFiniteSet(1 .. Len(saved_))
      BY ONLY <3>1, FS_Interval, Zenon
    <3>3. Cardinality(1 .. Len(saved_)) = IF 1 > Len(saved_) THEN 0 ELSE Len(saved_) - 1 + 1
      BY ONLY <3>1, FS_Interval, Zenon
    <3> QED BY <2>1, <3>2, <3>3
  <2> QED BY <2>3, <2>4
<1>6. /\ Cardinality(1 .. Len(saved_)) <= Cardinality(0 .. Taken - 1)
      /\ Cardinality(1 .. Len(saved_)) = Cardinality(0 .. Taken - 1)
           => saved_ \in Surjection(1 .. Len(saved_), 0 .. Taken - 1)
  BY <1>4, <1>5, FS_Injection
<1>7. ASSUME Len(saved_) >= NPieces
      PROVE  Range(saved_) = Pieces
  <2>1. Taken = NPieces /\ saved_ \in Surjection(1 .. Len(saved_), 0 .. NPieces - 1)
    BY <1>1, <1>5, <1>6, <1>7, NPiecesAssumption
  <2>2. Range(saved_) = {saved_[k] : k \in 1 .. Len(saved_)}
    BY <1>1, RangeEquality
  <2> QED BY <1>2, <2>1, <2>2 DEF Surjection, Pieces
<1> QED
  BY <1>1, <1>5, <1>6, <1>7

\* The subtraction of sizes in PiecesInProgressCount never wraps.
THEOREM InProgressCounts == Spec => []InProgressNeverWraps
<1>1. ASSUME IInv
      PROVE  InProgressNeverWraps
  <2>1. Taken \in Int /\ Len(saved_) \in Nat
    BY <1>1, SavedBelowTaken DEF IInv, TypeOK, StorageTypeOK
  <2> QED BY <1>1, <2>1, SavedBelowTaken DEF InProgressNeverWraps, PiecesInProgressCount, Taken
<1> QED
  BY <1>1, Invariance, PTL

\* A download reported complete has the whole file on disk and no thread left.
THEOREM ReportIsTrue == Spec => []ReportedDownloadIsComplete
<1>1. ASSUME IInv
      PROVE  ReportedDownloadIsComplete
  <2> SUFFICES ASSUME main_pc = "check"
               PROVE  /\ Range(saved_) = Pieces
                      /\ outputFile_ = "good" => \A i \in Pieces : disk[i] = "Good"
                      /\ \A p \in Peers : pc[p] = "done"
    BY DEF ReportedDownloadIsComplete
  <2>1. Len(saved_) >= NPieces /\ \A p \in Peers : pc[p] = "done"
    BY <1>1 DEF IInv, MainInv
  <2>2. Range(saved_) = Pieces
    BY <1>1, <2>1, SavedBelowTaken
  <2> QED BY <1>1, <2>1, <2>2 DEF IInv, DiskInv, OnlyVerifiedOnDisk
<1> QED
  BY <1>1, Invariance, PTL

\* What is recorded stays recorded, and its region of the file is left alone.
LEMMA SavedIsKept ==
  ASSUME IInv, [Next]_vars
  PROVE  /\ IsPrefix(saved_, saved_')
         /\ \A i \in Range(saved_) : disk'[i] = disk[i]
<1>1. CASE UNCHANGED <<saved_, disk>>
  BY <1>1, SavedGrows DEF IsPrefix
<1>2. ASSUME NEW p \in Peers, ReceivePiece(p)
      PROVE  /\ IsPrefix(saved_, saved_')
             /\ \A i \in Range(saved_) : disk'[i] = disk[i]
  <2>1. PICK i : Receives(p, i)
    BY <1>2, ReceiveEffect
  <2>2. CASE /\ saved_' = Append(saved_, i)
             /\ disk' = [disk EXCEPT ![i] = "Good"] \/ UNCHANGED disk
    <3>1. /\ saved_ \in Seq(Pieces) /\ saved_' \in Seq(Pieces)
          /\ Len(saved_) \in Nat /\ Len(saved_') = Len(saved_) + 1
          /\ \A k \in 1 .. Len(saved_) : saved_'[k] = saved_[k]
      BY <2>1, <2>2, AppendSaved DEF Receives, IInv, TypeOK, StorageTypeOK
    <3>2. SubSeq(saved_, 1, Len(saved_)) = SubSeq(saved_', 1, Len(saved_))
      BY <3>1
    <3>3. i \in Pieces /\ i \notin Range(saved_) /\ disk \in [Pieces -> {"Hole", "Good", "Bad"}]
      BY <2>1 DEF Receives, IInv, TypeOK, StorageTypeOK
    <3>4. \A j \in Range(saved_) : disk'[j] = disk[j]
      BY <2>2, <3>3, SoundAssumption DEF IInv, DiskInv
    <3> QED BY <3>1, <3>2, <3>4 DEF IsPrefix
  <2> QED BY <1>1, <2>1, <2>2 DEF Receives, fileVars
<1> QED
  BY <1>1, <1>2, StepKinds DEF IInv, Quiet, StartRound, Takes, storageVars, fileVars

\* What is on disk stays.
THEOREM SavedStays == Spec => SavedIsFinal
<1>1. IInv /\ [Next]_vars =>
        [/\ IsPrefix(saved_, saved_')
         /\ \A i \in Range(saved_) : disk'[i] = disk[i]]_<<saved_, disk>>
  BY SavedIsKept
<1> QED
  BY <1>1, Invariance, PTL DEF Spec, SavedIsFinal

-----------------------------------------------------------------------------
(* The ledger *)

\* A queue that ends with NPieces - 1 and counts down to its head holds the last
\* Len(queue) pieces.
LEMMA QueueHolds ==
  ASSUME NEW queue \in Seq(Pieces), Len(queue) <= NPieces,
         \A k \in 1 .. Len(queue) : queue[k] = NPieces - Len(queue) + k - 1,
         NEW i \in Pieces
  PROVE  i \in Range(queue) <=> i >= NPieces - Len(queue)
<1>1. NPieces \in Nat /\ Len(queue) \in Nat /\ i \in Int /\ i < NPieces
  BY NPiecesAssumption DEF Pieces
<1>2. Range(queue) = {queue[k] : k \in 1 .. Len(queue)}
  BY RangeEquality
<1>3. ASSUME i \in Range(queue)
      PROVE  i >= NPieces - Len(queue)
  BY <1>1, <1>2, <1>3
<1>4. ASSUME i >= NPieces - Len(queue)
      PROVE  i \in Range(queue)
  <2>1. i - (NPieces - Len(queue)) + 1 \in 1 .. Len(queue)
    BY <1>1, <1>4
  <2>2. queue[i - (NPieces - Len(queue)) + 1] = i
    BY <1>1, <2>1
  <2> QED BY <1>2, <2>1, <2>2
<1> QED
  BY <1>3, <1>4

\* Init maps to the initial state of the ledger.
LEMMA LedgerStarts ==
  ASSUME Init
  PROVE  Ledger!LedgerInit
<1>1. IInv
  BY InitInv
<1>2. Len(remainPieces_) = NPieces /\ saved_ = <<>> /\ main_pc = "tracker"
  BY NPiecesAssumption DEF Init, StorageInit
<1>3. Range(saved_) = {}
  BY <1>2 DEF Range
<1>4. ASSUME NEW i \in Pieces
      PROVE  Phase(i) = "remaining"
  <2>1. i \in Range(remainPieces_) <=> i >= Taken
    BY <1>1, QueueHolds DEF IInv, TypeOK, StorageTypeOK, QueueInv, Taken
  <2>2. i >= Taken
    BY <1>2, NPiecesAssumption DEF Taken, Pieces
  <2> QED BY <1>3, <2>1, <2>2 DEF Phase
<1> QED
  BY <1>2, <1>4 DEF Ledger!LedgerInit, Ledger!Pieces, Pieces

\* The phase of a piece, by Taken, before and after a step.
LEMMA PhaseOf ==
  ASSUME IInv, [Next]_vars, NEW i \in Pieces
  PROVE  /\ Phase(i) = IF i \in Range(saved_) THEN "saved"
                       ELSE IF i >= Taken THEN "remaining" ELSE "out"
         /\ Phase(i)' = IF i \in Range(saved_') THEN "saved"
                        ELSE IF i >= Taken' THEN "remaining" ELSE "out"
<1>1. i \in Range(remainPieces_) <=> i >= Taken
  BY QueueHolds DEF IInv, TypeOK, StorageTypeOK, QueueInv, Taken
<1>2. i \in Range(remainPieces_') <=> i >= Taken'
  BY QueueStep, QueueHolds DEF QueueInv, Taken
<1> QED
  BY <1>1, <1>2 DEF Phase

\* Only JoinPeers reports the download, and it finds every piece saved.
LEMMA ReportStep ==
  ASSUME IInv, [Next]_vars, (main_pc = "check") # (main_pc' = "check")
  PROVE  Ledger!Report
<1>1. main_pc' = "check" /\ UNCHANGED storageVars
  BY DEF Next, MainStep, StartRound, TrackerFails, PollSaved, PollInProgress, TerminatePeer,
         JoinPeers, ThreadStep, ConnectionStep, RetryRun, Crash, EnvironmentStep, Halted,
         Ended, vars, mainVars
<1>2. Len(saved_) >= NPieces
  BY <1>1, MainStepInv DEF MainInv, storageVars, fileVars
<1>3. Range(saved_) = Pieces
  BY <1>2, SavedBelowTaken
<1>4. ASSUME NEW i \in Pieces
      PROVE  Phase(i) = "saved" /\ Phase(i)' = "saved"
  BY <1>1, <1>3, <1>4 DEF Phase, storageVars, fileVars
<1> QED
  BY <1>1, <1>4 DEF Ledger!Report, Ledger!Pieces, Pieces

\* Every step maps to a step of the ledger, or to none.
LEMMA LedgerStep ==
  ASSUME IInv, [Next]_vars
  PROVE  [Ledger!LedgerNext]_(Ledger!ledgerVars)
<1> DEFINE phase == [i \in Pieces |-> Phase(i)]
           complete == main_pc = "check"
<1>1. CASE complete # complete'
  BY <1>1, ReportStep DEF Ledger!LedgerNext
<1>2. CASE complete = complete' /\ (Quiet \/ StartRound)
  <2>1. \A i \in Pieces : Phase(i)' = Phase(i)
    BY <1>2 DEF Quiet, StartRound, storageVars, fileVars, Phase
  <2> QED BY <1>2, <2>1 DEF Ledger!ledgerVars
<1>3. ASSUME complete = complete', NEW p \in Peers, Takes(p)
      PROVE  [Ledger!LedgerNext]_(Ledger!ledgerVars)
  <2>1. /\ UNCHANGED saved_
        /\ Taken \in 0 .. NPieces /\ Taken' \in 0 .. NPieces
        /\ \/ Taken' = Taken
           \/ Taken \in Pieces /\ Taken' = Taken + 1
    BY <1>3, TakeEffect DEF Takes, fileVars, IInv
  <2>2. CASE Taken' = Taken
    <3>1. \A i \in Pieces : Phase(i)' = Phase(i)
      BY <2>1, <2>2, PhaseOf
    <3> QED BY <1>3, <3>1 DEF Ledger!ledgerVars
  <2>3. CASE Taken \in Pieces /\ Taken' = Taken + 1
    <3>1. Taken \notin Range(saved_)
      <4>1. saved_ \in Seq(Pieces) /\ Range(saved_) = {saved_[k] : k \in 1 .. Len(saved_)}
        BY RangeEquality DEF IInv, TypeOK, StorageTypeOK
      <4> QED BY <2>1, <4>1 DEF IInv, OwnerInv
    <3>2. Phase(Taken) = "remaining" /\ \A j \in 0 .. Taken - 1 : Phase(j) # "remaining"
      BY <2>1, <2>3, <3>1, PhaseOf, NPiecesAssumption DEF Pieces
    <3>3. /\ \A j \in Pieces \ {Taken} : Phase(j)' = Phase(j)
          /\ \A j \in Pieces : j = Taken => Phase(j)' = "out"
      BY <2>1, <2>3, <3>1, PhaseOf, NPiecesAssumption DEF Pieces
    <3>4. phase' = [phase EXCEPT ![Taken] = "out"]
      BY <3>3
    <3>5. phase[Taken] = "remaining" /\ \A j \in 0 .. Taken - 1 : phase[j] # "remaining"
      BY <2>3, <3>2, NPiecesAssumption DEF Pieces
    <3>6. Ledger!HandOut(Taken)
      BY <1>3, <3>4, <3>5 DEF Ledger!HandOut
    <3> QED
      BY <2>3, <3>6 DEF Ledger!LedgerNext, Ledger!Pieces, Pieces
  <2> QED BY <2>1, <2>2, <2>3
<1>4. ASSUME complete = complete', NEW p \in Peers, ReceivePiece(p)
      PROVE  [Ledger!LedgerNext]_(Ledger!ledgerVars)
  <2>1. PICK i : Receives(p, i)
    BY <1>4, ReceiveEffect
  <2>2. Taken' = Taken /\ i \in Pieces /\ i \notin Range(saved_) /\ i < Taken
    BY <2>1 DEF Receives, Taken, IInv, OwnerInv, Pieces, Null
  <2>3. CASE UNCHANGED saved_
    <3>1. \A j \in Pieces : Phase(j)' = Phase(j)
      BY <2>2, <2>3, PhaseOf
    <3> QED BY <1>4, <3>1 DEF Ledger!ledgerVars
  <2>4. CASE i \in Sound /\ saved_' = Append(saved_, i)
    <3>1. Range(saved_') = Range(saved_) \cup {i}
      BY <2>2, <2>4, AppendSaved DEF IInv
    <3>2. Phase(i) = "out" /\ Phase(i)' = "saved"
      BY <2>2, <3>1, PhaseOf, NPiecesAssumption DEF Pieces, Taken, IInv, QueueInv
    <3>3. \A j \in Pieces \ {i} : Phase(j)' = Phase(j)
      BY <2>2, <3>1, PhaseOf
    <3>4. phase' = [phase EXCEPT ![i] = "saved"]
      BY <3>2, <3>3
    <3> QED
      BY <1>4, <2>2, <2>4, <3>2, <3>4 DEF Ledger!LedgerNext, Ledger!Save, Ledger!Pieces, Pieces
  <2> QED BY <2>1, <2>3, <2>4 DEF Receives, fileVars
<1> QED
  BY <1>1, <1>2, <1>3, <1>4, StepKinds DEF IInv

\* The threads, the main thread and the remotes together implement PieceLedger.
THEOREM Refinement == Spec => ImplementsLedger
<1>1. Init => Ledger!LedgerInit
  BY LedgerStarts
<1>2. IInv /\ [Next]_vars => [Ledger!LedgerNext]_(Ledger!ledgerVars)
  BY LedgerStep
<1> QED
  BY <1>1, <1>2, Invariance, PTL DEF Spec, ImplementsLedger, Ledger!LedgerSpec
=============================================================================
