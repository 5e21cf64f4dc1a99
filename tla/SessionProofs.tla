---------------------------- MODULE SessionProofs ----------------------------
(***************************************************************************)
(* Every connection of TorrentClient implements PeerSession, for every     *)
(* number of pieces, blocks and peers.  SessionInv adds to IInv what the   *)
(* refinement rests on: the blocks of a piece are there from the first on, *)
(* so that the first missing one has the number of those that are there.   *)
(***************************************************************************)
EXTENDS TorrentClientProofs

-----------------------------------------------------------------------------
(* The invariant *)

\* The blocks that are there are those before retrieved_cnt.
InOrder(piece) ==
  \A b \in 0 .. piece.size - 1 : piece.blocks[b] = Missing <=> b >= piece.retrieved_cnt

\* A piece in the queue is as it was created, one on disk is complete.
BlocksInv ==
  \A i \in Pieces :
    /\ InOrder(pieces[i])
    /\ i >= Taken => pieces[i].retrieved_cnt = 0
    /\ i \in Range(saved_) => pieces[i].retrieved_cnt = BlockCount[i]

\* The block that is asked for or has come is the next one.
SessionOf(p) ==
  /\ outstanding[p] # Null => outstanding[p] = Got(p)
  /\ inbox[p] # NoMessage /\ inbox[p].type = "Piece" => inbox[p].begin = Got(p)
  /\ Delivered(p) => pieceInProgress_[p] # Null
  /\ Stage(p) \in {"new", "setup"} => ~pendingBlock_[p]

SessionInv == BlocksInv /\ \A p \in Peers : SessionOf(p)

-----------------------------------------------------------------------------
(* Blocks in order *)

LEMMA FirstMissingIsNext ==
  ASSUME NEW n \in Nat, NEW piece \in PieceOfSize(n), InOrder(piece),
         piece.retrieved_cnt < n
  PROVE  FirstMissingBlock(piece) = piece.retrieved_cnt
<1> DEFINE c == piece.retrieved_cnt
<1>1. piece.size = n /\ c \in 0 .. n - 1
  BY PieceFields
<1>2. c \in MissingBlocks(piece) /\ \A b \in MissingBlocks(piece) : c <= b /\ b \in Int
  BY <1>1 DEF MissingBlocks, InOrder
<1> HIDE DEF c
<1>3. \A d \in MissingBlocks(piece) : (\A b \in MissingBlocks(piece) : d <= b) => d = c
  BY <1>2
<1> QED
  BY <1>2, <1>3 DEF FirstMissingBlock, c

\* What ReceivePiece does to the piece held, block by block: the next block is there,
\* or, if it was the last and the hash is wrong, none.
ReceivesNext(p, i) ==
  LET count == pieces[i].retrieved_cnt
  IN /\ inbox[p].begin = count /\ count \in Nat /\ count < BlockCount[i]
     /\ InOrder(pieces'[i])
     /\ \/ /\ pieces'[i].retrieved_cnt = count + 1
           /\ pc'[p] = "processed" => count + 1 = BlockCount[i]
        \/ /\ count + 1 = BlockCount[i]
           /\ pieces'[i].retrieved_cnt = 0
           /\ pc'[p] = "loop"

LEMMA ReceiveNext ==
  ASSUME IInv, SessionInv, NEW p \in Peers, ReceivePiece(p)
  PROVE  /\ Receives(p, pieceInProgress_[p])
         /\ ReceivesNext(p, pieceInProgress_[p])
<1> DEFINE i == pieceInProgress_[p]
           n == BlockCount[i]
           piece == SaveBlock(pieces[i], inbox[p].begin, inbox[p].data)
<1>1. Receives(p, i)
  BY ReceiveEffect
<1>2. /\ pc[p] = "recv" /\ inbox[p] # NoMessage /\ inbox[p].type = "Piece"
      /\ i \in Pieces /\ i \notin Range(saved_)
  BY <1>1 DEF ReceivePiece, Receives
<1>3. /\ n \in Nat \ {0} /\ pieces[i] \in PieceOfSize(n) /\ pieces[i].size = n
      /\ pieces[i].blocks \in [0 .. n - 1 -> {Missing} \cup BlockData]
      /\ pieces[i].retrieved_cnt \in 0 .. n
  BY <1>2, BlockCountAssumption, PieceFields DEF IInv, TypeOK, StorageTypeOK
<1>4. pieces[i].retrieved_cnt < n
  BY <1>2, <1>3 DEF IInv, CountInv
<1>5. i # Null
  BY <1>2 DEF Pieces, Null
<1>6. inbox[p].begin = pieces[i].retrieved_cnt
  BY <1>2, <1>5 DEF SessionInv, SessionOf, Got
<1>7. inbox[p].data \in BlockData /\ inbox[p].data # Missing
  BY <1>2, MessageFields DEF IInv, TypeOK, PeerTypeOK, BlockData, Missing
<1>8. InOrder(pieces[i])
  BY <1>2 DEF SessionInv, BlocksInv
<1>9. /\ piece.size = n /\ piece.retrieved_cnt = pieces[i].retrieved_cnt + 1
      /\ piece.blocks = [pieces[i].blocks EXCEPT ![inbox[p].begin] = inbox[p].data]
  BY <1>3 DEF SaveBlock, PieceOfSize
<1>10. InOrder(piece)
  BY <1>3, <1>4, <1>6, <1>7, <1>8, <1>9 DEF InOrder
<1>11. /\ InOrder(Reset(piece)) /\ Reset(piece).retrieved_cnt = 0
  BY <1>3, <1>9 DEF InOrder, Reset, NewPiece
<1>12. pieces = [j \in Pieces |-> pieces[j]] /\ pc \in [Peers -> Location]
  BY DEF IInv, TypeOK, StorageTypeOK, PeerTypeOK
<1> HIDE DEF piece, i, n
<1>13. CASE /\ ~AllBlocksRetrieved(piece)
            /\ pieces' = [pieces EXCEPT ![i] = piece]
            /\ Goto(p, "loop")
  <2>1. pieces'[i] = piece /\ pc'[p] = "loop"
    BY <1>2, <1>12, <1>13 DEF Goto
  <2> QED
    BY <1>1, <1>3, <1>4, <1>6, <1>9, <1>10, <2>1 DEF ReceivesNext, i, n
<1>14. CASE /\ AllBlocksRetrieved(piece)
            /\ pieces' = [pieces EXCEPT ![i] = piece]
  <2>1. pieces'[i] = piece /\ pieces[i].retrieved_cnt + 1 = n
    BY <1>2, <1>9, <1>12, <1>14 DEF AllBlocksRetrieved
  <2> QED
    BY <1>1, <1>3, <1>4, <1>6, <1>9, <1>10, <2>1 DEF ReceivesNext, i, n
<1>15. CASE /\ AllBlocksRetrieved(piece)
            /\ pieces' = [pieces EXCEPT ![i] = Reset(piece)]
            /\ Goto(p, "loop")
  <2>1. /\ pieces'[i] = Reset(piece) /\ pc'[p] = "loop"
        /\ pieces[i].retrieved_cnt + 1 = n
    BY <1>2, <1>9, <1>12, <1>15 DEF Goto, AllBlocksRetrieved
  <2> QED
    BY <1>1, <1>3, <1>4, <1>6, <1>11, <2>1 DEF ReceivesNext, i, n
<1> QED
  BY <1>13, <1>14, <1>15 DEF ReceivePiece, i, piece
-----------------------------------------------------------------------------
(* The invariant is kept *)

\* The initial state has the invariant.
LEMMA SessionInvInit ==
  ASSUME Init
  PROVE  SessionInv
<1> USE DEF Init, StorageInit
<1>1. ASSUME NEW i \in Pieces
      PROVE  InOrder(pieces[i]) /\ pieces[i].retrieved_cnt = 0
  <2>1. pieces[i] = NewPiece(BlockCount[i]) /\ BlockCount[i] \in Nat
    BY BlockCountAssumption
  <2> QED BY <2>1 DEF InOrder, NewPiece
<1>2. Range(saved_) = {}
  BY DEF Range
<1>3. \A p \in Peers : SessionOf(p)
  BY DEF SessionOf, Delivered, Stage
<1> QED
  BY <1>1, <1>2, <1>3 DEF SessionInv, BlocksInv

LEMMA BlocksStep ==
  ASSUME IInv, SessionInv, [Next]_vars
  PROVE  BlocksInv'
<1> USE DEF BlocksInv
<1>1. BlocksInv /\ TypeOK /\ QueueInv
  BY DEF SessionInv, IInv
<1>2. CASE Quiet \/ StartRound
  BY <1>1, <1>2 DEF Quiet, StartRound, storageVars, fileVars, Taken
<1>3. ASSUME NEW p \in Peers, Takes(p)
      PROVE  BlocksInv'
  <2>1. Taken \in Int /\ Taken' \in Int /\ Taken' >= Taken
    BY <1>1, <1>3, TakeEffect, NPiecesAssumption DEF Takes
  <2>2. UNCHANGED <<pieces, saved_>>
    BY <1>3 DEF Takes, fileVars
  <2> QED BY <1>1, <2>1, <2>2 DEF Pieces
<1>4. ASSUME NEW p \in Peers, ReceivePiece(p)
      PROVE  BlocksInv'
  <2> DEFINE i == pieceInProgress_[p]
  <2>1. Receives(p, i) /\ ReceivesNext(p, i)
    BY <1>4, ReceiveNext
  <2>2. i \in Pieces /\ i # Null /\ i \notin Range(saved_) /\ i < Taken /\ Taken' = Taken
    BY <2>1 DEF Receives, IInv, OwnerInv, Pieces, Null, Taken
  <2>3. \A j \in Pieces \ {i} : pieces'[j] = pieces[j]
    BY <1>1, <2>1 DEF Receives, TypeOK, StorageTypeOK
  <2>4. Taken \in Int
    BY <1>1, NPiecesAssumption DEF Taken, TypeOK, StorageTypeOK
  <2> HIDE DEF i
  <2>5. \/ Range(saved_') = Range(saved_)
        \/ Range(saved_') = Range(saved_) \cup {i} /\ pc'[p] = "processed"
    BY <1>1, <2>1, <2>2, AppendSaved DEF Receives, fileVars
  <2>6. i \in Range(saved_') => pieces'[i].retrieved_cnt = BlockCount[i]
    BY <2>1, <2>2, <2>5 DEF ReceivesNext
  <2>7. InOrder(pieces'[i])
    BY <2>1 DEF ReceivesNext
  <2>8. ASSUME NEW j \in Pieces
        PROVE  /\ InOrder(pieces'[j])
               /\ j >= Taken' => pieces'[j].retrieved_cnt = 0
               /\ j \in Range(saved_') => pieces'[j].retrieved_cnt = BlockCount[j]
    <3>1. CASE j = i
      BY <2>2, <2>4, <2>6, <2>7, <3>1 DEF Pieces
    <3>2. CASE j # i
      BY <1>1, <2>2, <2>3, <2>5, <3>2
    <3> QED BY <3>1, <3>2
  <2> QED BY <2>8
<1> QED
  BY <1>1, <1>2, <1>3, <1>4, StepKinds

\* RequestPiece asks for the block with the number of those that are there.
LEMMA RequestsNext ==
  ASSUME IInv, SessionInv, NEW p \in Peers, pc[p] = "request", RequestedPiece(p) # Null
  PROVE  LET i == RequestedPiece(p)
         IN /\ i \in Pieces
            /\ FirstMissingBlock(pieces[i]) = pieces[i].retrieved_cnt
            /\ pieces[i].retrieved_cnt \in Nat /\ pieces[i].retrieved_cnt < BlockCount[i]
            /\ pieceInProgress_[p] = Null => pieces[i].retrieved_cnt = 0
<1> DEFINE i == RequestedPiece(p)
           n == BlockCount[i]
<1>1. i \in Pieces /\ i \notin Range(saved_)
  BY RequestedPieceIsFree
<1>2. n \in Nat /\ pieces[i] \in PieceOfSize(n) /\ pieces[i].size = n
      /\ pieces[i].retrieved_cnt \in 0 .. n
  BY <1>1, BlockCountAssumption, PieceFields DEF IInv, TypeOK, StorageTypeOK
<1>3. pieces[i].retrieved_cnt < n /\ InOrder(pieces[i])
  BY <1>1, <1>2 DEF IInv, CountInv, SessionInv, BlocksInv
<1>4. FirstMissingBlock(pieces[i]) = pieces[i].retrieved_cnt
  BY <1>2, <1>3, FirstMissingIsNext
<1>5. pieceInProgress_[p] = Null => pieces[i].retrieved_cnt = 0
  <2> SUFFICES ASSUME pieceInProgress_[p] = Null
               PROVE  i >= Taken
    BY <1>1 DEF SessionInv, BlocksInv
  <2>1. remainPieces_ \in Seq(Pieces) /\ remainPieces_ # <<>> /\ i = remainPieces_[1]
    BY DEF RequestedPiece, NextPiece, QueueIsEmpty, IInv, TypeOK, StorageTypeOK
  <2>2. Len(remainPieces_) \in Nat \ {0}
    BY <2>1
  <2>3. i = Taken
    BY <2>1, <2>2, NPiecesAssumption DEF IInv, QueueInv, Taken
  <2>4. Taken \in Int
    BY <2>2, NPiecesAssumption DEF Taken
  <2> QED BY <2>3, <2>4
<1> QED
  BY <1>1, <1>2, <1>3, <1>4, <1>5
\* A step of another connection, or of its remote, changes nothing of this session.
SessionKept(q) ==
  UNCHANGED <<pc[q], terminated_[q], pendingBlock_[q], pieceInProgress_[q],
              inbox[q], outstanding[q]>>

LEMMA GotKept ==
  ASSUME IInv, [Next]_vars, NEW q \in Peers, UNCHANGED pieceInProgress_[q], pc'[q] = pc[q]
  PROVE  Got(q)' = Got(q)
BY HeldPieceKept DEF Got

\* What is asked for, or has come, is the next block of the piece held.
LEMMA SessionOfStep ==
  ASSUME IInv, SessionInv, [Next]_vars, NEW q \in Peers
  PROVE  SessionOf(q)'
<1>1. /\ SessionOf(q) /\ RequestsOf(q) /\ AttemptOf(q) /\ TypeOK /\ PeerTypeOK
      /\ pieceInProgress_[q] # Null /\ pieceInProgress_[q] \in Range(saved_) => Delivered(q)
  BY DEF IInv, SessionInv, RequestInv, AttemptInv, OwnerInv, TypeOK
<1>2. ASSUME SessionKept(q)
      PROVE  SessionOf(q)'
  BY <1>1, <1>2, GotKept DEF SessionKept, SessionOf, Delivered, Stage
<1>3. CASE StartRound
  BY <1>3 DEF StartRound, ConstructPeers, SessionOf, Delivered
<1>4. CASE (MainStep /\ ~StartRound /\ ~TerminatePeer(q)) \/ UNCHANGED vars \/ Crash(q)
  <2>1. SessionKept(q)
    BY <1>1, <1>4 DEF MainStep, TrackerFails, PollSaved, PollInProgress, TerminatePeer, Terminate,
        JoinPeers, Crash, SessionKept, vars, peerVars, connVars, PeerTypeOK
  <2> QED BY <1>2, <2>1
<1>5. CASE \E p \in Peers \ {q} : ThreadStep(p) \/ EnvironmentStep(p)
  BY <1>1, <1>2, <1>5, OthersKept DEF SessionKept
<1>6. CASE TerminatePeer(q) \/ RetryRun(q)
  BY <1>1, <1>6, GotKept DEF TerminatePeer, RetryRun, Terminate, Goto, SessionOf, Delivered, Stage, Got,
       PeerTypeOK, storageVars, AttemptOf
<1>7. CASE EnvironmentStep(q)
  <2>1. UNCHANGED <<pc, terminated_, pendingBlock_>> /\ Got(q)' = Got(q)
    BY <1>7, GotKept DEF EnvironmentStep, RemoteStep, RemoteAnnounces, RemoteChokes,
         RemoteAnswers, connVars
  <2>2. CASE RemoteAnnounces(q)
    BY <1>1, <2>1, <2>2 DEF RemoteAnnounces, Deliver, HaveMessage, BitFieldMessage, NoMessage,
         connVars, SessionOf, Delivered, Stage, PeerTypeOK
  <2>3. CASE RemoteChokes(q)
    BY <1>1, <2>1, <2>3 DEF RemoteChokes, Deliver, SessionOf, Delivered, Stage, PeerTypeOK
  <2>4. CASE RemoteAnswers(q)
    BY <1>1, <2>1, <2>4 DEF RemoteAnswers, Deliver, SessionOf, Delivered, Stage, PeerTypeOK
  <2> QED BY <1>7, <2>1, <2>2, <2>3, <2>4 DEF EnvironmentStep, RemoteStep
<1>8. CASE PeerStep(q)
  <2> USE DEF SessionOf, Delivered, Stage, Got, PeerTypeOK, Goto, Abandon, Terminate,
              storageVars, connVars
  <2>1. CASE Run(q) \/ PerformHandshake(q) \/ SendInterested(q) \/ MainLoop(q)
    BY <1>1, <2>1 DEF Run, PerformHandshake, SendInterested, MainLoop
  <2>2. CASE ReceiveBitfield(q) \/ ReceiveControl(q)
    <3>1. /\ inbox'[q] = NoMessage
          /\ UNCHANGED <<terminated_, pendingBlock_, pieceInProgress_, pieces, outstanding>>
      BY <1>1, <2>2 DEF ReceiveBitfield, ReceiveControl
    <3>2. CASE ReceiveBitfield(q)
      BY <1>1, <3>1, <3>2 DEF ReceiveBitfield
    <3>3. CASE ReceiveControl(q)
      <4>1. pc[q] = "recv" /\ pc'[q] = "loop"
        BY <1>1, <3>3 DEF ReceiveControl
      <4> QED BY <1>1, <3>1, <4>1
    <3> QED BY <2>2, <3>2, <3>3
  <2>3. CASE EstablishFails(q) \/ ReceiveFails(q) \/ CheckQueue(q)
    BY <1>1, <2>3 DEF EstablishFails, ReceiveFails, CheckQueue
  <2>4. CASE TakeNextPiece(q)
    BY <1>1, <2>4 DEF TakeNextPiece, RequestsOf, Awaits
  <2>5. CASE RequestNothing(q)
    BY <1>1, <2>5 DEF RequestNothing, TakeRequestedPiece, RequestsOf, Awaits
  <2>6. CASE RequestBlock(q)
    BY <1>1, <2>6, RequestsNext DEF RequestBlock, TakeRequestedPiece, RequestsOf, Awaits
  <2>7. CASE ReceivePiece(q)
    BY <1>1, <2>7, ReceiveEffect DEF ReceivePiece, Receives, RequestsOf, Awaits
  <2> QED
    BY <1>8, <2>1, <2>2, <2>3, <2>4, <2>5, <2>6, <2>7 DEF PeerStep
<1> QED
  BY <1>3, <1>4, <1>5, <1>6, <1>7, <1>8 DEF Next, ThreadStep, ConnectionStep, Halted

\* The invariant is kept by every step.
LEMMA SessionInvStep ==
  ASSUME IInv, SessionInv, [Next]_vars
  PROVE  SessionInv'
BY BlocksStep, SessionOfStep DEF SessionInv

-----------------------------------------------------------------------------
(* Each step maps to one of the session, or to none *)

\* Nothing of the session of q changes.
SessionSame(q) ==
  UNCHANGED <<Stage(q), piecesAvailability_[q], pieceInProgress_[q], Got(q), Asked(q)>>

\* What a peer's thread, or its remote, does leaves what the others know alone.
LEMMA AvailabilityKept ==
  ASSUME TypeOK, NEW p \in Peers, NEW q \in Peers, p # q, ThreadStep(p) \/ EnvironmentStep(p)
  PROVE  UNCHANGED piecesAvailability_[q]
<1> USE DEF TypeOK, PeerTypeOK
<1>1. CASE EnvironmentStep(p) \/ RetryRun(p) \/ Crash(p)
  BY <1>1 DEF EnvironmentStep, RemoteStep, RemoteAnnounces, RemoteChokes, RemoteAnswers, RetryRun,
     Crash, peerVars, connVars
<1>2. CASE ReceiveBitfield(p) \/ ReceiveControl(p)
  BY <1>2 DEF ReceiveBitfield, ReceiveControl
<1>3. CASE PeerStep(p) /\ ~ReceiveBitfield(p) /\ ~ReceiveControl(p)
  BY <1>3 DEF PeerStep, Run, PerformHandshake, SendInterested, EstablishFails, MainLoop,
     RequestBlock, RequestNothing, ReceiveFails, ReceivePiece, CheckQueue, TakeNextPiece, connVars
<1> QED
  BY <1>1, <1>2, <1>3 DEF ThreadStep, ConnectionStep

\* The main thread: a new object for the peer, or the end of the session.
LEMMA SessionMainStep ==
  ASSUME IInv, SessionInv, NEW q \in Peers, MainStep
  PROVE  SessionSame(q) \/ Session(q)!Renew \/ Session(q)!End
<1>1. TypeOK /\ PeerTypeOK
  BY DEF IInv, TypeOK
<1>2. CASE StartRound
  <2>1. pc[q] = "done"
    BY <1>2 DEF StartRound, IInv, MainInv
  <2>2. /\ Stage(q) = "over" /\ Stage(q)' \in {"new", "over"}
        /\ piecesAvailability_'[q] = {} /\ pieceInProgress_'[q] = Null
        /\ Got(q)' = 0 /\ Asked(q)' = Null
    BY <1>2, <2>1 DEF StartRound, ConstructPeers, Stage, Got, Asked
  <2> QED BY <2>2 DEF Session!Renew, Session!Fresh, Session!Null, Null
<1>3. CASE TerminatePeer(q)
  <2>1. /\ UNCHANGED <<piecesAvailability_[q], pieceInProgress_[q], Got(q), Asked(q)>>
        /\ Stage(q)' = Stage(q) \/ Stage(q)' = "over"
    BY <1>1, <1>3 DEF TerminatePeer, Terminate, storageVars, Stage, Got, Asked, PeerTypeOK
  <2> QED BY <2>1 DEF SessionSame, Session!End
<1>4. CASE ~StartRound /\ ~TerminatePeer(q)
  BY <1>1, <1>4 DEF MainStep, TrackerFails, PollSaved, PollInProgress, TerminatePeer, Terminate,
     JoinPeers, storageVars, peerVars, connVars, PeerTypeOK, SessionSame, Stage, Got, Asked
<1> QED
  BY <1>2, <1>3, <1>4

\* The remote: it may drop a request.
LEMMA SessionRemoteStep ==
  ASSUME IInv, SessionInv, NEW q \in Peers, RemoteStep(q)
  PROVE  SessionSame(q) \/ Session(q)!Lose
<1>1. TypeOK /\ PeerTypeOK /\ RequestsOf(q) /\ SessionOf(q)
  BY DEF IInv, TypeOK, RequestInv, SessionInv
<1>2. /\ inbox[q] = NoMessage /\ pc[q] \in {"bitfield", "recv"}
      /\ UNCHANGED <<pendingBlock_, piecesAvailability_, pieceInProgress_, Stage(q), Got(q)>>
  BY DEF RemoteStep, RemoteAnnounces, RemoteChokes, RemoteAnswers, Waiting, storageVars, connVars,
     Stage, Got
<1>3. CASE RemoteAnnounces(q)
  <2>1. inbox'[q].type # "Piece" /\ outstanding' = outstanding
    BY <1>1, <1>3 DEF RemoteAnnounces, Deliver, HaveMessage, BitFieldMessage, connVars, PeerTypeOK
  <2> QED BY <1>2, <2>1 DEF SessionSame, Asked
<1>4. CASE RemoteChokes(q)
  <2>1. inbox'[q].type # "Piece" /\ outstanding'[q] \in {outstanding[q], Null}
    BY <1>1, <1>4 DEF RemoteChokes, Deliver, PeerTypeOK
  <2>2. Asked(q)' = Asked(q) \/ (pendingBlock_[q] /\ outstanding[q] # Null /\ Asked(q)' = Lost)
    BY <1>2, <2>1 DEF Asked
  <2>3. pendingBlock_[q] => Stage(q) = "on"
    BY <1>1, <1>2 DEF SessionOf, Stage
  <2> QED
    BY <1>2, <2>2, <2>3 DEF SessionSame, Asked, Session!Lose, Session!Lost, Session!Null, Lost, Null
<1>5. CASE RemoteAnswers(q)
  <2>1. /\ outstanding[q] # Null /\ outstanding'[q] = Null
        /\ inbox'[q].type = "Piece" /\ inbox'[q].begin = outstanding[q]
    BY <1>1, <1>5 DEF RemoteAnswers, Deliver, PeerTypeOK
  <2>2. inbox'[q] # NoMessage
    BY <2>1 DEF NoMessage
  <2> QED BY <1>1, <1>2, <2>1, <2>2 DEF SessionSame, Asked, RequestsOf, Awaits
<1> QED
  BY <1>3, <1>4, <1>5 DEF RemoteStep

\* The thread, up to MainLoop: one connection, and what the remote says of its pieces.
LEMMA SessionEstablishStep ==
  ASSUME IInv, SessionInv, NEW q \in Peers,
         \/ Run(q) \/ PerformHandshake(q) \/ ReceiveBitfield(q)
         \/ SendInterested(q) \/ EstablishFails(q)
  PROVE  \/ SessionSame(q) \/ Session(q)!Open \/ Session(q)!Greet \/ Session(q)!End
<1> USE DEF PeerTypeOK, Goto, Terminate, storageVars, connVars, Stage, Got
<1>1. TypeOK /\ PeerTypeOK /\ SessionOf(q) /\ RequestsOf(q)
  BY DEF IInv, TypeOK, SessionInv, RequestInv
<1>2. CASE Run(q)
  <2>1. /\ UNCHANGED <<piecesAvailability_[q], pieceInProgress_[q], Got(q), Asked(q)>>
        /\ \/ Stage(q)' = Stage(q)
           \/ Stage(q) = "new" /\ Stage(q)' = "setup"
    BY <1>1, <1>2 DEF Run, Asked
  <2> QED BY <2>1 DEF SessionSame, Session!Open
<1>3. CASE PerformHandshake(q)
  BY <1>1, <1>3 DEF PerformHandshake, SessionSame, Asked
<1>4. CASE SendInterested(q)
  <2>1. /\ UNCHANGED <<piecesAvailability_[q], pieceInProgress_[q], Got(q), Asked(q)>>
        /\ Stage(q) = "setup" /\ Stage(q)' = "on"
        /\ piecesAvailability_[q] \subseteq Pieces
    BY <1>1, <1>4 DEF SendInterested, Asked
  <2> QED BY <2>1 DEF Session!Greet, Session!Pieces, Pieces
<1>5. CASE EstablishFails(q)
  <2>1. /\ UNCHANGED <<piecesAvailability_[q], pieceInProgress_[q], Got(q), Asked(q)>>
        /\ Stage(q)' = "over"
    BY <1>1, <1>5 DEF EstablishFails, Asked
  <2> QED BY <2>1 DEF Session!End
<1>6. CASE ReceiveBitfield(q)
  <2>1. /\ pc[q] = "bitfield" /\ inbox[q] # NoMessage
        /\ UNCHANGED <<pieceInProgress_, pendingBlock_, pieces, outstanding>>
    BY <1>6 DEF ReceiveBitfield
  <2>2. pc'[q] \in {"bitfield", "interested"}
    BY <1>1, <1>6 DEF ReceiveBitfield
  <2>3. piecesAvailability_'[q] \subseteq Pieces
    <3>1. /\ inbox[q].type = "BitField" => inbox[q].pieces \in SUBSET Pieces
          /\ inbox[q].type = "Have" => inbox[q].index \in Pieces
      BY <1>1, MessageFields
    <3> QED BY <1>1, <1>6, <3>1 DEF ReceiveBitfield
  <2>4. /\ UNCHANGED <<pieceInProgress_[q], Got(q), Asked(q)>>
        /\ Stage(q) = "setup" /\ Stage(q)' = "setup"
    BY <1>1, <2>1, <2>2 DEF SessionOf, Asked
  <2> QED BY <2>3, <2>4 DEF Session!Greet, Session!Pieces, Pieces
<1> QED
  BY <1>2, <1>3, <1>4, <1>5, <1>6

\* RequestPiece: a block is asked for, or a piece is taken in vain.
LEMMA SessionRequestStep ==
  ASSUME IInv, SessionInv, NEW q \in Peers, RequestBlock(q) \/ RequestNothing(q)
  PROVE  SessionSame(q) \/ Session(q)!Ask \/ Session(q)!Take \/ Session(q)!End
<1> DEFINE i == RequestedPiece(q)
<1>1. TypeOK /\ PeerTypeOK /\ SessionOf(q) /\ RequestsOf(q)
  BY DEF IInv, TypeOK, SessionInv, RequestInv
<1>2. /\ pc[q] = "request" /\ i # Null
      /\ UNCHANGED <<pieces, piecesAvailability_, inbox>>
      /\ pieceInProgress_'[q] = i
      /\ ~pendingBlock_[q] /\ outstanding[q] = Null
      /\ inbox[q] # NoMessage => inbox[q].type # "Piece"
  BY <1>1 DEF RequestBlock, RequestNothing, TakeRequestedPiece, RequestsOf, Awaits, PeerTypeOK
<1>3. /\ i \in Pieces /\ FirstMissingBlock(pieces[i]) = pieces[i].retrieved_cnt
      /\ pieces[i].retrieved_cnt \in Nat /\ pieces[i].retrieved_cnt < BlockCount[i]
      /\ pieceInProgress_[q] = Null => pieces[i].retrieved_cnt = 0
  BY <1>2, RequestsNext
<1>4. pieceInProgress_[q] # Null => i = pieceInProgress_[q]
  BY DEF RequestedPiece
<1> HIDE DEF i
<1>5. /\ Stage(q) = "on" /\ Asked(q) = Null
      /\ Got(q) = pieces[i].retrieved_cnt /\ UNCHANGED Got(q)
  BY <1>2, <1>3, <1>4 DEF Stage, Asked, Got
<1>6. CASE /\ i \in piecesAvailability_[q]
           /\ outstanding' = [outstanding EXCEPT ![q] = FirstMissingBlock(pieces[i])]
           /\ pendingBlock_' = [pendingBlock_ EXCEPT ![q] = TRUE]
           /\ Goto(q, "recv")
  <2>1. pc'[q] = "recv" /\ pendingBlock_'[q] /\ outstanding'[q] = pieces[i].retrieved_cnt
    BY <1>1, <1>3, <1>6 DEF PeerTypeOK, Goto
  <2>2. Stage(q)' = "on" /\ Asked(q)' = Got(q)
    BY <1>3, <1>5, <2>1 DEF Stage, Asked, Null
  <2> QED
    BY <1>2, <1>3, <1>4, <1>5, <1>6, <2>2 DEF Session!Ask, Session!Null, Null
<1>7. CASE pc'[q] \in {"run", "recv"} /\ (pc'[q] = "run" => terminated_'[q])
           /\ UNCHANGED <<pendingBlock_, outstanding>>
  <2>1. Stage(q)' \in {"on", "over"} /\ Asked(q)' = Null
    BY <1>2, <1>7 DEF Stage, Asked
  <2>2. CASE pieceInProgress_[q] = Null
    BY <1>2, <1>3, <1>5, <2>1, <2>2
    DEF Session!Take, Session!Null, Session!Pieces, Null, Pieces
  <2>3. CASE pieceInProgress_[q] # Null
    BY <1>2, <1>4, <1>5, <2>1, <2>3 DEF SessionSame, Session!End
  <2> QED BY <2>2, <2>3
<1>8. CASE RequestNothing(q)
  BY <1>1, <1>7, <1>8 DEF RequestNothing, Goto, PeerTypeOK
<1>9. CASE RequestBlock(q)
  BY <1>1, <1>6, <1>7, <1>9 DEF RequestBlock, Abandon, Terminate, Goto, PeerTypeOK, i
<1> QED
  BY <1>8, <1>9

\* A Piece message: the block asked for is there.
LEMMA SessionReceiveStep ==
  ASSUME IInv, SessionInv, [Next]_vars, NEW q \in Peers, ReceivePiece(q)
  PROVE  Session(q)!Receive
<1> DEFINE i == pieceInProgress_[q]
           count == pieces[i].retrieved_cnt
<1>1. TypeOK /\ PeerTypeOK /\ RequestsOf(q)
  BY DEF IInv, TypeOK, RequestInv
<1>2. /\ pc[q] = "recv" /\ inbox[q] # NoMessage /\ inbox[q].type = "Piece"
      /\ inbox'[q] = NoMessage /\ pendingBlock_'[q] = FALSE
      /\ UNCHANGED <<pieceInProgress_, piecesAvailability_, outstanding>>
  BY <1>1 DEF ReceivePiece, PeerTypeOK
<1>3. /\ pendingBlock_[q] /\ i # Null /\ outstanding[q] = Null
  BY <1>1, <1>2 DEF RequestsOf, Awaits
<1>4. Receives(q, i) /\ ReceivesNext(q, i)
  BY ReceiveNext
<1>5. pc'[q] \in {"loop", "processed"}
  BY <1>4 DEF Receives
<1>6. /\ Stage(q) = "on" /\ Stage(q)' = "on"
      /\ Asked(q) = count /\ Asked(q)' = Null
      /\ Got(q) = count /\ Got(q)' = pieces'[i].retrieved_cnt
  BY <1>2, <1>3, <1>4, <1>5 DEF Stage, Asked, Got, ReceivesNext
<1>7. \/ pieces'[i].retrieved_cnt = count + 1
      \/ count + 1 = BlockCount[i] /\ pieces'[i].retrieved_cnt = 0
  BY <1>4 DEF ReceivesNext
<1> QED
  BY <1>2, <1>6, <1>7 DEF Session!Receive, Session!Null, Null

\* After PieceProcessed: the piece is complete, and the next one of the queue is not begun.
LEMMA SessionFinishStep ==
  ASSUME IInv, SessionInv, NEW q \in Peers, TakeNextPiece(q)
  PROVE  Session(q)!Finish
<1> DEFINE i == pieceInProgress_[q]
<1>1. TypeOK /\ PeerTypeOK /\ RequestsOf(q) /\ SessionOf(q) /\ BlocksInv /\ QueueInv
  BY DEF IInv, TypeOK, RequestInv, SessionInv
<1>2. /\ pc[q] = "next" /\ pc'[q] = "loop" /\ pieceInProgress_'[q] = NextPiece
      /\ PopNextPiece
      /\ UNCHANGED <<pieces, pendingBlock_, piecesAvailability_, inbox, outstanding>>
  BY <1>1 DEF TakeNextPiece, Goto, PeerTypeOK
<1>3. i # Null /\ i \in Pieces /\ i \in Range(saved_) /\ i < Taken
  BY <1>1, <1>2 DEF SessionOf, Delivered, PeerTypeOK, IInv, OwnerInv
<1>4. pieces[i].retrieved_cnt = BlockCount[i]
  BY <1>1, <1>3 DEF BlocksInv
<1>5. NextPiece \in (Pieces \cup {Null}) \ {i}
      /\ (NextPiece # Null => pieces[NextPiece].retrieved_cnt = 0)
  <2>1. /\ Taken \in 0 .. NPieces
        /\ NextPiece = Null \/ (NextPiece = Taken /\ NextPiece \in Pieces)
    BY <1>1, <1>2, TakeEffect
  <2>2. i \in Int
    BY <1>3 DEF Pieces
  <2>3. NPieces \in Nat /\ Taken \in Int
    BY <2>1, NPiecesAssumption
  <2>4. CASE NextPiece = Null
    BY <1>3, <2>4
  <2>5. CASE NextPiece = Taken /\ NextPiece \in Pieces
    BY <1>1, <1>3, <2>2, <2>3, <2>5 DEF BlocksInv
  <2> QED BY <2>1, <2>4, <2>5
<1>6. ~pendingBlock_[q]
  BY <1>1, <1>2 DEF RequestsOf, Delivered
<1>7. /\ Stage(q) = "on" /\ Stage(q)' = "on"
      /\ Asked(q) = Null /\ Asked(q)' = Null
      /\ Got(q) = BlockCount[i] /\ Got(q)' = 0
  BY <1>2, <1>3, <1>4, <1>5, <1>6 DEF Stage, Asked, Got
<1> QED
  BY <1>2, <1>3, <1>5, <1>7
  DEF Session!Finish, Session!Null, Session!Pieces, Null, Pieces

\* The rest of MainLoop: it goes on, ends, or learns of another piece.
LEMMA SessionLoopStep ==
  ASSUME IInv, SessionInv, NEW q \in Peers,
         MainLoop(q) \/ ReceiveFails(q) \/ ReceiveControl(q) \/ CheckQueue(q)
  PROVE  SessionSame(q) \/ Session(q)!Announce \/ Session(q)!End
<1> USE DEF PeerTypeOK, Goto, Abandon, Terminate, storageVars, connVars
<1>1. TypeOK /\ PeerTypeOK
  BY DEF IInv, TypeOK
<1>2. CASE MainLoop(q)
  <2>1. /\ UNCHANGED <<piecesAvailability_[q], pieceInProgress_[q], Got(q), Asked(q)>>
        /\ UNCHANGED terminated_ /\ pc[q] = "loop"
    BY <1>2 DEF MainLoop, Got, Asked
  <2>2. pc'[q] \in {"request", "recv"} \/ (pc'[q] = "run" /\ terminated_[q])
    BY <1>1, <1>2 DEF MainLoop
  <2>3. Stage(q) = "on" /\ Stage(q)' \in {"on", "over"}
    BY <2>1, <2>2 DEF Stage
  <2> QED BY <2>1, <2>3 DEF SessionSame, Session!End
<1>3. CASE ReceiveFails(q)
  BY <1>1, <1>3 DEF ReceiveFails, Stage, Got, Asked, Session!End
<1>4. CASE CheckQueue(q)
  BY <1>1, <1>4 DEF CheckQueue, Stage, Got, Asked, SessionSame
<1>5. CASE ReceiveControl(q)
  <2>1. /\ pc[q] = "recv" /\ inbox[q] # NoMessage /\ inbox[q].type # "Piece"
        /\ UNCHANGED <<pieceInProgress_, pendingBlock_, pieces, outstanding>>
    BY <1>5 DEF ReceiveControl
  <2>2. pc'[q] = "loop" /\ inbox'[q] = NoMessage
    BY <1>1, <1>5 DEF ReceiveControl
  <2>3. /\ piecesAvailability_[q] \subseteq piecesAvailability_'[q]
        /\ piecesAvailability_'[q] \subseteq Pieces
    <3>1. inbox[q].type = "Have" => inbox[q].index \in Pieces
      BY <1>1, MessageFields
    <3> QED BY <1>1, <1>5, <3>1 DEF ReceiveControl
  <2>4. /\ UNCHANGED <<pieceInProgress_[q], Got(q), Asked(q)>>
        /\ Stage(q) = "on" /\ Stage(q)' = "on"
    BY <2>1, <2>2 DEF Stage, Got, Asked
  <2> QED BY <2>3, <2>4 DEF Session!Announce, Session!Pieces, Pieces
<1> QED
  BY <1>2, <1>3, <1>4, <1>5

\* A step of the download is, for the connection of q, a step of its session or none.
LEMMA SessionStep ==
  ASSUME IInv, SessionInv, [Next]_vars, NEW q \in Peers
  PROVE  Session(q)!SessionNext \/ UNCHANGED Session(q)!sessionVars
<1>1. TypeOK /\ PeerTypeOK
  BY DEF IInv, TypeOK
<1>2. SUFFICES SessionSame(q) \/ Session(q)!SessionNext
  BY DEF SessionSame, Session!sessionVars
<1>3. ASSUME SessionKept(q), UNCHANGED piecesAvailability_[q]
      PROVE  SessionSame(q)
  BY <1>3, GotKept DEF SessionKept, SessionSame, Stage, Asked
<1>4. CASE MainStep
  BY <1>4, SessionMainStep DEF Session!SessionNext
<1>5. CASE UNCHANGED vars \/ Crash(q)
  BY <1>3, <1>5 DEF vars, Crash, peerVars, connVars, SessionKept
<1>6. CASE \E p \in Peers \ {q} : ThreadStep(p) \/ EnvironmentStep(p)
  BY <1>1, <1>3, <1>6, OthersKept, AvailabilityKept DEF SessionKept
<1>7. CASE RetryRun(q)
  <2>1. AttemptOf(q) /\ pc[q] = "returned" /\ pc'[q] \in {"run", "done"}
    BY <1>1, <1>7 DEF RetryRun, Goto, IInv, AttemptInv, PeerTypeOK
  <2> QED
    BY <1>7, <2>1 DEF RetryRun, AttemptOf, storageVars, SessionSame, Stage, Got, Asked
<1>8. CASE EnvironmentStep(q)
  BY <1>8, SessionRemoteStep DEF EnvironmentStep, Session!SessionNext
<1>9. CASE PeerStep(q)
  BY <1>9, SessionEstablishStep, SessionRequestStep, SessionReceiveStep, SessionFinishStep,
     SessionLoopStep DEF PeerStep, Session!SessionNext
<1> QED
  BY <1>4, <1>5, <1>6, <1>7, <1>8, <1>9 DEF Next, ThreadStep, ConnectionStep, Halted

\* Whatever the other threads do to the queue and a remote to the requests, every
\* connection asks for one block at a time, in ascending order, only of announced pieces.
THEOREM SessionRefinement == Spec => ImplementsSession
<1>1. Init => SessionInv /\ \A p \in Peers : Session(p)!SessionInit
  <2> SUFFICES ASSUME Init
               PROVE  SessionInv /\ \A p \in Peers : Session(p)!SessionInit
    OBVIOUS
  <2>1. ASSUME NEW p \in Peers
        PROVE  Session(p)!SessionInit
    BY DEF Init, Stage, Got, Asked, Session!SessionInit, Session!Fresh, Session!Null, Null
  <2> QED BY <2>1, SessionInvInit
<1>2. IInv /\ SessionInv /\ [Next]_vars => SessionInv'
  BY SessionInvStep
<1>3. IInv /\ SessionInv /\ [Next]_vars =>
        \A p \in Peers : Session(p)!SessionNext \/ UNCHANGED Session(p)!sessionVars
  BY SessionStep
<1> QED
  BY <1>1, <1>2, <1>3, Invariance, PTL DEF Spec, ImplementsSession
=============================================================================
