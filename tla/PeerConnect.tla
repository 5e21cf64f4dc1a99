----------------------------- MODULE PeerConnect -----------------------------
(***************************************************************************)
(* Class PeerConnect: the connection to one remote peer, run by a thread   *)
(* of its own, for every peer of the round.                                *)
(*                                                                         *)
(* A step of a thread runs up to its next access to what other threads can *)
(* change: terminated_ (atomic), the PieceStorage (mutex) or the socket.   *)
(* pc names where the thread stands:                                       *)
(*   "run"         the while (!terminated_) of Run                         *)
(*   "handshake"   in PerformHandshake                                     *)
(*   "bitfield"    blocked in ReceiveData, in the loop of ReceiveBitfield  *)
(*   "interested"  in SendInterested                                       *)
(*   "loop"        the while (!terminated_) of MainLoop                    *)
(*   "request"     in RequestPiece                                         *)
(*   "recv"        blocked in ReceiveData, in MainLoop                     *)
(*   "processed"   PieceProcessed has returned, QueueIsEmpty comes next    *)
(*   "next"        at the GetNextPieceToDownload that follows              *)
(*   "returned"    Run has returned to the thread's own loop               *)
(*   "done"        the thread has ended, or there is none                  *)
(*                                                                         *)
(* The remote peer and the network are the environment.  The remote keeps  *)
(* to the protocol: it answers a request at most once and not while it     *)
(* chokes us, but it may choke, stay silent, send wrong bytes or go away.  *)
(***************************************************************************)
EXTENDS PieceStorage

CONSTANTS
  Peers,      \* the peers a tracker may name
  Eager,      \* those that unchoke us before we have said we are interested
  Bitfields,  \* the bitfields a remote may send, as sets of pieces
  Haves       \* the pieces a remote may announce later, with Have

ASSUME RemotesAssumption == Bitfields \subseteq SUBSET Pieces /\ Haves \subseteq Pieces
ASSUME EagerAssumption == Eager \subseteq Peers

VARIABLES
  pc,
  terminated_, choked_, pendingBlock_, failed_,
  pieceInProgress_,    \* index of the piece held, or Null
  piecesAvailability_, \* the bits of bitfield_ that are set
  inbox,               \* the message ReceiveData will return, or NoMessage
  outstanding          \* block of the request the remote has not answered, or Null

connVars == <<terminated_, choked_, pendingBlock_, failed_, pieceInProgress_,
              piecesAvailability_, outstanding>>
peerVars == <<pc, connVars, inbox>>

Connected == {"interested", "loop", "request", "recv", "processed", "next"}
Location == Connected \cup {"run", "handshake", "bitfield", "returned", "done"}

NoMessage == [type |-> "None"]
\* Other: keep-alive, and the ids that no branch of the code looks at.
Plain == [type : {"Choke", "Unchoke", "Other"}]
BitFieldMessage == [type : {"BitField"}, pieces : Bitfields]
HaveMessage == [type : {"Have"}, index : Haves]
\* The index of a Piece message is not read by MainLoop (peer_connect.cpp:169).
PieceMessage == [type : {"Piece"}, begin : Nat, data : BlockData]
Message == Plain \cup BitFieldMessage \cup HaveMessage \cup PieceMessage

PeerTypeOK ==
  /\ pc \in [Peers -> Location]
  /\ terminated_ \in [Peers -> BOOLEAN]
  /\ choked_ \in [Peers -> BOOLEAN]
  /\ pendingBlock_ \in [Peers -> BOOLEAN]
  /\ failed_ \in [Peers -> {"true", "false", "uninitialised"}]
  /\ pieceInProgress_ \in [Peers -> Pieces \cup {Null}]
  /\ piecesAvailability_ \in [Peers -> SUBSET Pieces]
  /\ inbox \in [Peers -> Message \cup {NoMessage}]
  /\ outstanding \in [Peers -> Nat \cup {Null}]

\* The constructor, once for each peer.  It leaves failed_ uninitialised.
ConstructPeers ==
  /\ terminated_' = [p \in Peers |-> FALSE]
  /\ choked_' = [p \in Peers |-> TRUE]
  /\ pendingBlock_' = [p \in Peers |-> FALSE]
  /\ failed_' = [p \in Peers |-> "uninitialised"]
  /\ pieceInProgress_' = [p \in Peers |-> Null]
  /\ piecesAvailability_' = [p \in Peers |-> {}]
  /\ inbox' = [p \in Peers |-> NoMessage]
  /\ outstanding' = [p \in Peers |-> Null]

Goto(p, location) == pc' = [pc EXCEPT ![p] = location]

Terminate(p) == terminated_' = [terminated_ EXCEPT ![p] = TRUE]

-----------------------------------------------------------------------------
(* Run and EstablishConnection *)

Run(p) ==
  /\ pc[p] = "run"
  /\ Goto(p, IF terminated_[p] THEN "returned" ELSE "handshake")
  /\ UNCHANGED <<storageVars, connVars, inbox>>

\* Connect, send our handshake and find the answer right.
PerformHandshake(p) ==
  /\ pc[p] = "handshake"
  /\ Goto(p, "bitfield")
  /\ UNCHANGED <<storageVars, connVars, inbox>>

\* ReceiveData has returned a message: the body of the loop of ReceiveBitfield.
ReceiveBitfield(p) ==
  /\ pc[p] = "bitfield"
  /\ inbox[p] # NoMessage
  /\ inbox' = [inbox EXCEPT ![p] = NoMessage]
  /\ LET m == inbox[p] IN
     \/ /\ m.type = "BitField"
        /\ piecesAvailability_' = [piecesAvailability_ EXCEPT ![p] = m.pieces]
        /\ UNCHANGED <<pc, choked_>>
     \/ /\ m.type = "Have"
        /\ piecesAvailability_' = [piecesAvailability_ EXCEPT ![p] = @ \cup {m.index}]
        /\ UNCHANGED <<pc, choked_>>
     \/ /\ m.type = "Unchoke"
        /\ choked_' = [choked_ EXCEPT ![p] = FALSE]
        /\ Goto(p, "interested")
        /\ UNCHANGED piecesAvailability_
     \/ /\ m.type \notin {"BitField", "Have", "Unchoke"}
        /\ UNCHANGED <<pc, choked_, piecesAvailability_>>
  /\ UNCHANGED <<storageVars, terminated_, pendingBlock_, failed_,
                 pieceInProgress_, outstanding>>

SendInterested(p) ==
  /\ pc[p] = "interested"
  /\ Goto(p, "loop")
  /\ UNCHANGED <<storageVars, connVars, inbox>>

\* Any exception while establishing; while waiting for a message it is a
\* timeout or the end of the stream, once what has arrived is read.
EstablishFails(p) ==
  /\ pc[p] \in {"handshake", "bitfield", "interested"}
  /\ inbox[p] = NoMessage
  /\ failed_' = [failed_ EXCEPT ![p] = "true"]
  /\ Terminate(p)
  /\ Goto(p, "run")
  /\ UNCHANGED <<storageVars, choked_, pendingBlock_, pieceInProgress_,
                 piecesAvailability_, inbox, outstanding>>

-----------------------------------------------------------------------------
(* MainLoop *)

\* Mutant: the loop never looks at terminated_.
MainLoop_Deaf(p) ==
  /\ pc[p] = "loop"
  /\ Goto(p, IF ~choked_[p] /\ ~pendingBlock_[p] THEN "request" ELSE "recv")
  /\ UNCHANGED <<storageVars, connVars, inbox>>

MainLoop(p) ==
  /\ pc[p] = "loop"
  /\ Goto(p, CASE terminated_[p] -> "run"
               [] ~terminated_[p] /\ ~choked_[p] /\ ~pendingBlock_[p] -> "request"
               [] OTHER -> "recv")
  /\ UNCHANGED <<storageVars, connVars, inbox>>

\* An exception in MainLoop: Run catches it and calls Terminate.
Abandon(p) ==
  /\ Terminate(p)
  /\ Goto(p, "run")

\* The piece RequestPiece looks at: the one held, else the next of the queue.
RequestedPiece(p) ==
  IF pieceInProgress_[p] = Null THEN NextPiece ELSE pieceInProgress_[p]

TakeRequestedPiece(p) ==
  /\ pieceInProgress_' = [pieceInProgress_ EXCEPT ![p] = RequestedPiece(p)]
  /\ IF pieceInProgress_[p] = Null THEN PopNextPiece ELSE UNCHANGED remainPieces_

\* Mutant: the request is sent, and pendingBlock_ left as it was.
RequestBlock_NotPending(p) ==
  /\ pc[p] = "request"
  /\ RequestedPiece(p) # Null
  /\ RequestedPiece(p) \in piecesAvailability_[p]
  /\ TakeRequestedPiece(p)
  /\ outstanding' =
       [outstanding EXCEPT ![p] = FirstMissingBlock(pieces[RequestedPiece(p)])]
  /\ Goto(p, "recv")
  /\ UNCHANGED <<pieces, fileVars, terminated_, choked_, pendingBlock_, failed_,
                 piecesAvailability_, inbox>>

\* The remote has the piece: ask for its first missing block; the send may fail.
RequestBlock(p) ==
  /\ pc[p] = "request"
  /\ RequestedPiece(p) # Null
  /\ RequestedPiece(p) \in piecesAvailability_[p]
  /\ TakeRequestedPiece(p)
  /\ \/ /\ outstanding' =
             [outstanding EXCEPT ![p] = FirstMissingBlock(pieces[RequestedPiece(p)])]
        /\ pendingBlock_' = [pendingBlock_ EXCEPT ![p] = TRUE]
        /\ Goto(p, "recv")
        /\ UNCHANGED terminated_
     \/ /\ Abandon(p)
        /\ UNCHANGED <<outstanding, pendingBlock_>>
  /\ UNCHANGED <<pieces, fileVars, choked_, failed_, piecesAvailability_, inbox>>

\* The remote lacks the piece: each turn of the loop looks at the same one,
\* keeps it, and nothing is sent.
RequestNothing(p) ==
  /\ pc[p] = "request"
  /\ RequestedPiece(p) # Null
  /\ RequestedPiece(p) \notin piecesAvailability_[p]
  /\ TakeRequestedPiece(p)
  /\ Goto(p, "recv")
  /\ UNCHANGED <<pieces, fileVars, terminated_, choked_, pendingBlock_, failed_,
                 piecesAvailability_, inbox, outstanding>>

\* No piece is held and the queue is empty: pieceInProgress_->GetIndex() on a
\* null pointer.
RequestsNullPiece(p) ==
  /\ pc[p] = "request"
  /\ RequestedPiece(p) = Null

\* send() on a connection that the remote has reset raises SIGPIPE, and nothing
\* handles it.
BrokenPipe(p) ==
  \/ pc[p] \in {"handshake", "interested"}
  \/ /\ pc[p] = "request"
     /\ RequestedPiece(p) # Null
     /\ RequestedPiece(p) \in piecesAvailability_[p]

\* ReceiveData throws: nothing for the read timeout, or the end of the stream.
ReceiveFails(p) ==
  /\ pc[p] = "recv"
  /\ inbox[p] = NoMessage
  /\ Abandon(p)
  /\ UNCHANGED <<storageVars, choked_, pendingBlock_, failed_, pieceInProgress_,
                 piecesAvailability_, inbox, outstanding>>

\* A message other than Piece; the last branch of the code ignores it.
ReceiveControl(p) ==
  /\ pc[p] = "recv"
  /\ inbox[p] # NoMessage
  /\ inbox[p].type # "Piece"
  /\ inbox' = [inbox EXCEPT ![p] = NoMessage]
  /\ choked_' = [choked_ EXCEPT ![p] = CASE inbox[p].type = "Choke" -> TRUE
                                         [] inbox[p].type = "Unchoke" -> FALSE
                                         [] OTHER -> @]
  /\ piecesAvailability_' =
       [piecesAvailability_ EXCEPT ![p] =
          IF inbox[p].type = "Have" THEN @ \cup {inbox[p].index} ELSE @]
  /\ Goto(p, "loop")
  /\ UNCHANGED <<storageVars, terminated_, pendingBlock_, failed_,
                 pieceInProgress_, outstanding>>

\* A Piece message: the block is saved in the piece held; the last one either
\* completes the piece, which goes to disk, or makes it start again.
ReceivePiece(p) ==
  LET i == pieceInProgress_[p]
      piece == SaveBlock(pieces[i], inbox[p].begin, inbox[p].data)
  IN
  /\ pc[p] = "recv"
  /\ inbox[p] # NoMessage
  /\ inbox[p].type = "Piece"
  /\ inbox' = [inbox EXCEPT ![p] = NoMessage]
  /\ pendingBlock_' = [pendingBlock_ EXCEPT ![p] = FALSE]
  /\ \/ /\ ~AllBlocksRetrieved(piece)
        /\ pieces' = [pieces EXCEPT ![i] = piece]
        /\ Goto(p, "loop")
        /\ UNCHANGED fileVars
     \/ /\ AllBlocksRetrieved(piece)
        /\ HashMatches(piece, i \in Sound)
        /\ pieces' = [pieces EXCEPT ![i] = piece]
        /\ SavePieceToDisk(i, piece)
        /\ Goto(p, "processed")
     \/ /\ AllBlocksRetrieved(piece)
        /\ ~HashMatches(piece, i \in Sound)
        /\ pieces' = [pieces EXCEPT ![i] = Reset(piece)]
        /\ Goto(p, "loop")
        /\ UNCHANGED fileVars
  /\ UNCHANGED <<remainPieces_, terminated_, choked_, failed_, pieceInProgress_,
                 piecesAvailability_, outstanding>>

\* Is anything left to take?  If not, this connection ends.
CheckQueue(p) ==
  /\ pc[p] = "processed"
  /\ IF QueueIsEmpty THEN Terminate(p) ELSE UNCHANGED terminated_
  /\ Goto(p, "next")
  /\ UNCHANGED <<storageVars, choked_, pendingBlock_, failed_, pieceInProgress_,
                 piecesAvailability_, inbox, outstanding>>

TakeNextPiece(p) ==
  /\ pc[p] = "next"
  /\ pieceInProgress_' = [pieceInProgress_ EXCEPT ![p] = NextPiece]
  /\ PopNextPiece
  /\ Goto(p, "loop")
  /\ UNCHANGED <<pieces, fileVars, terminated_, choked_, pendingBlock_, failed_,
                 piecesAvailability_, inbox, outstanding>>

PeerStep(p) ==
  \/ Run(p) \/ PerformHandshake(p) \/ ReceiveBitfield(p)
  \/ SendInterested(p) \/ EstablishFails(p)
  \/ MainLoop(p) \/ RequestBlock(p) \/ RequestNothing(p)
  \/ ReceiveFails(p) \/ ReceiveControl(p) \/ ReceivePiece(p)
  \/ CheckQueue(p) \/ TakeNextPiece(p)

-----------------------------------------------------------------------------
(* The remote peer: a message arrives while we wait for one.               *)

Waiting(p) == pc[p] \in {"bitfield", "recv"} /\ inbox[p] = NoMessage

Deliver(p, m) == inbox' = [inbox EXCEPT ![p] = m]

RemoteAnnounces(p) ==
  /\ Waiting(p)
  /\ \E m \in HaveMessage \cup BitFieldMessage \cup [type : {"Unchoke", "Other"}] :
       /\ m.type = "BitField" => pc[p] = "bitfield"
       /\ m.type = "Unchoke" /\ pc[p] = "bitfield" => p \in Eager
       /\ Deliver(p, m)
  /\ UNCHANGED <<storageVars, pc, connVars>>

\* A remote that chokes us drops our request, unless the request reaches it
\* only after it has unchoked us again.
RemoteChokes(p) ==
  /\ Waiting(p)
  /\ Deliver(p, [type |-> "Choke"])
  /\ \/ outstanding' = [outstanding EXCEPT ![p] = Null]
     \/ UNCHANGED outstanding
  /\ UNCHANGED <<storageVars, pc, terminated_, choked_, pendingBlock_, failed_,
                 pieceInProgress_, piecesAvailability_>>

RemoteAnswers(p) ==
  /\ Waiting(p)
  /\ pc[p] = "recv"
  /\ outstanding[p] # Null
  /\ ~choked_[p]
  /\ \E data \in BlockData :
       Deliver(p, [type |-> "Piece", begin |-> outstanding[p], data |-> data])
  /\ outstanding' = [outstanding EXCEPT ![p] = Null]
  /\ UNCHANGED <<storageVars, pc, terminated_, choked_, pendingBlock_, failed_,
                 pieceInProgress_, piecesAvailability_>>

RemoteStep(p) == RemoteAnnounces(p) \/ RemoteChokes(p) \/ RemoteAnswers(p)
=============================================================================
