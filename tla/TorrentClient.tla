---------------------------- MODULE TorrentClient ----------------------------
(***************************************************************************)
(* main.cpp: the main thread (DownloadTorrentFile, RunDownloadMultithread) *)
(* and the peer threads it starts, over one PieceStorage.                  *)
(*                                                                         *)
(* A round asks the tracker for peers, starts a thread for each, and polls *)
(* the storage until enough pieces are saved (the download is over) or     *)
(* none is in progress (new peers are wanted); then it terminates and      *)
(* joins the threads.  main_pc names where the main thread stands:         *)
(*   "tracker"    about to call UpdatePeers                                *)
(*   "poll"       at PiecesSavedToDiscCount() < ...                        *)
(*   "progress"   at PiecesInProgressCount() == 0                          *)
(*   "terminate"  calling Terminate on each connection, then joining       *)
(*   "check"      the download has returned; CheckDownloadedPiecesIntegrity*)
(*   "aborted"    an exception of UpdatePeers left main                    *)
(*   "crashed"    a thread took the process down                           *)
(***************************************************************************)
EXTENDS PeerConnect, SequencesExt

VARIABLES
  main_pc,
  connections,       \* the peers of this round: peerConnections, peerThreads
  signalled,         \* those main has called Terminate on
  requestMorePeers,  \* what RunDownloadMultithread is going to return
  attempts           \* of each thread, at calling Run

mainVars == <<main_pc, connections, signalled, requestMorePeers>>
vars == <<storageVars, peerVars, mainVars, attempts>>

MaxAttempts == 3

Ended == {"check", "aborted", "crashed"}

TypeOK ==
  /\ StorageTypeOK
  /\ PeerTypeOK
  /\ main_pc \in {"tracker", "poll", "progress", "terminate"} \cup Ended
  /\ connections \in SUBSET Peers
  /\ signalled \in SUBSET Peers
  /\ requestMorePeers \in BOOLEAN
  /\ attempts \in [Peers -> 0 .. MaxAttempts]

Init ==
  /\ StorageInit
  /\ pc = [p \in Peers |-> "done"]
  /\ terminated_ = [p \in Peers |-> FALSE]
  /\ choked_ = [p \in Peers |-> TRUE]
  /\ pendingBlock_ = [p \in Peers |-> FALSE]
  /\ failed_ = [p \in Peers |-> "uninitialised"]
  /\ pieceInProgress_ = [p \in Peers |-> Null]
  /\ piecesAvailability_ = [p \in Peers |-> {}]
  /\ inbox = [p \in Peers |-> NoMessage]
  /\ outstanding = [p \in Peers |-> Null]
  /\ main_pc = "tracker"
  /\ connections = {}
  /\ signalled = {}
  /\ requestMorePeers = FALSE
  /\ attempts = [p \in Peers |-> 0]

-----------------------------------------------------------------------------
(* The main thread *)

\* UpdatePeers answers with some of the peers, or none; a thread is started for
\* each, and counts its first attempt before anything else.
StartRound ==
  /\ main_pc = "tracker"
  /\ \E named \in SUBSET Peers :
       /\ connections' = named
       /\ pc' = [p \in Peers |-> IF p \in named THEN "run" ELSE "done"]
       /\ attempts' = [p \in Peers |-> IF p \in named THEN 1 ELSE 0]
  /\ ConstructPeers
  /\ main_pc' = "poll"
  /\ signalled' = {}
  /\ requestMorePeers' = FALSE
  /\ UNCHANGED storageVars

\* UpdatePeers throws: no caller catches it.
TrackerFails ==
  /\ main_pc = "tracker"
  /\ main_pc' = "aborted"
  /\ UNCHANGED <<storageVars, peerVars, connections, signalled, requestMorePeers, attempts>>

\* Mutant: satisfied with one piece less than was asked for.
PollSaved_OneShort ==
  /\ main_pc = "poll"
  /\ main_pc' = IF PiecesSavedToDiscCount + 1 < NPieces THEN "progress" ELSE "terminate"
  /\ UNCHANGED <<storageVars, peerVars, connections, signalled, requestMorePeers, attempts>>

\* Mutant: never satisfied.
PollSaved_AtMost ==
  /\ main_pc = "poll"
  /\ main_pc' = IF PiecesSavedToDiscCount <= NPieces THEN "progress" ELSE "terminate"
  /\ UNCHANGED <<storageVars, peerVars, connections, signalled, requestMorePeers, attempts>>

PollSaved ==
  /\ main_pc = "poll"
  /\ main_pc' = IF PiecesSavedToDiscCount < NPieces THEN "progress" ELSE "terminate"
  /\ UNCHANGED <<storageVars, peerVars, connections, signalled, requestMorePeers, attempts>>

\* The second of the two reads, under another lock of the mutex.
PollInProgress ==
  /\ main_pc = "progress"
  /\ IF PiecesInProgressCount = 0
     THEN main_pc' = "terminate" /\ requestMorePeers' = TRUE
     ELSE main_pc' = "poll" /\ UNCHANGED requestMorePeers
  /\ UNCHANGED <<storageVars, peerVars, connections, signalled, attempts>>

TerminatePeer(p) ==
  /\ main_pc = "terminate"
  /\ p \in connections \ signalled
  /\ Terminate(p)
  /\ signalled' = signalled \cup {p}
  /\ UNCHANGED <<storageVars, pc, choked_, pendingBlock_, failed_, pieceInProgress_,
                 piecesAvailability_, outstanding, inbox, main_pc, connections,
                 requestMorePeers, attempts>>

\* Mutant: the result of RunDownloadMultithread is read the wrong way round.
JoinPeers_Inverted ==
  /\ main_pc = "terminate"
  /\ signalled = connections
  /\ \A p \in connections : pc[p] = "done"
  /\ main_pc' = IF requestMorePeers THEN "check" ELSE "tracker"
  /\ UNCHANGED <<storageVars, peerVars, connections, signalled, requestMorePeers, attempts>>

JoinPeers ==
  /\ main_pc = "terminate"
  /\ signalled = connections
  /\ \A p \in connections : pc[p] = "done"
  /\ main_pc' = IF requestMorePeers THEN "tracker" ELSE "check"
  /\ UNCHANGED <<storageVars, peerVars, connections, signalled, requestMorePeers, attempts>>

MainStep ==
  \/ StartRound \/ TrackerFails
  \/ PollSaved \/ PollInProgress
  \/ (\E p \in Peers : TerminatePeer(p))
  \/ JoinPeers

-----------------------------------------------------------------------------
(* The threads *)

\* Mutant: every attempt starts with terminated_ cleared.
RetryRun_Afresh(p) ==
  /\ pc[p] = "returned"
  /\ IF failed_[p] = "true" /\ attempts[p] < MaxAttempts
     THEN Goto(p, "run") /\ attempts' = [attempts EXCEPT ![p] = @ + 1]
     ELSE Goto(p, "done") /\ UNCHANGED attempts
  /\ terminated_' = [terminated_ EXCEPT ![p] = FALSE]
  /\ UNCHANGED <<storageVars, choked_, pendingBlock_, failed_, pieceInProgress_,
                 piecesAvailability_, outstanding, inbox, mainVars>>

\* Run has returned to the thread: try again, or end.  Failed() may read a
\* failed_ that nothing has assigned: it then has some value, and keeps it.
RetryRun(p) ==
  /\ pc[p] = "returned"
  /\ \E value \in {"true", "false"} :
       /\ failed_[p] \in {value, "uninitialised"}
       /\ failed_' = [failed_ EXCEPT ![p] = value]
       /\ IF value = "true" /\ attempts[p] < MaxAttempts
          THEN Goto(p, "run") /\ attempts' = [attempts EXCEPT ![p] = @ + 1]
          ELSE Goto(p, "done") /\ UNCHANGED attempts
  /\ UNCHANGED <<storageVars, terminated_, choked_, pendingBlock_, pieceInProgress_,
                 piecesAvailability_, outstanding, inbox, mainVars>>

ConnectionStep(p) == PeerStep(p) /\ UNCHANGED <<mainVars, attempts>>

\* The null dereference, or the signal, ends the process with every thread of it.
Crash(p) ==
  /\ RequestsNullPiece(p) \/ BrokenPipe(p)
  /\ main_pc' = "crashed"
  /\ UNCHANGED <<storageVars, peerVars, connections, signalled, requestMorePeers, attempts>>

ThreadStep(p) == ConnectionStep(p) \/ RetryRun(p) \/ Crash(p)

EnvironmentStep(p) == RemoteStep(p) /\ UNCHANGED <<mainVars, attempts>>

\* A process that has ended stays as it is.
Halted == main_pc \in Ended /\ UNCHANGED vars

Next ==
  \/ /\ main_pc \notin Ended
     /\ \/ MainStep
        \/ \E p \in Peers : ThreadStep(p) \/ EnvironmentStep(p)
  \/ Halted

Spec == Init /\ [][Next]_vars

\* The threads and the main thread are scheduled; remotes owe us nothing.
Fairness ==
  /\ WF_vars(main_pc \notin Ended /\ MainStep)
  /\ \A p \in Peers : WF_vars(main_pc \notin Ended /\ ThreadStep(p))

FairSpec == Spec /\ Fairness

\* A remote that never unchokes us does not go on talking for ever: one day it
\* stays silent for the read timeout.  An assumption on the remotes, not a
\* guarantee of the code (see TerminateEndsThread).
RemotesFallSilent ==
  \A p \in Peers :
    SF_vars(/\ main_pc \notin Ended
            /\ pc[p] = "bitfield"
            /\ EstablishFails(p)
            /\ UNCHANGED <<mainVars, attempts>>)

SilentSpec == FairSpec /\ RemotesFallSilent

-----------------------------------------------------------------------------
(* Safety *)

\* No piece is ever in two hands.  A connection that holds a piece shares it
\* with no other, nobody can still take it from the queue, and it is on disk
\* exactly between PieceProcessed and the next GetNextPieceToDownload; and no
\* piece is written twice.
ExclusiveOwnership ==
  /\ \A p, q \in Peers :
       pieceInProgress_[p] = pieceInProgress_[q] /\ pieceInProgress_[p] # Null => p = q
  /\ \A p \in Peers : pieceInProgress_[p] # Null =>
       /\ pieceInProgress_[p] \notin Range(remainPieces_)
       /\ pieceInProgress_[p] \in Range(saved_) <=> pc[p] \in {"processed", "next"}
  /\ Range(saved_) \cap Range(remainPieces_) = {}
  /\ \A j, k \in 1 .. Len(saved_) : saved_[j] = saved_[k] => j = k

\* The output file never holds bytes that were not checked: a region is written
\* only with data that match the hash, and only when its index is recorded; and
\* always then, unless the stream fails.
OnlyVerifiedOnDisk ==
  \A i \in Pieces :
    /\ disk[i] \in {"Hole", "Good"}
    /\ disk[i] = "Good" => i \in Range(saved_)
    /\ i \in Range(saved_) /\ outputFile_ = "good" => disk[i] = "Good"

\* RequestPiece dereferences the block FirstMissingBlock returns without looking:
\* it never is the null pointer, although the counter of AllBlocksRetrieved
\* counts calls and not blocks.
RequestFindsBlock ==
  \A p \in Peers : pc[p] = "request" /\ RequestedPiece(p) # Null =>
    FirstMissingBlock(pieces[RequestedPiece(p)]) # Null

\* MainLoop does not read the index of a Piece message, and saves the block in
\* the piece it holds: that piece is there, and lacks that very block.
AnswerFitsPiece ==
  \A p \in Peers : inbox[p] # NoMessage /\ inbox[p].type = "Piece" =>
    /\ pendingBlock_[p]
    /\ pieceInProgress_[p] # Null
    /\ inbox[p].begin \in MissingBlocks(pieces[pieceInProgress_[p]])

\* PiecesInProgressCount subtracts sizes in size_t: it never wraps around.
InProgressNeverWraps == PiecesInProgressCount >= 0

\* RunDownloadMultithread returns false only with every piece recorded, the whole
\* file on disk (unless the stream has failed, which nobody asks about), and
\* with no thread left that could touch the storage CheckDownloadedPiecesIntegrity
\* then reads without the mutex.
ReportedDownloadIsComplete ==
  main_pc = "check" =>
    /\ Range(saved_) = Pieces
    /\ outputFile_ = "good" => \A i \in Pieces : disk[i] = "Good"
    /\ \A p \in Peers : pc[p] = "done"

\* The thread's retry never reconnects: Terminate is for good, so a second or
\* third Run returns at once.
OneConnectionPerThread ==
  \A p \in Peers : pc[p] \in Connected \cup {"handshake", "bitfield"} => attempts[p] = 1

\* What is on disk stays: saved_ only grows, and no later step, of any thread or
\* round, touches the region of a saved piece.
SavedIsFinal ==
  [][/\ IsPrefix(saved_, saved_')
     /\ \A i \in Range(saved_) : disk'[i] = disk[i]]_<<saved_, disk>>

\* The download implements the ledger.
Phase(i) ==
  IF i \in Range(saved_) THEN "saved"
  ELSE IF i \in Range(remainPieces_) THEN "remaining" ELSE "out"

Ledger == INSTANCE PieceLedger WITH
            phase <- [i \in Pieces |-> Phase(i)],
            complete <- (main_pc = "check")

\* Every step of every thread is a step of PieceLedger, or none.
ImplementsLedger == Ledger!LedgerSpec

\* Each connection implements the session with its remote.
Stage(p) ==
  IF pc[p] \in {"handshake", "bitfield", "interested"} THEN "setup"
  ELSE IF pc[p] \in {"loop", "request", "recv", "processed", "next"} THEN "on"
  ELSE IF pc[p] = "run" /\ ~terminated_[p] THEN "new" ELSE "over"

Got(p) ==
  IF pieceInProgress_[p] = Null THEN 0 ELSE pieces[pieceInProgress_[p]].retrieved_cnt

\* The remote has dropped the request pendingBlock_ tells of.
Lost == -2

\* The block pendingBlock_ tells of: the remote has the request, or we its answer.
Asked(p) ==
  IF ~pendingBlock_[p] THEN Null
  ELSE IF outstanding[p] # Null THEN outstanding[p]
  ELSE IF inbox[p] # NoMessage /\ inbox[p].type = "Piece" THEN inbox[p].begin
  ELSE Lost

Session(p) == INSTANCE PeerSession WITH
                stage <- Stage(p), announced <- piecesAvailability_[p],
                piece <- pieceInProgress_[p], got <- Got(p), asked <- Asked(p)

\* Each connection implements PeerSession, whatever the other threads do to the queue
\* and its remote to the requests: one block at a time, in ascending order, only of
\* announced pieces, none after the end, and none after a request that was dropped.
ImplementsSession ==
  /\ \A p \in Peers : Session(p)!SessionInit
  /\ [][\A p \in Peers :
          Session(p)!SessionNext \/ UNCHANGED Session(p)!sessionVars]_vars

-----------------------------------------------------------------------------
(* Liveness *)

\* peer_connect.h:66: terminated_ ends the cycle of communication.  So it does if
\* the remote one day falls silent (SilentSpec); the code alone does not see to it
\* (FairSpec), because ReceiveBitfield never looks at terminated_.
TerminateEndsThread ==
  \A p \in Peers : terminated_[p] ~> pc[p] = "done" \/ main_pc \in Ended

\* When every piece is saved the program ends, even if main has mistaken the end
\* for a stall and started another round (SilentSpec).
CompletedDownloadEnds ==
  Len(saved_) = NPieces ~> main_pc \in Ended

-----------------------------------------------------------------------------
(* What the comments and messages of the code say, and the code does not do *)

\* peer_connect.h:107: when no piece is known RequestPiece gets one from the
\* storage; it never goes on without one.
RequestHasPiece == \A p \in Peers : ~RequestsNullPiece(p)

\* main.cpp:138: new peers are requested when more pieces are wanted and no
\* connection is working; one that has just delivered a piece is.
NewPeersOnlyWhenStalled ==
  [][main_pc = "progress" /\ main_pc' = "terminate" =>
       /\ PiecesSavedToDiscCount < NPieces
       /\ \A p \in connections : pc[p] \notin {"processed", "next"}]_vars

\* main.cpp:138 again: when no connection is working and pieces are missing, new
\* peers are requested (SilentSpec).
StalledRoundIsReplaced ==
  (/\ main_pc \in {"poll", "progress"}
   /\ PiecesSavedToDiscCount < NPieces
   /\ \A p \in connections : pc[p] = "done")
    ~> main_pc \in Ended \cup {"tracker"}

\* peer_connect.h:84-85 and :91-94: ReceiveBitfield reads the bitfield, or an Unchoke
\* in its stead, and interested is sent next; so a thread that has the bitfield does not
\* stay there.  peer_connect.h:66: nor does one that is terminated.  By either comment
\* this holds, whatever the remote sends (FairSpec).
ReceiveBitfieldReturns ==
  \A p \in Peers :
    (pc[p] = "bitfield" /\ piecesAvailability_[p] # {} /\ terminated_[p])
      ~> (pc[p] # "bitfield" \/ main_pc \in Ended)

\* peer_connect.h:70 and :114: pendingBlock_ means that an answer is on its way; if
\* none is, a new request is sent.
PendingIsOwed ==
  \A p \in Peers : pc[p] = "recv" /\ ~choked_[p] /\ pendingBlock_[p] =>
    outstanding[p] # Null \/ inbox[p] # NoMessage
=============================================================================
