------------------------------- MODULE Sockets -------------------------------
(***************************************************************************)
(* The descriptors of the process under the connections of a round: class  *)
(* TcpConnect, whose objects are destroyed by main at the end of           *)
(* RunDownloadMultithread, after it has joined the threads.                *)
(*                                                                         *)
(* The kernel gives the lowest free number to socket(), and close() frees  *)
(* a number whoever asks, or fails with EBADF.  The other descriptor that  *)
(* matters is that of the output file, open all the while.  An object is   *)
(* connected once at most (OneConnectionPerThread in TorrentClient).       *)
(***************************************************************************)
EXTENDS Integers

CONSTANTS
  Connections,  \* the PeerConnect objects of a round
  Descriptors,  \* the numbers the process may use
  OutputFile    \* the one PieceStorage has opened

ASSUME DescriptorsAssumption == Descriptors \subseteq Nat /\ OutputFile \in Descriptors

VARIABLES
  owner,    \* of each descriptor: a connection, the file, or nobody
  socket_,  \* TcpConnect::socket_
  stage     \* of each connection

vars == <<owner, socket_, stage>>

Nobody == "nobody"
File == "file"
ASSUME OwnersAssumption == Connections \cap {Nobody, File} = {}

\* What socket() returns when it fails, and close() does not accept.
Invalid == -1

\* The thread has ended; or has, without ever calling socket().
Gone == {"ended", "unrun"}
Stages == {"constructed", "connecting", "connected", "destroyed"} \cup Gone

TypeOK ==
  /\ owner \in [Descriptors -> Connections \cup {Nobody, File}]
  /\ socket_ \in [Connections -> Descriptors \cup {Invalid}]
  /\ stage \in [Connections -> Stages]
  /\ \A c \in Connections : stage[c] \in {"connecting", "connected"} =>
       socket_[c] \in Descriptors

\* The constructor leaves socket_ uninitialised: it may hold any number.
Init ==
  /\ owner = [d \in Descriptors |-> IF d = OutputFile THEN File ELSE Nobody]
  /\ socket_ \in [Connections -> Descriptors \cup {Invalid}]
  /\ stage = [c \in Connections |-> "constructed"]

Free == {d \in Descriptors : owner[d] = Nobody}

Goto(c, s) == stage' = [stage EXCEPT ![c] = s]

\* close(): whoever the number belongs to.
Close(d) ==
  owner' = IF d \in Descriptors THEN [owner EXCEPT ![d] = Nobody] ELSE owner

\* Mutant: what socket() returned is not looked at.
OpenSocket_Unchecked(c) ==
  /\ stage[c] = "constructed"
  /\ socket_' = [socket_ EXCEPT ![c] = Invalid]
  /\ Goto(c, "connecting")
  /\ UNCHANGED owner

\* Mutant: socket_ is assigned only when socket() has succeeded.
OpenSocket_OnSuccess(c) ==
  /\ stage[c] = "constructed"
  /\ Goto(c, "ended")
  /\ UNCHANGED <<owner, socket_>>

\* socket(): EstablishConnection goes on with what it returned, or throws.
OpenSocket(c) ==
  /\ stage[c] = "constructed"
  /\ \/ \E d \in Free :
          /\ \A e \in Free : d <= e
          /\ socket_' = [socket_ EXCEPT ![c] = d]
          /\ owner' = [owner EXCEPT ![d] = c]
          /\ Goto(c, "connecting")
     \/ /\ socket_' = [socket_ EXCEPT ![c] = Invalid]
        /\ Goto(c, "ended")
        /\ UNCHANGED owner

\* select() found the socket writable in time.
Establish(c) ==
  /\ stage[c] = "connecting"
  /\ Goto(c, "connected")
  /\ UNCHANGED <<owner, socket_>>

\* Any of the other calls failed: EstablishConnection closes the descriptor and
\* throws, and keeps the number.
GiveUp(c) ==
  /\ stage[c] = "connecting"
  /\ Close(socket_[c])
  /\ Goto(c, "ended")
  /\ UNCHANGED socket_

EndThread(c) ==
  /\ stage[c] = "connected"
  /\ Goto(c, "ended")
  /\ UNCHANGED <<owner, socket_>>

\* The thread finds terminated_ set at its first look: main has given up the round
\* before the thread got to run.
NeverRun(c) ==
  /\ stage[c] = "constructed"
  /\ Goto(c, "unrun")
  /\ UNCHANGED <<owner, socket_>>

\* Mutant: main destroys the connections without having joined the threads.
Destroy_BeforeJoin(c) ==
  /\ stage[c] \in Gone
  /\ Close(socket_[c])
  /\ Goto(c, "destroyed")
  /\ UNCHANGED socket_

\* Mutant: an empty destructor.
Destroy_WithoutClose(c) ==
  /\ \A b \in Connections : stage[b] \in Gone \cup {"destroyed"}
  /\ stage[c] \in Gone
  /\ Goto(c, "destroyed")
  /\ UNCHANGED <<owner, socket_>>

\* Every thread is joined before the first destructor runs.
Destroy(c) ==
  /\ \A b \in Connections : stage[b] \in Gone \cup {"destroyed"}
  /\ stage[c] \in Gone
  /\ Close(socket_[c])
  /\ Goto(c, "destroyed")
  /\ UNCHANGED socket_

\* RunDownloadMultithread is called again, with the next answer of the tracker.
NextRound ==
  /\ \A c \in Connections : stage[c] = "destroyed"
  /\ socket_' \in [Connections -> Descriptors \cup {Invalid}]
  /\ stage' = [c \in Connections |-> "constructed"]
  /\ UNCHANGED owner

Next ==
  \/ \E c \in Connections :
       \/ OpenSocket(c) \/ Establish(c) \/ GiveUp(c)
       \/ EndThread(c) \/ NeverRun(c) \/ Destroy(c)
  \/ NextRound

Spec == Init /\ [][Next]_vars

-----------------------------------------------------------------------------

\* A connection that is being made or used has its descriptor to itself, although
\* numbers are closed twice and used again: no other connection reads its answers,
\* and none closes it.
SocketIsOwn ==
  \A c \in Connections :
    stage[c] \in {"connecting", "connected"} => owner[socket_[c]] = c

\* After a round none of its descriptors is left open, however its connections
\* have ended.
RoundLeavesNothing ==
  (\A c \in Connections : stage[c] = "destroyed")
    => \A d \in Descriptors : owner[d] \notin Connections

\* The output file is closed under the storage by nobody but a connection whose
\* thread never ran, and whose destructor closes a number nothing has assigned.
OnlyUnrunClosesFile ==
  [][owner[OutputFile] = File /\ owner'[OutputFile] # File =>
       \E c \in Connections : stage[c] = "unrun" /\ stage'[c] = "destroyed"]_vars
=============================================================================
