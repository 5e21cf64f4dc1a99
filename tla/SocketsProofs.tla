---------------------------- MODULE SocketsProofs ----------------------------
(***************************************************************************)
(* What holds of Sockets for every set of connections and of descriptors.  *)
(***************************************************************************)
EXTENDS Sockets, TLAPS

\* A descriptor that a connection owns is the one it remembers, and the connection
\* is still there to close it.
OwnerRemembers ==
  \A d \in Descriptors : owner[d] \in Connections =>
    /\ socket_[owner[d]] = d
    /\ stage[owner[d]] \in {"connecting", "connected", "ended"}

\* As long as the file is open, no connection that has called socket() has got or
\* kept the number of the file.
FileIsNoSocket ==
  owner[OutputFile] = File =>
    \A c \in Connections :
      stage[c] \in {"connecting", "connected", "ended"} => socket_[c] # OutputFile

IInv == TypeOK /\ SocketIsOwn /\ OwnerRemembers /\ FileIsNoSocket

\* IInv is inductive.
THEOREM Invariance == Spec => []IInv
<1> USE DescriptorsAssumption, OwnersAssumption
<1>1. Init => IInv
  BY DEF Init, IInv, TypeOK, Stages, Gone, SocketIsOwn, OwnerRemembers, FileIsNoSocket,
         Nobody, File
<1>2. ASSUME IInv, [Next]_vars
      PROVE  IInv'
  <2> USE <1>2 DEF IInv, TypeOK, Stages, Gone, SocketIsOwn, OwnerRemembers, FileIsNoSocket,
                Goto, Invalid, Nobody, File
  <2>1. CASE UNCHANGED vars
    BY <2>1 DEF vars
  <2>2. ASSUME NEW c \in Connections, OpenSocket(c)
        PROVE  IInv'
    <3>1. CASE UNCHANGED owner /\ socket_' = [socket_ EXCEPT ![c] = Invalid] /\ Goto(c, "ended")
      BY <2>2, <3>1 DEF OpenSocket
    <3>2. ASSUME NEW d \in Descriptors,
                 owner[d] = Nobody,
                 stage[c] = "constructed",
                 socket_' = [socket_ EXCEPT ![c] = d],
                 owner' = [owner EXCEPT ![d] = c],
                 stage' = [stage EXCEPT ![c] = "connecting"]
          PROVE  IInv'
      <4>1. TypeOK'
        BY <3>2
      <4>2. \A b \in Connections : owner[socket_[b]] = b => socket_[b] # d
        BY <3>2
      <4>3. SocketIsOwn'
        BY <3>2, <4>2
      <4>4. OwnerRemembers'
        BY <3>2
      <4>5. FileIsNoSocket'
        BY <3>2
      <4> QED
        BY <4>1, <4>3, <4>4, <4>5
    <3> QED
      BY <2>2, <3>1, <3>2 DEF OpenSocket, Free
  <2>3. ASSUME NEW c \in Connections, Establish(c)
        PROVE  IInv'
    BY <2>3 DEF Establish
  <2>4. ASSUME NEW c \in Connections, GiveUp(c)
        PROVE  IInv'
    BY <2>4 DEF GiveUp, Close
  <2>5. ASSUME NEW c \in Connections, EndThread(c)
        PROVE  IInv'
    BY <2>5 DEF EndThread
  <2>6. ASSUME NEW c \in Connections, NeverRun(c)
        PROVE  IInv'
    BY <2>6 DEF NeverRun
  <2>7. ASSUME NEW c \in Connections, Destroy(c)
        PROVE  IInv'
    BY <2>7 DEF Destroy, Close
  <2>8. CASE NextRound
    BY <2>8 DEF NextRound
  <2> QED
    BY <2>1, <2>2, <2>3, <2>4, <2>5, <2>6, <2>7, <2>8 DEF Next
<1> QED
  BY <1>1, <1>2, PTL DEF Spec

\* Every variable keeps to its type, and a connection that is being made or used
\* has a descriptor.
THEOREM TypeCorrect == Spec => []TypeOK
<1>1. IInv => TypeOK
  BY DEF IInv
<1> QED
  BY <1>1, Invariance, PTL

\* A connection has its descriptor to itself, whatever the others close.
THEOREM SocketsAreOwn == Spec => []SocketIsOwn
<1>1. IInv => SocketIsOwn
  BY DEF IInv
<1> QED
  BY <1>1, Invariance, PTL

\* A round leaves none of its descriptors open.
THEOREM NothingIsLeft == Spec => []RoundLeavesNothing
<1>1. IInv => RoundLeavesNothing
  BY DEF IInv, OwnerRemembers, RoundLeavesNothing
<1> QED
  BY <1>1, Invariance, PTL

\* Only a connection whose thread never ran can close the output file.
THEOREM FileIsKept == Spec => OnlyUnrunClosesFile
<1>1. ASSUME IInv, [Next]_vars, owner[OutputFile] = File, owner'[OutputFile] # File
      PROVE  \E c \in Connections : stage[c] = "unrun" /\ stage'[c] = "destroyed"
  <2> USE <1>1, DescriptorsAssumption, OwnersAssumption
      DEF IInv, TypeOK, Stages, Gone, SocketIsOwn, FileIsNoSocket, Goto, Invalid, Nobody, File
  <2>1. PICK c \in Connections : OpenSocket(c) \/ GiveUp(c) \/ Destroy(c)
    BY DEF Next, vars, Establish, EndThread, NeverRun, NextRound
  <2>2. ~OpenSocket(c)
    BY DEF OpenSocket, Free
  <2>3. ~GiveUp(c)
    BY DEF GiveUp, Close
  <2>4. stage[c] \in Gone /\ stage'[c] = "destroyed" /\ socket_[c] = OutputFile
    BY <2>1, <2>2, <2>3 DEF Destroy, Close
  <2> QED
    BY <2>4
<1> QED
  BY <1>1, Invariance, PTL DEF Spec, OnlyUnrunClosesFile
=============================================================================
