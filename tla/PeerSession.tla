----------------------------- MODULE PeerSession -----------------------------
(***************************************************************************)
(* What one connection promises its remote, in one round and the next: it  *)
(* asks for one block at a time, never for another while an answer is      *)
(* owed, and only for blocks of a piece the remote has announced; the      *)
(* blocks of a piece in ascending order, each once, and all of them again  *)
(* if they turn out wrong; and nothing any more once it is over.  A        *)
(* request that the remote drops is lost: the session asks for nothing     *)
(* after it.                                                               *)
(***************************************************************************)
EXTENDS Integers

CONSTANTS NPieces, BlockCount

Pieces == 0 .. NPieces - 1
Null == -1
Lost == -2

VARIABLES
  stage,      \* "new", "setup", "on" or "over"
  announced,  \* the pieces the remote has told us of
  piece,      \* the piece worked on, or Null
  got,        \* how many of its blocks are there
  asked       \* the block asked for and not yet there, Lost, or Null

sessionVars == <<stage, announced, piece, got, asked>>

Fresh ==
  /\ announced = {}
  /\ piece = Null
  /\ got = 0
  /\ asked = Null

SessionInit == stage = "over" /\ Fresh

\* The object of the round before is gone; the tracker has named the peer again.
Renew ==
  /\ stage = "over"
  /\ stage' \in {"new", "over"}
  /\ Fresh'

Open ==
  /\ stage = "new"
  /\ stage' = "setup"
  /\ UNCHANGED <<announced, piece, got, asked>>

\* A bitfield replaces what was announced; the session is on once the remote has
\* unchoked us.
Greet ==
  /\ stage = "setup"
  /\ stage' \in {"setup", "on"}
  /\ announced' \in SUBSET Pieces
  /\ UNCHANGED <<piece, got, asked>>

Announce ==
  /\ stage = "on"
  /\ announced \subseteq announced' /\ announced' \subseteq Pieces
  /\ UNCHANGED <<stage, piece, got, asked>>

\* A piece to work on, if there is none.  If the session ends at that very moment, the
\* piece stays with it.
Take ==
  /\ stage = "on"
  /\ piece = Null
  /\ piece' \in Pieces
  /\ stage' \in {"on", "over"}
  /\ UNCHANGED <<announced, got, asked>>

\* The next block of the piece, which may have been taken just now.
Ask ==
  /\ stage = "on"
  /\ asked = Null
  /\ piece' \in announced
  /\ piece # Null => piece' = piece
  /\ got < BlockCount[piece']
  /\ asked' = got
  /\ UNCHANGED <<stage, announced, got>>

Lose ==
  /\ stage = "on"
  /\ asked # Null
  /\ asked' = Lost
  /\ UNCHANGED <<stage, announced, piece, got>>

\* The block asked for is there.  If it was the last, the piece may have to be got again.
Receive ==
  /\ stage = "on"
  /\ asked = got
  /\ asked' = Null
  /\ \/ got' = got + 1
     \/ got + 1 = BlockCount[piece] /\ got' = 0
  /\ UNCHANGED <<stage, announced, piece>>

\* The piece is complete: on to another, if there is one.
Finish ==
  /\ stage = "on"
  /\ asked = Null
  /\ piece # Null /\ got = BlockCount[piece]
  /\ piece' \in (Pieces \cup {Null}) \ {piece}
  /\ got' = 0
  /\ UNCHANGED <<stage, announced, asked>>

End ==
  /\ stage' = "over"
  /\ UNCHANGED <<announced, piece, got, asked>>

SessionNext ==
  \/ Renew \/ Open \/ Greet \/ Announce
  \/ Take \/ Ask \/ Lose \/ Receive \/ Finish
  \/ End

SessionSpec == SessionInit /\ [][SessionNext]_sessionVars
=============================================================================
