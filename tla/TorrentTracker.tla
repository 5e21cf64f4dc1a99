---------------------------- MODULE TorrentTracker ----------------------------
(***************************************************************************)
(* The metadata of a download: LoadTorrentFile (TorrentFile), and then, in *)
(* every round, TorrentTracker::UpdatePeers, which asks the tracker for    *)
(* the peers of the torrent and reads them from the text of its answer.    *)
(*                                                                         *)
(* The tracker is outside the program: it knows torrents by their info     *)
(* hash.  An answer may be cut off anywhere; its status, that of the first *)
(* line, is 200 all the same, and there is no other status UpdatePeers     *)
(* looks at.                                                               *)
(***************************************************************************)
EXTENDS TorrentFile

CONSTANTS
  Swarms,    \* the lists of peers the tracker may have
  Code,      \* the bytes of the characters in them
  Reasons    \* and what it says when it has no list

VARIABLES
  answer,  \* the tracker's last answer: its status and as much of its text as arrives,
  swarm,   \* and the peers of the torrent when it was given
  peers_

vars == <<parserVars, stage, torrent_file, answer, swarm, peers_>>

-----------------------------------------------------------------------------
(* The tracker *)

PeersKey == <<"peers">>
Interval == <<"interval">>
peer_size == 6

\* An address and a port, the high byte first.
Written(peer) ==
  peer.ip \o <<CHOOSE c \in DOMAIN Code : Code[c] = peer.port \div 256,
               CHOOSE c \in DOMAIN Code : Code[c] = peer.port % 256>>

WrittenPeers(peers) == [k \in 1 .. Len(peers) |-> Written(peers[k])]

PeerList(peers) == MapValue(
  [key \in {Interval, PeersKey} |->
     IF key = Interval THEN IntValue(0) ELSE StringValue(FlattenSeq(WrittenPeers(peers)))])

Failure(reason) == MapValue([key \in {<<"failure reason">>} |-> StringValue(reason)])

\* An address has four bytes, and there is a character for each of those of the port.
Writable(peer) ==
  /\ Len(peer.ip) = 4
  /\ \E c \in DOMAIN Code : Code[c] = peer.port \div 256
  /\ \E c \in DOMAIN Code : Code[c] = peer.port % 256

\* The tracker can write its lists and refusals.  No numeral is the word peers.
ASSUME TrackerAssumption ==
  /\ \A peers \in Swarms :
       /\ peers \in Seq([ip : Seq(Chars), port : Nat])
       /\ \A k \in 1 .. Len(peers) : Writable(peers[k])
       /\ PeerList(peers) \in Values
  /\ \A reason \in Reasons : Failure(reason) \in Values
  /\ \A n \in Numbers : Numeral[n] # PeersKey[1]

Response(status, text) == [status |-> status, text |-> text]

\* What the tracker answers, and how much of that arrives.
Answers(peers) ==
  LET values == IF torrent_file.infoHash = InfoAsWritten
                THEN {PeerList(peers)} \cup {Failure(r) : r \in Reasons}
                ELSE {Failure(r) : r \in Reasons}
      cut(text) == {Response(200, SubSeq(text, 1, n)) : n \in 0 .. Len(text)}
  IN UNION {cut(Encode[v]) : v \in values} \cup {Response(0, <<>>), Response(404, <<>>)}

-----------------------------------------------------------------------------
(* UpdatePeers *)

PeerAt(text, index) ==
  [ip |-> SubSeq(text, index, index + 3),
   port |-> Code[text[index + 4]] * 256 + Code[text[index + 5]]]

\* Mutant: the last peer is left out.
PeerCount_Below(size) == (size - 1) \div peer_size

PeerCount(size) == size \div peer_size

IsNumeral(token) == \E n \in Numbers : Numeral[n] = token

\* Behind the end of the text is whatever is there.
ReadBehind == stage' = "crashed" /\ UNCHANGED peers_

ReadSomething == stage' = "download" /\ \E peers \in Swarms : peers_' = peers

Throw == stage' = "threw" /\ UNCHANGED peers_

\* The number behind the first word peers is the length of the list behind the colon.
ReadPeers(text) ==
  LET number == Find(text, PeersKey[1], 1) + 1
      colon == Find(text, ":", number)
      size == stoll(SubSeq(text, number, number))
      digits == number <= Len(text) /\ IsNumeral(text[number])
      hasColon == \E k \in number .. Len(text) : text[k] = ":"
      hasAll == hasColon /\ colon + PeerCount(size) * peer_size <= Len(text)
  IN \/ ~hasColon /\ ReadBehind
     \/ ~digits /\ Throw
     \/ digits /\ hasAll
        /\ stage' = "download"
        /\ peers_' = [k \in 1 .. PeerCount(size) |->
                        PeerAt(text, colon + 1 + (k - 1) * peer_size)]
     \/ digits /\ ~hasAll /\ (ReadSomething \/ ReadBehind)

\* announce_list is never filled, so there is one request, whatever its answer is.
\* DownloadTorrentFile calls again when a round has ended without all pieces.
UpdatePeers ==
  /\ stage \in {"announce", "download"}
  /\ swarm' \in Swarms
  /\ answer' \in Answers(swarm')
  /\ IF answer'.status # 200 \/ ~Contains(answer'.text, PeersKey[1])
     THEN Throw ELSE ReadPeers(answer'.text)
  /\ UNCHANGED <<parserVars, torrent_file>>

-----------------------------------------------------------------------------

Init == FileInit /\ answer = Response(0, <<>>) /\ swarm = <<>> /\ peers_ = <<>>

Load == LoadTorrentFile /\ UNCHANGED <<answer, swarm, peers_>>

Ended == stage \in {"threw", "crashed"} /\ UNCHANGED vars

Parse == Parser /\ UNCHANGED <<stage, torrent_file, answer, swarm, peers_>>

Next == Parse \/ Load \/ UpdatePeers \/ Ended

Spec == Init /\ [][Next]_vars

-----------------------------------------------------------------------------

\* A round goes on with the peers the tracker has for the torrent, each with its address
\* and its port, if the tracker was asked for the right torrent, has answered with its
\* list, and the answer has arrived whole.
PeersReadBack ==
  stage = "download" /\ answer.text = Encode[PeerList(swarm)] => peers_ = swarm
=============================================================================
