--------------------------- MODULE MCTorrentClient ---------------------------
(***************************************************************************)
(* Small instances of TorrentClient for TLC.                               *)
(***************************************************************************)
EXTENDS TorrentClient

CONSTANTS p1, p2

OnePeer == {p1}
TwoPeers == {p1, p2}
PeerSymmetry == Permutations(TwoPeers)

\* Two blocks in every piece but the last, which has one.
TwoBlocks == [i \in Pieces |-> IF i = NPieces - 1 THEN 1 ELSE 2]
OneBlock == [i \in Pieces |-> 1]

\* A remote with the whole file; or with it, or yet with nothing.
Seeds == {Pieces}
EmptyOrAll == {{}, Pieces}
=============================================================================
