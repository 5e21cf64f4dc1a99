----------------------------- MODULE PieceLedger -----------------------------
(***************************************************************************)
(* What the download promises about each piece, whatever the number of     *)
(* peers and whatever they do: it is handed out to one connection, in      *)
(* order of index and never twice; it is saved at most once, after it was  *)
(* handed out, and only with the bytes the torrent's hash describes; and   *)
(* the download is reported complete only when every piece is saved.       *)
(* Nothing is promised of a piece that is out: a connection may keep it    *)
(* for ever, because the code never takes one back.                        *)
(***************************************************************************)
EXTENDS Integers

CONSTANTS NPieces, Sound

Pieces == 0 .. NPieces - 1

VARIABLES phase, complete

ledgerVars == <<phase, complete>>

LedgerInit ==
  /\ phase = [i \in Pieces |-> "remaining"]
  /\ complete = FALSE

HandOut(i) ==
  /\ phase[i] = "remaining"
  /\ \A j \in 0 .. i - 1 : phase[j] # "remaining"
  /\ phase' = [phase EXCEPT ![i] = "out"]
  /\ UNCHANGED complete

\* The other pieces stay: piece_storage.h:27 would clear the queue here, the code does not.
Save(i) ==
  /\ phase[i] = "out"
  /\ i \in Sound
  /\ phase' = [phase EXCEPT ![i] = "saved"]
  /\ UNCHANGED complete

Report ==
  /\ \A i \in Pieces : phase[i] = "saved"
  /\ complete' = TRUE
  /\ UNCHANGED phase

LedgerNext == (\E i \in Pieces : HandOut(i) \/ Save(i)) \/ Report

LedgerSpec == LedgerInit /\ [][LedgerNext]_ledgerVars
=============================================================================
