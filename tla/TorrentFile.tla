----------------------------- MODULE TorrentFile -----------------------------
(***************************************************************************)
(* LoadTorrentFile: a torrent is read, parsed (Bencode), and its fields    *)
(* are taken out of the dictionary.  An exception other than               *)
(* invalid_argument, which takes content that is not well-formed, is       *)
(* caught by nobody.                                                       *)
(***************************************************************************)
EXTENDS Bencode

CONSTANT HashSize  \* 20 in the code

ASSUME HashSizeAssumption == HashSize \in Nat \ {0}

VARIABLES
  stage,        \* "load", "announce", "download", "threw" or "crashed"
  torrent_file  \* what LoadTorrentFile returns

NotLoaded == [kind |-> "none"]

FileInit == ParserInit /\ stage = "load" /\ torrent_file = NotLoaded

\* map[key]: what is not there is made, and is the number 0.
Field(map, key) == IF key \in DOMAIN map THEN map[key] ELSE IntValue(0)

\* The fields of the torrent and of info, and the alternative std::get asks for.
Announce == <<"announce">>
Comment == <<"comment">>
LengthKey == <<"length">>
Name == <<"name">>
PieceLength == <<"piece length">>
PiecesKey == <<"pieces">>

Fields ==
  [key \in {Announce, Comment, Info} |-> IF key = Info THEN "map" ELSE "string"]
InfoFields ==
  [key \in {LengthKey, Name, PieceLength, PiecesKey} |->
     IF key \in {LengthKey, PieceLength} THEN "int" ELSE "string"]

Holds(map, kinds) == \A key \in DOMAIN kinds : Field(map, key).kind = kinds[key]

Digest(pieces, i) == SubSeq(pieces, i + 1, i + HashSize)

\* Mutant: the loop takes the next character, not the next digest.
PieceHashes_Shifted(pieces) ==
  [k \in 1 .. (Len(pieces) - 1) \div HashSize |-> Digest(pieces, k - 1)]

\* i = 0, HashSize, 2 * HashSize ... below the size less HashSize.
PieceHashes(pieces) ==
  [k \in 1 .. (Len(pieces) - 1) \div HashSize |-> Digest(pieces, (k - 1) * HashSize)]

\* SHA1 is one to one here: what is hashed stands for the hash.
InfoHash == SubSeq(content, start_hash, finish_hash)

\* The size less HashSize wraps around if there are fewer characters, and substr throws.
LoadTorrentFile ==
  LET bencode_dict == parsed.val
      info == Field(bencode_dict, Info).val
      pieces == info[PiecesKey].val
  IN
  /\ stage = "load" /\ parsed # NotParsed
  /\ IF /\ Holds(bencode_dict, Fields) /\ Holds(info, InfoFields)
        /\ Len(pieces) >= HashSize
     THEN /\ torrent_file' =
               [kind |-> "loaded",
                announce |-> bencode_dict[Announce].val,
                comment |-> bencode_dict[Comment].val,
                length |-> Field(info, LengthKey).val,
                name |-> info[Name].val,
                pieceLength |-> Field(info, PieceLength).val,
                pieceHashes |-> PieceHashes(pieces),
                infoHash |-> InfoHash]
          \* PiecesToDownload divides by pieceLength.
          /\ stage' = IF torrent_file'.pieceLength = 0 THEN "crashed" ELSE "announce"
     ELSE stage' = "threw" /\ UNCHANGED torrent_file
  /\ UNCHANGED parserVars

-----------------------------------------------------------------------------

\* A torrent that is announced and downloaded is the one that was written: its fields
\* are of their kinds, the hashes are its first digests, all but one at least, only
\* its length may be missing, and is 0 then, and it goes by the hash of its info.
LoadedAsWritten ==
  stage \in {"announce", "download"} =>
    LET info == torrent.val[Info].val
        digests == info[PiecesKey].val
        hashes == torrent_file.pieceHashes
    IN /\ torrent.val[Announce] = StringValue(torrent_file.announce)
       /\ torrent.val[Comment] = StringValue(torrent_file.comment)
       /\ info[Name] = StringValue(torrent_file.name)
       /\ info[PieceLength] = IntValue(torrent_file.pieceLength)
       /\ IF LengthKey \in DOMAIN info THEN info[LengthKey] = IntValue(torrent_file.length)
          ELSE torrent_file.length = 0
       /\ (Len(hashes) + 1) * HashSize >= Len(digests)
       /\ FlattenSeq(hashes) = SubSeq(digests, 1, Len(hashes) * HashSize)
       /\ ~InfoComesAgain => torrent_file.infoHash = InfoAsWritten
=============================================================================
