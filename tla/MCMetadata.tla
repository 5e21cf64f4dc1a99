----------------------------- MODULE MCMetadata -----------------------------
(***************************************************************************)
(* Two kinds of torrents: dictionaries of any shape, for the parser, with  *)
(* numbers, strings that look like marks, lists and dictionaries with keys *)
(* of the same names; and torrents with their fields, or all but one.      *)
(***************************************************************************)
EXTENDS TorrentTracker

OfKind(values, kind) == {v \in values : v.kind = kind}

UrlList == <<"url-list">>

SomeKeys == {Announce, Comment, <<"failure reason">>, Info, Interval, LengthKey, Name,
             PeersKey, PieceLength, PiecesKey, UrlList}

SomeNumeral == [n \in -1 .. 12 |-> ToString(n)]

SomeChars == Marks \cup {SomeNumeral[n] : n \in DOMAIN SomeNumeral} \cup {key[1] : key \in SomeKeys}

\* In the order of the alphabet.
SomeSorted ==
  [ks \in SUBSET SomeKeys |->
     LET In(key) == key \in ks
     IN SelectSeq(<<Announce, Comment, <<"failure reason">>, Info, Interval, LengthKey, Name,
                    PeersKey, PieceLength, PiecesKey, UrlList>>, In)]

Leaves ==
  {IntValue(-1), IntValue(0)}
    \cup {StringValue(s) : s \in {<<>>, <<"e">>, <<"i", ":", "e">>, Info}}

Vectors == {VectorValue(s) : s \in BoundedSeq(Leaves, 1)}

\* Dictionaries with two of the keys, or less.
Maps(values) ==
  {MapValue(m) : m \in UNION {[ks -> values] : ks \in {{}, {Info}, {Announce}, {UrlList},
                                                       {Announce, Info}, {Info, UrlList}}}}

Shapes == Maps(Leaves \cup Vectors \cup Maps({IntValue(0), StringValue(Info)}))

AllButOne(map) == {map} \cup {[k \in DOMAIN map \ {key} |-> map[key]] : key \in DOMAIN map}

\* Lengths and sizes of no, one, two and three digests, or of a part of one.
FullInfos == {
  (LengthKey :> IntValue(length)) @@ (Name :> StringValue(<<"i">>))
    @@ (PieceLength :> IntValue(pieceLength)) @@ (PiecesKey :> StringValue(pieces)) :
  length \in {0, 3}, pieceLength \in {0, 2},
  pieces \in {<<"e">>, <<":", "e">>, <<":", "e", "d", "1">>, <<":", "e", "d", "1", "l", "i">>}}

Infos == UNION {AllButOne(info) : info \in FullInfos}
           \cup {[info EXCEPT ![Name] = IntValue(1)] : info \in FullInfos}

FullTorrents == {
  (Announce :> StringValue(<<"e", ":">>)) @@ (Comment :> StringValue(<<>>))
    @@ (Info :> MapValue(info)) : info \in Infos}

\* With the key info once more, behind info.
InfoAgain == (UrlList :> VectorValue(<<MapValue(Info :> IntValue(0))>>))

SomeTorrents ==
  Shapes \cup {MapValue(t) : t \in UNION {AllButOne(full) : full \in FullTorrents}}
         \cup {MapValue(full @@ InfoAgain) : full \in FullTorrents}

SomeCode == (":" :> 58) @@ ("e" :> 101) @@ ("i" :> 105) @@ ("1" :> 49)
\* With an address that looks like the beginning of a list.
Near == [ip |-> <<"peers", "6", ":", "1">>, port |-> 58 * 256 + 101]
Far == [ip |-> <<"e", "e", "e", "i">>, port |-> 105 * 256 + 49]
SomeSwarms == {<<>>, <<Near>>, <<Far, Near>>}

\* With the word peers or without, and with what looks like a list behind it.
SomeReasons == {<<"e">>, <<"e", "peers">>, <<"peers", ":">>, <<"peers", "6", ":">>, <<"peers", "4">>}

\* All of these, and what is in them.
Within(values) ==
  UNION {{v.val[key] : key \in DOMAIN v.val} : v \in OfKind(values, "map")}
    \cup UNION {{v.val[k] : k \in 1 .. Len(v.val)} : v \in OfKind(values, "vector")}

SomeValues ==
  LET whole == SomeTorrents \cup {PeerList(peers) : peers \in SomeSwarms}
                 \cup {Failure(r) : r \in SomeReasons}
      parts == Within(whole)
      smaller == parts \cup Within(parts)
  IN whole \cup smaller \cup Within(smaller) \cup {StringValue(key) : key \in SomeKeys}

RECURSIVE DepthOf(_)
DepthOf(v) ==
  IF Leaf(v) THEN 0
  ELSE 1 + Max({DepthOf(Items(v)[k]) : k \in 1 .. Len(Items(v))} \cup {0})

SomeDepth == [v \in SomeValues |-> DepthOf(v)]
=============================================================================
