--------------------------- MODULE MetadataProofs ---------------------------
(***************************************************************************)
(* Theorems about the metadata, for all torrents, characters, digests and  *)
(* lists of peers: what Parser returns is what was written (ParserReads),  *)
(* the range it leaves is that of info (InfoHashOfInfo), the fields of the *)
(* torrent are those of the file (LoadedWritten), and the peers of a round *)
(* are those of the answer (PeersRound).                                   *)
(*                                                                         *)
(* What is written for a value is known by its layout: where each item     *)
(* begins (LaidOut), by recursion on the value.  The invariant ParserInv   *)
(* says that the frames on the stack are the suspended calls for a path of *)
(* nested values of the torrent, each with what its loop has read so far,  *)
(* and that position is behind that.  A step then reads the value that is  *)
(* Upcoming, begins a call for it, or returns.                             *)
(***************************************************************************)
EXTENDS TorrentTracker, DataLemmas

-----------------------------------------------------------------------------
(* Values and how they are written *)

\* A dictionary.
IsMap(v) ==
  /\ v = MapValue(v.val) /\ v.val \in [DOMAIN v.val -> Values]
  /\ DOMAIN v.val \in DOMAIN Sorted /\ DOMAIN v.val \subseteq Keys

\* A value has one of the four kinds, and what there is in it of its kind.
LEMMA Kinds ==
  ASSUME NEW v \in Values
  PROVE  \/ v.kind = "int" /\ v = IntValue(v.val) /\ v.val \in Numbers /\ Leaf(v) /\ ~Container(v)
         \/ v.kind = "string" /\ v = StringValue(v.val) /\ IsString(v.val) /\ Leaf(v) /\ ~Container(v)
         \/ v.kind = "vector" /\ v = VectorValue(v.val) /\ v.val \in Seq(Values)
            /\ Container(v) /\ ~Leaf(v)
         \/ v.kind = "map" /\ IsMap(v) /\ Container(v) /\ ~Leaf(v)
<1>1. Leaf(v) \/ Container(v)
  BY ValuesAssumption
<1>2. CASE Leaf(v)
  BY <1>2 DEF Leaf, Container, IntValue, StringValue, VectorValue, MapValue
<1>3. CASE Container(v)
  BY <1>3 DEF Leaf, Container, IsMap, IntValue, StringValue, VectorValue, MapValue
<1> QED
  BY <1>1, <1>2, <1>3

\* The keys of a dictionary, each once.
LEMMA SortedKeys ==
  ASSUME NEW v, IsMap(v)
  PROVE  LET keys == Sorted[DOMAIN v.val]
         IN /\ Len(keys) \in Nat
            /\ \A k \in 1 .. Len(keys) :
                 keys[k] \in DOMAIN v.val /\ StringValue(keys[k]) \in Values /\ v.val[keys[k]] \in Values
            /\ \A key \in DOMAIN v.val : \E k \in 1 .. Len(keys) : keys[k] = key
            /\ \A j, k \in 1 .. Len(keys) : keys[j] = keys[k] => j = k
<1> DEFINE keys == Sorted[DOMAIN v.val]
<1>1. keys \in Seq(DOMAIN v.val)
  BY KeysAssumption DEF IsMap
<1>2. Len(keys) \in Nat /\ \A k \in 1 .. Len(keys) : keys[k] \in DOMAIN v.val
  <2> HIDE DEF keys
  <2> QED BY <1>1
<1>3. \A key \in DOMAIN v.val : StringValue(key) \in Values /\ v.val[key] \in Values
  BY KeysAssumption DEF IsMap
<1> QED
  BY <1>2, <1>3, KeysAssumption DEF IsMap

\* The items of a list are its elements.
LEMMA ItemsOfVector ==
  ASSUME NEW v \in Values, v.kind = "vector"
  PROVE  Items(v) = v.val /\ Items(v) \in Seq(Values)
BY Kinds DEF Items

\* The items of a dictionary are its keys and values in turn, in the order of the keys.
LEMMA ItemsOfMap ==
  ASSUME NEW v \in Values, v.kind = "map"
  PROVE  LET keys == Sorted[DOMAIN v.val]
         IN /\ Items(v) \in Seq(Values)
            /\ Len(Items(v)) = 2 * Len(keys)
            /\ \A q \in 1 .. Len(keys) :
                 Items(v)[2 * q - 1] = StringValue(keys[q]) /\ Items(v)[2 * q] = v.val[keys[q]]
<1> DEFINE keys == Sorted[DOMAIN v.val]
           n == Len(keys)
           item(k) == IF k % 2 = 1 THEN StringValue(keys[(k + 1) \div 2]) ELSE v.val[keys[k \div 2]]
<1>1. IsMap(v)
  BY Kinds
<1>2. n \in Nat /\ \A k \in 1 .. n : StringValue(keys[k]) \in Values /\ v.val[keys[k]] \in Values
  BY <1>1, SortedKeys
<1>3. Items(v) = [k \in 1 .. 2 * n |-> item(k)]
  BY DEF Items
<1> HIDE DEF n
<1>4. ASSUME NEW k \in 1 .. 2 * n
      PROVE  item(k) \in Values
  <2>1. k % 2 = 1 => (k + 1) \div 2 \in 1 .. n
    BY <1>2
  <2>2. k % 2 # 1 => k \div 2 \in 1 .. n
    BY <1>2
  <2> HIDE DEF keys
  <2> QED
    BY <1>2, <2>1, <2>2
<1>5. ASSUME NEW q \in 1 .. n
      PROVE  item(2 * q - 1) = StringValue(keys[q]) /\ item(2 * q) = v.val[keys[q]]
             /\ 2 * q - 1 \in 1 .. 2 * n /\ 2 * q \in 1 .. 2 * n
  <2>1. (2 * q - 1) % 2 = 1 /\ ((2 * q - 1) + 1) \div 2 = q /\ (2 * q) % 2 = 0 /\ (2 * q) \div 2 = q
    BY <1>2
  <2>2. 2 * q - 1 \in 1 .. 2 * n /\ 2 * q \in 1 .. 2 * n
    BY <1>2
  <2> HIDE DEF keys
  <2> QED
    BY <2>1, <2>2
<1> HIDE DEF item
<1>6. Items(v) \in Seq(Values) /\ Len(Items(v)) = 2 * n
  BY <1>2, <1>3, <1>4
<1> QED
  BY <1>3, <1>5, <1>6 DEF n

\* Items are values.
LEMMA ItemsType ==
  ASSUME NEW v \in Values, Container(v)
  PROVE  /\ Items(v) \in Seq(Values) /\ Len(Items(v)) \in Nat
         /\ \A k \in 1 .. Len(Items(v)) : Items(v)[k] \in Values
<1>1. v.kind \in {"vector", "map"}
  BY Kinds
<1>2. Items(v) \in Seq(Values)
  BY <1>1, ItemsOfVector, ItemsOfMap
<1> QED
  BY <1>2

\* Items, also of what has none.
Children == [v \in Values |-> IF Leaf(v) THEN <<>> ELSE Items(v)]

\* No value is within itself, so that recursion on its items ends.
LEMMA ValuesAreTrees == Trees(Values, Depth, Children)
<1>1. ASSUME NEW v \in Values
      PROVE  /\ Children[v] \in Seq(Values)
             /\ \A k \in 1 .. Len(Children[v]) : Depth[Children[v][k]] < Depth[v]
  <2>1. CASE Leaf(v)
    BY <2>1 DEF Children
  <2>2. CASE ~Leaf(v)
    <3>1. Container(v) /\ \A k \in 1 .. Len(Items(v)) : Depth[Items(v)[k]] < Depth[v]
      BY <2>2, ValuesAssumption
    <3>2. Children[v] = Items(v)
      BY <2>2 DEF Children
    <3> QED
      BY <3>1, <3>2, ItemsType
  <2> QED
    BY <2>1, <2>2
<1>2. Children = [v \in Values |-> Children[v]]
  BY DEF Children
<1>3. Children \in [Values -> Seq(Values)]
  BY <1>1, <1>2
<1> QED
  BY <1>1, <1>3, ValuesAssumption DEF Trees

\* What is written for v, if parts are what is written for its items.
WrittenWith(v, parts) ==
  CASE v.kind = "int" -> <<"i", Numeral[v.val], "e">>
    [] v.kind = "string" -> <<Numeral[Len(v.val)], ":">> \o v.val
    [] OTHER -> <<IF v.kind = "vector" THEN "l" ELSE "d">> \o FlattenSeq(parts) \o <<"e">>

\* What is written is made of the characters.
LEMMA WrittenType ==
  ASSUME NEW v \in Values, NEW parts \in Seq(Seq(Chars))
  PROVE  WrittenWith(v, parts) \in Seq(Chars)
<1>1. CASE v.kind = "int"
  BY <1>1, Kinds, NumeralAssumption DEF WrittenWith, Marks
<1>2. CASE v.kind = "string"
  <2>1. v.val \in Seq(Chars) /\ Len(v.val) \in Numbers
    BY <1>2, Kinds DEF IsString
  <2>2. Numeral[Len(v.val)] \in Chars /\ ":" \in Chars
    BY <2>1, NumeralAssumption DEF Marks
  <2> DEFINE head == <<Numeral[Len(v.val)], ":">>
             text == v.val
  <2>3. head \in Seq(Chars) /\ text \in Seq(Chars)
    BY <2>1, <2>2
  <2>4. WrittenWith(v, parts) = head \o text
    BY <1>2, Zenon DEF WrittenWith
  <2> HIDE DEF head, text
  <2>5. head \o text \in Seq(Chars)
    BY <2>3, Behind, Zenon
  <2> QED
    BY <2>4, <2>5
<1>3. CASE v.kind \notin {"int", "string"}
  <2> DEFINE head == <<IF v.kind = "vector" THEN "l" ELSE "d">>
             body == FlattenSeq(parts)
             tail == <<"e">>
  <2>1. head \in Seq(Chars) /\ tail \in Seq(Chars)
    BY NumeralAssumption DEF Marks
  <2>2. body \in Seq(Chars)
    BY FlattenParts
  <2>3. WrittenWith(v, parts) = head \o body \o tail
    BY <1>3, Zenon DEF WrittenWith
  <2> HIDE DEF head, body, tail
  <2>4. head \o body \in Seq(Chars)
    BY <2>1, <2>2, Behind, Zenon
  <2>5. head \o body \o tail \in Seq(Chars)
    BY <2>1, <2>4, Behind, Zenon
  <2> QED
    BY <2>3, <2>5
<1> QED
  BY <1>1, <1>2, <1>3

\* Encode is a function of all values and obeys its recursive definition.
LEMMA EncodeIs ==
  /\ Encode \in [Values -> Seq(Chars)]
  /\ \A v \in Values : Encode[v] = WrittenWith(v, Results(Encode, Items(v)))
<1> DEFINE B == [v \in Values |-> [parts \in Seq(Seq(Chars)) |-> WrittenWith(v, parts)]]
           Body(g, v) ==
             CASE v.kind = "int" -> <<"i", Numeral[v.val], "e">>
               [] v.kind = "string" -> <<Numeral[Len(v.val)], ":">> \o v.val
               [] OTHER ->
                    <<IF v.kind = "vector" THEN "l" ELSE "d">>
                      \o FlattenSeq([k \in 1 .. Len(Items(v)) |-> g[Items(v)[k]]])
                      \o <<"e">>
           Is(g) == g = [v \in Values |-> Body(g, v)]
<1>1. ASSUME NEW g, NEW v
      PROVE  Body(g, v) = WrittenWith(v, Results(g, Items(v)))
  BY Zenon DEF WrittenWith, Results
<1>2. ASSUME NEW g, NEW v \in Values
      PROVE  WrittenWith(v, Results(g, Items(v))) = WrittenWith(v, Results(g, Children[v]))
  <2>1. CASE Leaf(v)
    <3>1. v.kind \in {"int", "string"}
      BY <2>1, Kinds
    <3> QED
      BY <3>1, Zenon DEF WrittenWith
  <2>2. CASE ~Leaf(v)
    BY <2>2 DEF Children
  <2> QED
    BY <2>1, <2>2
<1>3. \A v \in Values : B[v] \in [Seq(Seq(Chars)) -> Seq(Chars)]
  BY WrittenType
<1>4. ASSUME NEW v \in Values, NEW parts \in Seq(Seq(Chars))
      PROVE  B[v][parts] = WrittenWith(v, parts)
  OBVIOUS
<1> HIDE DEF B
<1>5. \E g : Is(g)
  <2>1. PICK g \in [Values -> Seq(Chars)] : Recursive(g, Values, Children, B)
    BY <1>3, ValuesAreTrees, TreeRecursion, Zenon
  <2>2. ASSUME NEW v \in Values
        PROVE  g[v] = Body(g, v)
    <3>1. Results(g, Children[v]) \in Seq(Seq(Chars))
      BY ValuesAreTrees DEF Results, Trees
    <3>2. g[v] = WrittenWith(v, Results(g, Children[v]))
      BY <1>4, <2>1, <3>1, Zenon DEF Recursive
    <3> HIDE DEF Body
    <3> QED
      BY <1>1, <1>2, <3>2, Zenon
  <2>3. g = [v \in Values |-> g[v]]
    OBVIOUS
  <2> HIDE DEF Body
  <2> QED
    BY <2>2, <2>3
<1>6. Is(Encode)
  <2>1. Encode = CHOOSE g : Is(g)
    BY Zenon DEF Encode
  <2> HIDE DEF Is
  <2> QED
    BY <1>5, <2>1, Zenon
<1>7. ASSUME NEW v \in Values
      PROVE  Encode[v] = WrittenWith(v, Results(Encode, Items(v)))
  <2>1. Encode[v] = Body(Encode, v)
    <3> HIDE DEF Body
    <3> QED BY <1>6, Zenon
  <2> HIDE DEF Body
  <2> QED
    BY <1>1, <2>1, Zenon
<1>8. Values \subseteq {v \in Values : Encode[v] \in Seq(Chars)}
  <2> DEFINE S == {v \in Values : Encode[v] \in Seq(Chars)}
  <2>1. ASSUME NEW v \in Values, \A k \in 1 .. Len(Children[v]) : Children[v][k] \in S
        PROVE  v \in S
    <3>1. Len(Children[v]) \in Nat
      BY ValuesAreTrees DEF Trees
    <3>2. Results(Encode, Children[v]) \in Seq(Seq(Chars))
      BY <2>1, <3>1 DEF Results
    <3>3. Encode[v] = WrittenWith(v, Results(Encode, Children[v]))
      BY <1>2, <1>7, Zenon
    <3> QED
      BY <3>2, <3>3, WrittenType
  <2> HIDE DEF S
  <2>2. \A v \in Values : (\A k \in 1 .. Len(Children[v]) : Children[v][k] \in S) => v \in S
    BY <2>1, Zenon
  <2>3. Values \subseteq S
    BY <2>2, ValuesAreTrees, TreeInduction
  <2> QED
    BY <2>3 DEF S
<1>9. Encode = [v \in Values |-> Encode[v]]
  <2> HIDE DEF Body
  <2> QED BY <1>6, Zenon
<1> QED
  BY <1>7, <1>8, <1>9

\* An integer: its mark, the numeral and the end.
LEMMA IntText ==
  ASSUME NEW v \in Values, v.kind = "int"
  PROVE  /\ Len(Encode[v]) = 3
         /\ Encode[v][1] = "i" /\ Encode[v][2] = Numeral[v.val] /\ Encode[v][3] = "e"
<1>1. Encode[v] = <<"i", Numeral[v.val], "e">>
  BY EncodeIs DEF WrittenWith
<1> QED
  BY <1>1

\* A string: the numeral of its length, the colon and its characters.
LEMMA StringText ==
  ASSUME NEW v \in Values, v.kind = "string"
  PROVE  /\ v.val \in Seq(Chars) /\ Len(v.val) \in Nat /\ Len(v.val) \in Numbers
         /\ Len(Encode[v]) = 2 + Len(v.val)
         /\ Encode[v][1] = Numeral[Len(v.val)] /\ Encode[v][2] = ":"
         /\ \A j \in 1 .. Len(v.val) : Encode[v][2 + j] = v.val[j]
<1> DEFINE head == <<Numeral[Len(v.val)], ":">>
           text == v.val
<1>1. Encode[v] = head \o text
  BY EncodeIs, Zenon DEF WrittenWith
<1>2. text \in Seq(Chars) /\ Len(text) \in Numbers
  BY Kinds DEF IsString
<1>3. head \in Seq(Chars) /\ Len(head) = 2 /\ head[1] = Numeral[Len(text)] /\ head[2] = ":"
  BY <1>2, NumeralAssumption DEF Marks
<1>4. Len(text) \in Nat
  BY <1>2
<1> HIDE DEF head, text
<1>5. Joined(head, text, Encode[v])
  BY <1>1, <1>2, <1>3, Behind, Zenon
<1>6. /\ Len(Encode[v]) = 2 + Len(text)
      /\ \A j \in 1 .. Len(text) : Encode[v][2 + j] = text[j]
  BY <1>3, <1>5 DEF Joined
<1>7. Encode[v][1] = head[1] /\ Encode[v][2] = head[2]
  BY <1>3, <1>5 DEF Joined
<1> QED
  BY <1>2, <1>3, <1>4, <1>6, <1>7 DEF text

\* An item is written from one offset to the next.
ItemLaid(text, ofs, k, item) ==
  /\ ofs[k] = ofs[k - 1] + Len(item)
  /\ \A j \in 1 .. Len(item) : text[ofs[k - 1] + j] = item[j]

\* Where the items of a list or a dictionary begin, and its end, in what is written for it.
Laid(v, ofs) ==
  LET n == Len(Items(v))
  IN /\ ofs \in [0 .. n -> Nat] /\ ofs[0] = 1
     /\ \A k \in 1 .. n : ofs[k] <= ofs[n] /\ ItemLaid(Encode[v], ofs, k, Encode[Items(v)[k]])
     /\ Encode[v][1] = IF v.kind = "vector" THEN "l" ELSE "d"
     /\ Encode[v][ofs[n] + 1] = "e"
     /\ Len(Encode[v]) = ofs[n] + 1

\* The number of characters before each of the items, and behind the last.
Offsets(v) == CHOOSE ofs : Laid(v, ofs)

\* There are such offsets for every list and dictionary.
LEMMA LaidOut ==
  ASSUME NEW v \in Values, Container(v)
  PROVE  Laid(v, Offsets(v))
<1> DEFINE n == Len(Items(v))
           parts == Results(Encode, Items(v))
           head == <<IF v.kind = "vector" THEN "l" ELSE "d">>
           body == FlattenSeq(parts)
           tail == <<"e">>
           front == head \o body
           w == Encode[v]
<1>1. w = front \o tail
  <2>1. v.kind \notin {"int", "string"}
    BY Kinds
  <2> QED
    BY <2>1, EncodeIs, Zenon DEF WrittenWith
<1>2. n \in Nat /\ \A k \in 1 .. n : Items(v)[k] \in Values /\ Encode[Items(v)[k]] \in Seq(Chars)
  BY ItemsType, EncodeIs
<1>3. parts \in Seq(Seq(Chars)) /\ Len(parts) = n /\ \A k \in 1 .. n : parts[k] = Encode[Items(v)[k]]
  BY <1>2 DEF Results
<1>4. /\ head \in Seq(Chars) /\ Len(head) = 1 /\ head[1] = IF v.kind = "vector" THEN "l" ELSE "d"
      /\ tail \in Seq(Chars) /\ Len(tail) = 1 /\ tail[1] = "e"
  BY NumeralAssumption DEF Marks
<1> HIDE DEF n, parts, head, tail
<1>5. body \in Seq(Chars) /\ \E ends : Parts(parts, body, ends)
  BY <1>3, FlattenParts, Zenon
<1>6. PICK ends : Parts(parts, body, ends)
  BY <1>5
<1> HIDE DEF body
<1>7. front \in Seq(Chars) /\ Joined(head, body, front)
  BY <1>4, <1>5, Behind, Zenon
<1> HIDE DEF front
<1>8. w \in Seq(Chars) /\ Joined(front, tail, w)
  BY <1>1, <1>4, <1>7, Behind, Zenon
<1> HIDE DEF w
<1>9. Len(body) \in Nat
  BY <1>5
<1>10. /\ Len(front) = 1 + Len(body) /\ front[1] = head[1]
       /\ \A j \in 1 .. Len(body) : front[1 + j] = body[j]
  BY <1>4, <1>7 DEF Joined
<1>11. /\ Len(w) = 2 + Len(body) /\ w[1] = head[1]
       /\ \A j \in 1 .. Len(body) : w[1 + j] = body[j]
       /\ w[2 + Len(body)] = "e"
  <2>1. Len(w) = 2 + Len(body) /\ w[2 + Len(body)] = "e"
    BY <1>4, <1>8, <1>9, <1>10 DEF Joined
  <2>2. \A j \in 1 .. 1 + Len(body) : w[j] = front[j]
    BY <1>8, <1>10 DEF Joined
  <2>3. w[1] = head[1]
    BY <1>9, <1>10, <2>2
  <2>4. ASSUME NEW j \in 1 .. Len(body)
        PROVE  w[1 + j] = body[j]
    <3>1. 1 + j \in 1 .. 1 + Len(body)
      BY <1>9
    <3> QED
      BY <1>10, <2>2, <3>1
  <2> QED
    BY <2>1, <2>3, <2>4
<1> DEFINE ofs == [k \in 0 .. n |-> ends[k] + 1]
<1>12. /\ ends \in [0 .. n -> Nat] /\ ends[0] = 0 /\ Len(body) = ends[n]
       /\ \A k \in 1 .. n :
            /\ ends[k] = ends[k - 1] + Len(parts[k])
            /\ \A j \in 1 .. Len(parts[k]) : body[ends[k - 1] + j] = parts[k][j]
  BY <1>3, <1>6, Zenon DEF Parts
<1>13. ASSUME NEW k \in 1 .. n
       PROVE  /\ Len(parts[k]) \in Nat /\ ends[k - 1] \in Nat /\ ends[k] \in Nat /\ ends[k] <= Len(body)
              /\ k \in 0 .. n /\ k - 1 \in 0 .. n
  <2> DEFINE lens == [i \in 1 .. n |-> Len(parts[i])]
  <2>1. \A i \in 1 .. n : Len(parts[i]) \in Nat
    BY <1>3
  <2>2. lens \in [1 .. n -> Nat] /\ \A i \in 1 .. n : ends[i] = ends[i - 1] + lens[i]
    BY <1>12, <2>1
  <2>3. k \in 0 .. n /\ k - 1 \in 0 .. n /\ n \in k .. n
    BY <1>2
  <2> HIDE DEF lens
  <2>4. \A m \in k .. n : ends[k] <= ends[m]
    BY <1>2, <1>12, <2>2, <2>3, EndsGrow
  <2> QED
    BY <1>12, <2>1, <2>3, <2>4
<1>14. ofs \in [0 .. n -> Nat] /\ \A k \in 0 .. n : ofs[k] = ends[k] + 1
  BY <1>12
<1>15. ofs[0] = 1 /\ ofs[n] = 1 + Len(body)
  <2>1. 0 \in 0 .. n /\ n \in 0 .. n
    BY <1>2
  <2> HIDE DEF ofs
  <2> QED
    BY <1>9, <1>12, <1>14, <2>1
<1>16. ASSUME NEW k \in 1 .. n
       PROVE  /\ ofs[k] = ofs[k - 1] + Len(parts[k]) /\ ofs[k] <= ofs[n]
              /\ \A j \in 1 .. Len(parts[k]) : w[ofs[k - 1] + j] = parts[k][j]
  <2>1. ofs[k] = ends[k] + 1 /\ ofs[k - 1] = ends[k - 1] + 1 /\ ends[k] = ends[k - 1] + Len(parts[k])
    <3> HIDE DEF ofs
    <3> QED BY <1>12, <1>13, <1>14
  <2> HIDE DEF ofs
  <2>2. ASSUME NEW j \in 1 .. Len(parts[k])
        PROVE  w[ofs[k - 1] + j] = parts[k][j]
    <3> DEFINE i == ends[k - 1] + j
    <3>1. i \in 1 .. Len(body)
      BY <1>9, <1>13, <2>1, WithinPart, Zenon
    <3>2. ofs[k - 1] + j = 1 + i
      <4>1. j \in Nat /\ ends[k - 1] \in Nat
        BY <1>13
      <4> QED
        BY <2>1, <4>1
    <3>3. body[i] = parts[k][j]
      BY <1>12
    <3> HIDE DEF i
    <3> QED
      BY <1>11, <3>1, <3>2, <3>3
  <2>3. ofs[k] = ofs[k - 1] + Len(parts[k])
    BY <1>13, <2>1
  <2>4. ofs[k] <= ofs[n]
    BY <1>9, <1>13, <1>15, <2>1
  <2> QED
    BY <2>2, <2>3, <2>4
<1>17. w[ofs[n] + 1] = "e" /\ Len(w) = ofs[n] + 1
  <2> HIDE DEF ofs
  <2>1. ofs[n] + 1 = 2 + Len(body)
    BY <1>9, <1>15
  <2> QED
    BY <1>11, <2>1
<1>18. w[1] = IF v.kind = "vector" THEN "l" ELSE "d"
  BY <1>4, <1>11
<1> HIDE DEF ofs
<1>19. Laid(v, ofs)
  <2>1. ASSUME NEW k \in 1 .. n
        PROVE  ofs[k] <= ofs[n] /\ ItemLaid(w, ofs, k, Encode[Items(v)[k]])
    <3>1. ItemLaid(w, ofs, k, parts[k])
      BY <1>16, Zenon DEF ItemLaid
    <3> QED
      BY <1>3, <1>16, <3>1
  <2>2. ofs \in [0 .. n -> Nat] /\ ofs[0] = 1
    BY <1>14, <1>15, Zenon
  <2> QED
    BY <1>17, <1>18, <2>1, <2>2, Zenon DEF Laid, n, w
<1> HIDE DEF ofs
<1> QED
  BY <1>19 DEF Offsets

\* Everything that is written begins with a character, which tells the kind.
LEMMA FirstOfText ==
  ASSUME NEW v \in Values
  PROVE  /\ Encode[v] \in Seq(Chars) /\ Len(Encode[v]) \in Nat \ {0}
         /\ Encode[v][1] # "e"
         /\ Encode[v][1] = "i" <=> v.kind = "int"
         /\ Encode[v][1] = "l" <=> v.kind = "vector"
         /\ Encode[v][1] = "d" <=> v.kind = "map"
<1>1. Encode[v] \in Seq(Chars) /\ Len(Encode[v]) \in Nat
  BY EncodeIs
<1>2. CASE v.kind = "int"
  BY <1>1, <1>2, IntText
<1>3. CASE v.kind = "string"
  <2>1. Numeral[Len(v.val)] \notin Marks
    BY <1>3, StringText, NumeralAssumption
  <2>2. Len(Encode[v]) # 0
    BY <1>3, StringText
  <2>3. Encode[v][1] = Numeral[Len(v.val)]
    BY <1>3, StringText
  <2> QED
    BY <1>1, <1>3, <2>1, <2>2, <2>3 DEF Marks
<1>4. CASE v.kind \in {"vector", "map"}
  <2>1. Laid(v, Offsets(v)) /\ Len(Items(v)) \in Nat
    BY <1>4, Kinds, LaidOut, ItemsType
  <2>2. Len(Encode[v]) # 0 /\ Encode[v][1] = IF v.kind = "vector" THEN "l" ELSE "d"
    BY <2>1 DEF Laid
  <2> QED
    BY <1>1, <1>4, <2>2
<1> QED
  BY <1>2, <1>3, <1>4, Kinds

-----------------------------------------------------------------------------
(* The calls of Parser *)

\* v is what is written behind the first o characters.
At(text, o, v) ==
  /\ o \in Nat /\ Len(text) \in Nat /\ o + Len(Encode[v]) <= Len(text)
  /\ \A j \in 1 .. Len(Encode[v]) : text[o + j] = Encode[v][j]

\* A call of Parser has a list or a dictionary, the number of characters before it, and
\* the number of its items that have been read.  m calls wait, the last one for the value
\* that is Upcoming(root, calls, m), behind the first Reached(calls, m) characters.
Reached(calls, m) ==
  IF m = 0 THEN 0 ELSE calls[m].begin + Offsets(calls[m].node)[calls[m].count]

\* The last call that waits has an item that is not read yet.
More(calls, m) == m = 0 \/ calls[m].count < Len(Items(calls[m].node))

\* What is read next; the root, if nothing waits.
Upcoming(root, calls, m) == IF m = 0 THEN root ELSE Items(calls[m].node)[calls[m].count + 1]
IsUpcoming(v, root, calls, m) == v = Upcoming(root, calls, m)

\* The record of the locals.
IsFrame(f) ==
  f = [kind |-> f.kind, val |-> f.val, awaits |-> f.awaits, key |-> f.key,
       info_position |-> f.info_position]

\* The first q keys.
KeysUpTo(v, q) == {Sorted[DOMAIN v.val][j] : j \in 1 .. q}

\* What the locals of a call are when it has read q values of the dictionary v, and
\* perhaps a key more: count items.
KeysAndValues(f, v, begin, count, q) ==
  /\ f.val = [key \in KeysUpTo(v, q) |-> v.val[key]]
  /\ \/ count = 2 * q /\ f.awaits = "key"
     \/ /\ count = 2 * q + 1 /\ f.awaits = "value"
        /\ q < Len(Sorted[DOMAIN v.val])
        /\ f.key = Sorted[DOMAIN v.val][q + 1]
        /\ f.info_position = begin + Offsets(v)[count] + 1

\* What the locals of a call are when it has read count items of v.
Suspended(f, v, begin, count) ==
  /\ IsFrame(f) /\ f.kind = v.kind
  /\ v.kind = "vector" => f.awaits = "item" /\ f.val = SubSeq(v.val, 1, count)
  /\ v.kind = "map" =>
       \E q \in 0 .. Len(Sorted[DOMAIN v.val]) : KeysAndValues(f, v, begin, count, q)

\* The m-th call was made for the value that was upcoming in the one below, and where that ended.
Called(text, root, calls, m) ==
  LET call == calls[m]
  IN /\ call = [node |-> call.node, begin |-> call.begin, count |-> call.count]
     /\ call.node \in Values /\ Container(call.node)
     /\ call.count \in 0 .. Len(Items(call.node))
     /\ At(text, call.begin, call.node)
     /\ More(calls, m - 1) /\ call.node = Upcoming(root, calls, m - 1)
     /\ call.begin = Reached(calls, m - 1)

\* The frames are those of the calls, from the outermost to the last.
Reading(text, root, frames, calls) ==
  /\ IsSeq(frames) /\ IsSeq(calls) /\ Len(calls) = Len(frames)
  /\ \A i \in 1 .. Len(frames) :
       /\ Called(text, root, calls, i)
       /\ Suspended(frames[i], calls[i].node, calls[i].begin, calls[i].count)

\* The items of a list or a dictionary are within what is written for it.
LEMMA ItemAt ==
  ASSUME NEW text, NEW o, NEW v \in Values, Container(v), At(text, o, v),
         NEW c \in 0 .. Len(Items(v))
  PROVE  /\ Offsets(v)[c] \in Nat
         /\ c < Len(Items(v)) =>
              /\ c + 1 \in 1 .. Len(Items(v)) /\ Items(v)[c + 1] \in Values
              /\ At(text, o + Offsets(v)[c], Items(v)[c + 1])
              /\ Offsets(v)[c + 1] = Offsets(v)[c] + Len(Encode[Items(v)[c + 1]])
         /\ c = Len(Items(v)) =>
              text[o + Offsets(v)[c] + 1] = "e" /\ o + Offsets(v)[c] + 1 = o + Len(Encode[v])
<1> DEFINE n == Len(Items(v))
           ofs == Offsets(v)
           w == Encode[v]
<1>1. Laid(v, ofs)
  BY LaidOut
<1> HIDE DEF ofs
<1>2. n \in Nat /\ \A k \in 1 .. n : Items(v)[k] \in Values
  BY ItemsType
<1>3. o \in Nat /\ Len(text) \in Nat /\ o + Len(w) <= Len(text) /\ \A j \in 1 .. Len(w) : text[o + j] = w[j]
  BY DEF At
<1>4. /\ ofs \in [0 .. n -> Nat]
      /\ \A k \in 1 .. n :
           /\ ofs[k] = ofs[k - 1] + Len(Encode[Items(v)[k]]) /\ ofs[k] <= ofs[n]
           /\ \A j \in 1 .. Len(Encode[Items(v)[k]]) : w[ofs[k - 1] + j] = Encode[Items(v)[k]][j]
      /\ w[ofs[n] + 1] = "e" /\ Len(w) = ofs[n] + 1
  <2>1. /\ ofs \in [0 .. n -> Nat]
        /\ \A k \in 1 .. n : ofs[k] <= ofs[n] /\ ItemLaid(w, ofs, k, Encode[Items(v)[k]])
        /\ w[ofs[n] + 1] = "e" /\ Len(w) = ofs[n] + 1
    BY <1>1, Zenon DEF Laid
  <2> HIDE DEF n, w
  <2> QED
    BY <2>1, Zenon DEF ItemLaid
<1> HIDE DEF n, ofs, w
<1>5. ofs[c] \in Nat /\ ofs[n] \in Nat /\ c \in Nat /\ Len(w) \in Nat
  <2>1. ofs \in [0 .. n -> Nat] /\ Len(w) = ofs[n] + 1
    BY <1>4, Zenon
  <2>2. c \in 0 .. n /\ n \in Nat /\ n \in 0 .. n
    BY <1>2 DEF n
  <2> QED
    BY <2>1, <2>2
<1>6. o \in Nat /\ Len(text) \in Nat /\ o + Len(w) <= Len(text) /\ Len(w) = ofs[n] + 1
  BY <1>3, <1>4
<1>7. ASSUME c < n
      PROVE  /\ c + 1 \in 1 .. n /\ Items(v)[c + 1] \in Values
             /\ At(text, o + ofs[c], Items(v)[c + 1])
             /\ ofs[c + 1] = ofs[c] + Len(Encode[Items(v)[c + 1]])
  <2> DEFINE item == Encode[Items(v)[c + 1]]
  <2>1. c + 1 \in 1 .. n /\ (c + 1) - 1 = c
    BY <1>2, <1>5, <1>7
  <2>2. Items(v)[c + 1] \in Values /\ Len(item) \in Nat
    BY <1>2, <2>1, FirstOfText
  <2> HIDE DEF item
  <2>3. /\ ofs[c + 1] = ofs[c] + Len(item) /\ ofs[c + 1] <= ofs[n]
        /\ \A j \in 1 .. Len(item) : w[ofs[c] + j] = item[j]
    BY <1>4, <2>1 DEF item
  <2>4. ofs[c] + Len(item) <= Len(w)
    BY <1>4, <1>5, <2>2, <2>3
  <2>5. Fits(o, Len(w), ofs[c], Len(item), Len(text))
    BY <1>5, <1>6, <2>2, <2>4, Nested, Zenon
  <2>6. ASSUME NEW j \in 1 .. Len(item)
        PROVE  text[(o + ofs[c]) + j] = item[j]
    BY <1>3, <2>3, <2>5, Zenon DEF Fits
  <2>7. At(text, o + ofs[c], Items(v)[c + 1])
    BY <1>6, <2>5, <2>6, Zenon DEF At, Fits, item
  <2> QED
    BY <2>1, <2>2, <2>3, <2>7 DEF item
<1>8. ASSUME c = n
      PROVE  text[o + ofs[c] + 1] = "e" /\ o + ofs[c] + 1 = o + Len(w)
  <2>1. ofs[c] + 1 \in 1 .. Len(w) /\ o + (ofs[c] + 1) = o + ofs[c] + 1
    BY <1>3, <1>4, <1>5, <1>8
  <2> QED
    BY <1>3, <1>4, <1>8, <2>1
<1> QED
  BY <1>5, <1>7, <1>8 DEF n, ofs, w

\* Behind the last item is the mark of the end, and it is the last character.
LEMMA EndAt ==
  ASSUME NEW text, NEW o, NEW v \in Values, Container(v), At(text, o, v)
  PROVE  /\ text[o + Offsets(v)[Len(Items(v))] + 1] = "e"
         /\ o + Offsets(v)[Len(Items(v))] + 1 = o + Len(Encode[v])
<1>1. Len(Items(v)) \in 0 .. Len(Items(v))
  BY ItemsType
<1> QED
  BY <1>1, ItemAt

-----------------------------------------------------------------------------

\* A call depends on itself and the one below only.
LEMMA CalledSame ==
  ASSUME NEW text, NEW root, NEW calls, NEW other, NEW i \in Nat \ {0},
         other[i] = calls[i], i # 1 => other[i - 1] = calls[i - 1],
         Called(text, root, calls, i)
  PROVE  Called(text, root, other, i)
<1>1. i = 1 \/ (i - 1 # 0 /\ other[i - 1] = calls[i - 1])
  OBVIOUS
<1>2. /\ More(other, i - 1) <=> More(calls, i - 1)
      /\ Upcoming(root, other, i - 1) = Upcoming(root, calls, i - 1)
      /\ Reached(other, i - 1) = Reached(calls, i - 1)
  BY <1>1 DEF More, Upcoming, Reached
<1> QED
  BY <1>2 DEF Called

\* The text that is read: all of it is what is written for the root.
Whole(text, root) == root \in Values /\ At(text, 0, root) /\ Len(text) = Len(Encode[root])

\* What is called for is there.
LEMMA UpcomingAt ==
  ASSUME NEW text, NEW root, Whole(text, root), NEW frames, NEW calls,
         Reading(text, root, frames, calls), More(calls, Len(frames))
  PROVE  /\ Upcoming(root, calls, Len(frames)) \in Values
         /\ At(text, Reached(calls, Len(frames)), Upcoming(root, calls, Len(frames)))
<1> DEFINE m == Len(frames)
<1>1. m \in Nat
  BY SeqLen DEF Reading
<1>2. CASE m = 0
  BY <1>2 DEF Upcoming, Reached, Whole
<1>3. CASE m # 0
  <2>1. Called(text, root, calls, m)
    BY <1>1, <1>3 DEF Reading
  <2> DEFINE v == calls[m].node
             o == calls[m].begin
             c == calls[m].count
  <2>2. v \in Values /\ Container(v) /\ At(text, o, v) /\ c \in 0 .. Len(Items(v)) /\ c < Len(Items(v))
    BY <1>3, <2>1 DEF Called, More
  <2> HIDE DEF v, o, c
  <2>3. Items(v)[c + 1] \in Values /\ At(text, o + Offsets(v)[c], Items(v)[c + 1])
    BY <2>2, ItemAt, Zenon
  <2> QED
    BY <1>3, <2>3 DEF Upcoming, Reached, v, o, c
<1> QED
  BY <1>2, <1>3

\* A loop that waits at its end has read all items, and only then.
LEMMA EndOfLoop ==
  ASSUME NEW text, NEW root, NEW frames, NEW calls,
         Reading(text, root, frames, calls), frames # <<>>
  PROVE  (frames[Len(frames)].awaits # "value" /\ text[Reached(calls, Len(frames)) + 1] = "e")
           <=> ~More(calls, Len(frames))
<1> DEFINE m == Len(frames)
           v == calls[m].node
           o == calls[m].begin
           c == calls[m].count
           f == frames[m]
<1>1. m \in Nat \ {0}
  BY SeqLen DEF Reading
<1>2. Called(text, root, calls, m) /\ Suspended(f, v, o, c)
  BY <1>1 DEF Reading
<1>3. v \in Values /\ Container(v) /\ At(text, o, v) /\ c \in 0 .. Len(Items(v))
  BY <1>2 DEF Called
<1>4. Len(Items(v)) \in Nat
  BY <1>3, ItemsType
<1>5. Reached(calls, m) = o + Offsets(v)[c] /\ (More(calls, m) <=> c < Len(Items(v)))
  BY <1>1 DEF Reached, More
<1> HIDE DEF m, v, o, c, f
<1>6. CASE c < Len(Items(v))
  <2>1. Items(v)[c + 1] \in Values /\ At(text, o + Offsets(v)[c], Items(v)[c + 1])
    BY <1>3, <1>6, ItemAt, Zenon
  <2> DEFINE u == Items(v)[c + 1]
             p == o + Offsets(v)[c]
  <2> HIDE DEF u, p
  <2>2. Len(Encode[u]) \in Nat \ {0} /\ Encode[u][1] # "e"
    BY <2>1, FirstOfText DEF u
  <2>3. text[p + 1] = Encode[u][1]
    <3>1. 1 \in 1 .. Len(Encode[u])
      BY <2>2
    <3> QED
      BY <2>1, <3>1 DEF At, u, p
  <2> QED
    BY <1>5, <1>6, <2>2, <2>3 DEF p, f, m
<1>7. CASE ~(c < Len(Items(v)))
  <2>1. c = Len(Items(v))
    BY <1>3, <1>4, <1>7
  <2>2. text[o + Offsets(v)[c] + 1] = "e"
    BY <1>3, <2>1, EndAt, Zenon
  <2>3. f.awaits # "value"
    <3>1. CASE v.kind = "vector"
      BY <1>2, <3>1 DEF Suspended
    <3>2. CASE v.kind = "map"
      <4>1. Len(Items(v)) = 2 * Len(Sorted[DOMAIN v.val])
        BY <1>3, <3>2, ItemsOfMap
      <4>2. PICK q \in 0 .. Len(Sorted[DOMAIN v.val]) :
              \/ c = 2 * q /\ f.awaits = "key"
              \/ c = 2 * q + 1
        BY <1>2, <3>2 DEF Suspended, KeysAndValues
      <4>3. Len(Sorted[DOMAIN v.val]) \in Nat
        BY <1>3, <3>2, Kinds, SortedKeys
      <4>4. c # 2 * q + 1
        BY <2>1, <4>1, <4>3
      <4> QED
        BY <4>2, <4>4
    <3> QED
      BY <1>3, <3>1, <3>2, Kinds
  <2> QED
    BY <1>5, <1>7, <2>2, <2>3 DEF f, m
<1> QED
  BY <1>6, <1>7

\* The next call: of v, behind begin characters, with nothing read.
NewCall(v, begin) == [node |-> v, begin |-> begin, count |-> 0]

\* An item more has been read.
OneMore(call) == [node |-> call.node, begin |-> call.begin, count |-> call.count + 1]

\* The frame of a list or a dictionary that begins.
NewFrame(v) ==
  IF v.kind = "vector" THEN Frame("vector", <<>>, "item")
  ELSE Frame("map", [key \in {} |-> key], "key")

\* The locals with which ParseVector and ParseMap begin are those of no item.
LEMMA NewFrameSuspended ==
  ASSUME NEW v \in Values, Container(v), NEW o
  PROVE  Suspended(NewFrame(v), v, o, 0)
<1>1. CASE v.kind = "vector"
  <2>1. SubSeq(v.val, 1, 0) = <<>>
    BY <1>1, Kinds
  <2> QED
    BY <1>1, <2>1 DEF Suspended, NewFrame, Frame, IsFrame
<1>2. CASE v.kind = "map"
  <2> DEFINE f == NewFrame(v)
             n == Len(Sorted[DOMAIN v.val])
  <2>1. IsFrame(f) /\ f.kind = "map" /\ f.awaits = "key" /\ f.val = [key \in {} |-> key]
    BY <1>2 DEF NewFrame, Frame, IsFrame
  <2>2. n \in Nat
    BY <1>2, Kinds, SortedKeys
  <2>3. KeysUpTo(v, 0) = {}
    BY DEF KeysUpTo
  <2>4. [key \in KeysUpTo(v, 0) |-> v.val[key]] = [key \in {} |-> key]
    BY <2>3
  <2> HIDE DEF f, n
  <2>5. 0 \in 0 .. n /\ 0 = 2 * 0
    BY <2>2
  <2> QED
    BY <1>2, <2>1, <2>4, <2>5 DEF Suspended, KeysAndValues, f, n
<1> QED
  BY <1>1, <1>2, Kinds

\* A call of Parser for a list or a dictionary that is upcoming keeps the frames in order.
LEMMA PushStep ==
  ASSUME NEW text, NEW root, Whole(text, root), NEW frames, NEW calls,
         Reading(text, root, frames, calls), More(calls, Len(frames)),
         NEW v, IsUpcoming(v, root, calls, Len(frames)), Container(v),
         NEW on, IsPushed(frames, NewFrame(v), on),
         NEW more, IsPushed(calls, NewCall(v, Reached(calls, Len(frames))), more)
  PROVE  /\ Reading(text, root, on, more)
         /\ Reached(more, Len(frames) + 1) = Reached(calls, Len(frames)) + 1
<1> DEFINE m == Len(frames)
           o == Reached(calls, m)
           call == NewCall(v, o)
<1>1. m \in Nat /\ IsSeq(frames) /\ IsSeq(calls) /\ Len(calls) = m
  BY SeqLen DEF Reading
<1>2. v \in Values /\ At(text, o, v) /\ v = Upcoming(root, calls, m)
  BY UpcomingAt DEF IsUpcoming
<1>3. IsPushed(frames, NewFrame(v), on) /\ IsPushed(calls, call, more)
  OBVIOUS
<1> HIDE DEF call
<1>4. /\ IsSeq(on) /\ IsSeq(more) /\ Len(on) = m + 1 /\ Len(more) = m + 1
      /\ \A i \in 1 .. m : on[i] = frames[i] /\ more[i] = calls[i]
      /\ on[m + 1] = NewFrame(v) /\ more[m + 1] = call
  BY <1>1, <1>3 DEF IsPushed
<1>5. call = [node |-> v, begin |-> o, count |-> 0]
  BY DEF call, NewCall
<1> HIDE DEF m, o
<1>6. ASSUME NEW i \in 1 .. m
      PROVE  Called(text, root, more, i) /\ Suspended(on[i], more[i].node, more[i].begin, more[i].count)
  <2>1. /\ Called(text, root, calls, i)
        /\ Suspended(frames[i], calls[i].node, calls[i].begin, calls[i].count)
    BY DEF Reading, m
  <2>2. more[i] = calls[i] /\ on[i] = frames[i] /\ (i # 1 => more[i - 1] = calls[i - 1]) /\ i \in Nat \ {0}
    BY <1>1, <1>4
  <2> QED
    BY <2>1, <2>2, CalledSame
<1>7. Called(text, root, more, m + 1)
  <2>1. (m + 1) - 1 = m /\ (m # 0 => more[m] = calls[m])
    BY <1>1, <1>4
  <2>2. More(more, m) /\ v = Upcoming(root, more, m) /\ o = Reached(more, m)
    <3>1. More(calls, m) /\ v = Upcoming(root, calls, m) /\ o = Reached(calls, m)
      BY <1>2 DEF m, o
    <3> QED
      BY <2>1, <3>1 DEF More, Upcoming, Reached
  <2>3. 0 \in 0 .. Len(Items(v))
    BY <1>2, ItemsType
  <2> QED
    BY <1>2, <1>4, <1>5, <2>1, <2>2, <2>3 DEF Called
<1>8. Suspended(on[m + 1], more[m + 1].node, more[m + 1].begin, more[m + 1].count)
  <2>1. Suspended(NewFrame(v), v, o, 0)
    BY <1>2, NewFrameSuspended
  <2> QED
    BY <1>4, <1>5, <2>1
<1>9. Reading(text, root, on, more)
  <2>1. \A i \in 1 .. m + 1 : i \in 1 .. m \/ i = m + 1
    BY <1>1
  <2> QED
    BY <1>4, <1>6, <1>7, <1>8, <2>1 DEF Reading
<1>10. Reached(more, m + 1) = o + 1
  <2>1. Offsets(v)[0] = 1
    BY <1>2, LaidOut DEF Laid
  <2>2. m + 1 # 0
    BY <1>1
  <2> QED
    BY <1>4, <1>5, <2>1, <2>2 DEF Reached
<1> QED
  BY <1>9, <1>10 DEF m, o

\* What a loop has put together when it has read all items is what was written.
LEMMA ReadToEnd ==
  ASSUME NEW v \in Values, Container(v), NEW f, NEW o, Suspended(f, v, o, Len(Items(v)))
  PROVE  [kind |-> f.kind, val |-> f.val] = v
<1>1. CASE v.kind = "vector"
  <2>1. v = VectorValue(v.val) /\ v.val \in Seq(Values) /\ Items(v) = v.val
    BY <1>1, Kinds, ItemsOfVector
  <2>2. f.kind = "vector" /\ f.val = SubSeq(v.val, 1, Len(v.val))
    BY <1>1, <2>1 DEF Suspended
  <2>3. SubSeq(v.val, 1, Len(v.val)) = v.val
    BY <2>1
  <2> QED
    BY <2>1, <2>2, <2>3 DEF VectorValue
<1>2. CASE v.kind = "map"
  <2> DEFINE keys == Sorted[DOMAIN v.val]
             n == Len(keys)
  <2>1. IsMap(v)
    BY <1>2, Kinds
  <2>2. n \in Nat /\ Len(Items(v)) = 2 * n
    BY <1>2, <2>1, SortedKeys, ItemsOfMap
  <2>3. PICK q \in 0 .. n : /\ f.val = [key \in KeysUpTo(v, q) |-> v.val[key]]
                            /\ Len(Items(v)) = 2 * q \/ Len(Items(v)) = 2 * q + 1
    BY <1>2 DEF Suspended, KeysAndValues
  <2>4. q = n
    <3> HIDE DEF n
    <3> QED BY <2>2, <2>3
  <2>5. KeysUpTo(v, n) = DOMAIN v.val
    <3>1. \A k \in 1 .. n : keys[k] \in DOMAIN v.val
      BY <2>1, SortedKeys
    <3>2. \A key \in DOMAIN v.val : \E k \in 1 .. n : keys[k] = key
      BY <2>1, SortedKeys
    <3> HIDE DEF n
    <3> QED
      BY <3>1, <3>2 DEF KeysUpTo
  <2>6. f.val = v.val
    BY <2>1, <2>3, <2>4, <2>5 DEF IsMap
  <2> QED
    BY <1>2, <2>1, <2>6 DEF IsMap, MapValue, Suspended
<1> QED
  BY <1>1, <1>2, Kinds

\* A call whose loop has come to its end returns the value it was called for.
LEMMA PopStep ==
  ASSUME NEW text, NEW root, Whole(text, root), NEW frames, NEW calls,
         Reading(text, root, frames, calls), frames # <<>>, ~More(calls, Len(frames))
  PROVE  LET m == Len(frames)
             f == frames[m]
             v == Upcoming(root, Front(calls), m - 1)
         IN /\ m \in Nat \ {0} /\ Len(Front(frames)) = m - 1
            /\ Reading(text, root, Front(frames), Front(calls)) /\ More(Front(calls), m - 1)
            /\ [kind |-> f.kind, val |-> f.val] = v
            /\ Reached(calls, m) + 1 = Reached(Front(calls), m - 1) + Len(Encode[v])
<1> DEFINE m == Len(frames)
           f == frames[m]
           fs == Front(frames)
           cs == Front(calls)
           v == calls[m].node
           o == calls[m].begin
           c == calls[m].count
<1>1. m \in Nat \ {0} /\ IsSeq(frames) /\ IsSeq(calls) /\ Len(calls) = m /\ calls # <<>>
  BY SeqLen DEF Reading
<1>2. IsPopped(frames, fs) /\ IsPopped(calls, cs)
  BY <1>1, Popped
<1> HIDE DEF fs, cs
<1>3. /\ IsSeq(fs) /\ IsSeq(cs) /\ Len(fs) = m - 1 /\ Len(cs) = m - 1
      /\ \A i \in 1 .. m - 1 : fs[i] = frames[i] /\ cs[i] = calls[i]
  BY <1>1, <1>2 DEF IsPopped
<1>4. Called(text, root, calls, m) /\ Suspended(f, v, o, c)
  BY <1>1 DEF Reading
<1>5. /\ v \in Values /\ Container(v) /\ c \in 0 .. Len(Items(v)) /\ At(text, o, v)
      /\ More(calls, m - 1) /\ v = Upcoming(root, calls, m - 1) /\ o = Reached(calls, m - 1)
  BY <1>4 DEF Called
<1>6. c = Len(Items(v))
  <2>1. ~(c < Len(Items(v)))
    BY <1>1 DEF More
  <2> QED
    BY <1>5, <2>1, ItemsType
<1>7. m - 1 # 0 => cs[m - 1] = calls[m - 1]
  BY <1>1, <1>3
<1>8. More(cs, m - 1) /\ v = Upcoming(root, cs, m - 1) /\ o = Reached(cs, m - 1)
  BY <1>5, <1>7 DEF More, Upcoming, Reached
<1>9. [kind |-> f.kind, val |-> f.val] = v
  <2>1. Suspended(f, v, o, Len(Items(v)))
    BY <1>4, <1>6
  <2> HIDE DEF f, v, o
  <2> QED
    BY <1>5, <2>1, ReadToEnd
<1>10. Reached(calls, m) + 1 = o + Len(Encode[v])
  <2>1. Reached(calls, m) = o + Offsets(v)[c]
    BY <1>1 DEF Reached
  <2> HIDE DEF v, o, c
  <2> QED
    BY <1>5, <1>6, <2>1, EndAt
<1>11. Reading(text, root, fs, cs)
  <2>1. ASSUME NEW i \in 1 .. m - 1
        PROVE  Called(text, root, cs, i) /\ Suspended(fs[i], cs[i].node, cs[i].begin, cs[i].count)
    <3>1. i \in 1 .. Len(frames)
      BY <1>1
    <3>2. /\ Called(text, root, calls, i)
          /\ Suspended(frames[i], calls[i].node, calls[i].begin, calls[i].count)
      BY <3>1 DEF Reading
    <3>3. cs[i] = calls[i] /\ fs[i] = frames[i] /\ (i # 1 => cs[i - 1] = calls[i - 1]) /\ i \in Nat \ {0}
      BY <1>1, <1>3
    <3> QED
      BY <3>2, <3>3, CalledSame
  <2> QED
    BY <1>3, <2>1 DEF Reading
<1> QED
  BY <1>1, <1>3, <1>8, <1>9, <1>10, <1>11 DEF fs, cs

-----------------------------------------------------------------------------

\* A loop goes on with the value it has called Parser for.
LEMMA SuspendedNext ==
  ASSUME NEW v \in Values, Container(v), NEW f, NEW o \in Nat, NEW c \in 0 .. Len(Items(v)),
         c < Len(Items(v)), Suspended(f, v, o, c)
  PROVE  Suspended(Resume(f, Items(v)[c + 1], o + Offsets(v)[c + 1] + 1), v, o, c + 1)
<1> DEFINE u == Items(v)[c + 1]
           next == o + Offsets(v)[c + 1] + 1
           g == Resume(f, u, next)
<1>1. IsFrame(f) /\ f.kind = v.kind
  BY DEF Suspended
<1>2. CASE v.kind = "vector"
  <2>1. f.awaits = "item" /\ f.val = SubSeq(v.val, 1, c)
    BY <1>2 DEF Suspended
  <2>2. g = [f EXCEPT !.val = Append(@, u)]
    BY <2>1, Zenon DEF Resume
  <2>3. SubSeq(v.val, 1, c + 1) = Append(SubSeq(v.val, 1, c), u)
    <3> DEFINE s == v.val
    <3>1. s \in Seq(Values) /\ u = s[c + 1] /\ c \in Nat /\ c < Len(s)
      BY <1>2, ItemsOfVector, ItemsType
    <3> HIDE DEF s, u
    <3>2. SubSeq(s, 1, c + 1) = Append(SubSeq(s, 1, c), u)
      BY <3>1
    <3> QED
      BY <3>2 DEF s
  <2>4. IsFrame(g) /\ g.kind = f.kind /\ g.awaits = "item" /\ g.val = SubSeq(v.val, 1, c + 1)
    <3> HIDE DEF g, u
    <3> QED BY <1>1, <2>1, <2>2, <2>3 DEF IsFrame
  <2> QED
    BY <1>1, <1>2, <2>4 DEF Suspended
<1>3. CASE v.kind = "map"
  <2> SUFFICES Suspended(g, v, o, c + 1)
    OBVIOUS
  <2> DEFINE keys == Sorted[DOMAIN v.val]
             n == Len(keys)
  <2>1. IsMap(v) /\ n \in Nat /\ Len(Items(v)) = 2 * n
    BY <1>3, Kinds, SortedKeys, ItemsOfMap
  <2>2. PICK q \in 0 .. n :
          /\ f.val = [key \in KeysUpTo(v, q) |-> v.val[key]]
          /\ \/ c = 2 * q /\ f.awaits = "key"
             \/ /\ c = 2 * q + 1 /\ f.awaits = "value" /\ q < n
                /\ f.key = keys[q + 1] /\ f.info_position = o + Offsets(v)[c] + 1
    BY <1>3 DEF Suspended, KeysAndValues
  <2>3. CASE c = 2 * q /\ f.awaits = "key"
    <3>1. q + 1 \in 1 .. n /\ c + 1 = 2 * (q + 1) - 1
      <4> HIDE DEF n
      <4> QED BY <2>1, <2>2, <2>3
    <3>2. u = StringValue(keys[q + 1])
      BY <1>3, <3>1, ItemsOfMap
    <3>3. g = [f EXCEPT !.awaits = "value", !.key = u.val, !.info_position = next]
      BY <2>3, Zenon DEF Resume
    <3>4. /\ IsFrame(g) /\ g.kind = f.kind /\ g.val = f.val
          /\ g.awaits = "value" /\ g.key = u.val /\ g.info_position = next
      <4> HIDE DEF g, u, next
      <4> QED BY <1>1, <3>3 DEF IsFrame
    <3>5. g.key = keys[q + 1]
      BY <3>2, <3>4 DEF StringValue
    <3>6. c + 1 = 2 * q + 1 /\ q < n
      <4> HIDE DEF n
      <4> QED BY <2>1, <2>2, <2>3, <3>1
    <3>7. KeysAndValues(g, v, o, c + 1, q)
      <4> HIDE DEF g, u, n
      <4> QED BY <2>2, <3>4, <3>5, <3>6 DEF KeysAndValues, n, next, keys
    <3> HIDE DEF g
    <3> QED
      BY <1>1, <1>3, <3>4, <3>7, Zenon DEF Suspended, n, keys
  <2>4. CASE c = 2 * q + 1 /\ f.awaits = "value" /\ q < n /\ f.key = keys[q + 1]
    <3>1. q + 1 \in 1 .. n /\ q + 1 \in 0 .. n /\ c + 1 = 2 * (q + 1)
      <4> HIDE DEF n
      <4> QED BY <2>1, <2>2, <2>4
    <3>2. u = v.val[f.key]
      BY <1>3, <2>4, <3>1, ItemsOfMap
    <3>3. g = [f EXCEPT !.awaits = "key",
                        !.val = [key \in DOMAIN @ \cup {f.key} |-> IF key = f.key THEN u ELSE @[key]]]
      BY <2>4, Zenon DEF Resume
    <3> DEFINE more == [key \in DOMAIN f.val \cup {f.key} |-> IF key = f.key THEN u ELSE f.val[key]]
    <3>4. IsFrame(g) /\ g.kind = f.kind /\ g.val = more /\ g.awaits = "key"
      <4> HIDE DEF u
      <4>1. g = [f EXCEPT !.awaits = "key", !.val = more]
        BY <3>3
      <4> HIDE DEF g, more
      <4> QED BY <1>1, <4>1 DEF IsFrame
    <3>5. KeysUpTo(v, q + 1) = KeysUpTo(v, q) \cup {f.key}
      <4>1. \A j \in 1 .. q + 1 : j \in 1 .. q \/ j = q + 1
        BY <2>2
      <4>2. \A j \in 1 .. q : j \in 1 .. q + 1
        BY <2>2
      <4>3. q + 1 \in 1 .. q + 1
        BY <2>2
      <4> QED
        BY <2>4, <4>1, <4>2, <4>3 DEF KeysUpTo
    <3>6. more = [key \in KeysUpTo(v, q + 1) |-> v.val[key]]
      <4>1. DOMAIN f.val = KeysUpTo(v, q) /\ \A key \in KeysUpTo(v, q) : f.val[key] = v.val[key]
        BY <2>2
      <4> HIDE DEF u
      <4> QED
        BY <3>2, <3>5, <4>1
    <3>7. KeysAndValues(g, v, o, c + 1, q + 1)
      <4> HIDE DEF g, more, u
      <4> QED BY <3>1, <3>4, <3>6, Zenon DEF KeysAndValues
    <3> HIDE DEF g, more
    <3> QED
      BY <1>1, <1>3, <3>1, <3>4, <3>7, Zenon DEF Suspended, n, keys
  <2> QED
    BY <2>2, <2>3, <2>4
<1> QED
  BY <1>2, <1>3, Kinds

\* The place behind v, the value the last of m calls waits for.
IsNext(next, calls, m, v) == next = Reached(calls, m) + Len(Encode[v]) + 1

\* A call that waits goes on with the value it waits for.
LEMMA ResumeStep ==
  ASSUME NEW text, NEW root, Whole(text, root), NEW frames, NEW calls,
         Reading(text, root, frames, calls), frames # <<>>, More(calls, Len(frames)),
         NEW v, IsUpcoming(v, root, calls, Len(frames)),
         NEW next, IsNext(next, calls, Len(frames), v),
         NEW more, IsReplaced(calls, Len(frames), OneMore(calls[Len(frames)]), more),
         NEW on, IsReplaced(frames, Len(frames), Resume(frames[Len(frames)], v, next), on)
  PROVE  Reading(text, root, on, more) /\ Reached(more, Len(frames)) + 1 = next
<1> DEFINE m == Len(frames)
           call == OneMore(calls[m])
           g == Resume(frames[m], v, next)
           u == calls[m].node
           o == calls[m].begin
           c == calls[m].count
<1>1. m \in Nat \ {0} /\ IsSeq(frames) /\ IsSeq(calls) /\ Len(calls) = m /\ m \in 1 .. m
  BY SeqLen DEF Reading
<1>2. IsReplaced(frames, m, g, on) /\ IsReplaced(calls, m, call, more)
  OBVIOUS
<1> HIDE DEF g
<1>3. /\ IsSeq(on) /\ IsSeq(more) /\ Len(on) = m /\ Len(more) = m
      /\ \A i \in 1 .. m : i # m => on[i] = frames[i] /\ more[i] = calls[i]
      /\ on[m] = g /\ more[m] = call
  BY <1>1, <1>2 DEF IsReplaced
<1>4. Called(text, root, calls, m) /\ Suspended(frames[m], u, o, c)
  BY <1>1 DEF Reading
<1>5. /\ u \in Values /\ Container(u) /\ c \in 0 .. Len(Items(u)) /\ At(text, o, u) /\ c < Len(Items(u))
  BY <1>1, <1>4 DEF Called, More
<1>6. /\ v = Items(u)[c + 1] /\ Reached(calls, m) = o + Offsets(u)[c]
      /\ next = Reached(calls, m) + Len(Encode[v]) + 1
  BY <1>1 DEF IsUpcoming, Upcoming, Reached, IsNext
<1>7. call = [node |-> u, begin |-> o, count |-> c + 1]
  BY DEF OneMore
<1> HIDE DEF call, u, o, c
<1>8. /\ c + 1 \in 1 .. Len(Items(u)) /\ Offsets(u)[c] \in Nat /\ o \in Nat
      /\ Offsets(u)[c + 1] = Offsets(u)[c] + Len(Encode[v]) /\ v \in Values
  <2>1. o \in Nat
    BY <1>5 DEF At
  <2>2. /\ Offsets(u)[c] \in Nat /\ c + 1 \in 1 .. Len(Items(u)) /\ Items(u)[c + 1] \in Values
        /\ Offsets(u)[c + 1] = Offsets(u)[c] + Len(Encode[Items(u)[c + 1]])
    BY <1>5, ItemAt, Zenon
  <2> QED
    BY <1>6, <2>1, <2>2
<1>9. next = o + Offsets(u)[c + 1] + 1 /\ Offsets(u)[c + 1] \in Nat
  <2> DEFINE a == Offsets(u)[c]
             b == Offsets(u)[c + 1]
             n == Len(Encode[v])
  <2>1. a \in Nat /\ o \in Nat /\ n \in Nat /\ b = a + n /\ next = (o + a) + n + 1
    BY <1>6, <1>8, FirstOfText
  <2> HIDE DEF a, b, n
  <2>2. next = o + b + 1 /\ b \in Nat
    BY <2>1
  <2> QED
    BY <2>2 DEF b
<1>10. Suspended(g, u, o, c + 1)
  <2>1. g = Resume(frames[m], Items(u)[c + 1], o + Offsets(u)[c + 1] + 1)
    BY <1>6, <1>9 DEF g
  <2> QED
    BY <1>4, <1>5, <1>8, <2>1, SuspendedNext, Zenon
<1>11. ASSUME NEW i \in 1 .. m
       PROVE  Called(text, root, more, i) /\ Suspended(on[i], more[i].node, more[i].begin, more[i].count)
  <2>1. /\ Called(text, root, calls, i)
        /\ Suspended(frames[i], calls[i].node, calls[i].begin, calls[i].count)
    BY DEF Reading
  <2>2. i \in Nat \ {0} /\ (i # 1 => more[i - 1] = calls[i - 1])
    BY <1>1, <1>3
  <2>3. CASE i # m
    BY <1>3, <2>1, <2>2, <2>3, CalledSame
  <2>4. CASE i = m
    <3>1. /\ more[i].node = calls[i].node /\ more[i].begin = calls[i].begin /\ more[i].count = c + 1
          /\ more[i] = [node |-> more[i].node, begin |-> more[i].begin, count |-> more[i].count]
      BY <1>3, <1>7, <2>4 DEF u, o
    <3>2. Called(text, root, more, i)
      <4>1. More(more, i - 1) <=> More(calls, i - 1)
        BY <2>2 DEF More
      <4>2. Upcoming(root, more, i - 1) = Upcoming(root, calls, i - 1) /\ Reached(more, i - 1) = Reached(calls, i - 1)
        BY <2>2 DEF Upcoming, Reached
      <4>3. more[i].count \in 0 .. Len(Items(more[i].node))
        <5>1. c + 1 \in 0 .. Len(Items(u))
          BY <1>8
        <5> QED BY <2>4, <3>1, <5>1 DEF u
      <4> QED BY <2>1, <3>1, <4>1, <4>2, <4>3 DEF Called
    <3>3. Suspended(on[i], more[i].node, more[i].begin, more[i].count)
      BY <1>3, <1>7, <1>10, <2>4
    <3> QED BY <3>2, <3>3
  <2> QED
    BY <2>3, <2>4
<1>12. Reading(text, root, on, more)
  BY <1>3, <1>11 DEF Reading
<1>13. Reached(more, m) + 1 = next
  BY <1>1, <1>3, <1>7, <1>9 DEF Reached
<1> QED
  BY <1>12, <1>13

\* HasKeyInfo obeys its recursive definition.
LEMMA HasKeyInfoIs ==
  ASSUME NEW v \in Values
  PROVE  HasKeyInfo[v] <=>
           /\ Container(v)
           /\ \/ v.kind = "map" /\ Info \in DOMAIN v.val
              \/ \E k \in 1 .. Len(Items(v)) : HasKeyInfo[Items(v)[k]]
<1> DEFINE Here(u) == u.kind = "map" /\ Info \in DOMAIN u.val
           Some(s) == \E k \in 1 .. Len(s) : s[k]
           B == [u \in Values |-> [s \in Seq(BOOLEAN) |-> Container(u) /\ (Here(u) \/ Some(s))]]
           Body(g, u) == /\ Container(u)
                         /\ \/ u.kind = "map" /\ Info \in DOMAIN u.val
                            \/ \E k \in 1 .. Len(Items(u)) : g[Items(u)[k]]
           Is(g) == g = [u \in Values |-> Body(g, u)]
<1>1. \A u \in Values : B[u] \in [Seq(BOOLEAN) -> BOOLEAN]
  OBVIOUS
<1>2. ASSUME NEW u \in Values, NEW s \in Seq(BOOLEAN)
      PROVE  B[u][s] = (Container(u) /\ (Here(u) \/ Some(s)))
  OBVIOUS
<1> HIDE DEF B
<1>3. ASSUME NEW g \in [Values -> BOOLEAN], NEW u \in Values, g[u] = B[u][Results(g, Children[u])]
      PROVE  g[u] = Body(g, u)
  <2>1. Children[u] \in Seq(Values)
    BY ValuesAreTrees DEF Trees
  <2> DEFINE s == Results(g, Children[u])
  <2>2. s \in Seq(BOOLEAN)
    BY <2>1 DEF Results
  <2>3. g[u] = (Container(u) /\ (Here(u) \/ Some(s)))
    BY <1>2, <1>3, <2>2
  <2>4. CASE Container(u)
    <3>1. Children[u] = Items(u)
      BY <2>4, Kinds DEF Children
    <3>2. Len(Items(u)) \in Nat
      BY <2>4, ItemsType
    <3>3. s = [k \in 1 .. Len(Items(u)) |-> g[Items(u)[k]]]
      BY <3>1, Zenon DEF Results
    <3>4. Len(s) = Len(Items(u)) /\ \A k \in 1 .. Len(Items(u)) : s[k] = g[Items(u)[k]]
      BY <3>2, <3>3
    <3>5. Some(s) <=> \E k \in 1 .. Len(Items(u)) : g[Items(u)[k]]
      BY <3>4, Zenon
    <3> HIDE DEF s, Some
    <3> QED
      BY <2>3, <3>5
  <2>5. CASE ~Container(u)
    BY <2>3, <2>5
  <2> QED
    BY <2>4, <2>5
<1>4. \E g : Is(g)
  <2>1. PICK g \in [Values -> BOOLEAN] : Recursive(g, Values, Children, B)
    BY <1>1, ValuesAreTrees, TreeRecursion, Zenon
  <2>2. ASSUME NEW u \in Values
        PROVE  g[u] = Body(g, u)
    <3>1. g[u] = B[u][Results(g, Children[u])]
      BY <2>1, Zenon DEF Recursive
    <3> HIDE DEF Body
    <3> QED
      BY <1>3, <3>1, Zenon
  <2> HIDE DEF Body
  <2>3. g = [u \in Values |-> g[u]]
    OBVIOUS
  <2> QED
    BY <2>2, <2>3
<1>5. Is(HasKeyInfo)
  <2>1. HasKeyInfo = CHOOSE g : Is(g)
    BY Zenon DEF HasKeyInfo
  <2> HIDE DEF Is
  <2> QED
    BY <1>4, <2>1, Zenon
<1>6. HasKeyInfo[v] = Body(HasKeyInfo, v)
  <2> HIDE DEF Body
  <2> QED BY <1>5, Zenon
<1> QED
  BY <1>6, Zenon

-----------------------------------------------------------------------------
(* The range *)

\* The q-th key of the torrent is info, and none comes behind its value.
LastInfo(root, q) ==
  LET keys == Sorted[DOMAIN root.val]
  IN /\ q \in 1 .. Len(keys) /\ keys[q] = Info
     /\ \A k \in q + 1 .. Len(keys) : ~HasKeyInfo[root.val[keys[k]]]

\* The range is that of the value of the q-th key.
RangeOfInfo(root, q, start, finish) ==
  start = Offsets(root)[2 * q - 1] + 1 /\ finish = Offsets(root)[2 * q]

\* Once that value has been read, no call is within one that has the key info, and the
\* range is that of the value.
Ranged(root, m, calls, start, finish) ==
  \A q : LastInfo(root, q) /\ m # 0 /\ calls[1].count >= 2 * q =>
    /\ RangeOfInfo(root, q, start, finish)
    /\ \A i \in 2 .. m : ~HasKeyInfo[calls[i].node]

\* What has no key info has no item that has.
LEMMA NoneWithin ==
  ASSUME NEW v \in Values, Container(v), ~HasKeyInfo[v], NEW c \in 0 .. Len(Items(v)),
         c < Len(Items(v))
  PROVE  ~HasKeyInfo[Items(v)[c + 1]]
<1>1. c + 1 \in 1 .. Len(Items(v))
  BY ItemsType
<1> QED
  BY <1>1, HasKeyInfoIs

\* Nor has what is behind the last key info of the torrent.
LEMMA NoneBehind ==
  ASSUME NEW root \in Values, root.kind = "map", NEW q, LastInfo(root, q),
         NEW c \in 0 .. Len(Items(root)), c < Len(Items(root)), c >= 2 * q,
         Container(Items(root)[c + 1])
  PROVE  ~HasKeyInfo[Items(root)[c + 1]]
<1> DEFINE keys == Sorted[DOMAIN root.val]
           n == Len(keys)
<1>1. /\ n \in Nat /\ Len(Items(root)) = 2 * n
      /\ \A k \in 1 .. n :
           Items(root)[2 * k - 1] = StringValue(keys[k]) /\ Items(root)[2 * k] = root.val[keys[k]]
  BY Kinds, SortedKeys, ItemsOfMap
<1>2. q \in 1 .. n /\ \A k \in q + 1 .. n : ~HasKeyInfo[root.val[keys[k]]]
  BY DEF LastInfo
<1>3. Items(root)[c + 1] \in Values
  <2>1. c + 1 \in 1 .. Len(Items(root))
    BY <1>1
  <2> QED
    BY <2>1, ItemsType, Kinds
<1> HIDE DEF n, keys
<1>4. PICK k \in 1 .. n : c + 1 = 2 * k - 1 \/ (c + 1 = 2 * k /\ k \in q + 1 .. n)
  <2>1. c \in Nat /\ c < 2 * n /\ c >= 2 * q
    BY <1>1
  <2>2. CASE c % 2 = 0
    <3>1. (c \div 2) + 1 \in 1 .. n /\ c + 1 = 2 * ((c \div 2) + 1) - 1
      BY <1>1, <2>1, <2>2
    <3> QED BY <3>1
  <2>3. CASE c % 2 # 0
    <3> DEFINE h == (c + 1) \div 2
    <3>1. h \in Nat /\ c + 1 = 2 * h
      BY <2>1, <2>3
    <3>2. q \in Nat /\ q >= 1
      BY <1>1, <1>2
    <3> HIDE DEF h
    <3>3. h \in 1 .. n /\ h \in q + 1 .. n
      BY <1>1, <2>1, <3>1, <3>2
    <3> QED BY <3>1, <3>3
  <2> QED BY <2>2, <2>3
<1>5. c + 1 # 2 * k - 1
  <2>1. ASSUME c + 1 = 2 * k - 1
        PROVE  FALSE
    <3>1. Items(root)[c + 1] = StringValue(keys[k])
      BY <1>1, <2>1
    <3> QED
      BY <1>3, <3>1, Kinds DEF StringValue
  <2> QED
    BY <2>1
<1>6. c + 1 = 2 * k /\ k \in q + 1 .. n
  BY <1>4, <1>5, Zenon
<1>7. Items(root)[c + 1] = root.val[keys[k]] /\ ~HasKeyInfo[root.val[keys[k]]]
  BY <1>1, <1>2, <1>6, Zenon
<1> QED
  BY <1>7, Zenon

\* The first call is that for the whole text.
LEMMA FirstIsRoot ==
  ASSUME NEW text, NEW root, Whole(text, root), NEW frames, NEW calls,
         Reading(text, root, frames, calls), Len(frames) # 0
  PROVE  /\ calls[1].node = root /\ calls[1].begin = 0 /\ Container(root)
         /\ calls[1].count \in 0 .. Len(Items(root))
<1>1. 1 \in 1 .. Len(frames)
  BY SeqLen DEF Reading
<1>2. Called(text, root, calls, 1)
  BY <1>1 DEF Reading
<1> QED
  BY <1>2 DEF Called, Upcoming, Reached

\* The place of a key is a positive number.
LEMMA LastInfoIs ==
  ASSUME NEW root \in Values, root.kind = "map", NEW q, LastInfo(root, q)
  PROVE  q \in Nat \ {0} /\ 2 * q \in Nat /\ 2 * q > 0
<1>1. Len(Sorted[DOMAIN root.val]) \in Nat
  BY Kinds, SortedKeys
<1> QED
  BY <1>1 DEF LastInfo

\* A call of Parser keeps the range: it is not within a value that has the key info.
LEMMA RangedPush ==
  ASSUME NEW text, NEW root, Whole(text, root), root.kind = "map", NEW frames, NEW calls,
         Reading(text, root, frames, calls), More(calls, Len(frames)),
         NEW start, NEW finish, Ranged(root, Len(frames), calls, start, finish),
         NEW v, v = Upcoming(root, calls, Len(frames)), Container(v), NEW o
  PROVE  Ranged(root, Len(frames) + 1, Append(calls, NewCall(v, o)), start, finish)
<1> DEFINE m == Len(frames)
           call == NewCall(v, o)
           cs == Append(calls, call)
<1>1. m \in Nat /\ IsSeq(calls) /\ Len(calls) = m
  BY SeqLen DEF Reading
<1>2. IsPushed(calls, call, cs)
  BY <1>1, Pushed
<1>3. call.node = v /\ call.count = 0
  BY DEF NewCall
<1> HIDE DEF cs, call
<1>4. (\A i \in 1 .. m : cs[i] = calls[i]) /\ cs[m + 1] = call
  BY <1>1, <1>2 DEF IsPushed
<1>5. SUFFICES ASSUME NEW q, LastInfo(root, q), cs[1].count >= 2 * q
               PROVE  /\ RangeOfInfo(root, q, start, finish)
                      /\ \A i \in 2 .. m + 1 : ~HasKeyInfo[cs[i].node]
  BY DEF Ranged, m, cs, call
<1>6. 2 * q > 0 /\ 2 * q \in Nat
  <2>1. root \in Values
    BY DEF Whole
  <2> QED
    BY <1>5, <2>1, LastInfoIs, Zenon
<1>7. m # 0
  BY <1>3, <1>4, <1>5, <1>6
<1>8. 1 \in 1 .. m /\ cs[1] = calls[1]
  BY <1>1, <1>4, <1>7
<1>9. RangeOfInfo(root, q, start, finish) /\ \A i \in 2 .. m : ~HasKeyInfo[calls[i].node]
  BY <1>5, <1>7, <1>8, Zenon DEF Ranged, m
<1>10. ~HasKeyInfo[v]
  <2> DEFINE u == calls[m].node
             c == calls[m].count
  <2>1. Called(text, root, calls, m)
    BY <1>1, <1>7 DEF Reading
  <2>2. u \in Values /\ Container(u) /\ c \in 0 .. Len(Items(u)) /\ c < Len(Items(u)) /\ v = Items(u)[c + 1]
    BY <1>7, <2>1 DEF Called, More, Upcoming
  <2>3. CASE m = 1
    <3>1. u = root /\ c >= 2 * q
      <4>1. calls[1].node = root
        BY <1>7, FirstIsRoot
      <4>2. calls[1].count >= 2 * q
        BY <1>5, <1>8, Zenon
      <4> QED BY <2>3, <4>1, <4>2, Zenon
    <3> HIDE DEF u, c
    <3> QED
      BY <1>5, <2>2, <3>1, NoneBehind, Zenon DEF Whole
  <2>4. CASE m # 1
    <3>1. ~HasKeyInfo[u]
      <4>1. m \in 2 .. m
        BY <1>1, <1>7, <2>4
      <4> QED BY <1>9, <4>1
    <3> HIDE DEF u, c
    <3> QED
      BY <2>2, <3>1, NoneWithin, Zenon
  <2> QED
    BY <2>3, <2>4
<1>11. ASSUME NEW i \in 2 .. m + 1
       PROVE  ~HasKeyInfo[cs[i].node]
  <2>1. CASE i = m + 1
    BY <1>3, <1>4, <1>10, <2>1
  <2>2. CASE i # m + 1
    <3>1. i \in 2 .. m /\ i \in 1 .. m
      BY <1>1, <2>2
    <3> QED BY <1>4, <1>9, <3>1
  <2> QED BY <2>1, <2>2
<1> QED
  BY <1>9, <1>11

\* So does a return from a call.
LEMMA RangedPop ==
  ASSUME NEW root, NEW calls, IsSeq(calls), calls # <<>>,
         NEW start, NEW finish, Ranged(root, Len(calls), calls, start, finish)
  PROVE  Ranged(root, Len(calls) - 1, Front(calls), start, finish)
<1> DEFINE m == Len(calls)
           cs == Front(calls)
<1>1. m \in Nat \ {0} /\ IsPopped(calls, cs)
  BY SeqLen, Popped
<1> HIDE DEF cs
<1>2. Len(cs) = m - 1 /\ \A i \in 1 .. m - 1 : cs[i] = calls[i]
  BY <1>1 DEF IsPopped
<1>3. SUFFICES ASSUME NEW q, LastInfo(root, q), m - 1 # 0, cs[1].count >= 2 * q
               PROVE  /\ RangeOfInfo(root, q, start, finish)
                      /\ \A i \in 2 .. m - 1 : ~HasKeyInfo[cs[i].node]
  BY DEF Ranged, m, cs
<1>4. 1 \in 1 .. m - 1
  <2>1. m \in Nat \ {0} /\ m - 1 # 0
    BY <1>1, <1>3
  <2> HIDE DEF m
  <2> QED BY <2>1
<1>5. RangeOfInfo(root, q, start, finish) /\ \A i \in 2 .. m : ~HasKeyInfo[calls[i].node]
  BY <1>1, <1>2, <1>3, <1>4, Zenon DEF Ranged, m
<1>6. ASSUME NEW i \in 2 .. m - 1
      PROVE  i \in 2 .. m /\ i \in 1 .. m - 1
  BY <1>1
<1> QED
  BY <1>2, <1>5, <1>6

\* A waiting loop sets the range as the code does.
SetRange(f, next, old_start, old_finish, start, finish) ==
  IF f.awaits = "value" /\ f.key = Info
  THEN start = f.info_position /\ finish = next - 1
  ELSE start = old_start /\ finish = old_finish

\* The range is set at the value of info, and behind it never again.
LEMMA RangedResume ==
  ASSUME NEW text, NEW root, Whole(text, root), root.kind = "map", NEW frames, NEW calls,
         Reading(text, root, frames, calls), frames # <<>>, More(calls, Len(frames)),
         NEW old_start, NEW old_finish, Ranged(root, Len(frames), calls, old_start, old_finish),
         NEW next, next = Reached(calls, Len(frames)) + Len(Encode[Upcoming(root, calls, Len(frames))]) + 1,
         NEW start, NEW finish,
         SetRange(frames[Len(frames)], next, old_start, old_finish, start, finish)
  PROVE  LET m == Len(frames)
             more == [calls EXCEPT ![m] = OneMore(calls[m])]
         IN Ranged(root, m, more, start, finish)
<1> DEFINE m == Len(frames)
           call == OneMore(calls[m])
           cs == [calls EXCEPT ![m] = call]
           f == frames[m]
           u == calls[m].node
           o == calls[m].begin
           c == calls[m].count
<1>1. m \in Nat \ {0} /\ IsSeq(calls) /\ Len(calls) = m /\ m \in 1 .. m
  BY SeqLen DEF Reading
<1>2. IsReplaced(calls, m, call, cs)
  BY <1>1, Replaced, Zenon
<1>3. call.node = u /\ call.count = c + 1
  BY DEF OneMore
<1> HIDE DEF call, cs
<1>4. cs[m] = call /\ \A i \in 1 .. m : i # m => cs[i] = calls[i]
  BY <1>1, <1>2 DEF IsReplaced
<1>5. Called(text, root, calls, m) /\ Suspended(f, u, o, c)
  BY <1>1 DEF Reading
<1>6. /\ u \in Values /\ Container(u) /\ c \in 0 .. Len(Items(u)) /\ c < Len(Items(u))
      /\ At(text, o, u)
  BY <1>1, <1>5 DEF Called, More
<1>7. SUFFICES ASSUME NEW q, LastInfo(root, q), cs[1].count >= 2 * q
               PROVE  /\ RangeOfInfo(root, q, start, finish)
                      /\ \A i \in 2 .. m : ~HasKeyInfo[cs[i].node]
  BY DEF Ranged, m, cs, call
<1>8. q \in Nat \ {0} /\ 2 * q \in Nat /\ 2 * q > 0
  <2>1. root \in Values
    BY DEF Whole
  <2> QED
    BY <1>7, <2>1, LastInfoIs, Zenon
<1>9. \A i \in 2 .. m : cs[i].node = calls[i].node
  BY <1>1, <1>3, <1>4
<1>10. root \in Values /\ calls[1].node = root /\ calls[1].begin = 0
  BY <1>1, FirstIsRoot DEF Whole
\* Outside the value of info nothing sets the range.
<1>11. ASSUME calls[1].count >= 2 * q, ~(f.awaits = "value" /\ f.key = Info)
       PROVE  /\ RangeOfInfo(root, q, start, finish)
              /\ \A i \in 2 .. m : ~HasKeyInfo[cs[i].node]
  <2>1. start = old_start /\ finish = old_finish
    BY <1>11 DEF SetRange
  <2>2. RangeOfInfo(root, q, old_start, old_finish) /\ \A i \in 2 .. m : ~HasKeyInfo[calls[i].node]
    BY <1>1, <1>7, <1>11, Zenon DEF Ranged
  <2> QED
    BY <1>9, <2>1, <2>2
<1> DEFINE keys == Sorted[DOMAIN u.val]
           n == Len(keys)
\* A loop that awaits the value of info has read less of its dictionary than that.
<1>12. ASSUME f.awaits = "value", f.key = Info
       PROVE  /\ u.kind = "map" /\ Info \in DOMAIN u.val
              /\ \E p \in 1 .. n : /\ keys[p] = Info /\ c + 1 = 2 * p
                                   /\ f.info_position = o + Offsets(u)[2 * p - 1] + 1
  <2>1. u.kind = "map"
    <3>1. u.kind # "vector"
      BY <1>5, <1>12 DEF Suspended
    <3> QED
      BY <1>6, <3>1, Kinds
  <2>2. PICK p \in 0 .. n : KeysAndValues(f, u, o, c, p)
    BY <1>5, <2>1 DEF Suspended
  <2>3. c = 2 * p + 1 /\ p < n /\ f.key = keys[p + 1] /\ f.info_position = o + Offsets(u)[c] + 1
    BY <1>12, <2>2 DEF KeysAndValues
  <2>4. n \in Nat /\ \A k \in 1 .. n : keys[k] \in DOMAIN u.val
    BY <1>6, <2>1, Kinds, SortedKeys
  <2> HIDE DEF n, keys, f, u, o, c
  <2>5. p + 1 \in 1 .. n /\ c + 1 = 2 * (p + 1) /\ c = 2 * (p + 1) - 1
    BY <2>2, <2>3, <2>4
  <2>6. keys[p + 1] = Info
    BY <1>12, <2>3
  <2>7. Info \in DOMAIN u.val
    BY <2>4, <2>5, <2>6
  <2>8. f.info_position = o + Offsets(u)[2 * (p + 1) - 1] + 1
    BY <2>3, <2>5
  <2> QED
    BY <2>1, <2>5, <2>6, <2>7, <2>8
<1>13. CASE m = 1
  <2>1. u = root /\ o = 0 /\ cs[1].count = c + 1
    BY <1>3, <1>4, <1>10, <1>13
  <2>2. /\ n \in Nat /\ q \in 1 .. n /\ keys[q] = Info
        /\ \A j, k \in 1 .. n : keys[j] = keys[k] => j = k
    BY <1>7, <1>10, <2>1, Kinds, SortedKeys DEF LastInfo
  <2>3. c \in Nat /\ c + 1 >= 2 * q
    BY <1>6, <1>7, <2>1
  <2>4. CASE f.awaits = "value" /\ f.key = Info
    <3>1. PICK p \in 1 .. n : /\ keys[p] = Info /\ c + 1 = 2 * p
                              /\ f.info_position = o + Offsets(u)[2 * p - 1] + 1
      BY <1>12, <2>4
    <3>2. p = q
      BY <2>2, <3>1
    <3>3. c + 1 = 2 * q /\ f.info_position = Offsets(root)[2 * q - 1] + 1
      <4>1. 2 * q - 1 = c
        BY <1>8, <2>3, <3>1, <3>2
      <4>2. Offsets(u)[c] \in Nat
        BY <1>6, ItemAt, Zenon
      <4> HIDE DEF u, c, o, f, n, keys
      <4>3. f.info_position = o + Offsets(u)[c] + 1
        BY <3>1, <3>2, <4>1
      <4>4. o + Offsets(u)[c] + 1 = Offsets(u)[c] + 1
        BY <2>1, <4>2
      <4> QED
        BY <2>1, <3>1, <3>2, <4>1, <4>3, <4>4
    <3>4. next - 1 = Offsets(root)[2 * q]
      <4> DEFINE w == Items(u)[c + 1]
                 len == Len(Encode[w])
                 a == Offsets(u)[c]
                 b == Offsets(u)[c + 1]
      <4>1. w = Upcoming(root, calls, Len(frames)) /\ Reached(calls, Len(frames)) = o + a
        BY <1>1 DEF Upcoming, Reached
      <4> HIDE DEF u, c, o
      <4>2. a \in Nat /\ w \in Values /\ b = a + len
        BY <1>6, ItemAt, Zenon
      <4>3. len \in Nat
        BY <4>2, FirstOfText
      <4>4. next = o + a + len + 1
        BY <4>1
      <4> HIDE DEF w, a, b, len
      <4>5. next - 1 = b
        BY <2>1, <4>2, <4>3, <4>4
      <4> QED
        BY <2>1, <3>3, <4>5 DEF b
    <3>5. RangeOfInfo(root, q, start, finish)
      BY <2>4, <3>3, <3>4 DEF RangeOfInfo, SetRange
    <3> QED
      BY <1>13, <3>5
  <2>5. CASE ~(f.awaits = "value" /\ f.key = Info)
    <3>1. c >= 2 * q
      <4>1. ASSUME c + 1 = 2 * q
            PROVE  f.awaits = "value" /\ f.key = Info
        <5>1. root.kind = "map"
          OBVIOUS
        <5>2. PICK p \in 0 .. n : KeysAndValues(f, u, o, c, p)
          BY <1>5, <2>1, <5>1 DEF Suspended
        <5>3. c = 2 * p \/ (c = 2 * p + 1 /\ f.awaits = "value" /\ f.key = keys[p + 1])
          BY <5>2 DEF KeysAndValues
        <5> HIDE DEF n, c, f, keys
        <5>4. c # 2 * p /\ (c = 2 * p + 1 => p + 1 = q)
          BY <2>2, <2>3, <4>1, <5>2
        <5> QED
          BY <2>2, <5>3, <5>4
      <4> HIDE DEF c
      <4>2. c + 1 # 2 * q
        BY <2>5, <4>1
      <4> QED
        BY <1>8, <2>3, <4>2
    <3> QED
      BY <1>11, <1>13, <2>1, <2>5, <3>1
  <2> QED
    BY <2>4, <2>5
<1>14. CASE m # 1
  <2>1. cs[1] = calls[1]
    BY <1>1, <1>4, <1>14
  <2>2. calls[1].count >= 2 * q
    BY <1>7, <2>1
  <2>3. ~HasKeyInfo[u]
    <3>1. m \in 2 .. m
      BY <1>1, <1>14
    <3> QED
      BY <1>1, <1>7, <2>2, <3>1, Zenon DEF Ranged
  <2>4. ~(f.awaits = "value" /\ f.key = Info)
    <3> HIDE DEF f, u, n, keys, c, o
    <3> QED
      BY <1>6, <1>12, <2>3, HasKeyInfoIs
  <2> QED
    BY <1>11, <2>2, <2>4
<1> QED
  BY <1>13, <1>14 DEF cs, call, m

-----------------------------------------------------------------------------
(* What the calls return *)

\* Find, from the place it finds.
LEMMA FindIs ==
  ASSUME NEW text, NEW mark, NEW from \in Nat, NEW k \in from .. Len(text), Len(text) \in Nat,
         text[k] = mark, \A j \in from .. k - 1 : text[j] # mark
  PROVE  Find(text, mark, from) = k
<1> DEFINE P(i) == text[i] = mark /\ \A j \in from .. i - 1 : text[j] # mark
<1>1. P(k)
  OBVIOUS
<1>2. ASSUME NEW i \in from .. Len(text), P(i), NEW j \in from .. Len(text), P(j), i < j
      PROVE  FALSE
  <2>1. i \in from .. j - 1
    BY <1>2
  <2> QED
    BY <1>2, <2>1
<1>3. ASSUME NEW i \in from .. Len(text), P(i)
      PROVE  i = k
  <2>1. ~(i < k) /\ ~(k < i)
    BY <1>1, <1>2, <1>3, Zenon
  <2>2. i \in Int /\ k \in Int
    OBVIOUS
  <2> QED
    BY <2>1, <2>2
<1>4. Find(text, mark, from) = CHOOSE i \in from .. Len(text) : P(i)
  BY Zenon DEF Find
<1> HIDE DEF P
<1> QED
  BY <1>1, <1>3, <1>4

\* stoll undoes Numeral.
LEMMA StollIs ==
  ASSUME NEW n \in Numbers
  PROVE  stoll(<<Numeral[n]>>) = n
<1>1. \A m \in Numbers : <<Numeral[m]>> = <<Numeral[n]>> => m = n
  BY NumeralAssumption
<1> QED
  BY <1>1 DEF stoll

\* An integer of the text: the number between its marks.
LEMMA IntRead ==
  ASSUME NEW text \in Seq(Chars), NEW o, NEW v \in Values, v.kind = "int", At(text, o, v),
         NEW p, p = o + 1
  PROVE  /\ IntValue(stoll(SubSeq(text, p + 1, Find(text, "e", p) - 1))) = v
         /\ Find(text, "e", p) + 1 = o + Len(Encode[v]) + 1
<1>1. /\ o \in Nat /\ Len(text) \in Nat /\ o + 3 <= Len(text)
      /\ text[o + 1] = "i" /\ text[o + 2] = Numeral[v.val] /\ text[o + 3] = "e"
      /\ Len(Encode[v]) = 3
  <2>1. /\ Len(Encode[v]) = 3
        /\ Encode[v][1] = "i" /\ Encode[v][2] = Numeral[v.val] /\ Encode[v][3] = "e"
    BY IntText
  <2>2. o \in Nat /\ Len(text) \in Nat /\ o + 3 <= Len(text) /\ \A j \in 1 .. 3 : text[o + j] = Encode[v][j]
    BY <2>1 DEF At
  <2> QED
    BY <2>1, <2>2
<1>2. v = IntValue(v.val) /\ v.val \in Numbers
  BY Kinds
<1>3. Numeral[v.val] # "e"
  BY <1>2, NumeralAssumption DEF Marks
<1>4. Find(text, "e", p) = o + 3
  <2>1. p \in Nat /\ o + 3 \in p .. Len(text) /\ \A j \in p .. (o + 3) - 1 : j = o + 1 \/ j = o + 2
    BY <1>1
  <2>2. \A j \in p .. (o + 3) - 1 : text[j] # "e"
    BY <1>1, <1>3, <2>1
  <2> QED
    BY <1>1, <2>1, <2>2, FindIs
<1>5. SubSeq(text, p + 1, (o + 3) - 1) = <<Numeral[v.val]>>
  <2>1. p + 1 = o + 2 /\ (o + 3) - 1 = o + 2 /\ o + 2 \in 1 .. Len(text)
    BY <1>1
  <2> DEFINE k == o + 2
  <2> HIDE DEF k
  <2>2. SubSeq(text, k, k) = <<text[k]>>
    BY <2>1, OneChar DEF k
  <2> QED
    BY <1>1, <2>1, <2>2 DEF k
<1> QED
  BY <1>1, <1>2, <1>4, <1>5, StollIs

\* A string of the text: as many characters behind the colon as the number before it says.
LEMMA StringRead ==
  ASSUME NEW text \in Seq(Chars), NEW o, NEW v \in Values, v.kind = "string", At(text, o, v),
         NEW p, p = o + 1,
         NEW colon, colon = Find(text, ":", p),
         NEW size, size = stoll(SubSeq(text, p, colon - 1))
  PROVE  /\ StringValue(SubSeq(text, colon + 1, colon + size)) = v
         /\ colon + size + 1 = o + Len(Encode[v]) + 1
<1> DEFINE n == Len(v.val)
           s == v.val
<1>1. /\ s \in Seq(Chars) /\ n \in Nat /\ n \in Numbers /\ Len(Encode[v]) = 2 + n
      /\ Encode[v][1] = Numeral[n] /\ Encode[v][2] = ":"
      /\ \A j \in 1 .. n : Encode[v][2 + j] = s[j]
  BY StringText
<1>2. o \in Nat /\ Len(text) \in Nat /\ o + (2 + n) <= Len(text) /\ \A j \in 1 .. 2 + n : text[o + j] = Encode[v][j]
  BY <1>1 DEF At
<1> HIDE DEF n
<1>3. text[o + 1] = Numeral[n] /\ text[o + 2] = ":" /\ Numeral[n] # ":"
  <2>1. 1 \in 1 .. 2 + n /\ 2 \in 1 .. 2 + n
    BY <1>1
  <2>2. Numeral[n] # ":"
    BY <1>1, NumeralAssumption DEF Marks
  <2> QED
    BY <1>1, <1>2, <2>1, <2>2
<1>4. o \in Nat /\ n \in Nat /\ Len(text) \in Nat /\ o + (2 + n) <= Len(text)
  BY <1>1, <1>2
<1>5. colon = o + 2
  <2>1. p \in Nat /\ o + 2 \in p .. Len(text) /\ \A j \in p .. (o + 2) - 1 : j = o + 1
    BY <1>4
  <2>2. \A j \in p .. (o + 2) - 1 : text[j] # ":"
    BY <1>3, <2>1
  <2> QED
    BY <1>3, <1>4, <2>1, <2>2, FindIs
<1>6. size = n
  <2>1. p = o + 1 /\ colon - 1 = o + 1 /\ o + 1 \in 1 .. Len(text)
    BY <1>4, <1>5
  <2> DEFINE k == o + 1
  <2> HIDE DEF k
  <2>2. SubSeq(text, k, k) = <<text[k]>>
    BY <2>1, OneChar DEF k
  <2> QED
    BY <1>1, <1>3, <2>1, <2>2, StollIs DEF k
<1>7. SubSeq(text, colon + 1, colon + size) = s
  <2> DEFINE a == o + 2
             t == SubSeq(text, a + 1, a + n)
  <2>1. a \in Nat /\ a + n <= Len(text)
    BY <1>4
  <2>2. \A j \in 1 .. n : text[a + j] = s[j]
    <3>1. ASSUME NEW j \in 1 .. n
          PROVE  2 + j \in 1 .. 2 + n /\ o + (2 + j) = (o + 2) + j
      BY <1>4
    <3> HIDE DEF s
    <3> QED
      BY <1>1, <1>2, <3>1
  <2> HIDE DEF a
  <2>3. t = s
    <3> HIDE DEF s
    <3>1. Len(s) = n
      BY DEF n, s
    <3> QED BY <1>1, <2>1, <2>2, <3>1, PartIs DEF t
  <2> QED
    BY <1>5, <1>6, <2>3 DEF t, a
<1>8. colon + size + 1 = o + Len(Encode[v]) + 1
  BY <1>1, <1>4, <1>5, <1>6
<1> QED
  BY <1>7, <1>8, Kinds

-----------------------------------------------------------------------------
(* The invariant of the parser *)

\* The calls that wait have read a part of the torrent, up to the position.
Progress(calls) ==
  /\ Reading(content, torrent, stack, calls)
  /\ position = Reached(calls, Len(stack)) + 1
  /\ Ranged(torrent, Len(stack), calls, start_hash, finish_hash)

\* The range when all is read.
RangeRead == \A q : LastInfo(torrent, q) => RangeOfInfo(torrent, q, start_hash, finish_hash)

\* The inductive invariant of the parser.
ParserInv ==
  /\ torrent \in Torrents /\ content = Encode[torrent]
  /\ \/ parsed = NotParsed /\ \E calls : Progress(calls)
     \/ parsed = torrent /\ position = Len(content) + 1 /\ RangeRead

\* What is read is a dictionary, all of it.
LEMMA TheTorrent ==
  ASSUME ParserInv
  PROVE  /\ torrent \in Values /\ torrent.kind = "map" /\ torrent # NotParsed /\ Container(torrent)
         /\ content \in Seq(Chars) /\ Len(content) \in Nat \ {0}
         /\ Whole(content, torrent)
<1>1. torrent \in Values /\ torrent.kind = "map" /\ content = Encode[torrent]
  BY ValuesAssumption DEF ParserInv
<1>2. content \in Seq(Chars) /\ Len(content) \in Nat \ {0}
  BY <1>1, FirstOfText
<1>3. Whole(content, torrent)
  <2>1. 0 + Len(content) <= Len(content) /\ \A j \in 1 .. Len(content) : 0 + j = j
    BY <1>2
  <2> QED
    BY <1>1, <1>2, <2>1 DEF Whole, At
<1>4. torrent # NotParsed /\ Container(torrent)
  BY <1>1, Kinds DEF NotParsed
<1> QED
  BY <1>1, <1>2, <1>3, <1>4

\* A call returns what it was called for.
LEMMA ReturnKeeps ==
  ASSUME ParserInv, parsed = NotParsed,
         NEW frames, NEW calls, Reading(content, torrent, frames, calls), More(calls, Len(frames)),
         Ranged(torrent, Len(frames), calls, start_hash, finish_hash), frames = <<>> => RangeRead,
         NEW v, IsUpcoming(v, torrent, calls, Len(frames)),
         NEW next, IsNext(next, calls, Len(frames), v),
         Return(v, frames, next)
  PROVE  ParserInv'
<1>1. /\ torrent \in Torrents /\ content = Encode[torrent] /\ torrent' = torrent /\ content' = content
      /\ torrent \in Values /\ torrent.kind = "map" /\ Whole(content, torrent) /\ Len(content) \in Nat
  BY TheTorrent DEF ParserInv, Return
<1>2. CASE frames = <<>>
  <2>1. Len(frames) = 0
    BY <1>2
  <2>2. v = torrent /\ next = Len(content) + 1
    BY <1>1, <2>1 DEF IsUpcoming, Upcoming, IsNext, Reached
  <2>3. /\ parsed' = v /\ position' = next
        /\ start_hash' = start_hash /\ finish_hash' = finish_hash
    BY <1>2 DEF Return
  <2> QED
    BY <1>1, <1>2, <2>2, <2>3 DEF ParserInv, RangeRead
<1>3. CASE frames # <<>>
  <2> DEFINE m == Len(frames)
             f == frames[m]
             more == [calls EXCEPT ![m] = OneMore(calls[m])]
             on == [frames EXCEPT ![m] = Resume(f, v, next)]
  <2>1. Reading(content, torrent, on, more) /\ Reached(more, m) + 1 = next
    <3>1. Whole(content, torrent) /\ frames # <<>>
      BY <1>1, <1>3, Zenon
    <3>2. IsSeq(frames) /\ IsSeq(calls) /\ m \in 1 .. Len(frames) /\ m \in 1 .. Len(calls)
      BY <3>1, SeqLen DEF Reading
    <3>3. IsReplaced(calls, m, OneMore(calls[m]), more) /\ IsReplaced(frames, m, Resume(f, v, next), on)
      BY <3>2, Replaced, Zenon
    <3> HIDE DEF more, on
    <3> QED
      BY <3>1, <3>3, ResumeStep
  <2>2. /\ stack' = on /\ parsed' = parsed /\ position' = next
        /\ IF f.awaits = "value"
           THEN start_hash' = InfoRange(f, next).start /\ finish_hash' = InfoRange(f, next).finish
           ELSE start_hash' = start_hash /\ finish_hash' = finish_hash
    BY <1>3, Zenon DEF Return
  <2>3. SetRange(f, next, start_hash, finish_hash, start_hash', finish_hash')
    BY <2>2 DEF SetRange, InfoRange
  <2>4. next = Reached(calls, Len(frames)) + Len(Encode[Upcoming(torrent, calls, Len(frames))]) + 1
    BY DEF IsUpcoming, IsNext
  <2>5. Ranged(torrent, m, more, start_hash', finish_hash')
    BY <1>1, <1>3, <2>3, <2>4, RangedResume, Zenon
  <2>6. Len(on) = m
    <3>1. IsSeq(frames) /\ m \in 1 .. Len(frames)
      BY <1>3, SeqLen DEF Reading
    <3>2. IsReplaced(frames, m, Resume(f, v, next), on)
      BY <3>1, Replaced, Zenon
    <3> QED
      BY <3>2 DEF IsReplaced
  <2> HIDE DEF m, f, more, on
  <2>7. Progress(more)'
    BY <1>1, <2>1, <2>2, <2>5, <2>6 DEF Progress
  <2> QED
    BY <1>1, <2>2, <2>7 DEF ParserInv
<1> QED
  BY <1>2, <1>3

\* A loop is left where it has read all its items, and nowhere else.
LEMMA AtEndIs ==
  ASSUME ParserInv, NEW calls, Progress(calls)
  PROVE  AtEnd <=> ~More(calls, Len(stack))
<1>1. IsSeq(stack) /\ Len(stack) \in Nat /\ (stack = <<>> <=> Len(stack) = 0)
  BY SeqLen DEF Progress, Reading
<1>2. CASE stack = <<>>
  BY <1>1, <1>2 DEF AtEnd, More
<1>3. CASE stack # <<>>
  BY <1>3, TheTorrent, EndOfLoop DEF AtEnd, Progress
<1> QED
  BY <1>2, <1>3

\* What is called for where no loop ends, and the first character of it.
Begins(calls, v) ==
  /\ More(calls, Len(stack)) /\ v = Upcoming(torrent, calls, Len(stack))
  /\ v \in Values /\ At(content, Reached(calls, Len(stack)), v)
  /\ content[position] = Encode[v][1]
  /\ stack = <<>> => v.kind = "map"

\* Where no loop ends, what is upcoming begins.
LEMMA Beginning ==
  ASSUME ParserInv, ~AtEnd, NEW calls, Progress(calls)
  PROVE  Begins(calls, Upcoming(torrent, calls, Len(stack)))
<1> DEFINE m == Len(stack)
           v == Upcoming(torrent, calls, m)
           o == Reached(calls, m)
<1>1. More(calls, m)
  BY AtEndIs
<1>2. v \in Values /\ At(content, o, v)
  BY <1>1, TheTorrent, UpcomingAt DEF Progress
<1>3. stack = <<>> => v.kind = "map"
  BY TheTorrent DEF Upcoming
<1>4. position = o + 1
  BY DEF Progress
<1> HIDE DEF v, o
<1>5. content[position] = Encode[v][1]
  <2>1. 1 \in 1 .. Len(Encode[v])
    BY <1>2, FirstOfText
  <2> QED
    BY <1>2, <1>4, <2>1 DEF At
<1> QED
  BY <1>1, <1>2, <1>3, <1>5 DEF Begins, v, o

\* An integer is read as it was written.
LEMMA IntKeeps ==
  ASSUME ParserInv, ParseInt
  PROVE  ParserInv'
<1>1. parsed = NotParsed /\ ~AtEnd /\ content[position] = "i"
  BY DEF ParseInt, Current
<1>2. PICK calls : Progress(calls)
  BY <1>1, TheTorrent DEF ParserInv
<1> DEFINE m == Len(stack)
           v == Upcoming(torrent, calls, m)
           o == Reached(calls, m)
           end == Find(content, "e", position)
<1>3. Begins(calls, v)
  BY <1>1, <1>2, Beginning
<1>4. v \in Values /\ v.kind = "int" /\ At(content, o, v) /\ position = o + 1
  <2> HIDE DEF v, o
  <2>1. v \in Values /\ At(content, o, v) /\ content[position] = Encode[v][1]
    BY <1>3 DEF Begins, o
  <2>2. v.kind = "int"
    BY <1>1, <2>1, FirstOfText
  <2> QED
    BY <1>2, <2>1, <2>2 DEF Progress, o
<1>5. IntValue(stoll(SubSeq(content, position + 1, end - 1))) = v /\ end + 1 = o + Len(Encode[v]) + 1
  <2> HIDE DEF v, o
  <2>1. content \in Seq(Chars)
    BY TheTorrent
  <2> QED
    BY <1>4, <2>1, IntRead
<1>6. Return(v, stack, o + Len(Encode[v]) + 1)
  BY <1>5 DEF ParseInt
<1>7. stack # <<>>
  BY <1>3, <1>4 DEF Begins
<1>8. More(calls, m)
  BY <1>3 DEF Begins
<1>9. Reading(content, torrent, stack, calls) /\ Ranged(torrent, m, calls, start_hash, finish_hash)
  BY <1>2 DEF Progress
<1> DEFINE next == o + Len(Encode[v]) + 1
<1> QED
  BY <1>1, <1>6, <1>7, <1>8, <1>9, ReturnKeeps, Zenon DEF IsUpcoming, IsNext

\* So is a string, whatever its characters look like.
LEMMA StringKeeps ==
  ASSUME ParserInv, ParseString
  PROVE  ParserInv'
<1>1. parsed = NotParsed /\ ~AtEnd /\ content[position] \notin {"i", "l", "d"}
  BY DEF ParseString
<1>2. PICK calls : Progress(calls)
  BY <1>1, TheTorrent DEF ParserInv
<1> DEFINE m == Len(stack)
           v == Upcoming(torrent, calls, m)
           o == Reached(calls, m)
           colon == Find(content, ":", position)
           size == stoll(SubSeq(content, position, colon - 1))
<1>3. Begins(calls, v)
  BY <1>1, <1>2, Beginning
<1>4. v \in Values /\ v.kind = "string" /\ At(content, o, v) /\ position = o + 1
  <2> HIDE DEF v, o
  <2>1. v \in Values /\ At(content, o, v) /\ content[position] = Encode[v][1]
    BY <1>3 DEF Begins, o
  <2>2. v.kind = "string"
    BY <1>1, <2>1, FirstOfText, Kinds
  <2> QED
    BY <1>2, <2>1, <2>2 DEF Progress, o
<1>5. StringValue(SubSeq(content, colon + 1, colon + size)) = v /\ colon + size + 1 = o + Len(Encode[v]) + 1
  <2>1. content \in Seq(Chars)
    BY TheTorrent
  <2> HIDE DEF v, o, colon, size
  <2>2. colon = Find(content, ":", position) /\ size = stoll(SubSeq(content, position, colon - 1))
    BY DEF colon, size
  <2> QED
    BY <1>4, <2>1, <2>2, StringRead
<1>6. Return(v, stack, o + Len(Encode[v]) + 1)
  BY <1>5 DEF ParseString
<1>7. stack # <<>>
  BY <1>3, <1>4 DEF Begins
<1>8. More(calls, m)
  BY <1>3 DEF Begins
<1>9. Reading(content, torrent, stack, calls) /\ Ranged(torrent, m, calls, start_hash, finish_hash)
  BY <1>2 DEF Progress
<1> QED
  BY <1>1, <1>6, <1>7, <1>8, <1>9, ReturnKeeps, Zenon DEF IsUpcoming, IsNext

\* A list or a dictionary begins.
LEMMA CallKeeps ==
  ASSUME ParserInv, ParseVector \/ ParseMap
  PROVE  ParserInv'
<1>1. parsed = NotParsed /\ ~AtEnd /\ content[position] \in {"l", "d"}
  BY DEF ParseVector, ParseMap, Current
<1>2. PICK calls : Progress(calls)
  BY <1>1, TheTorrent DEF ParserInv
<1> DEFINE m == Len(stack)
           v == Upcoming(torrent, calls, m)
           o == Reached(calls, m)
           more == Append(calls, NewCall(v, o))
           on == Append(stack, NewFrame(v))
<1>3. Begins(calls, v)
  BY <1>1, <1>2, Beginning
<1>4. v \in Values /\ Container(v) /\ More(calls, m) /\ position = o + 1
      /\ Call(NewFrame(v))
  <2> HIDE DEF v, o
  <2>1. v \in Values /\ content[position] = Encode[v][1] /\ More(calls, m)
    BY <1>3 DEF Begins
  <2>2. CASE ParseVector
    <3>1. content[position] = "l" /\ Call(Frame("vector", <<>>, "item"))
      BY <2>2 DEF ParseVector, Current
    <3>2. v.kind = "vector"
      BY <2>1, <3>1, FirstOfText
    <3>3. NewFrame(v) = Frame("vector", <<>>, "item")
      BY <3>2, Zenon DEF NewFrame
    <3> QED
      BY <1>2, <2>1, <3>1, <3>2, <3>3, Kinds DEF Progress, o
  <2>3. CASE ParseMap
    <3>1. content[position] = "d" /\ Call(Frame("map", [key \in {} |-> key], "key"))
      BY <2>3, Zenon DEF ParseMap, Current
    <3>2. v.kind = "map" /\ v.kind # "vector"
      BY <2>1, <3>1, FirstOfText
    <3>3. NewFrame(v) = Frame("map", [key \in {} |-> key], "key")
      BY <3>2, Zenon DEF NewFrame
    <3>4. Call(NewFrame(v))
      BY <3>1, <3>3, Zenon
    <3>5. Container(v) /\ position = o + 1
      BY <1>2, <2>1, <3>2, Kinds DEF Progress, o
    <3> QED
      BY <2>1, <3>4, <3>5
  <2> QED
    BY <2>2, <2>3
<1>5. Reading(content, torrent, stack, calls) /\ Ranged(torrent, m, calls, start_hash, finish_hash)
  BY <1>2 DEF Progress
<1>6. Reading(content, torrent, on, more) /\ Reached(more, m + 1) = o + 1
  <2>1. Whole(content, torrent)
    BY TheTorrent, Zenon
  <2>2. /\ Reading(content, torrent, stack, calls) /\ More(calls, Len(stack)) /\ Container(v)
    BY <1>4, <1>5, Zenon
  <2>5. IsUpcoming(v, torrent, calls, Len(stack))
    BY DEF IsUpcoming
  <2>3. IsSeq(stack) /\ IsSeq(calls)
    BY <1>5 DEF Reading
  <2>4. IsPushed(stack, NewFrame(v), on) /\ IsPushed(calls, NewCall(v, o), more)
    BY <2>3, Pushed, Zenon
  <2> HIDE DEF v, more, on
  <2> QED
    BY <2>1, <2>2, <2>4, <2>5, PushStep
<1>7. Ranged(torrent, m + 1, more, start_hash, finish_hash)
  <2>1. Whole(content, torrent) /\ torrent.kind = "map" /\ torrent \in Values
    BY TheTorrent, Zenon
  <2> QED
    BY <1>4, <1>5, <2>1, RangedPush, Zenon
<1>8. Len(on) = m + 1
  <2>1. IsSeq(stack)
    BY <1>5 DEF Reading
  <2>2. IsPushed(stack, NewFrame(v), on)
    BY <2>1, Pushed, Zenon
  <2> QED
    BY <2>2 DEF IsPushed
<1>9. /\ stack' = on /\ position' = (o + 1) + 1 /\ parsed' = NotParsed
      /\ torrent' = torrent /\ content' = content /\ start_hash' = start_hash /\ finish_hash' = finish_hash
  BY <1>1, <1>4 DEF Call
<1>10. PICK later, frames, p : later = more /\ frames = on /\ p = o + 1 /\ TRUE
  OBVIOUS
<1>11. PICK n : n = m
  OBVIOUS
<1> HIDE DEF m, v, o, more, on
<1>12. /\ Reading(content, torrent, frames, later) /\ Reached(later, n + 1) = p
       /\ Ranged(torrent, n + 1, later, start_hash, finish_hash) /\ Len(frames) = n + 1
  BY <1>6, <1>7, <1>8, <1>10, <1>11
<1>13. stack' = frames /\ position' = p + 1
  BY <1>9, <1>10
<1>14. Progress(later)'
  BY <1>9, <1>12, <1>13 DEF Progress
<1> QED
  BY <1>9, <1>14 DEF ParserInv

\* A list or a dictionary ends, and is what was written.
LEMMA EndKeeps ==
  ASSUME ParserInv, EndLoop
  PROVE  ParserInv'
<1>1. parsed = NotParsed /\ AtEnd
  BY DEF EndLoop
<1>2. PICK calls : Progress(calls)
  BY <1>1, TheTorrent DEF ParserInv
<1> DEFINE m == Len(stack)
           f == stack[m]
           fs == Front(stack)
           cs == Front(calls)
           v == Upcoming(torrent, cs, m - 1)
           next == Reached(cs, m - 1) + Len(Encode[v]) + 1
<1>3. stack # <<>> /\ ~More(calls, m)
  BY <1>1, <1>2, AtEndIs DEF AtEnd
<1>4. /\ Reading(content, torrent, stack, calls) /\ position = Reached(calls, m) + 1
      /\ Ranged(torrent, m, calls, start_hash, finish_hash)
  BY <1>2 DEF Progress
<1>5. /\ m \in Nat \ {0} /\ Len(fs) = m - 1
      /\ Reading(content, torrent, fs, cs) /\ More(cs, m - 1)
      /\ [kind |-> f.kind, val |-> f.val] = v
      /\ Reached(calls, m) + 1 = Reached(cs, m - 1) + Len(Encode[v])
  <2>1. Whole(content, torrent)
    BY TheTorrent
  <2> QED
    BY <1>3, <1>4, <2>1, PopStep
<1>6. IsSeq(calls) /\ calls # <<>> /\ Len(calls) = m /\ IsSeq(fs)
  BY <1>4, <1>5, SeqLen DEF Reading
<1>7. Ranged(torrent, m - 1, cs, start_hash, finish_hash)
  BY <1>4, <1>6, RangedPop
<1>8. ASSUME fs = <<>>
      PROVE  RangeRead
  <2>1. m = 1
    <3>1. m - 1 = 0
      BY <1>5, <1>8
    <3>2. m \in Nat
      BY <1>5
    <3> HIDE DEF m
    <3> QED BY <3>1, <3>2
  <2>2. calls[1].node = torrent /\ calls[1].count \in 0 .. Len(Items(torrent))
    BY <1>4, <1>5, TheTorrent, FirstIsRoot
  <2>3. calls[1].count = Len(Items(torrent)) /\ Len(Items(torrent)) \in Nat
    <3>1. ~(calls[1].count < Len(Items(torrent)))
      BY <1>3, <2>1, <2>2 DEF More
    <3>2. Len(Items(torrent)) \in Nat
      BY TheTorrent, ItemsType
    <3> QED
      BY <2>2, <3>1, <3>2
  <2>4. ASSUME NEW q, LastInfo(torrent, q)
        PROVE  RangeOfInfo(torrent, q, start_hash, finish_hash)
    <3>1. /\ Len(Sorted[DOMAIN torrent.val]) \in Nat
          /\ Len(Items(torrent)) = 2 * Len(Sorted[DOMAIN torrent.val])
      BY TheTorrent, Kinds, SortedKeys, ItemsOfMap
    <3>2. q \in 1 .. Len(Sorted[DOMAIN torrent.val])
      BY <2>4 DEF LastInfo
    <3>3. Len(Items(torrent)) >= 2 * q
      BY <3>1, <3>2
    <3>4. calls[1].count >= 2 * q /\ m # 0
      BY <1>5, <2>3, <3>3
    <3> QED
      BY <1>4, <2>4, <3>4, Zenon DEF Ranged
  <2> QED
    BY <2>4 DEF RangeRead
<1>9. Return(v, fs, next)
  <2>1. Return([kind |-> f.kind, val |-> f.val], fs, position + 1)
    BY DEF EndLoop
  <2>2. position + 1 = next
    BY <1>4, <1>5, Zenon
  <2> QED
    BY <1>5, <2>1, <2>2, Zenon
<1> HIDE DEF m, f, cs, v, fs
<1>10. /\ Reading(content, torrent, fs, cs) /\ More(cs, Len(fs)) /\ v = Upcoming(torrent, cs, Len(fs))
       /\ next = Reached(cs, Len(fs)) + Len(Encode[v]) + 1
       /\ Ranged(torrent, Len(fs), cs, start_hash, finish_hash)
  BY <1>5, <1>7, Zenon DEF v
<1> HIDE DEF next
<1> QED
  BY <1>1, <1>8, <1>9, <1>10, ReturnKeeps, Zenon DEF IsUpcoming, IsNext

\* ParserInv holds at the beginning
LEMMA InitParser ==
  ASSUME Init
  PROVE  ParserInv
<1>1. /\ torrent \in Torrents /\ content = Encode[torrent] /\ parsed = NotParsed
      /\ stack = <<>> /\ position = 1
  BY DEF Init, FileInit, ParserInit
<1>2. Len(<<>>) = 0 /\ IsSeq(<<>>)
  BY DEF IsSeq
<1>3. Reading(content, torrent, <<>>, <<>>)
  BY <1>2 DEF Reading
<1>4. Ranged(torrent, 0, <<>>, start_hash, finish_hash)
  BY Zenon DEF Ranged
<1>5. Progress(<<>>)
  BY <1>1, <1>2, <1>3, <1>4 DEF Progress, Reached
<1> QED
  BY <1>1, <1>5 DEF ParserInv

\* and is kept by every step of the metadata.
LEMMA NextParser ==
  ASSUME ParserInv, [Next]_vars
  PROVE  ParserInv'
<1>1. CASE Parse
  BY <1>1, IntKeeps, StringKeeps, CallKeeps, EndKeeps DEF Parse, Parser
<1>2. CASE UNCHANGED parserVars
  <2>1. ParserInv' <=> ParserInv
    BY <1>2 DEF ParserInv, Progress, RangeRead, parserVars
  <2> QED
    BY <2>1
<1> QED
  BY <1>1, <1>2 DEF Next, Load, LoadTorrentFile, UpdatePeers, Ended, vars

\* There is a character where a call stands, and none behind the last is read.
LEMMA PositionWithin ==
  ASSUME ParserInv, NEW calls, Progress(calls)
  PROVE  position \in 1 .. Len(content)
<1> DEFINE m == Len(stack)
           r == Reached(calls, m)
<1>1. Reading(content, torrent, stack, calls) /\ position = r + 1 /\ Whole(content, torrent)
      /\ Len(content) \in Nat
  BY TheTorrent DEF Progress
<1>2. CASE More(calls, m)
  <2> DEFINE v == Upcoming(torrent, calls, m)
  <2>1. v \in Values /\ At(content, r, v)
    BY <1>1, <1>2, UpcomingAt
  <2> HIDE DEF v, r
  <2>2. Len(Encode[v]) \in Nat \ {0} /\ r \in Nat /\ r + Len(Encode[v]) <= Len(content)
    BY <2>1, FirstOfText DEF At
  <2> QED
    BY <1>1, <2>2
<1>3. CASE ~More(calls, m)
  <2> DEFINE v == calls[m].node
             o == calls[m].begin
             c == calls[m].count
  <2>1. m \in Nat \ {0}
    BY <1>1, <1>3, SeqLen DEF Reading, More
  <2>2. Called(content, torrent, calls, m)
    BY <1>1, <2>1 DEF Reading
  <2>3. v \in Values /\ Container(v) /\ At(content, o, v) /\ c \in 0 .. Len(Items(v))
    BY <2>2 DEF Called
  <2>4. c = Len(Items(v))
    BY <1>3, <2>3, ItemsType DEF More
  <2>5. r = o + Offsets(v)[c]
    BY <2>1 DEF Reached
  <2> HIDE DEF v, o, c, r
  <2>6. r + 1 = o + Len(Encode[v])
    BY <2>3, <2>4, <2>5, EndAt
  <2>7. o \in Nat /\ Len(Encode[v]) \in Nat \ {0} /\ o + Len(Encode[v]) <= Len(content)
    BY <2>3, FirstOfText DEF At
  <2> QED
    BY <1>1, <2>6, <2>7
<1> QED
  BY <1>2, <1>3

-----------------------------------------------------------------------------

\* ParserReadsBack: what Bencode::Parser returns for the content of a torrent is the
\* torrent, with the position behind the last character, and no character behind the
\* content is looked at, for every well-formed torrent.
THEOREM ParserReads == Spec => []ParserReadsBack
<1>1. ParserInv => ParserReadsBack
  <2>1. ASSUME ParserInv
        PROVE  ParserReadsBack
    <3>1. torrent # NotParsed
      BY <2>1, TheTorrent
    <3>2. ASSUME parsed = NotParsed
          PROVE  position \in 1 .. Len(content)
      BY <2>1, <3>1, <3>2, PositionWithin DEF ParserInv
    <3> QED
      BY <2>1, <3>1, <3>2 DEF ParserInv, ParserReadsBack
  <2> QED
    BY <2>1
<1> QED
  BY <1>1, InitParser, NextParser, PTL DEF Spec

\* The range that is left is what was written for info.
LEMMA InfoHashWritten ==
  ASSUME ParserInv
  PROVE  InfoHashIsOfInfo
<1>1. SUFFICES ASSUME parsed # NotParsed, Info \in DOMAIN torrent.val, ~InfoComesAgain
               PROVE  SubSeq(content, start_hash, finish_hash) = InfoAsWritten
  BY DEF InfoHashIsOfInfo
<1> DEFINE keys == Sorted[DOMAIN torrent.val]
           n == Len(keys)
           ofs == Offsets(torrent)
<1>2. RangeRead /\ Whole(content, torrent) /\ torrent \in Values /\ torrent.kind = "map"
      /\ Container(torrent) /\ content \in Seq(Chars)
  BY <1>1, TheTorrent DEF ParserInv
<1>3. /\ n \in Nat
      /\ \A key \in DOMAIN torrent.val : \E k \in 1 .. n : keys[k] = key
      /\ Len(Items(torrent)) = 2 * n
      /\ \A k \in 1 .. n : Items(torrent)[2 * k] = torrent.val[keys[k]]
  BY <1>2, Kinds, SortedKeys, ItemsOfMap
<1>4. PICK q \in 1 .. n : keys[q] = Info
  BY <1>1, <1>3
<1>5. \A k \in q + 1 .. n : ~HasKeyInfo[torrent.val[keys[k]]]
  <2>1. ASSUME NEW k \in q + 1 .. n
        PROVE  k \in 1 .. n /\ q < k
    BY <1>3
  <2> QED
    BY <1>1, <1>4, <2>1 DEF InfoComesAgain
<1>6. LastInfo(torrent, q)
  BY <1>4, <1>5 DEF LastInfo
<1>7. start_hash = ofs[2 * q - 1] + 1 /\ finish_hash = ofs[2 * q]
  BY <1>2, <1>6 DEF RangeRead, RangeOfInfo
<1> DEFINE c == 2 * q - 1
           w == InfoAsWritten
<1>8. c \in 0 .. Len(Items(torrent)) /\ c < Len(Items(torrent)) /\ c + 1 = 2 * q
  <2> HIDE DEF n
  <2> QED BY <1>3
<1>9. Items(torrent)[2 * q] = torrent.val[Info]
  BY <1>3, <1>4
<1>10. At(content, 0, torrent)
  BY <1>2 DEF Whole
<1> HIDE DEF c
<1>11. /\ ofs[c] \in Nat /\ At(content, 0 + ofs[c], Items(torrent)[c + 1])
       /\ ofs[c + 1] = ofs[c] + Len(Encode[Items(torrent)[c + 1]])
       /\ Items(torrent)[c + 1] \in Values
  BY <1>2, <1>8, <1>10, ItemAt, Zenon
<1>12. w \in Seq(Chars) /\ Len(w) \in Nat
  BY <1>8, <1>9, <1>11, FirstOfText DEF InfoAsWritten
<1> DEFINE a == ofs[c]
<1>13. /\ a \in Nat /\ Len(content) \in Nat /\ a + Len(w) <= Len(content)
       /\ \A j \in 1 .. Len(w) : content[a + j] = w[j]
  <2>1. 0 + a = a
    BY <1>11
  <2> QED
    BY <1>8, <1>9, <1>11, <2>1 DEF At, InfoAsWritten
<1>14. start_hash = a + 1 /\ finish_hash = a + Len(w)
  BY <1>7, <1>8, <1>9, <1>11 DEF c, InfoAsWritten
<1> HIDE DEF a, w
<1>15. SubSeq(content, a + 1, a + Len(w)) = w
  BY <1>2, <1>12, <1>13, PartIs
<1> QED
  BY <1>14, <1>15 DEF w

\* InfoHashIsOfInfo: the range Parser leaves, of which the info hash is made, is exactly
\* what was written for the value of info, if no key info comes behind it.
THEOREM InfoHashOfInfo == Spec => []InfoHashIsOfInfo
BY InitParser, NextParser, InfoHashWritten, PTL DEF Spec

-----------------------------------------------------------------------------
(* The fields of the torrent *)

\* The digests one behind the other are a first part of the string, all but the last at least.
LEMMA DigestsInOrder ==
  ASSUME NEW pieces \in Seq(Chars), Len(pieces) >= HashSize
  PROVE  LET hashes == PieceHashes(pieces)
         IN /\ (Len(hashes) + 1) * HashSize >= Len(pieces)
            /\ FlattenSeq(hashes) = SubSeq(pieces, 1, Len(hashes) * HashSize)
<1> DEFINE len == Len(pieces)
           n == (len - 1) \div HashSize
           hashes == PieceHashes(pieces)
           w == [i \in 0 .. n |-> SubSeq(pieces, 1, i * HashSize)]
<1>1. len \in Nat /\ HashSize \in Nat \ {0} /\ len - 1 \in Nat
  BY HashSizeAssumption
<1>2. n \in Nat /\ n * HashSize <= len - 1 /\ len - 1 < n * HashSize + HashSize
  <2> HIDE DEF len
  <2> QED BY <1>1, Division
<1>3. hashes = [k \in 1 .. n |-> SubSeq(pieces, (k - 1) * HashSize + 1, (k - 1) * HashSize + HashSize)]
  BY Zenon DEF PieceHashes, Digest
<1> HIDE DEF n, hashes, len
<1>4. Len(hashes) = n
  BY <1>2, <1>3
<1>5. (n + 1) * HashSize >= len
  <2> DEFINE a == n * HashSize
  <2>1. a \in Nat /\ (n + 1) * HashSize = a + HashSize
    BY <1>1, <1>2
  <2>2. len - 1 < a + HashSize
    BY <1>2
  <2> HIDE DEF a
  <2> QED
    BY <1>1, <2>1, <2>2
<1>6. ASSUME NEW i \in 1 .. n
      PROVE  w[i] = IF i = 1 THEN hashes[i] ELSE w[i - 1] \o hashes[i]
  <2> DEFINE a == (i - 1) * HashSize
             b == a + HashSize
  <2>1. a \in Nat /\ b \in Nat /\ i * HashSize = b /\ a <= b
    BY <1>1, <1>2
  <2>2. b <= len
    <3>1. i * HashSize <= n * HashSize
      BY <1>1, <1>2
    <3>2. n * HashSize \in Nat
      BY <1>1, <1>2
    <3> DEFINE c == n * HashSize
    <3> HIDE DEF b, c
    <3> QED
      BY <1>1, <1>2, <2>1, <3>1, <3>2 DEF c
  <2>3. hashes[i] = SubSeq(pieces, a + 1, b)
    BY <1>3
  <2>4. i - 1 \in 0 .. n /\ i \in 0 .. n
    BY <1>2
  <2>5. w[i] = SubSeq(pieces, 1, b) /\ w[i - 1] = SubSeq(pieces, 1, a)
    BY <2>1, <2>4
  <2>6. i = 1 => a = 0
    BY <1>1
  <2> HIDE DEF w, a, b
  <2>7. CASE i = 1
    <3>1. a + 1 = 1
      BY <2>6, <2>7
    <3> QED
      BY <2>3, <2>5, <2>7, <3>1, Zenon
  <2>8. CASE i # 1
    <3>1. 1 \in 1 .. len + 1 /\ a \in 1 - 1 .. len /\ b \in a .. len
      BY <1>1, <2>1, <2>2
    <3>2. SubSeq(pieces, 1, a) \o SubSeq(pieces, a + 1, b) = SubSeq(pieces, 1, b)
      BY <3>1, ConcatAdjacentSubSeq, Zenon DEF len
    <3> QED
      BY <2>3, <2>5, <2>8, <3>2
  <2> QED
    BY <2>7, <2>8
<1>7. FlattenSeq(hashes) = SubSeq(pieces, 1, n * HashSize)
  <2>1. CASE n = 0
    <3>1. hashes = <<>>
      BY <1>3, <2>1
    <3>2. FlattenSeq(hashes) = <<>>
      BY <3>1 DEF FlattenSeq
    <3>3. n * HashSize = 0
      BY <1>1, <2>1
    <3> QED
      BY <3>2, <3>3
  <2>2. CASE n # 0
    <3>1. n \in Nat \ {0} /\ n \in 0 .. n
      BY <1>2, <2>2
    <3> HIDE DEF w
    <3>2. FlattenSeq(hashes) = w[n]
      BY <1>4, <1>6, <3>1, FlattenIs
    <3> QED
      BY <3>1, <3>2 DEF w
  <2> QED
    BY <2>1, <2>2
<1> QED
  BY <1>4, <1>5, <1>7 DEF hashes, len

\* A field that is not the number 0 is there.
LEMMA FieldIs ==
  ASSUME NEW v \in Values, v.kind = "map", NEW key
  PROVE  /\ key \in DOMAIN v.val => v.val[key] \in Values
         /\ Field(v.val, key).kind # "int" => key \in DOMAIN v.val
         /\ key \in DOMAIN v.val => Field(v.val, key) = v.val[key]
         /\ key \notin DOMAIN v.val => Field(v.val, key).val = 0
<1>1. v.val \in [DOMAIN v.val -> Values]
  BY Kinds DEF IsMap
<1> QED
  BY <1>1 DEF Field, IntValue

\* The alternatives LoadTorrentFile asks for, field by field.
LEMMA FieldKinds ==
  ASSUME NEW map
  PROVE  /\ Holds(map, Fields) =>
              /\ Field(map, Announce).kind = "string" /\ Field(map, Comment).kind = "string"
              /\ Field(map, Info).kind = "map"
         /\ Holds(map, InfoFields) =>
              /\ Field(map, LengthKey).kind = "int" /\ Field(map, Name).kind = "string"
              /\ Field(map, PieceLength).kind = "int" /\ Field(map, PiecesKey).kind = "string"
<1>1. /\ Announce # Comment /\ Announce # Info /\ Comment # Info
      /\ LengthKey # Name /\ LengthKey # PieceLength /\ LengthKey # PiecesKey
      /\ Name # PieceLength /\ Name # PiecesKey /\ PieceLength # PiecesKey
  BY DEF Announce, Comment, Info, LengthKey, Name, PieceLength, PiecesKey
<1>2. DOMAIN Fields = {Announce, Comment, Info} /\ DOMAIN InfoFields = {LengthKey, Name, PieceLength, PiecesKey}
  BY DEF Fields, InfoFields
<1>3. /\ Fields[Announce] = "string" /\ Fields[Comment] = "string" /\ Fields[Info] = "map"
      /\ InfoFields[LengthKey] = "int" /\ InfoFields[Name] = "string"
      /\ InfoFields[PieceLength] = "int" /\ InfoFields[PiecesKey] = "string"
  BY <1>1, Zenon DEF Fields, InfoFields
<1> QED
  BY <1>2, <1>3 DEF Holds

\* A loaded torrent is the one that was written.
LEMMA LoadKeeps ==
  ASSUME ParserInv, LoadTorrentFile
  PROVE  LoadedAsWritten'
<1>1. SUFFICES ASSUME stage' \in {"announce", "download"}
               PROVE  LoadedAsWritten'
  BY DEF LoadedAsWritten
<1> DEFINE map == torrent.val
           info == map[Info].val
           pieces == info[PiecesKey].val
           hashes == PieceHashes(pieces)
<1>2. parsed = torrent /\ InfoHashIsOfInfo /\ UNCHANGED <<torrent, content>>
  BY InfoHashWritten DEF LoadTorrentFile, ParserInv, parserVars
<1>3. torrent \in Values /\ torrent.kind = "map"
  BY TheTorrent
<1>4. /\ Holds(map, Fields) /\ Holds(Field(map, Info).val, InfoFields)
      /\ Len(Field(map, Info).val[PiecesKey].val) >= HashSize
      /\ torrent_file' =
               [kind |-> "loaded",
                announce |-> map[Announce].val,
                comment |-> map[Comment].val,
                length |-> Field(Field(map, Info).val, LengthKey).val,
                name |-> Field(map, Info).val[Name].val,
                pieceLength |-> Field(Field(map, Info).val, PieceLength).val,
                pieceHashes |-> PieceHashes(Field(map, Info).val[PiecesKey].val),
                infoHash |-> InfoHash]
      /\ torrent_file'.pieceLength # 0
  <2>1. /\ Holds(map, Fields) /\ Holds(Field(map, Info).val, InfoFields)
        /\ Len(Field(map, Info).val[PiecesKey].val) >= HashSize
        /\ torrent_file' =
                 [kind |-> "loaded",
                  announce |-> map[Announce].val,
                  comment |-> map[Comment].val,
                  length |-> Field(Field(map, Info).val, LengthKey).val,
                  name |-> Field(map, Info).val[Name].val,
                  pieceLength |-> Field(Field(map, Info).val, PieceLength).val,
                  pieceHashes |-> PieceHashes(Field(map, Info).val[PiecesKey].val),
                  infoHash |-> InfoHash]
        /\ stage' = IF torrent_file'.pieceLength = 0 THEN "crashed" ELSE "announce"
    BY <1>1, <1>2, Zenon DEF LoadTorrentFile
  <2> QED
    BY <1>1, <2>1, Zenon
<1>5. /\ Field(map, Announce).kind = "string" /\ Field(map, Comment).kind = "string"
      /\ Field(map, Info).kind = "map"
  BY <1>4, FieldKinds
<1>6. /\ Info \in DOMAIN map /\ Field(map, Info) = map[Info] /\ map[Info] \in Values
      /\ map[Announce] \in Values /\ map[Announce].kind = "string"
      /\ map[Comment] \in Values /\ map[Comment].kind = "string"
  BY <1>3, <1>5, FieldIs
<1> HIDE DEF map
<1>7. map[Info].kind = "map" /\ map[Info] \in Values
  BY <1>5, <1>6
<1>8. /\ Field(info, LengthKey).kind = "int" /\ Field(info, Name).kind = "string"
      /\ Field(info, PieceLength).kind = "int" /\ Field(info, PiecesKey).kind = "string"
  BY <1>4, <1>6, FieldKinds
<1>9. /\ info[Name] \in Values /\ info[Name].kind = "string"
      /\ info[PiecesKey] \in Values /\ info[PiecesKey].kind = "string"
  BY <1>7, <1>8, FieldIs
<1>10. /\ map[Announce] = StringValue(map[Announce].val) /\ map[Comment] = StringValue(map[Comment].val)
       /\ info[Name] = StringValue(info[Name].val)
       /\ pieces \in Seq(Chars)
  <2> HIDE DEF info
  <2> QED BY <1>6, <1>9, Kinds DEF IsString
<1>11. IF LengthKey \in DOMAIN info THEN info[LengthKey] = IntValue(Field(info, LengthKey).val)
       ELSE Field(info, LengthKey).val = 0
  <2>1. /\ LengthKey \in DOMAIN info => info[LengthKey] \in Values /\ Field(info, LengthKey) = info[LengthKey]
        /\ LengthKey \notin DOMAIN info => Field(info, LengthKey).val = 0
    BY <1>7, FieldIs
  <2> HIDE DEF info
  <2> QED BY <1>8, <2>1, Kinds
<1>12. info[PieceLength] = IntValue(Field(info, PieceLength).val)
  <2>1. Field(info, PieceLength).val # 0
    BY <1>4, <1>6
  <2>2. info[PieceLength] \in Values /\ Field(info, PieceLength) = info[PieceLength]
    BY <1>7, <2>1, FieldIs
  <2> HIDE DEF info
  <2> QED BY <1>8, <2>2, Kinds
<1>13. /\ (Len(hashes) + 1) * HashSize >= Len(pieces)
       /\ FlattenSeq(hashes) = SubSeq(pieces, 1, Len(hashes) * HashSize)
  BY <1>4, <1>6, <1>10, DigestsInOrder
<1>14. ~InfoComesAgain => InfoHash = InfoAsWritten
  BY <1>2, <1>6, TheTorrent DEF InfoHashIsOfInfo, InfoHash, map
<1>15. /\ torrent_file'.announce = map[Announce].val /\ torrent_file'.comment = map[Comment].val
       /\ torrent_file'.length = Field(info, LengthKey).val
       /\ torrent_file'.name = info[Name].val
       /\ torrent_file'.pieceLength = Field(info, PieceLength).val
       /\ torrent_file'.pieceHashes = hashes /\ torrent_file'.infoHash = InfoHash
  BY <1>4, <1>6
<1>16. torrent'.val = map /\ (InfoComesAgain' <=> InfoComesAgain) /\ InfoAsWritten' = InfoAsWritten
  BY <1>2 DEF map, InfoComesAgain, InfoAsWritten
<1> HIDE DEF map, hashes
<1> QED
  BY <1>10, <1>11, <1>12, <1>13, <1>14, <1>15, <1>16, Zenon DEF LoadedAsWritten

\* LoadedAsWritten: the TorrentFile that is announced and downloaded has the fields of the
\* torrent, each of its kind, its first digests in order, and the hash of its info.
THEOREM LoadedWritten == Spec => []LoadedAsWritten
<1>1. Init => LoadedAsWritten
  BY DEF Init, FileInit, LoadedAsWritten
<1>2. ParserInv /\ LoadedAsWritten /\ [Next]_vars => LoadedAsWritten'
  <2>1. ASSUME ParserInv, LoadedAsWritten, [Next]_vars
        PROVE  LoadedAsWritten'
    <3>1. CASE Load
      BY <2>1, <3>1, LoadKeeps DEF Load
    <3>2. CASE ~Load
      <4>1. UNCHANGED <<torrent, torrent_file>>
        BY <2>1, <3>2 DEF Next, Parse, Parser, ParseInt, ParseString, ParseVector, ParseMap, EndLoop,
                          Return, Call, UpdatePeers, Ended, vars, parserVars
      <4>2. stage' \in {"announce", "download"} => stage \in {"announce", "download"}
        BY <2>1, <3>2 DEF Next, Parse, UpdatePeers, Ended, vars
      <4>3. (InfoComesAgain' <=> InfoComesAgain) /\ InfoAsWritten' = InfoAsWritten
        BY <4>1 DEF InfoComesAgain, InfoAsWritten
      <4> QED
        BY <2>1, <4>1, <4>2, <4>3 DEF LoadedAsWritten
    <3> QED
      BY <3>1, <3>2
  <2> QED
    BY <2>1
<1> QED
  BY <1>1, <1>2, InitParser, NextParser, PTL DEF Spec

-----------------------------------------------------------------------------
(* The answer of the tracker *)

\* A sequence that has two elements, each once, is a pair.
LEMMA TwoKeys ==
  ASSUME NEW a, NEW b, a # b, NEW n \in Nat, NEW s,
         \A k \in 1 .. n : s[k] \in {a, b},
         \E k \in 1 .. n : s[k] = a, \E k \in 1 .. n : s[k] = b,
         \A j, k \in 1 .. n : s[j] = s[k] => j = k
  PROVE  n = 2 /\ ((s[1] = a /\ s[2] = b) \/ (s[1] = b /\ s[2] = a))
<1>1. PICK i \in 1 .. n : s[i] = a
  OBVIOUS
<1>2. PICK j \in 1 .. n : s[j] = b
  OBVIOUS
<1>3. i # j /\ \A k \in 1 .. n : k = i \/ k = j
  BY <1>1, <1>2
<1>4. n >= 2
  BY <1>3
<1>5. n < 3
  <2>1. ASSUME n >= 3
        PROVE  FALSE
    <3>1. 1 \in 1 .. n /\ 2 \in 1 .. n /\ 3 \in 1 .. n
      BY <2>1
    <3> QED
      BY <1>3, <3>1
  <2> QED
    BY <2>1
<1> QED
  BY <1>1, <1>2, <1>3, <1>4, <1>5

\* The list of peers in the text of an answer: the word peers comes first before it, then
\* the number, the colon and the peers.
ListAt(text, word, list) ==
  /\ word \in Nat \ {0} /\ Len(text) \in Nat /\ Len(list) \in Numbers /\ Len(list) \in Nat
  /\ list \in Seq(Chars)
  /\ word + 2 + Len(list) <= Len(text)
  /\ text[word] = PeersKey[1] /\ \A j \in 1 .. word - 1 : text[j] # PeersKey[1]
  /\ text[word + 1] = Numeral[Len(list)] /\ text[word + 2] = ":"
  /\ \A j \in 1 .. Len(list) : text[(word + 2) + j] = list[j]

\* w is behind the first o characters.
PutAt(text, o, w) == \A j \in 1 .. Len(w) : text[o + j] = w[j]

\* Three tokens that are not the word, and three of which the last one is.
OtherTokens(w) == Len(w) = 3 /\ w[1] # PeersKey[1] /\ w[2] # PeersKey[1] /\ w[3] # PeersKey[1]

\* What is written for the key peers.
WordTokens(w) == Len(w) = 3 /\ w[1] # PeersKey[1] /\ w[2] # PeersKey[1] /\ w[3] = PeersKey[1]

\* What is written for the list.
ListTokens(w, list) ==
  /\ list \in Seq(Chars) /\ Len(list) \in Nat /\ Len(list) \in Numbers /\ Len(w) = 2 + Len(list)
  /\ w[1] = Numeral[Len(list)] /\ w[2] = ":" /\ \A j \in 1 .. Len(list) : w[2 + j] = list[j]

\* Where the word is, and where it is not.
LEMMA PutOther ==
  ASSUME NEW text, NEW o \in Nat, NEW w, OtherTokens(w) \/ WordTokens(w), PutAt(text, o, w)
  PROVE  /\ text[o + 1] # PeersKey[1] /\ text[o + 2] # PeersKey[1]
         /\ OtherTokens(w) => text[o + 3] # PeersKey[1]
         /\ WordTokens(w) => text[o + 3] = PeersKey[1]
<1>1. Len(w) = 3
  BY DEF OtherTokens, WordTokens
<1>2. text[o + 1] = w[1] /\ text[o + 2] = w[2] /\ text[o + 3] = w[3]
  BY <1>1 DEF PutAt
<1> QED
  BY <1>2 DEF OtherTokens, WordTokens

\* The list is behind the first word, if that is at its place.
LEMMA ListPut ==
  ASSUME NEW text, NEW list, NEW w, ListTokens(w, list), NEW word \in Nat \ {0}, PutAt(text, word, w),
         Len(text) \in Nat, word + Len(w) <= Len(text),
         text[word] = PeersKey[1], \A j \in 1 .. word - 1 : text[j] # PeersKey[1]
  PROVE  ListAt(text, word, list)
<1>1. /\ list \in Seq(Chars) /\ Len(list) \in Nat /\ Len(list) \in Numbers /\ Len(w) = 2 + Len(list)
      /\ w[1] = Numeral[Len(list)] /\ w[2] = ":" /\ \A j \in 1 .. Len(list) : w[2 + j] = list[j]
  BY DEF ListTokens
<1>2. word + 2 + Len(list) <= Len(text)
  BY <1>1
<1>3. text[word + 1] = w[1] /\ text[word + 2] = w[2]
  BY <1>1 DEF PutAt
<1>4. ASSUME NEW j \in 1 .. Len(list)
      PROVE  text[(word + 2) + j] = list[j]
  <2>1. 2 + j \in 1 .. Len(w) /\ word + (2 + j) = (word + 2) + j
    BY <1>1
  <2>2. text[word + (2 + j)] = w[2 + j]
    BY <2>1 DEF PutAt
  <2> QED
    BY <1>1, <2>1, <2>2
<1> QED
  BY <1>1, <1>2, <1>3, <1>4 DEF ListAt

\* A key of one token is the word or has nothing of it.
LEMMA KeyTokens ==
  ASSUME NEW key, StringValue(key) \in Values, Len(key) = 1
  PROVE  /\ key[1] = PeersKey[1] => WordTokens(Encode[StringValue(key)])
         /\ key[1] # PeersKey[1] => OtherTokens(Encode[StringValue(key)])
<1> DEFINE u == StringValue(key)
           w == Encode[u]
<1>1. u \in Values /\ u.kind = "string" /\ u.val = key
  BY DEF StringValue
<1> HIDE DEF u
<1>2. /\ Len(u.val) \in Numbers /\ Len(w) = 2 + Len(u.val)
      /\ w[1] = Numeral[Len(u.val)] /\ w[2] = ":"
      /\ \A j \in 1 .. Len(u.val) : w[2 + j] = u.val[j]
  BY <1>1, StringText
<1> HIDE DEF w
<1>3. Len(w) = 3 /\ w[3] = key[1] /\ w[1] = Numeral[1] /\ w[2] = ":" /\ 1 \in Numbers
  <2>1. u.val = key /\ Len(u.val) = 1
    BY <1>1
  <2> DEFINE s == u.val
             n == Len(s)
  <2> HIDE DEF n
  <2>2. w[2 + 1] = s[1]
    <3>1. 1 \in 1 .. n
      BY <2>1 DEF n
    <3> QED BY <1>2, <3>1 DEF n
  <2>3. Len(w) = 2 + 1 /\ w[1] = Numeral[1] /\ w[2] = ":" /\ 1 \in Numbers
    BY <1>2, <2>1, Zenon
  <2>4. w[2 + 1] = key[1]
    BY <2>1, <2>2, Zenon
  <2>5. 2 + 1 = 3
    OBVIOUS
  <2> QED
    BY <2>3, <2>4, <2>5, Zenon
<1>4. Numeral[1] # PeersKey[1] /\ ":" # PeersKey[1]
  BY <1>3, TrackerAssumption DEF PeersKey
<1> QED
  BY <1>3, <1>4 DEF WordTokens, OtherTokens, w, u

\* No integer has the word.
LEMMA IntTokens ==
  ASSUME NEW m, IntValue(m) \in Values
  PROVE  OtherTokens(Encode[IntValue(m)])
<1> DEFINE u == IntValue(m)
           w == Encode[u]
<1>1. u \in Values /\ u.kind = "int" /\ u.val = m
  BY DEF IntValue
<1> HIDE DEF u
<1>2. Len(w) = 3 /\ w[1] = "i" /\ w[2] = Numeral[m] /\ w[3] = "e" /\ m \in Numbers
  BY <1>1, IntText, Kinds
<1>3. Numeral[m] # PeersKey[1]
  BY <1>2, TrackerAssumption
<1>4. "i" # PeersKey[1] /\ "e" # PeersKey[1]
  BY DEF PeersKey
<1> QED
  BY <1>2, <1>3, <1>4 DEF OtherTokens, u

\* A string is its length, the colon and its characters.
LEMMA StringTokens ==
  ASSUME NEW list, StringValue(list) \in Values
  PROVE  ListTokens(Encode[StringValue(list)], list)
<1> DEFINE u == StringValue(list)
<1>1. u \in Values /\ u.kind = "string" /\ u.val = list
  BY DEF StringValue
<1> HIDE DEF u
<1>2. /\ list \in Seq(Chars) /\ Len(list) \in Nat /\ Len(list) \in Numbers /\ Len(Encode[u]) = 2 + Len(list)
      /\ Encode[u][1] = Numeral[Len(list)] /\ Encode[u][2] = ":"
      /\ \A j \in 1 .. Len(list) : Encode[u][2 + j] = list[j]
  BY <1>1, StringText
<1> QED
  BY <1>2 DEF ListTokens, u

\* In either order of its two keys, the answer has its list behind the first word peers.
LEMMA ListFound ==
  ASSUME NEW peers \in Swarms
  PROVE  LET text == Encode[PeerList(peers)]
         IN text \in Seq(Chars) /\ \E word : ListAt(text, word, FlattenSeq(WrittenPeers(peers)))
<1> DEFINE v == PeerList(peers)
           text == Encode[v]
           list == FlattenSeq(WrittenPeers(peers))
           keys == Sorted[DOMAIN v.val]
           n == Len(keys)
           ofs == Offsets(v)
           items == Items(v)
<1>1. v \in Values
  BY TrackerAssumption
<1>2. /\ v.kind = "map" /\ DOMAIN v.val = {Interval, PeersKey} /\ Interval # PeersKey
      /\ v.val[Interval] = IntValue(0) /\ v.val[PeersKey] = StringValue(list)
  <2> HIDE DEF list
  <2>1. v = MapValue([key \in {Interval, PeersKey} |->
                        IF key = Interval THEN IntValue(0) ELSE StringValue(list)])
    BY DEF PeerList, list
  <2>2. Interval # PeersKey
    BY DEF Interval, PeersKey
  <2> HIDE DEF v
  <2> QED
    BY <2>1, <2>2 DEF MapValue
<1>3. text \in Seq(Chars) /\ Len(text) \in Nat
  BY <1>1, FirstOfText
<1> HIDE DEF v, list
<1>4. n = 2 /\ ((keys[1] = Interval /\ keys[2] = PeersKey) \/ (keys[1] = PeersKey /\ keys[2] = Interval))
  <2>1. IsMap(v)
    BY <1>1, <1>2, Kinds
  <2>2. /\ n \in Nat /\ \A k \in 1 .. n : keys[k] \in DOMAIN v.val
        /\ \A key \in DOMAIN v.val : \E k \in 1 .. n : keys[k] = key
        /\ \A j, k \in 1 .. n : keys[j] = keys[k] => j = k
    BY <2>1, SortedKeys
  <2> HIDE DEF n, keys
  <2>3. /\ \A k \in 1 .. n : keys[k] \in {Interval, PeersKey}
        /\ \E k \in 1 .. n : keys[k] = Interval
        /\ \E k \in 1 .. n : keys[k] = PeersKey
    BY <1>2, <2>2
  <2> QED
    BY <1>2, <2>2, <2>3, TwoKeys
<1>5. /\ items \in Seq(Values) /\ Len(items) = 4
      /\ items[1] = StringValue(keys[1]) /\ items[2] = v.val[keys[1]]
      /\ items[3] = StringValue(keys[2]) /\ items[4] = v.val[keys[2]]
  <2>1. /\ items \in Seq(Values) /\ Len(items) = 2 * n
        /\ \A q \in 1 .. n : items[2 * q - 1] = StringValue(keys[q]) /\ items[2 * q] = v.val[keys[q]]
    BY <1>1, <1>2, ItemsOfMap
  <2> HIDE DEF items, keys
  <2>2. /\ items[2 * 1 - 1] = StringValue(keys[1]) /\ items[2 * 1] = v.val[keys[1]]
        /\ items[2 * 2 - 1] = StringValue(keys[2]) /\ items[2 * 2] = v.val[keys[2]]
    BY <1>4, <2>1
  <2> QED
    BY <1>4, <2>1, <2>2
<1>6. Laid(v, ofs) /\ \A k \in 1 .. 4 : items[k] \in Values
  <2>1. Container(v)
    BY <1>1, <1>2, Kinds
  <2>2. Laid(v, ofs)
    BY <1>1, <2>1, LaidOut
  <2>3. \A k \in 1 .. 4 : items[k] \in Values
    <3>1. Len(items) \in Nat /\ Len(items) = 4 /\ \A k \in 1 .. Len(items) : items[k] \in Values
      BY <1>1, <1>5, <2>1, ItemsType
    <3> HIDE DEF items, ofs
    <3> QED BY <3>1
  <2> QED
    BY <2>2, <2>3
<1>7. /\ ofs[0] = 1 /\ text[1] = "d" /\ Len(text) = ofs[4] + 1 /\ ofs \in [0 .. 4 -> Nat]
      /\ \A k \in 1 .. 4 :
           /\ ofs[k] = ofs[k - 1] + Len(Encode[items[k]])
           /\ PutAt(text, ofs[k - 1], Encode[items[k]])
  BY <1>2, <1>5, <1>6 DEF Laid, ItemLaid, PutAt
<1>8. /\ StringValue(Interval) \in Values /\ StringValue(PeersKey) \in Values
      /\ IntValue(0) \in Values /\ StringValue(list) \in Values
  <2> HIDE DEF items
  <2> QED BY <1>2, <1>4, <1>5, <1>6
<1> DEFINE i_key == Encode[StringValue(Interval)]
           p_key == Encode[StringValue(PeersKey)]
           i_val == Encode[IntValue(0)]
           p_val == Encode[StringValue(list)]
<1>9. OtherTokens(i_key) /\ WordTokens(p_key) /\ OtherTokens(i_val) /\ ListTokens(p_val, list)
  <2>1. Len(Interval) = 1 /\ Len(PeersKey) = 1 /\ Interval[1] # PeersKey[1]
    BY DEF Interval, PeersKey
  <2> QED
    BY <1>8, <2>1, KeyTokens, IntTokens, StringTokens
<1>10. Len(i_key) = 3 /\ Len(p_key) = 3 /\ Len(i_val) = 3 /\ Len(p_val) \in Nat
  BY <1>9 DEF OtherTokens, WordTokens, ListTokens
<1>11. "d" # PeersKey[1]
  BY DEF PeersKey
<1> HIDE DEF items, keys, ofs, text
<1>12. /\ ofs[1] = ofs[0] + Len(Encode[items[1]]) /\ PutAt(text, ofs[0], Encode[items[1]])
       /\ ofs[2] = ofs[1] + Len(Encode[items[2]]) /\ PutAt(text, ofs[1], Encode[items[2]])
       /\ ofs[3] = ofs[2] + Len(Encode[items[3]]) /\ PutAt(text, ofs[2], Encode[items[3]])
       /\ ofs[4] = ofs[3] + Len(Encode[items[4]]) /\ PutAt(text, ofs[3], Encode[items[4]])
  <2>1. /\ 1 \in 1 .. 4 /\ 2 \in 1 .. 4 /\ 3 \in 1 .. 4 /\ 4 \in 1 .. 4
        /\ 1 - 1 = 0 /\ 2 - 1 = 1 /\ 3 - 1 = 2 /\ 4 - 1 = 3
    OBVIOUS
  <2> DEFINE P(k) == ofs[k] = ofs[k - 1] + Len(Encode[items[k]]) /\ PutAt(text, ofs[k - 1], Encode[items[k]])
  <2>2. \A k \in 1 .. 4 : P(k)
    BY <1>7, Zenon
  <2> HIDE DEF P
  <2>3. P(1) /\ P(2) /\ P(3) /\ P(4)
    BY <2>1, <2>2, Zenon
  <2> QED
    BY <2>1, <2>3, Zenon DEF P
<1>13. CASE keys[1] = Interval /\ keys[2] = PeersKey
  <2>1. /\ Encode[items[1]] = i_key /\ Encode[items[2]] = i_val
        /\ Encode[items[3]] = p_key /\ Encode[items[4]] = p_val
    BY <1>2, <1>5, <1>13
  <2> HIDE DEF i_key, p_key, i_val, p_val
  <2>3. /\ ofs[1] = ofs[0] + Len(i_key) /\ ofs[2] = ofs[1] + Len(i_val)
        /\ ofs[3] = ofs[2] + Len(p_key) /\ ofs[4] = ofs[3] + Len(p_val)
        /\ PutAt(text, ofs[0], i_key) /\ PutAt(text, ofs[1], i_val)
        /\ PutAt(text, ofs[2], p_key) /\ PutAt(text, ofs[3], p_val)
    BY <1>12, <2>1, Zenon
  <2>4. ofs[0] = 1 /\ ofs[1] = 4 /\ ofs[2] = 7 /\ ofs[3] = 10 /\ ofs[4] = 10 + Len(p_val)
    BY <1>7, <1>10, <2>3
  <2>5. /\ PutAt(text, 1, i_key) /\ PutAt(text, 4, i_val) /\ PutAt(text, 7, p_key)
        /\ PutAt(text, 10, p_val)
    BY <2>3, <2>4
  <2>6. /\ text[1 + 1] # PeersKey[1] /\ text[1 + 2] # PeersKey[1] /\ text[1 + 3] # PeersKey[1]
        /\ text[4 + 1] # PeersKey[1] /\ text[4 + 2] # PeersKey[1] /\ text[4 + 3] # PeersKey[1]
        /\ text[7 + 1] # PeersKey[1] /\ text[7 + 2] # PeersKey[1] /\ text[7 + 3] = PeersKey[1]
    BY <1>9, <2>5, PutOther
  <2>7. \A j \in 1 .. 10 - 1 : j \in {1, 2, 3, 4, 5, 6, 7, 8, 9}
    OBVIOUS
  <2>8. text[10] = PeersKey[1] /\ \A j \in 1 .. 10 - 1 : text[j] # PeersKey[1]
    BY <1>7, <1>11, <2>6, <2>7
  <2>9. 10 + Len(p_val) <= Len(text)
    BY <1>7, <1>10, <2>4
  <2>10. 10 \in Nat \ {0} /\ Len(text) \in Nat
    BY <1>3
  <2>11. ListAt(text, 10, list)
    BY <1>9, <2>5, <2>8, <2>9, <2>10, ListPut, Zenon
  <2> QED
    BY <1>3, <2>11 DEF text, list, v
<1>14. CASE keys[1] = PeersKey /\ keys[2] = Interval
  <2>1. /\ Encode[items[1]] = p_key /\ Encode[items[2]] = p_val
        /\ Encode[items[3]] = i_key /\ Encode[items[4]] = i_val
    BY <1>2, <1>5, <1>14
  <2> HIDE DEF i_key, p_key, i_val, p_val
  <2>3. /\ ofs[1] = ofs[0] + Len(p_key) /\ ofs[2] = ofs[1] + Len(p_val)
        /\ ofs[3] = ofs[2] + Len(i_key) /\ ofs[4] = ofs[3] + Len(i_val)
        /\ PutAt(text, ofs[0], p_key) /\ PutAt(text, ofs[1], p_val)
    BY <1>12, <2>1, Zenon
  <2>4. ofs[0] = 1 /\ ofs[1] = 4 /\ ofs[4] = 4 + Len(p_val) + 3 + 3
    BY <1>7, <1>10, <2>3
  <2>5. PutAt(text, 1, p_key) /\ PutAt(text, 4, p_val)
    BY <2>3, <2>4
  <2>6. text[1 + 1] # PeersKey[1] /\ text[1 + 2] # PeersKey[1] /\ text[1 + 3] = PeersKey[1]
    BY <1>9, <2>5, PutOther
  <2>7. \A j \in 1 .. 4 - 1 : j \in {1, 2, 3}
    OBVIOUS
  <2>8. text[4] = PeersKey[1] /\ \A j \in 1 .. 4 - 1 : text[j] # PeersKey[1]
    BY <1>7, <1>11, <2>6, <2>7
  <2>9. 4 + Len(p_val) <= Len(text)
    BY <1>7, <1>10, <2>4
  <2>10. 4 \in Nat \ {0} /\ Len(text) \in Nat
    BY <1>3
  <2>11. ListAt(text, 4, list)
    BY <1>9, <2>5, <2>8, <2>9, <2>10, ListPut, Zenon
  <2> QED
    BY <1>3, <2>11 DEF text, list, v
<1> QED
  BY <1>4, <1>13, <1>14 DEF text, list, v

\* An address and two bytes.
Six(ip, high, low, s) ==
  Len(s) = 6 /\ s[5] = high /\ s[6] = low /\ \A j \in 1 .. 4 : s[j] = ip[j]

\* They are six characters.
LEMMA SixCharacters ==
  ASSUME NEW S, NEW ip \in Seq(S), Len(ip) = 4, NEW high \in S, NEW low \in S,
         NEW s, s = ip \o <<high, low>>
  PROVE  s \in Seq(S) /\ Six(ip, high, low, s)
<1> DEFINE t == <<high, low>>
<1>1. t \in Seq(S) /\ Len(t) = 2 /\ t[1] = high /\ t[2] = low
  OBVIOUS
<1> HIDE DEF t
<1>2. s \in Seq(S) /\ Joined(ip, t, s)
  BY <1>1, Behind DEF t
<1>3. Len(s) = 6 /\ s[4 + 1] = t[1] /\ s[4 + 2] = t[2] /\ \A j \in 1 .. 4 : s[j] = ip[j]
  BY <1>1, <1>2 DEF Joined
<1> QED
  BY <1>1, <1>2, <1>3 DEF Six

\* The peers,
Peer == [ip : Seq(Chars), port : Nat]

\* and the characters they are written with.
Bytes == Chars \cup DOMAIN Code

\* s is how the peer is written.
IsWritten(peer, s) ==
  /\ peer \in Peer /\ Len(peer.ip) = 4
  /\ s \in Seq(Bytes) /\ Len(s) = 6 /\ \A j \in 1 .. 4 : s[j] = peer.ip[j]
  /\ Code[s[5]] = peer.port \div 256 /\ Code[s[6]] = peer.port % 256

\* Every peer of a swarm can be written.
LEMMA WrittenIs ==
  ASSUME NEW peers \in Swarms, NEW k \in 1 .. Len(peers)
  PROVE  IsWritten(peers[k], Written(peers[k]))
<1> DEFINE peer == peers[k]
           high == CHOOSE c \in DOMAIN Code : Code[c] = peer.port \div 256
           low == CHOOSE c \in DOMAIN Code : Code[c] = peer.port % 256
<1>1. peers \in Seq(Peer) /\ Writable(peer)
  BY TrackerAssumption DEF Peer
<1>2. peer \in Peer
  BY <1>1
<1> HIDE DEF peer
<1>3. /\ high \in DOMAIN Code /\ Code[high] = peer.port \div 256
      /\ low \in DOMAIN Code /\ Code[low] = peer.port % 256 /\ Len(peer.ip) = 4
  BY <1>1 DEF Writable
<1>4. Written(peer) = peer.ip \o <<high, low>>
  BY Zenon DEF Written
<1>5. peer.ip \in Seq(Bytes)
  BY <1>2 DEF Peer, Bytes
<1>6. high \in Bytes /\ low \in Bytes
  BY <1>3 DEF Bytes
<1> HIDE DEF high, low
<1> DEFINE s == Written(peer)
           ip == peer.ip
<1> HIDE DEF s, ip
<1>7. s \in Seq(Bytes) /\ Len(s) = 6 /\ (\A j \in 1 .. 4 : s[j] = ip[j]) /\ s[5] = high /\ s[6] = low
  <2>1. ip \in Seq(Bytes) /\ Len(ip) = 4 /\ s = ip \o <<high, low>>
    BY <1>3, <1>4, <1>5, Zenon DEF s, ip
  <2>2. s \in Seq(Bytes) /\ Six(ip, high, low, s)
    BY <1>6, <2>1, SixCharacters, Zenon
  <2> QED
    BY <2>2, Zenon DEF Six
<1> QED
  BY <1>2, <1>3, <1>7 DEF peer, s, ip, IsWritten

\* The peers are six characters each, one behind the other.
LEMMA ListIs ==
  ASSUME NEW peers \in Swarms
  PROVE  LET list == FlattenSeq(WrittenPeers(peers))
             n == Len(peers)
         IN /\ n \in Nat /\ Len(list) = n * 6
            /\ \A k \in 1 .. n : \A j \in 1 .. 6 : list[(k - 1) * 6 + j] = Written(peers[k])[j]
<1> DEFINE n == Len(peers)
           parts == WrittenPeers(peers)
           list == FlattenSeq(parts)
<1>1. n \in Nat
  BY TrackerAssumption
<1> HIDE DEF n
<1>2. parts = [k \in 1 .. n |-> Written(peers[k])]
  BY DEF WrittenPeers, n
<1> HIDE DEF parts, list
<1>3. ASSUME NEW k \in 1 .. n
      PROVE  Written(peers[k]) \in Seq(Bytes) /\ Len(Written(peers[k])) = 6
  BY WrittenIs DEF n, IsWritten
<1>4. /\ parts \in Seq(Seq(Bytes)) /\ Len(parts) = n
      /\ \A k \in 1 .. n : parts[k] = Written(peers[k]) /\ Len(parts[k]) = 6
  BY <1>1, <1>2, <1>3
<1>5. PICK ends : Parts(parts, list, ends)
  BY <1>4, FlattenParts, Zenon DEF list
<1>6. /\ ends \in [0 .. n -> Nat] /\ ends[0] = 0 /\ Len(list) = ends[n]
      /\ \A k \in 1 .. n :
           /\ ends[k] = ends[k - 1] + Len(parts[k])
           /\ \A j \in 1 .. Len(parts[k]) : list[ends[k - 1] + j] = parts[k][j]
  BY <1>4, <1>5, Zenon DEF Parts
<1> DEFINE S == {k \in 0 .. n : ends[k] = k * 6}
<1>7. 0 .. n \subseteq S
  <2>1. 0 \in S
    BY <1>1, <1>6
  <2>2. ASSUME NEW k \in 0 .. n - 1, k \in S
        PROVE  k + 1 \in S
    <3>1. k + 1 \in 1 .. n /\ k + 1 \in 0 .. n /\ (k + 1) - 1 = k
      BY <1>1
    <3>2. ends[k + 1] = ends[k] + 6
      BY <1>4, <1>6, <3>1
    <3>3. ends[k] = k * 6
      BY <2>2
    <3>4. k * 6 + 6 = (k + 1) * 6
      BY <1>1
    <3> QED
      BY <3>1, <3>2, <3>3, <3>4
  <2> HIDE DEF S
  <2> QED
    BY <1>1, <2>1, <2>2, Upwards
<1>8. \A k \in 0 .. n : ends[k] = k * 6
  BY <1>7
<1>9. Len(list) = n * 6
  BY <1>1, <1>6, <1>8
<1>10. ASSUME NEW k \in 1 .. n, NEW j \in 1 .. 6
       PROVE  list[(k - 1) * 6 + j] = Written(peers[k])[j]
  <2>1. k - 1 \in 0 .. n
    BY <1>1
  <2>2. ends[k - 1] = (k - 1) * 6
    BY <1>8, <2>1
  <2>3. list[ends[k - 1] + j] = parts[k][j]
    BY <1>4, <1>6
  <2> QED
    BY <1>4, <2>2, <2>3
<1> QED
  BY <1>1, <1>9, <1>10 DEF n, list, parts

\* PeerAt undoes Written.
LEMMA PeerRead ==
  ASSUME NEW text \in Seq(Chars), NEW a \in Nat, a + 6 <= Len(text),
         NEW peer, NEW s, IsWritten(peer, s), PutAt(text, a, s)
  PROVE  PeerAt(text, a + 1) = peer
<1>0. /\ peer \in Peer /\ Len(peer.ip) = 4 /\ \A j \in 1 .. 4 : s[j] = peer.ip[j]
      /\ Code[s[5]] = peer.port \div 256 /\ Code[s[6]] = peer.port % 256
      /\ \A j \in 1 .. 6 : text[a + j] = s[j]
  BY DEF IsWritten, PutAt
<1>1. SubSeq(text, a + 1, a + 4) = peer.ip
  <2>1. peer.ip \in Seq(Chars) /\ a + 4 <= Len(text)
    BY <1>0 DEF Peer
  <2>2. \A j \in 1 .. 4 : text[a + j] = peer.ip[j]
    <3>1. ASSUME NEW j \in 1 .. 4
          PROVE  text[a + j] = peer.ip[j]
      <4>1. j \in 1 .. 6
        OBVIOUS
      <4>2. text[a + j] = s[j]
        BY <1>0, <4>1, Zenon
      <4>3. s[j] = peer.ip[j]
        BY <1>0, Zenon
      <4> QED
        BY <4>2, <4>3, Zenon
    <3> QED
      BY <3>1, Zenon
  <2> DEFINE ip == peer.ip
  <2>3. ip \in Seq(Chars) /\ Len(ip) = 4 /\ \A j \in 1 .. 4 : text[a + j] = ip[j]
    BY <1>0, <2>1, <2>2
  <2> HIDE DEF ip
  <2>4. SubSeq(text, a + 1, a + 4) = ip
    <3>1. a + Len(ip) <= Len(text) /\ \A j \in 1 .. Len(ip) : text[a + j] = ip[j]
      BY <2>1, <2>3
    <3>2. SubSeq(text, a + 1, a + Len(ip)) = ip
      BY <2>3, <3>1, PartIs, Zenon
    <3> QED
      BY <2>3, <3>2, Zenon
  <2> QED
    BY <2>4 DEF ip
<1>2. (a + 1) + 3 = a + 4 /\ (a + 1) + 4 = a + 5 /\ (a + 1) + 5 = a + 6
  OBVIOUS
<1>3. text[a + 5] = s[5] /\ text[a + 6] = s[6]
  BY <1>0
<1>4. Code[text[a + 5]] * 256 + Code[text[a + 6]] = peer.port
  <2>1. peer.port \in Nat
    BY <1>0 DEF Peer
  <2> DEFINE p == peer.port
  <2>2. (p \div 256) * 256 + (p % 256) = p
    <3> HIDE DEF p
    <3>1. p \in Nat
      BY <2>1 DEF p
    <3> QED BY <3>1, Bytewise
  <2> DEFINE high == Code[text[a + 5]]
             low == Code[text[a + 6]]
  <2>3. high = p \div 256 /\ low = p % 256
    BY <1>0, <1>3
  <2>4. high * 256 + low = p
    <3> HIDE DEF high, low, p
    <3> QED BY <2>2, <2>3
  <2> QED
    BY <2>4
<1>5. peer = [ip |-> peer.ip, port |-> peer.port]
  BY <1>0 DEF Peer
<1>6. PeerAt(text, a + 1) = [ip |-> SubSeq(text, a + 1, a + 4),
                             port |-> Code[text[a + 5]] * 256 + Code[text[a + 6]]]
  BY <1>2, Zenon DEF PeerAt
<1> QED
  BY <1>1, <1>4, <1>5, <1>6, Zenon

\* ReadPeers reads the peers of a whole answer, and can do nothing else.
LEMMA PeersRead ==
  ASSUME NEW text \in Seq(Chars), NEW peers \in Swarms,
         NEW word, ListAt(text, word, FlattenSeq(WrittenPeers(peers))),
         ReadPeers(text), stage' = "download"
  PROVE  peers_' = peers
<1> DEFINE list == FlattenSeq(WrittenPeers(peers))
           n == Len(peers)
           size == Len(list)
           number == word + 1
           colon == word + 2
<1>1. /\ n \in Nat /\ size = n * 6
      /\ \A k \in 1 .. n : \A j \in 1 .. 6 : list[(k - 1) * 6 + j] = Written(peers[k])[j]
  BY ListIs
<1> HIDE DEF list, n
<1>2. /\ word \in Nat \ {0} /\ Len(text) \in Nat /\ size \in Numbers
      /\ word + 2 + size <= Len(text)
      /\ text[word] = PeersKey[1] /\ \A j \in 1 .. word - 1 : text[j] # PeersKey[1]
      /\ text[word + 1] = Numeral[size] /\ text[word + 2] = ":"
      /\ \A j \in 1 .. size : text[(word + 2) + j] = list[j]
  BY DEF ListAt, list
<1>3. word \in Nat \ {0} /\ Len(text) \in Nat /\ word + 2 + size <= Len(text) /\ size \in Nat
  BY <1>1, <1>2
<1> HIDE DEF size
<1>4. Find(text, PeersKey[1], 1) + 1 = number
  <2>1. word \in 1 .. Len(text) /\ 1 \in Nat
    BY <1>3
  <2> QED
    BY <1>2, <1>3, <2>1, FindIs
<1>5. number \in 1 .. Len(text) /\ colon \in number .. Len(text) /\ colon - 1 = number /\ number \in Nat
      /\ \A j \in number .. colon - 1 : j = number
  BY <1>3
<1>6. Find(text, ":", number) = colon
  <2>1. Numeral[size] # ":"
    BY <1>2, NumeralAssumption DEF Marks
  <2> QED
    BY <1>2, <1>3, <1>5, <2>1, FindIs
<1>7. stoll(SubSeq(text, number, number)) = size
  <2> HIDE DEF number
  <2>1. SubSeq(text, number, number) = <<text[number]>>
    BY <1>5, OneChar
  <2>2. text[number] = Numeral[size]
    BY <1>2 DEF number
  <2> QED
    BY <1>2, <2>1, <2>2, StollIs
<1>8. PeerCount(size) = n
  BY <1>1, Multiple DEF PeerCount, peer_size
<1>9. /\ \E k \in number .. Len(text) : text[k] = ":"
      /\ number <= Len(text) /\ IsNumeral(text[number])
      /\ colon + n * peer_size <= Len(text)
  <2>1. text[colon] = ":" /\ text[number] = Numeral[size]
    BY <1>2
  <2>2. colon + n * peer_size <= Len(text)
    BY <1>1, <1>3 DEF peer_size
  <2> QED
    BY <1>2, <1>5, <2>1, <2>2 DEF IsNumeral
<1> HIDE DEF number, colon
<1>10. peers_' = [k \in 1 .. n |-> PeerAt(text, colon + 1 + (k - 1) * peer_size)]
  <2>1. "download" # "crashed" /\ "download" # "threw"
    OBVIOUS
  <2> QED
    BY <1>4, <1>6, <1>7, <1>8, <1>9, <2>1, Zenon DEF ReadPeers, ReadBehind, Throw
<1>11. ASSUME NEW k \in 1 .. n
       PROVE  PeerAt(text, colon + 1 + (k - 1) * peer_size) = peers[k]
  <2> DEFINE b == (k - 1) * 6
             a == colon + b
             s == Written(peers[k])
  <2>1. IsWritten(peers[k], s) /\ Len(s) = 6
    BY WrittenIs DEF n, IsWritten
  <2>2. b \in Nat /\ b + 6 <= size
    BY <1>1
  <2>3. colon \in Nat /\ colon + size <= Len(text)
    BY <1>3 DEF colon
  <2>4. \A j \in 1 .. 6 : list[b + j] = s[j]
    BY <1>1
  <2> HIDE DEF b, s
  <2>5. a \in Nat /\ a + 6 <= Len(text) /\ colon + 1 + b = a + 1
    BY <1>3, <2>2, <2>3
  <2>6. ASSUME NEW j \in 1 .. 6
        PROVE  text[a + j] = s[j]
    <3>1. b + j \in 1 .. size /\ colon + (b + j) = a + j
      BY <1>3, <2>2, <2>3
    <3>2. text[colon + (b + j)] = list[b + j]
      BY <1>2, <3>1 DEF colon
    <3> QED
      BY <2>4, <3>1, <3>2
  <2> HIDE DEF a
  <2>7. PutAt(text, a, s)
    BY <2>1, <2>6 DEF PutAt
  <2>8. PeerAt(text, a + 1) = peers[k]
    BY <2>1, <2>5, <2>7, PeerRead, Zenon
  <2> QED
    BY <2>5, <2>8 DEF b, peer_size
<1>12. peers = [k \in 1 .. n |-> peers[k]]
  <2>1. peers \in Seq([ip : Seq(Chars), port : Nat])
    BY TrackerAssumption
  <2> QED
    BY <2>1 DEF n
<1> QED
  BY <1>10, <1>11, <1>12

\* PeersReadBack: if the whole list of the tracker has arrived and UpdatePeers has not
\* ended the program, the peers of the round are those of the tracker, with their
\* addresses and ports, in whatever order the keys of the answer are written.
THEOREM PeersRound == Spec => []PeersReadBack
<1>1. Init => PeersReadBack
  BY DEF Init, FileInit, PeersReadBack
<1>2. PeersReadBack /\ [Next]_vars => PeersReadBack'
  <2>1. ASSUME PeersReadBack, [Next]_vars
        PROVE  PeersReadBack'
    <3>1. CASE UpdatePeers
      <4>1. SUFFICES ASSUME stage' = "download", answer'.text = Encode[PeerList(swarm')]
                     PROVE  peers_' = swarm'
        BY DEF PeersReadBack
      <4>2. PICK peers \in Swarms : peers = swarm'
        BY <3>1 DEF UpdatePeers
      <4>3. ReadPeers(Encode[PeerList(peers)])
        <5>1. IF answer'.status # 200 \/ ~Contains(answer'.text, PeersKey[1])
              THEN Throw ELSE ReadPeers(answer'.text)
          BY <3>1 DEF UpdatePeers
        <5>2. ~Throw
          BY <4>1 DEF Throw
        <5> QED
          BY <4>1, <4>2, <5>1, <5>2, Zenon
      <4>4. /\ Encode[PeerList(peers)] \in Seq(Chars)
            /\ \E word : ListAt(Encode[PeerList(peers)], word, FlattenSeq(WrittenPeers(peers)))
        BY ListFound
      <4> QED
        BY <4>1, <4>2, <4>3, <4>4, PeersRead
    <3>2. CASE Load
      BY <3>2 DEF Load, LoadTorrentFile, PeersReadBack
    <3>3. CASE Parse \/ Ended \/ UNCHANGED vars
      <4>1. UNCHANGED <<stage, answer, swarm, peers_>>
        BY <3>3 DEF Parse, Ended, vars
      <4> QED
        BY <2>1, <4>1 DEF PeersReadBack
    <3> QED
      BY <2>1, <3>1, <3>2, <3>3 DEF Next
  <2> QED
    BY <2>1
<1> QED
  BY <1>1, <1>2, PTL DEF Spec
=============================================================================
