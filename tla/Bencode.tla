------------------------------- MODULE Bencode -------------------------------
(***************************************************************************)
(* Bencode::Parser, on the content of a well-formed torrent.               *)
(*                                                                         *)
(* The content is a sequence of tokens: the marks i, l, d, e and the colon,*)
(* a numeral (one token, however long) and the characters of strings, any  *)
(* of which may look like a mark or a numeral.  The name of a key is one   *)
(* token too.  Parser calls itself for what is within a list or a          *)
(* dictionary; stack has a frame for each call that waits for another, and *)
(* a step runs from one call or return to the next.                        *)
(***************************************************************************)
EXTENDS Integers, SequencesExt

CONSTANTS
  Values,    \* the values of Bencode::Type that are written,
  Depth,     \* and how deep each is nested
  Chars,     \* the tokens
  Numeral,   \* the numerals of the integers and sizes
  Keys,      \* the keys of dictionaries
  Sorted,    \* in the order in which those of a dictionary are written
  Torrents   \* the values a torrent may consist of

Marks == {"i", "l", "d", "e", ":"}

Numbers == DOMAIN Numeral

ASSUME NumeralAssumption ==
  /\ Marks \subseteq Chars /\ Numbers \subseteq Int
  /\ Numeral \in [Numbers -> Chars \ Marks]
  /\ \A m, n \in Numbers : Numeral[m] = Numeral[n] => m = n

\* The alternatives of Bencode::Type.
IntValue(n) == [kind |-> "int", val |-> n]
StringValue(s) == [kind |-> "string", val |-> s]
VectorValue(s) == [kind |-> "vector", val |-> s]
MapValue(m) == [kind |-> "map", val |-> m]

IsString(s) == s \in Seq(Chars) /\ Len(s) \in Numbers

ASSUME KeysAssumption ==
  /\ \A key \in Keys : StringValue(key) \in Values
  /\ \A ks \in DOMAIN Sorted : LET s == Sorted[ks] IN
       /\ s \in Seq(ks)
       /\ \A key \in ks : \E k \in 1 .. Len(s) : s[k] = key
       /\ \A j, k \in 1 .. Len(s) : s[j] = s[k] => j = k

Leaf(v) ==
  \/ v = IntValue(v.val) /\ v.val \in Numbers
  \/ v = StringValue(v.val) /\ IsString(v.val)

Container(v) ==
  \/ v = VectorValue(v.val) /\ v.val \in Seq(Values)
  \/ /\ v = MapValue(v.val) /\ v.val \in [DOMAIN v.val -> Values]
     /\ DOMAIN v.val \in DOMAIN Sorted /\ DOMAIN v.val \subseteq Keys

-----------------------------------------------------------------------------
(* Reference: how a value is written *)

\* What is written between the marks of a list or a dictionary, one behind the other.
Items(v) ==
  IF v.kind = "vector" THEN v.val
  ELSE LET keys == Sorted[DOMAIN v.val]
       IN [k \in 1 .. 2 * Len(keys) |->
             IF k % 2 = 1 THEN StringValue(keys[(k + 1) \div 2]) ELSE v.val[keys[k \div 2]]]

\* Values are trees.
ASSUME ValuesAssumption ==
  /\ Depth \in [Values -> Nat]
  /\ \A v \in Values :
       \/ Leaf(v)
       \/ Container(v) /\ \A k \in 1 .. Len(Items(v)) : Depth[Items(v)[k]] < Depth[v]
  /\ Torrents \subseteq {v \in Values : v.kind = "map"}

Encode[v \in Values] ==
  CASE v.kind = "int" -> <<"i", Numeral[v.val], "e">>
    [] v.kind = "string" -> <<Numeral[Len(v.val)], ":">> \o v.val
    [] OTHER ->
         <<IF v.kind = "vector" THEN "l" ELSE "d">>
           \o FlattenSeq([k \in 1 .. Len(Items(v)) |-> Encode[Items(v)[k]]])
           \o <<"e">>

-----------------------------------------------------------------------------
(* Parser *)

VARIABLES
  torrent,      \* what was written,
  content,      \* and as what
  position,     \* of the next character; that of the first is 1 here
  start_hash, finish_hash,
  stack,        \* the calls that wait for the call of another Parser, the last one on top
  parsed        \* what the outermost call returns

parserVars == <<torrent, content, position, start_hash, finish_hash, stack, parsed>>

Info == <<"info">>

NotParsed == [kind |-> "none"]

\* start_hash and finish_hash are not initialised; 0 stands for whatever they are.
ParserInit ==
  /\ torrent \in Torrents
  /\ content = Encode[torrent]
  /\ position = 1
  /\ start_hash = 0
  /\ finish_hash = 0
  /\ stack = <<>>
  /\ parsed = NotParsed

\* The first place of a mark, from a position on.
Find(text, mark, from) ==
  CHOOSE k \in from .. Len(text) :
    text[k] = mark /\ \A j \in from .. k - 1 : text[j] # mark

\* std::stoll, on a numeral.
stoll(numeral) == CHOOSE n \in Numbers : <<Numeral[n]>> = numeral

\* The locals of a call within its loop, and what it has called Parser for.
Frame(kind, val, awaits) ==
  [kind |-> kind, val |-> val, awaits |-> awaits, key |-> <<>>, info_position |-> 0]

\* A loop ends at an e; between a key and its value there is no look at the mark.
AtEnd ==
  /\ stack # <<>> /\ stack[Len(stack)].awaits # "value"
  /\ content[position] = "e"

\* The current character of a call that begins.
Current(char) == parsed = NotParsed /\ ~AtEnd /\ content[position] = char

\* Mutant: the range runs from the key.
InfoRange_WithKey(frame, next) ==
  IF frame.key = Info
  THEN [start |-> frame.info_position - 2 - Len(Info), finish |-> next - 1]
  ELSE [start |-> start_hash, finish |-> finish_hash]

\* After a key and its value: where the value began and ended, if the key is info.
InfoRange(frame, next) ==
  IF frame.key = Info
  THEN [start |-> frame.info_position, finish |-> next - 1]
  ELSE [start |-> start_hash, finish |-> finish_hash]

\* What a loop does with the value it has called Parser for.
Resume(frame, v, next) ==
  CASE frame.awaits = "item" -> [frame EXCEPT !.val = Append(@, v)]
    [] frame.awaits = "key" ->
         [frame EXCEPT !.awaits = "value", !.key = v.val, !.info_position = next]
    [] frame.awaits = "value" ->
         [frame EXCEPT !.awaits = "key",
                       !.val = [key \in DOMAIN @ \cup {frame.key} |->
                                  IF key = frame.key THEN v ELSE @[key]]]

\* A call returns v, with the next character at next, to the last of the frames.
Return(v, frames, next) ==
  /\ position' = next
  /\ IF frames = <<>>
     THEN stack' = <<>> /\ parsed' = v /\ UNCHANGED <<start_hash, finish_hash>>
     ELSE LET top == frames[Len(frames)]
          IN /\ stack' = [frames EXCEPT ![Len(frames)] = Resume(top, v, next)]
             /\ IF top.awaits = "value"
                THEN LET range == InfoRange(top, next)
                     IN start_hash' = range.start /\ finish_hash' = range.finish
                ELSE UNCHANGED <<start_hash, finish_hash>>
             /\ UNCHANGED parsed
  /\ UNCHANGED <<torrent, content>>

ParseInt ==
  LET end == Find(content, "e", position)
  IN /\ Current("i")
     /\ Return(IntValue(stoll(SubSeq(content, position + 1, end - 1))), stack, end + 1)

\* Mutant: what looks like the end of a value is left out of a string.
ParseString_NoMarks ==
  LET colon == Find(content, ":", position)
      size == stoll(SubSeq(content, position, colon - 1))
      Kept(char) == char # "e"
  IN /\ parsed = NotParsed /\ ~AtEnd /\ content[position] \notin {"i", "l", "d"}
     /\ Return(StringValue(SelectSeq(SubSeq(content, colon + 1, colon + size), Kept)),
               stack, colon + size + 1)

ParseString ==
  LET colon == Find(content, ":", position)
      size == stoll(SubSeq(content, position, colon - 1))
  IN /\ parsed = NotParsed /\ ~AtEnd /\ content[position] \notin {"i", "l", "d"}
     /\ Return(StringValue(SubSeq(content, colon + 1, colon + size)), stack, colon + size + 1)

Call(frame) ==
  /\ stack' = Append(stack, frame)
  /\ position' = position + 1
  /\ UNCHANGED <<torrent, content, start_hash, finish_hash, parsed>>

ParseVector == Current("l") /\ Call(Frame("vector", <<>>, "item"))

ParseMap == Current("d") /\ Call(Frame("map", [key \in {} |-> key], "key"))

\* The loop of a list or a dictionary has come to its end.
EndLoop ==
  LET top == stack[Len(stack)]
  IN /\ parsed = NotParsed /\ AtEnd
     /\ Return([kind |-> top.kind, val |-> top.val], Front(stack), position + 1)

Parser == ParseInt \/ ParseString \/ ParseVector \/ ParseMap \/ EndLoop

-----------------------------------------------------------------------------

\* What was written is read back, to the last character, whatever the characters of
\* its strings look like; and no character behind the last is looked at.
ParserReadsBack ==
  IF parsed = NotParsed THEN position \in 1 .. Len(content)
  ELSE parsed = torrent /\ position = Len(content) + 1

HasKeyInfo[v \in Values] ==
  /\ Container(v)
  /\ \/ v.kind = "map" /\ Info \in DOMAIN v.val
     \/ \E k \in 1 .. Len(Items(v)) : HasKeyInfo[Items(v)[k]]

\* A dictionary with the key info behind that of the torrent.
InfoComesAgain ==
  LET keys == Sorted[DOMAIN torrent.val]
  IN \E j, k \in 1 .. Len(keys) :
       j < k /\ keys[j] = Info /\ HasKeyInfo[torrent.val[keys[k]]]

InfoAsWritten == Encode[torrent.val[Info]]

\* torrent_file.cpp:46: the info hash is that of the bencoded value of info.  The range
\* it is taken from is that value of the torrent, although keys of that name within
\* it, or before it, set the range as well; but not if one comes behind it.
InfoHashIsOfInfo ==
  parsed # NotParsed /\ Info \in DOMAIN torrent.val /\ ~InfoComesAgain
    => SubSeq(content, start_hash, finish_hash) = InfoAsWritten
=============================================================================
