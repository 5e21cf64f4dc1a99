-------------------------------- MODULE Wire --------------------------------
(***************************************************************************)
(* One connection, byte by byte: how messages become bytes and bytes       *)
(* messages again (message.cpp, byte_tools.cpp, TcpConnect::ReceiveData),  *)
(* how a remote's announcements become bits (PeerPiecesAvailability), and  *)
(* how a piece is asked for and put together block by block (piece.cpp).   *)
(* When a thread reads, asks and stops is the matter of PeerConnect; here  *)
(* a connection works on one piece, and the remote has it.                 *)
(*                                                                         *)
(* The bytes of the remote arrive in portions of any size.  recv waits for *)
(* all it was asked for (MSG_WAITALL), unless the timeout or the end of    *)
(* the stream comes first.                                                 *)
(***************************************************************************)
EXTENDS Integers, SequencesExt

CONSTANTS
  NPieces,      \* the pieces of the file; one hash less is loaded (Launch)
  Index,        \* the piece worked on,
  PieceLength,  \* and its length
  BLOCK_SIZE,   \* 2^14 in the code
  BitFields,    \* the BitField messages the remote may send,
  Haves,        \* the pieces it may announce in a Have message,
  MaxMessages   \* and how many messages it may send of itself

Pieces == 0 .. NPieces - 1

\* What an int of 32 bits holds with room to spare: the numbers below 2^30.  The code
\* keeps lengths in size_t and sends them as int; a Piece message has nine bytes more.
Numbers == {n \in Nat : n < 64 * 256 * 256 * 256}

ASSUME NPiecesAssumption == NPieces \in Numbers /\ NPieces > 0 /\ Index \in Pieces
ASSUME LengthAssumption ==
  PieceLength \in Nat \ {0} /\ PieceLength + 9 \in Numbers /\ BLOCK_SIZE \in Nat \ {0}

VARIABLES
  stage,          \* "handshake", "bitfield", "loop" or "over"
  stream,         \* every byte the remote has sent,
  arrived,        \* how many of them have arrived,
  position,       \* and how many are read
  sent,           \* the messages the remote has sent,
  handled,        \* and what the code has taken them for
  bitfield_,      \* the bytes of PeerPiecesAvailability, as sets of bits,
  terminator,     \* and the one behind them
  blocks,         \* the data of each block of the piece
  pendingBlock_,
  request         \* the bytes of a request the remote has not answered

vars == <<stage, stream, arrived, position, sent, handled, bitfield_, terminator, blocks,
          pendingBlock_, request>>

-----------------------------------------------------------------------------
(* Integers and messages *)

\* An int of 32 bits, most significant byte first.
IntToBytes(num) ==
  LET low == num \div 256
      high == low \div 256
  IN <<(high \div 256) % 256, high % 256, low % 256, num % 256>>

\* The first byte carries the sign.
BytesToInt(bytes) ==
  LET top == IF bytes[1] < 128 THEN bytes[1] ELSE bytes[1] - 256
  IN ((top * 256 + bytes[2]) * 256 + bytes[3]) * 256 + bytes[4]

Choke == 0
Unchoke == 1
Have == 4
BitField == 5
Request == 6
PieceId == 7
KeepAlive == 10

\* Message::Init and ToString.
MessageBytes(id, payload) == IntToBytes(1 + Len(payload)) \o <<id>> \o payload

Parse(string) ==
  IF string = <<>> THEN [id |-> KeepAlive, payload |-> <<>>]
  ELSE [id |-> Head(string), payload |-> Tail(string)]

\* What ReceiveData returns, if the length and as many bytes have arrived.
MessageLength == BytesToInt(SubSeq(stream, position + 1, position + 4))
MessageHasArrived ==
  /\ position + 4 <= arrived
  /\ position + 4 + MessageLength <= arrived
ReceivedData == SubSeq(stream, position + 5, position + 4 + MessageLength)

-----------------------------------------------------------------------------
(* PeerPiecesAvailability *)

\* The bits of a byte, the lowest first.
Bits(byte) == {k \in 0 .. 7 : (byte \div 2^k) % 2 = 1}

Bit(pieceIndex) == 7 - (pieceIndex % 8)

\* A bitfield has a bit for every piece.
ASSUME BitFieldsAssumption ==
  \A m \in BitFields :
    /\ m = [id |-> BitField, payload |-> m.payload, announced |-> m.announced]
    /\ m.payload \in Seq(0 .. 255) /\ Len(m.payload) = (NPieces + 7) \div 8
    /\ m.announced = {i \in Pieces : Bit(i) \in Bits(m.payload[i \div 8 + 1])}
ASSUME HavesAssumption == Haves \subseteq Pieces

\* bitfield_[size] is the terminator of the string.
IsPieceAvailable(pieceIndex) ==
  LET k == pieceIndex \div 8
  IN Bit(pieceIndex) \in IF k < Len(bitfield_) THEN bitfield_[k + 1] ELSE terminator

\* Mutant: the lowest bit of a byte is that of the first piece.
SetPieceAvailability_LowestFirst(pieceIndex) ==
  LET k == pieceIndex \div 8
  IN IF k < Len(bitfield_)
     THEN /\ bitfield_' = [bitfield_ EXCEPT ![k + 1] = @ \cup {pieceIndex % 8}]
          /\ UNCHANGED terminator
     ELSE UNCHANGED <<bitfield_, terminator>>

\* Writing to the terminator is undefined: the bit is there afterwards, or it is not.
SetPieceAvailability(pieceIndex) ==
  LET k == pieceIndex \div 8
  IN IF k < Len(bitfield_)
     THEN /\ bitfield_' = [bitfield_ EXCEPT ![k + 1] = @ \cup {Bit(pieceIndex)}]
          /\ UNCHANGED terminator
     ELSE /\ terminator' \in {terminator, terminator \cup {Bit(pieceIndex)}}
          /\ UNCHANGED bitfield_

-----------------------------------------------------------------------------
(* The blocks of the piece *)

BlockCount == (PieceLength + BLOCK_SIZE - 1) \div BLOCK_SIZE

Offset(b) == b * BLOCK_SIZE

\* Mutant: the last block is as long as the others.
BlockLength_Whole(b) == BLOCK_SIZE

BlockLength(b) ==
  IF Offset(b) + BLOCK_SIZE >= PieceLength THEN PieceLength - Offset(b) ELSE BLOCK_SIZE

Missing == <<>>

MissingBlocks == {b \in 0 .. BlockCount - 1 : blocks[b] = Missing}

FirstMissingBlock == CHOOSE b \in MissingBlocks : \A c \in MissingBlocks : b <= c

\* The data of the blocks, one behind the other.
GetData == FlattenSeq([k \in 1 .. BlockCount |-> blocks[k - 1]])

-----------------------------------------------------------------------------
(* The remote *)

\* The bytes of the piece, in the remote's file.
File(begin, length) == [k \in 1 .. length |-> (begin + k) % 256]

\* A handshake, each of its fields a byte here: the length of the protocol's name, the
\* name, the reserved bytes, the info hash and the remote's id.
HandshakeSize == 5
Handshake(pstrlen, protocol, infoHash) == <<pstrlen, protocol, 0, infoHash, 0>>
Protocol == 66
InfoHash == 1

\* A message as the remote means it: its id, its payload, and the pieces it announces.
Says(id, payload, announced) == [id |-> id, payload |-> payload, announced |-> announced]

Announcements ==
  {Says(Have, IntToBytes(i), {i}) : i \in Haves}
    \cup {Says(id, <<>>, {}) : id \in {Unchoke, KeepAlive}}
    \cup IF sent = <<>> THEN BitFields ELSE {}

\* The message as bytes: nothing but its length if that is zero.
Frame(m) == IF m.id = KeepAlive THEN IntToBytes(0) ELSE MessageBytes(m.id, m.payload)

Send(m) ==
  /\ sent' = Append(sent, m)
  /\ stream' = stream \o Frame(m)

BigEndian(bytes) == ((bytes[1] * 256 + bytes[2]) * 256 + bytes[3]) * 256 + bytes[4]

RemoteAnnounces ==
  /\ Len(sent) < MaxMessages
  /\ \E m \in Announcements : Send(m)
  /\ UNCHANGED <<stage, arrived, position, handled, bitfield_, terminator, blocks,
                 pendingBlock_, request>>

\* The remote has read a whole request, and answers with the bytes asked for.
RemoteAnswers ==
  /\ request # <<>>
  /\ LET index == SubSeq(request, 6, 9)
         begin == SubSeq(request, 10, 13)
         length == SubSeq(request, 14, 17)
     IN Send(Says(PieceId, index \o begin \o File(BigEndian(begin), BigEndian(length)), {}))
  /\ request' = <<>>
  /\ UNCHANGED <<stage, arrived, position, handled, bitfield_, terminator, blocks, pendingBlock_>>

Arrive ==
  /\ arrived' \in arrived + 1 .. Len(stream)
  /\ UNCHANGED <<stage, stream, position, sent, handled, bitfield_, terminator, blocks,
                 pendingBlock_, request>>

-----------------------------------------------------------------------------
(* The connection *)

Init ==
  /\ stage = "handshake"
  /\ \E pstrlen \in {19, 20}, protocol \in {Protocol, 0}, infoHash \in {InfoHash, 0} :
       stream = Handshake(pstrlen, protocol, infoHash)
  /\ arrived = 0
  /\ position = 0
  /\ sent = <<>>
  /\ handled = <<>>
  /\ bitfield_ = [k \in 1 .. (NPieces - 1 + 7) \div 8 |-> {}]
  /\ terminator = {}
  /\ blocks = [b \in 0 .. BlockCount - 1 |-> Missing]
  /\ pendingBlock_ = FALSE
  /\ request = <<>>

PerformHandshake ==
  /\ stage = "handshake"
  /\ HandshakeSize <= arrived
  /\ position' = HandshakeSize
  /\ stage' = IF stream[1] = 19 /\ stream[2] = Protocol /\ stream[4] = InfoHash
              THEN "bitfield" ELSE "over"
  /\ UNCHANGED <<stream, arrived, sent, handled, bitfield_, terminator, blocks,
                 pendingBlock_, request>>

\* ReceiveData has returned the message m.
Handle(m) ==
  /\ MessageHasArrived
  /\ position' = position + 4 + MessageLength
  /\ handled' = Append(handled, m)

\* The first character of a message without any is the terminator, which is Choke.
ReceiveBitfield ==
  LET data == ReceivedData
      id == IF data = <<>> THEN Choke ELSE data[1]
      payload == SubSeq(data, 2, Len(data))
  IN
  /\ stage = "bitfield"
  /\ Handle([id |-> id, payload |-> payload])
  /\ \/ /\ id = BitField
        /\ bitfield_' = [k \in 1 .. Len(payload) |-> Bits(payload[k])]
        /\ terminator' = {}
     \/ /\ id = Have
        /\ SetPieceAvailability(BytesToInt(payload))
     \/ /\ id \notin {BitField, Have}
        /\ UNCHANGED <<bitfield_, terminator>>
  /\ stage' = IF id = Unchoke THEN "loop" ELSE "bitfield"
  /\ UNCHANGED <<stream, arrived, sent, blocks, pendingBlock_, request>>

RequestPiece ==
  /\ stage = "loop"
  /\ ~pendingBlock_
  /\ IsPieceAvailable(Index)
  /\ MissingBlocks # {}
  /\ LET b == FirstMissingBlock
     IN request' = MessageBytes(Request, IntToBytes(Index) \o IntToBytes(Offset(b))
                                           \o IntToBytes(BlockLength(b)))
  /\ pendingBlock_' = TRUE
  /\ UNCHANGED <<stage, stream, arrived, position, sent, handled, bitfield_, terminator, blocks>>

\* The fields of a Piece message; the index is not looked at.
Begin(payload) == BytesToInt(SubSeq(payload, 5, 8))

\* Mutant: cut one byte too early.
Data_OneEarly(payload) == SubSeq(payload, 8, Len(payload) - 1)

Data(payload) == SubSeq(payload, 9, Len(payload))

\* A message in MainLoop.
ReceiveMessage ==
  LET msg == Parse(ReceivedData)
  IN
  /\ stage = "loop"
  /\ Handle(msg)
  /\ \/ /\ msg.id = Have
        /\ SetPieceAvailability(BytesToInt(msg.payload))
        /\ UNCHANGED <<blocks, pendingBlock_>>
     \/ /\ msg.id = PieceId
        /\ blocks' = [blocks EXCEPT ![Begin(msg.payload) \div BLOCK_SIZE] = Data(msg.payload)]
        /\ pendingBlock_' = FALSE
        /\ UNCHANGED <<bitfield_, terminator>>
     \/ /\ msg.id \notin {Have, PieceId}
        /\ UNCHANGED <<bitfield_, terminator, blocks, pendingBlock_>>
  /\ UNCHANGED <<stage, stream, arrived, sent, request>>

\* Mutant: a timeout is taken for nothing yet, and the next read goes on behind.
ReceiveFails_GoesOn ==
  /\ stage \in {"bitfield", "loop"} /\ ~MessageHasArrived
  /\ position' = arrived
  /\ UNCHANGED <<stage, stream, arrived, sent, handled, bitfield_, terminator, blocks,
                 pendingBlock_, request>>

\* recv returns with less than was asked for: what it has read is lost.  For no bytes
\* at all, those of a keep-alive, it may wait as well.
ReceiveFails ==
  /\ \/ stage = "handshake" /\ arrived < HandshakeSize
     \/ stage \in {"bitfield", "loop"} /\ ~MessageHasArrived
     \/ /\ stage \in {"bitfield", "loop"}
        /\ position + 4 = arrived /\ MessageLength = 0
  /\ stage' = "over"
  /\ position' = arrived
  /\ UNCHANGED <<stream, arrived, sent, handled, bitfield_, terminator, blocks,
                 pendingBlock_, request>>

\* The connection is over, and nothing reads from it again.
Over == stage = "over" /\ UNCHANGED vars

Next ==
  \/ PerformHandshake \/ ReceiveBitfield \/ RequestPiece \/ ReceiveMessage \/ ReceiveFails
  \/ stage # "over" /\ (RemoteAnnounces \/ RemoteAnswers \/ Arrive)
  \/ Over

Spec == Init /\ [][Next]_vars

-----------------------------------------------------------------------------

\* Whatever the portions the bytes arrive in, and wherever they cease: the messages
\* handled are those sent, in order, each whole, none twice, and by a remote that has
\* given the right handshake.  Only a keep-alive is taken for a Choke before the
\* Unchoke, where a Choke changes nothing.
MessagesArriveAsSent ==
  /\ handled # <<>> => SubSeq(stream, 1, HandshakeSize) = Handshake(19, Protocol, InfoHash)
  /\ Len(handled) <= Len(sent)
  /\ \A k \in 1 .. Len(handled) :
       \/ handled[k] = [id |-> sent[k].id, payload |-> sent[k].payload]
       \/ sent[k].id = KeepAlive /\ handled[k] = [id |-> Choke, payload |-> <<>>]

\* The pieces the remote has announced in the messages handled.
Told == UNION {sent[k].announced : k \in 1 .. Len(handled)}

\* A piece is available if the remote has announced it, and only then; but one whose bit
\* lies behind the bitfield, as that of the last piece does if eight divides the
\* number of hashes, may be forgotten.
AvailabilityIsAnnounced ==
  \A i \in Pieces :
    /\ IsPieceAvailable(i) => i \in Told
    /\ i \in Told /\ i \div 8 < Len(bitfield_) => IsPieceAvailable(i)

\* What arrives is put in its place: a block holds the bytes of the remote's file that
\* begin at its offset, as many as it was created for.
BlocksAreOfFile ==
  \A b \in 0 .. BlockCount - 1 :
    blocks[b] # Missing => blocks[b] = File(Offset(b), BlockLength(b))

\* The blocks are the whole piece and no more: when none is missing, their data one
\* behind the other are the piece, byte for byte.
PieceIsOfFile == MissingBlocks = {} => GetData = File(0, PieceLength)
=============================================================================
