# The torrent client prototype, in TLA+

This directory specifies `src/torrent-client-prototype`, a BitTorrent
downloader in C++: what its threads do with the pieces of one file, and what the
program around them makes of the result. The modules are written from the code.
File names below are relative to `src/torrent-client-prototype`.

## 1. The system

The program downloads the one file that a `.torrent` describes. `main` loads the
torrent, builds a `PieceStorage`, and then runs rounds: ask the tracker for
peers, start one thread for each, poll once a second, and at the end of the round
`Terminate` all connections and join all threads. Each thread runs a
`PeerConnect`: handshake, bitfield, interested, then a loop that asks for one
block at a time and gives finished pieces to the storage.

| component | state | operations | talks to |
|---|---|---|---|
| `piece_storage/piece` | `blocks_` (status, data), `retrieved_cnt` | `FirstMissingBlock`, `SaveBlock`, `AllBlocksRetrieved`, `HashMatches`, `Reset` | called by the connection that holds it, without a lock |
| `piece_storage/piece_storage` | queue `remainPieces_`, `saved_`, `outputFile_`, mutex `m_` | `GetNextPieceToDownload`, `PieceProcessed`, `QueueIsEmpty`, the counters | called by all threads, under the mutex |
| `network/peer_connect` | `terminated_` (atomic), `choked_`, `pendingBlock_`, `failed_`, `pieceInProgress_`, `piecesAvailability_` | `Run`, `EstablishConnection`, `MainLoop`, `RequestPiece`, `Terminate` | its socket, the storage; `Terminate` is called by main |
| `network/tcp_connect` | the descriptor `socket_` | `EstablishConnection`, `SendData`, `ReceiveData`, `CloseConnection` | the kernel |
| `network/torrent_tracker` | `url_`, `peers_` | `UpdatePeers` | HTTP, through cpr |
| `network/message`, `utils/byte_tools` | none | framing, big endian, SHA1, hex | called by the above |
| `parsing/bencode`, `parsing/torrent_file` | none | `Parser`, `LoadTorrentFile` | the `.torrent` file |
| `main.cpp` | rounds, threads, `PiecesToDownload`, `procent` | `TestTorrentFile`, `DownloadTorrentFile`, `RunDownloadMultithread`, `CheckDownloadedPiecesIntegrity` | everything |

### What is hard here

* Many threads share one queue and one file. The mutex protects every call, and
  nothing protects a decision made from two calls: `QueueIsEmpty` then
  `GetNextPieceToDownload` (`peer_connect.cpp:178`), or the two counters of the
  poll (`main.cpp:133`).
* A piece leaves the queue when a connection takes it and comes back never; what
  happens to it when the connection dies decides whether the download can end.
* A `Piece` message is trusted to answer the last request: its index is not read.
* `Terminate` is a flag, seen only at the head of two loops; a third loop, in
  `ReceiveBitfield`, does not look.
* Retries: the thread calls `Run` up to three times on the same object.
* Failures: connections break at any point, a write to a dead socket is a signal,
  the file stream may refuse data silently, the tracker may not answer.
* Off-by-ones at the end of the file: the last hash, the last piece, the last bit of
  the bitfield, the last block.
* Bytes that arrive in portions: a message may be cut by the timeout anywhere, a
  tracker's answer by the end of the connection.

### What makes each component correct

* Piece: the counter of `SaveBlock` calls counts retrieved blocks; it never passes
  their number; a piece that is not complete has a block to ask for.
* PieceStorage: each piece has one owner at a time; only checked bytes reach the
  disk; what is saved stays; the counters never wrap.
* PeerConnect: every block that arrives belongs to the piece in hand; a request is
  made when none is pending; after `Terminate` the thread ends.
* Rounds: `false` is returned only for a complete download with no thread left;
  a complete download ends the program; a stalled round is replaced.
* Messages: what is handled is what was sent, whole and in order; a piece is available
  if it was announced; a block lands at its offset.
* Metadata: the fields, the info hash and the list of peers are those that were written.
* Launch: the pieces are those of the file, each with its hash and its length, and the
  final check accepts a complete download. The code keeps neither promise (section 6);
  no piece is empty, which it does keep.

## 2. The modules

| module | models | extends |
|---|---|---|
| `Piece` | `Piece`, as a record and operators | |
| `PieceStorage` | queue, `saved_`, stream, disk: one operator per method | `Piece` |
| `PeerConnect` | the thread of one connection, for every peer; the remote | `PieceStorage` |
| `TorrentClient` | main's rounds, the retry loop of the threads, crash; the whole system's `Spec`, and the properties | `PeerConnect` |
| `PieceLedger` | the abstract promise about each piece | |
| `PeerSession` | the abstract promise about each connection | |
| `Wire` | one connection, byte by byte: messages, bitfield, blocks | |
| `Launch` | `TestTorrentFile`: hashes, pieces, download, final check | |
| `Sockets` | the descriptors of a round's connections, and the output file's | |
| `Bencode` | `Parser`, call by call, and the range of the info hash | |
| `TorrentFile` | `LoadTorrentFile`: the fields, the hashes, the info hash | `Bencode` |
| `TorrentTracker` | `UpdatePeers`, after `LoadTorrentFile`; the tracker | `TorrentFile` |
| `MCTorrentClient`, `MCWire`, `MCLaunch`, `MCSockets`, `MCMetadata` | instances for TLC | |
| `PieceProofs`, `TorrentClientProofs`, `SessionProofs`, `WireProofs`, `LaunchProofs`, `SocketsProofs`, `MetadataProofs` | theorems | |
| `DataLemmas` | lemmas on least elements, trees, sequences and division | |

### Piece and PieceStorage

A piece is `[size, blocks, retrieved_cnt]`; a block is `Missing`, or retrieved with
`Good` or `Bad` bytes, since the code assigns status and data together. SHA1 is
taken to tell the bytes of the file from any others, so `HashMatches` is "all blocks
Good". `Sound` is the set of pieces that were created with the length and hash the
file really has; of the others no data can match. `Launch` shows which pieces these
are: normally all but the last, and without the one before when the last is short.

Each method of `PieceStorage` holds `m_` throughout, hence is one atomic operator in
the step of its caller. `saved_` is a sequence, as the vector is. `disk` says what the
region of each piece holds. When `DiskFails`, the stream may be failed from the start
or fail at any write, and stays so: the code never looks. A write that fails takes nothing
of the piece. `disk` is what the stream has accepted; that a short write or a failing
flush leaves part of a piece in the file is abstracted away.

### PeerConnect

`pc[p]` is the place of the thread; the header of the module lists the places. A
step runs from one access to shared state (a flag another thread sets, the storage,
the socket) to the next. The private code between two such accesses is part of the
step.

* `Run`, `PerformHandshake`, `ReceiveBitfield`, `SendInterested`, `EstablishFails`:
  `Run` and `EstablishConnection`. Any exception there sets `failed_` and ends in
  `Terminate`.
* `MainLoop`, `RequestBlock`, `RequestNothing`, `RequestsNullPiece`, `ReceiveFails`,
  `ReceiveControl`, `ReceivePiece`, `CheckQueue`, `TakeNextPiece`: `MainLoop` and
  `RequestPiece`. An exception ends in `Terminate`, with `failed_` untouched.
* `BrokenPipe`: a `send` on a reset connection raises SIGPIPE, whose default ends the
  process.
* `failed_` is not initialised by the constructor. The thread may read it before
  anything assigns it; the read gives either value, which then stays.
* A remote that lacks the piece in hand makes `RequestPiece` look at the same
  piece again and again and return with nothing sent: `RequestNothing`.

The remote is the environment. It keeps to the protocol: a bitfield comes only while
we establish, a block answers the request that is open, at most once and not while it
chokes us. It may send wrong bytes, be silent, choke, or go away at any time. When it
chokes us it normally drops the request, and may keep it when the request was
overtaken. `Eager` remotes unchoke without being asked; the others wait for our
interested. `inbox` holds one message because the thread reads one at a time; what
is queued behind it in TCP is what the remote may deliver next.

Time is not modelled. The 2 s read timeout may strike whenever nothing has arrived;
the polls and sleeps of main may fall anywhere between the steps of the threads.

### TorrentClient

`StartRound` is `UpdatePeers`, the construction of the connections and the start of
the threads: nothing else runs at that time. The tracker may name any set of peers,
or throw (`TrackerFails`: no caller catches it). `PollSaved` and `PollInProgress` are
the two reads of the poll, under two locks. `TerminatePeer` and `JoinPeers` end the
round. `RetryRun` is the `do ... while` around `Run`. `Crash` ends the process:
by the null pointer or by SIGPIPE. `Halted` lets an ended process stutter, so
deadlock checking stays on everywhere and means that the running program is never
stuck.

### PieceLedger

Each piece is `remaining`, `out` or `saved`. Pieces go out in order, are saved at most
once and only if `Sound`, and `complete` is set only when all are saved. Nothing
brings a piece back from `out`: the code has no such operation. `Save` leaves the
remaining pieces remaining, as `PieceProcessed` does, against a comment (section 6).
`TorrentClient`
implements it with `phase` read off the queue and `saved_`, and `complete` being
main's arrival at the final check.

### PeerSession

What a connection promises its remote in one round and the next: from `new` through
`setup` and `on` to `over`, it asks only while it is `on`, for one block at a time, those
of a piece in ascending order, of pieces only that the remote has announced, and for
nothing more after a request that was lost. `TorrentClient` implements one
`PeerSession` for every peer (`ImplementsSession`): `Stage` is read off the place of the
thread and its flags, `Got` is the count of the piece in hand, `Asked` the request that
is open.

### Wire

`PeerConnect` deals in messages; `Wire` deals in the bytes they are made of, for one
connection that works on one piece. `stream` is what the remote has sent, `arrived` how
much of it has come, `position` how much is read. `PerformHandshake`, `ReceiveBitfield`,
`ReceiveMessage` and `RequestPiece` are the code's, on bytes: `MessageLength` is the
length `ReceiveData` reads, `Parse` is `Message::Parse`, `IntToBytes` and `BytesToInt`
those of `byte_tools`. `ReceiveFails` is a recv that returns less than it was asked for:
the bytes read are lost, and the connection is over. The remote sends a bitfield first
or not at all, `Have` messages, keep-alives and an `Unchoke`, and answers the request it
reads with the bytes of its file. Handshake fields are a byte each, as only their
comparison matters.

`bitfield_` has a bit for every hash loaded, one less than there are pieces. If eight
divides the number of hashes, a `Have` for the last piece writes to the terminator of
the string, which is undefined: the bit is there afterwards or it is not.

### Launch

A well-formed torrent: `length`, `pieceLength`, and a digest for every piece (the
digest of piece `i` is the number `i`). `LoadTorrentFile` keeps all but the last
digest (`i < pieces.size() - 20`). The constructor of `PieceStorage` makes
`procent` percent of the pieces, shortens the one at `pieceHashes.size() - 1`, and
reads behind the end of the vector for the last: some string, or a crash. The
download is one step, possible when all its pieces are those of the file; otherwise it
`Waits`, or ends with the tracker's exception (`TrackerFails`).
`CheckDownloadedPiecesIntegrity` then compares counts and hashes.

### Sockets

Each `TcpConnect` goes from `constructed` through `connecting` and `connected` to `ended`
(or `unrun`, when main terminates it before its thread has run at all), and is
`destroyed` by main when all threads are joined. `owner` is the descriptor table. The
kernel hands out the lowest free number; `Close` frees a number whoever asks. A failed
`EstablishConnection` closes and keeps its number, and the destructor closes it again.
`socket_` is not initialised, so an object starts with any number in it. A connection is
made once per object, which `TorrentClient` shows (`OneConnectionPerThread`). Nothing
else opens or closes descriptors during a round.

### Bencode, TorrentFile and TorrentTracker

The content is a sequence of tokens; a numeral and the name of a key are one token each.
`Encode` is the reference: how the values are written. Only well-formed content is
parsed, and `Sorted` gives the order of the keys, which bencode requires.

`Parser` calls itself. `stack` has a frame with the locals (`val`, `key`,
`info_position`) of every call that waits for another, and `awaits` is what for: an
item of a list, a key, or the value of a key. `position`, `start_hash` and `finish_hash`
are references that all calls share. A step is the part of a call up to the next call
or return: `ParseInt` and `ParseString` are calls that make no other, `ParseVector` and
`ParseMap` the part of a call up to its loop, `EndLoop` the part behind it; `Resume` and
`InfoRange` are what a loop does with the value it called for. Nothing here is
`RECURSIVE`, so that the proofs can use it: `Encode` and `HasKeyInfo` are recursive
functions on `Values`, which `Depth` shows to be trees.

`LoadTorrentFile` takes the fields out of the dictionary. `Field` is `operator[]`, which
makes what is missing, the number 0; `Holds` is whether every `std::get` finds its
alternative. An exception ends the process, for `TestTorrentFile` catches only
`invalid_argument`; a piece length of 0 is divided by. `HashSize` is 20 in the code.
`Launch` has the same loop over the digests with files of hundreds of pieces.

`UpdatePeers` asks once, as `announce_list` is always empty, and looks at the status and
at the text: the first `peers`, the number behind it, the colon, six bytes for each
peer. The tracker knows a torrent by its info hash, answers with its list or a refusal,
and the text may end anywhere while the status is 200. What lies behind the end of the
text is unknown: the process may crash, or go on with any peers.

## 3. The runs

| run | instance | what it shows |
|---|---|---|
| `TwoPeers` | 2 peers, 2 pieces of 2 and 1 blocks, failing disk | all the safety of the download, `ImplementsLedger` and `ImplementsSession` (651,458 states) |
| `Completion` | one eager and one ordinary remote, 2 pieces, bitfield and `Have`, fairness | `TerminateEndsThread`, `CompletedDownloadEnds` (124,981 states) |
| `Wire` | 9 pieces, one of 3 blocks with a short last one; the remote announces until 3 messages are sent, and answers; portions of any size | `MessagesArriveAsSent`, `AvailabilityIsAnnounced`, `BlocksAreOfFile`, `PieceIsOfFile` (119,768 states) |
| `Launch` | files of 0 to 603 bytes, pieces of 1 to 3, `-p` 0 to 150 | `PiecesHaveBlocks` (1,392 states) |
| `Sockets` | 3 connections, 4 descriptors, failing | `SocketIsOwn`, `RoundLeavesNothing`, `OnlyUnrunClosesFile` (2,379 states) |
| `Metadata` | 1,777 torrents; lists of up to 2 peers, 5 refusals, cut anywhere | `ParserReadsBack`, `InfoHashIsOfInfo`, `LoadedAsWritten`, `PeersReadBack` (29,291 states) |
| `NullPiece` | violation | a null dereference in `RequestPiece` |
| `NewPeers` | violation | new peers asked for while a connection is working |
| `StalledRound` | violation | a round with no thread left polls for ever |
| `EndlessBitfield` | violation | a thread that has the bitfield stays in `ReceiveBitfield`, after `Terminate` too (`ReceiveBitfieldReturns`) |
| `ForgottenRequest` | violation | after choke and unchoke no request is sent |
| `DroppedHash` | violation | the pieces of the storage are not those of the file: the last hash is not loaded, the piece before the last is the short one (`PiecesAreOfFile`) |

Why these bounds are enough. Two connections suffice for every race over the queue and
the poll: a step involves one connection and what the others did to the queue before.
Two pieces give "the last" and "not the last"; two blocks give "the first block" and
"the last block" of a piece, and a hash that fails for either. `MaxAttempts` is the
code's own 3. The number of rounds is not bounded: a round starts all connections
anew, so the state space is finite without it. `Launch` has files below, at and above
the 200 pieces that the final check asks for, of whole pieces and with a short last one,
and options that ask for fewer and for more pieces than there are.
In `Sockets` a third
connection is what makes a number be closed by a first, taken by a second, and closed
again while a third looks on; socket() may fail at any time, so more descriptors than
connections add nothing. In `Wire` nine pieces are what makes eight hashes, so that the
last bit lies behind the bitfield; three blocks give a first, a middle and a last one.
The torrents of `Metadata` have keys named info before, in and behind the info value,
strings of the very tokens the parser looks for, and every field missing once; the
tracker's refusals hold the word peers with and without a number behind it, and one of
its lists has a peer whose address reads like the beginning of a list.
The theorems of section 5 remove the bounds for all safety properties.

Symmetry is used in `TwoPeers` (of the peers) and `Sockets` (of the connections), where
all of them have the same constants and all properties are safety or step properties
symmetric in them.

## 4. Fairness

`Fairness` is weak fairness of the main thread and of each peer thread: they are
kernel threads, and none of them waits for a lock that is held for ever. The read
timeout is what makes this enough in `MainLoop`: a thread in `recv` always has a step,
to read or to time out. Nothing is assumed of the remotes except in
`RemotesFallSilent`, used by the runs `Completion` and `StalledRound`: a remote that
never unchokes us one day stops talking for the length of the timeout. That is an
assumption about remotes; `EndlessBitfield` shows that the code does not do without
it. Strong fairness is needed there because each message the remote sends disables the
timeout.

## 5. The proofs

`TorrentClientProofs` proves the safety properties of `TwoPeers` for every `NPieces`, `BlockCount`, `Sound`, `DiskFails`, `Peers`, `Bitfields`, `Haves`
and `Eager` that satisfy the assumptions stated in `PieceStorage` and `PeerConnect`,
and nothing else is assumed.

The safety properties are not inductive. `IInv` strengthens them:

* `QueueInv`: the queue is always `Taken .. NPieces - 1` in order. This turns "not in
  the queue" into "below `Taken`", which makes ownership inductive (`OwnerInv`): a
  taken piece is new to everyone.
* `CountInv`: the counter of a piece is the number of its retrieved blocks, and is
  below the number of blocks unless the piece is saved. This is what makes
  `FirstMissingBlock` safe to dereference; it rests on `SaveBlockCounted` and
  `FirstMissingBlockFound` in `PieceProofs`, by finite cardinality.
* `RequestInv`: an open request, or the block in the inbox, is for a missing block of
  the piece in hand, and `pendingBlock_` is set. Without it a late answer could hit
  another piece. Ownership is what keeps other threads from filling the block.
* `AttemptInv`: only a first attempt finds `terminated_` unset.
* `MainInv`: outside a round no thread runs; when main leaves the poll with `false`,
  as many indices are saved as there are pieces.

`StepKinds` sorts the steps into four kinds (a piece is taken, a block is received, a
round starts, or neither storage nor hands change), so each part of `IInv` has four
cases and not twenty. From `IInv` follow `TypeCorrect`, `OwnershipIsExclusive`,
`DiskIsVerified`, `BlockIsFound`, `AnswersFit`, `NoReconnection`, `InProgressCounts`,
`ReportIsTrue` (all pieces are saved because `NPieces` distinct indices are), the step
property `SavedStays`, and `Refinement`: initial states map to initial states, every
step to a step of the ledger or a stutter.

`SessionProofs` proves that every connection implements `PeerSession`
(`SessionRefinement`), on top of `IInv`.

`WireProofs` proves the four properties of `Wire` for every number of pieces,
piece length and block size below 2^30, every set of bitfields and `Have` messages, and
any number of messages. Its first part is about operators: `NumberBytes` (a number is
read back from its four bytes), `Fields` and `Framed` (where the parts of a message
lie), `ReadFrame` (who reads at the beginning of a message reads that message). The
inductive invariant has three parts. `Arrival` says that the stream is a handshake and
the messages sent, one behind the other, and that who still reads stands at the end of
the last message handled: that is what the mutant that reads on after a timeout breaks,
and what makes every next message arrive whole. `Announced` says that no two pieces
share a bit and at most one lies behind the bitfield, hence `AvailabilityAnnounced`.
`Placed` is `BlocksAreOfFile`; it holds since a request has the offset of a block
(`BlockFacts`), the remote returns it (`RequestFields`), and the division in `SaveBlock`
finds the block again (`AnswerFields`). `FirstMissing` needs that a set of naturals has
a least element, which `DataLemmas` proves. `PieceOfFile` follows from `Placed`: when no
block is missing, each holds the bytes of the file from its offset on, each begins where
the one before it ends, the last one ends with the piece, and `FlattenIs` says what
`FlattenSeq` then makes of them (`BlocksArePiece`).

`LaunchProofs` proves `TypeCorrect` and `BlocksToAskFor` for every file length, piece length
and option. `PiecesHaveBlocks` is inductive by the types alone: only the constructor
changes it, and `ConstructedLengths` says that what it makes is of `pieceLength`, or is the
one piece with the last hash and has the remainder, which is not 0 then.

`SocketsProofs` proves the properties of `Sockets` for every set of connections and
descriptors. `OwnerRemembers` (what a connection owns is what it will close) gives
`NothingIsLeft`; `FileIsNoSocket` (while the file is open, no connection that called
socket() has its number) gives `FileIsKept`.

`MetadataProofs` proves the four properties of `Metadata` for every set of values that
are trees, every set of keys, characters and numerals, every size of a digest and every
list of peers. Assumed is only what the constants stand for: two numbers have two
numerals, and no numeral is a mark (`NumeralAssumption`); a dictionary is written with
each of its keys once (`KeysAssumption`); what is in a value is less deep than the value
(`ValuesAssumption`); a peer is four bytes and a port of two, and a numeral is not the
word peers (`TrackerAssumption`).

* How values are written. `EncodeIs` unfolds the recursion of `Encode`, and `LaidOut`
  says where each item of a list or a dictionary begins and ends (`Offsets`); `At(text,
  o, v)` says that `v` is written behind the first `o` characters.
* The invariant. `ParserReadsBack` says nothing of the calls that wait. `ParserInv` does:
  the frames on the stack are those of a path of nested values (`calls`), each written
  where the one around it was read up to (`Called`), each with what its loop has read so
  far in its locals (`Suspended`), and `position` is behind all that (`Reached`). So what
  comes next is known (`Upcoming`), and a step reads it, begins a call for it, or returns
  (`PushStep`, `PopStep`, `ResumeStep`). Which of them the code chooses depends on one
  character only; that it is the right one is what `Beginning` and `AtEndIs` show, from
  the first character of a value, which never is an `e`. From `ParserInv` follows
  `ParserReads`: the stack is empty when `Parser` returns, and all is read.
* The range. Every key info sets it, so while the value of the torrent's own is read it
  may change many times. `Ranged` begins with the end of that value: from there on the
  range is that of the value, and no call that waits is within a value that has the key
  again. `InfoHashOfInfo` follows when there is none behind it.
* `LoadedWritten` rests on `FieldKinds` (a field `std::get` accepts is there and was
  written, except a length of 0, which may be `operator[]`'s) and `DigestsInOrder`.
* `PeersRound`: `ListFound` shows, for either order of the two keys, that the first
  `peers` in the answer is the key, with the number behind it that of the list;
  `ListIs` and `PeerRead` that the bytes at six times `k` are those of peer `k + 1`.

The library states induction for operators, which the prover cannot instantiate.
`DataLemmas` therefore proves what is needed for sets and functions, from the
well-foundedness of strict subsets of a finite set: a set of naturals has a least element
(`LeastNatural`), what holds at 0 and is handed on holds up to any number (`Upwards`), a
recursive function on trees is what its definition says (`TreeRecursion`), a set of trees
that has every tree whose parts it has is all of them (`TreeInduction`), and what
`FlattenSeq` computes (`FlattenIs`, `FlattenParts`).

Only model-checked: the liveness properties (`TerminateEndsThread`,
`CompletedDownloadEnds`), because the prover handles neither fairness nor `ENABLED`.
Every safety property and step property of a run that passes is a theorem.

## 6. What the code does and its comments do not say

* `RequestPiece` dereferences the piece without looking (`peer_connect.cpp:128`); it
  is null when another connection has taken the last one (`NullPiece`).
* The poll's two reads may see a piece saved and its connection not yet holding the
  next one: main ends a working round (`NewPeers`).
* A piece whose connection died counts as in progress for ever; once all threads are
  gone main polls without end (`StalledRound`). `piece_storage.h:61` has the missing
  `ReturnPiece` as a comment.
* `ReceiveBitfield` waits for `Unchoke` whatever the flag says, and before interested is
  sent. The comments of `peer_connect.h:84` and `:94` have the bitfield, or an `Unchoke` in
  its stead, and then interested; that of `peer_connect.h:66` has a flag that ends the
  communication. By either a thread that has the bitfield and is terminated leaves
  `ReceiveBitfield`; here it does not (`EndlessBitfield`). Remotes that wait for interested
  before they unchoke are never served.
* `piece_storage.h:27` says of `PieceProcessed` that within the exercise the queue of pieces
  is to be cleared as soon as one piece is downloaded. `piece_storage.cpp:36` saves the
  piece and clears nothing. `PieceLedger` and the models follow the code: a `Save` leaves
  the other pieces remaining, and a storage that obeyed the comment would refine no
  `PieceLedger` with more than one piece. It could not work with the rest of the code
  either: the pieces cleared would count as in progress for ever (`piece_storage.cpp:70`),
  and main's poll (`main.cpp:133`) waits until all pieces are saved.
* After a choke and an unchoke `pendingBlock_` is still set and nothing is asked for
  (`ForgottenRequest`); the connection dies at the read timeout.
* The last hash is dropped (`torrent_file.cpp:42`), and the piece of the last hash that is
  left, the last but one, is made the short one (`piece_storage.cpp:10`), against
  `piece.h:33`: `DroppedHash` shows both in one state. The last piece has no digest and, if
  the file's last piece is short, the one before it has the wrong length: no data match
  them and a download that asks for them waits for ever. One that asks for less fails
  `CheckDownloadedPiecesIntegrity` (`main.cpp:49`), which compares the pieces with the
  hashes and with the whole file: its stage `passed` is not reached in `Launch`.
* A connection whose thread never got to run closes an uninitialised number when it is
  destroyed, and that may be the output file's: what `OnlyUnrunClosesFile` leaves open.
* Any key named info sets the range of the info hash. The last one read wins, so
  `InfoHashIsOfInfo` needs that none comes behind the torrent's own.
* Eight hashes have a bitfield of one byte, and the ninth piece has no bit in it: its
  availability may be forgotten (`AvailabilityIsAnnounced` allows for it).
* A keep-alive before the `Unchoke` is taken for a `Choke` in `ReceiveBitfield`, where
  nothing follows from it (`MessagesArriveAsSent` allows for it).
* A torrent without a comment, which is optional elsewhere, ends the process, as one
  without any other string does; one without a piece length ends it by a division.
* A tracker's answer that is cut off is read as if it were whole.
* A failed output stream is never noticed: pieces it did not take count as saved. That is
  why `OnlyVerifiedOnDisk` and `ReportedDownloadIsComplete` speak of `outputFile_`.
* The retries of a thread never reconnect: `Terminate` is for good
  (`OneConnectionPerThread` holds).

## 7. Not modelled, and why

* The remote that breaks the protocol (a block nobody asked for, a short bitfield, an
  index out of range). The code indexes unchecked there, and what follows is undefined.
* Content of a torrent that is not well-formed: `Parser` reads behind its end.
* SHA1, which is OpenSSL's, and `HexEncode`, which only words an error.
* `getopt`, logging, `DeleteDownloadedFile`, `PrepareDownloadDirectory` and
  `RandomString`: no state the download depends on.
* `build/`, `CMakeLists.txt`: generated files and settings.

## 8. Plan

Done, in this order: `Piece`, `PieceStorage`, `PeerConnect`, `TorrentClient`,
`PieceLedger`, `Launch`, `Sockets`, with their proofs; `Bencode`; `PeerSession` and its
refinement; `Wire` and its proofs; `TorrentFile` and `TorrentTracker`, and the proofs
about the metadata. Left:

1. `Sockets` and `TorrentClient` related: the descriptor's stages as a refinement of the
   thread's places, so that `OneConnectionPerThread` is no longer an assumption there.
2. The options of `main` (`-d`, `-p` with a number that is negative or none) in `Launch`.
