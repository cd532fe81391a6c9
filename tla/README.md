# A TLA+ verification project for nx-libs

NX runs X sessions over slow links. An X client talks to a *client proxy*
(inside the agent, `nxagent`), which compresses its requests and sends them
over one TCP link to a *server proxy*, which talks to the real X server. Both
proxies are the library `nxcomp`. This project models the part of `nxcomp` on
which everything else rests: two processes that keep the same caches without
ever comparing them, and multiplex many connections on a link that they never
acknowledge; and of `nxagent` the two parts with the most intricate protocols,
the life of a session across displays and the clipboard between two X servers.

The modules are checked with TLC on small instances, and the most important
properties are proved with TLAPS for every value of the constants.

## 1. Inventory

### 1.1 The parts of the system

| part | state | operations | talks to |
|---|---|---|---|
| Reply queue (`SequenceQueue.cpp`) | circular array, head, tail, length | `push`, `pop`, `peek` | the channels: a request that will get a reply is pushed when it is forwarded, the reply is matched with the head |
| Message cache (`Message.cpp`, `Channel.cpp`, one `*.cpp` per kind of message) | slots, ratings, checksum table, `lastAdded`, `lastRemoved`, `lastRated`; the slots alone on the decoding side | `findOrAdd`, `clean`, `remove`, `touch`, `updateIdentity`; `handleEncodeCached`, `handleDecodeCached`, `handleSave` | its twin at the other end, through the actions written to the link; the split store, which locks slots |
| Channels and framing (`Proxy.cpp`, `ClientProxy.cpp`, `ServerProxy.cpp`, `Channel.cpp`, `GenericChannel.cpp`) | channel table, output and input channel, control codes, encode buffer, congestion flags | new connection, read, switch, finish, drop, flush, congestion codes | local sockets, the link, every channel |
| Token flow control (`Proxy.cpp`) | bytes and tokens left of three kinds, congestion flag | `handleToken`, `handlePing`, `handleTokenFromProxy`, `handleTokenReplyFromProxy` | framing, statistics, the loops that read from channels |
| Splits (`Split.cpp`, `ClientChannel.cpp`, `ServerChannel.cpp`, `Proxy.cpp`, nxagent `Split.c`) | split stores per agent resource, commit store, image files | start, send, commit, abort, notify | message cache (locks), tokens, agent (events) |
| Field caches (`IntCache`, `CharCache`, `XidCache`, `FreeCache`, `ActionCache`, `BlockCache`) | move-to-front lists on both sides | encode, decode | bit buffers |
| X encoders (`ClientChannel.cpp`, `ServerChannel.cpp`) | per opcode | one case per opcode | stores, queue, field caches |
| Link start, shutdown, timeouts (`Loop.cpp`, `Proxy.cpp`) | negotiation state, timestamps | options, shutdown request, alert, abort | the agent, the transports |
| Persistent cache (`Proxy.cpp`, `Message.cpp`, `Loop.cpp`) | files on both sides | choose, load, save, verify | negotiation |
| Keeper (`Keeper.cpp`) | the cache directory | remove old files | files of the proxies |
| Transports, sockets, authentication, codecs, logging | byte buffers | input and output | all |
| nxagent sessions (`Reconnect.c`, `Display.c`, `Handlers.c`) | session state, exception flags, display records, reconnection trap | suspend, resume, undo, terminate | signals, I/O errors, the transport |
| nxagent clipboard (`Clipboard.c`, with `NXdispatch.c`, `NXproperty.c`, `Events.c`) | owner, pending request of each direction, cached targets, collecting resources | claim, clear, convert, answer, collect, reconnect | local clients, the real X server, itself through it |
| nxagent drawing (`Drawable.c`, `Window.c`, ...) | synchronisation of drawables | corrupt, synchronize, map | X server core |
| nxcompshad, nxproxy, X server core, Mesa | | | front ends and third-party code |

### 1.2 What is hard

* **Nothing is acknowledged.** The encoder changes its stores when it writes,
  the decoder when it reads, an arbitrary time later. One action applied in a
  different state corrupts everything after it, silently.
* **Codes overtake data.** A frame carries its control codes in front of the
  data, although the data was encoded first, and the id of a channel is only
  written when it changes.
* **Ids are reused.** The channel of an id can be closed from both sides, while
  messages about it are still on the link.
* **Slots are locked** for as long as a split takes; they must not be hit,
  replaced or cleaned meanwhile.
* **A report crosses what it should stop**: the server proxy finds an image on
  disk while its data is on the way, and both sides have to drop the same rest.
* **Two meanings of congestion**: no tokens, and no news from the peer. Token
  replies are not urgent and wait for a frame the other side may not need.
* **Signals between any two steps**: a SIGHUP or a dead display only raises a
  flag, and a reconnection of a dozen steps can fail at each of them.
* **Answers without names**: neither a selection event nor a collected property
  says which request it answers.
* **Two machines, two files**: the persistent caches are written by two processes
  that can die between the two saves, and are matched by name.
* **Numbers at their limits**: ratings, a hash table as large as the store, an
  index that starts out of the array, differences modulo the width of a field,
  weights in one byte.

`PROJECT.json` lists these hazards one by one at the line where they bite, with
the property that covers each, or the reason why none does yet.

### 1.3 What makes each part correct

* queue: it is a first-in first-out list, through wrap-around and growth;
* message cache: the decoding store goes through the states of the encoding
  one; the X server gets exactly what the client sent; a hit is never on a
  message whose data is missing; the checksum table is exact; searches end;
* channels: encoded data belongs to the output channel, is decoded with that
  channel's id selected, and reaches the channel of the same connection; a
  channel that is over is reclaimed; a reader is stopped exactly when its other
  end does not keep up;
* tokens: none is lost or made up; nothing is read without them; they come back;
* field caches: the lists of the two sides go through the same states; a field
  comes out as it went in; a reader of bits stops where the writer did;
* splits: both sides hold the same splits, commits and slots of the cache; what is
  drawn is whole; nobody gives up; a locked message is one whose split is under way;
  the agent gets every resource back;
* sessions: one good display record, the others closed once; up means whole, down
  means clean; a session that goes up or down gets there;
* persistent caches: both proxies load the same cache or none; a crash leaves a
  cache that was there; a damaged file does not stop every later session;
* clipboard: both servers agree on the owner; one answer per request, with the
  data made for it; cached targets are of the present owner; everyone is answered.

## 2. Modules

| module | models | instance of |
|---|---|---|
| `Fifo` | what a queue promises | |
| `SequenceQueue` | `SequenceQueue.cpp` | refines `Fifo` |
| `Link` | what the two proxies promise: a lossless link | |
| `MessageStore` | the encoding store, the actions on the link, the decoding store | refines `Link` |
| `MCMessageStore` | symmetry for TLC | extends `MessageStore` |
| `MessageStoreProofs` | proofs | extends `MessageStore` |
| `Channels` | channel table, framing, shutdown, congestion of single channels | |
| `ChannelsProofs` | proofs | extends `Channels` |
| `FlowControl` | tokens, pings, congestion of a proxy | |
| `FlowControlProofs` | proofs | extends `FlowControl` |
| `FieldCache` | `IntCache`, `CharCache`, `XidCache`, `FreeCache`, `ActionCache`, `OpcodeCache` on both sides | refines `Link` |
| `StructureProofs` | proofs about the queue, the field caches and the bits | extends `SequenceQueue`, `FieldCache`, `BitCoding` |
| `BitCoding` | `EncodeBuffer`, `DecodeBuffer`: the bits of a frame | |
| `Splits` | split and commit stores of both proxies, image files, the agent | |
| `MCSplits` | symmetry for TLC | extends `Splits` |
| `SplitsProofs` | proofs | extends `Splits` |
| `Session` | suspend and resume of `nxagent` | |
| `SessionProofs` | proofs | extends `Session` |
| `PersistentCache` | the negotiation, loading and saving of caches, session after session | |
| `PersistentCacheProofs` | proofs | extends `PersistentCache` |
| `Clipboard` | `Clipboard.c` between the local clients and the real X server | |
| `MCClipboard` | the option values for TLC | extends `Clipboard` |
| `ClipboardProofs` | proofs | extends `Clipboard` |

Definitions keep the names of the code. `PROJECT.json` maps each to its lines.
Definitions called `...Mutant`, and a few with names of their own marked
`Mutant:` in their comment, are plausible mistakes: no specification uses them,
they serve to see that each property can fail.

### 2.1 `SequenceQueue`

`queue`, `size`, `length`, `start`, `end` are the five fields of the class.
`push` is three actions, one per branch: on an empty queue (which starts again
at slot 0), with room, and on a full array (`Grown` is the two copy loops).
Slots that were allocated and never written hold `Junk`. An entry is one value:
the code moves its five fields together.

### 2.2 `MessageStore`

A message is a *key*, that is everything that enters its MD5, and the value of
its *variant* fields, which do not. MD5 is taken to be free of collisions, as
the code does. `messages`, `hits`, `checksums`, `lastAdded`, `lastRemoved` and
`lastRated` are the state of the encoding store; `decMessages`, `whole` (the
slots whose data has arrived) and `parked` (the identity kept with a split) that
of the decoding side. `wire` holds the actions written and not yet read.
`history` is a ghost: it remembers what each item was made from, and no guard
reads it.

* `Position` and `Worn` are the search loop of `findOrAdd` in closed form: a
  visit ends it when the slot is free or its message, worn by the earlier
  visits, rates zero. `CleanPosition` and `CleanWorn` are the loop of `clean`.
* `FindNothing`, `FindLocked`, `FindHit`, `FindAdded` are the outcomes of
  `findOrAdd` in `handleEncodeCached`, `EncodeUncached` its early exits.
* `Clean` and `CleanNothing` are a turn of the loop that makes room at the
  start of `handleEncodeCached`. It is an action of its own: how often it runs
  depends on the memory taken by all the stores together, which the model leaves
  open, and it may run before any message.
* `CommitSplit` is the commit of a recomposed split. How its data gets there is
  the subject of `Splits`; here it may come at any time after the lock.
* `DecodeRemoved` ... `DecodeCommit` are the branches of the decoder. A step is
  not enabled on an empty slot where the code calls `HandleAbort`; `Coherent`
  says that this never happens.

`Init` is any pair of equal loaded caches: the state after a persistent cache
was loaded, or the empty one.

### 2.3 `Channels`

`channels` is the table of each proxy; a channel has the flags `finish`,
`closing`, `drop` and `congestion`, and the number of its connection, which the
code does not have: it tells apart the connections that used the same id. `tx`
holds `controlCodes_`, `encodeBuffer_`, `outputChannel_` and the link of each
side, `input` is `inputChannel_`, `congestions` the ids whose remote end does
not keep up.

`handleFrame`, `addControlCodes`, `handleControl`, `handleSwitch`, `handleDrop`
and `flush` are operators on a transmitter, as the code calls them from many
places. The actions are the events of a proxy: a new connection, something read
or the end of a connection, the flush, the loop of `handleEvents` for one
channel, the end of a congestion; and one action per message of the peer, with
its failures (`DataFromProxyFails`, `DataFromProxyStalls`,
`NewFromProxyRefused`).

Handlers run from end to end. In the client proxy `handleFrame` may read from
the link while it writes (`handleAsyncEvents`). Only the client proxy allocates
the ids of this model, so that read only marks channels; it is modelled as read
before or after the handler.

`Racing`, `ConnectFails` and `WriteFails` are the sets of connections that are
closed at both ends at once, refused, or broken while written to; `Stalls` allows
readers that do not keep up. The properties about connections speak of those that
are in none of these sets (`Polite`). `channels` has one connection that may do all of it,
the last to be opened: it takes the id of a polite one, or lives beside it. That a
connection that comes after a rude one is safe is what `channels_race` refutes.

### 2.4 `FlowControl`

`bytes`, `remaining` and `congestion` are the fields of the three tokens and of
the proxy; `encoded` is what the statistics have counted and `handleToken` has
not asked yet; `buffered`, `control` and `link` are the outgoing data. Bytes are
counted after compression and are otherwise abstract.

`handleFlush` is `handleFrame(frame_data)`: it updates the bytes, adds one
request per token that is used up, subtracts its weight, and stops the proxy
without control tokens. `handlePing` is the four combinations of silence and
ping. `ReadX`, `ReadGeneric`, `handleSplit` consume; `handleSplit` is not guarded
by the congestion, because `handleEvents` tests it once for all the channels.

### 2.5 `FieldCache` and `BitCoding`

A field of a message is written as an index in a list that both sides keep, or
as a difference from the last value that was inserted. `enc` and `dec` are the
lists of the two sides, with the predicted block sizes, `wire` the tokens in
between. `FieldEncodings` and `FieldDecodings` are the methods of the encode and
the decode buffer for each kind of field. They are sets: an encoding is the only
element of its set, and a decoding has none where the code aborts and several where
bits are read with the wrong block size.

Below that, `BitCoding` writes numbers in blocks with a bit after each that says
whether the rest repeats the last one, indexes in unary and raw data at the next
byte, and reads them back with only the kinds of the fields known. The loops of
`encodeValue` and `decodeValue` are four turns of `WriteBlock` and `ReadBlock`: the
fourth block takes all the bits that are left.

### 2.6 `Splits`

`client` and `server` are the split stores, the commit store, the cache slots and
the pending state of the two sides of a channel; `disk` holds the image files,
`toServer` and `toClient` what is on the link, `events` the notifications the
agent has not handled, `agent` its record of a split resource (`Split.c`).
An image is a key with one slot; its data is a number of chunks in one of three
formats, and `csize` the format that its size says. The actions are the requests
of the agent (start, image, end, commit, abort, finish), the timer of its proxy
(`HandleSplit`), each message the server proxy decodes, its reports, and what
happens to files. `May` says which misfortunes may occur.

A handler of the agent's side that sends in a loop is a function of the state of
the client with what it has put on the link and among the events so far:
`SendTurn` is one turn of the loops of `handleSplit`, `handleAsyncSplit` and
`handleFinishSplitRequest`, `CommitTurn` one of `nxagentWaitCommitEvent`, and the
action takes as many turns as there can be splits or events.

### 2.7 `Session`

`pc` is where the main loop of the agent stands: between the block and wakeup
handlers and the steps of `nxagentHandleConnectionChanges`, a SIGHUP, a
termination request or an I/O error may come at any point. `display`, `backup`,
`conn` are the display records and their life; `home` tells on which display each
of the twelve steps of `nxagentReconnectSession` was last carried out, which is
all that the properties need of what the steps rebuild. `Silent` allows opening a
display to fail without an I/O error.

### 2.8 `PersistentCache`

`dir` is the directory of each machine: for each name no file, a good or a bad
one. A store is what its digest tells of it. `client` and `server` go through the
stages of a session: the list of names is offered, one is chosen, both load, both
work, the client tells the server to save when its last channel is gone, and
each side writes a temporary file, renames it, which may fail without anybody
noticing (`Moved`), and removes the old one. Either
proxy dies between any two of these steps. `Others` stands for other sessions,
the keeper and broken disks.

### 2.9 `Clipboard`

`dix` is what the X server core of the agent takes for the owner, `owner`
(`lastSelectionOwner`) what the agent does; `last` (`lastClients`) the local
request passed on to the real server, `request` (`lastServers`) the remote one
passed on to a local owner; `requested`, `cache` and `cut` the last selection
requested, the cached targets and the property of each client's window. `real` is
the real server with its owners, the one property through which everything is
transferred, and the conversions that remote owners have been asked for; `events`
its queue to the agent. Requests are numbered and data has the number of its
request: the code has no such number, and that is what the properties are about.

Each handler is one action, or one action per outcome. What the agent sends takes
effect at the real server at once and what comes back waits in `events`, which
loses no order of events. `excuses` remembers the mishaps for which the exchange
is not made; each property names the ones it needs, and each of them was seen to
be needed.

## 3. Runs

All passing runs finish in about two minutes with two workers.

| run | instance | what it shows |
|---|---|---|
| `sequence_queue` | 2 entries, array of 2 growing by 2 up to 6 | refinement of `Fifo` |
| `message_store` | 3 keys, 2 slots, 2 values of the variant field, 2 items on the link | `Coherent`, `HitsAreWhole`, `ParkedIsStored`, `ChecksumsExact`, `SearchEnds`, refinement of `Link` |
| `channels` | 2 ids, 3 connections, 2 pieces of data; the third connection may be refused, broken or closed at both ends | `OutputOwnsBuffer`, `SelectedForInput`, `NoCrossTalk`, `BackPressure`; liveness: `Reclaimed` |
| `channels_race` | 1 id, 2 connections | the first disagreement of section 5 |
| `flow_control` | tokens of 2 bytes, limit 2, weights up to 2, bursts of 3 bytes, link faster than the ping timeout | `TokensConserved`, `StopsWithoutTokens`; liveness: `CongestionEnds`, `DataResumes` |
| `field_caches` | 7 kinds of field, numbers modulo 4, lists of 3, 4 fields, 2 on the link | `CachesInStep`, refinement of `Link` |
| `frame_bits` | all numbers of 1 and 7 bits, blocks of 0 and 2 bits, indexes to 3, bytes of 3 bits, 2 fields | `ReadsWhatWasWritten` |
| `splits` | 2 resources, 3 images of 2 keys and 2 chunks, aborts, the keeper | `TypeOK`, `NobodyGivesUp`, `DrawnIsWhole`, `StoresInStep` |
| `splits_end` | 2 resources, 2 images of 1 key, both modes, aborts, files of earlier sessions | `FreeIsIdle`, `DrawnIsWhole`; liveness: `SplitsEnd` |
| `session` | 4 displays opened, silent failures allowed | `RecordsKept`, `UpIsWhole`, `DownIsClean`, `ErrorsAreCurrent`; liveness: `Settles` |
| `persistent_cache` | 2 names, lists of 2, 3 messages on the link; any number of sessions | `StoresMatch`, `NoProtocolViolation`, `NeverWithout`; `AbortsEnd` |
| `clipboard` | 2 local clients, 1 remote, both selections, 4 moves, 1 collecting resource, four combinations of the options | `OwnersAgree`, `AnsweredOnce`, `RightAnswers`, `CachesFit`; liveness: `Answered` |

Type invariants, and the invariants that only serve the proofs, such as `EndIsLast`
and `NoJunkQueued`, are in the modules and proved (section 4); that of `Splits` is
checked by a run as well, as its types say which states a split can be in.

Why the bounds are enough:

* `MaxSize = 6` lets the array grow twice, the second time from a state it grew
  into, with every position of the head; two entries tell any two neighbours
  apart.
* more keys than slots forces replacement; two slots and two items on the link
  let a slot be removed, added again and hit while the decoder is behind by two
  actions. The load bonus is below `StoreHitsLimit`, so that a message can be
  replaceable at once or only after a visit. The theorems remove these bounds.
* three connections on two ids make an id be used twice while another channel
  is busy; the rude one is the last, beside or after the polite ones.
* a burst of 3 bytes with tokens of 2 makes a request that leaves a rest, and one
  of the largest weight, which is where the clamp of the weight can lose tokens.
* lists of 3 have an insertion point in the middle, a last element to lose and a
  move that is not a swap; four fields fill a list and hit in it.
* numbers of 7 bits in blocks of 2 need every branch of the block sizes and both
  stop bits; bytes of 3 bits make fields start at each place of a byte.
* images of two chunks let a report arrive before, between and after the data
  of an image, and a second image queue behind it or reuse its slot. With a third
  image one can be a hit in the store of a sequence that is then aborted, which is
  when an abort removes something from the caches. `MaxWire` bounds the link when the
  agent starts or draws and when data is sent by timer; commits, aborts, ends and
  finishes pile up on it. Files of earlier sessions, in the format of those, are left
  to `splits_end`, where they meet both modes, and to `DrawnAreWhole`.
  Two resources and three images leave out two hits on one message that are both
  aborted: there `NobodyGivesUp` fails (section 5).
* four displays: a session, a reconnection that fails, one that fails after the
  undoing of the first, and one that succeeds.
* four moves of the clipboard's clients: a claim, a request, and two events to
  cross them (another claim, another request, a death, a reconnection). What the
  agent and the owners do is not bounded.

Deadlock is not checked where the model may stop: connections, data, pings,
displays and moves are bounded by constants.

### 3.1 Fairness

* `Channels`: weak fairness of the flush, of reading the link and of
  `handleEvents` for each channel. The loop of a proxy (`Loop.cpp`) does all
  three at every turn, and none of them waits for the user. Nothing is assumed
  of clients: they may never connect, talk or leave.
* `FlowControl`: weak fairness of reading the link on both sides, of the flush of
  the server proxy, which flushes at every turn, and of *either* the flush of the
  client proxy *or* its ping: with a deferred flush policy the agent decides when
  the client proxy flushes, but pings leave by timer and carry the waiting codes.
  `flow_control` takes the link to be faster than the ping timeout. Without that
  `CongestionEnds` does not hold: a ping costs a control token, and pings can be
  sent faster than the replies to them arrive.
* `Splits`: weak fairness of both proxies and of the agent's event handler, of the
  split timer, and of the agent ending what it starts (`Image.c:790` starts a
  sequence, `:798` ends it and `:808` waits for its event, in the same function). Nothing is assumed of the keeper or of aborts.
* `Session`: weak fairness of the main loop, whose select has a timeout. Signals
  and failures come or not.
* `Clipboard`: weak fairness of the agent's event loop, of local owners and of the
  owners that the real server asked: `Answered` is a property of the agent only
  if owners answer. A late answer is still possible, as any number of other steps
  may come before it.
* `AbortsEnd` needs none: it says that when others stop touching files, sessions
  can abort for a bad cache only finitely often.

## 4. Proofs

Proved for every value of the constants, under the named assumptions of the
modules (sizes and limits are positive, bonuses are not above the limit, lists
have three places, `Null` and `Junk` are not messages, the clients of the two X
servers are not the same):

* `QueueSafe`, `QueueIsFifo` (`StructureProofs`). The inductive invariant is
  `QueueTypeOK`, `EndIsLast` and `NoJunkQueued`: the tail is needed to know that
  `push` writes right after the last element, and that what is copied at a growth
  was written. The refinement maps the queue to its contents from head to tail.
* `StoreTypes`, `StoresCoherent`, `StoreSafe` with `SplitsFindTheirMessage` and
  `ChecksumTable`, `StoreIsLossless` (`MessageStoreProofs`). The inductive invariant adds three facts to the
  properties: `ChecksumsExact` (a hit is on the slot that really holds the key);
  `Chain`, that each item on the wire takes the store it will meet to the store
  its history recorded, and yields what its history says was sent; and
  `WholeUnlessLocked`, that the decoder has the data of each message that is
  not locked. `Chain` speaks of the items to come, which is what makes
  `Coherent` inductive: a step of the encoder appends a link to the chain, a
  step of the decoder takes its first. `DifferenceType` shows that a variant
  field survives the difference modulo its width; `InitialSegment` counts the
  visits of a search. `SearchesEnd` proves `SearchEnds` for any size of the store
  and any bonuses: before the first insertion nothing is locked, so that the first
  free slot ends the search, and afterwards a search that goes past `StoreHitsLimit`
  turns has brought every rating down to 0 (`Unlocked`).
* `FramingSafe`, with `BufferOwned` (`ChannelsProofs`): `TypeOK`, `OutputOwnsBuffer` and
  `SelectedForInput`, with all the failures and races allowed. The invariant
  follows what a proxy has written and its peer has not read: in front of each
  piece of data the last switch, or the id the peer has selected if there is
  none, is the id of the data (`Selected`), and the same holds at the end for
  the output of the proxy (`Good`), which is why data may still be added without
  a new switch. `Own` ties the buffer to a connection: an id without a channel has
  nothing in the buffer, because `handleDrop` and `handleFinish` flush first.
* `NoCrossTalkIfPolite` and `BackPressureIfPolite` (`ChannelsProofs`), under the
  hypothesis `RudeLast`: the connections that race, fail to connect or fail to write
  come after the polite ones, or there are none. The run `channels` has it, and
  `channels_race` shows that it is needed, as the id of a rude connection may be
  used again while its drop is on the way. The invariant follows, id by id, all that
  was said and not read, encoded data that waits in the buffer included (`Stream`):
  a connection is announced before anything else about it, nothing follows its end,
  and the flags of the two channels fit what is on its way between them (`Sound`,
  whose parts are one line each for an end that was said, that was heard, a
  finish that waits for its drop, a congestion that was reported). Once a rude
  connection was numbered, no polite one follows, and nothing more is claimed.
* `StopsInTime` (`FlowControlProofs`): `TypeOK`, which includes that
  every weight fits in its byte, and `StopsWithoutTokens`, which is inductive with it.
  `TokensAreConserved` is for any limits and weights. The sums over the link are
  sizes of sets of units, one for each token of each code, so that a code that
  is added or read adds or removes a set of a known size, and no recursion is needed.
* `FieldCachesInStep`, `FieldsAreLossless` (`StructureProofs`),
  for any moduli and sizes of lists. `CachesInStep` is again a chain, and inductive
  with the types. What it rests on is one lemma per kind of field: decoding with
  equal caches what was just encoded gives the field and equal caches again, the
  arithmetic of the differences included.
* `FieldsAreReadBack` (`StructureProofs`): `ReadsWhatWasWritten`, for any widths, block
  sizes, indexes and number of fields, and bytes of any size. The invariant says at
  which place each field ends, and what the frame holds from the end of the one before.
  For a number, one lemma (`ReadsABlock`) says that a turn of the reader takes what
  a turn of the writer wrote and stops where it stopped, the number being over for
  both or for neither; that a number which is not over has a last bit that the rest
  does not repeat is what the bit between the blocks tells. An index stops at its
  one, and is never the escape (`IndexReadBack`).
* `SessionTypes`, `DisplayRecords`, `UpWhole`, `DownClean`, `ErrorsCurrent`
  (`SessionProofs`), for any number of displays. `Progress` adds what is known at
  each place of the main loop: before step `i` of a reconnection the earlier steps
  were carried out on the display in use. `Records` adds which of the records are
  live at that place. Without them neither `UpIsWhole` nor `RecordsKept` is
  preserved by the steps that end a reconnection or undo it.
* `CacheTypes`, `SameStores`, `RequestsExpected`, `CrashSafe`
  (`PersistentCacheProofs`), for any number of caches and any length of the link.
  The invariant follows the messages on their way: each was written in the state
  that the one before it leads to (`Chained`), the first finds the server in the
  state it was written in (`Linked`), `Effects` and `Loads` say what each kind of
  message does and when a load may be there, `Stages` and `Saving` what the two
  sides may be doing at the same time.
* `ClipboardTypes`, `OwnersKnown` (`ClipboardProofs`), for any number of local and
  remote clients and any options. `OwnersAgree` becomes inductive with `NoStray`:
  when the real server has the agent for the owner, an owner event in the queue is
  older than the claim, and then the claim has crossed it. All the handlers but
  five leave owners alone and neither add nor take an owner event (`Ordinary`).
* `AnswersRight`, `CachesCurrent` (`ClipboardProofs`): `RightAnswers` and `CachesFit`.
  As long as nothing was mixed up, what is asked of the real server, written to its
  property and under way in its events fits the request that the agent
  remembers (`AskedFits`, `WrittenFits`, `UnderWayFits`), and who owns a
  selection is known at each place where an answer is put together (`OwnersKept`).
* `AnswersDue` (`ClipboardProofs`): `AnsweredOnce`. Who waits has his request in
  exactly one place, the agent's memory, an event or a conversion (`LocalHeld`,
  `RemoteHeld`), and who does not wait has it nowhere; a handler moves it from one
  place to the next, or answers it.
* `TypeCorrect`, `StoresAreInStep`, `FreeResourcesAreIdle` (`SplitsProofs`), with and
  without aborts, for any resources, images, modes, numbers of packets and files on
  disk. The two proxies do not exchange their states, so the invariant is about
  the link: the shape of a side is what the other can know of it, the splits in
  each store and in the commit store without their data and states, and which slots
  are filled and which of them unlocked; reading the requests on the link one by one
  leads from the shape of the server's side to that of the client's (`Leads`), and
  each of them can be read where it is read. Without that, `StoresInStep` says
  nothing of the states in which something is on the link. `Told` adds that each
  commit at the client's side is told by one event, in their order; `Phase` what the
  agent's record of a resource says of its store, of the list of stores and of the
  events on their way; `Knows` that only what was reported is aborted. The loops
  keep all of this turn by turn (`Repeats`).
* `NoneGivesUp`, `LockedAreUnderWay` (`SplitsProofs`), under `"abort" \notin May`: the
  invariant adds that a slot of the client's side is filled for each split under
  way, and locked only for one (`CacheFit`), so that each commit finds its slot.
  `LockedIsUnderWay` has no run, as `splits` has aborts.
  The hypothesis is needed: an abort removes the slots of its hits, which other
  resources may be about to use (section 5).
* `DrawnAreWhole` (`SplitsProofs`): `DrawnIsWhole`, where nothing is aborted, no image
  is repeated for a resource and no file is cut short. Shapes leave the data out, so
  the invariant (`DataInv`) adds it for the server's side. A split in a store has its
  data, or it was missed and has the size of the format its data comes in
  (`SplitWhole`). What keeps a missed split from being aborted, and so completed
  without data, is `known`: the images that were reported as found (`Heard`), among
  those the server has read, and only they, and hits, are aborted (`Knows`). It grows
  when an image is found, and a missed split is not in it, as an image is once in a
  store. `Lone` and `Locks` say that a locked slot is that of one split, so that its
  commit writes the size and data of a slot that had neither. The last two hypotheses
  are needed (section 5). The first is one of the proof: an abort empties the slots of
  its hits, whatever they hold by then, and `Locks` says nothing of slots that are
  emptied. TLC finds no violation with aborts in the instance of `splits`, but that
  has two resources only.

Only model-checked:

* liveness (`Reclaimed`, `CongestionEnds`, `DataResumes`, `SplitsEnd`, `Settles`,
  `Answered`, `AbortsEnd`): fairness and `ENABLED` are out of the prover's reach;
* `NoCrossTalk` and `BackPressure` when polite connections come after rude ones: the
  run `channels` has the rude ones last too, and `channels_race` refutes the rest;
* `NobodyGivesUp` and `DrawnIsWhole` of the splits when sequences are aborted; the
  first holds only where no two hits on one message are (section 5).

## 5. Where the code and its comments disagree

* `channels_race`. Both ends of a connection are closed at the same time. Each
  proxy gets a finish for a channel it has finished, drops it, confirms with a
  drop and reuses the id. The drop of the other proxy then hits the next
  connection with that id. `Proxy.cpp:1262`: "If channel is invalid further
  messages will be ignored. The acknowledged shutdown of channels should prevent
  this."

Other disagreements are not runs of their own. They are found with the constants,
or the formula, that are named here; the runs avoid them so that the rest can be
checked.

Channels:

* `WriteFails = {1}` without the exception of `Reclaimed`. A failed write sets
  `finish_` in `Channel::handleFlush`, so that `Proxy::handleFinish` finds the
  channel already finished and does not tell the remote; the channel stays until
  the remote end closes by itself. `Proxy.cpp:3200`: "If the failure was not
  originated by the remote, send a channel shutdown message."
* `ConnectFails = {1}` violates `AcknowledgedShutdown`. When the server proxy cannot
  connect, the data sent with the new channel is skipped instead of decoded.
  `Proxy.cpp:1135`: "We need to decode all the data to preserve the consistency of
  the cache".

Splits (constants of `MCSplits.cfg` with another `May`, and what else is named):

* `{"cut files"}` and an image that is not `Compressible` violate `DrawnIsWhole`: when
  the header of an image file can be read and its data cannot, the split keeps the
  compressed size of the header (`Split.cpp:1560`), which plain data does not replace.
* `{"abort"}` violates `LockedIsUnderWay`: an abort takes a split out of the store
  and leaves its message locked in the cache of the agent's side.
* `{"abort"}` with three resources and sequences and five images, or `{"abort",
  "repeat"}` with four images, violates `NobodyGivesUp`: when two splits that are hits on the same message are aborted, the second abort
  removes a message that the first has removed (`ClientChannel.cpp:6865`,
  `Message.cpp:1305`).
* `{"repeat"}` violates `DrawnIsWhole`: an image that is repeated for a resource is a hit on a message
  whose data has not arrived (`ClientChannel.cpp:5904`).
* `{"repeat"}` in `MCSplitsLive.cfg` violates `SplitsEnd`: in a synchronous sequence the
  reports on both splits of a repeated image are taken for the first while that is in
  the store, and the second waits for its own for ever (`ClientChannel.cpp:5904`).
* `{"old files"}` violates `SizesAgree`: an image that is loaded from disk keeps the
  size it had when it was saved, and the agent's side has another one. Nothing is
  drawn wrong, but as the size enters the digest of the persistent cache, the names
  of the two sides' caches then never match.

Sessions: with `Silent = TRUE` a display that cannot be opened, without an I/O
error, leaves the session in `SESSION_GOING_DOWN` until the next signal (`Stuck`,
which `Settles` excepts; `Display.c:362`, `Reconnect.c:297` and `:849`). The
changelog of nxagent (`doc/_attic_/NoMachine_documentation_files/`, line 2361) says:
"if the display cannot be opened or if the proxy is not able to negotiate the
session, the agent will return in suspended mode".

Persistent caches:

* The digest covers places, opcodes, sizes and identities of the messages, not
  their data (`Message.cpp:1672`-`1753`). A server that could not save, which is
  ignored (`Proxy.cpp:1596`), can therefore match an older file with the same
  digest and other data. The model, whose stores are their digests, does not show
  it.
* The `rename` that moves a saved cache to its place is not checked
  (`Proxy.cpp:5297`). When it fails the name of the new cache is adopted all the same
  and the old file removed (`Proxy.cpp:4311`), so that the side is left with neither:
  `NeverWithout` excepts it, as it excepts files changed by others (`touched`); the
  other properties hold with it. A new connection for which the server proxy finds
  no X server (`ServerProxy.cpp:293`) is not in this model; `Channels` has it.
* The keeper collects files in a set ordered by time and size
  (`Keeper.cpp:469`): of two equal ones the second is counted and not collected.

Clipboard:

* The list of targets kept for local clients is not dropped when the remote owner
  changes, as the handler of the owner event only acts when there is a local owner
  (`Clipboard.c:922`). The invariant `cache[s].for = "local" => cache[s].by =
  real.owner[s] \/ OwnerEvent(s)` is violated in eight steps; comments at
  `Clipboard.c:854` and `:2646` take the list for the owner's.
* `OwnersAgree` speaks of the local owner's claim at the real server only with the
  option `both`: with the others the agent may have made none.
* An owner event of an older remote claim, or of the claim to `None` that the agent
  sent for a client that gave the selection up, clears an owner that came since
  (`Events.c:2876`-`2904`): the excuse `"crossed"` of `OwnersAgree`.
* After the local owner died the selection has no window in the X server core, and
  pastes from outside are refused (`NXdispatch.c:728`) until someone claims it.
* A request that is pending when its selection changes hands is dropped without an
  answer: the remote one at an owner event, the local one at a local claim
  (`Clipboard.c:2439`): the excuse `"owner"` of `Answered`.
* The refusal of a local owner to a local client is taken for the answer to a remote
  request that is pending (`Clipboard.c:3109`): the excuse `"refused"`.
* Both selections share one property (a FIXME at `Clipboard.c:1724`), the window
  that an answer goes to is that of the last request (`Clipboard.c:3158`), and a
  late answer to a request that timed out is taken for the next: the excuse
  `"mixed"` of `RightAnswers`.
* A reconnection leaves a local request pending that nobody will answer (a FIXME at
  `Clipboard.c:3392`) until the next one finds it overdue: the excuse `"reconnect"`.

## 6. Not modelled

By far the largest part of the tree is third-party code that NX carries along:
the X server core, libNX_X11, Mesa, fonts and converters. It is not modelled. Of
NX's own code these parts are left out:

* Ids opened by the server proxy (fonts, slave channels) and the re-entrant read
  inside `handleFrame`; the flush of `addControlCodes` when the codes are many.
* The X encoders, which are one case per opcode, with much layout and little
  control: what they share is modelled. `BlockCache`, which keeps the last reply of
  a kind, and the growth of buffers.
* Start, shutdown and timeouts of the link; authentication; the transports, which
  are taken to be reliable and ordered, as TCP is; sockets, children and logging.
* The keeper's own scan. What it does to the files of others is an action of
  `Splits` and of `PersistentCache`.
* Sequence numbers modulo 2^16: `SequenceQueue` keeps the order of requests.
* Of sessions: dialogs, options, and what the steps of a reconnection rebuild. Of
  splits: the regions that the agent marks and synchronizes. Of the clipboard:
  times, transfers in parts (INCR), the death of remote requestors, selections
  beyond PRIMARY and CLIPBOARD.
* Drawing and windows of the agent, nxcompshad, nxproxy, nxdialog, image codecs:
  computation, input and output, or too close to the X server core to be cut out.

## 7. Plan

Done: queue, message stores, channels, tokens, field caches and bits, splits,
sessions, persistent caches, clipboard; the theorems of section 4. Next:

1. Proofs: whether `DrawnIsWhole` of the splits holds with aborts, for any number of
   resources.
2. The re-entrant `handleFrame` and the bounded buffer of control codes.
3. Negotiation, shutdown and timeouts of the link.
4. Sequence numbers modulo 2^16 on top of `SequenceQueue`.
