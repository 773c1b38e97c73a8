# Verification of ultralight

TLA+ models of ultralight, a client of the Ethereum Portal Network in TypeScript,
with TLC runs on small instances and TLAPS proofs for every instance.

Paths are relative to `src/packages/portalnetwork/src/` unless they begin with
`src/`; `utp/` is short for `wire/utp/`.

## The system

A node speaks discv5 over UDP. Portal messages (PING, FINDNODES, FINDCONTENT,
OFFER and their answers) travel as TALKREQ/TALKRESP payloads. Content that does
not fit in one packet is moved by uTP, whose packets are TALKREQ payloads too. In
a browser a node has no UDP socket: a proxy lends it one over a websocket. A
node on the command line answers JSON-RPC calls.

| Component | State | Operations | Hard parts | Correct when |
| --- | --- | --- | --- | --- |
| uTP socket, `ContentWriter`, `ContentReader` (`utp/Socket`, `utp/Protocol`, `utp/Packets`) | sequence and acknowledgement numbers, lists of sent and acknowledged numbers, collected packets | burst, acknowledge, collect, compile | any order of packets, numbers at their limits | content comes out whole and in order; what counts as acknowledged was received |
| uTP streams (`utp/PortalNetworkUtp`) | open requests by socket key, two sockets per stream at the two nodes | `handleNewRequest`, one handler per packet type and request code | loss, duplication, reordering, no retransmission | see above; it delivers if nothing is lost; packets reach their own request |
| OFFER/ACCEPT, FINDCONTENT (`subprotocols/protocol.ts`), variant prefixes (`utp/Utils`) | none but the database and the open requests | `sendOffer`, `handleOffer`, `sendAccept`, `handleFindContent`, `sendFindContent` | parallel reads, two offers of the same content, contents told apart by position | what is stored under a key is that key's content; every transfer ends |
| Routing table (`client/routingTable.ts`, PING/PONG/FINDNODES in `protocol.ts`) | k-buckets, radius map, gossip map | `updateRoutingTable`, `handlePing`, `sendPing`, `evictNode`, `contentKeyKnownToPeer` | answers that come after an eviction, marks set before an offer is made | a peer is offered a key once, and a mark stands for an offer |
| Content lookup (`subprotocols/contentLookup.ts`) | queue of peers, peers asked | `startLookup` | peers that come and go meanwhile; waits for an event anybody may cause | nobody is asked twice or forgotten; it ends, with its own content |
| Node lookup, bucket refresh (`subprotocols/nodeLookup.ts`, `bucketRefresh`, `addBootNode`) | queue of peers, new peers | `startLookup`, `bucketRefresh` | peers answer with ever new peers | it is bounded and ends |
| Header accumulator (`subprotocols/history/headerAccumulator.ts`) | current epoch, historical epochs | `updateAccumulator`, `currentHeight` | the roll at 8192, snapshots between headers | it is one chain from the genesis, its height never falls |
| History store (`subprotocols/history/history.ts`, `client/dbManager.ts`) | database, puts on their way, gossip queue | `addContentToHistory`, `receiveSnapshot`, `getBlockByNumber`, gossip | unawaited writes, crash, failure halfway | what the accumulator names is stored; a body has its header; gossip is offered |
| JSON-RPC server (`src/packages/cli/src`), receipts (`receiptManager.ts`) | none but the client's | the `eth_` and `portal_` methods and their validators | awaits between a number and its block, lookups that fail or go astray | an answer is made from the block asked for; every call is answered |
| Client (`client/client.ts`), browser page (`src/packages/browser-client/src/Components/App.tsx`) | protocols, transport, identity in the browser's database | `create`, `start`, `storeNodeDetails`, `init` | a page closed between two writes, two pages at once | a reload has one node's details, and comes up |
| Proxy (`src/packages/proxy`) | a UDP socket per websocket, a count of clients | connect, relay, close, stop | a reload before the old websocket has closed | it binds no port twice |
| SSZ types, state network, rendezvous, user interface | none of their own | | | not modelled |

They interact by calls (`sendOffer` opens a request with `handleNewRequest`), by
packets (the two ends of a stream), by events (`'Send'` from a socket to the
client, `'Stream'` from a finished stream to the history protocol,
`'ContentAdded'` from the store to lookups and to the RPC), and through the
database and the routing table.

## How the modules build on each other

| Layer | Modules | Composed of |
| --- | --- | --- |
| One stream | `UtpSocket`, `UtpNetwork`; `UtpOffer`, `UtpFind` | the two streams extend the network, which extends the socket; both implement the abstract `ContentTransfer` |
| Which request a packet gets to | `ContentRequests` | any number of streams between any nodes, each of one chunk |
| From a message to the store | `VariantPrefix`, `ContentExchange` | OFFER and FINDCONTENT around a stream in one step, for several nodes' stores |
| Peers | `RoutingTable`, `Peers`; `ContentLookup`, `NodeLookup` | the two lookups extend `Peers`, which extends the table |
| History | `HeaderAccumulator`, `HistoryStore` | the store extends the accumulator |
| JSON-RPC | `Validators`, `RpcServer` | extends `HistoryStore`: the call runs while the store goes on below it |
| Browser | `BrowserNode` | pages, their database and the proxy in one module |

`Lists`, `ListLemmas` and `UtpNetworkProofs` are shared, `MC...` modules give the
constants for TLC, `...Proofs` modules hold the theorems.

What could be added: a theorem about `HeadersMissingByCrash`, which weighs a count of
headers against a count of crashes.

## Modules

### UtpSocket

One end of a stream as a record (`Socket`) and the methods of `UtpSocket`,
`ContentWriter`, `ContentReader` and the packet senders as operators from the
socket before to the socket after. A chunk of 512 bytes is its position `1..N`
in the content. `packets` is kept sorted where the code sorts in `run()`,
because no other code reads it. `ackNr` may be -1: two's complement never comes
into it, as the number is only ever written into a packet, where -1 throws.
`randUint16` returns less than 2^15 and numbers grow by one per chunk, so they
stay below 2^16 for every content shorter than 16 MB.

The writer never looks at the list in a SELECTIVE ACK, so that packet is the same
as a STATE packet here - but its length is a byte, and `SackOverflows` says when
writing it throws. `nextAck` is only logged and left out.

### UtpNetwork

The carrier: `chan[r]` holds the packets on their way to role `r`, oldest first.
`MaxLost`, `MaxDups` and `MaxOvertaken` bound how often one is lost, delivered
once more, or delivered before an older one. `thrown` in the stream modules
records why a handler threw; the node goes on (in a browser it does; a Node.js
process without a handler for rejections ends).

### UtpOffer and UtpFind

The two streams, one action per handler and packet type:

| Action | Code in `utp/PortalNetworkUtp/PortalNetworkUTP.ts` |
| --- | --- |
| `UtpOffer!OpenWriter` | `handleNewRequest(OFFER_WRITE)`, 177-204 |
| `UtpOffer!ReaderSyn`, `ReaderData`, `ReaderFin` | `_handleSynPacket` 296-304, `_handleDataPacket` 362-377, `_handleFinPacket` 382-436 |
| `UtpOffer!WriterSynAck`, `WriterFinAck`, `WriterDataAck` | `_handleStatePacket` 336-357 |
| `UtpFind!OpenReader` | `handleNewRequest(FINDCONTENT_READ)`, 159-176 |
| `UtpFind!WriterSyn`, `WriterState` | `_handleSynPacket` 284-295, `_handleStatePacket` 313-316 |
| `UtpFind!ReaderSynAck`, `ReaderData`, `ReaderFin`, `ReaderFinThrows` | `_handleStatePacket` 317-335, `_handleDataPacket`, `_handleFinPacket` |

A handler is one step. It awaits only promises that are settled (`sendPacket`
encodes, emits and returns), so that no other packet is looked at in between;
responses the transport delays are covered by overtaking. The request of the
accepting side exists before its connection id is sent, so only the other end
has an opening action.

### ContentTransfer

What a stream promises, in four variables: the contents handed on and what the
network did. Handed on at most once plus once per duplicate; whole if nothing was
lost or overtaken; without repetition and in order if nothing was doubled. Both
streams implement it (`TransferSpec`); the mapping is the identity on the
variables, and every other variable is hidden.

### ContentRequests

The tables of open requests of all nodes, and which request a packet is given to.
`UtpOffer` and `UtpFind` take for granted that a packet gets to the other end of
its stream; here that is the question, with any number of streams between any
nodes at once, so each stream carries a single chunk and no sequence numbers.

| Action | Code |
| --- | --- |
| `Answer` | `sendAccept` (`subprotocols/protocol.ts` 398-429), the part of `handleFindContent` that opens a stream (505-530), `handleNewRequest(ACCEPT_READ, FOUNDCONTENT_WRITE)` |
| `Open` | `handleNewRequest(OFFER_WRITE, FINDCONTENT_READ)` |
| `Receive` | `handleUtpPacket` with `getRequestKeyFromPortalMessage` and the handler of the packet's type |
| `PeerResets` | external: no code here sends a RESET, another implementation may |

A packet is in flight in a set: it may arrive at any time or never, and again and
again if its type is one of `Doubled`. A packet that makes its handler throw, or
for which there is no request, changes nothing and is left in the set.
Nothing is ever removed from a table, so "open" is only ever undone by an entry
at the same key.

The code finds a request by trying three keys made of the connection id in the
packet, its neighbours and five characters of the sender's node id. That mixes up
streams whose connection ids are `Near`: equal or one apart, with peers of the same
prefix at a common node. The properties say what a stream that is `Apart` from all
others can rely on, whatever the mixed-up ones do. (Ids are drawn from 2^15
values, so that about one in 11000 pairs of streams of the same peers is near.
`utp/README.md:124-126` has an attempt to connect with a colliding id fail and
leave the existing stream alone; here it replaces the stream's request.)

### HeaderAccumulator and HistoryStore

`HeaderAccumulator` is the class of that name as operators from the accumulator
before to the one after, and the two lookups of `getBlockByNumber`. A header is
its hash; `Number`, `Parent` and `Difficulty` are what it says of itself, which
need not be true. A sealed epoch is kept as its records where the code has their
root hash: the records and the hash determine each other.

`HistoryStore` is `addContentToHistory` with everything it changes:

| Action | Code in `subprotocols/history/history.ts` |
| --- | --- |
| `Load`, `Crash` | `init` 49-77, in two steps as it awaits the database; a restart runs it again |
| `AddHeader` | 340-384 and the end of the call, with the nested call for a sealed epoch |
| `AddBody` | 385-411: the body is put, before its receipts are made |
| `SaveReceipts`, `ReceiptsFail` | `saveReceipts` in `receiptManager.ts` 96-120, and the nested call for the receipts |
| `AnnounceBody` | 439-457 for the body, once its receipts are added |
| `AddUnverified` | 420-431: receipts and epochs are stored unchecked |
| `AddSnapshot` | `receiveSnapshot` 171-217; nothing checks a snapshot, so it is assumed to be a chain |
| `Reset` | 455: the queue is emptied, one await after it was offered |
| `Land` | external: the database makes a put durable |

Nobody awaits `db.put`. `Land` picks one of the `Window` oldest: with 1 the
database keeps the order of puts, as the level databases the client is used with
do; with more it need not. `EpochsAreStored` and `HeadersMissingByCrash`
depend on the order and are checked with 1, all else holds for any. Content that
fails its check (a header that does not hash to its key, a body that does not go
with its header) changes nothing; `AddHeader` keeps that guard as `k = h`. Between
any two awaits other calls may run, which is more than the event loop allows: some
awaits are of settled promises. `adopted` is a ghost: what came with a snapshot,
and so was never put by this node.

Bounds in guards, none of them in the code: `MaxPending` (`Put`), `MaxQueue` and
`MaxCalls` (`Room`), `MaxCrashes` (`Crash`); further, a put is not made while the
same one is pending, and a body is not added again while it is executed.

### RoutingTable and Peers

`RoutingTable` has the table as two sets per peer, in its bucket or not and what it
is marked to know, and the two answers read off it (NODES and the ENRs of a
FOUNDCONTENT), which other nodes give from tables of their own. The library's bucket
is external: all entries are inserted as connected, so that a full bucket takes no
other. `Peers` is everything that changes the table: PING in both directions, PONG,
no PONG, a PONG that does not decode, and the offers of gossip.

| Action | Code in `subprotocols/protocol.ts` |
| --- | --- |
| `SendPing`, `Pong`, `NoPong`, `BadPong` | `sendPing`, with the branches of its answer and `updateRoutingTable`, `evictNode` |
| `HandlePing` | `handlePing` |
| `Gossip` (`Offer`) | `gossipHistoryNetworkContent` (`history.ts`), `contentKeyKnownToPeer`, the start of `sendOffer` |

### ContentLookup and NodeLookup

A lookup runs from one await to the next in one step: it takes an answer and asks
the next peer. The queue is a sequence with the places `splice` gives it, one off
as they are (`Queued`). Peers answer whatever this program could answer from any
table of theirs. In `ContentLookup` the actions are `Start`, `StartLocal`, the four
answers and `ContentAdded`, which comes from whoever adds content; in `NodeLookup`
`StartRefresh`, `StartLookup`, `NodesArrive`, `NoNodes`, `RefreshDone` and the
three steps of `addBootNode`. Both run with the actions of `Peers` in between.

### VariantPrefix and ContentExchange

`VariantPrefix` writes and parses the LEB128 lengths before the contents of a
stream, digit by digit, for any base; 128 in the code. `ContentExchange` follows a
transfer from the message to the stores: the receiver looks for one key after the
other (`CheckKey`), the sender reads all wanted contents at once and pushes them in
the order the reads finish (`ReadDone`), the receiver takes the bytes apart and
pairs contents with keys by position (`AddAll`). The stream in between is one step
with three outcomes, those that `UtpOffer` and `UtpFind` have. `Obtain` stands for
content from everywhere else, other transfers included.

### HistoryStore below RpcServer

`Validators` has the JSON values with what the validators look at, and the
wrapping of every method. `RpcServer` runs one call on top of the store: `Receive`
to the first await, one step per await of `getBlockByHash`, `getBlockByNumber` and
`getLogs`, `Resume` when a block or its absence is known. A lookup in the network
may give the content, nothing, or other content (`Gives`), because
`ContentLookup` shows that it may; content in the database is found. `call` also
remembers the accumulator in which a number was looked up (`consulted`), and whether
a lookup failed (`gap`) or gave other content (`astray`).

### BrowserNode

The loads of a page over one database, and the proxy. `init` of the page is one
action per await of `createNodeFromStorage`, `create`, `start` and
`storeNodeDetails`; a load may be closed between any two of them. The proxy has one
action per event: a connection, a websocket that has gone, a signal. `together` and
`crossed` are ghosts: two loads were open at once; an identity was stored between
the reads of another load.

### Lists, ListLemmas

`Lists` has `Without`, an element taken out of a sequence; `ListLemmas` says what
is in a sequence after it was changed, and has induction in the form the provers
can use, about sets in the place of predicates: `LeastNumber`, `InductiveSet`,
`MeasureInduction`, and that recursive functions exist (`StepsExist` over the
numbers, `RecursionExists` along any measure).

### Slips

The modules also hold operators named after a slip of the operator behind them
(`BurstFinFirst`, `TakeDataIfNext`, ...). No specification uses them: put in the
place of that operator, each must make a run fail, which shows that the
properties look at what they are meant to look at. `PROJECT.json` lists them.

## Runs

| Run | Bounds | Question |
| --- | --- | --- |
| `offer` | 3 chunks, numbers from 0 or 4, selective ack list of 3, one loss, one duplicate, two overtakings | the OFFER stream: what is acknowledged, `TransferSpec`, delivery |
| `find` | 3 chunks, numbers from 0 or 2, list of 3, one loss, one duplicate, one overtaking | the same of the FINDCONTENT stream |
| `requests` | three nodes, two of them with the same prefix; two streams of either kind; connection ids 0, 1, 2; nodes that may forget a stream and reset | which request a packet gets to |
| `history_store` | epochs of two headers; a chain of five headers, a fork with two snapshots, a header with a false number; one crash; puts in order | the accumulator in memory and in the database |
| `history_gossip` | headers and bodies of two blocks, a queue of two to gossip, three calls at once, one crash, puts out of order by one | bodies have headers; what emptying the queue drops |
| `lookup` | four peers with ids of three bits, buckets of two, two peers asked or offered at once, two ENRs per answer; one lookup, one PING on its way, one eviction | a content lookup among changing peers |
| `refresh` | three peers with ids of three bits, buckets of two, one boot node; one refresh, four PINGs on their way, one eviction; a lookup stops after one new peer | a refresh of the buckets |
| `offers` | two nodes; a header, its body, its receipts and an epoch of one to four digits, base 2; contents from two digits on through a stream; two keys per offer; one transfer at a time, again and again | what ends up in the stores |
| `browser` | three loads of the page, each used once; a proxy that may stop and start again; the three ways to reach the network | identity and proxy |
| `rpc` | a chain of four headers in epochs of two and a header beside the last; two snapshots; one call out of 60 | what a call is answered |
| `history_doc_number` | as `history_store`, no crash | violated: a number up to the height leads to no hash |
| `lookup_doc_content` | two peers, two keys, one lookup | violated: it returns the content of another key |

**Streams.** Three chunks are the fewest with a first, a middle and a last one, and
let the list of a selective ack of 3 overflow on a fourth, doubled, DATA packet. One
duplicate is enough for each packet type to be the doubled one, one loss for each to
be lost; two overtakings let the FIN overtake two chunks, or a chunk overtake the
SYN-ACK while the FIN overtakes a chunk. The numbers include 0, the edge at which a
SYN-ACK's number less one is no packet number, and are so close together that the
numbers of two bursts of a FINDCONTENT stream overlap. Liveness is stated with what
excuses it (a packet was lost, a handler threw), so that one run serves both.

**Requests.** Two streams are enough for one to get in the other's way, and the ids
0, 1, 2 make them equal, neighbouring and apart; more nodes than three add none that
shares a table with both. A packet stays in the set it is sent to until it is
handled, in any order, or for ever. The run has no doubled packets; the proofs allow
any.

**History.** Epochs of two headers let the five headers seal two epochs, one of them
full when the next header comes. The fork's snapshots are as high as and higher
than the own accumulator when they come. Three puts are what one header makes, so
that a crash falls between any two of them. A queue of two fills, waits and is pushed
to by a third call.

**Peers.** Ids of three bits give three distances; two of the peers share a bucket
with a third that a full bucket refuses. One eviction is enough for a peer to come
back while it is still queued, asked or marked. The queue of a lookup starts with the
two nearest of the table and takes answers of two ENRs each, so that it is inserted
into at the front, in the middle and at the end. A refresh with four PINGs on their
way covers the boot node's, an answer's and the end of a lookup's.

**Transfers.** Every pair of keys is offered in both orders, so that headers come
before and after their bodies. A content of one digit is answered at once, one of
four has a length of three digits in base 2. One transfer slot is used again after it
ended; what a second one would change meanwhile is the receiver's and the sender's
store, which `Obtain` changes at any point.

**Browser.** Three loads are a page, its reload and a second tab. Two can cross, and
with the third there is a load after what two left behind. More loads add nothing
that the theorems do not cover for all numbers.

**RPC.** The calls include, for every method, good parameters, each kind of bad one,
and for blocks a hash and a number of a sealed epoch, at its edge, in the current
epoch, above it and on the fork. The accumulator may change at every await. The store
stops after the answer; headers may reach it, which puts are pending bounds.

Deadlock is not checked: a finished stream, and a node that has all there is, stops.

**Fairness.** It is weak fairness throughout, of what an event loop runs when it is
due. `UtpOffer`, `UtpFind`: the opening action happens, and a role with packets in
flight to it receives one of them from time to time; losing and duplicating are never
required. Receiving the packets in order is not required either. `ContentLookup`,
`NodeLookup`: a request that was sent is answered or fails, because discv5 fails one
without an answer after its timeout. `ContentExchange`: every step but a stream, which
no timer ends; `TransfersEnd` ends with the stream's beginning, and the streams'
runs say when it gets through. `BrowserNode`: the page goes on by itself
(`PageStep`), it is told the message its websocket has received (`HearAddress`, only
as long as that is open), the proxy is told of a websocket that has gone
(`ClientGone`). `RpcServer`: what a call awaits comes (`CallStep`): the database
answers, and a lookup ends by `LookupEnds`, unless it waits for a stream that never
brings anything; that this cannot be promised is `TransfersEnd`'s exception, and the
run assumes it.

## Proofs

All proofs hold for every value of the constants that the named assumptions allow
(each module has one); the runs check them on theirs.

**The OFFER stream** (`UtpNetworkProofs`, `UtpOfferProofs`): for every `N`,
`RandNrs`, `MaxSack` and every bound on disturbances, from `SocketAssumption` and
`NetworkAssumption`: a content has at least one chunk, random numbers are naturals
and there is one, the bounds are naturals.

* `TypeInvariant`: `Spec => []TypeOK` for the OFFER stream. `TypeOK` is
  inductive. The lemmas of `UtpNetworkProofs` say what each operator on sockets,
  packets and sequences returns and what a delivery leaves in flight.
* `HandlersAcceptAlways`, `AckedIsReceivedAlways`, `FinAckMeansDeliveredAlways`:
  whatever the network does, no handler of the stream throws at the type of a
  packet, what counts as acknowledged was received, and the FIN is acknowledged
  after a content was handed on only. None of the three is inductive: what an
  acknowledgement means when it arrives depends on what was true when it was
  sent. `AckInv` adds what is in flight in each phase of the writer. The writer's
  number (1, 2 or `N + 2`) tells the phases apart (`WriterPhase`); DATA and FIN
  are in flight after the burst only and carry its numbers (`ToReader`); every
  STATE on its way acknowledges the SYN, a chunk in the reader's `ackNrs` or the
  FIN of a content handed on (`ToWriter`); the reader's `ackNrs` stay empty until
  the burst, never shrink, and contain the writer's (`AckNrs`). `AckInvariant`
  proves it inductive, one lemma per handler; a run of TLC checks it too.
* `TransferInvariant`, `TransferImplemented`: the stream implements
  `ContentTransfer`, `Spec => TransferSpec`. The refinement holds by `TransferInv`,
  inductive on top of `AckInv`: at most one content per duplicate and one more was
  handed on, and not yet that one while a FIN is on its way (`HandedOnPerFin`);
  without a duplicate no chunk is on its way twice or both on its way and held (`NoTwins`,
  `EachChunkOnce`), and what is held are chunks under their own numbers
  (`ChunksMatch`); with nothing lost or overtaken, all that comes before a FIN is
  held (`WholeBeforeFin`). The order of what is handed on is `AddPacket`'s, whose
  lemma (`AddPacketKeepsOrder`) takes the least index at which the list would break.
  Each step then is a step of the abstract one, or leaves its variables alone.

**Open requests** (`ContentProofs`): for all nodes, prefixes, ids and
numbers of streams, any doubled packets and any resets.

* `RoutingInvariant`: `RoutingInv` is inductive, given the types. An entry of a
  table is at its own key (`EntriesAtTheirKeys`); a stream that is apart *now* was
  apart always, since streams are only added, so nobody replaced its entries
  (`ApartStaysOpen`); its packets and requests carry its own chunk only
  (`ApartPackets`, `ApartRequests`). The core is `FoundIsNear`: whatever entry one
  of the three keys leads to belongs to a stream near to the packet's; hence
  (`FindsOwn`) a packet of a stream apart from the others finds its own.
* `ReachesOwnRequestAlways`, `HandedUnderOwnKeysAlways`, `AcksAreOwnAlways` follow.

**The history network** (`HistoryStoreProofs`): for all headers whatever they say
of themselves, any epoch size, any snapshots that are chains, any crashes and, but
for the two theorems that assume `Window = 1`, any order of puts.

* `UpdateKeepsChain`: a header that `addContentToHistory` takes for the next one
  makes a chain of a chain, one longer, inside an epoch and across its seal.
  `AccumulatorIsChainAlways` then needs the types (`HistoryInv`), because the
  accumulator in memory comes from the database after a restart: the chains in
  memory, in the database, on the way there and on the way back are one invariant.
* `HeightNeverFallsAlways`: an action property, from the same invariant.
* `BodiesHaveHeadersAlways`: not inductive, as a put body becomes stored later.
  `BodiesInv` says it of the puts on their way too: the header was stored, and
  what is stored stays.
* `OwnResetLosesNothingAlways`: `GossipInv` adds that the queue is full as long as
  the first call waits to empty it, so that every call that pushes offers all of
  it. It fails for the second call that waits: the queue the first left empty may
  have got content that nobody has offered, and the second drops it.
* `EpochsAreStoredInOrder`, for `Window = 1`: `EpochsInv` says of
  every accumulator in flight that the epochs it names are stored or before it among
  the puts on their way, which is what landing in order keeps and a crash, which
  drops all of them at once, cannot undo.
* `HeadersMissingByCrashAlways`, for `Window = 1` too: an accumulator is put right
  before the header it was updated with. `MissingInv` has a set of lost headers, at most
  one per crash, such that every accumulator on its way names lost, adopted and stored
  headers only, those before it among the puts, and the one right behind it. A crash
  adds to that set the header that was to land next, and no other, as the stored
  accumulator names none beyond (`CrashLost`).
* `NumbersResolveAlways` follows from `AccumulatorIsChain` when the genesis has number
  0 (the code's is the mainnet's, `headerAccumulator.ts` 25): the quotient and remainder of a
  number by the size of an epoch lead to the record that `NumberOfRecord` says has
  that number.

**Calls** (`HistoryStoreProofs`): for every request, store and network, and the same
genesis.

* `AnswerIsOfBlockAlways`, `NotFoundHasReasonAlways`: `RpcInv` is `HistoryInv` and, of
  a call at each of its awaits (`CallInv`), that it searches the block that was asked
  for (`SearchInv`), found that one but for a body that nobody had (`FoundInv`), and
  answers with what it found (`AnswerInv`). While a call waits the store goes on, and a call
  goes on with an accumulator that is no longer the store's: the proof is about
  the one it consulted, a chain because it was the store's (`AccumulatorIsChain`).
  `getLogs` searches a number which it took from a header, and gives the logs of the
  block asked for if that is in the accumulator, in which numbers are unique (`NumbersAreUnique`).

**The FINDCONTENT stream** (`UtpFindProofs`): for every `N`, `RandNrs`, `MaxSack` and
bound on disturbances, from the same assumptions as the OFFER stream.

* `TypeInvariant`. Every handler is brought into one form first (`WriterSynEffect`,
  `WriterStateEffect`, `ReaderEffect`: what it makes of the sockets, and that what
  it sends are acknowledgements of the packet it got).
* `ThrowsOnlyAtEarlyFinAlways`, from `EarlyFinInv`: nothing is on its way before the
  reader opens; the SYN is numbered 1, so that the SYN-ACK acknowledges 1; and as
  long as nothing was lost or overtaken, the first packet to come to a reader that
  has not started is the SYN-ACK (`SynAckComesFirst`), which makes it start.
* `AckedWasSentAlways`, from `OneBurstInv`: without a duplicate one SYN is on its way
  until the burst and none after it, so that there is one burst, and all numbers on
  their way in both directions are its numbers.
* `AckedIsHeldAlways` and `TransferImplemented`, from `TransferInv`, which is
  inductive on top of the two before. `HandedOnPerFin` counts: what was handed on, the
  FINs on their way and the SYNs on their way are together at most the duplicates and
  one, since every SYN can start a burst and every burst ends in one FIN; it is the
  theorems on cardinalities that make this a proof. `OnceInv` is about the stream
  without a duplicate: the numbers on their way differ (`NoTwins`), each chunk is
  either on its way or held, sorted (`EachChunkOnce`); until something is overtaken
  the SYN-ACK comes before all else, so that the reader it starts drops nothing
  (`SynAckFirst`) and what is acknowledged is held (`AcksAreHeld`); and if nothing is
  lost either, all chunks are held or in front of the FIN (`WholeBeforeFin`).

**Prefixes and the exchange of contents** (`ContentProofs`): for every base from 2, all
clients, keys and contents, any packet size and number of transfers.

* `PrefixesRoundTrip`: the receiver takes out of a stream the contents that were put in,
  whatever they are. `Digits`, `Value` and `DropPrefixes` are recursive, so that it
  has to be proved first that there are such functions (`RecursionExists`). The digits of a
  length end with the first that has no continuation bit (`DigitsProperties`), so that
  the prefix found is the one written (`PrefixEnds`) and one step takes off one content
  (`ContentDropped`); induction over the contents not yet taken off does the rest.
* `WrongOnlyIfDisturbedAlways`, `DoneMeansStoredAlways`, from `ExchangeInv`: the stores
  have under a key what is its own or, once a transfer was disturbed, something else under
  keys of bodies and receipts, which nothing verifies alone (`Right`, `Loose`); what an
  offer wanted is either read or about to be (`IsTransfer`), and undisturbed
  reads are in the order of the keys (`Ordered`). That every step of a transfer keeps
  this for all others is said once (`Moves`). `AddAllProperties` is about the recursive
  function that stores one content after the other, and `Carried` is the theorem
  before.

**Peers and lookups** (`LookupProofs`): for all nodes, keys, distances, sizes of
buckets, answers and any number of lookups. The nodes are finitely many and no two are
equally far from a key (`TellsApart`), as with the 256 bits of the code's.

* `AskedOnceAlways`, `FailsOnlyWhenAllAskedAlways`, from `LookupsInv`: requests were sent
  to peers marked as asked only, once (`Accounted`), and, as long as nobody was evicted,
  a peer the lookup was told of was sent a request, is in the queue and can be asked, or found
  its bucket full (`NoneLost`). A queue without anyone to ask then has the third kind only.
  That an insertion, an answer or another lookup takes nobody out of the table is
  `TableStays` and `FullStays`; that `splice` loses nobody is `QueuedProperties`. An answer is
  a fold over its peers: its result is reached by steps (`StepsExist`), each of which keeps
  what `TellProperties` says (`StepsLead`).
* `LookupIsBoundedAlways`, from `RefreshInv`: requests and the peers still to be asked
  are together at most `Alpha` and the peers that were new (`Counted`), of which there
  are no more than `MaxNew` before the last answer and `Limit` in it (`Bounded`).

* `OfferedOnceAlways`, `MarksAreOffersAlways`, from `MarksInv`: an offer was made of
  what is marked only, once, and what is marked was offered or given up. Gossip, the
  lookups' offers and evictions disturb it together; one lemma says it of every
  `Offer`, one of every `Evict`.

**Browser and proxy** (`BrowserNodeProofs`): for any number of loads.

* `ProxyStaysUpAlways`, from `ProxyInv`: with a persistent port a client that was
  served is alone, because whoever comes later is turned away as long as it counts;
  without one each socket has a port of its own.
* `IdentityIsWholeAlways`, from `WholeInv`: what a load has read so far agrees with
  the database, until somebody's identity is stored between the two reads.
* `IdentityKeptAlways`, an action property: as long as loads do not overlap, `AloneInv`
  says that at most one is alive and what it holds, and `KeptInv` that once the peers
  are stored it holds the stored identity.

Model-checked only: the liveness properties (delivery and the ends of streams, transfers,
lookups, refreshes and calls, the page that comes up), because liveness
under fairness is out of the prover's reach. All other properties the runs check are
theorems, but for the two that a run refutes.

## Where code and documents differ

Shown by a run:

* `getBlockByNumber` ("Returns information about a block by block number",
  `src/packages/cli/src/modules/eth.ts:117`) finds nothing for the first number
  after the sealed epochs (`history_doc_number`).
* A lookup that waits for its stream takes whatever content is added next for its
  own; `contentLookup.ts:33` has it ask "until either the content is found or there
  are no more peers to query" (`lookup_doc_content`).

Seen while modelling, and part of the models:

* `utp/Socket/setup.md:82` has B check for missing packets on the FIN;
  `ContentReader.run` does not, and hands on what there is (`ContentTransfer` allows
  it after a loss or an overtaking only).
* `utp/Socket/setup.md:77` has A send DATA after any SYN-ACK; after one numbered
  0 the first DATA packet cannot be encoded (`ackNrRange` in `UtpOffer`).
* `utp/Socket/setup.md:86` has A close its socket; only a log line says so.
* `utp/README.md:54-56` has a RESET terminate the connection;
  `_handleResetPacket` deletes a key the table never has, and the request stays open.
* `src/packages/portalnetwork/diagrams/ARCHITECTURE_UTP.md:84` has the FIN follow
  the acknowledgements; it follows the DATA.
* A node lookup asks peers it has just been told of before any PONG of theirs; those
  not in the routing table are passed over without a request (`NodeLookup!Reachable`).
* `getBlockByHash(hash, false)` makes an empty body with `rlp.encode`, as the
  comment of `reassembleBlock` (`history/util.ts:84-88`) asks, but
  `reassembleBlock` decodes SSZ: it throws, and no block is ever returned without
  transactions. `addContentToHistory` calls it for a body that comes before its
  header, which is therefore always refused.
* `eth_getLogs` answers a block hash only: with `earliest`, `latest` or no block it
  asks for a block with a number, which the wrapped method refuses, and with a
  number it compares with the height of a protocol that does not run and ends in a
  TypeError (`RpcServer!StartLogs`). Its topics filter returns inside its loop, so
  that the first topic alone is compared (`FirstTopic`).
* The logs of a block given by its hash are looked up by its number, which on a fork
  is another block (`AnswerIsOfBlock` says when they are the block's own).
* The validator of history content types refuses the five that exist and lets all
  others pass (`Validators!HistoryContentType`), so that `portal_history_offer`
  offers nothing.
* `portal_addBlockHeaderToHistory` and `portal_addBlockToHistory` answer that the
  content was added whatever becomes of it; the rejection of a block that does not
  decode is nobody's (`ReceiveContent`).
* The offer of one content that is not in the database leaves a writer that never
  ends (`TransfersEnd`'s "hung").

## Not modelled

* Builds of the page with BINDADDRESS, which never read the database; the buttons of
  the page and the mobile shells' windows; `Client.stop`, after which nothing of the
  client is seen.
* The RPC router's fallback to a web3 endpoint; the validators of transactions and
  values, which no method uses; how answers are formatted; the command line's options.
* `livenessCheck`, which nothing calls with effect, and the radius, which is written
  and never read; round-trip times, windows and timestamps, which no decision
  depends on.
* SSZ types, hashing, RLP, Merkle proofs, blooms: pure conversions. A key, a header
  or a content is a model value that says what the code reads of it.
* The state network (a distance function without a protocol) and rendezvous (not
  connected to the client).
* What the proxy relays, datagram by datagram; metrics and logging.
* The libraries: discv5 (a request is answered or fails, a bucket takes a node or
  not, an ENR decodes or not), level databases, the operating system's ports.
