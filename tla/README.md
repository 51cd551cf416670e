# TLA+ models of the distributed file store

This directory models the distributed file store of this repository in TLA+: the chain
of metadata nodes and how it is configured and started, the storage nodes and the client
that moves files through both, the consistent hash ring that places chunks, what happens to
the bytes of a file on their way, the framing of messages, and the threads of one node
process. TLC checks the models on small instances; TLAPS proves the central safety
properties of every part for all instances.

    tlc -workers 2 -config MCChainDurability.cfg MCMetadataChain   # one run
    tlapm MetadataChainProofs.tla                                  # one module of proofs

## 1. The system

| part | state | operations | talks to |
|---|---|---|---|
| `MetadataNode` | `role_`, next/prev/skip address, `metadataStore_` | PUT, GET, PING, UPDATE_PREV, UPDATE_NEXT, SET_SKIP, DIE; the health loop | its successor (PUT, PING, UPDATE_PREV) |
| `StorageNode` | `storage_` (hash to bytes) | STORE, GET, DIE | nobody |
| `Client` | the node lists, the ring | `uploadFile`, `downloadFile` | storage nodes, then metadata nodes |
| `ConsistentHash` | `ring_` (position to address) | `addNode`, `removeNode`, the lookups | used by `Client` |
| `TCPServer`, `TCPClient` | sockets, `clients_` under `clientsMutex_` | accept, send, receive, close, stop | the kernel |
| `common/` | none | split, hash, reconstruct a file; read a configuration | |

An upload stores every chunk on the two nodes the ring names for its hash, then PUTs the
metadata to the first metadata node that takes it, starting at the head. A PUT is stored,
forwarded to the successor, and acknowledged when the successor acknowledged it. A
download asks the metadata nodes for the record from the tail backwards and fetches each
chunk from one of its two nodes. Every node runs one thread per connection; a metadata
node also runs a thread that pings its successor every three seconds and repairs the
chain: over the skip node an operator configured, or by making the node itself the tail.
Nothing is persisted.

What is hard about it:

* threads of one PUT run on several nodes while other PUTs overtake them and the health
  thread changes `role_` and `nextNodePort_`, which PUT and GET threads read unlocked;
* nodes die between storing, forwarding and replying, and the client retries elsewhere
  while the first attempt is still running;
* no socket has a timeout, and no process ignores SIGPIPE: a reply or a request to a peer
  that is gone may kill the node that sends it;
* chunk copies fail one by one, and nothing repairs a missing copy;
* a node's shutdown races with accept and with all its handler threads, which go on using
  descriptor numbers that may have been closed;
* nodes are started, hang and are started again without their records, and each works out
  its place in the chain for itself;
* messages travel in pieces, and a length, a block or a chunk has edges where one byte matters.

`PROJECT.json` lists these hazards line by line with the properties that cover them.

## 2. Modules

| module | models |
|---|---|
| `MetadataChain` | the metadata nodes, the clients' calls on them, failures and operator commands |
| `MetadataRegister` | what the metadata layer promises: a linearizable map |
| `ChainRefinement` | the mapping from the chain to the map |
| `NodeConfig` | the node list file and what `main_metadata_node.cpp` makes of it |
| `ChainDeployment` | the chain with the first links `NodeConfig` gives it |
| `ConsistentHash` | the operations of `dht/consistent_hash` as functions |
| `HashRing` | a ring to which nodes are added and from which they are removed |
| `FileStore` | whole uploads and downloads against storage nodes that fail |
| `FileCodec` | splitting, hashing, the words of PUT and FOUND, reconstruction, `verify_files` |
| `Sha256Blocks` | the blocks and the padding of `common/sha256` |
| `FileTransfer` | `FileStore` with the constants `FileCodec` and `ConsistentHash` compute |
| `NodeServer` | accept loop, handler threads, `TCPServer` and shutdown of one node |
| `Transport` | `sendData` and `recvData` of both TCP classes, byte by byte |
| `MessageChannel` | what they promise: whole messages, in order, until the connection ends |
| `MC*` | instances for TLC |
| `MetadataChainProofs`, `FileStoreProofs`, `FileTransferProofs`, `HashRingProofs`, `NodeServerProofs`, `TransportProofs` | theorems about the module of that name |
| `ChainReadProofs` | theorems about what downloads read from a chain |
| `ChainRefinementProofs` | the refinement of `ChainRefinement`, and the chain `NodeConfig` configures |

`MetadataChain`, `FileStore` and `NodeServer` assume connections that carry whole messages;
`Transport` implementing `MessageChannel` is what justifies it. `FileStore` assumes of the
metadata layer only what `MetadataChain` shows to hold under failures.

Each module keeps the code's names. A definition commented "Faulty variant of X" is what
a plausible mistake in X would be; no specification uses it. It is there to show that the
properties notice the mistake.

### MetadataChain

A node is its position in the client's node list. A PUT that entered the chain at `e` and
is handled on node `n` is the thread `<<o, e, n>>`: `putPc` is where it is, or the reply
it sent, and `callee` the node it forwarded to. A retry of `o` at another node is another
set of threads, so an old attempt runs on beside the new one. The record a PUT carries is
the PUT itself.

`handlePut` is split where other threads can get in between: parsing (`HandlePutBadArgs`),
the store under `storeMutex_` (`HandlePutStore`), the unlocked test of role and port
(`HandlePutDecide`), the second read of the port in `forwardPut` (`ForwardPut`,
`ForwardPutNoConnection`) and the successor's answer (`ForwardPutAcked`,
`ForwardPutRefused`). `handleGet` is split between the role test and the lookup.
`handleNextNodeFailure` holds `chainMutex_` over several steps (`SkipToNode` and
`NotifyNextOfPredecessor`; `ClearNext` and `BecomeTail` in either order, since unlocked
readers may see the two plain assignments in either order).

`status` is `"off"` before a node's start, `"up"`, `"hung"` while the process is stopped with
its sockets open, `"stopping"` after DIE (sockets closed, threads still running) or `"down"`.
`PutReply` and `HandleUpdatePrev` may kill the node that sends the reply when the peer has
gone (SIGPIPE). `KilledSending` is the same on the side of the request: a node in `SlowSend` is
held up between `connect` and `send` of a forwarded PUT, a PING or a notice, and its peer goes
away meanwhile. `Start` is the constructor and `start()`: the links of `FirstNext`, the role
that follows from them, no records. It also models a restart of a node that died, which
breaks what was left of its old connections. A hung node can be connected and sent to, since
the kernel accepts for it, and its callers and its predecessor's health thread wait.
`LateStart`, `TailFirst`, `Restartable`, `Hangable`, `Crashable` and `MaxCrashes` say how much
of this an instance allows.

File names are abstract: `FirstWord` is what `iss >> filename` makes of a name and
`Unparsable` the names whose rest makes the numbers behind it fail to parse. `Blank` are the
names without a word: of a GET that carries one nothing is read, `handleClient` has no `else` for
that, and the caller waits for an answer that never comes. A PUT that carries one is
`Unparsable`, since the size is read for the name.

An operator's command carries a node's port or `NoPort`, the -1 that the code itself uses for
none. A port nobody listens on is that of a node in `LateStart` that is never started; a port is cut
to 16 bits by `htons`, and what is left is again one of the three. A command without a
readable port gets no answer either; it changes nothing and only its operator waits.

Abstractions: connecting and the first send are one step, and so is a PING with its answer; what
can happen in between is `KilledSending`, which is enabled while the PUT is unread at the dead
peer, or the health thread is between two pings and its successor is dead. A peer that is
back before the send, and a client that is killed in its calls on the metadata nodes, are
left out; the client's own kill is in `FileStore`. The ip of a link is not state: all nodes run on
one machine, which `notifyNextOfPredecessor` takes for granted, and change links by port.

### NodeConfig and ChainDeployment

A file is a sequence of lines, a line a sequence of words, a word a number or a text.
`LoadConfig`, `GetMyNode`, `MetadataNodes` and `NextAddress` (host and port) follow
`node_config.cpp` and `main_metadata_node.cpp`. `DeploymentAssumption`, which TLC evaluates in
every run of the chain, says that every node has the host 127.0.0.1 in the file and that `FirstNext`
is the port it computes for its successor, so the chain of the runs is the configured one. The
host matters: `connect` takes only what `inet_pton` reads, and with a name such as localhost in the
file no link would ever be made. `std::sort` is an order chosen so that the ids ascend, and a
loop with `push_back` a recursive function, in this module and in `FileCodec` and
`ConsistentHash`: the library's folds and sorts cannot be reasoned about with TLAPS.

### ConsistentHash and HashRing

The operations are functions of a ring, a map from positions to addresses, and of the hash
function; `HashRing` chooses the hash function in `Init`, so that a run can take every one
into a small range, collisions included, or the code's own (`HashKey`: 32-bit arithmetic that
wraps, as the compilers in use make of the signed overflow).

### FileStore

Each upload and each download is a record that says how far its call is, which chunk and
replica it is at and in which state its connection is; client and node take turns, one
step per message. A chunk and its hash are one thing. A storage node that fails breaks its connections, at every step
of an exchange, and comes back empty (`Crash`, `Restart`). A node that is up may be out of reach for
some of the calls that are at it (`Disconnect`): their `connect` fails or their connections break,
and it is left without the chunk, or with one whose ACK was lost. If the client was about to send, it may be killed
(`ClientKilled`). The metadata layer is taken at its weakest, which is what MetadataChain
shows of it under failures: once the record of an upload is on some node a GET may return
it, or an older one, or nothing. An upload that gave up on its PUT may still have it applied.
`failed` remembers which nodes have failed at some time, or a connection to them, and `crashes`
counts the failures of both kinds.

`ChunksOf`, `RecordOf`, `FileOf` and `Replicas` are constants here.

### FileCodec, Sha256Blocks and FileTransfer

`FileCodec` is the pure part of an upload and a download, over sequences of bytes and of
words: the split, the hashes and the root hash, the PUT command that `putMetadataToNode`
writes and `handlePut` reads word by word, the FOUND message back, and `reconstructFile`
onto a disk with a given room (`out.write` is not checked), or to a path that cannot be opened
(`CannotCreate`). An upload sends the last component of its path (`NamePut`), a download what it
is given (`NameAsked`), so one that is asked for with a directory is not found. `Sha256` is a parameter:
the runs take a symbolic digest, one value per message. `Sha256Blocks` is what `sha256`
does around its compression function, in its one uninitialised buffer, next to the padding
of the standard. `FileTransfer` composes both with `FileStore` and `ConsistentHash`:
`TransferAssumption` says that the constants of `FileStore` are what the codec and the ring of
the `Client` compute from paths, contents and the node list, and `OutputIntact` goes from the
bytes of an uploaded file to the bytes of a downloaded one. The properties of the codec
alone are about constants; they are written `Init => ...` so that TLC evaluates them once.

### NodeServer

The thread in `start()`, one thread per connection and a client per connection. `mutex`
is `clientsMutex_` while a `send` blocks with it; everywhere else it is taken and released
within one step. `activeHandlers_--`, the notification, the test of the wait's predicate
and the blocking are steps of their own. Two facts about Linux are modelled as the code
meets them: `close()` wakes neither an `accept()` nor a `recv()` that is blocked, and the
socket lives until that call returns. `recvData` looks its descriptor up under the lock and
uses it without: if `stop()` closed it in between, the read fails or reads from a connection
that was given the number since (`EnterRecv`, `ForeignRecv`).

### Transport

One direction of one connection. `sendData` writes a length of `HeaderLen` digits to the base
`Base` (4 and 256 in the code) and the payload, each in as many `::send` as the buffer of the
kernel requires; `recvData` collects first one, then the other. Either process may close or
die anywhere, and a reset loses the end of what was on its way. A message of length zero is
what `recvData` returns at the end of a connection too, and its callers take it for that.

## 3. What is checked

Passing runs (bounds in the .cfg of each):

| run | instance | shows |
|---|---|---|
| `chain_linearizable` | 3 nodes, 2 uploads, 2 downloads, no failures | `RefinesRegister`: the chain implements the linearizable map; a PUT takes effect when the tail stores it, a GET when the tail looks it up |
| `chain_durability` | 3 nodes, 2 uploads; head and middle are not yet started, the middle may die; SIGPIPE may then take the tail along in a reply, or the head in a request | `AckedPutReplicated`: an acknowledged record is on every node that can be reached from its entry over live nodes; `LiveNextKept`: only dead successors are dropped |
| `chain_tail_failover` | one client object, 2 uploads, 2 downloads, the tail dies, middle and tail may hang | `ReadsSeeAckedWrites`, `ReadsAgree` |
| `chain_recovery` | one client object, an upload, a download, of a proper name or of none, the middle or last node dies, a skip node is set at some time; no node is slow to send | `AckedStaysReadable`, `SkipRelinks` under fairness; `CallsReturn`: a call ends or is a GET without a name, waiting for a live node; `TailHasAcked` |
| `chain_operator` | an upload of a name that does not parse, five operator commands in any order, two of them with the port -1, a node dies and is started again | `RolesMatchLinks`, with the exception it states, `TypeOK`; `ConfigFormsChain`, of hosts and ports, for all orders of the three metadata lines and two of five other lines |
| `hash_ring` | 3 addresses, a key, all 625 hash functions into five positions, any add/remove sequence | the ring holds its members; lookups return the successor list; adding or removing a node moves only its own keys; a replica takes over from its primary |
| `file_store` | 3 storage nodes, 2 uploads of two versions of a file, a download, one failure: of a node, with restart, or of connections to it | records only name stored chunks; the output of a download is byte for byte one version; no chunk is lost; every call ends. Codec over all contents of up to 5 bytes in chunks of 2: `SplitRoundTrip`, `RecordSurvivesWire`, `VerifiedMeansEqual`; `HashesPaddedMessage` with the code's block of 64 bytes for every length up to 130 |
| `node_server` | 3 connections, 2 of them send DIE | `start()` returns after its handlers; every descriptor is closed once; a reply never goes to a stale descriptor; every client is answered or cut off |
| `transport` | up to 3 messages of 0, 1 and 3 bytes, a buffer of 3 bytes, headers of 2 binary digits | `DeliversMessages`: the framing implements `MessageChannel`; `LengthsSurvive`: a length is read back as it was written; `CallsEnd`: no call waits for a peer that is gone |

Runs that end in a counterexample, each to a sentence of the README or to what a test does:

| run | shows |
|---|---|
| `chain_split_brain` | the middle node dies without a skip node: head and old tail both serve, and a download misses an acknowledged upload |
| `chain_head_failover` | the head dies during a PUT: replies into closed sockets kill the rest of the chain, with an acknowledged upload on it |
| `server_restart` | after DIE the port stays bound, since `close()` does not wake `accept()`; a new node on it fails to bind |

Further configurations reproduce other hazards: `MCChainWriteOrder` (two
uploads applied in different orders on tail and middle, seen after a tail failure),
`MCChainStaleRetry` (a retry of an old upload overwrites a newer one), `MCChainStaleDecision`
(UPDATE_NEXT between a failed ping and the lock: the live successor is dropped),
`MCChainSkipKills` (the notice to the skip node kills it), `MCChainNames` (a name with a
blank is read as another name), `MCChainHeadFirst` (nodes started from the head, as the
README's manual launch lists them: the head gives up on a successor that is not there yet,
stays SINGLE, and its acknowledged uploads are on no other node), `MCChainRestart` (the tail
dies and is back, empty, before anybody pings it: acknowledged files are gone), `MCChainHung`
(an upload waits for a hung head for ever, although README:38 promises failover from an
unresponsive one), `MCChainDoubledLine` (a line that is in the list file twice makes a node
its own successor), `MCFileStoreOneDown` (never two storage nodes down at once, and still a
chunk of a completed upload is lost), `MCFileStoreClientKilled` (SIGPIPE in an upload),
`MCFileStoreDiskFull` (an output cut short is reported as reconstructed, and no hash is compared),
`MCFileStoreBlankStored` (a blank and a number in a name: the record is read with its words
shifted), `MCTransportTooLong` (a length that does not fit the header), `MCHashRingDeployed` (the two addresses of `main_client.cpp` are neighbours on the
ring: -35736874 and -35736873, so one node is primary of practically every chunk),
`MCServerDrain` (lost wakeup), `MCServerDestroy` (notification after destruction),
`MCServerForeignRead` (a command read from another connection) and `MCServerStalled` (a
client that does not read blocks all others). TLC reports a violation for each.

Three of these were also reproduced with the compiled code: a storage node that closes
after READY ends the uploading client with SIGPIPE, a notice to a skip node ends that node
with SIGPIPE, and a storage node started after DIE on the same port fails to bind.

### Bounds

Three nodes are the chain the README deploys, and the shortest with a middle node, which
the split and the skip need. Two uploads of one file are the fewest that can be reordered
or overtake each other; two downloads the fewest that can disagree. One death per run of
the chain leaves the deaths by SIGPIPE unbounded. Three storage nodes are the fewest on
which the replica pairs of two chunks overlap without being equal. Five hash positions for
three addresses and a key leave room between, before and behind all of them and allow every
pattern of collisions. Three connections are a DIE, a second DIE and a bystander.
Two nodes that start late are the fewest for which an order matters. Contents of five bytes in
chunks of two have zero, one and several chunks, full and short last ones, and repeated
chunks. Headers of two binary digits announce at most three bytes, one message of which
fills the buffer, so headers and payloads are both taken apart at every place. 130 bytes are two
blocks and more: the length falls into the last block, into an extra one and onto both edges.

`PutSymmetry`, and `CallSymmetry` in `chain_tail_failover`, where the calls of one client
object are interchangeable, are used only where no liveness is checked. `UploadsFirst`, in
`MCChainWriteOrder` only, narrows the search for a counterexample.

Deadlock is checked in `chain_linearizable`, `chain_tail_failover`, `chain_recovery` and
`hash_ring`: a node's health loop never ends while it is up. It is switched off where
every node may be dead or every call over.

### Fairness

Weak fairness of a client's call, of every PUT and GET thread, of the health thread and of
the delivery of a notice: the operating system runs threads that are not blocked and TCP
delivers. In `NodeServer` handlers and the main thread get strong fairness because they
compete for `clientsMutex_`: a mutex that is released again and again is granted to every
waiter in the end. In `Transport` a thread in `::send` or `::recv` goes on when it can, callers read
until `recvData` returns nothing, and the kernel answers what arrives for a closed socket with
a reset. No fairness for users, failures, operators, starts or restarts, nor for a hung
process to go on.

## 4. What is proved

Each theorem holds for every value of the constants that its module's named assumption
(`ChainAssumption`, `StoreAssumption`, ...) allows, and under the hypotheses named with it.
The runs satisfy the hypotheses of the properties they check. Of the inductive invariants
`SteadyInv` (the instance of `chain_linearizable`), `TailInv` (one upload, two late starts, two
deaths, a stall and a skip node) and `ReadsInv` (the instance of `chain_tail_failover`) were also
checked with TLC to the end; `FrameInv`, which asks for
a stream, is not one TLC can evaluate.

### The metadata chain (`MetadataChainProofs`)

For every length of the chain, any sets of files and calls, and any number of failures:

* `TypeCorrect`: `TypeOK` is an invariant.
* `RolesAgreeWithLinks`: `RolesMatchLinks` is an invariant, for commands to any node with any port,
  -1 included. An UPDATE_NEXT with -1 makes a TAIL a MIDDLE, or a SINGLE a HEAD, without a
  successor: it then neither answers GETs nor forwards. The property says that this
  (`Unlinked`) is the only way in which a node without a successor does not serve.
  Not inductive alone: while the health thread holds `chainMutex_` role and links disagree,
  so `LockInv` says for each of its program locations which half of the change is made, and
  that an UPDATE_NEXT with -1 is one an operator has sent.
* `AckIsDurable`: `AckedPutReplicated` is an invariant of an `Orderly` chain: no operator, no
  node started a second time, nodes started from the tail, each linked to the next position.
  Deaths by SIGPIPE, in replies and in requests, are included.
* `OnlyDeadNodesAreDropped`: `LiveNextKept`, under the same hypothesis.
* `AcksReachTail`: `TailHasAcked`, under `NoRelink`: no UPDATE_NEXT and no second start.

The first two hold for any first links and any order of starts, with restarts and stalls.
The argument for `AckIsDurable` is the invariant `DurInv`: `StartInv` (the nodes not yet started
are a prefix of the chain, have no records and still their first links), `QuietInv` (without an operator no
skip node and no command is ever in play), `LinkInv` (a node is linked to the next position
or, if it has none, that one is gone for good; the health thread has given it up only then),
`ThreadInv` (a thread that stored has the record on its node; one that waits has forwarded
to the next position; one that replied ACK has, by induction along the chain, the record
on every live node behind it) and `AckedInv` (the same of a call that returned). `LinkInv`
makes the second read of `nextNodePort_` in `forwardPut` harmless, and the stability of the
records (a node's entry is only ever replaced by a rival's) makes `ThreadInv` an invariant
although other uploads, starts and failures go on. `Orderly` is needed: an UPDATE_NEXT may
leave a live node out of the chain, a restarted one is empty, and `MCChainHeadFirst` and
`MCChainRestart` are the counterexamples without it.

`AcksReachTail` needs neither a start order nor particular links, and allows skip nodes and
UPDATE_PREV. What carries it (`TailInv`) is that giving up is final: a node that serves reads
or lost its successor never forwards again (`GaveUpStays`, from `LockInv`, since
`handleNextNodeFailure` takes a skip node only while the old link stands). So an ACK, which
starts at a node that does not forward and is passed on from callee to caller, comes either from
the last node, which has stored, or from a node that gave up, and then nothing is promised.
An UPDATE_NEXT would revive such a node and the records it acknowledged alone would be missing
at the tail; a restart would empty the tail.

### What downloads read (`ChainReadProofs`)

* `DownloadsNameTheirFile`: the record a download gets is one uploaded for its file, under
  `NamesDiffer` (no two names agree up to their first blank), for every failure, restart and
  operator command of the model. `MCChainNames` is the counterexample without it.
* `ReadsAreFresh`: `ReadsSeeAckedWrites`, under `TailMayDie`: an `Orderly` chain, all started, of
  which only the tail may die and no node is in `SlowSend` (its predecessor could die with it); any
  node may hang. Any number of clients, any names.
* `ReadsAreStable`: `ReadsAgree`, under `TailMayDie`, `OneUploader` (one `Client` object makes the
  uploads, so that they come one after the other) and `NamesDiffer`.

`ReadsInv` adds to `DurInv` and `LockInv` what makes reads fresh. Only the tail can be gone, so a
PUT runs at a single place of its line at a time: nothing has happened ahead of a thread that has
not passed its PUT on (`AheadInv`), and behind one that works everybody waits, up to the client
(`BehindInv`). Hence no thread of an upload that has returned is still about to write, and a node
that an upload has written to holds no record older than it (`OrderInv`, with `BeforeInv` for what
older means). An ACK comes from every node that is up (`AckLineInv`), a refusal only from a bad name
or a dead tail, so that no upload is on the tail alone (`RefusalInv`), and a GET is answered by
the tail or, after its death, by its predecessor (`ReadInv`), which has the same records or newer
ones. Without `TailMayDie` the property is false: a dead middle node leaves two halves that both
serve (`chain_split_brain`), and a head that dies leaves an old PUT running while its client
retries (`MCChainStaleRetry`). Without `OneUploader` two uploads may be applied in different orders
on the tail and its predecessor (`MCChainWriteOrder`).

### The chain as a linearizable map (`ChainRefinementProofs`)

* `ChainIsLinearizable`: a `FailureFree` chain implements `MetadataRegister` (`RefinesRegister`),
  for any length, any number of concurrent calls and any assignment of calls to clients.

`FailureFree` says that nothing dies, hangs, starts late or is rewired and that all names parse:
with failures the claim is false (`chain_split_brain`, `MCChainWriteOrder`). The invariant
`SteadyInv` says that the nodes stay as constructed (`CalmInv`), that the threads of an upload
form a line from the head to the node it has reached, with ACKs coming back from the tail
(`Chained`), and that a download has an answer from the tail before it asks any other node
(`GetOK`). Each step is then mapped: the store and the lookup at the last node are the effects
of PUT and GET, the client's steps are calls and returns, all others are stutters.

### The configured chain (`ChainRefinementProofs`)

* `FilesFormChains`: `ConfigFormsChain`, hosts and ports, for every node list file whose words are numbers and texts
  that are not empty and that gives no metadata node's id twice (`IdsDiffer`): in whatever order
  the lines are and whatever lines are between them. `MCChainDoubledLine` is the counterexample
  without `IdsDiffer`.
* `FileLinksInOrder`: a file with the N metadata nodes, each once, gives exactly the first links
  that `Orderly` and `FailureFree` suppose.

`KeptElements` says what the loops with `push_back` keep, `SortedAscends` that `std::sort` has an order
to find: a node's place is one more than the number of nodes with a smaller id, and as many
places as nodes are all taken. So a node's id is at one place of the sorted list, and what is
behind that place is the least greater id.

### Uploads and downloads (`FileStoreProofs`)

For any storage nodes, files, chunks, replica lists, calls, failures and restarts:

* `StoreTypeCorrect`: `TypeOK`, including that an upload in its loops has a chunk and a replica.
* `RecordsComeLast`: `RecordsHaveChunks`; `DownloadsAreUploads`: `DownloadIntact`; both under
  `FaithfulRecords`.
* `FailuresLoseNoChunk`: `NoChunkLost`, under `FaithfulRecords` and `EnoughReplicas`: every chunk
  has more replicas than there are failures, of nodes or of connections.

`FaithfulRecords` says that the record of an upload is read as the list of its chunks or not at
all. `FileTransferProofs` proves it of the codec (`RecordsAreFaithful`) for names in which no number
follows the first blank, and `MCFileStoreBlankStored` is what happens otherwise. `StoreInv` follows an upload through its loops: what lies behind it is stored on every
replica that has not failed, nor a connection to it (`Progress`), so it is when the metadata is sent (`UpInv`) and ever
after (`MetaInv`); a download has a prefix of one record (`DownInv`). For `NoChunkLost`,
`LossInv` adds that a download has passed over failed replicas only, of which there are at most
as many as failures. The bound is on failures, not on nodes that are down at once:
`MCFileStoreOneDown` loses a chunk to two failures one after the other.

### From bytes to bytes (`FileTransferProofs`)

For any chunk size, contents and paths:

* `SplittingRoundTrips`: `SplitRoundTrip`, for every order in which the chunks come back.
* `RecordsSurviveWire`: `RecordSurvivesWire`, for names in which no number follows the first blank
  (`NoNumberBehind`); other names with blanks are refused.
* `VerifiedIsEqual`: `VerifiedMeansEqual`, if no two chunks and no two lists of hashes of the files
  have the same SHA-256 (`NoCollision`), and none of a list is the empty string.
* `DownloadsAreFiles`: `OutputIntact`, under `FilesHashApart` (no collision among the chunks),
  `NamesAreRead` (`NoNumberBehind`, and an upload and a download whose names are read as the same
  word have the same name) and `RoomForFiles` where the output can be created. It takes `DownloadsAreUploads` from the chunks to the bytes.
  `MCFileStoreDiskFull` is the counterexample without the last; `MCFileStoreBlankStored` and
  `MCChainNames` show records misread and files confused without `NamesAreRead`.
* `BlocksAreParts`: `sha256` compresses the blocks of the standard's padding, for every message,
  width of a block and of the length, and whatever was in the buffer; `MessagesAreHashed`
  (`HashesPaddedMessage`) is its instance for the messages of the run.

The i-th byte of a file is byte `(i - 1) % ChunkSize + 1` of chunk `(i - 1) \div ChunkSize + 1`
(`ChunkPlace`), which gives the contents back from the chunks in order (`ChunksGiveContent`);
indices that ascend and are a permutation are in order (`IncreasingIsIdentity`), so the sort of
`reconstructFile` restores it. Where an argument is an induction over data (a concatenation of
many parts, a loop), it is carried out as the choice of a least counterexample
(`WellFoundedInduction`): the provers can use that a set of numbers has a least element.

### The ring (`HashRingProofs`)

For any addresses, keys and hash functions, collisions included: `RingTypeCorrect`,
`RingIsItsMembers` (`RingHoldsMembers`), `KeysMoveMinimally` (`MinimalMovement`), `ReplicasFollowTheKey`
(`ReplicasAreSuccessors`, for a finite set of addresses) and `ReplicaTakesOver` (`FailoverToReplica`).
They rest on `LowerBoundIsFirst`: the position `lower_bound` finds, with the wrap, is the first met
on the walk from the key. Of two nodes that stay in the ring the walk meets the same one first,
so keys move minimally. `WalkFromKey` says that the loop with its `%` visits all positions in the
order of that walk, `CollectsFirst` that it keeps the first n of them, since each position has
a node of its own (`RingHoldsMembers`).

### One node's threads (`NodeServerProofs`)

For any number of connections, DIE commands and stalled clients: `ServerTypeCorrect`,
`StartOutlivesHandlers` (`ReturnsAfterHandlers`), `DescriptorsClosedOnce` (`ClosedOnce`) and
`RepliesKeepTheirDescriptor` (`RepliesToOwnClient`). `ServerInv` ties the four pieces of state
together: `active` is the number of threads that have not counted themselves out (`CountInv`),
a connection is in `clients` exactly while its thread works and its descriptor is open
(`EntryInv`, `FreshInv`, `AcceptInv`), and the holder of `clientsMutex_` has its entry (`MutexInv`),
which is why neither `stop()` nor `closeClient` closes a descriptor that is being written to.

### The framing (`TransportProofs`)

For any messages, buffer size, header length and number of messages: `TransportTypeCorrect` and
`FramingDelivers`, the refinement of `MessageChannel` (`DeliversMessages`), and `LengthsAreRead`
(`LengthsSurvive`): a header gives back the length written into it. The hypothesis is `LengthsFit`:
shifted by the digits of a header nothing is left of a length, which holds of the code's four
bytes for every message shorter than 4 GiB (`MCTransportTooLong` is one that is not). `FrameInv`
says that there is a stream of bytes, the encoding of all messages sent, of which the receiver's bytes, the
wire and the sender's rest are adjacent pieces; a reset or a dead sender only cuts its end.
From it every completed header is that of the next message, every completed payload is that
message, and a wire that is empty after an orderly close leaves nothing undelivered.

### Only model-checked

* Everything about liveness (`CallsReturn`, `AckedStaysReadable`, `SkipRelinks`, `EveryoneServed`,
  `CallsEnd`): fairness is out of the prover's reach.

Every safety property of a passing run is stated by a theorem. Beside the hypotheses named above,
what the proofs do not reach is what the constants stand for: that `RingOf` and `HashKey`, which
are folds, are what `TransferAssumption` and the runs use is evaluated by TLC on the instances.

## 5. What is not modelled

* The compression function of SHA-256: a digest is symbolic, two messages never share one.
* The programs that drive and measure the system (`main_client.cpp`, `main_system_tests.cpp`, the
  two performance programs): their node lists, start orders, DIE commands and concurrent
  clients are inputs of the models; what they count and print is not state of the system.
* Operations without effect or without a caller: `GET_STATUS`, `printRing`,
  `NodeConfig::getPeerNodes`, `Chunk::to_string`, the durations `Client` records.
* The lifetime of the detached health thread of a `MetadataNode` after the node is destroyed,
  and undefined behaviour in what it reads there.
* A client killed by SIGPIPE in its calls on metadata nodes, operators' commands that are not
  answered, and what they wait for.
* More than one command on a connection in `NodeServer`: the clients of this code send one and
  close. Both directions of a connection at once in `Transport`: the protocol is half duplex.

## 6. Plan

1. Done: the chain with its abstract map, its configuration, start and restarts; the ring; whole
   uploads and downloads down to the bytes; the framing; the node's threads.
2. Done: every safety property of the passing runs and both refinements, for all instances under
   the hypotheses of section 4.
3. Left: weaker hypotheses, each to be tried with TLC first: `ReadsAreFresh` for a chain with skip
   nodes whose middle dies, `ChainIsLinearizable` for one whose tail dies.
