# BitChord in TLA+

TLA+ specifications of the file-sharing programs in this repository, the TLC
runs that check them on small instances and the TLAPS proofs of what holds for
every instance.  Paths are relative to the root of the repository, which is
mounted as `src/`: `src/src/tracker.cpp` is the tracker's main program.

## 1. The system

The repository holds two programs that share no code.

**The tracker system** is what the Makefile builds.  One *tracker* process
keeps accounts, groups and a catalogue of who serves which piece of which file.
*Peer* processes send it commands over one TCP connection each, and fetch
pieces from each other over TCP connections of their own.

**The Chord node** is what the README describes.  Nodes form a ring by UDP
messages and store who has which file at the node responsible for the name's
hash.  No Makefile target builds it and several handlers are placeholders.

| Component | Source | State | Operations | Talks to |
|---|---|---|---|---|
| Tracker: accounts, sessions | `tracker.cpp`, `helper_tracker.cpp` 35-75, 377-387, 453-468 | `user`, `loggedIn`, `logmap`, `listenmap`, descriptors | accept, first message, `create_peer`, `login`, `logout`, disconnection | peers (TCP) |
| Tracker: groups | `helper_tracker.cpp` 76-248 | `group`, `group_members`, `pending` | `create_group`, `join_group`, `accept_request`, `leave_group`, lists | sessions (who asks) |
| Tracker: catalogue | `helper_tracker.cpp` 249-452, 789-812, `utils.h` | `group_file`, `file_pieces`, `filedetails`, `downloads` (`file_list` is never read) | `upload_file`, `stop_share`, `download_file`, `file_details`, `download_completed`, lists | sessions, groups |
| Tracker: dispatch | `helper_tracker.cpp` 453-827 | one detached thread per connection | command parsing, session test, replies | all of the above |
| Peer: console | `peer.cpp` | one TCP stream to the tracker | one command, one `recv` for its answer | tracker |
| Peer: transfer | `helper_peer.cpp`, `peer.cpp` 134-228 | files, piece map | serve a piece, fetch a piece with retries, hash test, seed | peers, tracker |
| Chord: queues | `protocol.cpp` | linked list, mutex, condition variable | `push_message`, `pop_message` | listener, console and maintenance threads |
| Chord: ring | `node.cpp`, `stabilization.cpp` | `successor`, `predecessor`, `finger` | `join_ring`, `stabilize`, `notify`, `fix_fingers`, `check_predecessor`, `find_successor` | other nodes (UDP), queues |
| Chord: files | `file_entry.cpp`, `utils.cpp` 32-120 | `files`, `uploaded_files` | `store_file`, `find_file`, transfer at a join | ring |
| Chord: identifiers | `utils.cpp` 12-30 | none | `is_in_interval`, `should_transfer_file` | ring, files |

**What is hard.**  The tracker's threads share maps of containers and take no
lock, so tests and writes of different connections interleave.  Sessions are
keyed by descriptor, and nothing clears them when a connection ends, so a
descriptor's next connection inherits its session.  The catalogue is keyed by
file name alone, groups by name: one file can be entered, stopped and
downloaded through several groups.  Dissolving a group leaves its pending
requests and its files behind.  Neither side of the TCP stream between a peer and
the tracker marks where a message ends.  In the Chord
node three threads share the queues and the list of entries, UDP may lose,
repeat and reorder messages, and no wait has a timeout.  A peer serves pieces
from whatever is on its disk, also while that is being downloaded over; a
request for a file that is gone, or a downloader that hangs up, ends the serving
process, and a source that goes silent holds its downloader for ever.
`PROJECT.json` lists each hazard at its line.

## 2. Modules

| Module | Models | Depends on |
|---|---|---|
| `Accounts` | connections, accounts, sessions | |
| `Membership` | groups | |
| `Sharing` | the file catalogue | |
| `Tracker` | the tracker process: dispatch and composition | instances of the three above |
| `CommandStream` | a peer's console and its tracker thread on one TCP stream | |
| `ReplyBox` | abstract: what the Chord queues promise | |
| `MessageQueue` | the queues as linked lists, threads, mutex, condition variable | implements `ReplyBox` |
| `PieceTransfer` | downloads between peers: fetch, retry, serve, hash test, seeding | |
| `IdRing` | comparisons of Chord identifiers | |
| `ChordRing` | Chord nodes as they run: join, hand-over of entries, store, find, exit | extends `IdRing` |
| `ChordMaintenance` | the rest of the Chord code: node thread, its messages, lookups at other nodes | extends `ChordRing`, proved to implement it |
| `AccountsProofs`, `MembershipProofs`, `SharingProofs`, `TrackerProofs`, `CommandStreamProofs`, `MessageQueueProofs`, `PieceTransferProofs`, `ChordProofs` | theorems and proofs (`ChordProofs`: of `IdRing`, `ChordRing` and `ChordMaintenance`) | extend their module and TLAPS |
| `MC...` | instances for TLC: symmetry sets | extend the module they check |

### The tracker's handlers

A C++ map is a function on a finite set of keys with `None` for an absent key;
a map of sets reads as the empty set where there is no entry, as `operator[]`
does.  In `Membership`, `Sharing` and `Tracker` **one step of a handler is one
visit to one entry of one map**, in the order of the code: `leave_group`, say, is
`LeaveGroup` (find the group, line 198), `LeaveGroupFind` (202), `LeaveGroupOwner`
(206), `LeaveGroupSize` (208), `LeaveGroupHeir` (210), `LeaveGroupAppoint` (212) and
`LeaveGroupErase` (216, 226), or `DissolveGroup` (220) and `DissolveMembers` (221).
The request in progress, with its next visit, is kept per descriptor (`mreq`,
`sreq`, `freq`).  A loop over a piece list (the scan of `upload_file`, the loop of
`stop_share`) is one visit.  In `Accounts`, `create_peer` and `login` are a test and
a write; the write of `login` sets `loggedIn` and `logmap` in one step, as the
header of the module justifies.  A request whose first test fails changes no
state and has no action (its reply is text).

The steps of different connections interleave, as the unlocked threads allow.
The history variable **`overlapped`** tells whether, since the tracker started,
a request was ever taken up while another one was in progress.  It restricts
nothing.  What needs the requests to be answered one after the other, as with a
single active client, is stated as `~overlapped => ...`; what is stated without
it holds on every schedule of these steps.  The difference between the two kinds
is what the missing lock costs, and it is large: most of what the handlers mean to
keep is of the first kind.  A finer interleaving, inside one container operation
or one loop over a list, is a data race: undefined behaviour that the container
classes do not survive in any defined way.  The one outcome modelled for it is the
end of the process (`Restart`); no property is claimed about a tracker that goes on
with a corrupted container.

`Accounts`: `open` is the set of descriptors with a live connection.  `Accept`
may hand out any closed descriptor.  `Announce` is the first message; that it may
take the first command with it changes nothing here, the command being dropped.
`HelloLost` is the ignored failure of the first `recv`, whose uninitialised buffer
is parsed as any address or throws (then `Restart`).  `Disconnect` leaves all maps
as they are, as the code does.

`Membership`: `me` is the peer logged in on the connection.  The heir of an
owner who leaves is the first other member of the ordered set; the model lets
it be any other member.  `group[...]` on the right of a comparison (lines 181, 206)
is `operator[]`: when another thread has dissolved the group meanwhile it creates
it with the empty owner, `Blank` (`Touch`).  `founder` and `asked` are history
variables: whose `create_group` made the group, and who ever asked to found or to
join it.  They restrict nothing.

`Sharing`: a piece is a number and a function from endpoints to the credit
(uploader, version) stored there, since `file_info::operator<` compares path,
address and port but neither peer name nor hash; `AddSource` keeps the first
credit as `set::insert` does.  A peer process serves a name from one path, so
the path belongs to the endpoint.  A version stands for a file's contents and
so for its length and its hashes.  Who may ask is not its subject: any peer may
ask for anything at any moment, so what it promises it promises whatever happens
to groups and sessions.

`Tracker` binds the three.  Every command but `create_peer` and `login` needs an
entry of `logmap` and acts for the peer found there, whether or not that peer is
the one who opened the connection (`AsPeer`); `upload_file` takes the endpoint from
`listenmap`; `upload_file`, `download_file` and `stop_share` first visit `group`
and, the first two, `group_members` (`FindGroup`, `TestMember`), then `group_file`
(`OpenFile`), and other threads go on between these visits too.  All interleavings
of handlers of all three parts are behaviours of the module.  Its steps about
connections, accounts and sessions *are* the actions of `Accounts`; that its other
steps are steps of `Membership` and `Sharing` taken on behalf of a named peer is
what `RefinesMembership` and `RefinesSharing` say, so what is checked and proved of
a part holds in the tracker.

### The conversation

`CommandStream` is the other side of `handleClient`: not what a command does but
when it is received and how many sends answer it.  `Type`, `UploadDetails`,
`SendPiece` and `PiecesDone` are the peer's sends, `ConsoleRecv` and `PieceRecv`
its two kinds of `recv`, `Greet` the tracker's first `recv`, which expects the
address the peer sends before anything else and drops whatever comes with it, and
`Handle` one turn of the tracker thread's loop.  A `recv` returns the first `k` sends
under way, for any `k`.  `Answers` gives for
each kind of command the answers the handlers can send: one line, several (a
list), the details of a download in one or more segments, or none.  The history
variable `slipped` is raised when a `recv` leaves part of the answers behind and
when `file_details` is answered although nothing waits for it (an upload without
a session); `silence` remembers the command taken last when it got no answer ("hello" when
it was dropped with the address).
A completed download seeds the pieces of its file, a failed one none.

### The Chord queues

`MessageQueue` has one action per stretch of code between two points where
another thread could notice: taking the mutex, looking at a node, relinking,
waking.  Deleted list nodes are reused by later pushes, so a stale pointer would
show.  `Receive` lets any message arrive at any time (late, repeated, for nobody).
`ReplyBox` is the promise: a thread takes the oldest message with its id.  The
refinement maps the list from `head` along `next` (`Chain`, the one sequence of
nodes the links lead through) to the sequence `box`.

### Downloads between peers

`PieceTransfer` is one file name and the peers that have or want *the file*, or have
another file of that name (`Others`: other contents, perhaps longer).  `disk` is
what each has at its path: every piece right or wrong, and whether it is longer
than the file.  `details` is whose size and hash the tracker has, the file's or
another's.  `console` is where the main thread is: at the prompt, fetching (which
pieces are to do, from which source, after how many tries, and what has become of
the connection), about to test the hash, or announcing pieces.

| Code | Actions |
|---|---|
| `download_file`: details, presizing, `piece_map` (`peer.cpp` 134-205) | `Download`, `DownloadAborts` (the uncaught `stoi`) |
| `download`, one turn of its loop, with `handle_peer` of the source | `Connect` or `Refused`; then `Serve`, `ServerExits`, `Lost`, or nothing more |
| a connection reset, a source gone silent, a peer out of reach | `Reset`, `Stall`, `Unreachable` |
| hash test, `unlink`, `piece_creation` (`peer.cpp` 215-225) | `Verify` |
| `upload_file` of whatever file is there, and its effect at the tracker | `Upload`, `AnnounceScan`, `AnnounceAppend` |
| `stop_share` | `StopShare` |
| the process, the user's file | `Quit`, `SigPipe`, `Restart`, `Touch` |

A process ends in four ways: its user ends it (`Quit`), `stoi` throws, a serving
thread calls `exit(1)`, or a `send` to a connection whose other end is gone raises
SIGPIPE, for which there is no handler (`helper_peer.cpp:115`, `hung_up`).  The
last can hit any peer, however careful: a downloader that quits while it is being
served is enough.

Three things the code does are kept as they are: a piece counts as received only
if it is `PIECE_SIZE` long, so a short last piece is fetched until the tries are
used up; the hash compared is that of the *source's path opened on this
machine* (`Local` says whose file that is); and what arrives is written into the
destination whatever it is, so that only the hash of the whole file decides.
The tracker's list is in the order of its `push_back`s, which overlapping
uploads can leave out of order; the peer's parser then sees only the entries it
takes for what they are (`Aligned`).  The histories `touched`, `rewritten`,
`strays`, `killed` and `broken` restrict nothing; the properties use them to name the
causes they exclude.

### Chord nodes

`ChordRing` has a node's main thread (`main`: joining, fetching entries, at the
prompt, putting an entry in front of `files`, waiting in a `find`), its listener
(`listener`: free, or between sending entries and deleting them), `succ`,
`files`, the two queues and `net`, the datagrams under way.  A queue is used as
`ReplyBox` promises, which `MessageQueue` is proved to implement: answers taken by
request.  `Create`, `Join`, `JoinReply` and `FetchEnd` are `create_ring` and
`join_ring`; `Store` and `Find` are the console's; `LinkRead` and `LinkWrite`
are the two halves of a push on `n->files`, `DeleteRead` and `DeleteWrite` those
of `delete_transferred_files`, which another thread runs without a lock.
`HandleJoin`, `HandleGetFiles`, `HandleReply` and `HandleFileData` are the
branches of `handle_requests`.  `Receive` delivers in order; `Overtake`,
`Duplicate` and `Lose` are what UDP may do besides, and `odd` remembers which
of that, an exit (a node does not come back: its contacts would need its old
address and identifier), a race of the two threads (`raced`) or an answer by a node
still joining (`early`) has happened.  Memory that holds no entry is `Junk`.
`New` restricts the environment, not the code: a name is stored once, since the
properties about entries tell them apart by name.

`ChordMaintenance` adds `pred`, `finger`, the node thread and its messages:
`stabilize`, `notify`, `fix_fingers`, `find_successor_remote` and the handlers of
STABILIZE, NOTIFY and FIND_SUCCESSOR.  It is the whole program, and nothing of it
beyond the first question ever happens: STABILIZE is answered only by a node
with a predecessor, a predecessor is set only by NOTIFY or `notify`, and the node
thread reaches those only after an answer, for which it waits without a timeout.
So fingers stay the node itself and every lookup is answered with the node's own
successor.  This is the theorem `MaintenanceIsDormant`, and by
`WholeImplementsChordRing` the small module has every behaviour of the whole.
That is why the passing run checks `ChordRing`, and why `ChordMaintenance` has
none: most of its actions cannot be fired.

## 3. What the runs show

Passing runs.  What is in italics holds until two requests overlap, in `stream`
until an answer slips; what is in plain type holds on every schedule of the steps
described above.

| Run | Instance | Properties |
|---|---|---|
| `accounts` | 3 descriptors, 2 peers, 2 passwords | *`SessionIndex`*: `loggedIn` and `logmap` agree, no session on two descriptors; `SessionsHaveAccounts`, `PasswordsKept` |
| `membership` | 2 connections, 3 peers, 1 group | *`OwnerIsMember`*, *`OnlyFounderDoublyListed`*, *`MembersAdmitted`*, *`RequestsKept`*; `NobodyUnasked`; `OwnershipToMember`: only a departing owner's handler replaces it, *and by a member* |
| `sharing` | 2 connections, 2 peers, 2 groups, 1 file of 2 pieces | *`NoDuplicatePiece`*, *`NoUnlistedPieces`*, *`KeptListsHaveSource`*, *`OthersSourcesKept`*; `CreditStays` |
| `tracker` | 2 descriptors, 2 peers, 1 endpoint, 1 group, 1 file of 1 piece; handlers of different parts overlap, and logins | `NamesHaveAccounts`; `ListedByMember`: by the peer logged in, which has asked for the group, *and is a member*; the refinements `RefinesMembership`, `RefinesSharing` |
| `stream` | 6 messages, answers of up to 3 sends, files of up to 2 pieces | `StuckOnlyOnSilence`: both sides receive for ever only after a command the tracker does not answer or drops with the address; *`InStep`* |
| `queue` | 2 waiting threads, 3 messages with 2 ids, 3 list nodes | `ListWellFormed`, `NoDanglingScan`, the refinement `RefinesReplyBox`; liveness `Answered` |
| `transfer` | 3 peers: one with the file, one with it or another, one with nothing; 2 pieces, the last short; 2 tries, 3 commands, 1 fault | `SeedsAreExact`, `OnlySpoiledAreKilled` (by `exit(1)`), `NoPartialLeft`, `CleanDownloadIsExact`; liveness `DownloadsEnd`, unless the source goes silent |
| `chord` | 3 nodes, 2 files, 2 commands, 1 fault | `EntriesAccounted`, `JunkHasCause`, `StarUnlessEarly`; liveness `JoinCompletes` |

What the model has and no property can promise, because it goes wrong in it: after
an overlap, two uploads append the same piece twice, an upload wipes the list
another has just filled (`helper_tracker.cpp:288`), a download creates a list for a
file nobody lists any more (340), the second write of `accept_request` erases a new
request (184), an heir that has left is appointed (212), a group is created with no
owner (181, 206), and a peer that has left lists a file (308).

Runs that end in a violation, each a disagreement of the code with a text of
the program:

* `accounts_race`: `login` refuses a second login with "someone else is logged
  in as" (`helper_tracker.cpp:513`), but tests at line 60 and writes at line 68
  without a lock.  Two interleaved logins put one peer on two live connections.
* `accounts_stale`: the same answer is given after the peer's connection has
  dropped, because `handleClient` ends (line 826) without clearing the session.
* `sharing_twogroups`: `list_files` is said to list sharable files
  (`peer.cpp:109`), but `stop_share` through one group erases the piece list
  (line 430) while another group still lists the name.
* `chord_ring`: the README speaks of a "robust logical identifier ring topology", of
  a layer that "maintains the logical Chord ring" and of a background stabilization
  that "periodically verifies and updates node relationships" (`README.md:8`, 14 and
  10), and the comment at `stabilization.cpp:46` takes the answer to JOIN for the new
  node's successor.  But every node that joins is given the node that created the
  ring, and no node thread ends its first round (`node.cpp:162`, see above), so
  nothing corrects that.  Three nodes end as a star (`StarUnlessEarly`, which is what
  the code does), not as a ring.  The run assumes that the node threads go on and
  that their messages arrive.

**Bounds.**  Two descriptors give every pair of interleaved handlers, and any number
of requests of one connection fit between two steps of the other; accounts have
three so that a descriptor can be closed, inherited and competed with.  Three peers
give an owner, an heir and an applicant.  A group handler touches one group only, so
one is enough there; the catalogue has two, because one file name can be shared
through both.  Two piece numbers give a first and a last piece.  One file and
one version are enough for the list properties, which speak of one file at a
time; one endpoint is enough for a credit to be contended for by two peers.
`MaxPieces` bounds a piece list: until requests overlap a
list never exceeds the number of piece numbers, so the bound cuts nothing off;
after that it stops the duplicate that would make a third entry.  `OneDownload`
(a constraint of the `sharing` run, and of `tracker`) does not go beyond states with
more than one download on record: no other handler reads `downloads`.  `PartsOverlap` (a
constraint of the `tracker` run) does not go beyond states with two handlers of the
same part in progress, two logins excepted: such overlaps are what the runs of the
parts are about.  Two logins may overlap because they put one peer on two
connections, so that it can leave a group on one between the visits of its upload
on the other.  The theorems have neither bound.  In `stream`, six messages
are a login, an upload of two pieces and two more commands; three sends per
answer let a `recv` take a first part, a middle and a rest.  The conversation
really can get stuck, and stops at the bound, so its run does not check
deadlock.  In the queue, three
nodes give a first, a middle and a last one, and nodes are reused once popped;
`MaxSpurious` bounds wake-ups without cause to one, and `MaxPushes` the
messages to three.  With these two bounds the queue may come to rest with both
threads waiting, so its run does not check deadlock.  In `transfer`, the
second peer publishes the file, as a second source, or another of its name; the
third downloads and then serves; `Local` gives each pair of machines one of its
three values; the other file is longer and has no piece in common with the file,
which makes every mixture of the two recognisable; two pieces are a full one and a
short last one; two tries (three in the code) are a retry and a last try; three
commands are two uploads and a download, or an upload, a download and a
`stop_share`; one fault is a quit, a reset, a stall, a failed connection or a
replaced file, and SIGPIPE and `exit(1)` follow from it without being counted.  In `chord`, node 30 creates the ring, the others join it
or each other, also at once; files 15 and 25 lie so that 10 takes both and 20
one.  `MaxFaults` is one because each property names the faults it excludes:
one suffices to show that it bites, none are needed for the rest.  One segment
carries one entry (an entry of the code spans several), so two entries are two
segments, of which one can be lost, doubled or overtaken.  `transfer` and
`chord` come to rest when commands are used up and do not check deadlock.  Symmetry is used where a
set's members are interchangeable and only safety is checked; the queue run,
and those of `transfer` and `chord`, which check liveness, use none.

**Fairness.**  In `MessageQueue`: weak fairness of the listener's
push steps and of each consumer's steps in `pop_message`.  Threads are
scheduled by the kernel and a free mutex is eventually taken by a thread that
waits for it (the critical sections are short and the threads that use them
sleep between requests; a weakly fair step that is enabled again and again but
not continuously is not assumed to happen).  Nothing makes a message arrive, a
thread ask or a sleeper wake without cause.  In `PieceTransfer`: weak fairness of
each console's attempts: `connect` and the sleep between tries end, a lost connection
is noticed, and a serving thread that is running and connected sends.  `recv` has
no timeout (`helper_peer.cpp:228`), so an attempt whose connection has stalled (the
source's host vanishes, or its thread is held up in its file system) is not enabled
and nothing makes it end: `DownloadsEnd` names that case.  Nothing makes a user
type, a process restart or a console test a hash.  In `ChordRing`: each thread goes on with a step
it can make, and a datagram to a running node arrives unless it is lost (a fault
the run bounds; `JoinCompletes` excuses joins after one).  In `ChordMaintenance`:
the node thread goes on and its messages reach running nodes.

## 4. What is proved

Theorems hold for every set of descriptors, peers, groups, files and the rest,
finite or not, from the assumptions named `...Assumption` in the modules: `None`
is not one of the values it stands beside, `MaxPieces` is a natural number; for
`PieceTransfer` a finite set of peers, any number of pieces, tries and faults and any
`Local`; for `MessageQueue` a finite pool of list nodes (memory is finite) and
any threads and request ids; for the Chord modules any sets of identifiers, any
contacts and any number of fingers, finite or not.

| Theorem | States | Schedules |
|---|---|---|
| `AccountsTypeOK` | `TypeOK` | all |
| `SessionsAreRegistered` | `SessionsHaveAccounts` | all |
| `PasswordsAreKept` | `PasswordsKept` | all |
| `SessionsAreIndexed` | `SessionIndex` | until requests overlap |
| `MembershipTypeOK` | `TypeOK` | all |
| `NobodyIsUnasked` | `NobodyUnasked` | all |
| `RequestsAreKept` | `RequestsKept` | until requests overlap |
| `OwnershipGoesToMember` | `OwnershipToMember` | only by a departing owner: all; to a member: until requests overlap |
| `OwnersAreMembers` | `OwnerIsMember` | until requests overlap |
| `OnlyFoundersAreDoublyListed` | `OnlyFounderDoublyListed` | until requests overlap |
| `MembersAreAdmitted` | `MembersAdmitted` | until requests overlap |
| `SharingTypeOK` | `TypeOK` | all |
| `PiecesAreListed` | `NoUnlistedPieces` | until requests overlap |
| `NoPieceIsDuplicated` | `NoDuplicatePiece` | until requests overlap |
| `CreditsStay` | `CreditStays` | all |
| `KeptListsLeadSomewhere` | `KeptListsHaveSource` | until requests overlap |
| `OnlyOwnSourcesGo` | `OthersSourcesKept` | until requests overlap |
| `GroupsKeepToMembership`, `FilesKeepToSharing` | `RefinesMembership`, `RefinesSharing` of `Tracker` | all |
| `NamesAreAccounts` | `NamesHaveAccounts` of `Tracker` | all |
| `FilesAreListedByMembers` | `ListedByMember` of `Tracker` | by the peer logged in, which has asked: all; a member: until commands overlap |
| `StreamTypeOK` | `TypeOK` of `CommandStream` | all |
| `AnswersStayInStep` | `InStep` | until an answer slips (`slipped`) |
| `OnlySilenceBlocks` | `StuckOnlyOnSilence` | all |
| `QueueTypeOK` | `TypeOK` of `MessageQueue` | all |
| `ListStaysWellFormed` | `ListWellFormed` | all |
| `ScansStandOnTheList` | `NoDanglingScan` | all |
| `NoSleeperIsForgotten` | `NoWakeupLost`: nobody sleeps on a reply in the queue unless a wake-up is coming | all |
| `QueueImplementsBox` | `RefinesReplyBox` | all |
| `TypeCorrect` | `TypeOK` of `PieceTransfer` | all |
| `OnlyTheFileSpreads` | `SeedsAreExact` | all |
| `CarefulPeersSurvive` | `OnlySpoiledAreKilled` | all; of `exit(1)`, not of SIGPIPE |
| `NothingPartialStays` | `NoPartialLeft` | all |
| `UndisturbedDownloadsSucceed` | `CleanDownloadIsExact` | all |
| `ArcsPartition` | the two open arcs between two identifiers share nothing and leave out only their ends | |
| `TransferIsArcWithoutWrap` | `should_transfer_file` is the arc it stands for when that does not pass zero, else empty | |
| `GiverComesFirst` | what is handed over lies between the joining node and the giver, so the giver is the first node clockwise from it | |
| `RingTypeOK` | `TypeOK` of `ChordRing` | all |
| `RingJunkHasCause` | `JunkHasCause` | all without a segment lost or overtaken and without a race of the two threads |
| `RingAccountsEntries` | `EntriesAccounted` | all in which at most JOINs are answered early (`odd`) |
| `MaintenanceIsDormant` | no predecessor, finger or finished round, ever | all |
| `WholeImplementsChordRing` | `ChordMaintenance` refines `ChordRing` | all |
| `NodesFormAStar`, `WholeFormsAStar` | `StarUnlessEarly` of `ChordRing` and of the whole | all |
| `WholeAccountsEntries` | `TypeOK`, `JunkHasCause` and `EntriesAccounted` of the whole | all |

The theorems about the tracker that hold until requests overlap are theorems of the
full specification, with `~overlapped =>` in the property, and share one argument.
Alone, `SessionIndex`, `OwnerIsMember` or `NoDuplicatePiece` is not inductive: a
handler writes on the strength of what its earlier visits found.  `SerialInv` adds
that, until two requests overlap, at most one is in progress (`AtMostOneInProgress`)
and what it has found out so far still holds (`TestsStillHold`, with `Found` saying
for each next visit what that is).  The first is kept because taking up a request
while another is in progress sets `overlapped` (lemma `History`), the second because
no other handler then writes in between.  While a handler is in the middle of its
writes the maps may be out of step, which the invariants allow to the request that
does it and to nobody else (`MapsInStep`, `FoundersOnBoth`, `Tidy`).  In `Sharing`,
`Found` also says that an upload that saw its piece has left it a source, and that
the list `stop_share` is about to erase has none (`OthersSourcesKept`,
`KeptListsHaveSource`).

The theorems about all schedules get by with less: `SessionsHaveAccounts` with
`LoginsHaveAccounts` (accounts never disappear, so the test made by a login cannot
go stale), `NobodyUnasked` with what requests in progress are about to enter
(`AskedInv`), and the action properties with `TypeOK`.

For the tracker as a whole, `TrackerInv` has these parts.  `Sessions`: types, a
connection that is past its first message has its endpoint on record, and every
session belongs to an account.  `Seated`: a thread is in one handler at a time, its
connection stays open and logged in meanwhile, and an upload in progress is on
behalf of the peer logged in there, at the endpoint announced there; no other
thread can change that, since a session's descriptor is its own thread's.  That is
why it holds on every schedule.  The names on record: whoever is in a group, waits
for it or owns it has asked, and whoever has asked has an account (`GroupRecords`),
and likewise for the catalogue (`FileRecords`); requests in progress are included, without which an
insertion could store a name no test ever saw.  `AskerAt`: a request about files past
its membership test is by a peer that has asked for the group.  `Serial`: until commands overlap, one
handler is in progress at a time and an upload past its test is by a member.

In `CommandStream`, `InStep` alone does not say why a `recv()` of the tracker that
takes several sends at once still answers the last one.  `OneAsked` does: until an
answer slips, every command on its way but the last is a `file_details`, which
gets no answer; the last is something else only while the peer waits for its
answer; and nothing is on its way to the tracker while an answer is on its way
back.  `OnlySilenceBlocks` then only has to look at the two steps that can empty
both directions: a command taken and answered with nothing, and commands dropped
with the address.

For the queue, `ListWellFormed` speaks of the list when the mutex is free and
says nothing about the threads, so it cannot be inductive.  `QueueInv` says it at
every moment (`Linked`: every critical section changes the links at one point
only) and adds where the threads are.  A node being pushed is one that nothing
points to (`Pushing`); the holder of the mutex is the one in its critical section
(`Locked`); a thread that scans stands with its two pointers on neighbouring
nodes of the chain and has passed no message with its id (`Standing`), so that
unlinking is right and what it takes is the oldest.  `NoWakeupLost` is kept
because `pop_message` goes from the end of its search to sleep in one step under
the mutex, and a push wakes everybody.  Each of push and pop changes `Chain` to
one explicit sequence (an append, a removal at one place); that the links
determine the chain (`Chain` is a `CHOOSE`) is the lemma all of them cite.  For
the refinement, `Contents` follows from that: a step is `Put`, `Take`, `Ask` or a
stutter of the box.

In `PieceTransfer`, `SpreadInv` joins three of the properties with what makes them
inductive: every source on record *and every source in a plan already made* has the
exact file or is spoiled (touched, downloaded over, or a stray: it had, published or
downloaded another file of the name), a console keeps to a source of its plan, one
that is after another file is a stray, and a console that announces pieces has the
exact file or is spoiled.  Alone, `OnlySpoiledAreKilled` fails because a plan may
name a source that has left the list.  `ProgressInv` adds, for a download that
nothing disturbs, that the file has not grown and every piece no longer to do is
right, whether it was ever counted as received or not.

For the entries of the Chord nodes, `RingInv` is the types and two layers, each
under the condition of its property.  `NoJunk` (nothing lost, overtaken or raced):
every segment on its way or in a queue holds an entry and has the earlier
ones of its answer before it (`InOrder`), so that `FetchEnd` never reads a segment
that is not there; and a head that was read is still in the list
(`CleanLists`).  The property alone says neither.  `Orderly` (clean but for early
answers): a node has asked once (`AskedOnce`); what is under way to it and what has
come is one answer, each segment exactly once (`OneAnswer`); lists repeat no entry,
and what is about to be deleted is the list as it is (`Distinct`); then an entry
that its node kept has exactly one place and any other has none (`OnePlace`).
`EntriesAccounted` alone fails at once: an entry doubled before, or a segment
present twice, would go from one place to two.  The loops over `n->files` are the
recursive function `Kept`, and the lemma about it (`KeptIs`: its range is the
list's entries in the set, and it repeats none if the list does not) is by
induction in the form of a smallest counterexample in `Nat`
(`NatLessThanWellFounded`).

For the Chord nodes, `Dormant` says that predecessors, fingers and threads are
where `create_node` left them, that only STABILIZE questions are in the mail and
that no thread is in a step `ChordRing` does not have.  Under it no lookup asks
(`LookupsAreLocal`: no identifier lies between a node and itself and before
itself), no answer comes and every other step is one of `ChordRing`.  `StarInv`
adds to the property that every answer under way or in a queue names a node that
is its own successor; a successor is set once, so such a node stays one.

**Only model-checked:** the liveness properties `Answered`, `DownloadsEnd` and
`JoinCompletes`; liveness under fairness and `ENABLED` are beyond the prover
used.  Every invariant, action property and refinement of the passing runs is
proved.  `Answered` rests on the theorem `NoSleeperIsForgotten`, which is its
safety part.  The four runs that end in a violation have nothing to prove.
Induction theorems that take a predicate as an argument cannot be used either;
the proofs take the smallest element of a set of naturals in their place.

## 5. Not modelled

* Hashing: calls to OpenSSL.  A SHA-256 stands for the contents it was computed
  from, a SHA-1 is the integer given to a node or a name.
* Socket set-up, console output, the texts of answers, `list_...` commands and
  `show_downloads`, which only read.
* The status of a download (`helper_tracker.cpp:336` records "C", complete, when
  it starts): it is printed and nothing depends on it.  `download_completed` is
  modelled at the tracker, but the peer builds the command and never sends it.
* Chord placeholders and code nothing calls: `download_file`, `delete_file`,
  `delete_file_entry`, `find_uploaded_file`, `serialize_all_file_entries`;
  `set_outdir` sets a path that nothing uses.
* STORE_FILE and FIND_FILE have no handler.  What that does is modelled
  (`StoreAt` reports success with the entry on no node, `FindAt` waits for ever);
  no property is stated of it.
* Undefined behaviour beyond the outcomes named: a tracker with a corrupted
  container, and a Chord list after a use of freed memory other than `Junk` with or
  without the rest of the list.
* The composition of `PieceTransfer` with `Sharing`: the tracker's list appears
  in `PieceTransfer` with the scan and the append of an upload as two steps, for one
file and one group.
* A Chord node that exits and is started again at the same address.
