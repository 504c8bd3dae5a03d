# A TLA+ model of BH-TicketSystem

BH-TicketSystem sells train tickets: a command interpreter (accounts, trains,
orders, a waiting queue per train and day) over a storage stack of its own (a
disk map made of a B+ tree and a value file, a buffer pool with LRU-K
replacement, a page file), with a snapshot tool for the data files and a small
server mode.  This directory holds TLA+ modules that model it, the TLC
configurations that check them, and TLAPS proofs of theorems about them.

    tlc -config MCTicketsQueue.cfg MCTicketSystem.tla
    tlapm TicketSystem_proofs.tla

`PROJECT.json` lists the runs, the mutants that show that each property can
fail, the source lines behind each definition, the hazards, the findings and
the theorems.

## 1. Inventory

Paths are relative to `src/`.

| Component | State | Operations | Correct when |
|---|---|---|---|
| Ticket transactions (`src/src/transaction_system.cpp`, `src/src/include/transaction_mainenance.hpp`) | order file, waiting-queue tree, history tree, seats per train and day | `buy_ticket`, `refund_ticket`, `query_order`, `query_ticket`, `query_transfer` | seats and tickets add up; the queue is served in order and as soon as seats come back; every order is filed once; an order's status only moves on |
| Trains (`src/src/train_system.cpp`) | core, stop, price and seat maps | `add_train`, `delete_train`, `release_train`, `query_train` | seat records match the trains; a train with orders stays |
| Stop register (`src/src/include/stop_register.hpp`) | a tree of arrivals and departures by station, train and type | `AddStopInfo`, `QueryDirectTrains`, `RequestSingleTrain`, `FetchTrainLeavingFrom`, `FetchTrainArriavingAt` | every journey of a date is found once, for the train's own day of departure; what is listed is what is sold |
| Accounts (`src/src/user_system.cpp`) | accounts on disk, sessions in memory | `add_user`, `login`, `logout`, `query_profile`, `modify_profile` | one holder of privilege 10; nobody rises above those who are there |
| Engine and server (`src/src/engine.cpp`, `src/src/main.cpp`) | the systems above; a thread per connection in server mode | `Execute`, `clean`, `exit` | commands take effect one at a time |
| B+ tree (`src/storage/include/storage/bpt.hpp`) | pages, root, tree latch | `Get`, `Put`, `Remove`, `lower_bound`, iterators | leaves at one depth, pages filled to the minimum, separators exact; iterations meet every entry in order |
| Value storage and disk map (`single_value_storage.hpp`, `disk_map.hpp`) | elements and a free list of them; index and data file | `write`, `read`, `update`, `Delete`; `Put`, `Get`, `Remove` | an index is never handed out twice and none is lost; the pair is a map |
| Buffer pool (`buffer_pool_manager.cpp`) | frames, page table, free frames, pins, dirty flags | `NewPage`, `FetchPage`, `UnpinPage`, `FlushPage`, `DeletePage`, page guards | a page reads as last written; a pinned page stays in its frame |
| LRU-K replacer (`replacer.cpp`) | two chains, a record per frame | `RecordAccess`, `SetEvictable`, `TryEvict...` | the victim is the evictable frame of the largest backward K-distance |
| Disk manager (`disk_manager.cpp`) | page file, chain of free pages, header | `AllocNewEmptyPageId`, `DeallocatePage`, reads, writes, flush | a page in use is never allocated again |
| Snapshots (`src/dataguard`) | meta file (HEAD, the tree), a frontier file and a diff per snapshot for each data file | `CreateSnapShot`, `CheckOutFrontier`, `SwitchToSnapShot`, `RemoveSnapShot` | every snapshot that was taken and not removed can be restored |
| Transaction log, containers, hashing, dates, configuration, web interface, tests | - | - | not modelled (section 6) |

How they interact.  `Execute` parses a line and calls one operation of the
accounts, the trains or the transactions; these call one another (ordering asks
the accounts whether the user is online, the stop register for the journey,
the seat map for the seats) and store everything in disk maps and trees, each
with a file, a disk manager and a buffer pool of its own.  Nothing is called
back.  In the normal mode commands come one at a time; in server mode each
connection is a thread that calls `Execute`.

What is hard.  `refund_ticket` marks an order, gives its seats back, and hands
a *local copy* of the seats out in a loop that removes queue entries while the
queue's own counter is an entry of the same tree; sessions keep a copy of the
privilege that later commands are authorised by; server threads share
everything; pins, dirty flags and free lists are spread over layers; header
data is stored only at a flush.

## 2. Plan

Most important first; what is done is in section 3.

1. `TicketSystem` - sessions, trains, buying, waiting, refunding: the core. Done, with proofs.
2. `UserSystem` - accounts and sessions with stale privileges. Done, with proofs.
3. `ServerThreads` - `Execute` called by several connections without a lock. Done,
   with proofs for the case of one connection.
4. `LRUKReplacer` and an abstract `LRUKPolicy` it implements; `BufferPool` over
   the disk manager's free chain, implementing an abstract `PageStore`. Done,
   with proofs.
5. `BPlusTree`, `ValueStorage` and their composition `DiskMap`, against a map. Done.
6. `SnapShot` - the tree of snapshots and the chains of diffs. Done, with proofs.
7. `Queries` - the stop register and the commands that read it, against the
   journeys of the timetable. Done, with proofs.
8. The latches of the tree and of its pages. Left.
9. An abstract `WaitingList` (a list per train and day) that `TicketSystem`
   implements, with what becomes of the promise when a counter is lost. Done,
   with proof.

The invariants and refinements of 1 to 4, 6, 7 and 9 are proved (section 5).  Worth
proving next: that the chain of blanks of `ValueStorage` is exact for every page
size, stated with a sequence as in `FreeChainSound` and not with `ChainFrom`.
`BPlusTree`, with `DiskMap` over it, follows the recursion of the code and stays
with TLC.

## 3. Modules

### TicketSystem

One session drives the engine; a command that the code answers with `-1`
changes nothing and is a stuttering step.

| Variable | In the code |
|---|---|
| `up` | the process runs (it dies when `GetValue` reads through the null page of `end()`) |
| `online` | keys of `online_users` |
| `train` | `core_train_data_storage`: seats, days on sale, `is_released` |
| `seats` | `seats_data_storage`, by train and day: free seats per segment and the largest order |
| `data`, `nextIdx` | the order file and the index its next `write` returns |
| `queue` | `queue_indexer`: keys `(train, day, id)`; id 0 holds the counter |
| `history` | `order_history_indexer`, by user |
| `scan` | the local variables of `refund_ticket`'s loop: fetched entries, iterations left, the local copy of the seats |

A command is one action - `Login`, `Logout`, `Restart` (`exit` and a new
process), `AddTrain`, `DeleteTrain`, `ReleaseTrain`, `BuySeats`, `JoinQueue`,
`CancelWaiting` - except a refund of a successful order: `RefundSeats` gives the
seats back and fetches the queue, then `DropEntry`, `ServeEntry` or `SkipEntry`
is one iteration of the loop, and `EndScan` stores the seats.  `Ready` keeps
other commands out meanwhile.

Faithful to the detail that matters most: `FetchQueue` sizes its vector by the
counter, which counts orders *ever* queued.  When entries have left the queue,
the vector has a tail of value-initialised elements, index 0 and id 0.  The loop
takes such an element for an order: it reads element 0 of the order file (bytes
of the header page, all zero: an order of no seats that waits), finds that it
fits, and removes key id 0 - the counter.  From then on `lower_bound` of the
counter's key stops at another entry, whose value is taken for a counter
(`EnqueueAt`, `FetchQueue` with `c` other than the sentinel), or at the end, and
the process dies (`JoinQueueCrash`, `RefundCrash`).

Left to data: names, prices and times are abstracted; stations are stop
numbers and the day is the train's day of departure, as the stop register
returns it; every train has `NumStops` stops; hashes are small ordered numbers
without collisions.  `buy_ticket` without `-q` that does not fit changes nothing.

`WaitingList` is what all this promises to a customer, with no queue, no counter
and no loop in it: orders, free seats, the list that is being served (`serving`),
and the lists for which the promise is void (`void`).  Seats that come back are
given to the oldest order that waits and fits, one after the other, and serving
ends only when none fits (`Serve`, `Done`).  A list becomes void (`Lose`) only at a
moment at which nobody who waits fits; it still sells and takes back, but whom it
serves is open.  In the mapping (`ListedOrders`, `FreeSeats`, `Serving`, `Void`) the
free seats of the list being served are the loop's local copy, and a list is void
when its train is released and its counter gone.

### UserSystem

`user_data` is the map on disk, `online_users` the map in memory with the
privilege *at login*.  `AddFirstUser`, `AddUser`, `LoginUser`, `LogoutUser`,
`ModifyProfile`, `Restart`.  `TicketSystem` has its own `online`: it assumes
accounts that exist, and a privilege plays no part in selling.

### ServerThreads

In server mode every connection is a thread, and nothing locks a command.
`buy_ticket` and `refund_ticket` for one segment of one train and day are cut
between their storage accesses; `cmd` holds the locals of each connection's
command and the access it is at, the other variables are the storages.  A buy is
`BuyGetSeats`, `WriteGetBlank` (the blank element is looked up *before* its page
is latched), `WritePutElement`, `FileOrder`, `BuyPutSeats`; a refund is
`RefundGetOrder`, `RefundPutOrder`, `RefundGetSeats`, `RefundPutSeats`,
`RefundPutSeatsAgain`.  `Exit` ends the process whatever the others are at.

Two threads can also take the same blank element (`WriteGetBlank` twice, then
`WritePutElement` twice), and one order is written over the other: with two
connections `OrdersKeptApart`, which holds in `MCServerOne`, is false as
`SeatsAddUp` is.  The run with two connections, `MCServerSeats`, asks for the latter.
And `exit` does not wait for the commands of other connections, though bonus.md:104
asks for that.

Several latched accesses are taken together where no property needs them apart,
so every interleaving of the model is one of the code; the converse does not
hold, and the module is not evidence that anything is safe with two threads.

### LRUKReplacer

`LRUKChains` has the replacer's data as a record and the methods as operators:
the LRU chain of frames with fewer than K visits, the main chain with a node per
access (at most K for a frame), the visit counts (all numbers above K are one),
the evitable bits and their count.  `RecordAccess` unlinks one node, the oldest
of the frame, as the code does by its iterator (`RemoveFirst`, `RemoveFirstNode`);
an eviction unlinks all of them and leaves the others in order
(`RemoveWholeFrame`).  `LRUKReplacer` calls the methods in any order, and
`LRUKPolicy` states LRU-K on sets of access times, by their number, their least
and their greatest: `ImplementsPolicy` is the refinement, with the times read off
the main chain.

### BufferPool

One action per operation of the pool on a page, each atomic under the pool's
mutex: `NewPageGuarded`, `FetchResident` and `FetchFromDisk` (the branches of
`FetchPage`), `DropGuard` (with `UnpinPage`), `WriteThrough` (a write through a
guard), `DeletePage`, `FlushAllPages`, and `Restart` (the pool is destroyed, then
the disk manager, and both are made anew from the file).  `disk` and `meta` are
the disk manager: the bytes of the pages, the counters, and the head of the
chain of free pages whose links lie in the free pages themselves.  Any evictable
frame may be the victim, so what holds here holds for every replacement policy.
The callers delete pages they refer to (`owned`) and do not look at the answer;
`LosePage` is the case that the pool refuses, and the page is lost for good.
`FlushAllPages` is one step; in the code it takes the mutex for each page.
`FlushPage` of a page outside the pool would write frame 0 over it (`page_table_[page_id]`
inserts an entry before the lookup); nothing in the program calls it so.

`PageStore` is what all this promises: a page reads as it was last written, a
page in use is not handed out again, and a restart changes nothing.

### BPlusTree, ValueStorage and DiskMap

`BPlusTree` has the tree as a record `[page, root, siz]` and every method as an
operator from trees to trees, on the layout of the pages: slots `0 .. KMax - 1`
with whatever was left in them, a count, and `p_n`, which is the next leaf in a
leaf and the past-the-end child of a full inner page on the right edge.  A
position is the path from the root, as in `PositionSignType`.  `InsertEntryAt`
and its two fix-up functions and `RemoveEntryAt`, `RemoveEntryInRightSkewPath`
and `TryUpdateTillRoot` follow the code's recursion and its cases; `memmove`s are
`Inserted`, `Erase` and `Joined`.  A page that the code fails to give back (the
last root, a merged page that a guard still pins, an emptied page of the right
edge, which nobody deletes) stays in `page` and belongs to no tree.

`ValueStorage` is `SingleValueStorage`: elements with the chain of blank ones
through them, made a page at a time.  `DiskMap` composes the two as `Put` and
`Remove` do, with a client that puts and removes any key; `map` is what the
client has put.

| Variable | In the code |
|---|---|
| `indexer` | `DiskMap::indexer`: the pages of the tree, `root_page_id`, `siz` |
| `storage` | `DiskMap::data_storage`: the elements and `first_blank_element_pair_id` |
| `load` | which keys the instance begins with |
| `map` | history: what every key was last put to |

### SnapShot

One data file, edited at will (`Edit`); `frontier`, `head`, `lines` and `diff` are
the files that the snapshot manager keeps.  A diff is what `GenerateDiff` writes:
hunks of bytes that differ, and the longer file's tail, so that it applies both
ways.  The hunks are a set (they do not overlap, and each has its place); the
patched file is stated byte by byte: a byte of a hunk, or one that was copied.
`ApplyPatch` reads beyond the end of a file and runs away on a negative
length as the code would (`Byte`, `Endless`).  `FindWay` is the breadth-first search
from the destination back to HEAD, by rounds: `WaysTo` has, for each snapshot met
so far, the way from it to the destination, and a round goes one of the `Steps`
of the tree further.  Which neighbour the queue takes first within a round plays
no part, as a tree has one way.  `Kept` is the loop that writes the lines of the
meta file again, or lists sons, but for some.  `RemoveLeaf` writes the meta file over without
cutting it, so that its old last line stays: twice, or as a line of a snapshot
that is gone.  A removal with sons rewrites the diff of every son along a way found
before; `RemoveInner` is one that gets through its loop, `RemoveInnerFails` one
that is left in the middle, by an exception or, in a copy loop whose unsigned bound has
wrapped around (snapshot.cpp:253, :272), by killing the process: some diffs are rewritten, and
the meta file is not.

The code gets three kinds of removals wrong:

- with HEAD in or beyond one of several sons, the way leads through a diff that
  the loop has just rewritten.  `MCSnapShotsForked` finds it; in its trace the copy loop
  for the second son never ends, and with longer contents the son's diff is made
  from a wrong content;
- a son whose line is doubled is rebased twice, the second time with the diff that
  the first round made, and is lost, with no fork left in the tree and HEAD at INIT.
  For example: create s1 and s2, switch to s1, create s3, remove s2 (the line of s3 is
  now there twice), switch to INIT, remove s1;
- a removed leaf whose line is left counts as a son; for want of its diff the loop
  throws after it has rewritten the diffs of the sons before it, which are lost.  For
  example: create s1 and s2, switch to s1, create s3, switch to INIT, remove s3 (its line
  is the last one and stays), remove s1.

All three are in the model without a guard: the history variable `spoiled` says that a
removal has used a diff that it had already rewritten or missed one after
rewriting others (`Spoils`, on what the loop reads and writes, not on the shape of the tree).
After that the model does no more operations, and the properties of
`MCSnapShots` say nothing; until then they cover all meta files, with doubled and left
lines, too.

Two more things a reader of the code should know, and no property is about:
`RemoveInner` leaves the diff file of the removed snapshot behind (bonus.md:58
asks that its space be freed), and `CreateSnapShot` refuses the name INIT, which
is not among the model's `IDs`, only once some snapshot has INIT for an ancestor.

### Queries

The stop register and everything that reads it.  The state is the released
trains with their records in the register, and the seats; `Release` and
`BuyTicket` change it, and the queries are operators on it, as they change
nothing.  `Catalogue` holds the trains that were added; times are minutes, so
that midnights and days of sale are the code's own arithmetic.  `QueryDirectTrains`
is the loop with two iterators of which the inner one is never set back;
`RequestSingleTrain` is the search of `buy_ticket`, `CheckTransfer` and
`QueryTransfer` are the nested loops that keep a best solution.  `Journeys`, the
reference, is defined on the timetable alone.

The offsets of a record are cut to 14 bits and the days to 8, as its bit fields
are; the 72 hours of management_system.md:76 and its sales from June to August
fit, which `OffsetsAssumption` and `CatalogueAssumption` say.  The stations of a
train differ; rides and stopovers may take no time, as management_system.md:35 and :63
allow and `add_train` does not check.  That is where `query_ticket`, which compares
times with `<` (stop_register.hpp:151), and `buy_ticket`, which compares offsets with
`>` (:180), differ: a ride of no time is sold and not listed, and so is the way back, from the later
stop to the earlier one, if nothing is spent at the two stops either.  `ListedIsSold` says what is left: what is
listed is what is sold of the tickets that take time, and no ticket sold arrives before it
leaves.  `TicketSystem` sells rides of at least a minute only.
`InOrder` is what a B+ tree's iterator and `std::sort` make of a set: its members
in the order of the comparison, which leaves no choice, as hashes and names differ.
Questions are asked for two different stations: for a stop with a stopover of
nothing `RequestSingleTrain` would sell a journey from the stop to itself, by the same
comparison.

### Proof modules

They extend the modules they are about and hold the theorems of section 5.

| Module | Of | Holds |
|---|---|---|
| `TicketSystem_proofs` | `TicketSystem` | types, trains that stay, `ServeInv`, histories, statuses |
| `TicketQueue_proofs` | `TicketSystem` | the order of the queue: `QueueInv`; `WaitingList`; seats and tickets: cardinalities |
| `UserSystem_proofs` | `UserSystem` | all its properties |
| `BufferPool_proofs` | `BufferPool` | the pool's invariant, `PageStore` |
| `LRUKReplacer_proofs` | `LRUKReplacer` | the chains' invariant, `LRUKPolicy` |
| `ServerThreads_proofs` | `ServerThreads` | one connection |
| `SnapShot_proofs` | `SnapShot` | diffs, the search, the tree: `SnapShotInv` |
| `Queries_proofs` | `Queries` | sorting, sums, the merge of departures and arrivals, the loops over transfers: `QueriesInv` |

## 4. Runs

| Run | Shows |
|---|---|
| `MCTicketsQueue` | three stops, two users, one train that is deleted and added again with other days: overlapping journeys wait; seats are conserved, the queue is complete, nothing servable waits, nobody overtakes, what a customer sees is a `WaitingList`, every order is filed once, a train with orders stays |
| `MCTicketsLostCounter` | two days, so that a lost counter makes `lower_bound` stop in the next day's queue: seats are conserved nevertheless; what a customer sees is a `WaitingList`, of which a lost counter makes a list void; an order that waits and fits into seats that came back does not stay so (`FreedSeatsAreTaken`); `QueueInv`, the inductive invariant of the proofs, holds (it implies that a queue with its counter is complete) |
| `MCTicketsNeverWaits` | *violated*: management_system.md promises that a waiting order is served at once; a queue without its counter is not |
| `MCServerOne` | one connection: the cut commands keep seats and orders in balance, across exits; `OneByOne`, the inductive invariant of the proofs, holds at every access in between |
| `MCServerSeats` | *violated*: two connections, a purchase in between is lost (design.md promises a lock over every command) |
| `MCReplacer` | three frames, K = 3: the chains implement LRU-K, the count is exact, `ReplacerInv`, the inductive invariant of the proofs, holds |
| `MCPool` | two frames, three pages, two guards: the pool implements `PageStore`; pins, frames and free pages are accounted for; `PoolInv`, their conjunction with what a clean page promises, is the inductive invariant of the proofs |
| `MCUsers` | three users, sessions whose privileges go stale: one root, nobody rises, root demotes itself only |
| `MCDiskMap` | trees of one to three levels that split, lend and merge on every edge: sound shape, complete iterations, an exact chain of blanks, and a map that reads as put |
| `MCSnapShots` | four snapshots taken, restored and removed in any order and from anywhere, with whatever lines the meta file was left with: all can be restored, the frontier is HEAD's, and removals get through their loop, until a removal is one of the three kinds above |
| `MCSnapShotsForked` | *violated*: where the meta file is sound, removing a fork with HEAD in one of its branches destroys another one |
| `MCQueries` | four trains in two or three versions, released in any order, and a sale: tickets, transfers, purchases and timetables agree with each other and with the journeys there are that take time |

Bounds.  `MaxOrders` bounds the orders ever written (the only unbounded
counter).  Three, in `MCTicketsQueue`, are an order that takes the seats, two that
wait, and refunds that serve, skip and drop them and run into the vector's tail;
five, in `MCTicketsLostCounter`, leave room for later orders that meet the lost
counter.  `FirstIdx`, the index of the first order, is
28 in the code's page layout, and `MCTicketsNeverWaits` uses 28; in the others 3
keeps a loop over an index taken for a counter short without making it shorter
than the queue.  Two seats and orders of one or two tickets make orders that do
not fit beside orders that do; three stops make journeys that overlap and
journeys that do not.  In `MCUsers` the grades 0, 5, 9, 10 have room below,
between and above.  `MCPool` has fewer frames than pages, so pages are evicted,
and as many guards as frames, so that no frame may be left; three pages make a
free chain with links.  `MaxTime` = 9 accesses bring three frames to K = 3 each
and one of them beyond.  The servers' `PageSize` = 2 elements make the list of
blanks run out; the race is shown without `exit`.

`MCDiskMap` has pages of three keys (the least that the code works with: two keys
have a minimum of one, and an emptied page's last key would be read from before
its data) and pages of three elements.  Eight keys that come and go down to the
empty tree reach two levels in every shape; trees of three levels start from 14
keys in order, which fills the right edge, or with a fuller left half, and lose
and regain two at a time, so that inner pages on both edges and in the middle
borrow, merge and lose the root.  States that differ only in the numbers of pages
and elements or in stale bytes are one (`VIEW View`); no property depends on them.

`MCSnapShots` has four names of one length, so that the meta file is cut between
lines, and at most `MaxLines` = 4 of them; the contents differ in length and in
the middle, so diffs have hunks and tails of both kinds; once `spoiled` is TRUE nothing but the
data file changes any more.  `MCQueries` has trains
around midnight, stopovers of nothing and of more than a day, a ride of no time, sales that end
between two trains, hashes ordered otherwise than names, and equal times and
prices; every date from one before the first sale to the last is asked for.

Fairness.  Only `FreedSeatsAreTaken` in `MCTicketsLostCounter` needs it: weak
fairness of `ScanStep`, because `Execute` runs a command to its end before the next line is
read.  No user is assumed to do anything, so the seats must be given out by the
loop of the refund that brought them back.

Deadlock.  The ticket runs switch the deadlock check off: the process may die,
and at `MaxOrders` nothing may be left to do; the server runs likewise.  `MCQueries`
ends when all is released and sold.  The other runs check it.

Symmetry is used for users, guards, values written, the replacer's frames and the
names of snapshots, never where liveness is checked; trains are ordered numbers and have none.

## 5. Proofs

`tlapm` checks every theorem to its last leaf, for all constants that satisfy the
assumptions named in the modules:

- `TicketSystem`: at least two stops, positive trains, days and ticket numbers,
  a first index above 0 (`TrainsAssumption` to `StorageAssumption`);
- `UserSystem`: privileges within 0 .. 10 (`PrivilegesAssumption`);
- `BufferPool`: finitely many frames and guards (`FiniteAssumption`), a number of
  pages (`PagesAssumption`), contents that are not page numbers
  (`ValuesAssumption`: a link of the free chain is never mistaken for data);
- `LRUKReplacer`: finitely many frames, K at least 2 (the program has K = 5; for
  K = 1 the code's LRU chain would keep frames of one visit), an answer for
  "none" that is no frame;
- `ServerThreads`: positive ticket numbers, pages of at least two elements;
- `SnapShot`: INIT is no snapshot's name (`InitAssumption`), the data file is a
  sequence of numbers and not empty (`ContentsAssumption`: the headers of the
  drivers' files are always there).  The theorems about the tree speak of the
  states before a removal has `spoiled` the diffs, which the three kinds of
  removals named in section 3 do.  `MaxLines` plays no part in the proofs;
- `Queries`: trains of at least two different stations, rides and stopovers of any number of minutes, times
  and days that fit into the bit fields of a record (`CatalogueAssumption`,
  `OffsetsAssumption`), hashes without collisions (`HashAssumption`), dates that
  are numbers (`DatesAssumption`).  For `query_transfer` also sales that do not end
  before they begin, and some number as the stopover at every stop, as the code adds
  up the one at the last stop, too (`TransferAssumption`).

| Theorem | Statement | Run |
|---|---|---|
| `TypeCorrect` | `Spec => []TypeOK`, so no seat count ever wraps below zero | `MCTicketsQueue` |
| `OrderedTrainsStay` | `Spec => []OrdersKeepTheirTrain` | `MCTicketsQueue` |
| `ServeInvariance`, `WaitingOrdersAreServed` | `Spec => []ServeInv`, hence `[]NoServableOrderWaits` | `MCTicketsQueue` |
| `OrdersMoveOn` | `Spec => OrdersOnlyMoveOn` | `MCTicketsQueue` |
| `OrdersFiledOnce` | `Spec => []EveryOrderFiledOnce`, as long as the process lives | `MCTicketsQueue` |
| `QueueInvariance` | `Spec => []QueueInv` | `MCTicketsLostCounter` |
| `OrdersQueuedOnce` | `Spec => []WaitingOrdersQueued` | `MCTicketsQueue` |
| `OldestFirst` | `Spec => NoOvertaking` | `MCTicketsQueue` |
| `TicketsAreWaitingList` | `Spec => ImplementsWaitingList` | both ticket runs |
| `SeatsAreConserved` | `Spec => []SeatsConserved` | both ticket runs |
| `TypeCorrect` (accounts) | `Spec => []TypeOK` | `MCUsers` |
| `NobodyRises` | `Spec => AuthorityNeverGrows` | `MCUsers` |
| `OneRootOnly`, `RootStays` | `Spec => []OneRoot`, `Spec => RootDemotesItself` | `MCUsers` |
| `PoolInvariance` | `Spec => []PoolInv` | `MCPool` |
| `GuardsKeepFrames`, `NoFrameIsLost`, `FreePagesAreFree` | its parts `GuardsHoldTheirFrame`, `FramesAccounted`, `FreeChainSound` | `MCPool` |
| `PoolIsPageStore` | `Spec => ImplementsPageStore` | `MCPool` |
| `ReplacerInvariance`, `CountStaysExact` | `Spec => []ReplacerInv`, hence `[]CountIsExact` | `MCReplacer` |
| `ReplacerIsLRUK` | `Spec => ImplementsPolicy` | `MCReplacer` |
| `OneByOneInvariance` | `Spec => []OneByOne` | `MCServerOne` |
| `OneConnectionAddsUp`, `OneConnectionFiles` | `Spec => []SeatsAddUp`, `[]OrdersKeptApart`, if there is one connection | `MCServerOne` |
| `DiffApplies` | `ApplyPatch` and `GenerateDiff` are inverse, in both directions, for any two files | |
| `TreeStaysSound` | `Spec => [](~spoiled => SnapShotInv)` | |
| `SnapshotsAreRestored`, `FrontierStaysAtHead`, `RemovalsAlwaysGetThrough` | hence `[]SnapshotsRestore`, `[]FrontierIsHead`, `[]RemovalsGetThrough` | `MCSnapShots` |
| `RegisterStaysExact` | `Spec => []QueriesInv` | |
| `TicketsAreExact` | hence `[]DirectTrainsExact` | `MCQueries` |
| `TicketsAreSold` | hence `[]ListedIsSold` | `MCQueries` |
| `TicketsFollowTimetable` | hence `[]TicketsMatchTimetable` | `MCQueries` |
| `TransfersAreBest` | hence `[]TransferIsBest` | `MCQueries` |
| `LegsAreListed` | hence `[]LegsAreTickets` | `MCQueries` |

### The waiting queues

`NoServableOrderWaits` is not inductive: while the loop
runs, seats have come back and orders that fit still wait.  `ServeInv` adds

- `CounterCovers`: the counter is an upper bound of the ids in its queue, so a
  new entry (counter + 1) overwrites none;
- `WaitingHaveEntries`: a waiting order has an entry in its queue, if the queue
  still has its counter;
- `ScanCovers`: every waiting order that fits into the seats the loop has left
  is still ahead of it, and the iterations left are at least the entries left;
- `NoneServable`: outside the queue that is being scanned, no waiting order fits.

A purchase only takes seats (`TakeShrinks`), so what did not fit still does not.
When the loop ends no iterations are left, so no entries, so no order fits.  If
`lower_bound` of a counter's key stops anywhere but at that key, that queue has
lost its counter, and the proviso makes the claim void for it - the code's
promise is not kept there, which `MCTicketsNeverWaits` shows.

`QueueInv` adds what the entries are, which `ServeInv` leaves open.  The hard case
is a queue that has lost its counter: its first entry then serves as a counter,
its value - an index - is taken for a number of orders and is overwritten with
one that points at some other order.  So

- `QueueValues`: whatever is under a key, a counter or an index, lies between the
  id of the key and `nextIdx`; an id made by adding one to it is therefore behind
  it, and no value points beyond the orders there are;
- `EntriesSound`: an entry *behind another one* of its queue is an order of this
  train and day.  The first one may be anything, but `lower_bound` has made it the
  counter, and the loop is never given it (`LowerBoundIsFirst`);
- `EntriesOrdered`: in a queue with its counter, larger ids have later orders;
- `ScanSound`: what the loop has before it are orders of its own train and day.

Two keys with the same order would contradict `EntriesOrdered`, so a waiting
order is under exactly one key (`OrdersQueuedOnce`).  The loop takes its entries
by ascending id, so an order that is served and an older one that still waits
and fits would be ahead of it in `scan.todo`, which `ServedByLoop` excludes
(`OldestFirst`).

`ImplementsWaitingList` needs nothing beyond `QueueInv`; each action is mapped by a
lemma of its own.  A session, a release, and an entry that is dropped or skipped
are stutters (`SessionKeepsList`, `ReleaseTrainKeepsList`, `EntryPassed`): entries
and iterations are nothing the list knows of.  `ServeEntry` is `Serve`, where the
older orders that fit are excluded by `ServableEntry` (each of them is still in
`scan.todo`) and `OldestIsNext` (the entry visited has the least index).  The hard
step is the vector's tail: the loop serves or drops the element 0 and removes the
counter.  At that moment `scan.todo` is empty, so by `ScanCovers` no order that fits
is left, and the step is `Lose` (`CounterTaken`); by the same argument `EndScan` is
`Done`.  A refund that finds neither counter nor entry kills the process, which
the list allows for a void list only (`RefundRefunds`).

### Seats

`SeatsConserved` says that for each day and segment the free seats and the
number of tickets of successful orders make up the train.  Its inductive form
(`Balanced`) also says that the set of tickets is finite, and reads the seats off
the local copy of the loop while there is one (`SeatsNow`).  `ScanSound` is what
makes it inductive: an order that the loop serves from another day's queue would
take seats of this day and count for that one.  The lemmas on cardinalities
(`OneMoreTickets`) say that changing one order's status adds or removes just its
own tickets; `BalanceTaken`, `BalanceGiven` and `BalanceKept` are the three ways
an operation can change the sum.

### Orders and accounts

`EveryOrderFiledOnce` is inductive on top of the type invariant: the id of a new
order is `nextIdx`, which no earlier order has, so the entry added to the user's
history is new there (`FiledNew`); no other step touches a history.

For `OneRoot`: privileges are only given out strictly below that of the session
that gives them, and sessions only copy; the invariant relates accounts and
sessions.

### The buffer pool

The parts of `PoolInv` need one another.  A page is evicted from an unpinned frame, so
that the guards' frames are left alone needs `FramesAccounted` (the replacer's
frames are exactly the unpinned ones); that a page allocated from the free chain
is not somebody's needs `FreeChainSound`, which a write back must not disturb, so
pages in the pool are not in the chain.  The chain is a sequence that exists; a
deallocation and an allocation prolong and shorten it at its head (`ChainDealloc`,
`ChainAlloc`).  For the refinement, `CleanPagesStored` is what makes an eviction
without writing back invisible: a page neither marked dirty nor about to be
marked by the guard that wrote to it is in the file as it is in the frame.  With it,
fetching, dropping, flushing and restarting are stutters of `PageStore`, and the
others are its own steps (`PoolStep`).

### The replacer

The code finds its victim by stopping at the first evictable node of a chain.
That this is the least important frame rests on the order of the chains, so
`ReplacerInv` says that the main chain ascends in time, that the LRU chain
has the frames of fewer than K visits once each, in the order of their last
accesses, that the main chain has the last K accesses of each frame, and that
the count is exact.  The frame of the first evictable node of the main chain then
has the least of the oldest kept times (`VictimIs`); in the LRU chain, the least
of the last ones.  The order survives because unlinking keeps it
(`RemoveWholeFrame` is stated by ranks: the i-th node kept is the i-th of the old
chain that is not the frame's) and because a new node has the latest time of all.
`Init` and every method then map to `LRUKPolicy`'s initial state and steps; an
access of a full frame drops its `Min`, which is the node that `RemoveFirstNode`
unlinks.

### The server with one connection

Commands are cut between their storage accesses, so the properties hold only
between commands.  `AloneInv(c)` says what they are in the middle of one: the
locals are still what the storage has (`LocalsCurrent`), the seats are off by
what the command has yet to store (`Due`), and the element that was written and
not filed is the only one that no history has (`Unfiled`).  `OneByOne` claims this
if c is the only connection; with two, another command makes the locals stale,
and `MCServerSeats` shows the loss.

### Snapshots

`SnapshotsRestore` speaks of a search and of a chain of patches; three arguments
carry it.

*A diff applies both ways* (`DiffApplies`).  The stretches in which two files differ
cover every differing byte and only such bytes (`StretchesCover`: take the least
and the greatest number between which all bytes differ), so outside the hunks the
shared part is the same in both files, and the tail is cut or added by its length.

*The search finds the way* (`WayFound`).  Each round meets all neighbours of what it
has met, so after as many rounds as there are lines it has met HEAD or everything:
a set of snapshots closed under steps is the whole tree (`TreeConnected`), since every
line leads to a snapshot of less depth and only INIT has none.  What is recorded
for a snapshot is a chain of steps from it to the destination (`IsWay`), by
induction over the rounds (`FurtherKeepsWays`); a line that a removal left behind at
the end of the meta file is a dead end, so no way between snapshots that exist
passes it (`LeftLinesAreDeadEnds`).

*The tree stays one.*  `SnapShotInv` says that lines of one snapshot name one
ancestor, that the ancestor of a line exists (so that only a leaf may be a line
left behind), that what was taken has a line, that no snapshot is its own ancestor
(`Rising`: there is a depth), that a diff is there for exactly the lines of what was
taken and is the one from the ancestor (`DiffsFit`), and that the frontier is what
HEAD was taken of.  Along a way each step then turns one content into the next
(`StepRestores`, `ChangeAlong`).  The hard step is `RemoveInner`: its loop must find
the diffs on the way, the one of the removed snapshot and the one of the son still
as they were (`RebaseIs`).  That is what `~Spoils` says of the way and of the son, and the
removed snapshot is no son of its own.  Then every son has the diff from its new
ancestor (`RebasedIs`), also where left lines are among the sons and come
first or alone.  The same lemmas give `RemovalsGetThrough`: each round patches contents
that its diffs were made for, which is never `Endless`, so `RemoveInnerFails` is
taken by removals that spoil diffs only.

The recursive functions of the model (`Kept`, `WaysTo`, `ApplyLongChange`, the loop
of `RemoveInner`) are shown to exist and to compute this by an induction over a set
of numbers, which needs no operator parameter: the least number that is not in the
set has a predecessor that is (`UpTo`, from the well-foundedness of the numbers).

### Tickets, transfers and timetables

The five properties speak of one state, so the invariant is small and the work
lies in the operators.  `QueriesInv` says that the register is the union of what
`AddStopInfo` writes for the released trains (`RegisterInv`), and that there are
seats for each of their days and segments (`SeatsInv`).  With the assumptions on the bit
fields, a record then is a departure or an arrival as the timetable has it.

*What is ordered has one order.*  A finite set of numbers, or of records with
different keys, can be put in order (`InOrder`), so the lists that the iterators
walk and the rows that are sorted exist; that no train is at a station twice makes
the trains in such a list strictly ascend.

*The iterator that is never set back.*  After n departures of the outer loop, all
arrivals before `it_to` are of trains before the departures to come
(`PastArrivals`), so nothing that is passed is missed later, and the answer has
an entry for each match of the first n departures and no other, in the order of the trains (`Answered`).
A round keeps both: it stops at the first arrival of the same or a later train
and passes it only if it is the same (`MovesOn`), and a departure that is not on sale moves
nothing.  So `QueryDirectTrains` lists every pair of a departure and an arrival
of one train, on sale on the day the train would have to start, that runs forward.

*Running forward in time and in stops.*  Offsets never shrink along the train; hence
a journey that leaves before it arrives also runs forward in stops (`Goes`), and one that runs
forward in stops does not arrive before it leaves.  So "leaves before it arrives"
(`query_ticket`) picks from "the departure's offset is not greater" (`buy_ticket`) and from "comes
earlier among the stops" (the timetable) the same tickets, those that take time
(`OffersAre`).

*Rows and journeys.*  The day on which the train starts is the date less the
midnights to the stop, so a journey that leaves on the date determines its run
and is determined by it (`JourneysAre`, `PlainIs`).  Rows are as many as entries, and
entries as many as journeys, because each train is in them once.

*Times, prices and seats.*  Times are added up by `Offsets`, by `QueryTrain` and by
the reference's sums; `TimetableIs` and the lemmas on `Sum` show that they agree, and
that the price of a stretch is the difference of the prices up to its ends
(`SumSplit`).  The seats of a ticket are the least of its segments (`SeatsLeftIs`).

*Transfers.*  The days that `CheckTransfer` waits are as few as possible
(`DaysToWaitIs`), so the second train starts on the first day of its sale on which
it leaves in time, and if it never does the change is skipped (`SecondDayIs`).  Hence each
change that the loops look at is one between two tickets (`ConnectionIsLegal`), and
for each that the timetable has they look at one with the same trains and stops
whose second train starts no later (`LegalIsConnection`), which is not worse
(`LaterIsNotBetter`): times shrink, prices and names are the same.  Each of the three loops is a
recursive function; one round turns the best of what was looked at into the best
of that and what it adds (`Checked`), because the order of the keys is total
(`BeforeOrders`), and so does a whole loop (`LoopChecks`).  Both lists of trains hold just
those that leave or arrive (`FetchesAre`), so the answer is the best of all changes
looked at (`AnswerIsBest`), and so of all there are (`BestNow`).  That the code's
complaint about `FetchTrainLeavingFrom` is never thrown comes with it: what is
looked at are changes, never `Mistake`.

### Only model-checked

`FreedSeatsAreTaken`, as liveness under fairness is beyond the prover.  The properties of
`DiskMap`: the tree follows the recursion of the code, with recursive operators
about which the prover can show nothing.  The properties of the violation runs are false.

## 6. Not modelled

The web interface, the containers of `stlite`, logging, argument parsing,
compression and socket libraries are not the program's logic or are vendored.
The transaction log is an empty class.  A stop of the process without a flush is
not modelled below the commands: pages are written back at eviction and the
header at a flush, any such stop can damage the files, and the code has no
recovery whose promise could be checked; nor has the snapshot tool, whose
operations are steps.  Hashing is taken to be injective.

The latches of the B+ tree and of its pages are left out: `lower_bound` waits for
a page latch under the tree latch and `SetValue` the other way round, so two
connections can wait for each other.  `ServerThreads` takes an access of a tree
as one step and shows what goes wrong before that.  The pages that one operation
of the tree pins at once are not counted against the frames of the pool.
`query_order` and `query_profile` change nothing and only print what the modelled
state holds.
