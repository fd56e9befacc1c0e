# A TLA+ verification of L2-Emulator

This directory models the emulator in `src/Project_Implementation/`, checks the
models with TLC and proves theorems about them with TLAPS. Paths below are
relative to `src/Project_Implementation/`.

## 1. The system

The program emulates routers and L2 switches inside one process. Every node owns
a UDP socket on the local host; to send a frame out of an interface is to send a
datagram to the socket of the node at the other end of the link, headed by the
name of the interface there. Two threads run after start-up: the shell, which
executes one typed command at a time, and the receiver thread, which selects on
all the sockets and runs the data link layer for each datagram it reads.

| Component | State | Operations | Talks to |
|---|---|---|---|
| Communication (`communication.c`) | sockets and ports, `send_buffer`, `recieved_buffer` | `send_packet_out`, `send_packet_flood`, the receiver loop, `_packet_recieve` | called by both threads; hands frames to the data link layer |
| Data link layer (`DataLinkLayer/dataLinkLayer.{c,h}`) | ARP table per node; layer and mode per interface | ARP request, reply and their handlers, the frame filter, table look-up, add, delete, dump, `l2mode` | sends through Communication; hands switch frames to the L2 switch |
| L2 switch (`DataLinkLayer/l2switch.c`) | MAC table per node | learning, forwarding, table look-up, add, delete, dump | sends and floods through Communication |
| Network graph (`networkgraph.{c,h}`, `network.{c,h}`, `utils.{c,h}`) | nodes, interfaces in slots, links, addresses, MACs | creation, insertion of links, look-ups by name and subnet | read by everybody; written before the threads start, the layer of an interface also by the shell |
| Topology builders (`network_topology.c`) | none | three builders; each starts the receiver thread | Network graph, Communication |
| Command line (`cli_module.c`, `commandcodes.h`, `main.c`) | the topology pointer | `show topology`, `show node .. arp/mac`, `run node .. resolve`, `config node .. l2mode` | the layers above, in the shell thread |
| Doubly linked list (`linkedlist/`) | left and right pointers inside the entries | add, remove, iterate, count, priority insert | holds the node list and both tables |
| LibCli | external library, an empty submodule here | parses commands | calls the handlers |

What is hard about it:

- **Two threads, no lock.** They share `send_buffer`, the layer and mode of the
  interfaces, and the table lists (the shell prints what the receiver changes).
- **Datagrams get lost.** Socket buffers overflow, `socket` and `sendto` may
  fail; nothing is retried and no request has a timeout.
- **Order.** Requests and replies of several stations interleave in the switches,
  one datagram per node and round; modes change while frames are under way.
- **Loops.** Switches flood without a hop limit or a spanning tree.
- **Comparison of MACs as strings.** The MAC table compares up to a zero byte.
- **Limits and names.** A node has ten interface slots and nobody looks whether
  one is free; nodes and interfaces are found by names that need not be unique,
  and a node's name is cut to the sixteen bytes of its array.
- **Pointers by hand.** The list functions maintain two pointers per entry in a
  different order in every case, and rely on what a removal left behind.

What makes the components correct:

- *ARP*: a table holds only answers to questions of its node, given by an owner
  of the address; one entry per address; a request is answered in the end when
  nothing is lost.
- *Switch*: one entry per MAC; where there are no loops an entry points to the
  owner's side and never moves, a reply needs no flood, every frame is consumed.
- *Interfaces*: in one layer at a time.
- *Communication*: a datagram is the frame and the header of one call.
- *List*: both directions of the pointers are the same sequence, which every
  function changes in one place; `priority_insert` keeps it sorted.
- *Tables on top of it*: an add changes one key however many stores it takes, no
  entry leaks, and printing the table shows what is in it.
- *Graph*: slots hold each interface once and at its own node; what was set up
  under a name stays what the name finds; what a node keeps
  of its name selects it.

## 2. The modules

| Module | Models |
|---|---|
| `NetworkGraph` | the finished graph as constants, its assumptions, and the look-ups |
| `NetworkTopology` | the three builders, and what link insertion makes of their calls |
| `ArpResolution` | abstract: what address resolution promises |
| `L2Emulator` | the running system: both threads, ARP, the switch, the sockets |
| `SendPacketOut` | `send_packet_out` one memory access at a time, for any number of threads |
| `ListSequence` | abstract: a sequence, and what a list function may do to it |
| `LinkedList` | the pointers of `linkedlist.c`, one action per function |
| `AtomicTable` | abstract: a table from keys to values that changes in one step |
| `TableWalk` | an ARP or MAC table as heap objects, changed store by store while the shell prints it |
| `GraphBuilder` | the functions that build the graph, one action each |
| `MCL2Emulator`, `MCSendPacketOut`, `MCLinkedList`, `MCTableWalk`, `MCGraphBuilder` | instances for TLC |
| `NetworkGraphProofs`, `L2EmulatorProofs`, `SendPacketOutProofs`, `LinkedListProofs`, `GraphBuilderProofs` | theorems, each about the module it is named for |
| `LoopFreeProofs` | theorems about `L2Emulator` in networks without loops |
| `TableWalkProofs` | theorems about `TableWalk` |

How they fit together: `GraphBuilder` shows what `NetworkGraph` assumes,
`NetworkGraph` gives `L2Emulator` its constants, and `NetworkTopology` computes
those constants for the topologies the program builds. `LinkedList` shows that the
lists are sequences; `TableWalk` uses the stores of its functions, and shows that
a table may be a set with at most one entry per key, as it is in `L2Emulator`.

### L2Emulator

| Variable | In the code |
|---|---|
| `inbox` | the kernel's queue of each node's UDP socket |
| `arp_table`, `mac_table` | the entry lists; sets, because at most one entry has a key and so the order cannot be observed |
| `configured`, `layer_2_mode` | `is_ip_address_configured`, `interface_layer_2_mode` |
| `active` | the descriptors `select` reported and the scan has not reached |
| `flood` | the loop of `send_packet_flood`, while the receiver thread is inside it |
| `pending` | an `l2mode` command between its two stores |
| `asked` | history: who asked for which address |

The constant `Unbound` holds the nodes whose `bind` failed when they were created:
`send_packet_out` opens a socket of its own for each frame, so they send like
others, but nothing ever arrives at them.

Actions carry the names of the functions they stand for. One action of the
receiver thread is one whole handler, from `recvfrom` to the return, learning
and table update included; a flood is one action per port, since the frames of
the shell may come in between. This is exact:

- The queues, the tables and the modes are all that a handler shares with the
  shell. A handler sends at most once outside of a flood.
- A handler tests the layer and mode of its interface several times while
  `l2mode` may store them. Every outcome of those tests is also the outcome of
  all of them at one moment between the first and the last: the stores go only
  from L3 over no layer to L2, a frame let in by the L3 filter and found on an L2
  interface is treated as one that arrived after the change, and a frame refused
  because the filter's tests straddle the change is one that arrived in
  between.
- A call of `send_packet_out` is one step. That is exact unless the threads are
  in it at once, which is what `SendPacketOut` is about.

`select` is modelled with the scan that follows it: ready nodes are served in the
order of the node list (the node created last comes first), one datagram each,
and a datagram that arrives during the scan waits for the next `select`.

Left out: the constant header fields, the target MAC that nothing reads, frames
that are not ARP (nothing sends any), L3 promotion (prints only), loopback
addresses, VLAN fields (never read), the shell's output. A MAC entry holds the name
of its port, of which `l2switch.c:132` keeps fifteen characters where an interface has
sixteen; the model keeps it whole, since no builder uses a name that long.

A MAC is a model value; `mac_string` gives what `strncmp` sees of it, so that two
MACs may agree for `mac_table_lookup` and differ for the filter's `memcmp`.
Addresses are numbers, and `apply_subnet_mask` clears their low bits as the code
does.

### SendPacketOut

The buffer has three regions: the header, the byte at offset
`NETWORK_INTERFACE_NAME_SIZE`, written both by the terminator and by `memcpy`, and
the rest. `memset`, `strncpy`, the terminator, `memcpy` and the copy that
`sendto` makes touch their regions one at a time and in any order, so that two
calls may overlap in every way these accesses allow. The unsynchronised accesses
are a data race in C; the model takes a region as the smallest unit that tears.
Finer tearing mixes more bytes, and changes nothing in either property.

### LinkedList

The state `node` is the left and right pointer of every list cell and of the base.
Each function is one action that carries out its stores in the order of the
source; `AddNext`, `AddBefore` and `Unlink` are the functions that do so, and
`Predecessor` is the place `priority_insert` finds. Three observations from
translating them:

- `doubly_linkedlist_add_next` does not write the right pointer of a cell that
  becomes the last one. That is right only because a cell that is not in the list
  has null pointers, which every removal restores.
- `priority_insert` puts a newcomer behind its equals, except in a list of one
  element, where it goes in front. The list stays sorted either way. The
  comparison function must return exactly -1.
- The branch at `linkedlist.c:231` cannot be taken.

### TableWalk

`node` and `entry` are heap blocks. `writer` is the receiver thread inside
`mac_table_entry_add` or `arp_table_add_entry`, with `todo` the pointer stores it
has still to do; `reader` is the shell inside `dump_arp_table` or
`dump_mac_table`. Stores become visible one at a time and in the order of the
source; a compiler or processor that reorders them allows more, which this model
does not show. A block that was freed keeps its pointers until it is allocated
again, and the reader may still hold it: what it prints then is `Free`.

`Chain(h, c)` is what a loop along the right pointers of `h` visits from `c`, the
least set that leads on; a cell that is in its own chain is on a cycle. `After` is
what the pointers will be once the pending stores are done (in each the last one
counts), so `Entries` is the table as it will be, whatever is stored by now.

The two tables differ in one constant. The MAC table frees a new entry that is
equal to the listed one. The ARP table compares the whole structure with
`memcmp`, list pointers included, so that an equal entry never compares equal and
is always replaced (`ReplacesEqual`).

### GraphBuilder

Every function the builders call is an action, with any arguments and in any
order; the three builders are three of its behaviours. An assertion that fails
sets `aborted`, after which nothing happens. `create_network_graph_node` puts the
node at the front of `node_list`. `insert_link_between_two_network_nodes` stores
both ends, `interface1` first; `Stored` is the search for a slot and the store.

When no slot is free the search returns -1 and the pointer goes to
`interface[-1]`, which is the last eight of the sixteen bytes of
`network_node_name` (`networkgraph.h:45-46`, with pointers of eight bytes). A name
shorter than that is not changed, since its end comes before; a longer one is cut
there and continued by the bytes of the pointer, written `POINTER`, which are taken
to be no characters of a name. `created` is a history of the names that nodes were
given.

A node does not keep more of a name than its array holds (`Kept`,
`networkgraph.c:76`). The zero that `networkgraph.c:77` stores lands behind the array, on
the first byte of `interface[0]`: it is null at that time, and the first link puts a
pointer there. A look-up compares as many characters as were typed
(`networkgraph.h:168`), so that more than sixteen are compared with bytes of that
pointer. The model looks up no more than a node can keep, and `KeptNameFindsNode`
promises nothing of longer names typed in full. It says that the first sixteen
characters find the node, and that a later node whose name begins with them takes
its place. Interface names are stored and compared up to sixteen bytes; `Name` holds
them as they are in their fields.

Giving an address to an interface that has been made a switch port sets
`is_ip_address_configured` and keeps the mode, so that it is in both layers.
The builders never do so, and nothing changes addresses later; `L2Emulator`
starts in states without such an interface.

### Properties

`TypeOK`, one per module. Beyond it:

| Property | Says |
|---|---|
| `ArpEntriesAreAnswers` | no ARP entry without a request of that interface and an owner's answer, although the handler checks neither |
| `ImplementsArpResolution` | every step asks, answers or is invisible to `ArpResolution` |
| `OneEntryPerKey` | a look-up has one entry to find |
| `OneLayer` | an interface is in one layer; in none only inside `l2mode` |
| `MacEntriesPointHome` | without loops, an entry leads to the owner's side of the tree |
| `ReplyNeverFlooded` | replies meet a learned entry in every switch |
| `NoThrashing` | an entry never moves to another port |
| `NetworkDrains`, `ResolutionCompletes` | liveness: frames are consumed, requests answered |
| `WholeUnlessOverlapped` | only overlapping calls tear a datagram |
| `WellLinked` | right pointers are one list without a cycle, left pointers the same list backwards |
| `ImplementsListSequence` | every list function is one insertion, removal or clearing of a sequence |
| `PriorityKeepsSorted` | `priority_insert` into a sorted list leaves it sorted, with equal priorities |
| `NothingLeaks` | an allocated entry is listed or in the hands of the add; no listed entry is freed |
| `WalksEnd` | between any two stores, every chain of right pointers ends, freed blocks included |
| `UndisturbedWalkPrintsTable` | a walk beside which the receiver did nothing prints the table |
| `ImplementsAtomicTable` | the stores of an add amount to one change of one key |
| `SlotsWellFormed` | what `GraphAssumption` takes for granted, also beyond the slot limit |
| `SetInterfacesFoundByName` | an interface that was set up by name stays the one its name finds |
| `KeptNameFindsNode` | a node's name, up to the size of its array, selects the node, unless a later name begins with it or an overrun replaced its end |

`ReplyNeverFlooded` depends on stations staying stations: when the asking
interface is turned into a switch port while its reply is under way, the reply is
flooded there (it is not a property of the run `Linear`). `NoThrashing` and
`MacEntriesPointHome` depend on MACs that differ under `strncmp`: in `L2Switch`
two stations share one entry, which follows whoever sent last.

## 3. The runs

| Run | Question | Bounds |
|---|---|---|
| `L2Switch` | the topology of `main`, two of whose MACs agree up to a zero byte: are tables right with losses, full sockets, useless commands and a port that changes its mode? | 3 commands out of 6; 2 datagrams per socket; any send may fail |
| `Chain` | two switches, four stations, one of them deaf: do entries lead home, stay there, and serve replies? | 3 of 4 commands, 3 datagrams, sends may fail |
| `Linear` | the second topology, its middle router becoming a switch and a station a switch port under way | 5 of 6 commands, 2 datagrams, sends may fail |
| `ChainLive` | two switches: is everything consumed and answered when nothing is lost? | 2 of 3 commands, one typed at the deaf station; 4 datagrams, more than are ever queued |
| `SendPacketOut` | what do overlapping calls do to the ones after them? | 2 threads, 2 interfaces, 2 frames, 3 calls |
| `LinkedList` | do all functions, in any order, keep the list? | 5 cells, 2 of equal priority |
| `MacTable` | does an add of many stores change one key, free what it should, and leave walks that end? | 3 blocks, 2 keys, 2 values |
| `GraphBuilder` | does what the program assumes of a graph hold whatever is called? | 2 nodes of 2 slots, 3 links, 2 interface names, names of 1 and 3 characters of which one begins the other, arrays of 2, 2 settings |
| `LoopThrash`, `SendPacketOutRace`, `TableWalkRace`, `SlotLimit` | violations, see 6 | small |

The bounds are enough for the cases that matter. Two requests at once are needed
for entries, floods and replies to interleave; three let a switch have learned
something before the other two. A socket of two overflows during a flood and
still keeps a frame that is stale by the time it is read. Two calls overlap and a
third follows in the buffer they leave behind. Stations and switches beyond
these add repetitions of the same roles. No symmetry is used on the topologies,
whose nodes differ; the threads, interfaces and frames of `SendPacketOut` are
interchangeable, and so are the blocks, keys and values of `TableWalk` and the
nodes, links and interface names of `GraphBuilder`. Five cells give the list a
head, a tail and a middle around a cell that is inserted, with a tie. Three
blocks hold two entries and a new one, which covers replacing the first and the
last of two; the reader can hold any of them when it is freed. Two slots and
three links fill a node, go one over the limit with both ends, and leave the
other node with a slot to spare. A name of one character fits the array of two and is
continued by a pointer; the one of three is cut to fill the array and loses its second
character to a pointer.

Deadlock is not checked: both threads may wait for ever, the one in `select`, the
other at the prompt. That they do not get stuck with work left is what the
liveness properties say. `GraphBuilder` stops when everything has been built.

**Fairness** (`FairSpec`). The receiver thread loops for ever and the kernel
schedules it: weak fairness of `ReceiverThread`, whose steps are enabled one
after another. A shell command once begun runs on: weak fairness of
`StoreLayer2Mode`. Nobody is obliged to type.

## 4. What is proved

Every safety property that a passing run checks is also a theorem, for every
value of the constants.

### The emulator

For every network that satisfies the assumptions of `NetworkGraph`, every initial
mode, every buffer size, with or without losses, and for every set of commands:

| Theorem (`L2EmulatorProofs`) | |
|---|---|
| `TypesAlways` | `Spec => []TypeOK` |
| `ArpEntriesAreAnswersAlways` | `Spec => []ArpEntriesAreAnswers` |
| `OneEntryPerKeyAlways` | `Spec => []OneEntryPerKey` |
| `OneLayerAlways` | `Spec => []OneLayer` |
| `ImplementsArpResolutionAlways` | `Spec => ImplementsArpResolution` |

These include networks with loops, duplicate addresses and colliding MACs.

`ArpEntriesAreAnswers` is not inductive: it does not say what the frames under
way may claim. The invariant `IInv` adds

- `FramesTruthful`: a request in a socket or in a flood was asked, and a reply is
  addressed to a station that asked for the address it carries and comes from an
  owner of it. Switches copy frames unchanged, so they preserve it, whatever path
  they choose; `asked` only grows, so it cannot become false later;
- `AskersAreInterfaces`: nobody asks from the broadcast MAC. So no reply is
  addressed to everybody, and the filter lets a reply into an L3 interface only
  if that interface asked;
- `ReadyHasDatagram`: `select` reports sockets that hold a datagram, so
  `recvfrom` never blocks the thread on an empty one;
- `AddressedOnly`, `PendingOff`: an interface in L3 mode has an address, and an
  `l2mode` command between its stores has switched the address off.

The proof has a lemma per part (`QueueStep`, `FloodStep`, `TableStep`,
`LayerStep`, `KeyStep`, `TruthStep`, `ArpStep`), with facts about the socket
queues (`EnqueueFacts`, `SendFacts`, `RestFacts`) underneath, and about the slots
of a node in `NetworkGraphProofs` (a look-up by name or subnet returns NULL or an
interface of that node). The refinement follows from the invariant: a reply taken
in is `Answer`, a request sent is `Ask`.

### Networks without loops

Some properties depend on the network, and their theorems say on what. `LoopFree`:
no way out of an interface leads back to its own node. `MacsDistinct`: `strncmp`
tells the MACs of any two interfaces apart. TLC evaluates in every run of
`MCL2Emulator` (`TreesButOne`) that the topologies are `LoopFree` except the loop of
switches, and that their MACs are distinct except where a collision is set up on
purpose; `LoopThrash` shows that the first condition is needed.

| Theorem (`LoopFreeProofs`) | Besides `LoopFree` and `MacsDistinct` |
|---|---|
| `MacEntriesAlwaysPointHome`: `Spec => []MacEntriesPointHome` | |
| `NeverThrashes`: `Spec => NoThrashing` | |
| `RepliesNeverFlooded`: `Spec => []ReplyNeverFlooded` | no command makes an interface with an address a switch port |

Losses, full sockets, deaf nodes, duplicate addresses and mode changes are all
allowed; in the first two theorems, stations may become switch ports too.

That an entry points to the owner's side is not inductive: it says neither where
the frames are that the next entries will be learned from, nor that a reply finds
what the request taught. `TreeInv` adds to `IInv`

- `EntriesLeadHome`: an entry names the port that faces its owner, and the next
  switch on the way knows the owner too, so that the entries for one MAC form an
  unbroken way home;
- `FramesPlaced`: a frame arrives from the side of the station it names as its
  source, over a switch that has learned it; a request is a broadcast whose two
  source fields agree; a reply is on its way home, along switches that know its
  destination, or is there, or has been sent on by a station that has become a
  switch and gets ever farther away from it;
- `FloodPasses`: the same of the frame in the flooding loop;
- `StationsStayL3`: an interface with an address leaves L3 only by a command.

The argument about trees is in the lemmas about `FarSide`, which is the least set of
nodes with the neighbour in it and no way out (`FarSideLeast`, `FarSideCross`): in
a network without loops the two sides of a link are disjoint (`SidesDisjoint`), what
lies beyond a further interface lies beyond the first (`SidesNested`), one interface
of a node at most faces a given station (`OneWay`), and a frame passed on through
another port still faces its source (`FacesOnward`, `AstrayOnward`). `LearnFacts`
says what one entry changes; the rest is a lemma per action.

### The other components

`SendPacketOutProofs` proves `TypeOK` and `WholeUnlessOverlapped` for every number
of threads, interfaces, frames and calls. Its invariant says what the buffer and
the copied regions hold at each point of a call that nobody has overlapped.

`LinkedListProofs` proves, for any finite set of cells and any integer priorities,
`TypeOK`, `WellLinked`, `ImplementsListSequence` and `PriorityKeepsSorted`. The
invariant is that the pointers represent some sequence `s` (`Represents`): the
right pointers walk along `s`, the left pointers back, and cells outside `s` have
null pointers. One walk determines the sequence (`WalkUnique`), so the abstract
list is a function of the pointers; `Inserted`, `Removed` and the lemmas after them
say what each function does to the positions.

`GraphBuilderProofs` proves the four properties of the run `GraphBuilder` for any
nodes, links, names of any length, any slot limit and any size of the name array
that has room for a pointer:

| Theorem | Needs beside the types |
|---|---|
| `BuilderTypes`, `SlotsAlwaysWellFormed` | both ends of a link are attached together (`EndsTogether`), so that the second end is as new to the slots as the first |
| `SetAlwaysFoundByName` | what was set up is not only found but is in the first slot of its name (`SetIsFirst`); new interfaces go behind, so it stays first |
| `KeptNameAlwaysFinds` | the list is the history backwards, and a node reads as what it keeps of its name or as that under a pointer (`NameInv`) |

The step for a link is one lemma about placing one end (`PlacedKeeps`,
`StoredKeepsNamed`), applied twice. That a second overrun changes nothing more
that is read is `UnderPointerTwice`.

`TableWalkProofs` proves the four properties of the run `MacTable` for any number
of blocks, keys and values, and for both values of `ReplacesEqual`:

| Theorem | |
|---|---|
| `NothingEverLeaks` | `Spec => []NothingLeaks` |
| `WalksAlwaysEnd` | `Spec => []WalksEnd` |
| `UndisturbedWalksPrintTable` | `Spec => []UndisturbedWalkPrintsTable` |
| `AddsAreAtomic` | `Spec => ImplementsAtomicTable` |

In the middle of an add the pointers are inconsistent, so the invariant `TableInv`
speaks of the pointers as they will be: `After(node, todo)` is well linked
(`DoublyLinked`), and a store only moves from the pending ones to the memory
(`AfterStep`). That alone says nothing of the pointers a reader sees now.
`Ranked` does: one assignment of numbers to the blocks rises along every right
pointer that is stored and along every one still to be stored. Hence no cycle
(`NoCycle`), and hence the chain from the base is all that is listed
(`ChainIsListed`). A new block can be ranked first; unlinking passes over a block.
The other parts: where the add stands and what it holds (`WriterInPlace`), that just
listed and held blocks are allocated, that keys are distinct, and that a walk left
alone has printed all but what its chain has yet to visit (`WalkOnTrack`). The
refinement describes the table key by key (`TableHolds`) and goes through the
actions: `Allocate` begins, `Added` or an add of an equal entry ends, all else
stutters.

Assumptions: those named in the modules (`GraphAssumption`, `PropertyAssumption`,
`NamesDistinct`, `SlotsAssumption`, `EmulatorAssumption`, `SendAssumption`,
`ListAssumption`, `BuilderAssumption`, `TableAssumption`). TLC evaluates them in the
passing runs, and `BuildersStayInBounds` in `MCL2Emulator`: the three topologies
leave each node a slot to spare, have no namesake interfaces on a node and set up
interfaces that exist.

Only model-checked: `NetworkDrains` and `ResolutionCompletes`, since liveness is out
of the prover's reach; and that the three topologies satisfy the assumptions and
conditions above, which TLC evaluates.

## 5. Not modelled

- LibCli (external), parsing and printing; `ping`, which registers a string where
  the callback belongs and has no handler (`cli_module.c:262`).
- A call of `socket` that fails when a node is created: it has the same effect as
  a failing `bind`, which is modelled.
- The dump functions that only print (`network.c:102-192`), except for the walks
  over the two tables.
- Functions without a caller: `clear_arp_table`, `clear_mac_table`,
  `packet_buffer_shift_right`, `network_node_unset_interface_ip_address`. The
  functions of the list are modelled whether they have a caller or not.
- Values that no order of steps explains: the uninitialised `tlv` at
  `cli_module.c:95`, and the missing return values of `validate_node_existance`
  (`cli_module.c:31`) and `node_get_matching_subnet_interface` (`network.c:233`).
- A block that one table frees and the other table, or a frame, allocates:
  `TableWalk` has one table, whose blocks only it reuses.
- The hash that makes MACs (`network.c:8-28`): a MAC is a model value.

## 6. Disagreements found

1. **Thrashing** (`LoopThrash`). `README.md:7` of the repository names tackling
   "the issues of thrashing" as an objective. In a loop of three switches one
   request arrives at each switch from both sides, and the entry of the asking
   station moves from port to port for ever.
2. **Torn datagrams** (`SendPacketOutRace`). When both threads are inside
   `send_packet_out`, a frame leaves under the other frame's header or with some
   of its bytes.
3. **Tables printed while they change** (`TableWalkRace`). `linkedlist.h:63` says
   the loop goes over the list from beginning to end. A walk that meets an entry
   just unlinked, or a new one whose right pointer is not yet stored, ends there
   and leaves out entries that were in the table all the while. It may also print
   a freed entry.
4. **The slot limit** (`SlotLimit`). `networkgraph.c:43` says a slot is assigned if
   it is available. It is assigned whether or not it is: the eleventh interface of
   a node overwrites the end of the node's name and cannot be found.

Read in the code but not run: the first topology gives both ends of each link the
same address (`network_topology.c:20-31`) while the picture it prints shows `.1`
and `.2`, so that a printed `.2` cannot be resolved; the second picture shows
`11.1.1.x` where the code sets `20.1.1.x` (lines 79-80 and 89).

## 7. Plan

Done, in this order: the finished graph, the emulator with its abstract
specification, the shared buffer, the proofs of the two; the list with its
abstract specification and proofs, the tables beside a reader, the graph builder
and its proofs, nodes whose `bind` failed; the proofs for networks without loops
and those about the tables beside a reader. Next:

1. `SendPacketOut` composed with the receiver of `L2Emulator`: what a torn datagram
   does at its destination, and which properties survive it.
2. A condition under which a disturbed walk over a table still prints every entry
   that was listed all the while, such as a table that only grows behind the
   reader.
