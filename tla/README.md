# A TLA+ development of tiny-transport

tiny-transport gives an application UDP channels named by locators. A `TransportFactory`
holds one transport per locator kind; it opens receiver and sender resources, completes lists
of locators with defaults and interface addresses, and an event loop (uvw, which wraps libuv)
delivers datagrams to callbacks. Paths below are relative to the repository.

The first part of this document is the inventory of the program, the second says which module
models what, and the rest what is checked, what is proved, what is assumed and what is left out.

## 1. The program

Everything runs on the thread of the event loop. The library has no locks and starts no thread,
so one call is one step. What makes the code hard is the order of the application's calls, the
lifetime of what they leave behind, and what libuv does later.

| Component | Source | State | Operations | Talks to |
|---|---|---|---|---|
| Channels | `src/TransportFactory.cpp`, `src/udp/*` | two process-wide lists of receivers and senders, `udp_handles_` of each transport, the sockets of the loop and their handlers | `build_receiver_resources`, `build_send_resources`, `register_receiver`, `support_locator`, the data handler, creation and destruction of a factory | uvw and the kernel (bind, join, recv), the callbacks of the application |
| Registry and default locators | `src/TransportFactory.cpp`, `src/udp/UDPv4Transport.cpp`, `UDPv6Transport.cpp` | `registered_transports_`, `max_message_size_between_transports_`, `min_send_buffer_size_` | `register_transport`, `normalize_locators`, the `default_` and `fill_` functions | IPFinder, locator lists |
| Locator lists | `include/transport/type.h` | the vector of a `LocatorList` | `push_back` in two forms, `=` in two forms, `assign`, `erase`, `clear`, `swap`, `==`, `begin` | every call that takes or completes a list |
| Addresses and ports of a locator | `src/IPLocator.cpp` | the 16 octets and 32 bits of port of a `Locator` | the setters for IPv4, WAN, LAN and port, `createLocator`, the questions about an address, `operator<` (`type.h`) | createLocator, sockets (which see four octets and 16 bits) |
| IPv6 text | `src/IPLocator.cpp` | the same octets | `setIPv6`, `toIPv6string`, `IPv6isCorrect` | createLocator, IPFinder |
| Sending | `src/udp/UDPTransportInterface.cpp`, `UDPSenderResource.hpp` | libuv's queue of requests of each socket, the caller's buffer | `send` on a list and on a locator | libuv, the kernel |
| Interface discovery | `src/IPFinder.cpp` | the descriptors it does not close; the caller's lists | `getIPs`, `getIP4Address`, `getIP6Address`, `getAllIPAddress`, `getAllMACAddress`; `normalize_locator` on top | getifaddrs, socket, ioctl |
| Descriptors | `include/transport/TransportDescriptorInterface.h` | sizes | getters, `create_transport` | `register_transport` |
| TCP receiver, example, build | `src/tcp/*`, `examples/*`, CMake | none | none | |

What makes each of them correct, and where it is hard:

* **Channels.** A listed receiver keeps a socket of its own which runs its handler, whatever
  is opened, refused or destroyed afterwards; a unicast channel is not shared; a group, once opened on a port,
  stays open to everybody; a call is answered with the resource its locator was answered with before, or with nothing. Hard because the constructor of a resource replaces the
  handler of its socket before `bind` and `join` can fail, because the resource is then looked up in
  a list shared by all factories, and because references to the caller's variable and to the
  transport outlive both.
* **Registry.** A kind is registered once; the message size is the smallest of the transports';
  normalizing neither loses nor invents a locator and is stable; shared memory is only the fallback. Hard because interfaces change
  between calls and because `assign` keeps the old content of a list that merely compares equal.
* **Lists.** No call on whole lists makes a duplicate, and `==`, which compares one way, is equality on
  lists without duplicates. Hard because `begin()` gives write access to the elements.
* **Addresses.** A setter for one part leaves the others alone on success and on failure; the
  comparison and the questions look at the same octets; `operator<` orders what `==` tells apart.
* **Delivery.** What is sent to the address of a receiver can reach no other socket, a callback gets only
  what was sent to its port and address (though not only what was sent by its transport), once and in order, and what arrived is consumed in the end. Hard because
  several sockets may be bound alike, several factories list resources of one locator, and the kernel chooses.
* **Interface discovery.** A list answers for the host as it is; MAC addresses come once each. Hard because the host
  may change between the scan and the question about an interface, and any of them may fail half-way.
* **IPv6 text.** All notations of an address are read as that address, what is printed is the
  canonical one, and what is accepted means what it says. Hard because the place of the zeros is
  computed from a count of colons with three different constants.
* **Sending.** Each destination of the sender's kind gets each datagram once and in order although
  the socket may block between any two, and in the end. Hard because the queue holds a pointer to the
  caller's buffer.

`PROJECT.json` lists the hazards line by line, each with the properties aimed at it, or the reason
why there is none.

## 2. The modules

| Module | Models | Composes |
|---|---|---|
| `ChannelDirectory` | the promise to the application: a write-once directory, and what each call may be answered with | |
| `UdpChannels` | channels, sockets, resources, callbacks, dispatch; two or more factories in a process | refines `ChannelDirectory` |
| `UdpChannelsProofs` | its theorems | extends `UdpChannels`, TLAPS |
| `Delivery` | datagrams from a sender through the kernel and the loop to a callback | extends `UdpChannels` |
| `DeliveryProofs` | its theorems | extends `Delivery`, `UdpChannelsProofs` |
| `SeqFolds` | the loops of the code that filter a list or chain pieces, as folds | |
| `LocatorLists` | the operations of `LocatorList` | extends `SeqFolds` |
| `ListTheorems` | theorems about lists of any length, and the induction they need | extends `LocatorLists`, TLAPS |
| `TransportRegistry` | the registry, the interfaces of the host, and every call on locator lists | extends `LocatorLists` |
| `TransportRegistryProofs` | its theorems | extends `TransportRegistry`, `ListTheorems` |
| `InterfaceScan` | IPFinder on a host that changes, and the wildcards `normalize_locator` expands | extends `LocatorLists` |
| `InterfaceScanProofs` | its theorems | extends `InterfaceScan`, `ListTheorems` |
| `Outbox` | what sending promises: an outbox for each sender, emptied in order and in the end | |
| `SendQueue` | sending on a list through libuv's queue | extends `LocatorLists`, refines `Outbox` |
| `SendQueueProofs` | its theorems | extends `SendQueue`, `ListTheorems` |
| `LocatorParts` | IPv4, WAN and LAN parts, the port halves, comparisons and questions | |
| `LocatorPartsProofs` | its theorems | extends `LocatorParts`, `ListTheorems` |
| `Ipv6Text` | reading, checking and printing IPv6 addresses | extends `SeqFolds` |
| `Ipv6TextProofs` | its theorems | extends `Ipv6Text`, `ListTheorems` |
| `MC...` | the constants of each on small instances | |

Names follow the source. `PROJECT.json` maps each definition to its lines; a definition whose name
begins with `Mut` is a wrong version of the one after it, kept to show that the properties notice.

### UdpChannels

| Variable | Code |
|---|---|
| `slot` | the application's `Locator` variables, passed to `build_receiver_resources` by reference |
| `alive`, `registered` | the factories, and `registered_transports_` of each |
| `udpHandles` | `udp_handles_` of each transport |
| `handles` | the sockets of the loop: address, port, reuse flag, joined groups, whether they are read, and the handler |
| `receivers`, `senders` | the two static lists of `TransportFactory.cpp` |
| `heldReceivers`, `heldSenders` | the resources some call has returned |
| `listener`, `speaker` | history: the receivers and the senders each locator was answered with, filed under the locator of the call |
| `event` | what the last call asked for and was answered, or what the last datagram met |

`build_receiver_resources` is the disjunction `BuildReceiver` of its outcomes: no channel is opened
(`BuildReceiverNoOpen`: no transport, or UDPv6, whose `open_input_channel` does nothing), `bind` is
refused (`BindRefused`), the group is not joined (`JoinRefused`: the socket keeps the port), or the
channel opens (`BuildReceiverOpen`). Every one contains the lookup by locator that follows in the
code. Sending has `BuildSenderNoOpen`, `BuildSenderBound` and `BuildSenderUnbound`, for the code drops
what `bind` returns. `Dispatch` is the data handler with the checks in its order. `udp_handles_` and
the condition on its `push_back` are modelled as written: a handle is remembered only if it was
found there, so none ever is. `Remember` and `Match` would show any change of that.

`ChannelDirectory` sees the two histories and the last answer, and nothing else. In it a call for a locator is
answered with the entry of that locator, which the first answer writes and nothing changes, with a resource
no other locator was answered with; or with nothing, for a receiver at any time (the channel may be refused), for a sender
only while its locator has no entry. `DirectorySpec` says that the channels implement it. `FirstMatch`, the lookup
by locator, could break that in two ways: with a resource of another locator, or with another resource than before.

### TransportRegistry and LocatorLists

`NormalizeLocators`, `DefaultMulticastLocators`, `DefaultUnicastLocators`, `FillLocator`,
`PushLocator`, `PushList`, `AssignList`, `CopyList`, `MoveList`, `EraseLocator`, `ClearList` and `SwapLists` are calls;
`RegisterNew` and `RegisterNothing` the two outcomes of `register_transport`; `InterfacesChange` is the
host. An address is a first part (`head`) and its last four octets (`tail`), since that is how the code
tells wildcards. `Scans` is `IPFinder`, which lists the addresses of interfaces in any order, or fails without the
caller hearing of it; each wildcard of a list has a scan of its own (`Found`).
`WithDefaultMulticast` adds the shared-memory locator to a list that is still empty at its end, which happens if that kind is
registered and those before it add nothing. The library has no such transport, but `register_transport` takes any descriptor.

### Delivery

`Delivery` adds to the channels what was sent (`sent`), the datagrams in the buffer of each socket and those
each receiver has consumed. `Call` is any call of `UdpChannels`, `Transmit` the lambda of a sender, which passes the
datagram to the kernel. `Takers` is the kernel: a unicast datagram goes to one socket bound to the address, if there is none to one bound
to the wildcard, a multicast one to some of those bound to the group or the wildcard, and either may be lost. `Read` is the loop,
which takes the first datagram of a socket and runs the data handler. Its step is a `Dispatch` of `UdpChannels`.
With each datagram is kept, as history, who was listening at its address and port when it was sent.

### InterfaceScan

`host` is the state of each interface, which `HostChanges` may replace between any two system calls. `ListAddresses` is
`getIP4Address`, `getIP6Address` or `getAllIPAddress`, by the kinds it keeps, `ScanFails` any of them when `getifaddrs` fails, and `ExpandWildcard` the
expansion in `normalize_locator`, whose callee ignores that failure. `getAllMACAddress` takes many steps: `StartMacs` scans,
`AskAnswered` and `AskRefused` are a socket and its `ioctl`, `FinishMacs` returns. `open` counts the descriptors it leaves, `before`
(history) is what the vector held when the call began. A scan that fails is for this call an empty one, which it answers with true.

### SendQueue

`Send` is a call: the destinations that the kind of the transport and the flags let through become
requests, of which libuv gives the kernel a prefix at once if none is waiting, and queues the rest.
`Flush` is the loop finding the socket writable. `WriteBuffer` is the application, which owns the
buffer and is free to change or free it. The kernel reads the content when it gets the request, or refuses
it (`Lost`). `asked` remembers by sender the requests made, for `Outbox` to speak of; nothing reads it.

### LocatorParts and Ipv6Text

Both have one locator and apply every call to it in every order. A text is what the code sees of
it. In `LocatorParts` these are the numbers that the extractions of a `stringstream` deliver, and
whether something follows. In `Ipv6Text` they are the colons and quartets, and whether a zone (`%eth0`) ends the text.
Numbers keep their width: octets are taken modulo 256, ports are 16 bits each, and defaults cut a
32-bit port to 16. `Memory` is a locator as `operator<` compares it, the integers in little-endian order; the locators of `Compared` are those it is compared with. The outcomes of `Ipv6Text` on short and zone texts were compared with those
of the compiled `IPLocator.cpp`.

## 3. What is checked

Runs that pass:

| Run | Instance | Question |
|---|---|---|
| `channels` | two factories, one variable, three sockets; a host address, once more with a logical port, a group and the wildcard on one port; `bind` and `join` may fail at any time | Do listed channels stay open, apart and undisturbed, do groups stay open to others, and does the process answer as the directory does? |
| `delivery` | a host address that sockets see in a UDPv4 and a UDPv6 locator, and a group; three sockets, two datagrams; the factory may be destroyed | Can anything take a receiver's datagrams, are they consumed once, in order and in the end? |
| `registry` | descriptors of UDPv4, UDPv6 and shared memory and one that creates nothing; two lists of up to two locators; interfaces that come and go, scans that fail; a port that 16 bits turn into 1 | Is the registry consistent, do whole-list calls make no duplicate, is normalization exact and stable, is shared memory only the fallback? |
| `interface_scan` | the loopback, an interface whose address the bridge beside it shares, addresses that have no name, four descriptors | Do the lists say what the host has, and does the vector hold what the answer says of it, whatever changes or fails meanwhile? |
| `send_queue` | a sender of each kind, two buffers, two calls, a list of three mixed destinations and one of one | Once and in order? Is each sender an `Outbox`, which empties in the end? |
| `locator_parts` | the UDP and TCP kinds, and SHM as one without IP address; texts good, too large, too short, too long, with something behind; eight locators to compare with, that differ in LAN, WAN, address, kind, in either half of the port and in several of them | Do parts and halves stay apart, do the answers agree, does `createLocator` forget what was there, is `operator<` an order that agrees with `==`? |
| `ipv6_text` | all 256 patterns of zero groups; every text of up to four colons; texts of eight and nine numbers with `::` at each end and in between; zones | Are all notations read, is the printed one canonical, is nothing else accepted that has a `::`? |

Runs that find a statement of the repository violated (the quotations are in `PROJECT.json`):

| Run | Statement | What happens |
|---|---|---|
| `support_locator` | `support_locator` tells whether a locator maps to the resource's channel | it reads the caller's variable, and denies the locator the resource was built for once the variable is assigned |
| `transport_outlives` | the factory guarantees that transport and channel are valid while the resource exists | the transport dies with its factory, the receiver does not |
| `failed_join` | the destruction of a receiver closes its channel | a receiver whose group could not be joined is destroyed, and its socket keeps the port |
| `borrowed_buffer` | a blocking send of a slice | what waits is sent with what the application wrote afterwards |
| `misrouted` | a locator identifies a channel of a particular transport | what a UDPv6 sender sends to a UDPv6 locator is given to a UDPv4 receiver |

Known differences between documentation and code that no run shows:

* `open_input_channel` registers the receiver if there is a channel already (`TransportInterface.h:98-100`). The code refuses a
  second unicast receiver of a locator: the call returns nothing although a receiver of it is listed (`UnicastChannelsExclusive` says why). So the directory may answer
  a receiver's call with nothing at any time.
* Constructing a sender opens its channel (`SenderResource.h:34-36`). The result of its `bind` is dropped
  (`UDPTransportInterface.cpp:83`): when another socket has the address, a receiver's or an earlier sender's, the sender is handed out unbound.
* An IPv6 address is a string of eight numbers (`IPLocator.cpp:230-231`). A text without `::` is accepted with fewer: `1:2:3` is read as `1:2:3:3:3:3:3:3`.
* `getAllMACAddress` returns all MAC addresses of the interfaces (`IPFinder.h:116-117`). When the scan fails it returns true with
  none (`IPFinder.cpp:271`), and what the vector held before stays in it. `MacsAnswerForTheScan` says exactly that.

Why the bounds are enough. In `UdpChannels` a property relates at most two resources and one failed
attempt, so that three sockets (`MaxHandles`) show every pair with a third disturbing it. The three addresses overlap
in all the ways the kernel knows: equal, wildcard, and group bound to the wildcard; the locator with a logical port has the
socket address of another without being equal to it. The factories are alike, and TLC takes states that differ by exchanging them for one
(symmetry). In `TransportRegistry` `MaxLen` allows each of the two lists two elements, the least for a duplicate, for an order, and for two lists that hold
the same in different orders, which `assign` takes for equal; the lists are alike, too. In `Delivery` nothing fails but for what the
model of the kernel says (`Faults` is false, as the run would be too long otherwise): sockets that a failed join leaves behind among datagrams are in the theorems only. Two
datagrams (`MaxSends`) are the least that can be out of order, and with three sockets a receiver, a second one
of its locator and a sender are there together. In `InterfaceScan` four descriptors (`MaxDescriptors`) run out in the second call.
`MaxUInt32` is 9, above every size used, since only its being the largest matters. In
`SendQueue` two calls (`MaxCalls`) are needed for one to queue behind another, and three
destinations for a queue that starts in the middle of a list. Ports in `LocatorParts` are below 2^15, so that a
logical port fits TLC's integers. In `Ipv6Text` a group is zero or not, as far as the code distinguishes them. Deadlock is
checked in every run.

Every property of a passing run is violated by at least one of the `Mut` definitions (`PROJECT.json`,
"mutants"): a changed guard of `push_back`, `recv` before the join, address reuse for unicast, a
dropped check of duplicates, a constant of the zero block off by one, and so on.

**Fairness.** Two modules have any, and each has a liveness property that needs it. `SendQueue` has weak fairness of `Flush`
for each sender (`OutboxSpec`), because the application runs the loop and the loop polls each socket that has
requests. A socket need not ever be writable at once: a step of `Flush` is the moment it is. A network that blocks a
socket for ever is excluded by this assumption. `Delivery` has weak fairness of `Read` for each socket
(`ArrivalsAreConsumed`): epoll reports a socket with data until it is read. Nobody owes a call of the library, and the network owes no delivery.

## 4. What is proved

TLAPS checks these for every value of the constants that satisfies the assumptions named in the
modules: any number of factories, locators, variables, callbacks and sockets, any descriptors, hosts with any finite
number of interfaces, lists and texts of any length, all octets, ports and groups. Every property of a passing run is stated by a
theorem, but for liveness. `PROJECT.json` names the theorem of each.

**UdpChannelsProofs.** `Invariance` proves `Spec => []IInv`. The invariants of the runs are not inductive:
`ReceiverOwnsChannel` says nothing about how a call would come to use an old socket. `IInv` adds
that `udp_handles_` holds nothing (`NothingRemembered`), so that each attempt works on a socket of its own, the last one;
how the sockets of receivers and senders are bound and that each socket belongs to at most one resource
(`ReceiverSockets`, `SenderSockets`); that whatever was returned is the first of its locator
(`HeldReceiversAreFirst`, `HeldSendersAreFirst`), and is in the history of its own locator (`AnswersFiled`); that a callback is only on a receiver that was returned
(`CallbacksAreHeld`); that sockets left behind without a resource are bound as groups are, reusable and to the wildcard (`AbandonedSockets`); that two sockets overlap only if both
allow reuse (`OverlapsAreShared`), which is what keeps unicast channels alone and groups open; and that no more resources than sockets exist (`ListsWithinSockets`). The proof
goes action by action: `OpenSocket`, `SenderBoundSocket` and `SenderUnboundSocket` describe the one socket that changed,
the `...Step` lemmas the lists. From it follow

* `TypeCorrect`, `ReceiversOwnChannels`, `DispatchesAreListed`, `UnicastExclusion`, `SendersApart`,
  `GroupsStayOpen`, `OneConsumerEach`: the invariants of the run `channels`;
* `SocketsUndisturbed`: the action property that no step changes a bound socket;
* `ImplementsDirectory`: every behaviour of the channels is one of `ChannelDirectory`. Each call that asks for a locator is a step of
  the directory for that locator with the answer it got, whether it writes the entry, repeats it or is refused; any other step is silent. It rests on
  `HeldReceiversAreFirst` and `AnswersFiled`: what was handed out stays the first match of its locator, for resources are only appended.

**ListTheorems.** What the operations of `LocatorLists` and `SeqFolds` return. The provers cannot take the library's induction
over the naturals, whose theorem has a predicate as parameter, so `NatSetInduction` is induction on a *set* of numbers (from the library's theorem on minimal elements of
a well-founded relation) and `IndexInduction` that on the indices of a list. A fold is reasoned about through the
sequence of values it has after each element: `FoldExists` and `FoldSteps` give that sequence, and each theorem shows by `IndexInduction` what
every value in it satisfies. `EqualListsHoldTheSame` proves that the one-way `operator==` is
equality of the sets of locators when neither list has a duplicate (by counting), `AssignGivesTheOthers` that
`assign` then gives the right locators although it may keep its own. `PushKeepsDistinct` and `PushedAllHolds` are for `push_back` of a locator and of a list: what was there stays,
what was pushed is added, nothing else is, and no duplicate is made. `KeptHolds` and `JoinedHolds` say the same of loops that filter a list or join several.

**TransportRegistryProofs.** The inductive invariant is `RInv` (a kind is registered once, the message size is the smallest reported,
and the sizes are at most `MaxUInt32`, without which the smallest is not) with `TypeOK`.

* `RegistryTypeCorrect`, `MaxMessageCorrect`: type and registry. That the lists keep their type is where the folds come in, as every call builds one.
* `ListCallsKeepDistinct`: the action property that no call on whole lists makes a duplicate.
* `NormalizingExpands`: the result holds what each locator of the list expands to (a wildcard of a registered kind to what its own scan found or the loopback, any other to itself), and nothing else;
  `NormalizingSettles`: a normalized list is normalized to itself, since no interface has the wildcard address.
* `AssignAlwaysReplaces`, `ShmOnlyAsFallback`: `assign` on any two lists without duplicates, and the place of the shared-memory default.

**InterfaceScanProofs.** `MacsAnswered` proves `MacsAnswerForTheScan` for any host and any changes of it, from `MInv`: while the call runs, the vector is what it
was before and what was asked about, each once (`GrownByAsked`), and the entries of the scan name interfaces
(`AskedInOrder`), which `ScansFindDevices` has from what a scan is, whatever the order. `ScanReaches` says
that an enumeration of the host in any order leaves the same set after the filters. From it follow `ScanTypeCorrect` and the action properties
`ListsAnswer` and `WildcardsExpand`.

**LocatorPartsProofs.** The properties speak of every call that could come next on the locator there is, and so the type is the only
inductive invariant (`LocatorTypeCorrect`): what remains is about the functions. `PutWrites` says what a setter leaves in each of the 16 octets, also
when its text ends half-way; `PartsStayApart`, `AllPartsAreSet`, `CreatedAlike`, `AnswersAlwaysAgree` and `PrintedBuildsAgain` compare places.
`PortArithmetic` takes the port of 32 bits apart, for `PortHalvesStayApart`. `OrderAlwaysAgrees` proves that `operator<`, a comparison of memory, is a total order that agrees with
`operator==`, for any locators to compare with: it is transitive (`BeforeIsTransitive`), two different memories have one first difference (`FirstDifference`, `OneFirstDifference`), and the memory determines the locator (`MemoryTells`), integers in
little-endian bytes and all.

**SendQueueProofs.** `SendTypeCorrect` proves that each request belongs to a call that was made and goes to a destination of the sender's kind.
`SentOnceAndInOrder` is inductive with the type: what was passed on followed by what waits is what the calls asked for, chained. `NothingOvertakes` is the step that
matters: a prefix goes to the kernel at once only if nothing waits. `SendersAreOutboxes` is the refinement without its liveness: `Spec => Out!Safety`. `Init` maps to the
empty outboxes and each `Send`, `Flush` and `WriteBuffer` to a step of `Outbox` or a stutter. `OutboxSpec`, which TLC checks, adds that outboxes empty.

**Ipv6TextProofs.** The module finds what `setIPv6` and `IPv6isCorrect` compute from counts of colons, for texts that may be of any length.

* `EveryNotationIsRead`. A text with `p` quartets before and `q` after `::` has its colons and quartets at known places (`Spot`, `ColonsBetween`), and so
  the constants of the code give a block of `8 - p - q` groups at place `p` (`BlockSize`; one less for a zone behind a trailing `::`, where the read that fails at the zone gives the missing zero). Every
  notation of every address of eight 16-bit groups has that shape and is accepted and read as that address.
* `AcceptedTextsAreMeant` is the converse: what is accepted and has a `::` is a notation of what is read. An accepted text alternates between quartets and colons
  on both sides of its one `::` (`TurnsBefore`, `TurnsBehind`, `AcceptedIsShaped`), of at most seven quartets. The inductive invariant is the type and `Spaced`: two quartets are
  never side by side, since a text cut at its colons cannot have that. Without it the checks alone would let them through.
* `PrintedAsRfc`: the loop over the groups has, after each, the first of the largest blocks of zeros ended so far (`ScannedTo`,
  `LargestKeeps`, `ScanGoesOn`). So `toIPv6string` collapses the first of the largest blocks of two zeros or more (`ScannedIsBest`). What is written is
  chained from the pieces of the groups (`WrittenWhole`, `WrittenAround`), and is the notation around that block.
* `AddressTypeCorrect`: no text gives anything but eight groups of 16 bits.

**DeliveryProofs.** `DeliveryImplementsChannels` shows that a step of `Delivery` is a step of `UdpChannels` or leaves it alone, so
that `IInv` and all the theorems above hold with datagrams in flight. `DInv` adds to `IInv` what the four invariants of the run need. (`OverlapsAreShared` of `IInv` gives `NobodyInterceptsUnicast`: a receiver of a unicast address does not allow reuse, so that its socket is the
only one bound there, also beside sockets of failed joins and of senders.)

* `BufferedWhereBound`: a socket holds only what was sent to the address and port it is bound to, or to any address if it is bound to the
  wildcard; and a unicast datagram is only in the socket of whoever listened for it when it was sent (`TakersListened`). No step rebinds a socket, so that it stays true;
* `ConsumedWhereHeld`: only a receiver that was returned has consumed anything. Those are the first of their locator, so that no two of a locator have;
* `InOrder`: what a receiver has consumed, followed by what its socket still holds, is increasing. The invariant without the buffer would not be
  inductive.

From it follow `DeliveryTypeCorrect`, `NoInterception`, `NoMisdelivery` and `OnceAndInOrderForEach`, the invariants of the run `delivery`.

**Only model-checked.** `ArrivalsAreConsumed` of `Delivery` and the second half of `OutboxSpec`, that each outbox empties in the end: liveness under fairness is out of
the prover's reach. The statements that runs find violated need no proof. The wrong definitions (`Mut`) are of use to TLC only.

## 5. What the models assume

* One thread. A handler touches nothing after the callback it calls. A callback does not register another one on
  the receiver that is running it.
* uvw: `on<>` replaces the handler; a bind address that is none of the host's fails; a socket binds once. Kernel:
  two sockets may share an address and port only if both allow reuse, the wildcard overlaps every address, and join
  may fail. A sender that was not bound gets a port from the kernel when it first sends; since no receiver can be
  asked for that port in advance, this is left out. Port 0 is not used as a channel.
* Kernel, receiving: a unicast datagram goes to one of the sockets bound to its address and port, if there is none to one bound to
  the wildcard; a multicast one to any set of those bound to the group or the wildcard (`IP_MULTICAST_ALL`). Any datagram may be lost on the way, none is
  duplicated or overtakes another on the way to a socket. What reaches a socket that is not read counts as lost.
* In `Delivery` a send passes the datagram to the kernel in the call. That waiting in libuv changes neither number nor order is `SendQueue`.
* `getifaddrs` lists in any order, and takes its picture of the host at one moment; `getnameinfo` fails for the same addresses
  each time; a socket that `getAllMACAddress` leaves open stays open. An interface keeps its MAC address: one that is replaced by another of
  its name with another MAC address is not modelled.
* libuv tries a datagram at once when its queue is empty, and otherwise sends in order from the loop. The
  address a UDPv6 sender passes is made from the last four octets, as for UDPv4; which address that is has no
  bearing on `SendQueue`, and `Delivery` models it: such a datagram reaches whoever is bound to that IPv4 address.
* Destinations of one call are distinct, as `push_back` sees to.
* In `TransportRegistry` the interfaces do not change within one call, and no interface has the wildcard address.
* A zone has no colon and does not begin with a hexadecimal digit. Texts of IPv4-mapped addresses are not modelled.
* The machine is little-endian.

## 6. What is not modelled

* `getIPv4Address` and `getIPv6Address`, which nothing calls, and the variants of `IPFinder` for Windows and QNX.
* The transport behind a shared-memory descriptor, which the application would bring.
* `shutdown`, `update_network_interfaces`, buffer sizes, the white list and the time limit of `send`: the code stores or
  computes them and nothing reads them.
* `TCPReceiverResource` is an empty class; the example program only makes the calls that `UdpChannels` interleaves;
  descriptors are their kind, their size and whether they create a transport.
* `remote_to_main_local`, which nothing calls.
* A sender used after its factory is gone: its lambda calls a destroyed transport, and what that does is not defined. `Transmit`
  requires the factory. For receivers `transport_outlives` shows the same order of calls.
* `register_receiver` from inside the callback it replaces: what happens is up to `std::function`.

## 7. Plan

Written, in this order because the channels carry most of the risk: `UdpChannels` with its abstract
`ChannelDirectory` and proofs; `LocatorLists` and `TransportRegistry` with proofs; `Ipv6Text`; `SendQueue`; `LocatorParts`;
`Delivery` on top of the channels, with proofs; `InterfaceScan`; `Outbox` and its refinement; `ListTheorems`, and with them the proofs of the five modules that rest on it.

What is left:

1. State as a theorem that a second receiver of a unicast locator is refused, which follows from `UnicastChannelsExclusive`.
2. Share the lemmas on sequences of `Ipv6TextProofs` that are about any sequence (`Follows`, `Enumerates`) through `ListTheorems`, and shorten the scan of `AcceptedIsShaped`.
3. Liveness stays with TLC.
