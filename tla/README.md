# A verification of sponge (Lab 0)

TLA+ models of the `sponge` networking library as it stands at this commit: the
byte stream, the buffers behind it, the event loop, the file descriptors, the
sockets, the addresses, the checksum, the packet parser and the `webget` program. TLC
checks the models on small instances, and TLAPS proves every safety property of these
runs for every value of the parameters. `PROJECT.json` lists every run, the source lines
each definition models, the hazards the properties are aimed at, the findings and the
theorems.

## 1. Inventory

| Component | State | Operations | Talks to |
|---|---|---|---|
| `ByteStream` | `dataStream` (a `BufferList`), `cap`, `writeByte`, `readByte`, `_end_input`, `_error` | `write`, `peek_output`, `pop_output`, `read`, `end_input`, `set_error`, accessors | calls `BufferList`; one writer and one reader call it |
| `Buffer`, `BufferList`, `BufferViewList` | shared string and offset; deque of Buffers; deque of string views | `remove_prefix`, `append`, `size`, `concatenate`, `as_iovecs` | used by `ByteStream`, `FileDescriptor::write`, `NetParser` |
| `FileDescriptor`, `FDWrapper` | shared pointer to a wrapper: `_fd`, `_eof`, `_closed`, two service counts | construct, `duplicate`, move, destroy, `close`, `read`, `write`, `set_blocking` | system calls; base of all sockets; duplicated into event-loop rules |
| `EventLoop` | `_rules`: descriptor, direction, three callbacks | `add_rule`, `wait_next_event` | poll(2); calls the application back; reads the descriptors' flags and counts |
| `InternetChecksum` | `_sum`, `_parity` | `add`, `value` | called on headers and payloads |
| `NetParser`, `NetUnparser` | a `Buffer`, a `ParseResult` | `u8`, `u16`, `u32`, `remove_prefix`, `set_error`; the unparser's `u8`, `u16`, `u32` | `Buffer` |
| `webget` | one `TCPSocket` | `get_URL`, `main` | socket, resolver, server |
| `Socket`, `UDPSocket`, `TCPSocket`, `LocalStreamSocket` | those of `FileDescriptor` | constructors, `set_reuseaddr`, `bind`, `connect`, `listen`, `accept`, `shutdown`, `recv`, `sendto`, `send` | system calls, `Address`; served by event-loop callbacks, which their service counts are for |
| `StreamReassembler` | none yet: a placeholder | none yet | would own a `ByteStream` |
| `Address` | a `sockaddr_storage` and a size | construction from a lookup, a sockaddr or a number; `ipv4_numeric`, `==` | resolver; sockets |
| `TunTapFD` | that of `FileDescriptor` | a constructor with an ioctl | kernel |
| hexdump, random, clock | none that changes | formatting, entropy, time | C library, kernel |

What is hard, and what makes each part correct:

* **Byte stream.** Not concurrent, but long sequences of legal calls matter:
  requests longer than the contents, writes into a full stream, writes after the
  end, a pop that throws half way. Correct means: bytes come out in the order they
  went in, each once; never more than the capacity is held; the counters say where
  the reader and the writer are.
* **Buffers.** A prefix may end inside a Buffer, on its boundary, or span Buffers
  and empty Buffers. Correct means the list behaves as the string it stands for,
  and gives its memory up.
* **File descriptors.** Copies, moves and exceptions decide when the last
  reference goes; the kernel reuses numbers at once; close(2) may report an error
  after it has released the number. Correct means: no leak, no early release, and
  no call that reaches somebody else's file.
* **write().** writev(2) takes what it likes, waits, fails; the peer reads or goes
  away between turns. Correct means nothing lost or repeated, a true result, an end.
* **Event loop.** Readiness is a snapshot; peers, the kernel, the application and
  the callbacks change the world between set-up, poll(2) and each callback, and
  callbacks may change the rules themselves. Correct means: the two cursors stay in
  step, callbacks are earned, a rule leaves through exactly one `cancel()` and not
  before its data is read, and no rule starves.
* **Sockets.** The network loses, repeats and reorders datagrams; a datagram may be
  longer than the caller's buffer; descriptors run out; a constructor throws when it
  already owns a descriptor; a call that throws in a callback may or may not have
  been counted as service, and on that the life of the event loop depends. Correct
  means: what is received is what was sent, answers reach the sender, nothing leaks,
  waiting clients are accepted.
* **Checksum, parser and addresses.** Boundaries: odd pieces, a full accumulator, carries of
  carries, a packet that ends inside an integer, byte orders.
* **webget.** A server that ends or resets at any moment.

## 2. The modules

| Module | Models | Uses |
|---|---|---|
| `ByteStream` | `class ByteStream` over a plain string: the specification of the component | |
| `Buffers` | the three buffer classes as operators on values | |
| `BufferedByteStream` | `class ByteStream` over the list of Buffers; implements `ByteStream` | `Buffers`, `ByteStream` |
| `ByteStreamProofs` | theorems about `ByteStream` | `ByteStream` |
| `BuffersProofs` | induction over lists; what the operators of `Buffers` compute | `Buffers` |
| `BufferedByteStreamProofs` | the refinement, and theorems about the list of Buffers | `BufferedByteStream`, `BuffersProofs`, `ByteStreamProofs` |
| `FileDescriptorProofs`, `FdWriteProofs`, `EventLoopProofs` | theorems about the module of that name | that module; `FdWriteProofs` also `BuffersProofs` |
| `SocketsProofs` | theorems about `Sockets` and about its client `WebGet` | `Sockets`, `WebGet` |
| `HeaderProofs` | theorems about what reads and writes packet headers: `NetParser`, `Addresses` and `InternetChecksum` | `NetParser`, `InternetChecksum`, `BuffersProofs` |
| `FileDescriptor` | handles, wrappers, the kernel's table of numbers | |
| `FdWrite` | one call of `FileDescriptor::write`, and the peer | `Buffers` |
| `Sockets` | a server with a UDP socket and a listening TCP socket in an event loop: composes the sockets with the loop's busy-wait test | |
| `Bytes` | the size of a byte, which is a parameter, and of the numbers made of bytes | |
| `Addresses` | `class Address` as operators on values | `Bytes` |
| `EventLoop` | `_rules`, `wait_next_event()`, the application, the peers | |
| `InternetChecksum` | the checksum against a word-wise reference | `Bytes` |
| `NetParser` | unparsing, truncation, parsing, addresses made of what was parsed | `Buffers`, `Addresses` |
| `WebGet` | `get_URL()`, `main()` and a server | |
| `MCByteStream`, `MCFileDescriptor` | symmetry sets for TLC | |
| `MCEventLoop` | the rules of the instance that TLC checks | `EventLoop` |

Some modules also hold variants of a definition, placed just before it and named
for what is wrong with them (`ReadLengthAsked`, `RemoveStepDropsTheRest`).
Nothing uses them: they are the mutants that `PROJECT.json` pairs with the
properties, to show that each property can tell a plausible bug from the code.

### How the state and the actions correspond to the code

**ByteStream.** The variables are the members of the class. `accepted`, `removed`
and `dropped` are histories: what `write()` accepted, what left the front, and how
many of the latter left in a `pop_output()` that then threw. `ret` is what the last
call returned. Each public operation is an action that the caller may take at any
time. `peek_output(len)` copies `len` bytes from the concatenated string without
looking at its length, so past the end the result is any byte. `pop_output(len)`
with `len` too large empties the list and throws before it counts.
`remaining_capacity` subtracts modulo `SizeMod`. `BufferedByteStream` has the same
actions over a sequence of Buffers and shares the histories.

**FileDescriptor.** A handle is a `FileDescriptor` object, a wrapper an `FDWrapper`.
The `w`-th file the kernel opens gets wrapper `w`. `table` is the kernel's: a freed
number goes to the next file, lowest number first. `touched` records which file the
last call or destructor reached, and through which wrapper; `lapsed` whether any call
has followed a `close()` of its descriptor or any `close()` has failed. Dropping the
last handle runs the destructor (`Destroyed`) in the same step. `Adopt` is the
constructor of a `Socket` from a descriptor, which takes it over before it tests it and
may throw then; `TunTapFDThrows` the constructor whose ioctl fails after the device was
opened. Both leave it to the destructor what becomes of the descriptor.

**Sockets.** `pc` is where the server's thread stands: the calls that set it up, the
loop, or inside a callback. The calls are those of `doctests/socket_example_1.cc` and
`socket_example_2.cc`; the code around them (which rule, what a callback catches) is
the application's. `recv()`, `connect()`, `sendto()`, `send()` and `accept()` are
actions of their own, because datagrams and clients arrive between them.
`CallbackReturns` is the test `wait_next_event()` makes after a callback: without a
change of the service count it throws, and the server ends. `datagram` is the caller's
storage, used again from one `recv()` to the next: its payload is resized before the
system call (`Prepared`), which fills it as far as it goes (`Filled`), and its source is
assigned and the payload cut after it, so a call that throws leaves a mixture behind. Of
the payload the model keeps its length, the datagram its bytes are from, and how many of
that datagram's bytes it holds. `Destroyed` is what is left open when socket objects go
out of scope: a constructor that throws and the end of the server both come to it. Only the counts of reads are kept: all the
rules here read. A UDP socket sends a datagram whole or fails, so the test on the number
of bytes sent never throws; `shutdown()` with an invalid `how` is refused by the kernel
first, which is one of its failures. An error that poll(2) itself reports ends the
loop in `EventLoop`.

**Addresses.** An address is its memory, cut down to a byte for the family, one for
the port and four for the number. What a byte counts in a number (`Weight`) is written
out as a product in `Bytes`, because the provers know no powers.

**FdWrite.** One action is one turn of the loop: writev(2), `register_write()`,
`remove_prefix()`, the count, and the loop's condition. writev(2) may take nothing of
a buffer that has bytes, on which `write()` throws. Between two turns the peer may read
or go away.

**EventLoop.** `wait_next_event()` is cut where another actor can intervene: at each
rule of the set-up loop, at poll(2), at each rule of the dispatch loop. Everything
from one cut to the next is one action: running a rule's `cancel()` and erasing the rule,
or a callback with the busy-wait test behind it. A `cancel()` that throws leaves the
rule where it is. A callback serves its descriptor, throws, or does not serve it; it
may also close a descriptor and change a rule's interest or add a rule, and so may a
`cancel()`. `close()` may fail with the number released and the flags as they were
(`CloseFdFails`). `added`, `cancels` and `ran` are histories: the rules ever added, how
often each was cancelled, and the callbacks and cancels of the current call. The entry past the end of `pollfds`, which the dispatch loop
reads for a rule added under it, is any entry. A service count is read just before
and just after a callback, so the model keeps only whether the callback served the
descriptor. Descriptor numbers are not reused in this module.

**InternetChecksum.** A byte has `B` values, a word `B^2`, the accumulator `B^4`: the
code is the case `B = 256`. The reference adds complete words in one's complement; the
initial sum is any number that the accumulator holds, and stands for its two words.

**NetParser.** `unparse` builds a string from integers; `NetParser(n)` starts a parser
on its first `n` bytes, which `arrived` remembers; then integers are read, bytes skipped
and errors set or cleared (`set_error(NoError)`) in any order. Four-byte integers are
also made into addresses.

**WebGet.** Each statement of `get_URL()` that can block or throw is an action. An
exception, of the last `close()` too, ends in `main()`'s handler. The lookup keeps the first
result only. `cout` is the state of standard output, which the code never looks at.

## 3. The runs

| Run | Checks | Shows |
|---|---|---|
| `byte_stream` | `WithinCapacity`, `StreamOrder`, `Accounting`, `ReadReturnsTheSlice` | any mix of calls keeps the bytes in order, within the capacity and accounted for |
| `buffered_byte_stream` | `ImplementsByteStream`, `OnlyTheFrontIsPartlyRead`, `RetainedWithinTwiceCapacity` | the list of Buffers is the stream, and retains less than twice its capacity |
| `file_descriptor` | `LiveWhileReferenced`, `NoLeak`, `OpenWhileReferenced`, `OwnFileOnly` | reference counting is right even for callers that close twice and a close(2) that fails; without those, a number in use is never closed or given away, and no call ever reaches another file |
| `fd_write` | `NothingLostNothingTwice`, `ResultTellsTruth`, `WriteEnds` | `write()` against every way to cut the data |
| `event_loop` | `EntriesMatchRules`, `CancelledExactlyOnce`, `CallsAreEarned`, `CancelLosesNoData`, `ReadyRuleIsServed`, `FinishedRuleIsCancelled` | the cursors stay in step, also when callbacks add rules; callbacks run on their own readiness; no rule leaves without its one `cancel()`; no data is lost to a hangup; no starvation; finished rules go |
| `sockets` | `ReceivedAsSent`, `AnswersGoToTheSender`, `WaitingIsAccepted` | datagrams are handed over whole, whatever the storage held before, and answered to their senders; clients are accepted although descriptors run out and constructors throw |
| `internet_checksum` | `ValueIsTheChecksum`, `ChecksumVerifies` | the checksum is right however the data is cut and whatever the initial sum, up to the limit of the accumulator |
| `net_parser` | `RoundTrip`, `NeverPastTheEnd`, `ErrorStops`, `AddressHoldsThePacket` | parsing inverts unparsing; truncation is safe; addresses keep the packet's byte order |
| `webget` | `SuccessMeansEverything`, `WebGetEnds` | success only for a complete answer, and an end |

`byte_stream`, `event_loop`, `file_descriptor` and `sockets` also check their module's type
invariant, `TypeOK`.

Three runs end in a counterexample, on purpose: each states what a comment of the
repository says, and TLC shows that the code does otherwise. The findings in
`PROJECT.json` quote the comments.

| Run | The comment | The code |
|---|---|---|
| `byte_stream_bytes_read` | `bytes_read()` is the number of bytes popped | a throwing pop discards without counting |
| `event_loop_add_in_callback` | callbacks are called for ready descriptors | a rule added by a callback is dispatched on memory past `pollfds` |
| `event_loop_poll_fails` | an error of poll(2) throws, and `Success` means "At least one Rule was triggered" | any error but EINTR is dropped, and the call returns `Success` with nothing triggered; the hangup of a rule without interest has the same effect, call after call |

Other places where the code departs from its comments are part of the models, and
the properties above are stated to hold with them:

* `ByteStream::write()` does not test `_end_input`, so bytes may follow the end ("no
  more bytes can be written"), and `eof()` may turn false again;
* `interest()` is asked once per call, in the set-up loop. A `cancel()` that runs later in
  that loop may make a rule interested that already has its placeholder; poll(2) then
  waits for the other rules, and this one waits with it, ready or not. `ReadyRuleIsServed`
  therefore counts a rule as waiting only if the call in progress has not refused it;
* a `cancel()` that throws leaves a rule behind that has been told it was cancelled
  (`CancelledExactlyOnce` names this case);
* a call whose dispatch loop cancels the last rule returns `Success`, not `Exit`;
* a callback runs on a descriptor that an earlier callback of the pass has closed;
* `write()` of more than `IOV_MAX` pieces is refused as a whole, also on a blocking
  descriptor;
* after a close(2) that reported an error the number is free although `_closed` ("Flag
  indicating whether FDWrapper::_fd has been closed") is false, so the destructor closes
  the number again, which may be another file's by then. `OpenWhileReferenced` and
  `OwnFileOnly` speak only of runs without such a failure; `NoLeak` of all;
* a callback that catches what `recv()` throws, for an oversized datagram or a failed
  system call, is taken for a busy wait, and so is one whose `shutdown()` fails or shuts
  the other direction; the comment of `wait_next_event()` announces this. One that catches
  what `accept()` throws is not, because `accept()` counts first;
* webget's exit code is 0 when standard output fails (`SuccessMeansEverything`);
* `as_string(ParseResult::Unsupported)` reads past its table (not modelled).

### Bounds

* Byte stream: capacity 2, requests and writes of up to 3, 5 bytes accepted in all.
  Requests reach past the capacity, the stream fills and drains more than twice, and
  a throwing pop is followed by further use. The theorems remove these bounds.
* Buffered stream: capacity 2, strings of up to 2 bytes, 4 bytes in all, 3 Buffers:
  a prefix ends inside a Buffer, on a boundary, and across an empty Buffer.
* File descriptors: 3 handles, 2 numbers, 3 files. The third file must reuse a
  number, a wrapper has up to three references, and the table can be full. Service
  counts are taken modulo 2: no property here is about more than their wrap-around.
* `write()`: up to 3 pieces of up to 2 bytes, of which writev(2) accepts 2 pieces and
  has room for 2 bytes: the largest lists are refused, the others need several turns.
* Sockets: two senders with datagrams of no bytes, of exactly the mtu and of one byte
  more, a queue of two, so that one datagram waits while another is handled; two clients,
  both of which may be in the queue, and a third descriptor for one of them at a time, so
  that `accept()` meets a full table. Datagrams and clients come again without bound.
* Event loop: a socket and the reading end of a pipe, and three rules, which read the
  socket, write it and read the pipe; one chunk of data in flight, and an interest that
  changes for the writer only. Two rules share a descriptor and the third has its own, so
  one rule's callback, cancellation or addition disturbs another on the same and on the
  other descriptor; a pipe is what reports a hangup without data. Each rule is added at
  most once, by the application or by a callback, in any order. The same run checks safety
  and progress (365,000 states).
* Checksum: `B = 4`, 16 bytes and initial sums up to 135, exactly as much as fits the
  accumulator (135 + 8 * 15 = 255): with 136 TLC finds a dropped carry. For `B = 256` and
  an initial sum of one word the same limit is 128 KiB.
* Parser: `B = 2` and 5 bytes: a 4-byte integer and more, cut anywhere.
* webget: 6 chunks, of which one `read()` takes up to 2.

`CHECK_DEADLOCK FALSE` stands where the system really stops: the loop after `Exit` or
an exception, the server of `Sockets` after an exception, `write()` and `webget` after
their return, and the descriptors once the bound on the number of files is used up.

Symmetry is used in two safety runs, over bytes and over handles, neither of which any
definition orders or chooses from; no liveness run uses it.

### Fairness

* Event loop: weak fairness of `Loop`, the loop's own steps: `wait_next_event()` is
  straight-line code between its system calls, and the application calls it again, as the
  class is meant to be used, until it returned `Exit` or threw. Strong fairness of
  `PollReady`: poll(2) does not fail, by an error the code drops, every single time a
  descriptor is ready. Nothing is assumed of peers, timeouts, signals and the
  application's other steps.
* `write()`: the calling thread runs when writev(2) can return, and a peer that stays
  keeps reading. The peer may go away instead, and nothing is assumed of signals.
* Sockets: the server's thread runs; the rule of the listening socket is not passed over
  for ever when it is ready again and again (strong fairness, which is what
  `ReadyRuleIsServed` establishes for the loop); and the server closes every connection
  some time, as a server must. Nothing is assumed of senders and clients.
* webget: the client runs when it is not waiting, and the server ends the connection
  in the end, which the request's `Connection: close` asks for. It may reset instead.

## 4. The proofs

Every invariant that a passing run checks has its theorem; so have the two action
properties of the event loop, the one of the parser, and the refinement of the byte
stream. A theorem holds for every value of the constants that satisfies the module's
`ASSUME`; TLC evaluates the same `ASSUME` on every run. Each proof is built alike: an
inductive invariant (`IInv`, or a name of its own where a module holds several), a lemma
that it holds initially, one lemma per action that it is kept, and for each property the
step from the invariant to it.

### Assumptions

| Module | Assumed of the constants |
|---|---|
| `ByteStream` | the bounds are naturals, the capacity is a `size_t` |
| `BufferedByteStream` | the same, and a null `_storage` is not a string |
| `FdWrite` | the bounds are naturals, the kernel's buffer and `IOV_MAX` are not 0 |
| `FileDescriptor` | the bounds are naturals, and "no file" is not a file |
| `EventLoop` | the parameters have their types |
| `Sockets` | the same, and a connection is neither of the two sockets of the server |
| `WebGet` | the bounds are naturals, and one `read()` takes at least one chunk |
| `Bytes` | a byte has at least two values |
| `NetParser` | the bound is a natural, and a null `_storage` is not a string |
| `InternetChecksum` | the bounds are naturals, the initial sum fits the accumulator; in the theorems only, `MaxInitial + Carry * ((MaxAdded + 1) \div 2) < SumMod` |

That null is not a string, that no file is not a file, and that connections are not
the server's own sockets say only that the names a model gives to distinct things are
distinct.

The limit of a checksum is not an assumption of the model but the hypothesis of its two
theorems: the largest initial sum and as many words of all ones (`Carry`) as there may be
fit in the accumulator. Beyond it they are false, because `add()` never folds and the
32-bit sum drops a carry. For `B = 256` and an initial sum of one word the limit is 2^16
words, 128 KiB, twice the longest IP datagram. The run `internet_checksum` stands exactly
at the limit for `B = 4`.

`WebGet` is reasoned about in `SocketsProofs` and `InternetChecksum` in `HeaderProofs`, next
to the module each belongs to; their specifications are therefore called `WebSpec` and
`ChecksumSpec`, and no name is shared.

### Byte stream (`ByteStreamProofs`)

`TypeCorrect`, `CapacityHolds`, `OrderHolds`, `AccountingHolds` and `ReadsAreSlices`
state the five invariants of the run. `IInv` is the conjunction of the type
invariant with `WithinCapacity`, `StreamOrder`, `Accounting` and `ReadReturnsTheSlice`.
They need one another. That a write keeps within the capacity depends on the capacity
not having been exceeded before, or the unsigned difference would have wrapped. That
`read()` returns the next slice of the accepted bytes depends on the order of the bytes
and on the counters being the lengths of the histories. A few facts about sequences
carry the argument: cutting a string and joining the parts gives it back, and what
follows a prefix of known length is a known slice.

### Lists of Buffers (`BuffersProofs`)

The loops of `BufferList` and `BufferViewList` are folds, so what they compute takes
induction over lists, and the induction theorems of the library take an operator, which
the provers cannot instantiate. The module therefore proves induction for *sets*: a set
of numbers with 0 and all successors is `Nat`, a set of sequences with `<<>>` that is
closed under `Append` is `Seq(E)`; a predicate becomes the set of what satisfies it.
From this follow

* that `FoldLeft` and `FlattenSeq`, defined by recursion over sets of indices, behave
  on `<<>>` and on `Append(list, e)` as a loop does (`FoldAppend`, `IterIsFold`, and one
  lemma per operator of `Buffers`);
* `SizeIsLength`, `ViewSizeIsLength`: `size()` is the length of what the list
  concatenates to;
* `RemovePrefixIsRight`, `RemoveViewPrefixIsRight`: `remove_prefix(n)` leaves exactly
  the bytes after the first `n`, wherever the cut falls and however many pieces are
  empty, and is short of exactly the bytes that were missing;
* `RemovePrefixKeepsFront`, `RetainedIsSizeAndPrefix`: only the front Buffer is partly
  consumed, so the memory kept alive is the size of the list and the offset of its
  front.

### The list implements the stream (`BufferedByteStreamProofs`)

`ListImplementsStream` is the refinement: `Spec => Flat!Spec`, where the plain stream's
contents are what the list concatenates to. `InitRefines` and `StepRefines` map the
initial states and every action. `IInv` has what no run states: each Buffer in the
list is live and at most `Capacity` long. `FrontIsPartlyRead` and `MemoryIsBounded` are
the two invariants of the run. `ListKeepsThePromises` carries the theorems of
`ByteStreamProofs` over: capacity, order, accounting and slices hold of the list,
so no boundary between Buffers is ever visible to a caller.

### File descriptors (`FileDescriptorProofs`)

`TypeCorrect`, `ReferenceCountingIsRight` (`LiveWhileReferenced`), `NothingLeaks`
(`NoLeak`), `NumbersStayOpen` (`OpenWhileReferenced`) and `CarefulCallersReachTheirOwn`
(`OwnFileOnly`), for any number of handles, numbers and files. The code relies on a fact
that it states nowhere and that carries all of them: an open file has one number, the one
in the wrapper made for it, and that wrapper is alive and not closed
(`EveryFileHasItsOwner`). `OpenWhileReferenced` is its converse, that a wrapper in use has
its file, and it is where the closing policy matters: a destructor that closes what
`close()` has closed, or that runs while a copy is left, takes a number away from the
wrapper it meanwhile belongs to. That the lowest free number is nobody's
(`NewNumberIsFree`) makes the next file a new one.

### write() (`FdWriteProofs`)

`NothingIsLost` (`NothingLostNothingTwice`) and `WriteTellsTheTruth`
(`ResultTellsTruth`), for any pieces and any sequence of results of writev(2). One turn
of the loop is `RemoveViewPrefixIsRight`. `IInv` adds that the count is the number of
bytes sent, and that a call which returns has nothing left under `write_all` and has
left nothing untouched otherwise (`ReturnedAfterATurn`).

### Event loop (`EventLoopProofs`)

`TypeCorrect`, `ListsStayInStep` (`EntriesMatchRules`), `CancelsAreExact`
(`CancelledExactlyOnce`), and the action properties `CallbacksAreEarned`
(`CallsAreEarned`) and `CancelsLoseNothing` (`CancelLosesNoData`), for any number of rules
and descriptors, with callbacks that add rules or do not. `IInv` follows the two lists
through a call: while `pollfds` is built, its k-th entry is that of the k-th rule
(`SetUpMatches`); in the dispatch loop the entries that are left are those of the rules
that are left, and rules without an entry come last (`DispatchMatches`); rule identities
are distinct (`DistinctRules`), so that erasing one position erases one rule, and every
other rule ever added stays where it was accounted for. What poll(2) reported is old when
it is used: `HangupsLast` says that a hangup it reported is still true, `EofIsTheEnd` that
the flag means everything was read.

The proof found an ambiguity in the model: the cases of a callback's `Serve` overlapped,
so that for a reading rule with data left and a peer that is gone the result was not
determined. The cases are now disjoint; TLC, which takes the first that applies, had
always computed what they now say.

### Sockets (`SocketsProofs`)

`TypeCorrect`, `DatagramsArriveWhole` (`ReceivedAsSent`) and `AnswersArrive`
(`AnswersGoToTheSender`), for any peers, clients, sizes, queues and numbers of
descriptors. `IInv` adds that the socket is connected to the source of the datagram when
`send()` is called (`ConnectedToTheSender`) and that `accept()` is called on a queue with a
client in it (`SomeoneWaits`). `PreparedStorage` and `FilledStorage` follow the caller's
storage through `recv()`: whatever was in it, there is room for the whole mtu before the
system call, so a datagram that passes the size test was not cut.

### webget (`SocketsProofs`)

`SuccessIsComplete` (`SuccessMeansEverything`), for answers of any length.
What was sent is printed or waits to be read (`NothingLost`), and the flag is set only by
a `read()` that found nothing behind the end (`EofIsTheEnd`). `WebInv` is the inductive
invariant.

### Parser and addresses (`HeaderProofs`)

`ParserStaysInside` (`NeverPastTheEnd`), the action property `AnErrorStopsTheParser`
(`ErrorStops`), `ReadsWhatWasWritten` (`RoundTrip`) and `AddressIsWhatArrived`
(`AddressHoldsThePacket`), for every number of byte values, every header and every order
of reads, skips and errors.

`ParserInv` carries the first two: the Buffer is what follows the first `taken` bytes of
the string, up to the place where the packet was cut (`BufferIsTheRest`); it allows for a
Buffer whose storage is gone because it was read to its end. That the parser stays inside
is a fact about the bytes that arrived: it holds of a packet cut anywhere, and does not
depend on the error, which the caller may clear.

`RoundTripInv` adds that every field that was written stands, byte by byte, at its
position in the string (`FieldsWritten`), and that the last integer read is the number its
bytes make in network order (`ReadRight`). The rest is arithmetic, for integers of one,
two and four bytes: the bytes of a number make the number (`ParseUnparsed`), and the
number that some bytes make has these bytes (`UnparseParsed`). The solver does not decide
products and remainders of unknown numbers, so these go back to a few facts about one
division (`DivMod`, `DivDiv`, `Digit`), with every product given a name and hidden. For
addresses, `AddressStorage` follows a number through the two changes of byte order, the
host's and `htobe32()`'s, and `EqualAddresses` shows that comparing the memory compares
the numbers.

### Checksum (`HeaderProofs`)

`ChecksumIsTheChecksum` (`ValueIsTheChecksum`) and `PacketsVerify` (`ChecksumVerifies`),
for every number of byte values and every way to cut the data into pieces. The idea is
`Norm(x)`, the one's complement sum of words that add up to `x`: `x` modulo `WordMod - 1`,
except that only 0 gives 0. The loop of `value()` computes it (`FoldedIsNorm`: each fold
makes the sum smaller and keeps its `Norm`, so by the least counterexample the recursion
gives `Norm`); the reference's addition is `Norm` of the plain one (`PlusIsNorm`); and it
does not matter when carries are wrapped around (`NormPlus`). `Agree` relates the sum, the
parity, the reference and the number of bytes: the reference's words are `Norm` of the sum
without the odd byte, and the sum is at most `WordMod - 1` per word on top of the initial
sum (`MostWords`), from which the accumulator cannot have overflowed (`NoOverflow`). One turn of
the loop keeps it (`OneMoreByte`), so does one call of `add()` by induction over the data
(`OnePiece`), and `ChecksumInv` is that it holds between calls. For `PacketsVerify`,
`AddComplement` shows that adding the complement fills the word and that this last
addition does not overflow either.

### Only model-checked

* The liveness properties `WriteEnds`, `ReadyRuleIsServed`, `FinishedRuleIsCancelled`,
  `WaitingIsAccepted` and `WebGetEnds`: they depend on fairness, which is out of this
  prover's reach.
* `BytesReadIsBytesPopped`, `NoCallPastTheEnd` and `SuccessMeansTriggered`, which the code
  violates: TLC's counterexamples are the findings.

## 5. Not modelled

* `StreamReassembler` is a placeholder at this commit: there is no behaviour.
* The TCP classes, the network interface and the router appear only in tests.
* Of `Address`, the texts: `getaddrinfo`, `getnameinfo`, `ip_port()`, `to_string()`. What a
  lookup may come to is in `WebGet`.
* hexdump, the random generator and the clock keep no state that a property is about.
* `local_address()` and `peer_address()` only read what the kernel knows.
* `BufferList`'s conversion to a single `Buffer` and `Buffer::copy()` are not called by
  the library; texts of exceptions and log output are left out everywhere.
* That every write appends a Buffer, also an empty one to a full stream, has no bound
  in the code: the model bounds the list instead (`MaxBuffers`).

## 6. Where it stands

The models are as complete as the code at this commit allows, and every safety property
of a passing run is also a theorem. What is left is what the code will bring: when
`StreamReassembler` and the TCP classes are written, `ByteStream` is the specification
their output stream has to keep, `BuffersProofs` has the lemmas about lists they will
need, and `HeaderProofs` those about the headers they will parse.
