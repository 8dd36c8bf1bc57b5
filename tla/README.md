# Specifications of cpp_testcode2

TLA+ specifications of the programs in this repository, the TLC models that
check them on small instances, and proofs, checked by TLAPS, of what holds for
every instance.

The repository is a collection of independent programs. They share no code; the
versions of one program (four CFAR filters, three Fractions) share a design. The
ones with the most that can go wrong are modelled first: the sliding-window
filters, whose state must stay right over thousands of cells and several calls;
the thread-safe `Fraction`, whose operations interleave; and the asynchronous
echo server, which manages its own memory under callbacks.

## 1. Inventory

### CFAR filters (`MITLincoln/`)

An ordered-statistic CFAR filter passes a mask `1..1 0..0|0|0..0 1..1` over an
array. Around each cell the mask selects `k` values to the left and `k` to the
right, `l - 1` cells away; the cell's output is the value of rank `floor(p n)`
among the `n` that were selected. Four versions keep the selected values
differently.

| Version | State of the object | Operations |
| --- | --- | --- |
| `candidateTest` | four offsets, the percentile, deques `m_selectLeft`, `m_selectRight` | constructor, `run`, `slideSelectWindow`, `reduceSelectBuffer` |
| `candidateTestNoCopies` | offsets, percentile, one deque of (value, index) pairs, the bounds `m_first`, `m_leftLast`, `m_rightFirst`, `m_last` | the same, and `findSlot` |
| `candidateTestNoCopies2` | the same; the pair is a `struct Entry` | the same |
| `candidateTestTryBetterSpaceComplexity` | a deque of pairs and a map from index to deque iterator | the same; `findSlot` looks in the map |

Each is called by one thread. What is hard is the sequence: which entry leaves
and which enters depends on decisions made many cells before, on the edges of the
array, on the eye of the mask, and on what the last `run` left in the members.
Correct means: at every cell the window holds what the mask selects, each
position once; the value written is one the contract permits; a cell with an
empty window keeps the caller's value; `run` returns.

### Fraction

`fraction.cpp`, `fraction_mt.cpp` and `fraction_bigint.cpp` hold a class template
`Fraction`: an unsigned numerator and denominator, a sign and error flags, with
multiplication by fractions and integers, assignment and comparison.

* *Arithmetic* (`fraction.cpp`). Sequential. The multiplications test for overflow
  and take shortcuts when a factor divides another. Hard: fixed width, zero, four
  combinations of two shortcuts, error flags that must survive. Correct means: the
  result is the product or is flagged; equal fractions have equal members.
* *Locking* (`fraction_mt.cpp`). Each object has a `shared_timed_mutex`; operators
  lock their operands shared or unique, two at a time with `std::lock`. The threads
  of its tests share objects. Hard: lock order, shared against unique, an operand
  that is both sides, constructors that do not lock. Correct means: no data race,
  no half-written fraction read, every operation atomic, every call returns.
* *Big integers* (`fraction_bigint.cpp`). An `Unsigned128` of four 32-bit elements,
  and a `Fraction` of them. Sequential. Hard: carries and borrows that travel from
  element to element, overflow tests made on parts of a product, comparisons that
  must look at the right element. Correct means: the operators compute what they
  compute for integers, modulo 2^128, or say that it does not fit.

### Echo server (`Boost.Asio/async_tcp_echo_server.cpp`)

A `server` owns an acceptor and always keeps one `session` waiting for a
connection. A `session` owns a socket and a buffer: it reads, writes back what it
read, and reads again. `handle_accept`, `handle_read` and `handle_write` are called
by the one thread inside `io_service::run()`. Sessions are allocated with `new` and
`delete` themselves when an operation fails. Hard: handlers of many sessions
interleave; a read or a write may be partial; connections shut down or reset at any
time; a session is freed by its own handler; an accept may fail. Correct means: each
client gets its own bytes, in order, once; no handler runs on a freed session; no
session is leaked; the server never stops accepting.

### Timers (`Boost.Asio/*timer*`)

`async_timer_bind_main.cpp` gives a handler pointers to the timer and to a counter
of `main`; until the counter has reached five the handler arms the timer again, one
second after the *last expiry*. `async_timer_main.cpp` waits once for a handler,
`sync_timer_main.cpp` blocks. Hard: handlers called late, the handler's last wait,
pointers into `main`. Correct means: the schedule does not drift, every call is
made, and none after `run()` has returned.

### epoll reader (`epoll/epoll_example.c`)

A loop that waits for standard input, reads at most ten bytes and ends when they
start with the line `stop`. State: the descriptor, `running`, the event count, the
buffer. Hard: lines that arrive in parts or together, reads that fail and leave the
buffer as it was, interrupted waits, the end of the input. Correct means: only what
was just read ends the loop, and only if it starts like the line `stop`; a terminal's
`stop` always ends it; the descriptor is closed.

### TCP client and server (`epoll/simple_tcp_client.c`, `simple_tcp_server.c`)

The server accepts one connection, reads once, writes an answer and returns. A
client connects, asks its user for a message, writes it, reads once and prints.
Hard: one read may return a part; a process that ends with bytes unread resets the
connection; other clients wait in the backlog; both may wait for each other.
Correct means: who is answered was read from, a message read whole is answered, and
no program waits for ever but for its user.

### Small algorithms

`heap.cpp`, `merge_sort.cpp`, `lookAndSay.cpp` and `desktop_calc.cpp` each compute
one result from one input. `dijkstra.cpp` builds a graph and holds no search;
`quick_sort.cpp` is a stub; `epoll_sample.c` is a fragment that does not compile;
`Python3.MyMath` and `Python3.MyModule` parse arguments for a C extension.

`PROJECT.json` lists all of them with what is modelled, and every hazard with the
properties that watch it.

## 2. Modules

```
CfarContract           which positions, which values: pure definitions
  CfarInputs           what a caller may pass
    Cfar               the promise of run(), without an algorithm
    CfarRun            the loop of run() and reduceSelectBuffer(), common to all versions
      CfarDeques       candidateTest                       --refines--> Cfar
      CfarBuffer       candidateTestNoCopies, ...NoCopies2 --refines--> Cfar
      CfarIndexMap     candidateTestTryBetterSpaceComplexity
      CfarRunProofs    what the proofs of the versions share
        CfarDequesProofs, CfarBufferProofs, CfarIndexMapProofs

FractionOps            the operations threads call
  FractionAtomic       the promise: every operation takes effect at one moment
  FractionMt           fraction_mt.cpp: locks, reads, writes  --refines--> FractionAtomic
FractionArith          the arithmetic of fraction.cpp: pure definitions
  FractionCalc         a program that calls it
FractionProofs         of FractionMt and of FractionCalc

Unsigned128            the big integers of fraction_bigint.cpp and their operators
  Unsigned128Proofs

Echo                   the promise of the echo server
EchoServer             handlers, operations, sockets and clients --refines--> Echo
  EchoServerProofs

EpollReader            epoll_example.c and who types for it
TcpPair                the TCP server, its clients, connections and users
Timers                 the three timer programs
Sorting, Stacks        heap and merge sort; look-and-say and the calculator
  Algorithms           one of them run on one input
SampleProofs           of EpollReader, TcpPair, Timers and Algorithms
```

`FractionProofs` and `SampleProofs` extend modules that have nothing to do with each
other, which is why names like `Next` are qualified in some of these (`CalcNext`,
`ReaderNext`, `TimersNext`, `AlgorithmsNext`).

`MC*` modules hold the small instances; each `.cfg` is one run. In the modules,
a definition that a comment calls a *mutant* is a slip a programmer could have made
in the definition after it; it is part of no specification. `PROJECT.json` pairs
each with the property that fails when it takes the place of the definition.

### CFAR

`CfarRun` gives `run()` a program counter: `enter` (is the mask too wide?), `slide`
(`slideSelectWindow`), `reduce` (`reduceSelectBuffer`), `advance` (`++idx`).
The constructor is part of `Init`; calling `run` again with another array is the
action `Run`. `CfarDeques` and `CfarBuffer` say what each step does to the window.

* A buffer holds copies of input values; in the models it holds the positions they
  were read from. The caller's array does not change during a run, so the value is
  `input[position]`, and the models can tell which cell an entry came from.
* `std::nth_element` is its postcondition: any value that can be at that index.
  It permutes the single deque of `CfarBuffer`; nothing there depends on the order
  (slots are found by index), so the model keeps the order of insertion.
* A percentile is an exact fraction; the rounding of `double` is left out.
* `k` and `l` are positive, as `SimpleOrderedStatisticCFARAlgorithm.tex` says.
* `output` starts as `Unset` in every cell: what the caller passed in.
* The bounds of `CfarBuffer` have no initialiser; `Unread` stands for what they
  hold before the first cell of a first run, and `TypeOK` says no step reads it.

`CfarIndexMap` is below the level of C++: the map keeps iterators, the deque moves
its entries, and using an iterator after that is undefined. The module is what
libstdc++ does while the deque fits one node: a deque is a range of slots, an
iterator is a slot, `insert` and `erase` move the entries on the shorter side, and
`nth_element` leaves any order it may, chosen anew at each reduction. What an
iterator leads to is then a definite slot, though seldom the entry it was made for.
The loop of the initial fill, which pushes to the front only, is written as its
result (`Filled`).

### Fraction locking

In `FractionMt` a thread is at `lock` (blocked, or trying the other lock),
`readNum`, `readDenom`, `writeNum`, `writeDenom` or `unlock`. `Locks` says of every
operator of `fraction_mt.cpp` which operand it locks, and how. What an operator computes
between its reads and its writes is not in this module. `std::lock` is external: it blocks on either lock, tries the other one, lets go on failure. The
members that are not `num_` and `denom_` (sign, flags) are accessed under the same
locks and would behave as those two do. A value is the number of multiplications
that went into it, enough to see one lost, repeated or halved.

### Fraction arithmetic

`FractionArith` computes what the operators compute, for integers of any width
(`MaxVal`). `Gcd` is a function that recurses over pairs (`Euclid`), as the C++
function does over its arguments. `MultiOverflow` divides by both its arguments: by 0 that is undefined
behaviour, and the outcome is a choice between a `Crash` and the product, which
fits. (gcc at `-O2` may or may not execute that division.) `Abs` is `std::abs`, but
for the smallest integer, for which that is undefined and which is not among the
integers of an instance. `FractionCalc` builds
fractions from small integers and calls operators in any order.

### Big integers

`Unsigned128` has the operators of the class as definitions, for elements of any
width (`Base`), and a program that holds two numbers and applies them. A carry is
what an addition leaves above an element (`High`), a borrow the flag of `operator-=`
(`Less`). `operator/=` and `operator%` look for the highest element that is not 0
from the top *upwards* (lines 470, 477): with a 0 at the top they read past the array, and
what becomes of the number is `Undefined`, after which the model says nothing of it;
`QuotientNeverShort` says exactly when that is.

### Echo server

`EchoServer` has one action per handler and outcome (`HandleRead`,
`HandleReadFailed`, ...), one per way an operation completes (`Receive`, `WriteSome`,
...) and one per thing a client does. An operation is in `pending` until it
completes; its handler then waits in `ready`, the queue of `run()`. `Sessions` are
the addresses `new` returns: an address is used again after `delete`. Destroying a
socket cancels what is pending on it. Boost.Asio, the network and the clients are
external; a connection carries `Window` bytes each way.

### epoll, TCP and timers

`EpollReader` has a program counter at each system call. A byte is `x`, the end of a
line, or `stop`, the four letters at once; all that the loop looks at. A terminal
hands over a line at a time, a pipe whatever is there, a file is always refused by
`epoll_ctl`, which may fail for any descriptor. A read that fails leaves `bytes_read` at the largest number and writes
before the buffer (line 42): undefined, so the model lets it do nothing or end what
is known of the program (`undefined`).

`TcpPair` has the server and any number of clients as processes and, for each
client, the bytes on their way in both directions. A message is its length. Any
call may fail (`MaxFaults` bounds how often) and the process then exits. The kernel
is external: closing a socket with bytes unread, or while its connection is still
in the backlog, resets the connection.

`Timers` has a clock, and a handler may be called any time after its timer expired.
The instance that is checked has the delay, the period and the limit of the code.

### Algorithms

`Sorting` and `Stacks` translate the loops as folds or as functions of the round
over whole vectors and stacks. A procedure that calls itself is a recursive function;
what it does is an operator (`Heapified`, `RangeSorted`, `Said`) that takes the
function as its first argument. `Algorithms` is one call of one of the programs, on an
input of the right type (its three assumptions); TLC enumerates small ones. `int` is
unbounded there, so overflow of a sum or a product is not modelled.

## 3. Runs

| Run | What it asks | Bounds |
| --- | --- | --- |
| `cfar_deques` | the window is exact at every reduction; the filter implements the contract; every call returns | every mask with k, l <= 3 and every array of 0 to 6 cells over two values, p in {0, 1/2, 1}, any sequence of calls |
| `cfar_buffer` | the same for the indexed deque, that its bounds are set before they are read, and that the lines that print "Internal Error!" are not reached | k, l <= 3, up to 6 cells; shapes in `Supported` |
| `cfar_index_map` | the map has exactly the indices under the mask and the deque one entry for each, though the iterators name other entries | k <= 3, l <= 2, k + l <= 4, up to 5 cells, two calls, every order `nth_element` may leave |
| `fraction_mt` | no data race, no torn read, every operation atomic, every call returns | two threads, one call each, two fractions, all operations that lock two different fractions |
| `fraction_calc` | products are exact or flagged, equality is sound | 4-bit numbers, fractions of 0 to 6 over 0 to 6, integers -5 to 5, two calls |
| `fraction_product` | *violated*: -1/1 *= -5 leaves 1/1; also -1/1 *= -1/1 stays -1/1, and 1/2 * 3/2 is 0/1 | same, one call |
| `unsigned128` | sums are exact; differences are, exactly where no borrow is misjudged; what products leave out and when they are the maximum; when a division leaves its array, else its quotient is not too small; what comparisons decide | every pair of numbers of four two-bit elements, any sequence of operators |
| `echo_server` | one operation or handler per session, always accepting, every client gets its own bytes, all of them unless it resets; sessions of clients that left are deleted; every connection is accepted | two clients, of two and one bytes, three addresses, buffer and window of two, one failed accept |
| `epoll_reader` | the loop ends only in a step that reads bytes that start with those of the line `stop`, be it the tail of a line that was cut; a terminal's `stop` always ends it; at the end of the input it spins | three lines out of four kinds, a buffer of three, two failures |
| `tcp_pair` | who is answered; which messages make both wait; that a message read whole is answered; that clients end | two clients, messages of 0 to 2, one failing call |
| `timers` | no drift, every call made when `main` goes on | the delay, period and limit of the code; handlers up to four seconds late |
| `algorithms` | a heap, a sorted vector, groups that can be read back, the value of an expression | every vector of up to 7 numbers, sequences of up to 6, expressions of up to 6 numbers |

Why the bounds are enough. A CFAR window has five positions relative to the array
(left of it, entering, inside, leaving, past it) for each half, and an eye; masks up
to 3 and arrays up to 6 have every combination, and two runs in a row of different
lengths. Two values and three percentiles reach the first, a middle and the last
rank; equal values let `nth_element` leave every order there is. A race, a torn
read or a lost update needs two threads, and no operation has more than two
fractions; more of either is left to the proofs. Numbers of four bits overflow,
wrap and divide each other in all the ways the shortcuts distinguish. With two bits
in an element a carry, a borrow and an overflow can start and end at every element.
Two clients and three addresses make sessions interleave and an address be reused;
two bytes and a window of two make reads and writes partial. A buffer of three
holds the line `stop` and one byte: lines come alone, together or cut. Two clients
put one in the backlog, and a message of two bytes can be read in part.

Runs check the type invariants of `CfarBuffer` and `CfarIndexMap`, which say that no
bound is read before it is set; the others are only proved (section 4), and so is that
the epoll reader closes its descriptor (`DescriptorClosed`).

`algorithms`, `cfar_index_map`, `echo_server`, `fraction_calc`, `fraction_product`,
`tcp_pair` and `unsigned128` do not check for deadlock: a program may make no more
calls, a server waits once nobody has anything left to do, and client and server of
the TCP pair may wait for each other (`BothWait`, which has its own property).

### Fairness

* CFAR: a call that was made keeps executing (`WF_vars(Step)`). Nobody has to call.
* `FractionMt`: a thread that can move does (`WF_vars(Step(t))`), and one that is
  again and again able to get the lock it blocks on or tries, gets it (`SF`).
  `std::lock` promises no deadlock; that two threads do not back off in lockstep for
  ever, or that a writer is not starved, is a property of the scheduler and the
  mutex, assumed here and nowhere else.
* `EchoServer`: `run()` calls the handlers that are queued, an operation that can
  complete does, a client that has bytes waiting receives them. Nobody has to
  connect, send or close, and only finitely many accepts fail (`MaxFailures`).
* `EpollReader`, `TcpPair`: each program keeps running. Nobody has to type.
* `Timers` assumes none: its properties are about safety.

### Where the code does something else than it says

One run ends in a violation, `fraction_product`; `PROJECT.json` quotes the lines
that say otherwise. Its property has three parts, each of which the code refutes,
and `operator*=` of `Fraction`, by an integer or by a fraction, has no passing
property about its value. Multiplying by 0, or a fraction that is 0, divides by 0 in
`MultiOverflow`; since that is undefined the model allows both outcomes, and the
properties about products leave zeros out.

Elsewhere the properties name the case in which the code does something else, leave
it out and cover the rest:

* `CfarBuffer`, shapes outside `Supported`. Where the array is short against the
  mask, or the mask one cell wide, the left half does not keep its own count, and the
  window keeps values that left the mask.
* `CfarIndexMap`. The iterators seldom lead to the entries of their indices once an
  insertion, an erasure or `nth_element` has moved them, so the filter selects wrong
  values; with k = 1, and once the right block has left the array, a new entry finds
  nothing to be inserted before and is dropped; a second run starts with the map of
  the first one. `FirstRunKeys` and `OneEntryPerIndex` state what holds all the same.
* `FractionMt`. The copy constructor takes no lock, and reads half a multiplication;
  `f *= f` asks for one mutex twice and never returns. `Locked` leaves both out.
* `FractionCalc`. Assignment copies numerator and denominator and keeps the sign and
  the flags of the old value; multiplying by an integer forgets the flags of the
  operand. `ProductExact` judges operands without an error.
* `EpollReader`. `stop` after another line in one read, possible on a pipe, is
  missed; the tail of a line longer than the buffer may be taken for it; at the end
  of the input the loop spins (`EndOfInputSpins`).
* `TcpPair`. An empty message makes both programs wait for ever. A message read in
  part is followed by a reset, and its answer may be lost. A server whose client
  closed without writing answers it all the same.
* `Algorithms`. Merge sort prints 0 for a vector of one number. Look-and-say does
  not set its count back to 1: "1 1 2" is said as "1 two, 2 ones". In the calculator
  a blank ends a number as an operator does: "2 * 3" is 5.

The operators of `Unsigned128` differ from integers. Here the properties leave no pair of
numbers out but say what the operators do in its place:

* `operator-=` borrows from the next element also when two elements are equal
  (`v > b`, line 597), and wraps an element it borrows from when it is 0: 5 - 5 has
  the elements 0, 2^32 - 1, 0, 2^32 - 1. `Misjudged` names these cases, and
  `ExactUnlessMisjudged` says that the difference is right if and only if they occur
  at none of the elements but the last: two mistakes never make up for each other.
* `operator*=` tests `a1`, `b1` for an overflow (line 303) where the comment above it
  (line 294) has `a1`, `b3`: 2^32 * 2^32 becomes the maximum, and the pair `a1`, `b3`
  is neither tested nor added. The loop that adds the terms of degree 3 ends before the
  last of the four (line 423), so `a3 * b0`, if it fits an element, is lost.
  `ProductButTwoTerms` says that the result is the product without these two
  (`LeftOut`), or the maximum, and that the maximum is wrong only if `a1` and `b1` are
  both nonzero.
* `operator/=` leaves its array exactly when one of the numbers has 0 as its highest
  element. Otherwise it divides the highest elements: the quotient is never too small,
  and it may be too large unless the divisor has no lower elements
  (`QuotientNeverShort`).
* `operator>` and `operator<` do not stop at the highest elements that differ: both
  may hold of the same two numbers. `OrderAgrees` says that one that should hold does,
  and that it is right if it is the only one that holds.
* `operator%` subtracts with `operator-=` what `operator*=` computed: it has the
  mistakes of both, and no property of its own.
* `operator!=` and the comparisons with built-in integers are stubs that return a
  constant; they are not in the model.

## 4. Proofs

Proved by TLAPS for every value of the constants that satisfies the assumptions in
the modules (`ShapesAssumption`, `PercentilesAssumption`, `ValuesAssumption`,
`UnreadAssumption`, `OperationsAssumption`, `MaxOpsAssumption`, `MaxValAssumption`,
`InputsAssumption`, `BaseAssumption`, and those of `EchoServer`, `EpollReader`,
`TcpPair` and `Timers`). Where a theorem needs more, it says so in its statement:
`NoCopies` for `FractionMt`, `Supported` for `CfarBuffer`, `Slots = Int` for two of
`CfarIndexMap`.

### CFAR

* `CfarRunProofs` has what the versions share. `NthElementIsSelected`: a value
  `nth_element` may leave at `floor(p n) - 1` has `floor(p n)` values no greater than
  it and the rest no less, the definition of the algorithm's document. It rests on
  `SetBetween`: between two finite sets, one inside the other, there is one of every
  size in between. `Lists(d, S)` says that a sequence has each member of `S` once.
  `RunStep` is a step of the loop, whatever the window does: it keeps the types, the
  loop in the array (`LoopInv`), and, if each reduction finds the window
  (`HoldsWindow`), the output as it should be (`OutputInv`: cells not yet visited are
  `Unset`, visited ones exactly when their window is empty). A step is then a step of
  `Cfar` or a stutter (`ContractStep`): `Reduce` a `Write`, the last `Advance`, and
  `TooWide`, a `Return`.
* `TypeCorrect`, `WindowIsExact`, `Implementation` (`CfarDequesProofs`).
  `WindowExact` speaks of reductions only and is not inductive: a slide starts from
  the window of the cell before. `WindowInv` says what the two deques are at every
  line: blocks of consecutive positions, newest first, whose ends are functions of
  `idx`, at `slide` those of the cell before. A slide pops and pushes one position at
  each end (`PushBlock`, `PopBlock`), so one lemma per deque (`SlideLeft`,
  `SlideRight`) covers the edges and the eye.
* `TypeCorrect`, `WindowIsExact`, `NoInternalErrors`, `Implementation`
  (`CfarBufferProofs`), for supported shapes (`Supported`: each shape satisfies
  `KeepsCount`, the shapes of the run; outside them `WindowExact` fails). The order
  of the one deque depends on the edges of the array, so `BufferInv` leaves it open:
  the deque `Lists` the window (`KeptAt`), and the four bounds are functions of
  `idx`, except that `first` is known only where the left half evicts and matters
  nowhere else. The proof follows a slide: `LeftEviction`, `RightEviction`,
  `LeftEntry`, `SlideKeeps`. That the entries looked for are found is part of it,
  hence `NoInternalErrors`.
* `FirstRunKeysAreExact`, `RankIsComputedFromTheWindow`, `EntriesAreCountedByTheMap`,
  `MapHasEveryBoundedIndex` (`CfarIndexMapProofs`), for any number of slots and runs.
  What is in the slots is out of order, but two things do not depend on it: which
  indices the map has, and how many entries the deque has. `Counts(store, S)` says
  that the map has at least the indices of `S` and the deque as many entries as `S`
  has members; each operation of the deque changes `S` by one index, whichever slot
  its iterator names (`CountsEvicted`, `CountsEnteredBefore`). `RangeInv` says it of
  `Live`, the indices between the four bounds. In a first run the map has no others
  (`Fresh`). In a later one it has those an earlier run left, and one of these can be
  told apart: `size`, the first index after the array, which only a longer earlier
  run leaves. With it in the map new left entries go on being inserted where a first
  run drops them (`Entering`, `Dropping`). So the rank is that of a window of the right
  size, though of wrong values; of the six lines that print "Internal Error!" only the
  two about a left entry (92 and 103) are ever reached; and the branch that pushes a
  left entry to the front (line 106) is never taken, `m_leftLast` being smaller than
  `m_last` after every cell.
* `TypeCorrect`, `FirstRunReadsWhatWasWritten` (`CfarIndexMapProofs`), of a deque
  that never reaches the end of its node: they assume `Slots = Int`, where an instance
  has a range wide enough for its runs. The iterators lead to slots outside of the
  deque, so that its own slots are written is not inductive. `Written` is: from some
  slot `low` on, at or before the first entry, every slot up to the end was written,
  and no iterator leads before `low`. What moves entries or closes a gap stays on that
  side of `low` (`LaidBefore`, `LaidEvicted`), and only a new first entry lowers it
  (`LaidInFront`). The deque must have an entry when one is inserted before another
  (`LaidSlide`): in a first run the entry looked up is one of its own.

### Fractions

* `TypeCorrect`, `RaceFree`, `NothingTorn`, `Atomicity` (`FractionProofs`, about
  `FractionMt`), for any number of threads, fractions and calls, assuming no thread
  copies (`NoCopies`); without it `NoTornRead` fails, as said above. `LockInv` says
  that locks held at once are compatible and that a thread accessing its operands
  holds all its locks; with `LocksCover` (an operation locks every operand, uniquely
  the one it writes) two operations exclude each other. `ValueInv` relates each
  thread's copies to the members while it is between reading and writing: nobody else
  can have written them. `Atomicity` maps `WriteNum`, or the last read of an
  operation that writes nothing, to the moment of effect.
* `GcdIsGcd`, `OverflowIsExact`, `EqualityIsSound`, `ProductsAreExact`
  (`FractionProofs`, about `FractionArith` and `FractionCalc`), for numbers of any
  width. `Gcd` recurses, so first of all `Euclid` has to be shown to satisfy its
  equation (`EuclidRecurses`: some function does, since the greatest common divisor
  does) and then to end at a common divisor; both go by the least sum of two numbers
  for which it would not (`EuclidInduction`). `IsGcd` is a common factor that is a
  combination of both numbers, which makes "no common factor" usable in equations. The
  constructor then makes lowest terms and keeps the value (`Constructed`), and there
  is one way to write a number in lowest terms (`LowestTermsAreUnique`), which is why
  `operator==` may compare members. For products there is one lemma per shortcut
  (`CrossReducedIsExact`, `InvertedIsExact`, `MultipliedIsExact`): the result is the
  product, or the flag is set and the product does not fit. `CalcInv` is the
  invariant: `g` and `h` are in lowest terms, while `f`, which the program multiplies
  in place and assigns to, may be any fraction.
* `OrderIsExact`, `SumIsExact`, `DifferenceIsExactUnlessMisjudged`,
  `ProductLacksTwoTerms`, `QuotientIsNeverShort` (`Unsigned128Proofs`), for elements of
  any width. All use that elements stay elements (the lemma `TypeCorrect`), which by
  itself says nothing of the code. Order: the highest elements that differ outweigh all
  that stands below (`HighestDecides`). Sum: `CarryOut` adds up the four equations
  `sum = low + Base * carry`, each times its power of `Base`; the carries cancel but
  for the last, and the rest is the sum modulo `Base^4`. Difference: `Exact` is the one
  whose borrows are those that are due, and these cancel as carries do (`Telescopes`);
  `Less` passes on the borrow that is due unless it misjudges the element
  (`LessJudges`), and the lowest mistake shows in the element above it (`BorrowShows`),
  hence the equivalence (`WhenExact`). Product: the sixteen terms are grouped by the power they belong to
  (`Expansion`); those of the fourth power and above are 0 or in `LeftOut` unless
  `Overlap` finds them, and if it does the product is too large but for `a1 * b1`
  (`OverlapOverflows`). Quotient: `TopQuotient` compares the highest elements alone.

### Echo server

* `TypeCorrect`, `HandlersPaired`, `ServerAccepts`, `EchoImplemented`
  (`EchoServerProofs`), for any number of clients, bytes and failures.
  `OneHandler` counts; `HandlerInv` says the same without counting: no two
  operations or handlers have one session, and each live session has one. So nothing is
  pending on a session whose handler runs, `delete this` cancels nothing
  (`NothingCancelled`), and each handler replaces itself by what it starts
  (`HandlerKeeps`). `SocketInv` ties a socket to its accept and keeps sockets
  of two sessions, and the backlog, apart; types need it, since a read looks at its
  client's bytes. For the refinement, `ByteInv` accounts for every byte: those
  `Taken` from a client and not yet `Returned` to it are what its session's one
  operation or handler still `Holds` in the buffer, in order. A session touches its own client
  only, so a step keeps what is said of the others (`SessionBytesKept`). The byte a
  client gets is then the next one in order: a `Receive` of `Echo`.

### epoll, TCP and timers (`SampleProofs`)

* `ReaderTypeCorrect`, `DescriptorClosed`, `OnlyStopEnds` (`EpollReader`).
  `BufferInv`: while the loop runs the buffer does not start with the stop line, so a
  read that fails cannot end it.
* `TypeCorrect`, `AnswersFollowMessages`, `OnlyEmptyMessagesBlock`,
  `WholeMessagesAnswered` (`TcpPair`). `MessageInv`: what was read and what is
  left make up the message. `WholeInv`: if nothing failed and nothing was left
  unread, the answer is under way to a client that reads, or printed.
* `TimersTypeCorrect`, `ScheduleKept`, `NothingCalledAfterRun` (`Timers`).
  `CallsInv`: a wait follows every call but the last.

### Algorithms (`SampleProofs`)

`HeapIsMade`, `VectorIsSorted`, `SaidIsReadBack`, `ValueIsComputed`, for every input.
The state machine takes one step, so the work is in what the functions compute. A
recursive definition says only that a function is *some* solution of its equation, if
there is one. `RecursionExists` finds one whenever the value at a point depends only
on points of smaller measure: what is left of the array, the length of the range,
how much of the input is left. Facts about it then go by the least measure at
which they could fail (`MeasureInduction`); loops have the same lemma with the round as
measure (`LoopExists`), and the folds of the community modules are brought to a
function of the round by `FoldExists`.

* Heap: `Below(t)` are the indices under `t`, two children have none in common
  (`BelowDisjoint`). `Repaired` says what `Heapify(v, t)` is for: the entries under `t`
  are rearranged and the others kept, and if the subtrees under the children of `t` were
  heaps the one under `t` is. Raising both children leaves the greatest of the three on
  top (`RaisedTwice`), so it is greater than whatever the two repairs move below it
  (`RepairedBoth`). The loop of `main` keeps `HeapFrom`: no entry from `i` on is a parent
  of a greater one.
* Merge sort: before each round the heads of both pieces are in range and add up to
  the round (`HeadsRange`); hence no entry is taken twice (`ChosenOnce`), and, both
  pieces being in order, what is taken is no less than what is left. `RangeInOrder` then
  goes from halves to the whole (`HalvesMerged`).
* Look-and-say: one group in front of what is said of the rest is one run in front of
  the runs read back (`RunsCons`), because what a count grows by is its group.
* Calculator: `InProduct` is the invariant of the scan: inside a product whose value
  so far is `v` either its only number is on `num`, or what came before is one number on
  `vals` under a `Times` on `op`. An operator ends it or makes it wait, with `v` on
  `vals` (`PushedPending`). So the end of an expression finds one value per product and
  one plus between two (`ExpressionRead`), which the pluses add up from the top
  (`AddedUp`). Numbers are read back from their digits (`DigitsOf`, `StackedDigits`).

### Only model-checked

* Liveness: TLAPS does not reason about fairness.
* How many slots the runs of an instance of `CfarIndexMap` need: the proofs about what
  slots hold are of a deque without an end.
* `operator*=` of `Fraction`: its value has no property that passes (section 3).

## 5. Not modelled

* The `Fraction` class of `fraction_bigint.cpp`: it repeats `fraction.cpp` over
  `Unsigned128`, its gcd uses the `%` that reads past the array, and its limits come
  from `numeric_limits<Unsigned128>`, which is not specialised and yields 0.
* `dijkstra.cpp`: no search; every vertex of its graph is the same `Node`.
  `quick_sort.cpp`: a stub. `epoll_sample.c`: does not compile. The Python
  extensions: one arithmetic call each, no state.
* Formatting and printing (`operator<<` of `Fraction` is in `FractionMt` for its lock
  only), argument parsing, file input and output of the filters' test drivers, the
  floating-point rounding of `p * n`.

## 6. What could come next

`CfarIndexMap` over a deque of several nodes.
