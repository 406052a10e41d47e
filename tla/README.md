# A verification project for msgpack11

msgpack11 is a small C++11 library: it holds MessagePack values (`MsgPack`),
serialises them (`dump`, `operator<<`) and parses them (`parse`, `operator>>`,
`parse_multi`). All of it is in `src/msgpack11.hpp` and `src/msgpack11.cpp`;
`src/benchmark/` holds a C benchmark derived from another project. This
directory models the library in TLA+, checks the models with TLC and proves
properties of them with TLAPS. The definitions follow the code, not the comments
beside it; `PROJECT.json` maps each of them to the lines it stands for.

## The system

| component | state it keeps | operations | hard behaviours |
|---|---|---|---|
| Wire format | none; the table `parsers` of 256 handlers, built once | look up a handler by the first byte | a byte without a handler; lengths of 1, 2 and 4 bytes |
| Parser (`parse_msgpack` and its handlers) | the stream (position, eofbit, failbit), the C++ stack of calls, half-built containers, the caller's `err` | `parse(is)`, `parse(is, err)`, `parse(string, err)`, `operator>>` | truncation at any byte, failure inside nested loops that do not stop, depth limit, repeated calls on one stream, duplicate keys |
| `parse_multi` | its own stream, the values so far, the caller's `parser_stop_pos` and `err` | one loop over `parse` | ends on failure, position of the last whole value |
| Comparison (`operator<`, `operator==`) | none | virtual `less` and `equals` | numbers of ten types, rounding to double, NaN; `std::map` is ordered by it |
| Serializer (`dump`) | the output stream | one function per type | shortest forms at 31/32, 15/16, 127/128, 255/256, 65535/65536 and 2^32, signs |
| Value wrappers, accessors | immutable values behind `shared_ptr` | predicates, typed getters, `operator[]` | conversions between ten number types, defaults when the type is another one, references to a shared null |
| `has_shape` | none | one loop over the items of a shape | a missing field is a null |
| Static globals | `statics()`, `static_null()`, the table `parsers` | first use constructs, exit destroys | several threads that are first, order of construction and destruction |
| Example (`src/example.cpp`) | none | show a value, dump, parse, show | one row of a table for each type a number may come back with |
| Benchmark (`src/benchmark/`) | a growing buffer, a generated object in one pool, the driver's loop | write, generate, run | not part of the library |

How they interact: `parse_object_impl` inserts into a `std::map` that calls the
comparison on values just parsed; `parse_multi` and callers of `operator>>` call
the parser again and again on one stream, so the stream's bits are state shared
by successive calls; the serializer and the parser share only the bytes; the
example and the benchmark call the library through its public interface. A null or bool
`MsgPack` shares the value of it in `statics()`, a string, number or container makes its own; a
getter of another type gives a reference into `statics()`, and `operator[]` of a missing
element one to `static_null()`. The library starts no thread, persists
nothing and takes no callback; its only shared state are the three statics.

What makes each correct:

* Parser - a call returns exactly the value its bytes encode, leaves the stream at
  its end, and otherwise returns a null value, sets failbit and tells truncated from
  malformed; it never takes part of an encoding for a value; recursion is bounded;
  every call comes back.
* `parse_multi` - returns the longest run of whole values and the position where it
  ends, and returns at all.
* Comparison - a strict weak order on the keys a map holds; consistent with `==`.
* Serializer - what it writes is read back equal, whatever form it chose; when it throws or
  the stream takes no more it leaves nothing that a reader takes for a value, and an exception
  leaves a caller's string as it was.
* Accessors - a chain of `operator[]` leads to the element it names or to null; a number
  is the same to its getters in whatever type it came back.
* `has_shape` - what it accepts can be relied on.
* Static globals - each is constructed once, `statics()` lives longer than the static nulls and
  bools that share its values, and no thread waits for one of them for ever.
* Example - shows the same before and after.

## Modules

| module | models | lines |
|---|---|---|
| `Wire` | values, lengths, the table of first bytes | hpp 34-54, cpp 802-824, 963-1014 |
| `Parser` | `parse_msgpack`, the handlers, `parse` | cpp 803-1060 |
| `Contract` | the abstract specification of `parse` as its caller sees it | (hpp 196-207) |
| `Decode` | the abstract specification of which value the bytes stand for | (the format) |
| `Allocation` | `Parser` with every allocation that may throw | cpp 702-1060 |
| `ParseMulti` | `parse_multi` | cpp 1063-1078 |
| `Feed` | a caller of `parse_multi` that gets its data in pieces and survives exceptions | cpp 1063-1078 |
| `Compare` | `operator<`, `operator==` | cpp 301-663, hpp 34-62 |
| `StdMap` | the `std::map` behind an object: where a search ends, `insert`, `find` | cpp 891 |
| `Order` | an object being filled, member by member | cpp 885-894 |
| `Encode` | the ladders and headers of `dump`, and what a function must satisfy to be `operator<<` (`IsDump`) | cpp 82-375 |
| `Serialize` | the whole encoding of a value, as a recursive definition for TLC | cpp 252-375 |
| `Dumper` | `operator<<` and `dump` as they run, with the exception for what is too long | cpp 95-375, hpp 176-186 |
| `RoundTrip` | `dump` on one side, `parse` on the other | (their composition) |
| `Accessors` | the predicates, the getters of integers, `operator[]` | hpp 123-138, cpp 489-1095 |
| `Lookup` | a program that follows `operator[]` and then calls `has_shape` | cpp 748-1098, hpp 170-236 |
| `Statics` | first use, construction and destruction of the statics | cpp 673-712 |
| `Example` | `show_impl`, its table and the show functions | `example.cpp` |
| `Iterate` | recursion on a number, which `Decode` is written with, and its two laws as theorems | |
| `ParserProofs`, `MatchProofs`, `FeedProofs`, `EncodeProofs`, `DumperProofs`, `OrderProofs`, `StaticsProofs` | theorems | |
| `MC...` | values, inputs and bounds for TLC, and the properties that only a run needs | |

`PROJECT.json` has the exact lines of each definition.

`Parser` makes the C++ recursion explicit. A frame of `stack` is one running
`parse_array_impl` or `parse_object_impl`: how many turns its loop has `left` and
what the call it makes next returns (`at`); `built` holds its `res` and `key`. The
argument `depth` of `parse_msgpack` is the height of the stack. An action is one
call of a handler (`ParseNil`, `ParseArith`, `ParseArray`, ...), one test of a loop's
counter (`CallNext`, `ArrayDone`, `ObjectDone`), one return into a loop
(`ReturnItem`, `ReturnKey`, `ReturnValue`) or the caller's part (`ReturnToCaller`,
`ParseAgain`). `Consume` and `Read` are `istream::get` and `istream::read` with their
bits: a stream that is not good only gets failbit, one that is too short is
emptied and gets both bits. `Finish` is the test `parse_msgpack` makes after the
handler. The member inserted by `std::map::insert` goes where the search through the
tree ends; with a `Less` that is no strict weak order there may be several such
places, and the model takes any of them.

A value is a record with its C++ type tag; numbers are the bytes of their
representation, so 64-bit integers and floats are exact, and `Compare` turns them
into doubles the way the conversion rounds (to nearest, ties to even).

`Contract` says what `parse` promises to a caller who sees the stream, `err` and the value
between calls only: five actions, with neither handlers nor loops. `Parser` implements
it: `Promise` in `Parser` is the instance with the refinement mapping, in which a call that
runs has the stream and the `err` it began with, and `ImplementsContract` is `Promise!Spec`.

`Decode` is what parsing promises about values, written as a definition over the whole
input by the ranges of the wire format, without streams, bits or loops that run on. Its
recursion is on two numbers: how many containers are around a value (`Outcomes(in, depth)`
has the outcome at every position inside `depth` containers, and `Around` makes it from those
inside one more), and how many values came before one in its container (`Values`). Both are
instances of `Iterate`. The values inside more than `MaxDepth` containers are malformed. An
object is the one that keeps the first of several equivalent keys and orders those it
keeps (`MakeObject`). `MatchesReference` says that each call of `Parser` ends as `Decode` says, and
`MultiMatches` that `parse_multi` returns what `Decode` gives from value to value.

`Allocation` adds to `Parser` the places where memory may be refused: the `reserve` or `resize`
to the length that the input declares (`RefuseBuffer`), the `make_shared` of a value
(`RefuseValue`), the node of the map and the finished container (`RefuseContainer`). An
exception unwinds all the frames and leaves the stream where it was.

`Order` inserts members into the map of `StdMap`. Its constants are the two operators, `Less` and
`Equal`, the keys, and which of them are `Ordinary`: those that the operators are meant to order. A
run gives it `operator<` and `operator==` of `Compare`.

`ParseMulti` wraps the actions of `Parser` in the loop of `parse_multi`. `Feed` is the
composition with a caller: `Receive` gives `parse_multi` the bytes from `parser_stop_pos` on
after more data came, `RunOut` is an exception out of the loop, which takes the vector with
it but not the caller's `parser_stop_pos`, and `Retry` calls again from the old position.

`RoundTrip` chains `operator<<` to `Parser` through a transport that delivers a prefix of
the bytes of two values. What is recursive in it comes in as constants, functions on the values
sent and on those inside them, with the equations they satisfy as assumptions: `Encoded` is
`operator<<` (`IsDump`), `Nesting` how many containers the innermost value is in
(`NestingAssumption`), and `Back` what comes back, which is the same value but for the types of
the integers (`BackAssumption`: the same number, in the type that its first byte tells; the keys of
an object are still in the order of `Less`, as a number's place among the keys does not depend on
its type). `TrafficAssumption` says that the values are ones a program can hold, with lengths below
2^32, and `DeliveredAssumption` that the deliveries are inputs of the parser. TLC is given recursive
definitions of the three functions (`MCRoundTrip`) and evaluates that they satisfy all of this; the
proofs need the equations only. `Example` puts `show_impl`, the getters and `operator==` on both
ends of it.

`Dumper` makes the loops of `operator<<` explicit: `todo` is what the running loops have still
to write, one header or leaf per step (`DumpContainerNext`, `DumpLeafNext`), and a value
that is too long throws from where the loops are (`Throw`). A program writes to a stream
of its own (`Write`) or calls `dump` (`DumpToString`), which assigns its string in the
last step only (`DumpReturns`). Either stream may stop at any byte (`Put`): a full disk, a closed
socket, or no memory for the string stream. It is then `bad` and takes nothing, which no code in
`dump` looks at; the program may clear the state of its own stream (`Clear`) and go on. What should have been written is `Encoded`, as in `RoundTrip`, and `Inside` has what each value
holds.

`Lookup` is a program: `AskIndex` and `AskKey` are one `operator[]` each, on what the one before
gave, and `AskShape` is `has_shape` on what was reached. The getters are functions
from a value to the set of results it may give, which is a set of several only where the
C++ conversion of a double is undefined.

`Statics` has one stack of calls per thread. `Globals` are the static `MsgPack`s of the program, and
`NullOrBool` those with a null or a bool in them: only the constructors of these two
(`msgpack11.cpp:700`, `701`, `712`) use `statics()`, so that a static string, number or container may
be constructed before it and destroyed after it (`Needs`). `Claim` is the guard C++11 puts around a
function-local static: the first thread constructs, and a thread that meets an `owner`
waits. `Construct` ends a construction, `Exit` and `Destroy` run the destructors in the
reverse of the order in which the constructions ended.

## Runs

| run | properties | what it shows |
|---|---|---|
| `parser` | `TypeOK`, `FailureMeansNil`, `RecursionBounded`, `TurnsLeft`, `MatchesReference`, `MembersOrdered`, `OnlyUnwindsAfterFailure`, `ImplementsContract` | the parser implements `Decode` and `Contract` and fails safely, call after call on one stream |
| `order` | `EveryKeyFound`, `SameInAnyOrder`, `NoKeyTwice` | a map ordered by `operator<` finds what was put into it, by any spelling of the key, and is the same in any order of insertion; no two of its keys are ever equal |
| `round_trip` | `ReadBack`, `EqualAgain`, `PrefixRejected`, `DeepRejected`, `SameToGetters`, `ShownAlike` | whole values are read back, each number in the type that `dump` narrowed it to; they are equal and dump to the same bytes; cut ones and those nested too deep are errors of the right kind; getters and the example see no difference |
| `parse_multi` | `StopPosSound`, `FailureIsLast`, `MultiMatches`, `MultiReturns`, `EveryCallReturns` | result, position and error of `parse_multi`; its loop ends, and every call of `parse` in it comes back, also when the loops of nested containers run on after a failure |
| `parse_multi_whitespace` | `SeparatedByWhitespace` (violated) | the header's "separated by whitespace" is not what the code does |
| `feed` | `NothingLostNorTwice`, `AllDelivered` | a caller whose data comes in pieces, cut anywhere, and whose memory runs out at any allocation, loses no value, gets none twice, is told of malformed data just when there is some, and has all in the end |
| `allocation_refused` | `FailureIsReported` (violated) | a `parse` that runs out of memory sets no failbit and no `err` |
| `lookup` | `ChainLeadsThere`, `ShapeHolds`, `EqualNumbersGetAlike` | chains of `operator[]`, shapes that hold, and numbers that are equal across types |
| `lookup_missing_field` | `HasEveryField` (violated) | a shape that asks for NUL is satisfied by an object without the field |
| `lookup_number_type` | `NumbersAreNumbers` (violated) | a shape that asks for NUMBER or INT is satisfied by no object |
| `statics` | `ConstructedOnce`, `DefaultsOutliveNulls`, `EveryUseReturns` | threads that are first at the same time, and the destructors at exit: the defaults outlive the nulls and bools |
| `dumper` | `WholeOrTorn`, `TornReadsTruncated`, `OutWholeOrOutOfMemory` | a `dump` that throws, or whose stream stops at any byte, leaves a torn value that no reader takes for one; a string is untouched by an exception, and short only if memory ran out under the string stream |

The bounds:

* `Inputs` of `parser`: all inputs of up to two bytes over 22 bytes, of up to four over
  nine, and all prefixes of 34 whole encodings. Every handler is reached with enough,
  too few and no bytes left; containers in containers fail in each of their elements.
  Wide headers, keys that are equal or equivalent across types, and 64-bit keys
  that one double stands for come from the encodings.
* `Inputs` of `parse_multi`: all inputs of up to four bytes over eight bytes, of up to five
  over the bytes that open containers or are invalid, and three encodings in a row
  of which the last two may be cut.
* `MaxDepth` is 1 or 2 instead of 200. The code compares it and passes it on, nothing
  else; the runs have inputs one and two containers deeper, and the theorems
  hold for every value.
* `Keys` of `order`, in `MCKeys`: 34 keys, of which maps of up to three different ones are built in
  every order, with repetitions. They are one number in several types, negative and
  fractional numbers, both 64-bit types at 2^53, 2^53 + 1, 2^63 and their ends, a great
  double, infinity, NaN, and keys of every other type; three keys are what an order needs
  to fail to be transitive. `MCOrdinary` leaves NaN and floating-point numbers
  from 2^53 on out of `EveryKeyFound` and `SameInAnyOrder`: 2^53 and 2^53 + 1 as integers
  differ, but both equal the double 2^53, so `operator==` is no equivalence there and
  no map could be built from it. `NoKeyTwice` speaks of all 34 keys; containers that
  hold a NaN or such a number are not among them.
* `Traffic` of `round_trip`: every integer type with values on both sides of each step
  of the ladders, all header sizes of strings, binaries and extensions up to 65536
  bytes, containers of 0, 1, 15 and 16 elements, nesting up to four. Encodings of up to
  64 bytes are cut after every byte, longer ones at eight places.
  Containers of 65536 elements are left out, as they take too many states; `ValuesAreReadBack`
  is about containers of every length.
* `Wholes` of `feed`: three encodings or parts of them in a row, whose end is malformed,
  cut, or whole; each may come in any number of pieces. `MaxRefusals` is 2: an
  exception, and another one while the caller tries again.
* `Roots` of `lookup`: arrays and objects of up to five members, with keys that sort before and
  after strings; arrays of one number in every type that holds it. `MaxSteps` is 3: one
  step into each level and one beyond the innermost.
* `Longest` of `dumper` is 16 and stands for 0xffffffff, which is compared with a length
  and nothing else; it is above 15, so that every kind of header is written. The value
  that is too long stands first, last, as a key, as a mapped value and two levels deep.
  `MaxCalls` is 2: what a call that threw, or met the end of the stream, has left is what the next
  one finds. Where a stream stops has no bound.
* `Threads` and `Globals` of `statics`: three threads, one more than a static has
  constructors and waiters, and two static objects of the program, of which one has a null or a
  bool in it. `StaticsProofs` is about any number.
* `Errs`: an empty string and a stale message.
* `parse_multi` and `feed` order keys by their bytes (`BytesLess`), because TLC evaluates
  `ENABLED` at every step: neither whether a call comes back nor where it stops depends
  on where a member goes. Their other properties compare with a `Decode` that orders
  keys the same way.

No run bounds the number of calls on one stream: a stream that is used up fails all
further calls, so the state space is finite.

Fairness: one thread runs a call to its end without waiting for anything, so the
actions inside a call (`Callee`) and the steps of `parse_multi` (`MultiStep`) are weakly fair.
`ParseAgain` is the caller's choice and has no fairness. In `Feed`, `Receive`, `Retry` and
`Step` together are weakly fair: data that is announced comes, and a caller goes on
when it may; `RunOut` has no fairness, and its bound is what lets `AllDelivered` hold, as no
program gets anywhere without memory. In `Statics` a thread that can go on does
(`Running`), but nothing makes it use an object (`Use`) or makes the program end (`Exit`). The
other specifications state safety only.

The runs with `Spec` of `Parser` do not deadlock because a caller may always call again;
`ParseMulti` stutters explicitly once it has returned (`Returned`). `feed`, `lookup`, `statics`
and `dumper` stop where the data, the program's steps or the program end, so
their configurations do not look for deadlock; that nothing is stuck before is
what `AllDelivered` and `EveryUseReturns` say.

Every property has a mutant: an operator such as `FinishUnchecked` that stands before
the definition it mutates and is a plausible bug in the code it maps to. TLC finds
the property violated when the mutant takes the definition's place.

## Proofs

All theorems about the parser hold for every `MaxDepth \in Nat`, every set `Inputs` of
sequences of bytes, every `Errs` and every `Less`, which need not be an order: these are
`MaxDepthAssumption` and `InputsAssumption`, which TLC evaluates in every run. Some of them
have a hypothesis more, and say so.

`ParserProofs`:

* `TableTotal`: the fill loop leaves no first byte without a handler;
* `TypeCorrect`: `Spec => []TypeOK`;
* `CountersNeverWrap`: `Spec => []TurnsLeft`;
* `FailureReturnsNull`: `Spec => []FailureMeansNil`;
* `RecursionIsBounded`: `Spec => []RecursionBounded`;
* `FailureOnlyUnwinds`: `Spec => OnlyUnwindsAfterFailure`;
* `MembersStayOrdered`: `Spec => []MembersOrdered`;
* `ParserImplementsContract`: `Spec => ImplementsContract`.

The invariant `IInv` is the conjunction of the first four state properties, which are
inductive only together. `TurnsLeft` keeps the counters of `TypeOK` in `Nat`. The bound
on the recursion by the bytes consumed needs `TypeOK` (a stream's position never
moves back) and the second part of `FailureMeansNil` (`eof` implies `fail`), and it is what
a container pays for with its first byte in `OpenStep`. The lemmas go from the stream
(`ConsumeProperties`, `ReadBytes`, `LengthIsNat`) to the kinds of steps (`LeafStep`,
`OpenStep`, `CloseStep`, `TurnStep`) and from there to the actions. `RowTypes` and
`HandlerTypes` carry what the table promises each handler about its template
argument.

For `MembersStayOrdered` the invariant `MembersInv` adds that `built` is parallel to `stack` and
that a loop over members has a key for each mapped value (`Paired`). What the values are does
not matter, and they cannot be typed because they are nested without bound: there is some
set `V` they belong to (`\E V : Typed(V)`), which each step extends by the value it makes.

For `ParserImplementsContract` the initial states map to initial states and every step of
`Parser` to one of `Contract` or to a stutter. What is needed beside `IInv` is `Since`, which says
what the current call has done since it began: nothing on a bad stream, and on a good one
it has moved on or met the end.

The first part of `MatchProofs` has the laws of `Decode`. The first ones unfold it: `TableAround`, `RunStart`,
`RunMore`, and what each first byte is, against the table of the parser (`SinglesTell`,
`HeadsTell`). The others say that reading is local. `Outcome`: it goes forwards, stays within the
input, and is truncated at its end only. `Agree`: where the bytes of `a` stand somewhere in `b`
(`Stands`), what is read in `a` is read there in `b`, and what `a` is too short for is no value
that ends within it (`ValuesAgree`, `ContentAgree`, `AtAgree`, `TableAgree`). `RunsJoin`: values
that follow on others make one row with them. Each is an induction over one of the two numbers of
`Decode`, which `Iterate` has as a lemma about sets (`Induction`). From them follows

* `CutsAreTruncated`: an input that is cut inside an encoding is truncated there. A reader
  of a stream that comes in pieces is never given a value, or told of malformed data,
  because of where a piece ended.

The second part of `MatchProofs` has `ParserMatchesReference`, `Spec => []MatchesReference`, the central theorem. The
invariant `OnTrack` says that a call, as long as the stream is good, is where `Decode` is. There is
a position for each container that is open, and one for what comes next, such that each
frame began with a first byte that announces it, as many values as it has gathered were read behind
that (`Reads`), its counter is what is left of the announced length, and its members are
those that `MakeObject` keeps of the values read so far. When the stream goes bad,
everything around the value is bad in the same way (`Outcomes` of the enclosing containers pass
an error on), so that the loops, which run on, come back to the caller with the position and the
bits of the first error. That they come back at all is not part of it: `TurnsLeft` is what keeps the
counters from wrapping on the way.

Its hypothesis is `KeysOrdered`: that `Less` is a strict weak order on the keys of each object
that the input has. The code gives no more: `operator<` on all values is none (NaN, and 64-bit
integers beside the double they round to), and then which members a `std::map` keeps depends
on the shape of its tree, so that there is no value to speak of. `MembersStayOrdered` holds
without it. `OrderedInputs` in `MCParser` and `MCParseMulti` has TLC check the hypothesis on the
inputs of the runs.

`FeedProofs`: `StopPosIsSound`, `MultiSpec => []StopPosSound`, `FailureEndsTheLoop`,
`MultiSpec => FailureIsLast`, and `MultiReadsAll`, `MultiSpec => []MultiMatches` (with `KeysOrdered` of
the inputs). The invariant `MInv` adds to `IInv` and `Since` what the loop knows (`LoopInv`): a call
begins on a good stream, no earlier than `parser_stop_pos`, and one that succeeded has moved on.
This is where the progress that `Contract` promises is used. `KeptInv` adds that what is kept is
what is read up to some position (`GoesOn`), from which the loop goes on, or where the value is
bad, for the reason that `err` gives; while a call runs, that it is on track (`MatchInv`).

In the same module, `FeedLosesNothing`, `FSpec => []NothingLostNorTwice`, for all data (`Wholes`), any pieces
and any number of exceptions, with `KeysOrdered` of the pieces and an `err` that does not read
"format error." before anything was parsed. The invariant `FeedInv` says that what the caller has
taken is what is read in the bytes it is done with, as if they had come in one piece (`Done`),
and that `parse_multi` runs on the bytes behind them as `KeptInv` says; after an
exception nothing of that call counts (`Thrown`). The step in which the caller takes the values is
`Together`: what was read in the piece is read in the data (`Agree`), and follows on what
was read before (`RunsJoin`). `SlicesAssumption`, that `Inputs` has the pieces of the data, is
evaluated by TLC.

`StaticsProofs`, for every set of threads and of static objects, with or without a null or a bool in
them (`NoOneAssumption`, `NullOrBoolAssumption`):
`EachIsConstructedOnce`, `Spec => []ConstructedOnce`, and `OrderOfLives`, `Spec =>
[]DefaultsOutliveNulls`: the nulls and bools, `msgpack_null` among them, never outlive `statics()`. It
says nothing of the statics that do not use it. The invariant `Guarded` says what a construction relies on: its
thread owns the object, which is not alive (`Owned`) and which no other call of the thread
constructs (`OncePerThread`), and what the object is made from is alive or is what
the next inner call is after (`Supplied`); and of each object that is alive, that what it was made
from was there before it (`MadeFromTheLiving`), which the destructors, in reverse order, keep.

`EncodeProofs`: `HeadersAreRead`: for each length up to 2^32 - 1 the header that `dump` puts
before a string, binary, array, object or extension is sent by the table to the
handler of that kind, which reads the same length from it. It rests on `OneRow` (no byte is
taken by two rows of the table), `Digits` (four digits to the base 256) and one lemma for
each ladder. The code's ladders are pure functions, so that the theorem has no
specification and no invariant. `LeavesAreReadBack`, `Spec => []LeavesReadBack`, is about whole
values: where `dump` has written a value that holds no others, the call of `parse` that begins
there returns it. An integer is compared as the number its bytes stand for (`NumberOf`), since
the ladder changes its type; one step down the ladder keeps that number (`FitsBelow`,
`HoldsBelow`). `ReadAs` says what bytes are read as wherever they lie in an input, and
`ParserMatchesReference` carries it to the parser.

In the same module are the theorems about `RoundTrip`, for all values (`Traffic`), every `MaxDepth`
and every `Less`, with `KeysOrdered` of what is delivered: `ValuesAreReadBack`, `RTSpec => []ReadBack`;
`CutValuesAreRejected`, `RTSpec => []PrefixRejected`; `DeepValuesAreRejected`, `RTSpec =>
[]DeepRejected`. The invariant `RTInv` is that of `ParserMatchesReference`, and that what is parsed is a
delivery of what was sent; the rest is about `Decode`. `Comes(in, d, v)` says that `v`, wherever it
was dumped into `in`, is read inside `d` containers as what comes back of it, and `Fails(in, d, v)`
that it is malformed there. A header introduces as many values as it was dumped for (`HeaderThere`, from
`HeadersAreRead`); if each of them comes, one after the other does (`EachComes`), and the container
comes, an object because its keys are still in order, so that `MakeObject` keeps all of them where they are
(`MadeAsTheyAre`); if one of them fails, so does the container (`EachFails`, `ContainerFails`).
`EveryValueComes` is the induction on `Nesting` and `DeepValueFails` the one on the containers that
may still be around a value. A cut value is read whole in what was sent, and
`CutsAreTruncated` says what that means for the part that arrived. `OrderedInputs` in `MCRoundTrip` has TLC
check the hypothesis on those deliveries whose stray bytes it can evaluate.

`DumperProofs`: `WritesAreWholeOrTorn`, `DSpec => []WholeOrTorn`, and `StringsAreWholeOrOutOfMemory`,
`DSpec => OutWholeOrOutOfMemory`, for all values, any `Longest` above 15, any number of calls and
streams that stop anywhere. Both say what a run of `operator<<` has done when it is over, so the invariant
`DInv` says what it has done on the way (`Going`): as long as the stream takes everything, what it has
put, with what its loops have still to dump behind it, is the encoding of the value; once it
has not, what was put is a proper prefix and stays so; and the value is too long somewhere just when
something in those loops is. A header or a leaf moves from the second part to the first
(`GoingOn`), and where only a prefix of it was taken, something of it is missing for good
(`PrefixLeaves`, `FirstOfTwo`). When the loops are empty the first is all (`GoingEnds`), and when they
throw, what stands at their head has at least a header left, so that what was put is a
proper prefix (`GoingThrows`). `OverStep` says what either end makes of the last write. A write changes the
part of the stream that is its own and no earlier one (`PartsGrow`). The lemmas about `Each`
in `EncodeProofs` take apart what several values are dumped as; `FlattenSeq` is a recursive
function of the community modules, and `OneFlat` and `SomeFlat` are its induction.

`OrderProofs`: `KeysFound`, `OSpec => []EveryKeyFound`, and `OrderDoesNotMatter`, `OSpec =>
[]SameInAnyOrder`, for every set of keys and any number of insertions. The hypothesis is
`OrdersAs(Ordinary, Equal)`: on the keys that the program calls ordinary, `operator<` is a strict
weak order and `operator==` holds just where neither key is less. TLC evaluates it on the
ordinary keys of `MCKeys` (`OrdinaryOrdered` in `MCLookup`, and not in `MCOrder`, whose mutants have to
break the properties and not the hypothesis). The
invariant `OrderInv` says that the keys of the map are in order (`Sorted`), so that a search has one
place to end at (`AroundTheEnd`, `SearchFinds`), and that each key that was inserted has one
that is equivalent to it there (`Covers`), which is what a refused insertion relies on. That the
map has one key for each class is a bijection of its places and the classes (`OneForEach`).

Only model-checked:

* what rests on the recursive definitions of the comparison (`MsgLess`, `MsgEqual`), of the getters and
  of `show_impl`: `EqualAgain`, `SameToGetters`, `ShownAlike`, `NoKeyTwice` (whose keys no order need hold for) and the
  properties of `Lookup`. That `MsgLess` orders the keys of what is read or inserted is a
  hypothesis of the theorems, as above;
* `TornReadsTruncated`: a value that is too long has no encoding that `ReadBack` is about, and is no
  `Traffic`, so that `CutsAreTruncated` and `CutValuesAreRejected` do not speak of what is left of it;
* the liveness properties (`EveryCallReturns`, `MultiReturns`, `AllDelivered`, `EveryUseReturns`).

## Disagreements between the code and its documentation

* `msgpack11.hpp:210` says of `parse_multi`: "Parse multiple objects, concatenated or
  separated by whitespace". The loop at `msgpack11.cpp:1069` skips nothing: a newline
  between two objects is parsed as the positive fixint 10 and returned as a value of
  its own (run `parse_multi_whitespace`).
* `msgpack11.hpp:196` says "If parse fails, return MsgPack(), sets failbit on stream and and
  assign an error message to err". A length that cannot be allocated
  (`msgpack11.cpp:870`) leaves `parse` by an exception with the stream good and `err` as it
  was (run `allocation_refused`).
* `msgpack11.hpp:232` says that `has_shape` is true if the object "for each item in types, has
  a field of the given type". An item of type NUL is satisfied by an object without
  the field (`msgpack11.cpp:1091`, run `lookup_missing_field`).
* `msgpack11.hpp:33` says of the types "NB: all ints are numbers". A shape that asks for NUMBER
  or INT rejects every object, because tags are compared for equality (`msgpack11.cpp:1091`,
  run `lookup_number_type`).

## Not modelled

* The benchmark in `src/benchmark/`: C and C++ taken over from another project to time several
  libraries, and its reports. It calls the public interface of msgpack11 only, and the
  msgpack-c adapters drive another library.
* `parse(const char*)` with a null pointer, which makes no call of the parser.
* The endianness of the host, which `read_bytes` and `dump_data` undo.
* `float32_value` of a number of another type. `float64_value` is in `Compare`, because numbers
  of different types are compared by it.
* The exception of an allocation inside the construction of a static: the constructors that
  use it are `noexcept`, so that the program ends.
* What destructors of a program's statics do. One that asks for a missing element for the first
  time may find `static_null()` gone; and a static string, number or container, which may outlive
  `statics()`, then has getters of other types that refer to a destroyed object
  (`msgpack11.cpp:764-768`). The code promises neither.
* What a reader makes of values behind a torn one. `Dumper` lets a program write them, and
  `WholeOrTorn` says what they put, but a reader takes them for what the torn containers still lack, so
  that `TornReadsTruncated` speaks of the last write.
* A stream whose program has asked it for exceptions (`exceptions(badbit)`): its `put` would throw out of
  the loops. The library never does.

## Plan

1. (done) `Wire`, `Parser`, `Decode`, `Compare`, `ParserProofs`; `StdMap`, `Order`;
   `Encode`, `RoundTrip`; `ParseMulti`.
2. (done) `Accessors`, `Lookup`; `Statics`; `Contract`; `Allocation`, `Feed`; `Dumper`; `Example`.
3. (done) `ParserProofs`, `FeedProofs`, `StaticsProofs`, `EncodeProofs`.
4. (done) `Iterate` and a `Decode` that can be reasoned about; `MatchProofs`; the
   values of `parse_multi` and of `Feed`.
5. (done) the ladders of the integers against the handlers that read them, for every
   number.
6. (done) `DumperProofs`: the loops of `Dumper` against the equations of `operator<<`.
7. (done) `RoundTrip` without recursion, and what was dumped against what is read, for containers too.
8. (done) `OrderProofs`: the map against its order.
