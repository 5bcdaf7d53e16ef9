# Verification of byte_stream

TLA+ models of `src/include/byte_stream`, a header-only C++17 library that encodes and decodes
binary protocols, with TLC runs on small instances and TLAPS proofs for every instance.

Line numbers below are those of the headers: `BS` is `byte_stream.hpp`, `IO` `byte_io.hpp`,
`UT` `byte_stream_utils.hpp`.

## 1. The system

The library is sequential: no threads, no I/O, nothing persisted. What makes it hard is that its
functions call back into application code (codecs), that this code calls the library again on the
same or another stream, throws and catches; that it copies between ranges of memory which may
overlap or move; and that it must accept exactly the encodings it produces.

| Component | State | Operations | What makes it correct |
| --- | --- | --- | --- |
| owned buffer of a `stream` (BS 538–680, 1128–1171, 1282–1324) | `buf_`: address, size, capacity | append, resize, reserve, clear, take_buffer | no byte lost, misread or written elsewhere, wherever the source of an append lies and wherever the buffer moves |
| stream objects (BS 551–680, 1074–1171) | `buf_`, `pos_`, `endian_` of each object | constructors, defaulted copies and moves, `append` of a stream, `+=`, `+`, destruction | objects are values of their own; a moved-from one never reads behind its end |
| reading functions (BS 713–883, 1178–1189, 1248–1280) | `pos_`, `read_depth_` (both `mutable`), the C++ call stack | get, get_to, get_atomic, get_to_atomic, get_to_with_size, get_to_with_size_atomic, seek, reset_position | a failing transactional read leaves the position where it was, a target-atomic one the object too; `read_depth_` is exact |
| writing functions (BS 584–589, 688–711, 829–844) | length of `buf_`, the call stack | set, set_atomic, set_with_size, assignment | a failing atomic write leaves the buffer as it was, at any depth; size prefixes are true; the requested count is honoured |
| fixed-width scalars (BS 288–471, 1368–1551, 1763–1838) | none | set, get with an optional byte count | one wire form on every host; shortened values are cut and sign-extended properly |
| compact integers (BS 486–527, 782–820, 1553–1607) | loop locals, `pos_` | set_compact, get_compact, get_compact_to | exactly the shortest encodings of values of the type are accepted |
| codecs of the built-in types and `parse` (BS 893–945, 1840–2179) | the object, the stream | write and read of arrays, optional, pointers, pair, tuple, length_prefixed, variant, containers | round trip, canonical reads, what a failure leaves behind, truncation told from corruption, memory that runs out |
| custom codecs and field macros (BS 1740–1761, 2183–2359) | application's | ADL functions, specialisations | contract of DESIGN.md: deterministic order, append only; a field `(member, n)` means the same to both directions |
| `byte_writer`, `byte_reader`, `byte_view` (IO) | range, position, size over the application's memory | write, write_compact, write_bytes, seek, clear, read, read_compact, read_bytes, read_view | failures change nothing, no gap and no unwritten byte is ever shown |
| escaping and frames (UT) | none; loop locals | escape_bytes, unescape_bytes and their frame and string forms | unescaping undoes escaping; longest match; termination |
| hexadecimal text (BS 947–1068) | none; loop locals | to_hex, from_hex | inverse conversions; the passes that size and those that fill agree; termination |

How they interact: the value functions of `stream` dispatch on the type to a codec, which calls the
value functions again for its parts; these end in the fixed-width and compact primitives, which move
`pos_` or grow `buf_`. The transaction functions only wrap such calls. `byte_writer`/`byte_reader`
share the wire format with `stream` but no code: they implement it a second time. Escaping works on whole vectors before a stream is
made of them.

The hazards at their lines, and the properties that cover each, are in `PROJECT.json`.

## 2. Modules

| Module | Models | One step is | Proofs |
| --- | --- | --- | --- |
| `ReadContract` | abstract: what an application call of a reading function promises | begin, work, succeed or fail | |
| `ReadTransactions` | reading functions; a stack of calls over several streams, exceptions in flight | a call, a field read, a throw, a catch, one frame left | `ReadTransactionsProofs` |
| `WriteContract` | abstract: what an application call of a writing function promises | as above | |
| `WriteTransactions` | writing functions; a stack of calls on one stream | a call, a field appended, an element, a throw, a rollback | `WriteTransactionsProofs` |
| `StreamBuffer` | `buf_` and `append_bytes` in a flat memory with an array of the caller's | one operation, all of it | `StreamBufferProofs` |
| `StreamValues` | abstract: stream objects as independent values | one operation | |
| `Streams` | several stream objects, copied, moved, summed, read and destroyed | one operation, all of it | `StreamsProofs` |
| `Numerals` | what the shifts and ors of unsigned words compute: powers of two, digits and their sum | | `WireProofs` |
| `FixedWire` | integers of every width between two machines, through either half of the library | one set, one get | `WireProofs` |
| `CompactWire` | `write_compact_uint`, `read_compact_uint`, ZigZag | one round of the decoder's loop | `WireProofs` |
| `MCWire` | both of the above in one run | | |
| `Codec`, `MCCodec` | the codecs of all types, those of the field macros among them, the object they read into, `parse` | one call of the application | `CodecProofs` |
| `ByteFile` | abstract: a gapless file with a cursor | write, seek, clear | |
| `ByteIO`, `MCByteIO` | `byte_writer` and `byte_reader` over shared memory | one call | `ByteIOProofs` |
| `Escape` | escaping and unescaping of a frame | one round of a loop | `TextProofs` |
| `Hex` | `to_hex` and the two passes of `from_hex` | one round of a loop | `TextProofs` |
| `MCText` | both of the above in one run | | |

Correspondence of state. `pos`, `depth` are `pos_`, `read_depth_`; `buf` is the content of `buf_`;
`base, cap, len` its `data()`, `capacity()`, `size()`. A frame of `stack` is a C++ call frame with the
locals that matter (`at` for `old_pos`/`old_size`, `owner` for having incremented `read_depth_`), and
`raised` says that an exception is unwinding. `wdata, wcap, wpos, wsize` and `rdata, rsize, rpos`
are the members of the writer and the reader; 0 is `nullptr`. In `Streams` every object has its
`buf`, `pos` and `endian`; `state` remembers for the properties whether it is constructed and whether
it has been moved from. In `Hex`, `at` and `output` are the positions of the loops in the text, the
other variables are the locals of the same name.

A codec is application code, so in the two transaction modules it is anything its contract allows:
read or append fields, seek (reading), call any function again, throw, catch. A writing codec that moves
the read position is outside the contract (DESIGN.md, README.en.md) and not modelled: the rollback of
`set_atomic`, which does not clamp the position as `resize` does, relies on that. In `Codec` it is the
library's own.

A type is a record there, and its codec another, made by `CodecOf` from the codecs of its parts as a
template is instantiated: what `write` and `read` do for each value, buffer, position and count, and what
is promised of them (`fits`: the counts that read back what was written with another; `kept`: what
comes back then, which nothing can for a null pointer or a valueless variant, so that writing one must
fail; `whole`: the counts that leave nothing of the old object; `plain`: the values that need
no count). `Table` makes those of all declared types in order, parts before wholes, so the recursion is
over a number and the module can be proved about. A `struct` is a class whose codec the field macros
generate: its fields in order, each with the count that `(member, n)` names or with the default.

`Read`- and `WriteTransactions` implement their contracts through the refinement mapping that hides
every frame but the outermost: the application sees its own call only. `ByteIO` implements `ByteFile`
with `content` the bytes of `view()`. `Streams` implements `StreamValues` with the value of an object
unspecified from the moment it is moved from until it is given a value again: everything may be called
on it meanwhile, and nothing but its own bytes may ever be read.

Operators whose name begins with `Defect` are wrong versions of the definition named after the
prefix; nothing uses them. They record a slip against which a property has been tried.

## 3. What is checked

All passing runs are exhaustive within their bounds.

| Run | Bounds | Shows |
| --- | --- | --- |
| `read_transactions` | 2 streams of 2 bytes, fields of 1 and 2, 3 frames | `OwnershipExact`, `TransactionsCovered`, and the refinement of `ReadContract`. Three frames give an owner, a call nested in it and one on another stream; two bytes let a field fit, end at the end, or miss |
| `write_transactions` | 3 bytes, counts up to 2, 3 frames | `PrefixesIntact`, `RollbackExact`, `CountAnnounced`, `RequestHonoured` and the refinement of `WriteContract`, with containers that may be the stream's own buffer |
| `stream_buffer` | 7 addresses, at most 4 bytes in the buffer | ownership, aliasing and exact copies; 7 addresses hold an old and a new block with the caller's array before, between or directly behind them |
| `streams` | 2 objects of at most 2 bytes, two byte values, a byte array of the caller's | the refinement of `StreamValues` and that only moved-from objects have their position behind the end; two objects give every copy, move, sum and append between an object and itself or another |
| `wire` | `FixedWire`: bytes of 2 bits, words of 4 bytes, register widths 1, 2, 4; `CompactWire`: bytes of 3 bits, words of 3 bytes: 4 groups of 2 bits and one of 1 | the wire form and the value read back for all values, widths, orders, hosts and both halves of the library at either end (width 3 takes the shift path, the others the memcpy path); the compact decoder on every input up to the longest one its loop looks at (`MaxInput`, 5 bytes), for the narrowest and the widest type, signed and unsigned. As in the code the last group has one bit left |
| `codec` | 24 types of objects, made of others in three layers, bytes 0–3 (compact integers in groups of one bit, up to 7), 4 bytes in the stream, memory for 2 elements of a container | round trip, canonical reads, failures (`bad_alloc` among them), reuse of half read objects, `parse`, truncation. The counts of the calls reach 2, those of the stream and of the fields reach 3, so memory does run out, in `reserve`, in `push_back` and in `resize` |
| `byte_io` | 4 addresses, a writer without memory and one of 3 bytes, 2-byte numbers | bounds, failures, unwritten memory, exact copies, refinement of `ByteFile`, with overlapping sources and destinations; a block of 3 bytes is longer than any number, and can overlap its target by 1, 2 or all of them |
| `text` | `Escape`: 3 byte values, tables of up to 2 rules with sequences of 0–2 bytes, frames of up to 3 bytes, header and tail of 0–1; `Hex`: arrays of up to 3 bytes, texts of up to 5 characters | round trip for every table that can be undone, longest match, delimiters; hexadecimal text that is made and read back, or received: the two passes agree, and exactly the well-formed texts are decoded; termination of all the loops |

`MCWire` and `MCText` join two modules that share nothing: a behaviour is one of the one module with
the other at rest, so that a run checks both.

Scaled-down bytes (`FixedWire`, `CompactWire`, `Codec`) keep the arithmetic: the number of bits is a
constant of the module, the formulas are those of the code, and the shapes that matter (a width that
is no register, a last group that is not full, a count of two bytes) all occur.

Bounds are guards: `MaxFrames` on the nesting of calls, `MaxSize` (which is also `buf_.max_size()`),
`MaxLen` on the stream of `Codec`, `MaxInput` on the bytes `CompactWire` is given. Nothing is cut off by a state constraint.

Deadlock is checked except in the runs of modules that come to an end by design (`wire`, one encoding
each; `text`, one frame or text).

### Disagreements between code and documentation

Each has a run that TLC refutes with a short trace; the findings in `PROJECT.json` quote the lines.

- `read_nested` (BS 1250): a transactional read nested in another on the same stream does not restore
  the position when it fails. The promise of the comments holds for the application's own calls only
  (`ReadContract`, proved).
- `read_copied` (BS 572): copying a stream inside a transaction copies `read_depth_`, and the copy
  never restores its position again. This is why the proofs assume `~CopyDuringRead`.
- `write_counted` (BS 2123): `set(list, 0)` writes the whole list. `write_transactions` therefore asks
  for counts of 1 and more.
- `compact_bool` (BS 524): `get_compact<bool>` accepts any byte up to 127, not only 0 and 1.

A fifth one shows when `set_with_size` is added to `OwnContainers` of `WriteTransactions.cfg`:
`bs.set_with_size(bs.buffer())` announces fewer bytes than it writes, since the count is appended to
the very container it counts (BS 837–838), and `CountAnnounced` fails. DESIGN.md bars the stream's own
buffer from assignment only, and a test gives it to `set`; `write_transactions` gives it to `set` and
`set_atomic`.

### Fairness

`Escape` and `Hex` state fairness, weak fairness of their next-state relations: their steps are the
rounds of loops inside one function call, which go on running once entered. `EveryCallReturns` is the
liveness property: whatever the table, the frame or the text, the call returns or throws. Elsewhere
nothing has to happen: the application may always stop calling, so no liveness is claimed.

## 4. What is proved

The theorems are checked by TLAPS for all values of the constants, from the assumptions named in the
modules (`ReadAssumption`, `WriteAssumption`, `BufferAssumption`, `StreamsAssumption`, `ByteIOAssumption`,
`CodecAssumption`, `HexAssumption`, `EscapeAssumption`, `CompactAssumption`, `MCWireAssumption`), which TLC
evaluates in every run. A theorem that needs more says so: `~CopyDuringRead` for the reading functions, no count of 0 and
no stream given its own buffer for two of the writing functions, no `bool` for `CanonicalBothWays`. Each of these is refuted
without its hypothesis, by a run named in section 3 or as described there.

- **ReadTransactionsProofs.** The invariant is `IInv`. Type correctness alone is not inductive:
  `read_depth_ \in 0..1` needs that each decrement is by a frame that owns the only increment, so
  `IInv` adds that a stream has at most one owning frame (`SoleOwner`), that its depth is then 1
  (`OwnedDepth`), that only transactional calls own (`OwnersTransact`), that a raised depth has an owner
  (`NoLeak`), and that only calls which read in place have touched the caller's object
  (`DirtyInPlace`). That every call which does not own its
  transaction has an owner below it (`TransactionsCovered`) follows the stack. Theorems: `TypeCorrect`,
  `OwnershipIsExact`, `TransactionsAreCovered`, `Refinement` of `ReadContract`.
- **WriteTransactionsProofs.** A rollback resizes the buffer to a remembered size; that this gives back
  the remembered bytes needs that the buffers found by nested calls are prefixes of one another
  (`PrefixesNested`) and of the buffer (`PrefixesIntact`), and the position stays in the buffer
  because no call reaches below it (`CursorBelow`, `AssignOutermost`). Theorems: `TypeCorrect`,
  `PrefixesAreIntact`, `RollbackIsExact`, `Refinement` of `WriteContract`. `WorkInv` says that the count
  `set_with_size` has announced is in the buffer and in what every call above it found, so that no
  rollback of theirs removes it, and how far each container has got; theorems `CountIsAnnounced`, for a
  stream not given its own buffer, and `RequestIsHonoured`, for counts other than 0 (the run
  `write_counted` shows 0).
- **StreamBufferProofs.** The invariant joins type, ownership of the addresses and the bytes in them;
  lemmas say where a source is after a relocation. Theorems: `TypeCorrect`, `BufferOwnsItsBytes`,
  `SourcesAreJudged`, `ContentIsExact`, `ForeignIsUntouched`.
- **StreamsProofs.** `TypeOK` is inductive: it says of every object that has not been moved from that
  its position is inside it; with it each operation is a step of `StreamValues`. Theorems:
  `TypeCorrect`, `Refinement` of `StreamValues`.
- **ByteIOProofs.** The order position, size, capacity, and "no unwritten byte below size" are one
  invariant, since a copy through the reader would otherwise carry unwritten memory into the writer's
  file. `ByteFile` lets a write put any bytes in; that a copy puts the right ones, though its source and
  its target overlap, is in `AllOrNothing`. Theorems: `TypeCorrect`, `NothingUnwrittenShows`,
  `WholeOrNotAtAll`, `Refinement` of `ByteFile`.
- **CodecProofs.** For every list of declared types in which the parts of a type come before it, so for
  any nesting, and for streams, containers, arrays and size limits of any extent. A codec calls those
  of its parts, so each promise is made by all codecs at once: it is proved for each kind of type from the
  same promise of the parts, and then for all types up the table (`AllTypes`, induction on the *set* of
  types with a promise). The loops over elements and members are recursive functions of the number of
  rounds, described once and used for tuples, structs, arrays and lists. The promises, in the order in
  which they build on each other:
  - `Typed`: a codec writes bytes, and a read ends inside the buffer with a value of the type, failed or not.
    This is what makes `TypeOK` inductive (with the type and bytes of the buffer, `IInv`).
  - `Canonical`: what a read has consumed is what writing its result gives. For containers it needs that
    compact integers have one encoding, hence the closed form of `write_compact_uint` and of the loop that
    reads it.
  - `Forgets`: two reads of the same bytes into different objects agree, if the count covers the object.
  - `Returns`: wherever the encoding of a value begins, reading gives the value back and ends behind it; and
    where the buffer ends inside the encoding, reading fails with `insufficient_data` and nothing else.
    Both are said of one relation between buffer and encoding (`Starts`, `Returned`), since a truncated
    whole consists of complete parts, a truncated one and missing ones.

  Theorems: `EveryTyped`, `EveryCanonical`, `EveryForgets`, `EveryReturns`, each for every declared type, and
  from them the properties of the run: `TypeCorrect`, `FailureKeepsHolds`, `CanonicalReadsHolds`,
  `OldObjectForgottenHolds`, `RoundTripHolds`, `TruncationReportedHolds`, and `ParseExactHolds`, which needs the
  promises in both directions.
- **TextProofs**, hexadecimal text. `PassInv` says where the writing index of `to_hex` is for each round, and
  relates the digits counted by the first pass of `from_hex` to those the second has met; `HexTripInv` says
  which bytes of the source stand in the text and have come back; `SpellInv` says of any text which bytes its
  digits so far spell, with the high half of the one begun. Theorems: `PassesAlwaysAgree`,
  `HexRoundTripHolds`, `DecodesExactlyHolds`.
- **TextProofs**, escaping. The invariant keeps the loop in the payload and the delimiters out of what is
  written; `LeastOf` gives `Min` its meaning, so that `find_escape_rule` and the longest match are what
  they should be for tables of any length. `TripInv` keeps the boundaries of the pieces that the bytes
  sent were escaped to (`Cuts`): a round that begins at one takes exactly the piece up to the next
  (`OneRound`), because in a table that can be undone the longest match has the right sequence as a
  prefix, and is it. Theorems: `TypeCorrect`, `DelimitersStayOut`, `LongestIsMatched`, `RoundTripHolds`.
- **WireProofs.** Both wire forms are made of digits, so the first part is arithmetic: the recursive
  functions `Pow2` and `Numeral` obey their equations (`Recursion` constructs a function from its
  steps, `Induction` is about the *set* of numbers with a property, since the library's own induction
  takes an operator), a numeral is below its power, a number is the numeral of its digits (`NumeralOfDigits`), and
  `div` and `mod` by products of powers compose. The fixed widths are then `FixedInv`: once the bytes
  are sent, byte `j` is the digit of the value that `order` puts there; for the memcpy path because host order, swap
  and image cancel, for the shift path by induction over the bytes of the loop. For the compact form
  the encoder has a closed form (`Canonical`, the digits of the value with the continuation bits set)
  and every codeword is the canonical one of what it denotes (`CodewordIs`). `CompactInv` says that
  `value` is the numeral of the `i` bytes read, all of them with a continuation bit, that `shift` is `i`
  groups, and what each failure means; it is needed because acceptance depends on bytes
  rounds ago, and `PayloadFits` alone keeps the modulus of `Accumulated` from ever biting. Theorems:
  `WireIsCanonicalHolds`, `ReadsBackHolds`, `AcceptsExactlyShortestHolds`,
  `InsufficientIsRecoverableHolds`, `CanonicalBothWaysHolds` (integer types; `compact_bool` shows bool),
  and without a run of their own `EncoderIsShortest` and `LoopInside`: no byte behind the buffer is read, no
  shift reaches the width of the word. They hold for bytes of any number of bits, so for those of 8 bits
  and words of 8 bytes in the code, which TLC cannot enumerate.
- **Termination.** Liveness is beyond the provers, but its safety half is not: `LoopsEnd` and `HexLoopsEnd`
  of `TextProofs` give each loop a natural number that every round makes smaller, whatever the text, frame
  or table. `EveryCallReturns` needs the fairness of section 3 besides, and the absence of a dead end, and
  TLC checks it.

Only model-checked is that liveness property, `EveryCallReturns`: every other property of a passing run is
a theorem. The four runs that expect a violation are TLC's by nature.

## 5. What is not modelled

- The preprocessor (counting and expanding the arguments of the field macros) and overload resolution
  (which codec a type gets): they happen at compile time. What they produce is modelled.
- Accessors without a decision of their own: `buffer`, `data`, iterators, `operator[]`, `at`, `size`.
- Floating-point numbers as such: they travel as the bit images of integers of their width.
- `size_t` overflow of sizes no memory can hold (`checked_byte_count`, `checked_add`).
- Threads: DESIGN.md forbids sharing one stream, even through const references.
- Error texts, tests, benchmarks, examples, build files, the vendored GoogleTest.

## 6. Plan

Done, in this order: reading transactions, writing transactions and the owned buffer with their proofs
(the parts where application code and the library interleave), then the wire formats, the codecs,
fixed storage and escaping; then stream objects as values, structs, exhausted memory, hexadecimal text,
the second implementation of the wire format, and the proofs for these; then the wire formats and
the decoding of hexadecimal text for words, types and texts of any size; then the codecs for all types,
for which they became records made from those of their parts. Left is what section 5 names.
