-------------------------------- MODULE Codec --------------------------------
(***************************************************************************)
(* The codecs of the built-in types: byte_stream_codec<T>::write appends   *)
(* an encoding of a value, read overwrites an object.  One object and one  *)
(* stream; every step is a call of the application on them, so that        *)
(* objects left half read by one call are what the next one starts from.   *)
(*                                                                         *)
(* A type is a record: its kind k, the types `of` it is made of, and what  *)
(* else its kind asks for.  "byte" stands for the integers, whose widths   *)
(* and orders are FixedWire's; "block" is a contiguous container of        *)
(* scalars of `width` bytes, "list" any other sequence container, with or  *)
(* without reserve(), "ptr" both smart pointers, "struct" a class of the   *)
(* application with the codec that the field macros generate.              *)
(*                                                                         *)
(* A codec is made of the codecs of the parts of its type, as a template   *)
(* is instantiated: CodecOf makes one, and Codec has those of all types,   *)
(* in the order in which they are declared.                                *)
(*                                                                         *)
(* A byte of a compact integer has Group values and a bit that announces   *)
(* another (128 in the code; CompactWire has the limits of its loop).      *)
(*                                                                         *)
(* No codec below catches but WriteWithSize and ReadWithSize: that a       *)
(* nested read_transaction does not restore the position                   *)
(* (ReadTransactions) cannot be seen here.                                 *)
(***************************************************************************)
EXTENDS Integers, Sequences

CONSTANTS Declared,        \* the types there are, the parts of each before it
          Types,           \* the types of the object
          Group,           \* 2 to the number of bits of a compact integer's group
          Default,         \* default_size, the largest uint32_t
          Counts,          \* the n and the max_count passed
          MaxLen,          \* bytes in the stream
          MaxCount         \* elements of a container that memory holds

Kinds == {"byte", "bool", "unit", "optional", "ptr", "tuple", "struct", "array", "list",
          "block", "prefixed", "variant"}

\* What the compiler accepts as a type.
WellFormed(t) ==
    /\ t.k \in Kinds
    /\ t.k \in {"byte", "bool", "unit", "block"} => t.of = <<>>
    /\ t.k \in {"optional", "ptr", "array", "list", "prefixed"} => Len(t.of) = 1
    /\ t.k = "variant" => Len(t.of) \in 1..Default
    /\ t.k = "struct" => t.ns \in Seq(0..Default) /\ Len(t.ns) = Len(t.of)
    /\ t.k = "array" => t.extent \in Nat
    /\ t.k \in {"list", "block"} => t.limit \in Nat
    /\ t.k = "list" => t.reserves \in BOOLEAN
    /\ t.k = "block" => t.width \in Nat \ {0}
    /\ t.k = "prefixed" => t.max \in 0..(Default - 1) /\ t.of[1].k \in {"list", "block"}

ASSUME CodecAssumption ==
    /\ Declared \in Seq({Declared[i] : i \in DOMAIN Declared})
    /\ \A i \in DOMAIN Declared :
           /\ Declared[i].of \in Seq({Declared[j] : j \in 1..(i - 1)})
           /\ WellFormed(Declared[i])
    /\ Types \subseteq {Declared[i] : i \in DOMAIN Declared}
    /\ Group \in Nat /\ Group > 1
    /\ Default \in Nat /\ Counts \subseteq 0..Default
    /\ MaxCount \in Nat /\ MaxLen \in Nat

Bytes == 0..(2 * Group - 1)

\* What a call ends with: a code of the library, or the exception of a
\* container that finds no memory.
Errc == {
    "ok", "invalid_size", "insufficient_data", "insufficient_space", "null_pointer",
    "count_out_of_range", "missing_element_count", "container_too_small",
    "trailing_data", "invalid_value", "non_canonical_encoding", "size_overflow"}
Errors == Errc \cup {"bad_alloc"}

VARIABLES
    type, target,          \* the object
    buf, pos,              \* the stream
    last                   \* the call just made: its name, its n, its error

vars == <<type, target, buf, pos, last>>

----------------------------------------------------------------------------
(* Values; cs are the codecs of the parts of t.                            *)

\* The sequences over S of up to n elements.
UpTo(S, n) == UNION {[1..k -> S] : k \in 0..n}

\* Those with a value of each part.
Members(cs) ==
    LET upto[k \in 0..Len(cs)] ==
            IF k = 0 THEN {<<>>}
            ELSE {Append(v, w) : v \in upto[k - 1], w \in cs[k].values}
    IN  upto[Len(cs)]

\* The elements a container can have: memory, or its own max_size().
Room(t) == IF t.limit < MaxCount THEN t.limit ELSE MaxCount

\* T{}.
Fresh(t, cs) ==
    CASE t.k \in {"byte", "bool", "unit"} -> 0
      [] t.k \in {"optional", "ptr", "list", "block"} -> <<>>
      [] t.k = "prefixed" -> cs[1].fresh
      [] t.k \in {"tuple", "struct"} -> [i \in 1..Len(cs) |-> cs[i].fresh]
      [] t.k = "array" -> [i \in 1..t.extent |-> cs[1].fresh]
      [] t.k = "variant" -> <<0, cs[1].fresh>>

Values(t, cs) ==
    CASE t.k = "byte" -> Bytes
      [] t.k = "bool" -> {0, 1}
      [] t.k = "unit" -> {0}
      [] t.k \in {"optional", "ptr"} -> UpTo(cs[1].values, 1)
      [] t.k \in {"tuple", "struct"} -> Members(cs)
      [] t.k = "array" -> [1..t.extent -> cs[1].values]
      [] t.k = "list" -> UpTo(cs[1].values, Room(t))
      [] t.k = "block" -> UpTo([1..t.width -> Bytes], Room(t))
      [] t.k = "prefixed" -> cs[1].values
      [] t.k = "variant" ->    \* <<>> is valueless by exception
            {<<>>} \cup UNION {{<<i - 1, v>> : v \in cs[i].values} : i \in 1..Len(cs)}

Same(x, k) == [i \in 1..k |-> x]
Defaults(cs) == Same(Default, Len(cs))

----------------------------------------------------------------------------
(* Writing: the error, and the bytes appended before it.                   *)

Wrote(bytes) == [err |-> "ok", bytes |-> bytes]
Refused(error) == [err |-> error, bytes |-> <<>>]

Then(first, second) ==
    IF first.err # "ok" THEN first
    ELSE [err |-> second.err, bytes |-> first.bytes \o second.bytes]

\* One after the other, each with its n.
WriteAll(cs, vs, ns) ==
    LET upto[k \in 0..Len(cs)] ==
            IF k = 0 THEN Wrote(<<>>) ELSE Then(upto[k - 1], cs[k].write[vs[k]][ns[k]])
    IN  upto[Len(cs)]

WriteCompact[v \in Nat] ==
    IF v < Group THEN <<v>> ELSE <<(v % Group) + Group>> \o WriteCompact[v \div Group]

\* A byte or a bool, with an n that is a byte count.
WriteScalar(v, n) == IF n \in {Default, 1} THEN Wrote(<<v>>) ELSE Refused("invalid_size")

ArrayCount(t, n) == IF n = Default THEN t.extent ELSE n

WriteArray(t, cs, v, n) ==
    LET count == ArrayCount(t, n)
    IN  IF count > t.extent THEN Refused("count_out_of_range")
        ELSE WriteAll(Same(cs[1], count), v, Same(Default, count))

WriteOptional(cs, v, n) ==
    IF v = <<>> THEN Wrote(<<0>>) ELSE Then(Wrote(<<1>>), cs[1].write[v[1]][n])

WritePtr(cs, v, n) == IF v = <<>> THEN Refused("null_pointer") ELSE cs[1].write[v[1]][n]

WriteTuple(cs, v) == WriteAll(cs, v, Defaults(cs))

\* As the field macros generate it, of every member or (member, n).
to_byte_stream(t, cs, v) == WriteAll(cs, v, t.ns)

\* The n of the call itself goes nowhere.
WriteStruct(t, cs, v, n) == to_byte_stream(t, cs, v)

\* Defect: The number of elements as a plain byte.
DefectWriteWithSize(c, v) == Then(Wrote(<<Len(v)>>), c.write[v][Default])

\* Whatever fails, nothing has been appended.
WriteWithSize(c, v) ==
    LET w == Then(Wrote(WriteCompact[Len(v)]), c.write[v][Default])
    IN  IF Len(v) >= Default THEN Refused("count_out_of_range")
        ELSE IF w.err # "ok" THEN Refused(w.err) ELSE w

WritePrefixed(t, cs, v) ==
    IF Len(v) > t.max THEN Refused("count_out_of_range") ELSE WriteWithSize(cs[1], v)

WriteVariant(cs, v) ==
    IF v = <<>> THEN Refused("invalid_value")
    ELSE Then(Wrote(WriteCompact[v[1]]), cs[v[1] + 1].write[v[2]][Default])

\* Contiguous: n elements exactly.  Else the loop ends after element n, or
\* after all of them: a count of 0 is never met (WriteTransactions).
WriteCount(t, v, n) == IF n = Default \/ (n = 0 /\ t.k = "list") THEN Len(v) ELSE n

\* All the scalars at once.
WriteBlock(t, v, count) ==
    Wrote([j \in 1..(count * t.width) |->
               v[((j - 1) \div t.width) + 1][((j - 1) % t.width) + 1]])

WriteContainer(t, cs, v, n) ==
    LET count == WriteCount(t, v, n)
    IN  IF count > Len(v) THEN Refused("container_too_small")
        ELSE IF t.k = "block" THEN WriteBlock(t, v, count)
        ELSE WriteAll(Same(cs[1], count), v, Same(Default, count))

Write(t, cs, v, n) ==
    CASE t.k \in {"byte", "bool"} -> WriteScalar(v, n)
      [] t.k = "unit" -> Wrote(<<>>)
      [] t.k = "array" -> WriteArray(t, cs, v, n)
      [] t.k = "optional" -> WriteOptional(cs, v, n)
      [] t.k = "ptr" -> WritePtr(cs, v, n)
      [] t.k = "tuple" -> WriteTuple(cs, v)
      [] t.k = "struct" -> WriteStruct(t, cs, v, n)
      [] t.k = "prefixed" -> WritePrefixed(t, cs, v)
      [] t.k = "variant" -> WriteVariant(cs, v)
      [] t.k \in {"list", "block"} -> WriteContainer(t, cs, v, n)

----------------------------------------------------------------------------
(* Reading s from p into an object that holds v: the error, the object and *)
(* the position left behind.                                               *)

Done(v, p) == [err |-> "ok", v |-> v, pos |-> p]
Failed(error, v, p) == [err |-> error, v |-> v, pos |-> p]

\* The objects of vs in place, each with its n, as far as they can be read.
ReadAll(cs, vs, ns, s, p) ==
    LET upto[k \in 0..Len(cs)] ==
            IF k = 0 THEN Done(vs, p)
            ELSE LET before == upto[k - 1]
                     r == cs[k].read[before.v[k]][s][before.pos][ns[k]]
                 IN  IF before.err # "ok" THEN before
                     ELSE [r EXCEPT !.v = [before.v EXCEPT ![k] = r.v]]
    IN  upto[Len(cs)]

\* The number in the groups behind p, the last at q.
Number(s, p, q) ==
    LET behind[k \in 0..(q - p)] ==
            IF k = 0 THEN 0 ELSE (s[q - k + 1] % Group) + Group * behind[k - 1]
    IN  behind[q - p]

\* Where compact integers that begin behind p may end, and where they do.
Ends(s, p) == {q \in (p + 1)..Len(s) : s[q] < Group}
EndOf(s, p) == CHOOSE q \in Ends(s, p) : \A r \in Ends(s, p) : q <= r

\* Defect: A compact integer cut short taken for a malformed one.
DefectReadCompact(s, p) ==
    LET q == EndOf(s, p)
    IN  IF Ends(s, p) = {} THEN Failed("invalid_size", 0, p)
        ELSE Done(Number(s, p, q), q)

\* A uint32_t: nothing above default_size.
ReadCompact(s, p) ==
    LET q == EndOf(s, p)
    IN  IF Ends(s, p) = {} THEN Failed("insufficient_data", 0, p)
        ELSE IF q > p + 1 /\ s[q] = 0 THEN Failed("non_canonical_encoding", 0, p)
        ELSE IF Number(s, p, q) > Default THEN Failed("invalid_size", 0, p)
        ELSE Done(Number(s, p, q), q)

ReadByte(v, s, p, n) ==
    IF n \notin {Default, 1} THEN Failed("invalid_size", v, p)
    ELSE IF p >= Len(s) THEN Failed("insufficient_data", v, p)
    ELSE Done(s[p + 1], p + 1)

\* Defect: Any byte but 0 is true, as in C, and kept as it is.
DefectReadBool(v, s, p, n) == ReadByte(v, s, p, n)

\* Only 0 and 1; else back over the byte.
ReadBool(v, s, p, n) ==
    LET r == ReadByte(v, s, p, n)
    IN  IF r.err = "ok" /\ r.v > 1 THEN Failed("invalid_value", v, p) ELSE r

\* Arrays of bytes are checked for length as a whole.
ReadArray(t, cs, v, s, p, n) ==
    LET count == ArrayCount(t, n)
    IN  IF count > t.extent THEN Failed("count_out_of_range", v, p)
        ELSE IF t.of[1].k = "byte" /\ count > Len(s) - p THEN Failed("insufficient_data", v, p)
        ELSE ReadAll(Same(cs[1], count), v, Same(Default, count), s, p)

\* Defect: An optional that has a value already keeps it to read into.
DefectReadOptional(cs, v, s, p, n) ==
    LET flag == ReadBool(0, s, p, Default)
        r == cs[1].read[IF v = <<>> THEN cs[1].fresh ELSE v[1]][s][flag.pos][n]
    IN  IF flag.err # "ok" THEN Failed(flag.err, v, p)
        ELSE IF flag.v = 0 THEN Done(v, flag.pos)
        ELSE [r EXCEPT !.v = <<@>>]

\* reset, or emplace and read into the new element.
ReadOptional(cs, v, s, p, n) ==
    LET flag == ReadBool(0, s, p, Default)
        r == cs[1].read[cs[1].fresh][s][flag.pos][n]
    IN  IF flag.err # "ok" THEN Failed(flag.err, v, p)
        ELSE IF flag.v = 0 THEN Done(<<>>, flag.pos)
        ELSE [r EXCEPT !.v = <<@>>]

\* A new element, which replaces the old one once it is read.
ReadPtr(cs, v, s, p, n) ==
    LET r == cs[1].read[cs[1].fresh][s][p][n]
    IN  [r EXCEPT !.v = IF r.err = "ok" THEN <<@>> ELSE v]

ReadTuple(cs, v, s, p) == ReadAll(cs, v, Defaults(cs), s, p)

from_byte_stream(t, cs, v, s, p) == ReadAll(cs, v, t.ns, s, p)
ReadStruct(t, cs, v, s, p, n) == from_byte_stream(t, cs, v, s, p)

\* Defect: The count taken on trust.
DefectReadWithSize(c, v, s, p, max) ==
    LET count == ReadCompact(s, p)
        r == c.read[v][s][count.pos][count.v]
    IN  IF count.err # "ok" THEN Failed(count.err, v, p)
        ELSE IF r.err # "ok" THEN [r EXCEPT !.pos = p] ELSE r

ReadWithSize(c, v, s, p, max) ==
    LET count == ReadCompact(s, p)
        r == c.read[v][s][count.pos][count.v]
    IN  IF count.err # "ok" THEN Failed(count.err, v, p)
        ELSE IF count.v > max \/ count.v >= Default THEN Failed("count_out_of_range", v, p)
        ELSE IF r.err # "ok" THEN [r EXCEPT !.pos = p] ELSE r

ReadVariant(cs, v, s, p) ==
    LET index == ReadCompact(s, p)
        alternative == cs[index.v + 1]
        r == alternative.read[alternative.fresh][s][index.pos][Default]
    IN  IF index.err # "ok" THEN Failed(index.err, v, p)
        ELSE IF index.v >= Len(cs) THEN Failed("invalid_value", v, index.pos)
        ELSE [r EXCEPT !.v = IF r.err = "ok" THEN <<index.v, @>> ELSE v]

\* push_back of n elements, each read into a new object.
PushBack(c, s, p, n) ==
    LET upto[k \in 0..n] ==
            IF k = 0 THEN Done(<<>>, p)
            ELSE LET before == upto[k - 1]
                     elem == c.read[c.fresh][s][before.pos][Default]
                 IN  IF before.err # "ok" THEN before
                     ELSE IF elem.err # "ok" THEN [elem EXCEPT !.v = before.v]
                     ELSE IF Len(before.v) = MaxCount THEN Failed("bad_alloc", before.v, elem.pos)
                     ELSE Done(Append(before.v, elem.v), elem.pos)
    IN  upto[n]

\* The n scalars behind p.
Chunks(t, s, p, n) ==
    [i \in 1..n |-> [j \in 1..t.width |-> s[p + (i - 1) * t.width + j]]]

\* Defect: resize before ensure.
DefectReadBlock(t, v, s, p, n) ==
    IF n * t.width > Len(s) - p
    THEN Failed("insufficient_data",
                Same(Same(0, t.width), IF n < MaxCount THEN n ELSE MaxCount), p)
    ELSE IF n > MaxCount THEN Failed("bad_alloc", v, p)
    ELSE Done(Chunks(t, s, p, n), p + n * t.width)

\* Everything judged before the object is touched: the bytes there are, and
\* the memory for them.
ReadBlock(t, v, s, p, n) ==
    IF n * t.width > Len(s) - p THEN Failed("insufficient_data", v, p)
    ELSE IF n > MaxCount THEN Failed("bad_alloc", v, p)
    ELSE Done(Chunks(t, s, p, n), p + n * t.width)

\* clear, and room for as many elements as were announced.
ReadList(t, cs, s, p, n) ==
    IF t.reserves /\ n > MaxCount THEN Failed("bad_alloc", <<>>, p)
    ELSE PushBack(cs[1], s, p, n)

\* t.limit is the max_size() of a container of fixed capacity.
ReadContainer(t, cs, v, s, p, n) ==
    IF n = Default THEN Failed("missing_element_count", v, p)
    ELSE IF n > t.limit THEN Failed("count_out_of_range", v, p)
    ELSE IF t.k = "list" THEN ReadList(t, cs, s, p, n)
    ELSE ReadBlock(t, v, s, p, n)

Read(t, cs, v, s, p, n) ==
    CASE t.k = "byte" -> ReadByte(v, s, p, n)
      [] t.k = "bool" -> ReadBool(v, s, p, n)
      [] t.k = "unit" -> Done(v, p)
      [] t.k = "array" -> ReadArray(t, cs, v, s, p, n)
      [] t.k = "optional" -> ReadOptional(cs, v, s, p, n)
      [] t.k = "ptr" -> ReadPtr(cs, v, s, p, n)
      [] t.k = "tuple" -> ReadTuple(cs, v, s, p)
      [] t.k = "struct" -> ReadStruct(t, cs, v, s, p, n)
      [] t.k = "prefixed" -> ReadWithSize(cs[1], v, s, p, t.max)
      [] t.k = "variant" -> ReadVariant(cs, v, s, p)
      [] t.k \in {"list", "block"} -> ReadContainer(t, cs, v, s, p, n)

----------------------------------------------------------------------------
(* What is promised of a codec.                                            *)

\* The n that each part is written and read with.
PartCounts(t, cs) == IF t.k = "struct" THEN t.ns ELSE Defaults(cs)

\* The counts with which what was written of v with the count n is read
\* back: any, where the encoding says itself where it ends, the number of
\* elements written where it does not, and none if that is asked of a part
\* which cannot be told.  A null pointer and a variant without a value are no
\* exceptions: nothing reads them back, so that they may not be written.
Fits(t, cs, v, n) ==
    CASE t.k \in {"byte", "bool"} -> {Default, 1}
      [] t.k = "unit" -> Nat
      [] t.k \in {"optional", "ptr"} -> IF v = <<>> THEN Nat ELSE cs[1].fits[v[1]][n]
      [] t.k \in {"tuple", "struct"} ->
            {m \in Nat : LET ns == PartCounts(t, cs)
                         IN  \A i \in 1..Len(cs) : ns[i] \in cs[i].fits[v[i]][ns[i]]}
      [] t.k = "array" ->
            {m \in Nat : /\ ArrayCount(t, m) = ArrayCount(t, n)
                         /\ \A i \in 1..ArrayCount(t, n) : v[i] \in cs[1].plain}
      [] t.k = "list" ->
            {m \in {WriteCount(t, v, n)} :
                m \in 0..Len(v) \ {Default} /\ \A i \in 1..m : v[i] \in cs[1].plain}
      [] t.k = "block" -> {WriteCount(t, v, n)} \ {Default}
      [] t.k = "prefixed" -> {m \in Nat : Len(v) \in cs[1].fits[v][Default]}
      [] t.k = "variant" -> IF v = <<>> THEN Nat ELSE {m \in Nat : v[2] \in cs[v[1] + 1].plain}

\* What a new object is after that: v, but counts that a call or a field
\* names cut containers short and leave the rest of arrays new.
Kept(t, cs, v, n) ==
    CASE t.k \in {"byte", "bool", "unit"} -> v
      [] t.k \in {"optional", "ptr"} -> [i \in 1..Len(v) |-> cs[1].kept[v[i]][n]]
      [] t.k \in {"tuple", "struct"} ->
            [i \in 1..Len(cs) |-> cs[i].kept[v[i]][PartCounts(t, cs)[i]]]
      [] t.k = "array" ->
            [i \in 1..t.extent |->
                IF i <= ArrayCount(t, n) THEN cs[1].kept[v[i]][Default] ELSE cs[1].fresh]
      [] t.k = "list" -> [i \in 1..WriteCount(t, v, n) |-> cs[1].kept[v[i]][Default]]
      [] t.k = "block" -> SubSeq(v, 1, WriteCount(t, v, n))
      [] t.k = "prefixed" -> cs[1].kept[v][Default]
      [] t.k = "variant" ->
            IF v = <<>> THEN <<>> ELSE <<v[1], cs[v[1] + 1].kept[v[2]][Default]>>

\* The counts with which a successful read leaves nothing of the old object:
\* an array read with a smaller one keeps its other elements.
Whole(t, cs) ==
    CASE t.k = "array" -> {m \in Nat : ArrayCount(t, m) = t.extent /\ Default \in cs[1].whole}
      [] t.k \in {"tuple", "struct"} ->
            {m \in Nat : \A i \in 1..Len(cs) : PartCounts(t, cs)[i] \in cs[i].whole}
      [] OTHER -> Nat

----------------------------------------------------------------------------
(* The codecs.                                                             *)

CodecOf(t, cs) ==
    LET values == {v : v \in Values(t, cs)}     \* listed once and for all
    IN  [plain |-> {v \in values : Default \in Fits(t, cs, v, Default)},
         fresh |-> Fresh(t, cs), values |-> values,
         write |-> [v \in values |-> [n \in Nat |-> Write(t, cs, v, n)]],
         read |-> [v \in values |-> [s \in Seq(Bytes) |-> [p \in Nat |-> [n \in Nat |->
                      Read(t, cs, v, s, p, n)]]]],
         fits |-> [v \in values |-> [n \in Nat |-> Fits(t, cs, v, n)]],
         kept |-> [v \in values |-> [n \in Nat |-> Kept(t, cs, v, n)]],
         whole |-> Whole(t, cs)]

\* Those of the first k types declared.
Table[k \in 0..Len(Declared)] ==
    IF k = 0 THEN <<>>
    ELSE LET known == Table[k - 1]
             t == Declared[k]
         IN  [u \in DOMAIN known \cup {t} |->
                 IF u \in DOMAIN known THEN known[u]
                 ELSE CodecOf(t, [i \in 1..Len(t.of) |-> known[t.of[i]]])]

Codec == Table[Len(Declared)]

----------------------------------------------------------------------------
(* The calls.                                                              *)

C == Codec[type]

\* An object filled by the application and an empty stream, or bytes that
\* were received and a new object.
Init ==
    /\ type \in Types /\ pos = 0
    /\ \/ target \in C.values /\ buf = <<>>
       \/ target = C.fresh /\ buf \in UpTo(Bytes, MaxLen)
    /\ last = [op |-> "none", n |-> Default, err |-> "ok"]

\* Types that set_with_size and its readers take: those with size().
Sized == type.k \in {"list", "block", "array"}

\* The buffer after a write; atomic ones drop what a failed write appended.
Appended(op, n, w, atomic) ==
    /\ Len(buf) + Len(w.bytes) <= MaxLen
    /\ buf' = IF atomic /\ w.err # "ok" THEN buf ELSE buf \o w.bytes
    /\ last' = [op |-> op, n |-> n, err |-> w.err]
    /\ UNCHANGED <<type, target, pos>>

Set(n) == Appended("set", n, C.write[target][n], FALSE)
SetAtomic(n) == Appended("set_atomic", n, C.write[target][n], TRUE)
SetWithSize == Sized /\ Appended("set_with_size", Default, WriteWithSize(C, target), TRUE)

\* In place: whatever the codec has left behind.
InPlace(op, n, r) ==
    /\ target' = r.v /\ pos' = r.pos
    /\ last' = [op |-> op, n |-> n, err |-> r.err]
    /\ UNCHANGED <<type, buf>>

\* By way of a new object, assigned or swapped in once it is complete.
ViaNew(op, n, r, failedPos) ==
    /\ target' = IF r.err = "ok" THEN r.v ELSE target
    /\ pos' = IF r.err = "ok" THEN r.pos ELSE failedPos
    /\ last' = [op |-> op, n |-> n, err |-> r.err]
    /\ UNCHANGED <<type, buf>>

GetTo(n) == InPlace("get_to", n, C.read[target][buf][pos][n])
Get(n) == LET r == C.read[C.fresh][buf][pos][n] IN ViaNew("get", n, r, r.pos)

\* get_atomic, and get_to_atomic, whose object is the application's too.
GetAtomic(n) == ViaNew("get_atomic", n, C.read[C.fresh][buf][pos][n], pos)

GetToWithSize(max) ==
    Sized /\ InPlace("get_to_with_size", max, ReadWithSize(C, target, buf, pos, max))
GetToWithSizeAtomic(max) ==
    /\ Sized
    /\ ViaNew("get_to_with_size_atomic", max, ReadWithSize(C, C.fresh, buf, pos, max), pos)

\* Defect: The rest of the data ignored.
DefectFullyConsumed(r) == r

FullyConsumed(r) ==
    IF r.err = "ok" /\ r.pos < Len(buf) THEN [r EXCEPT !.err = "trailing_data"] ELSE r

\* A stream of its own over the same bytes.
Parse ==
    LET r == FullyConsumed(C.read[C.fresh][buf][0][Default])
    IN  /\ target' = IF r.err = "ok" THEN r.v ELSE target
        /\ last' = [op |-> "parse", n |-> Default, err |-> r.err]
        /\ UNCHANGED <<type, buf, pos>>

Next ==
    \/ \E n \in Counts \cup {Default} :
            Set(n) \/ SetAtomic(n) \/ GetTo(n) \/ Get(n) \/ GetAtomic(n)
    \/ \E max \in Counts : GetToWithSize(max) \/ GetToWithSizeAtomic(max)
    \/ SetWithSize \/ Parse

Spec == Init /\ [][Next]_vars

----------------------------------------------------------------------------
(* Properties.                                                             *)

\* The object is always a value of its type, half read or not: a bool is 0
\* or 1, a fixed array keeps its length, every element of a container is
\* complete; and a call ends with an error that is declared.
TypeOK ==
    /\ target \in C.values /\ pos \in 0..Len(buf) /\ Len(buf) <= MaxLen
    /\ last.err \in Errors

\* What set writes, get reads back from where it begins, byte for byte and
\* value for value and whatever the nesting: with every count that fits,
\* which is none at all when the encoding delimits itself, and with its size
\* prefix in any case.
RoundTrip ==
    [][last'.err = "ok" =>
          /\ last'.op \in {"set", "set_atomic"} =>
                \A m \in Counts \cup {Default} :
                    m \in C.fits[target][last'.n] =>
                        C.read[C.fresh][buf'][Len(buf)][m] =
                            Done(C.kept[target][last'.n], Len(buf'))
          /\ last'.op = "set_with_size" /\ Len(target) \in C.fits[target][Default] =>
                ReadWithSize(C, C.fresh, buf', Len(buf), Len(target)) =
                    Done(C.kept[target][Default], Len(buf'))]_vars

InPlaceOps == {"get_to", "get", "get_atomic"}
SizedOps == {"get_to_with_size", "get_to_with_size_atomic"}

\* Reading accepts nothing that writing would not have produced: whatever a
\* successful call consumed is the encoding of what it decoded, which keeps
\* within the limits that the call and the type set.  (An array
\* read with a smaller size prefix keeps its other elements.)
CanonicalReads ==
    [][last'.err = "ok" =>
          LET consumed == SubSeq(buf, pos + 1, pos')
          IN  /\ last'.op \in InPlaceOps =>
                    C.write[target'][last'.n] = Wrote(consumed)
              /\ last'.op \in SizedOps /\ type.k # "array" =>
                    /\ WriteWithSize(C, target') = Wrote(consumed)
                    /\ Len(target') <= last'.n]_vars

\* A failed call leaves alone what is promised of it: the atomic ones the
\* object, the position and the buffer (DESIGN.md, README.md), get_to the
\* objects of scalar and contiguous types and their position, which are
\* judged before they are touched (WIRE_FORMAT.md), and the pointers and
\* variants that are replaced as a whole.
FailureKeeps ==
    [][last'.err # "ok" =>
          /\ last'.op \notin {"get_to", "get_to_with_size"} => target' = target
          /\ last'.op \notin {"get_to", "get"} => pos' = pos
          /\ last'.op # "set" => buf' = buf
          /\ last'.op = "get_to" /\ type.k \in {"byte", "bool", "block"} =>
                target' = target /\ pos' = pos
          /\ last'.op = "get_to" /\ type.k \in {"ptr", "variant"} => target' = target]_vars

\* What is read does not depend on what the object held before, a value or
\* the remains of a failed call: reusing an object is safe.  (An array read
\* with a smaller count keeps its other elements.)
OldObjectForgotten ==
    [][last'.err = "ok" =>
          /\ last'.op = "get_to" /\ last'.n \in C.whole =>
                C.read[C.fresh][buf][pos][last'.n] = Done(target', pos')
          /\ last'.op = "get_to_with_size" /\ type.k # "array" =>
                ReadWithSize(C, C.fresh, buf, pos, last'.n) = Done(target', pos')]_vars

\* parse takes exactly the encodings: every one of them that can be told from
\* what follows it, and nothing with a byte missing, left over or in another
\* form (WIRE_FORMAT.md).
ParseExact ==
    [][last'.op = "parse" =>
          LET Encodes(v) == C.write[v][Default] = Wrote(buf)
          IN  IF last'.err = "ok" THEN Encodes(target')
              ELSE \A v \in C.plain : ~Encodes(v)]_vars

\* A truncated encoding is told from a wrong one: whatever could still become
\* the encoding of a value is refused as insufficient_data, so that a caller
\* may wait for more bytes.
TruncationReported ==
    [][last'.op \in InPlaceOps /\ last'.n = Default =>
          LET left == Len(buf) - pos
          IN  (\E v \in C.plain :
                    LET w == C.write[v][Default]
                    IN  /\ w.err = "ok"
                        /\ left < Len(w.bytes) /\ SubSeq(buf, pos + 1, Len(buf)) = SubSeq(w.bytes, 1, left))
                 => last'.err = "insufficient_data"]_vars

=============================================================================
