# A TLA+ verification of strata-reader

strata-reader is a Rust crate with a `BufReader` whose buffer retains consumed
data (*lookbehind*) until it is told to drop it, and can be filled on demand
without consuming (*lookahead*).  Two types carry its logic:
`Buffer` (`src/src/buffer.rs`), a segmented byte buffer with its own growth
policy, and `Reader` (`src/src/reader.rs`), which puts a buffer and a maximum
capacity in front of a source and implements `Read`, `BufRead`, `Seek` and the
crate's own `DynamicRead`.

This directory holds TLA+ modules translated from that code, TLC
configurations that check them on small instances, and theorems about them
that the TLA+ proof system checks for every value of the constants.

```
tlc -workers 2 -config MCBuffer.cfg MCBuffer.tla      a model-checking run
tlapm BufferProofs.tla                                the proofs of a module
```

## 1. The system

### Components

| component | state | operations | what makes it correct |
|---|---|---|---|
| capacity arithmetic (`constants.rs`, `buffer.rs:508-593`) | none | `cap_down`, `cap_up`, `cap_up_linear` | each answers the closest supported capacity, over the whole range of `usize`, without wrapping |
| buffer storage (`buffer.rs`) | `buf: Vec<u8>`, `cap`, `len`, `pos` | construct, clone, clear, discard, consume, unconsume, compact, grow ×3, shrink ×2, `take_consumed` | `pos <= len <= cap == buf.len()`; no retained byte changes, is lost or moves to the wrong side of `pos` |
| byte fills (`buffer.rs:750-1160`) | locals of a call: starting capacity, total, `check_pos`, limit | `fill`, `fill_amount`, `fill_exact`, `fill_to_end`, `fill_while`, `fill_until`, all around `read_once` | only append; honest answers (EOF, Complete, Capped, counts); a limit is respected; excess capacity is given back; they return |
| text (`buffer.rs:1186-1475`) | locals of a call: `needle`, `check_pos` | `align_pos_to_char`, `align_pos_to_next_char`, `as_str`, `as_str_from`, `fill_until_str`, `fill_until_char` | a match that spans two reads is found; a character that a read or a consume cuts is never taken for invalid; text that is none is refused only when it is none |
| `ReaderBuilder`, `Read`, `BufRead`, `Seek` (`reader.rs`) | buffer, `max_capacity`, source position | `read`, `read_vectored`, `read_exact`, `read_to_end`, `read_to_string`, `fill_buf`, `consume`, `seek`, `seek_relative`, `stream_position` | the client sees one stream, whichever mix of buffered and direct reads serves it |
| `DynamicRead` on `Reader` (`read.rs`, `reader.rs`) | the same | bounded fills, shrink, compact, clear, discard, `take_buffer`, `take_consumed`, `get_mut`, `into_parts` | the buffer never outgrows `max_capacity`; the stream stays one |
| example programs (`examples/`) | `step`, locals, output | `print_records`, `print_frames`, `copy_body` | each takes its input apart without loss, refuses only what it should, and returns |
| result types, `Debug`, accessors | none | | |
| benches, CI, tests | none of the library's | | read as documentation of what is intended |

### How they interact

A `Reader` owns its `Buffer` and its source; nothing is shared between
threads, and each method borrows the reader mutably until it returns.  The
concurrency of the system is therefore between the code and the **source**,
whose `read` is called in the middle of every fill and may answer with any
number of bytes up to the slice it was given, with `Ok(0)`, with
`Interrupted`, or with another error; between the code and the **predicate**
that `fill_while` calls back after every read; and between the code and the
**client**, who may call anything next, also after a failure.

```
 example program
   │
 client ── Read/BufRead/Seek/DynamicRead ──> Reader ── fills ──> Buffer ── cap_*
                                               │                   │    └── text
                                               └── bypass, seek ── source
```

### What is hard

* A fill is interrupted by an error at any read.  Grown capacity and data stay
  behind, and the next call has to work with them.
* `fill_exact` uses `read_exact`, which may consume bytes and then fail; those
  bytes are in no buffer.  Everything that infers a position from the buffer
  (`SeekFrom::Current`, `stream_position`) is exposed to that.
* Reads go three ways (out of the buffer, through a refill, or past the buffer
  into the client's memory).  Their order is right only because each of
  the latter two requires the buffer to be exhausted.
* A relative seek whose corrected offset does not fit `i64` is two seeks.  If
  the second one fails, the first has moved the source.
* Growth is exponential until that would pass the limit, then linear.
  `fill_amount` grows beforehand and declares `Capped` unreachable.
* A text search decodes what has arrived, which begins and ends wherever the
  reads and the client's consumes left it, and looks back over an overlap of
  the needle's length less one, aligned to a character.  Too short an overlap
  misses a match; a cut or a second decoding taken for invalid refuses good
  text.
* A program over a `Reader` reasons from `FillResult`, `max_capacity` and the
  length of the buffer to "end of input" or "record too long", and consumes,
  looks back and reclaims in an order that is its correctness.
* Arithmetic near `usize::MAX` and near the largest supported capacity.

The `hazards` of `PROJECT.json` list these at their lines, each with the
properties that would catch it going wrong.

## 2. The modules

| module | stands for | notes |
|---|---|---|
| `Capacity` | constants and rounding functions | pure operators; width of `usize` and chunk size are constants |
| `CapacitySweep`, `MCCapacity` | | every request, one after the other |
| `BufferOps` | the methods of `Buffer` that do no I/O, and the growth policy of `read_once` | operators from a buffer to a buffer |
| `BufferFill` | the fills as a state machine, and its source | shared by the two modules below |
| `Buffer`, `MCBuffer` | a standalone buffer with its client | |
| `Stream` | the abstract specification of a `Reader`: a cursor in a stream | no buffer and no capacity |
| `Reader`, `MCReader` | a reader with its client | implements `Stream` |
| `Text` | the two alignments, `as_str`, `as_str_from`; `str::from_utf8` and `char::encode_utf8` | pure operators on byte values |
| `TextSweep`, `MCTextSweep` | | every run of bytes of every short text |
| `TextBuffer`, `MCTextBuffer` | `fill_until_str`, `fill_until_char` | extends `Buffer`; implements it |
| `Splitting` | the abstract specification of a program that splits a stream into records | no reader |
| `Program` | what the three example programs share: a `Reader` opened on the input, statements that wait for its methods, the return | extends `Reader`; extended by the next three |
| `Records`, `MCRecords` | `examples/records.rs` on a `Reader` | implements `Splitting` |
| `BinaryFrames` | `examples/binary_frames.rs` on a `Reader` | |
| `RetainedPrefix` | `examples/retained_prefix.rs` on a `Reader` | |
| `Examples`, `MCExamples` | | one of these two programs runs |
| `BufferOpsProofs`, `CapacitySweepProofs`, `BufferFillProofs`, `BufferProofs`, `ReaderProofs`, `ReaderStreamProofs`, `ExamplesProofs`, `TextProofs` | | theorems and lemmas, section 5 |

### State

`buf` is the record of the four fields of `Buffer`: `vec` (the `Vec`, with the
stale bytes past `len` as the code leaves them), `cap`, `len`, `pos`.  A byte is
abstracted to where it came from: `k > 0` is the k-th byte of the source, `Zero`
is a byte that `Vec::resize` wrote.  A byte's number is enough to state what
could go wrong (lost, repeated, moved, read from uninitialised space); which
bytes equal a delimiter is the constant `Delimiters`.

`inner` is the number of bytes the source has handed out (for a reader: the
source's position).  `call` is the fill in progress, or the last that returned:
its arguments and its locals `starting_capacity` (`start`), `total_bytes_read`
(`total`) and `check_pos` (`check`).  Two variables are history only and no
guard reads them: `lost`, the bytes that an all-or-nothing operation took
from the source and did not deliver, and the field `first` of `call`, the length
at the start.  In `Reader`, `maxCapacity` is the field and `task` a call of a
standard trait with the bytes it has given to its client.  In `Buffer`,
`taken` is what the last `take_consumed` returned.

Text needs the values of the bytes.  `TextBuffer` adds `content`, the value of
every byte of the source, chosen once, so that `Bytes(buf)` is what the code
sees, and the locals `needle` and `checkPos` of a search.  An offset counts the
bytes before it, as in Rust.

The programs add `step` (what the function does next), its locals, what it has
written (`printed`, or `header` and `body`) and `outcome` (what it returned).
`began` in `RetainedPrefix` is history.

### Actions

A method that cannot be observed half-way is one action.  A method that calls
the source is several: one per place where the source or the predicate may
decide.  The loop of a fill is, for every operation,

```
   StartFill*  ->  check  -- Finish (predicate, delimiter, amount) -->  returned
                     |    -- Capped                              -->  returned
                     |    -- PrepareRead (growth, slice)
                     v
                   read   -- ReadInterrupted (same slice again)
                          -- ReadFailed, ReadNothing             -->  returned
                          -- ReadBytes(n)                        -->  check
```

`Finish` and `ReadNothing` include the shrink that the code does before it
returns.  `fill_exact` is one step since `read_exact` of the source is one
call: `FillExactDone`, or `FillExactFailed` after any number of bytes.  The
predicate of `fill_while` is the caller's and may answer anything, or unwind
(`Abandoned`); `fill_all` is the `fill_while` with a constant predicate that
`Reader::fill_to_end` runs.

`fill_until_str` runs in the same loop.  In `BufferFill` what it decides
between two reads is left open like a predicate; `TextBuffer` decides it from
the bytes: `Found`, `NotText` (an `InvalidData` error, the same step as
`Abandoned`) or `ReadOn`, which sets `check_pos` back over the overlap.
`fill_until_char` is `fill_until_str` of the encoded character.  A `Reader` can
therefore have the open form, and a search restricts it, which
`TextFillsLikeBuffer` proves.

In `Reader`, `read`, `read_vectored` (the sum of its slices), `read_exact` and
`fill_buf` start a task, which steps through `ReadDirect`/`ReadDirectFailed`
(bypass), `Refill` followed by the steps of a `fill`, and `CopyOut`.
`read_to_end` and `read_to_string` are one action each with the number of bytes
the source gave and its verdict as parameters.  `SeekOnce`, `SeekTwice` and
`SeekHalfway` are the paths of `SeekFrom::Current`.

`GetMutCall` is a client that reads the source through `get_mut`: the bytes
join `lost`, and the stream must go on after them.  `IntoPartsCall` takes the
reader apart and builds another around the same source.

A program's action is one statement of the example together with the `Reader`
method it calls; `Inside` are the steps of the `Reader` while it waits.

A panic (`unreachable!()`, a slice out of range) is the result `"panic"`, a
value that `NoPanic` excludes.

`usize` additions and products that the code leaves unchecked are reduced
modulo `USIZE_MAX + 1` (`Wrap`), as in a release build.

### Seeded faults

An operator whose comment begins with `Fault:` is never used by a specification.
It is a plausible mistake in the definition that follows it (a dropped guard, a
swapped difference, a missing clear), and `PROJECT.json` names the property that
finds it.  Every property of every passing run has one.

## 3. The runs

| run | module, configuration | shows |
|---|---|---|
| `capacity` | `MCCapacity` | the three rounding functions agree with "least/greatest supported capacity" for every request; growth always makes room |
| `buffer` | `MCBuffer.cfg` | eleven safety and action properties of a standalone buffer |
| `reader` | `MCReader.cfg` | ten properties of a reader, one of them the refinement of `Stream` |
| `reader_live` | `MCReaderLive.cfg` | every read and every fill returns |
| `text_sweep` | `MCTextSweep` | alignment and decoding agree with the characters of the text, wherever a buffer of it begins and ends |
| `text` | `MCTextBuffer.cfg` | text searches between reads, consumes and splits: four properties, one of them the refinement of `Buffer` |
| `records` | `MCRecords` | `records` implements `Splitting` (`SplitsItsInput`) and goes on as that demands (`KeepsGoing`) |
| `examples` | `MCExamples` | `binary_frames`: frames come out whole, every verdict is right, the program returns; `retained_prefix`: header and body are the input, cut once |
| `shrink_above`, `consume_huge`, `position_after_failed_exact`, `invalid_skipped` | `MCBufferShrink`, `MCBufferConsume`, `MCReaderPosition`, `MCTextInvalid` | four sentences of the documentation that the code does not keep, section 4 |

The properties of `buffer`:

* `StorageInvariant` – the invariant of the doc comment of `Buffer`, at every
  moment at which foreign code runs.
* `BytesInOrder` – the retained bytes are consecutive bytes of the source, and end
  where the source stands, but for `lost`.
* `NoPanic`, `FillsOnlyAppend`, `SplitIsLossless` (`take_consumed` and `clone`), `TypeOK`.
* `CountIsExact`, `DelimiterVerdict`, `EofIsEnd` – what a fill returns is true.
  `DelimiterVerdict` is about the whole unconsumed region although each check
  looks only past `check_pos`.
* `LimitRespected`, `CapacityAfterFill` – the two halves of the growth policy.

Those of `reader` besides: `CapacityBounded`; `ShortReadIsEnd` and
`FillToEndFills` (coming back short means the end, or the maximum capacity);
`EofMeansEndOfStream` (which fails for an unbounded standalone fill and holds
here because each growth has a limit); `ReadsKeepCapacity`; `SeeksLand`; and
`SequentialStream`.

Those of the text runs: `WholeCharacters` (`as_str` gives exactly the whole
characters among the unconsumed bytes, and no error), `AlignsBackward`,
`AlignsForward`; `SearchVerdict`, which is about all the unconsumed bytes
although the code decodes each byte once or twice; `RejectsOnlyNonText`, by a
definition of "no text" that does not use the offsets of the code; and
`FillsLikeBuffer`, the refinement.

Those of the programs: `SplitsItsInput`, the refinement of `Splitting`, and
`KeepsGoing`, its fairness: the program hands out the next record or stops;
`FramesIntact` and `VerdictIsRight`, which compute from the input what the
program may print and return, so that the retry after a cut, the read-ahead of
`fill_amount` and the reclaiming `compact` cannot be confused; `HeaderThenBody`
and `RefusesOnlyLong`; and `Returns`.

**The abstract specifications.**  `Stream` has a cursor, and says that a read
serves the bytes from the cursor on, in order, each once; that a skip
(`consume`, `clear`, `discard`, `take_buffer`) does not go backwards; that a
move may go anywhere; and that everything else, a fill, a growth, a split,
leaves the cursor alone, except past bytes that have gone missing.  The mapping
takes the cursor from the reader's state: the first unconsumed byte, or the
source's position when there is none.  The refinement is what a bypass that
starts with unconsumed data, a refill without a clear, a copy without a
consume, or a seek that keeps the buffer would break.  Where a seek goes is
stated by `SeeksLand`, which excludes states with missing bytes for the reason
given in section 4.

`Splitting` knows a position and the records handed out.  It says that each
step hands out the next record whole, or stops: for a reason that is true of the
rest of the input, or for a failure.  `records` maps its position to the
reader's cursor, taking back the record that is consumed and not yet printed.

### Bounds

| run | instance | why it is enough |
|---|---|---|
| `capacity` | chunks of 8, 8-bit word: 15 chunks | as in the code a power-of-two chunk, a ceiling of 2^k - 1 chunks, and an exponential maximum strictly between; `MCCapacity` asserts what `constants/tests.rs` asserts of the real ones |
| `buffer` | chunks of 2, 5-bit word: 7 chunks; 5 bytes, one a delimiter; amounts 1, 3, 15, targets 1, 6, limits 3, 5, none | 6 = three chunks is no power of two, so linear and exponential growth differ; a limit of 5 (rounded 6) is passed by the exponential step from 4 to 8, which forces the linear fallback; 15 exceeds the ceiling and is refused; five bytes need two growths |
| `reader` | chunks of 1, 4-bit word, 3 bytes, maximum capacities 1, 2 (default), 3 (a larger initial capacity) and 4 (3 rounded up); source positions to 4; offsets -2 and 1 with `i64::MIN` = -2 | requests below, at and above the capacity, so that every read path is taken; an unread byte makes -2 underflow and take the two-step seek; position 4 is past the end |
| `reader_live` | 2 bytes | a refill, a bypass and a retry occur |
| `text_sweep` | characters U+61, U+E9, U+4E16, U+D7FF, U+1F600, up to three | one of each encoded length, and the last one before the surrogates, whose second byte is restricted; every run of bytes of every text, every position and offset |
| `text` | chunks of 2; four bytes: every stream of `a` and the two bytes of `é` that neither begins nor ends with `a`, some with three- and four-byte characters, cut characters, and a byte that no text has; needles empty, `aa`, `éa`, `a`, `é`, U+1F600; limits 2 and none | the overlap of a four-byte character is longer than a chunk and than a read; every read may cut every character; the buffer is full inside a character and `Capped` there; stray continuation bytes stand before, between and after, and in `b b A9 b` a search for one byte, which has no overlap, begins its next check on one |
| `records` | `RECORD_CAPACITY` 4 with chunks of 2; 14 bytes, newlines at 1, 3, 7, 8, 13; the input is any end of these | records of length 1, 2, 4 (fits exactly) and 5 (too long), an empty one, an unterminated end, an empty input |
| `examples` | window of 4, nine bytes; payloads of 0 to 3; newlines at 2 and 5, for `retained_prefix` in any end of the nine bytes; copies of 1 and 5 bytes | a payload of 2 fits exactly and 3 is too long; nine bytes end after a frame, in a length and in a payload; headers of length 1 to 4, no newline in the window, none at all; reads below and above the window, so that the copy bypasses the buffer and does not |

`StreamLen` and `MAX_POSITION` are the only bounds that stop a behaviour:
what the source has, and how far it lets itself be moved.  There is no bound on
the number of calls, and no state constraint.  In the text runs the client
between two searches consumes, goes back, compacts, discards, splits and fills;
the other methods do not depend on what the bytes are, and `buffer` has them.

Deadlock is checked in every run but the two sweeps, which end after the last
request or the longest text, and the example programs, which return.

### Fairness

`FairSpec` of `Reader` has weak fairness of `Work`: a method that was entered goes on, since the thread is not
blocked by anything in the crate.  The client is under no fairness and may stop
calling.  Weak fairness of the disjunction lets a source answer `Interrupted`
for as long as it likes without changing the state; such a step is a stutter
and does not count as progress, so the assumption amounts to this: the source
does not answer `Interrupted` for ever.  The code does loop for ever on such a
source (as the standard library does), and would not return from
`fill_to_end` of a source that has no end, which `StreamLen` excludes.

`RecordsSpec` and `ExamplesSpec` have weak fairness of the whole program (of
`binary_frames` in the latter), which is a single thread that runs by itself;
the same remark about `Interrupted` applies.  `KeepsGoing` and `Returns` follow
from it.  For `RetainedPrefix` no liveness is stated: `io::copy` reads again
after every `Interrupted`, from a new task, so a source could keep it going
without a stutter.

## 4. Where code and documentation differ

1. `shrink_above` (code): `shrink_targeted` only truncates the vector, but sets
   `cap` to the rounded target (`buffer.rs:744`) also when this is above the
   capacity.  Then `cap > buf.len()`, against the invariant of
   `buffer.rs:145`, and the next fill slices out of range.  The runs that pass
   require `ShrinkInRange` of the client instead; no caller in the crate
   violates it.
2. `consume_huge` (code): `pos + amt` is added before it is clamped
   (`buffer.rs:377`); an amount near `usize::MAX` wraps (release) or panics
   (debug), where the doc (`buffer.rs:361-362`) says it is clamped.  The passing
   runs require `ConsumeInRange`.  The client of this run only fills and consumes
   (`AnyConsume`), so that nothing else it does moves the position back.
3. `position_after_failed_exact` (doc): after a failed `fill_exact` the source
   is ahead of the buffer by bytes no one received, and
   `stream_position` (and `SeekFrom::Current`) no longer reports where the client
   is (`reader.rs:332` against `reader.rs:71-72`).  The run uses `AloneSpec`, whose
   client leaves the source to the reader (no `get_mut`), so that only a read that
   failed can lose a byte.
4. `invalid_skipped` (doc): a search begins at the first byte that is no
   continuation byte, and goes on from an overlap that is moved to a character
   in the same way, so a stray continuation byte at the end of what one read
   brought is passed over by the next.  `C3 A9 A9 A9`, read two bytes at a time,
   ends a search for `a` with EOF although its bytes are no UTF-8 (`buffer.rs:1450`), where
   the doc says that `InvalidData` is returned if the buffer contains invalid
   UTF-8 (`buffer.rs:1427-1428`); read at once, it is refused.  `SearchVerdict` and
   `RejectsOnlyNonText` state what does hold: the answer about the needle is
   right, and text that is valid but for its cut ends is never refused.

Two smaller ones follow from the definitions and have no run.  `grow_targeted` of
a capacity that already meets the target grows it when the target is not a power
of two of chunks (`buffer.rs:649` against `buffer.rs:630-631`).  An unlimited fill
that has filled the largest supported capacity cannot grow, reads into an empty
slice and reports the `Ok(0)` as EOF, which a 64-bit address space keeps out of
reach; `EofIsEnd` states exactly this exception.

## 5. The proofs

Everything below holds for every value of the constants that satisfies the named
assumptions: `CapacityAssumption` (a positive chunk, room for two chunks below
half of `usize`), `WordAssumption` (`usize::MAX + 1` is a power of two),
`NoLimitAssumption`, `SourceAssumption`, `ClientAssumption`, `ReaderAssumption` and
`RecordAssumption` (the types and ranges of the parameters), `FramesAssumption` (a
chunk, which is the window of `binary_frames`, holds at least a length field),
`PrefixAssumption` (delimiters are bytes of the stream, `io::copy` reads into some
memory), `TextAssumption` and `CharsAssumption` (the source holds bytes, of any value; what is searched
for is a string of Unicode scalar values, as a `&str` or a `char` is).  The
chunk size need not be a power of two.  TLC evaluates the assumptions on every instance.

| theorem | module | of run |
|---|---|---|
| `LinearRoundingHolds`, `ExponentialRoundingHolds`, `DownwardRoundingHolds`, `GrowthMakesRoomHolds` | `CapacitySweepProofs` | `capacity` |
| `StorageInvariantHolds`, `NoPanicHolds`, `BytesInOrderHolds`, `TypeOKHolds` | `BufferProofs` | `buffer` |
| `SplitIsLosslessHolds`, `FillsOnlyAppendHolds`, `CountIsExactHolds`, `DelimiterVerdictHolds`, `LimitRespectedHolds`, `CapacityAfterFillHolds`, `EofIsEndHolds` | `BufferProofs` | `buffer` |
| `CapacityBoundedHolds`, `ReaderNoPanicHolds`, `ReadsKeepCapacityHolds`, `EofMeansEndHolds`, `FillToEndHolds`, `ShortReadHolds` | `ReaderProofs` | `reader` |
| `SequentialStreamHolds`, `SeeksLandHolds`, `PositionIsLogicalHolds`, `ReaderBytesInOrderHolds`, `ReaderTypeOKHolds` | `ReaderStreamProofs` | `reader` |
| `HeaderThenBodyHolds`, `RefusesOnlyLongHolds`, `FramesIntactHolds`, `VerdictIsRightHolds` | `ExamplesProofs` | `examples` |
| `SplitsItsInputHolds` | `ExamplesProofs` | `records` |
| `AlignsForwardHolds`, `AlignsBackwardHolds`, `WholeCharactersHolds` | `TextProofs` | `text_sweep` |
| `TextFillsLikeBuffer`, `TextStorage`, `TextTypeOKHolds`, `SearchVerdictHolds`, `RejectsOnlyNonTextHolds` | `TextProofs` | `text` |

**Capacity** (the first part of `BufferOpsProofs`).  From facts about integer division (`Division`,
`MulMod`, `ModMul`, `MulMono`, `MulCancel`) follow `Ceiling` (rounding up with
`+ CHUNK_SIZE - 1` is the least chunk count that fits) and `Spacing` (capacities
are a chunk apart), and from these `LinearUp` and `Down`.  `cap_up` needs powers
of two without a recursive definition: they are the numbers all of whose divisors
but 1 are even.  `Half` and `Doubling` relate one power to the next,
`NextPower` gets the least one above a number from the well-ordering of the
naturals (`Least`), and `ExponentialCeiling` places the exponential maximum below
the ceiling; `ExponentialUp` and `RoomAbove` are the results.

**Operators** (the rest of `BufferOpsProofs`).  One lemma per operator of `BufferOps`: it
keeps `WellFormed`, and what it does to `pos`, `len`, `cap` and the retained
bytes.  These are the only facts of the storage that the next layers use.

**Fills** (`BufferFillProofs`).  `StorageInvariant` is not inductive: that the
growth inside a fill is right depends on the locals of the call.  The
strengthening is `FillInvariant`, whose conjunct `Running` says of a fill in
progress that its starting capacity is a capacity not above the present one (so
that the final shrink never enlarges `cap`: this is what makes the code's own
calls of `shrink_targeted` safe from finding 1), that `buf.len` is the length at
the start plus the total, that a running `fill_amount` has capacity for all it
asked for (so `Capped` cannot happen before it is complete: this is the argument
that `unreachable!()` is unreachable), and that `fill_to_end` runs without a
limit.  There is one lemma per action.  The module does not mention the client
and holds for `Reader`'s use of the fills too.

**Byte order.**  `BytesInOrder` is preserved relative to `WellFormed`: an
operation that keeps a contiguous part of the data keeps the order (`KeepsOrder`),
and a read appends the next bytes of the source (`AppendKeepsOrder`); `lost` only
grows.

**Buffer** (`BufferProofs`).  `Inductive` is `FillInvariant` together with
`WellFormed(taken)`; it holds initially, every disjunct of `Next` preserves it,
and the theorems follow by temporal induction.  TLC confirmed that
`Inductive` is an invariant before the proof.

**Answers** (the second part of `BufferProofs`).  What a fill returns is true because of what it
knows while it runs, which is more than `Running`.  `Underway` adds: nothing before
`check_pos` in the unconsumed region is a delimiter (`Searched`, so the verdict of
`fill_until` covers the bytes that it does not look at again); a read has room,
unless the buffer is the largest there is and has no limit (`HasRoom`, so `Ok(0)` means the
end, with the one exception that `EofIsEnd` states); and how far the capacity may have
grown, by operation: not at all in `fill`, to the amount asked for in `fill_amount`, to
the limit where there is one.
`Sound` is `Inductive`, `Underway`, and that an idle buffer's last answer is true
(`Answers`); it is inductive, and the theorems about answers are its consequences.
`SplitIsLosslessHolds` and `FillsOnlyAppendHolds` are about single steps and need only
`Inductive`: two vectors that agree on a stretch have it as a common subsequence
(`SameStretch`), which takes the place of an induction over the data.

**Reader** (`ReaderProofs`).  Three layers.  `ReaderInv` is `FillInvariant` with the reader's
bounds and `Driven`, which says of a fill in progress that its limit is
`max_capacity` or its own capacity, and that a read has room: the reader never
makes the unlimited fill of the exception above, so `EofMeansEndOfStream`, false of
a `Buffer` in general, holds here.  It carries `CapacityBounded` (a limit that is a
supported capacity is its own rounding, `Aligned`, and growth for a fill never passes
the rounded limit, `FillStepCapacity`) and `NoPanic`.
`Verdicts` adds `Waiting`: a task that waits for a refill has an empty buffer, and a refill
that completes has brought something, so that a copy of nothing can only come
from the end.  `FillToEndFills`, `ShortReadIsEnd` and `ReadsKeepCapacity` follow from it.

**Stream** (`ReaderStreamProofs`).  What the client sees as one stream is a matter of
which bytes the buffer holds, and `BytesInOrder` is too weak for it: it bounds the
retained bytes and says nothing of a gap.  `Retained` has four parts: every retained byte was given by the source
(`Given`), they increase (`Sorted`), every byte between a retained one and the source's position
is retained or in `lost` (`Covered`), and if nothing is lost at all they are consecutive and
end at `inner` (`Contiguous`).  The second and third are stated over all pairs of
retained bytes, so that no step of the proof needs an induction over the
buffer.  TLC checked `Retained` on `MCReader` first.  The fifty or so actions are then five kinds of step, each with
what it does to buffer, source and task: `Hides` (the retained bytes become a
suffix of what they were, or none, while the source stays or loses bytes that are put in `lost`), `Holds` (the
unconsumed bytes stay as they are, at their end the source may have appended), `Skips` (the position
goes forward), `Jumps` (a seek) and `Reading` (serve, drop, copy out, drain).  `NextKind` says that every
step is of one of these; `KindRetains` that each keeps `Retained`; and one lemma
per kind maps it to a step or a stutter of `Stream`: together,
`SequentialStreamHolds`.  `SeeksLandHolds` needs `Contiguous`: with nothing lost, the byte that the client is at is
`inner` less the unconsumed ones (`ClientBehind`), which is what the correction of the
offset, the two-step seek and the steps inside the buffer compute with.
`PositionIsLogicalHolds` is the other side of finding 3: as long as nothing is lost,
the documented sentence about `stream_position` is true.

**Programs** (`ExamplesProofs`).  A program moves its reader only by methods, so
`Served`, the reader's invariants with nothing lost and the source not past its
end, holds throughout, and what is in the buffer is a run of the input
(`HeldRun`).  Each program then has an invariant with one conjunct per value of
`step`: what the locals, the buffer and the output are when that statement is
next.  `PrefixInv` places the front of the buffer and the end of the body in
the input; `FramesInv` says that the frames printed add up to the front of
the buffer, and that a fill which came back short has met the end of the input
(`ShortFill`); `RecordsInv` says that a record is consumed exactly while it waits
to be printed.  Where frame k begins is a recursive function of the frames
printed; that it exists and is the same after one more frame is shown by
least counterexample (`SumsExist`, `SumsAgree`), in the place of an induction.
`SplitsItsInputHolds` maps every step of `records` to a step of `Splitting` or to a stutter
(`DeliversRecord`, `RefusesRecord`, `EndsWithInput`).

**Encoding** (the first part of `TextProofs`).  An encoded character has one of the eight
byte forms that `str::from_utf8` accepts (`EncodeForm`).  A string is
described by `WellEncoded`: a set of boundaries such that a continuation byte stands
exactly where no character begins, and what begins at a boundary is whole and
ends at one.  `StringsEncoded` proves it of every string by least
counterexample over its prefixes, with the recursive function behind
`FlattenSeq` unfolded a step at a time (`FlattenAppend`).  `HeldPart`
carries it over to any run of the bytes, where the first and the last character may be
cut (`PartEncoded`).

**Alignment and decoding.**  `NextCharIs` and `LastStartIs` say what the two scans of
the code find; with `HeldPart` these are the boundaries.  `valid_up_to` is
defined by recursion towards the end of the buffer; `UpToExists` shows by
descent (`Downwards`) that the definition has a solution, `ValidUpToStops`
that it stops where no character is whole, and `DecodesAll` that in a part
of a text this is the last boundary, and what follows a character cut short.

**Search** (the rest of `TextProofs`).  Every step of a text fill is a step of
`Buffer` (`TextFillsLikeBuffer`), one lemma each for the client, the start of
a search and what it decides, so the theorems of `BufferProofs` hold of text
fills without another induction.  `SearchVerdict` is not inductive: it needs
that the bytes before `check_pos` are done with.  `Sought` says so: from no
offset before `check_pos` do the bytes read so far agree with the needle as far as both go
(`Differs`), which is more than that the needle is not there, because a match may be half read.
One check decides about all the bytes
it decodes, and about the cut character behind them too (`CheckDecides`), and the overlap it
keeps is long enough (`GoesBack`).  Nothing of this needs the content to be text.  For
`RejectsOnlyNonText`, `Understood` says of the bytes before `check_pos` that they
are continuation bytes and then a chain of whole characters, or that the text is
already broken by a continuation byte which no character expects (`Decoded`); each check extends the chain
(`DecodesFurther`), and an error of the last check is one of the whole
(`RejectsAll`).  TLC checked `Sought` and `Decoded` on `MCTextBuffer` before they were proved.

**Only model-checked**: `CallsReturn` of `reader_live`, `KeepsGoing` of `records` and
`Returns` of `examples`.  They are liveness properties, whose proofs need the
enabledness of the fair actions, which the prover does not support.  Every other
property of a passing run is a theorem.  The four sentences of section 4 are refuted by
counterexample and need no proof.

## 6. What is not modelled

* A client that moves the source backwards through `get_mut`; `GetMutCall` reads
  forwards.
* The default `discard` of a foreign implementor of `DynamicRead`; the trait's one
  implementor here is `Reader`.
* Allocation failure aborts and is not a behaviour, but for `try_reserve` in
  `read_to_end`, which is `ReserveFailed`.
* A source that answers more than the slice it was given breaks the contract of
  `Read` (the buffer clamps nothing and would panic or run past its storage); the
  model's sources keep to it.
* `str::from_utf8`, `char::encode_utf8` and `io::copy` are the standard library's;
  they are modelled from their documentation and marked external.
* `main` and the wording of what the examples print.
* `Debug`, accessors, equality and the crate root have no state; benches and CI
  are no part of the program.
* The source keeps its position when a seek fails, answers `Ok(0)` only at its end
  or for an empty slice, and keeps its contents; `Read` and `Seek` document this.

## 7. The plan

Modelled: everything of the crate that changes state, and its three example
programs.  Proved: every safety and action property that the runs check, and
both refinements of a `Reader` and of a program, for every value of the
constants.  Left:

1. The other sides of findings 1 and 2: the documented sentence of `consume` holds under
   `ConsumeInRange`, and that of the storage under `ShrinkInRange` (which `StorageInvariantHolds`
   contains), as `PositionIsLogicalHolds` states it for finding 3.
2. The safety half of the liveness properties: that a fill which is not
   interrupted makes progress (its total grows, or it returns), from which only the
   appeal to fairness would be left to TLC.
