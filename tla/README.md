# json-bourne in TLA+

A verification development for `bourne`, a JSON library in Rust: a byte-level
lexer, a streaming parser, typed readers and writers, and the derive macros
that generate readers and writers for user types. The modules here follow
`crates/bourne/src` and `crates/bourne-derive/src`; TLC checks them on small
instances and TLAPS proves the central facts for every instance.

The program is sequential. What is hard in it is not interleaving of threads
but interleaving of *calls*: a caller may go on after an error, mix two APIs
over one cursor, rewind to a checkpoint, or stop half way; and the library
keeps the same fact in two places (a grammar state and a packed stack, a
"pending open" flag and the text already written, a set of filled slots and a
cursor), which every method has to keep together.

## Inventory

| part | state | operations | hard behaviour | correct when |
|---|---|---|---|---|
| nesting stack, `lexer.rs` `Stack` | `bits: u128`, `len` | push, pop, top, truncate | popped frames leave stale bits; depth limit = width of the shift | it answers as a bounded stack |
| lexer, `lexer.rs` `Lexer` | cursor, stack | `read_value`, key walkers, `array_*`, `parse_*_value`, `skip_value`, `checkpoint` / `restore` | errors leave bytes consumed and frames pushed or popped; speculation rewinds | each method consumes one construct of RFC 8259 |
| streaming parser, `parser.rs` | lexer + grammar `State` | `next_event`, eight fast-path methods | the state must be written back by every method that moves the cursor | the events are those of one document; accepts exactly JSON |
| number literals, `lexer.rs`, `event.rs` | digits so far, accumulator, digit count | `read_number`, four fused integer readers, `as_i64` / `as_u64`, float fast path | digits folded without overflow checks; two readings of the same literal | the value is the literal's or the call fails; both readings agree |
| escape codec, `escape/` | surrogate half pending, output position | decode, validate, write | two implementations must agree on surrogate pairing | decode inverts encode; the validator accepts what decode accepts |
| typed readers, `de.rs` | cursor, the collections under way | `parse`, `FromJson` for std types, `parse_map`, `parse_set` | several fused fast paths for the same construct; a container's items read by any other type's reader | a type reads exactly the texts that fit it, and the frames are those of the containers under way |
| derived readers, `bourne-derive/from_json` | slots, key cursor, checkpoints | object read, tagged and untagged enums | duplicate, missing, unknown and aliased keys; keys with escapes are re-read; tag found after content | a declarative reading of the member list |
| pretty sink, `ser.rs` | `pending_open`, depth, text | `JsonWrite` methods | an opening bracket is held back | the text is the compact writer's plus layout |
| byte sink and slices, `ser.rs` | a vector's length and capacity, the window under way | unchecked writes of digits, delimiters and floats, `reserve_hint` | a bounds check is left out where room was looked for or reserved before; declared lengths may be wrong | no write leaves its place; the bytes are the array's |
| stream sinks, `ser.rs` | the writer | `write_all`, `write_str` | a write fails half way | a prefix of the text, and the first error |
| derived writers, `bourne-derive/to_json` | comma plan | object and enum writing | commas around conditionally skipped fields | no comma is doubled or missing |
| floats, `float.rs`, `teju_gen.rs` | a buffer of 32 bytes | shortest decimal, its digits, their layout | table arithmetic in words; digits written out of place and shifted | the shortest decimal in the rounding interval, and the nearest of those |
| casing, naming | none | `rename_all` | word boundaries | agrees with its table of examples |
| errors, events, scratch buffers | plain data | | | |

How they interact: the parser *owns* a lexer and calls it for every byte;
typed and derived readers call the lexer directly (`Parser::lexer`), so they
share its cursor and its stack; generated code takes checkpoints of the lexer
and restores them; writers call a sink through the `JsonWrite` trait, and the
derive macro decides at compile time which separators it writes itself and
which it leaves to the sink.

## Plan

Done, in this order:

1. `FrameStack`, `NestStack` (refinement), `Lexer`, `Parser`, `EventGrammar`
   (refinement), `ParserClient`, `SkipValue`, judged by `JsonGrammar` on the
   inputs of `Documents`.
2. The derived readers over the same lexer: `StructReader`, then `EnumReader`
   with `ExternalEnum`, `InternalEnum`, `AdjacentEnum` and `UntaggedEnum`.
3. The writers: `PrettySink`, `Writer`.
4. Below the tokens: `NumberLiteral` and `NumberReader`; `EscapeCodec` and
   `StringReader`.
5. The proofs: `WordProofs` (the packed stack, the integer folds),
   `LexerProofs` (with `skip_value`), `ParserProofs`.
6. `TypedReader`: the containers of `de.rs` around each other and around
   `StructReader`, with `parse` on top.
7. Where bytes go: `DecimalDigits`, `Teju` and `FloatText` (numbers to text),
   `ByteSink` (the sinks) and `SliceWriter` (a slice with its reservations),
   with the proofs in `SliceWriterProofs`.
8. `RoundTrip`: `Writer` composed with `TypedReader`.
9. `ParserProofs` for calls in any order and for the consumer that mixes
   methods; `ReaderProofs` for all typed and derived readers; `WriterProofs`.
10. `StringProofs`; the reservation in `SliceWriterProofs`; the lines of the
   pretty text and the grammar of the compact one in `WriterProofs`.
11. `GrammarProofs`, and on it acceptance: `next_event`, the mixing consumer and
   `skip_value` against RFC 8259. What integers, elements and floats are read, in
   `WordProofs`. The text every sink gets, in `SliceWriterProofs`.

Next, models: `casing.rs` as operators; the tagged variants in `RoundTrip`.

Next, theorems: for the readers an invariant over the member list that stands
where `StructReader`'s recursive reading does now.

## Modules and the code they stand for

`PROJECT.json` maps every definition to its lines. In general:

**`FrameStack`, `NestStack`, `FrameSequences`.** `NestStack` is `Stack` of
`lexer.rs`: `bits` and `len`, with `push`, `pop`, `top` and `truncate` as
actions of `StackSpec`; `answer` is what the last one returned. `pop` and `truncate` leave bits above `len` behind, as the code does.
`FrameStack` is what callers believe: a bounded sequence of frames.
`FrameSequences` holds the few operators on such sequences that `Lexer` uses.

**`Lexer`.** One action (or one effect operator) per method of `Lexer`. The
input is a sequence of token classes, and `offset` counts tokens. A string, an
escaped string and a keyword are one token each; `"1"` is a digit, and a number
is a maximal run of them, so that two calls cannot split it. `"lone"` is a
string with an unpaired surrogate (the validator refuses it, `skip_value` and
the `_lex` key walkers let it through), `"junk"` a byte that starts nothing,
`"unopened"` a junk byte where an opening quote is due. `frames` is the stack,
justified by `NestStack`; `ret` is what the last call returned, an error
included. An error leaves the cursor where the code leaves it.

**`Parser`** adds `state`, the code's `State`, and has one action for
`next_event` (its match arms are the operators `Ev...`) and one per fast-path
method, with the write-back each performs. `failed` is a history variable.
`FairStream` calls only `next_event`, going on after errors; `AnyCalls` calls
anything at any time. **`EventGrammar`** is the abstract specification of the
event stream. **`ParserClient`** is a consumer that knows which construct comes
next and may read it with any method that reads it, and a careless one
(`CallAnything`), which calls any method at any time, after errors too. What must be accepted
(`AcceptsExactlyJson`, `MixedAcceptsOnlyJson`) stands beside what accepts it.

**`SkipValue`** is `skip_value` with `skip_array_body` and `skip_object_body`;
the Rust recursion is the frame stack above the caller's. A skip stops where a
value of the grammar ends, or nowhere (`SkipsExactlyOneValue`).

**`StructReader`** is the code that `ObjectReader` generates, step by step:
borrowed key, rewind and decoding retry, dispatch, the slot, unknown keys,
settling. **`TypedReader`** puts the readers of `de.rs` around it: `calls` is the
Rust call stack of `from_lex` methods, one entry for each container under way
with what it has collected; `want` is the type read next. An action is one step
of a method between two of its callees. A repeated key is looked for after its
value, as `try_insert` does; a set drops what it has; an array or a tuple must
close after its last item. `Vec<i64>` and `Vec<&str>` take the fused readers for
their items and the others the item's own `from_lex`. **`EnumReader`** reads a variant's body; the four mode modules are the
four generators of `from_json/enums.rs`, with their checkpoints; their names
begin with the mode, and `MCEnums` extends all four.

**`PrettySink`, `Writer`.** A sink is a record and each method of `JsonWrite` an
operator. `Writer` performs every call on both sinks at once; `stack` is the
Rust call stack of nested `write_json` calls, and `comma`, `first` are the
separators the derive macro decides at expansion and at run time. The values
written are `Nodes`, which `WriterAssumption` closes under the parts of a value.
`Words` are the texts and keys; none of them is a bracket, a comma or a colon
(`WordsAssumption`, what the escaping of `EscapeCodec` is for), and `KeyTokens`
are those of them that are written in quotes. `Shows` says when a text with
layout is another text.

**`RoundTrip`** composes `Writer` with an instance of `TypedReader`: when the
writers are done, `HandOver` calls `parse` on what the compact or the pretty sink
holds, with the type the value was written from. Nothing is shared but the text
and the attributes of the fields. Absent and defaulted fields are compared as the
values they stand for: `None` may have been written or left out.

**`NumberLiteral`, `NumberReader`.** The digits are those of a base `Base`, the
words are `0..Max64` and `0..Max128`, both small. `NumberReader` is one action
per turn of the digit loops; `NumberLiteral` has the walk of the grammar, the
decoding of a literal and the float fast path as functions. A result is judged by
the text alone: where its integer literal ends and which number that is
(`ReadsExactlyTheIntegers`); the other way the library reads the same number
(`ElementsReadAsTheyDoAlone`); the grammar walk (`FloatsFollowTheGrammar`).

**`EscapeCodec`, `StringReader`.** The bytes that the code tells apart have
names (`quote`, `backslash`, `u`, `lead2`, `cont`, ...); a `\u` escape has four
digits of a small radix, so that 16 code units with 2 high and 2 low surrogates
stand for the 65536. `StringReader` steps through the scan, the validator and
the decoder. The SSE2 scans are modelled by the byte they stop at, which is the
byte the scalar loops stop at.

**`DecimalDigits`, `Teju`, `FloatText`.** Pure functions. `Teju` is the shortest
decimal of `mantissa * 2^exponent`, with the widths of words and mantissas as
constants and the two tables computed by the generator's formulas (the cap on
the table of inverses of powers of five included). `FloatText` is
`format_finite_to_ptr` as a list of unchecked writes at offsets, in the order of
the code, and the length it returns: the sign that is always written and
overwritten, the digits put one place to the right and shifted. The digit
counters keep their tables and thresholds up to 31 bits, which is what TLC's
integers hold.

**`ByteSink`, `SliceWriter`.** A sink is a record. Of a vector it has the memory
up to the capacity, byte for byte, so that a byte that nothing wrote is seen;
`wild` records an unchecked write that left its place, `grew` a reallocation
since the last reservation. A stream takes `room` bytes and then fails once.
`SliceWriter` is `[T]::write_json`: the plain writer, the hinted one for a slice
within `ReserveWindow`, the windows for a longer one. `MAX_SERIALIZED_LEN` is
part of the job (`max`), and may be wrong.

**`JsonGrammar`** is RFC 8259 over the same tokens, and is no code of the
repository: acceptance is judged by it. `Lexemes` is the text without whitespace
and with one token for each number; `Derives` is a function over spans of it, one
production at a time. Both are recursive functions, so that they can be proved
about.

## Runs

| run | what it asks |
|---|---|
| `nest_stack` | does the packed stack answer as a bounded stack, whatever was pushed and popped before |
| `stream` | does `next_event` accept exactly JSON; is the event stream that of one document; does the state always name the innermost container; does a pull loop end |
| `client` | does a consumer that mixes methods stay in step with the parser, and accept only JSON; whatever is called in whatever order, are the frames the containers that the text read so far leaves open, so that no close matches the wrong bracket |
| `client_resume` | the same with `next_event` after `array_continue`: violated, finding 1 |
| `skip_value` | does a skip consume exactly one value, keep the caller's frames, and return |
| `typed_readers` | does each type read exactly the texts that fit it, and the value that stands there (order, duplicates, escaped spellings, unknown, missing and defaulted members of a struct; lengths of arrays and tuples; repeated keys of maps and items of sets); are the frames at every step those of the containers under way; does every reader return |
| `enums` | the same for four tagging modes; is the first untagged variant that reads the one chosen |
| `tag_quote` | is a tag always read at a quote: violated, finding 2 |
| `writer` | is the written text JSON, is pretty the compact text plus layout, is every line indented by its nesting; does every write finish (deadlock check); is the value read back from either text, with what the writer left out supplied |
| `numbers` | exact accumulators, exactly the integers of the type, agreement of the two readings, the float fast path inside the grammar |
| `byte_sink` | is what is written the array, every byte of it, under every reservation; does an unchecked write stay in its place, even where a declared length is wrong; is a reservation enough where it is right; is a float's decimal the shortest and nearest; does every sink get the same text, and one that fails a prefix and the caller the first error |
| `strings` | validator and decoder against the table of RFC 8259, output always whole characters, what the writer writes reads back, skipped keys differ only in surrogate pairing |

### Bounds, and why they are enough

- `MaxDepth` is 2 for everything over `Lexer`. `stream` also reads documents
  one level deeper; the `typed_readers` and `enums` runs enter with zero, one
  and two frames open, so that the limit is met at each of the reader's own
  containers.
- The documents are all those up to two containers deep with up to two items
  each, the smallest in which a comma, a first and a later item, and a
  container inside either kind of container all occur. To them come every
  sequence one token away (an insertion, a deletion or a replacement), which
  breaks each construct at each of its positions, and for `stream` every
  sequence of up to four tokens. `typed_readers` and `enums` use objects of up
  to three members: a duplicate around a third member, a tag before, between
  and after.
- `client`: the careless consumer reads the documents of up to `CarelessLength`
  = 11 tokens, and what is one token away from them: enough for each kind of
  container inside each kind with an item behind the inner one, and for a
  bracket too many, too few or of the wrong kind. `FramesAreWhatIsOpen` has no
  such bound. `client_resume` has no careless consumer: the resuming it asks
  about is that of a consumer that knows what comes next.
- `typed_readers`: each container of scalars, of each other and of the struct,
  two levels deep, on arrays of up to three items (one too few, exactly, one too
  many for a pair) and maps of two members over two keys in two spellings.
- `byte_sink`: the window is 64 bytes instead of 256 KiB, so that three integers
  or two floats are written in windows, of up to four integers or 36 words a
  slice. The vectors have spare capacities on both sides of each test of the
  code (0, 3, 40 and 115 bytes, at two lengths); streams fail before, within and
  behind an element. Integers are both neighbours of every power of ten up to
  2^31. The float format has 4 bits of
  mantissa, words of 12 and exponents from -34 to 10: all of its floats are
  written, among them the smallest mantissa of every exponent. In it no odd mantissa has a decimal exactly
  on the upper end of its interval, which is the one tie that is not exercised.
  Doubles by their decimals are those around each change of layout (`point` at
  -6 and 21, three-digit exponents, one digit and many). `VecMax` is 4000 so
  that a hint can exceed it.
- `nest_stack` has depth 4 in a field of 5 bits: every pattern of
  stale bits lies above every shorter stack, and a frame past the limit would
  still have a bit to land in.
- `numbers`: base 3 with words 0..31 and 0..127, three and four unchecked
  digits (`27 <= 32`, `81 <= 128`), as the code has 19 and 38 decimal digits in
  64 and 128 bits. Digit strings go up to six digits (729), beyond both words,
  so both limits are crossed from below, in the unchecked and in the checked
  part. Why the code's own numbers are inside their words is the theorem.
- `strings`: bodies of up to two pieces out of whole and broken escapes,
  surrogates, characters of one to four bytes and closings. Pairing and
  truncation involve at most two neighbours. `Capacity` is the code's own 4.
- `writer`: structs of three fields with each combination of attributes:
  separators are decided from the field before and the first written field,
  and three fields have a first, a middle and a last one. A field is fused,
  renamed to a key with an escape, skipped, an option that is there, left out or
  written as null. Of the 3735 values 1035 are of types that `TypedReader` reads
  (fields are numbers and options, one kind of struct in a value, no variants with
  a content); they nest up to the reader's `MaxDepth` of 3 and are read back.

### Fairness and deadlock

The code is sequential and has no loops that wait: a call under way runs to its
return. `skip_value`, the readers, `strings`, and `writer` therefore assume `WF_vars(Next)`
and their liveness property is that the call returns. `FairStream` assumes
weak fairness of `next_event`, i.e. of a `while let` loop that goes on calling,
and shows that such a loop ends. No other fairness is assumed. Runs whose
behaviour ends with the call set `CHECK_DEADLOCK FALSE`; `writer` has a
`Finished` step instead, so that a deadlock there would be a writer that
cannot go on. `stream` and `nest_stack` check deadlock.

## Proofs

Each theorem holds for every value of the constants, under the named ASSUMEs.

A recursive function is defined by CHOOSE, so the first thing to prove of one is
that its equation has a solution, then that any solution is the one meant. The
library's induction theorems cannot be used for that (they take an operator), but
their content can: the set of counterexamples is a set of naturals, and if it is not empty
it has a least member, on which the equation, applied once, gives a
contradiction. `GrammarProofs` and `WordProofs` do all their inductions so.

- **`WordProofs`** (`WidthAssumption`: `MAX_DEPTH` fits the field, what
  `Stack::new` asserts; `NumberAssumption`: the digits folded unchecked fit the
  word, which the code's numbers do: `10^19 <= 2^64`, `10^38 <= 2^128`,
  `10^18 <= 2^63`). What is packed into one machine word.
  `StackTypeCorrect`, and `PackedStackIsAStack`, that `NestStack` implements
  `FrameStack`. The point is that the abstraction reads only bits below `len`, so
  a step that leaves stale bits above maps to the abstract step.
  `FoldNeverWraps`: the unchecked digits never leave the word. The invariant is
  that after `k` unchecked digits the accumulator is below `Power[k]`, together
  with the bound on the count.
  `IntegersAreReadExactly`: a fused reader accepts just the integer literals whose
  value its type holds, with that value and the cursor right behind it, and
  refuses for range only one that is out of it. The
  accumulator alone does not say so; `Standing` adds that the digits behind the
  cursor are the literal's from its first one on, and that the number so far is
  `NumberAt` of them. A literal refused half way is out of range whatever follows,
  since digits never make a number smaller.
  `ElementsReadAlike`: the two decoders of a walked literal (`event.rs`) have the
  same verdict and value as the fused readers, also at their own thresholds of
  19 and 18 digits, where one folds unchecked and the other does not.
  `FloatsAreWalked`: where the float fast path answers, the grammar walk ends in
  the same place, and the mantissa is the digits' number without a wrap.
- **`GrammarProofs`** has no theorem for itself, it is what the four modules about
  readers and writers know of `JsonGrammar`. `Derived` is the least set of spans
  closed under the productions; it solves `Derives`' equation, and by induction
  over the length of a span nothing else does, so that what is not `Derived` is
  not JSON. `Completable` is the grammar as a reader from left to right meets it:
  what is due next, inside which open containers, and whether the rest of the text
  completes them. At the beginning of a text that is being a document, and each
  token moves it on by one lemma.
- **`LexerProofs`** (`LexerAssumption`): one lemma per kind of effect a method
  can have on the cursor and the frames, `restore` included, which the next
  modules cite. And `SkipKeepsCallerFrames` (`SkipAssumption`: it is entered with
  a stack within the depth limit), about `skip_value` by itself. The property
  alone is not inductive: a body needs at least one frame of its own above the
  caller's, so that its closing bracket pops that one; `SkipInv` adds it.
  Then each method as a reader of the grammar: `Expects` says that the text is a
  document, or a value, exactly if what is due at the cursor, inside the open
  frames, can be completed. `SkipsOneValue` follows: on success nothing
  is left to complete, and after an error nothing could be completed,
  the depth limit included.
- **`StringProofs`** (`CodecAssumption`, `SourcesAssumption`):
  `TextIsAlwaysText`, that what is handed out as `str` without a check, borrowed
  or decoded, is whole well-formed characters. The SAFETY comments rest on the
  scan having passed over whole characters, so the invariant is about the
  cursors: the bytes between the opening quote and the scan's cursor are text;
  the decoder stands where a character starts, since it stops at ASCII bytes
  only, and those occur in no longer character; so a piece cut between two such
  places is text, and text behind text is text. Whatever a `\u` escape decodes to
  is text because the encoding of each code point is (`CodecAssumption`); the
  theorem does not need the validator to have run.
- **`ParserProofs`**: `TypeCorrect`; `StateFollowsFrames`, that the grammar
  state names the container on top of the stack, with `TypeOK` as its
  strengthening, since the frame below must be a frame for a pop to restore it;
  and `EventsAreOneDocument`, that `Stream`, the pull loop without its
  fairness, implements `EventGrammar`. Every branch of `next_event` has one of six effects, and the
  refinement mapping `WaitsFor` turns frames and state into what each open
  container waits for. The grammar itself is not needed there.
  `AcceptsJson` does need it: the loop accepts a document if and only if the
  grammar derives it. The invariant, `StreamReads`, is that as long as no call has failed the
  input is a document exactly if what the grammar state says is due (`StateDue`)
  can be completed, and that once one has failed it is none. Half of that would not
  be inductive: an error is right only if what was read before left no other way
  to go on.
  `MixingAcceptsOnlyJson` says of the consumer that mixes methods (`ClientReads`)
  that what it read to the end is a document, one whose keys may have unpaired
  surrogates, which some fast paths let through. It has the hypothesis `~ EventsAfterComma`, that
  `next_event` does not read the element behind a comma that `array_continue` took;
  without it the statement is false, which is finding 1.
  Three theorems are about other callers. `ClientIsFollowed`: the state is the one
  a consumer that mixes methods believes in (`StateFollowsClient`); here each
  fast-path method has a lemma of its own that says in which state it leaves the
  parser, for each answer it can give. `FramesAreWhatIsOpen`: whatever the
  consumer calls, the frames are the containers that the text read so far leaves
  open (`FramesFollowText`), as long as that text nests at all; where it does
  not, a call has failed. The invariant is the lexer's types with `Reads`, the
  same agreement between frames and text, which each method carries over the
  tokens it reads: a bracket is read only together with its push or its pop. The
  grammar state is not in it. `NoCallClosesAcross`: in `AnyCalls`,
  whatever is called in whatever order, after errors too, a close is reported
  only for the innermost container and by its own bracket. The grammar state may
  be out of step there and is not looked at: a close rests on the byte read and
  the frame on top, and the invariant is the lexer's types.
- **`ReaderProofs`** (`LexerAssumption`, `StructAssumption`, `EnteredAssumption`,
  `EnumAssumption`, which say that the attributes are of the kinds the derive
  macro generates code for): `TypedReaderKeepsFrames`, that at every
  step of every reader of `de.rs` the frames are those of the containers under
  way and the ones the caller had; and `ExternalEnumKeepsFrames`,
  `InternalEnumKeepsFrames`, `AdjacentEnumKeepsFrames`, `UntaggedEnumKeepsFrames`,
  the same for the four enum generators. The property is not inductive: each
  program counter of a generated reader has its own number of frames above the
  caller's, and each checkpoint must hold the frames of the place it was taken
  at, since `restore` truncates to them. The invariants say both, mode by mode.
- **`WriterProofs`** (`WriterAssumption`, `WordsAssumption`), four theorems.
  `PrettyShowsTheSame`: what the pretty sink holds, its bracket held back
  included, is the compact text plus layout. `DepthFollowsNesting`: its
  indentation is the nesting of the writers. The invariant counts a held-back
  bracket as a level (`depth + Len(pending)`), says that one is held back only
  where nothing was written into the innermost container yet, and that a comma
  planned at expansion stands where `__first` would have put one. Without the
  last, a comma could be written behind a bracket that is still held back.
  `LinesAlwaysIndented`: every line is indented by the containers open at its
  start. The depth at a place of the text is a number that any later text leaves
  alone; `Tidy` says of each line that it is indented so, and keeps the last
  line, which may still be bare or end in a bracket to be, as a case of its own.
  `WrittenIsAlwaysJson`: what is written when the writers are done is one text of
  `JsonGrammar`. The invariant, `Shaped`, has a place for each writer under way:
  there its opening bracket stands, with the bracket it will write last as its
  partner, and what follows parses as its items or members so far, up to the
  place where the next writer's bracket stands, which must be one where an item
  is due (`ItemDue`: right behind the bracket or behind a comma with items
  before it) or a member's value. The commas planned at expansion enter through
  the invariant above. That the text is JSON is shown in
  `Derived`, of `GrammarProofs`.
- **`SliceWriterProofs`** (`JobsAssumption`, `ReserveWindowAssumption`):
  `RawWritesAlwaysInside`, that no unchecked write ever leaves its place,
  whatever was reserved and whatever the element type declares. The invariant
  says that the sink is sound (its length within its capacity) and that the
  window under way is within the slice; every method of the sink keeps it, and
  the unchecked ones rest on `EveryByteIsWritten` and on the test or the
  reservation in front of them. `EveryByteIsWritten` is the fact below it: for
  every mantissa text of 1 to 17 digits and every exponent, with and without
  sign, the writes of the float layout stay within `FORMAT_BUF_LEN` and cover
  every byte of the length that is returned, by cases on the four forms. This is
  the arithmetic of the SAFETY comments of `float.rs:551-638`. What it takes from the digit writers is named
  in `Writable`: that as many digits are written as were counted, and at most
  17 or 20. They are recursive over the number, so this is assumed of the jobs;
  TLC evaluates the assumption on every job of `byte_sink`.
  `ReservationAlwaysHolds`: where no value is longer than its type declares, a
  vector is reallocated by `reserve_hint` and nowhere else, save for the last
  bracket of a slice written in windows. The invariant, `Reserved`, is that the
  spare capacity covers what the window under way still holds, at `PerItem` bytes
  an element, and the bracket where the slice was reserved for as a whole; each
  method of the sink has a lemma on what it takes from that room at most. Here
  `JobsAssumption` also says that the vector was not reallocated before the call.
  `EverySinkGetsIt`: a vector and a stream get the same text, that of the elements
  one by one between brackets; one that fails has a prefix of it, and an infinity
  ends it. A layout of unchecked writes is shown to render one text wherever it is
  put (`Renders`): its last write to each byte decides the byte, and by
  `EveryByteIsWritten` none is left to what the memory held before, so that the
  zeroed buffer a stream is fed from and the spare capacity of a vector end up
  alike. Each method of the sink then adds the text it was given, or fails with a
  prefix (`Took`), and the invariant, `Sent`, is that a sink under way has the text
  up to the element reached (`ElementsUpTo`). The text of one element is its layout
  rendered by itself; that it is the right one stays with `WritesTheArray`.
  `JobsAssumption` says for this that a sink comes without an error, and a vector
  with as much memory as its capacity.

Only model-checked, and why:

- every liveness property (liveness is out of the prover's reach);
- what the typed and derived readers return (`ReadsTheType`, `EnumReturns` and
  the properties of the four modes), judged by recursive readings of the member
  list, and `ReadsBack`, which rests on them;
- which characters a string has (`ReadsTheText`, `WrittenTextReadsBack`,
  `SkippedKeysMissOnlyPairing`), judged by recursive readings of the escapes;
- that the bytes are the right ones (`WritesTheArray`) and the decimal the
  shortest (`ShortestDecimal`): recursive over numbers.

## Findings

1. `client_resume` (`parser.rs:296`). `Parser::array_continue` consumes a comma
   and leaves the state at `ArrayCommaOrEnd`. The documentation of the fast-path
   methods (`parser.rs:256-257`) says that a later `next_event` resumes
   correctly; it does not: `[1,]` is accepted and `[1,2]` refused. The `client`
   run leaves this one mix out, and all others hold.
2. `tag_quote` (`from_json/enums.rs:187`, `:315`). The readers of internally and
   adjacently tagged enums read the tag without looking at its first byte, where
   `read_string_no_validate` asserts a quote (`lexer.rs:432`). A build with debug
   assertions panics on `{"t":1}`, one without takes any byte for the quote. The
   texts that begin so are left out of the adjacent documents of `enums`.

Observations that are no finding of a run:

- `restore` truncates the stack and cannot lengthen it (`lexer.rs:317`). The
  adjacent reader rewinds to a content after it closed the object, so it reads
  that content with one frame fewer than its text has. That is harmless:
  `skip_value` has walked the content with the frame still open before
  (`from_json/enums.rs:318-326`), so the depth limit is enforced all the same.
- The documentation of `MAX_SERIALIZED_LEN` says that a wrong value only costs a
  reallocation. One so large that a window's hint exceeds `isize::MAX` makes
  `reserve` panic instead (`CapacityOverflow` in `ByteSink`); no type of the
  library declares one. For `usize::MAX` itself, `MAX_SERIALIZED_LEN + 1` in the
  computation of the window overflows before that (`ser.rs:1449`; `full` saturates);
  this overflow is not modelled.
- The last hint of a slice written in windows leaves the closing bracket out
  (`ser.rs:1465`), so that bracket may reallocate; `ReservationHolds` says so.
- `write_float_f64_hinted` of `ByteSink` is documented to return `false` for a
  non-finite float; it returns the error of `write_float_f64`, which is what
  its caller would have got by asking again.
- `Duration::MAX` is written as 2^64 seconds, which its reader refuses
  (`de.rs:729`). Seen in the code, not modelled.

## Not modelled

- `float.rs` at the widths of a double: `Teju` is checked at small widths, whose
  arithmetic fits TLC's integers. Reading is modelled up to the one division of
  the fast path. `teju_gen.rs` is modelled by the tables it computes, not by its
  big-number arithmetic.
- `Duration`, `SystemTime`, the net and path types: they convert through the
  standard library around readers and writers that are modelled.
- `casing.rs`, `naming.rs`: functions of identifiers evaluated at compile time;
  keys are model values here.
- `as_i128`, `as_u128`, `as_f64`: they call `str::parse`, which is not in the
  repository.
- The compile-time half of the derive crate (attributes, shapes, generics):
  its result, the generated code, is what the reader and writer modules model.
- Errors, events and scratch buffers, which are plain data; their positions and
  wording. An error is modelled by its kind.
- Memory: borrowing against owning shows only where a reader falls back from
  one to the other.
- Benches, fuzz targets, generators and scripts.
