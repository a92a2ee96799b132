# compact-core in TLA+

TLA+ models, TLC runs and TLAPS proofs for compact-core, a Rust library and command-line tool
that stores JSONL rows as checksummed column blocks. Paths below are relative to the root of the
repository's sources; `core/` stands for `crates/compact-core/src/`.

- [1. The system](#1-the-system): the parts, their state, what makes them hard
- [2. What is modelled](#2-what-is-modelled): modules, abstractions, correspondence with the code
- [3. What the runs show](#3-what-the-runs-show): runs, bounds, fairness
- [4. What is proved](#4-what-is-proved): theorems, assumptions, arguments
- [5. Where the code and its documentation disagree](#5-where-the-code-and-its-documentation-disagree)
- [6. What is not modelled, and the plan](#6-what-is-not-modelled-and-the-plan)

To repeat a check: `tlc -config EncodeFaults.cfg MCParallelEncode.tla`; to repeat a proof:
`tlapm ParallelEncode_proofs.tla`. `PROJECT.json` lists components, runs, theorems, hazards, and
for every definition the source lines it stands for.

## 1. The system

compact-core encodes JSONL rows, given a schema, into row groups; a row group becomes a column
block, and a column block travels in a CMP1 frame with a length and a CRC32. What surrounds the
frames makes the four formats: CMP1 (one frame), CMP2 (a header, frames, an `IDX1` footer), CMP3
(one columnar file) and CMP4 (row groups, statistics, a footer index).

| component | state it keeps | operations | talks to |
|---|---|---|---|
| parallel encoder, `core/parallel/mod.rs` | scheduler: pending row group, block and row counters; workers: nothing; collector: map of early results, bytes written, index | `encode_jsonl_stream_parallel`; inside it `schedule_jobs`, `worker_loop`, `collect_results`, `join_workers`, `join_scoped` | two bounded channels, a mutex around the job receiver, `thread::scope`, the caller's reader and writer |
| parallel decoder, same file | scheduler: index of the frames scanned, offsets; collector: map of early results, next row | `decode_jsonl_stream_parallel`; `schedule_decode_jobs`, `decode_worker_loop`, `collect_decode_results` | as above |
| async decoder, same file | index, offsets, one batch of jobs | `decode_jsonl_stream_parallel_async_writer`, `decode_batch` | a sink awaited once per block |
| row-group cutting, `core/streaming/writer.rs`, and its copy in `core/parallel/mod.rs` | lines, row count, byte count | `push_line`, `would_exceed`, `reached_limit`, `clear` / `take_job` | the writers |
| sequential writer, `core/streaming/writer.rs` | current row group, blocks, rows and bytes written, index | `new`, `write_jsonl_line`, `flush_block`, `finish`, `finish_without_footer` | the caller's writer, which may fail half way |
| append writer and recovery, `core/streaming/append.rs` | the sequential writer's, started from a recovery | `new`, `resume`, `append_jsonl_stream`, `recover_append_stream`, `replay_jsonl_append_stream` | bytes an earlier session left, whole or damaged |
| sequential reader and inspector, `core/streaming/reader.rs` | entries, next row, next offset, sealed or not | `next_block`, `inspect_jsonl_stream`, `decode_jsonl_stream` | the caller's reader |
| rolling segments, `core/streaming/rolling.rs` | the current append writer, the segments done | `roll_jsonl_append_segments` | append writer |
| snapshots, `core/streaming/snapshot.rs` | none | encode, decode | |
| CLI, `crates/compact-cli/src/main.rs` | files | every command; `atomic_write_with` | the file system, other invocations |
| storage repair and migration, `core/storage/` | a plan bound to a length and a digest | `plan`, `execute`, `validate` | append recovery, CMP4 prefix recovery |
| CMP4 files, `core/io/v4.rs`, `core/format/v4.rs` | footer index, statistics | `encode_jsonl`, `scan_jsonl`, `recover_file_prefix` | statistics, schema |
| schema evolution, `core/schema/` | revisions | `assess`, `decode_jsonl` | every reader |
| search, `core/search/` | posting list and skip table | `encode_postings`, `seek_doc`, queries | |
| primitives and codecs, `core/primitives/`, `core/codecs/`, `core/pipeline/` | none | varint, zigzag, delta, RLE, bit packing, bitmaps | |
| C ABI, `crates/compact-ffi/` | buffers handed over | encode, decode, free | |

### Where it is hard

**Threads.** The parallel encoder and decoder run a scheduler, up to 256 workers and a collector
(the calling thread) around two channels of capacity `2 * worker_count`. A worker waits for a job
*inside* `recv` while it holds the mutex; the others queue on the mutex. A channel end lives as
long as the threads that own it, and most errors travel as a channel end that disappears: a
collector that meets an error drops the result receiver, the workers' sends fail and the workers
leave, with the last of them goes the job receiver, and the scheduler's send fails. What has to be
true: the output is the sequential one whatever the order of the workers, success means complete,
no footer behind a gap or a torn frame, no error or panic lost, and the call always returns.

**Failing writes.** `write_all` may fail after some of its bytes. The writer's counters and its row
group then stay as they were, so a caller may try again: is what comes behind the torn bytes of any
use?

**Crashes and damage.** An append stream has no footer; whatever a crash left is scanned from the
start up to the first record that does not follow on, and the next session resumes from the counters
recovery found. What has to be true: a flushed block is never lost by a later session, and the
counters of a resumed writer are those of an uninterrupted one.

**Limits.** A row that fills a group exactly, a group as long as the byte limit, one block more than
`MAX_STREAM_BLOCKS`. The decoders of columns, footers and search lists have limits (`core/limits.rs`) that the
encoders have not.

**Old state.** A recovery used on other bytes, a repair plan executed later, two processes that
append to the same file, segments an earlier roll left behind the new ones.

**Summaries that stand in for data.** A CMP4 scan trusts the statistics of a footer before it opens a
group, a seek trusts a skip entry before it reads a posting, an evolved read trusts identities
instead of names. Each is one comparison away from answering with the wrong rows, and only at a
boundary: the value that is the maximum of its group, the document that starts a chunk, two columns
that swapped their names.

**Representation at the edges.** Differences of the extreme integers, varints of the full width, runs
one longer than a byte counts, codecs that refuse their input inside an automatic choice.

The list of hazards, each with its line and the properties that watch it, is in `PROJECT.json`. The
properties of each component are those of sections 3 and 4.

## 2. What is modelled

```
RowGroups            how lines are cut into row groups
  Cmp2File           the cells of a CMP2 stream; reader and inspector as folds
    BlockStream      abstract: what any encoder promises
    StreamDecoder    abstract: what any decoder promises
    WorkerPool       channels, mutex, workers
      ParallelPipeline     scheduler, ordered collector, joins, scope
        ParallelEncode     refines BlockStream      MCParallelEncode
        ParallelDecode     refines StreamDecoder    MCParallelDecode
    AsyncDecode      refines StreamDecoder          MCAsyncDecode
    Recovery         what recovery and replay find in a file
      AppendStream     refines AppendLog            MCAppendStream
      RollingSegments  rolls, and appends as functions on whole files
        StorageRepair    detect, validate, plan, execute (with RowGroupFile)
          FileStore        the commands as processes on a file system   MCFileStore
AppendLog            abstract: a log of row groups that survives its writers

Primitives           varint, zigzag, delta, RLE, bit packing, bitmaps
  Columns            column chunks: codecs, nulls, statistics, the auto choice
    RowGroupFile     CMP3 and CMP4 files: groups, footer, scan, recovery
      SchemaEvolution  revisions, evolved reads, metadata migration
  PostingList        search lists, dictionary, queries
        Formats          one thing written, damaged, read      MCFormats

ParallelPipeline_proofs    the shared machinery          <- ParallelEncode_proofs, ParallelDecode_proofs
Cmp2File_proofs            folds over lines and rows,    <- ParallelEncode_proofs, ParallelDecode_proofs,
                             files, reader, recovery        AsyncDecode_proofs, AppendStream_proofs,
                                                            FileStore_proofs
FormatsTables              what loops and folds run through  <- Formats_proofs, MCFormats
Formats_proofs             the codecs, from digits to columns, and the search index
```

| module | models | correspondence |
|---|---|---|
| `RowGroups` | `RowGroupBuffer`, `PendingRowGroup`, `write_jsonl_line` as a function on (flushed groups, current group) | `WouldExceed`, `ReachedLimit`, `PushLine`, `FlushBlock`, `WriteLine` one per function; `SequentialGroups` folds a whole input; `IsGreedyCut` says what a cut should be without the algorithm |
| `Cmp2File` | file layout, `next_block`, `decode_jsonl_stream`, `inspect_jsonl_stream` | a file is a sequence of cells; a reader is a record folded over them |
| `WorkerPool` | `worker_loop` and its decode twin | `wpc[w]` is where a worker is, `hand[w]` its block, `lock` the mutex of the job receiver; `JobRx`/`ResultTx` say whether some thread still owns that channel end |
| `ParallelPipeline` | spawning, `send_job`, the `BTreeMap` loop, `join_scoped`, `join_workers`, leaving `thread::scope` | `spc` scheduler, `mpc` calling thread, `pending` the map, `verdict` what the closure returns, `outcome` what the call returns or a scope panic |
| `ParallelEncode` | `schedule_jobs`, `encode_job`, `collect_results`, header and footer | `group`, `held` (the line pushed after the job in front of it was sent), `bytesWritten`, `metadata`, `output` |
| `ParallelDecode` | `schedule_decode_jobs`, `decode_job`, `collect_decode_results` | `file`, `position`, `index`, `nextRowIndex`, `output` |
| `AppendStream` | `JsonlBlockWriter`, `JsonlAppendWriter`, recovery, resume, replay, and callers that retry, crash, or do not cut the file | `pc` tells the one to three steps of a call apart; `file` is what is in front of the writer's position, `beyond` old bytes behind it |
| `AsyncDecode` | `decode_jsonl_stream_parallel_async_writer`, `decode_batch` | `batch` is the jobs scanned, then the blocks left to write; `taken` how far the sink is into the block being awaited; the future is dropped only where it is pending |
| `Recovery` | `recover_append_stream`, `replay_jsonl_append_stream` | `ValidLen` is the length in cells of what recovery keeps |
| `RollingSegments` | `roll_jsonl_append_segments`, `append_jsonl_stream` as functions from lines (and old bytes) to files | `RollLine` folds the lines; `IsFull` is the check in front of a line |
| `StorageRepair` | `storage::detect`, `negotiate`, `validate`, `repair::plan`, `repair::execute` | `Err` is a call that fails; a plan is a record bound to the bytes themselves |
| `FileStore` | `stream-append` (`atomic_write_with`), `repair` (`write_new_file`), `stream-roll` (`fs::write` in a loop), and a reviewed repair through the library | `pc[p]` is between two system calls, `hand[p]` what the process holds in memory, `stable` what of the log a loss of power leaves |
| `Primitives` | `core/primitives/`, `core/pipeline/delta_varint.rs` | an operator per function; a function that refuses yields `Err` |
| `Columns` | `core/codecs/v3/`, the column half of `core/io/v3.rs`, `core/statistics.rs` | a chunk is its metadata and the bytes of its payload, in earnest: bitmap, then the codec's bytes |
| `RowGroupFile` | `core/io/v4.rs`, `core/format/v4.rs`, the file half of `core/io/v3.rs` | a file is a sequence of cells (header, groups of chunks, footer); offsets count cells |
| `SchemaEvolution` | `core/schema/`, `core/storage/migration.rs` | revisions and documents as records; `DecodePhysical` dispatches on the format |
| `PostingList` | `core/search/` | a list is the record of its sections, whose varint bytes are modelled; a cursor holds the three offsets a skip entry restores |
| `Formats` | a caller that writes one of all these, and a medium that spoils a CMP4 file | `subject` says what was written, `input` from what, `file` is what is there now |
| `BlockStream` | abstract encoder | output is always a prefix of the one whole stream for the input, perhaps with a torn cell; success exactly with all of it |
| `StreamDecoder` | abstract decoder | output is always a prefix of the sequential reader's rows |
| `AppendLog` | abstract append stream | `Commit` moves all pending rows into the log as one group, or nothing moves |

An action is the part of a handler between two points another thread, a failure or a crash can
tell apart. In the pipelines these are the channel operations, the mutex and the writes; in
`AppendStream` they are the writes, and a call that writes nothing is one step; in `AsyncDecode` the
awaits, since the threads of a batch share nothing and are joined before anything else happens; in
`FileStore` the system calls that other processes see. The codecs and file formats are pure functions
and are modelled as operators; `Formats` only chooses what they are applied to. `write_all` of a
frame succeeds whole or leaves a prefix (none or some of the bytes).

### Abstractions

- **Rows** have an identity, a size and a kind: good, `loose` (accepted, but rendered back with
  another text), `bad` (refused by the row-group encoder), blank, rejected. Their text is left out.
- **Cells** stand for records: header, frame, footer, torn (a proper prefix of a record), corrupt (a
  frame with a wrong checksum). The parsing of one record's bytes is not modelled.
- **Lengths**: a header is 1 long and a frame 1 plus its rows, so that frames of different row counts
  have different lengths and every offset in an index can be wrong. Recovery's byte offsets are
  positions of cells.
- **Checksums** are the payloads themselves: no two payloads share one.
- Arithmetic overflow of the 64-bit counters is left out: a stream has at most
  `MAX_STREAM_BLOCKS` blocks of at most `max_rows_per_block` rows, far below 2^64.
- The last `rows_written` addition of the parallel scheduler, which nobody reads, is made in the
  model where the code leaves it out.
- The abstract encoder of `BlockStream` has no `MAX_STREAM_BLOCKS`; the parallel encoder has none
  either (section 5).
- In `AppendStream` the bytes a write puts over old cells leave the old cells behind it aligned only
  when the overwritten frame had the same length, or was a damaged one, whose length is not known;
  otherwise what follows is torn.
- In `Primitives` and above, words and bytes have `WordBits` and `ByteBits` bits; the code has 64 and 8.
  Nothing else in the model depends on the widths: a varint carries one bit less than a byte and its
  last group what is left of the word, a run is at most what a byte counts, a difference fits the word
  or is refused.
- The limits of `core/limits.rs` are constants: `MaxStreamBlocks` of the streams, and of the decoders
  of columns, files and search lists `MaxDecodedValues` (values of a column, packed values),
  `MaxDecodedBytes` (bytes behind run lengths) and `MaxCollectionEntries` (row groups and columns of a
  footer, columns of a group, documents of a list, positions in a document, terms). No encoder has the last
  three; a decoder beyond one of them is an `Err`, at the check where the code has it. The further bound beside most
  of these checks, on what the bytes left can hold, is left out with the byte layouts, except where bytes are modelled.
- `MAX_ENCODED_BLOCK_BYTES` (`core/streaming/append.rs:197`, `core/streaming/reader.rs:367`) is left out: a frame
  of `Cmp2File` has rows and no payload size. A frame of more than 256 MiB is to the model one that fits.
- `Try` and `TryAll` in `Primitives` are the code's `?`, on one result and on a list of them; what follows
  a failure is not evaluated, and all errors are the one value `Err`.
- In `RowGroupFile` a group or footer with a wrong checksum is a `Corrupt` cell and part of one a `Torn`
  cell, so that a damaged byte is never taken for a good one; the byte layout of headers, metadata
  and trailers is left out, and with it their bounds checks. A torn header that still has its magic is
  detected as its format by the code and by no format in the model; planning a repair of it fails in
  both.
- The digest of a repair plan and of a migration plan identifies the bytes it was made from.
- JSON text is left out everywhere: a row is a function from names to values.
- In `FileStore` `fsync` of a file makes its bytes last, the rename lasts once the system writes the
  directory (`SyncDirectory`), and a loss of power may take back whatever is not lasting. Errors before
  a command has written anything end it as if it had not run. Two rolls into one directory at the
  same time are left out; one after the other are in.
- In the append stream there is no model of page caches and `fsync`: `Damage` may cut the end of the file or spoil a cell
  between two sessions, which covers a lost or torn tail.
- The arm of `join_scoped` for a scheduler that panicked (`core/parallel/mod.rs:735-739`) is left out: nothing in
  the scheduler panics, unless the caller's reader does. Workers do panic in the model.
- The history variables (`sent`, `opened`, `accepted`) are read by properties only.

`Damage`, `DamageFile`, `Stop`, `Crash`, `PowerLoss`, the sink of the async decoder, the callers' choice to go on after an error (`MayCall`) and old bytes behind a
position (`LeftBeyond`) are outside the repository's code and marked external in the map.

## 3. What the runs show

| run | instance | shows |
|---|---|---|
| `encode_faults` | 2 workers, all 4-line inputs over {1-byte row, 2-byte row, bad row, unreadable line}, groups of 2 rows or 3 bytes, failing writes, failing spawns, panics | the parallel encoder is an encoder (`StreamSpec`), its safety properties, the inductive invariant, and that the call returns |
| `encode_full` | 2 workers, 11 one-row blocks, the first of which may fail to encode | no block is lost or doubled on its way (`BlocksConserved`), no scheduling makes a clean input fail (`CleanInputSucceeds`), and with both channels, both workers and the scheduler's hand full the call returns (`CallReturns`) |
| `decode_faults` | 2 workers, a sealed stream of 3 blocks with 4 rows: whole, cells dropped, doubled, swapped, corrupt, cut, torn, renumbered rows, bytes behind the footer, rows that do not decode, one block too many; all faults | the parallel decoder is a decoder (`DecoderSpec`), its safety properties and its invariant, it accepts exactly the files the sequential reader accepts (`AgreesWithSequential`), and the call returns |
| `async_decode` | batches of 2, a sealed stream of 5 blocks of one or two rows, with the same kinds of damage; a sink that takes blocks piecemeal, fails or sees its future dropped, panics, failing spawns | it is a decoder (`DecoderSpec`), accepts what the sequential reader accepts, reads ahead by at most a batch (`ReadAheadIsOneBatch`), and a failure costs exactly the batch it is in (`FailureKeepsWholeBatches`) |
| `append_sessions` | up to 6 calls over any number of sessions, 1-byte, 2-byte, bad and blank lines, groups of 2 rows or 3 bytes, at most 2 blocks, one damage, a caller that cuts the file and gives up a failed writer | the stream implements the log (`LogSpec`), finish means everything is there (`FinishedIsAllThere`), replay agrees with recovery, blocks survive (`RecoveredBlocksGrow`) |
| `storage` | 3 processes at once out of appends, repairs, reviewed repairs and rolls; 5 logs (absent, whole, torn, damaged, sealed), 5 CMP4 tables (one of more groups than readers take, one foreign), an output that is there or not; failing writes, kills, one loss of power | the log is always whole (`LogIsWhole`), an append is lost only to an overlapping one (`LostRowsMeanOverlap`), a repair is complete (`RepairedIsWhole`) and touches no file that was there (`OutputsStay`), segments conserve the rows (`SegmentsConserveRows`) |
| `formats` | words of 8 bits, bytes of 4; all lists of up to 3 numbers, bytes or strings from the boundary values; all codecs with and without nulls; tables of up to 4 rows in groups of 2 under 36 queries, with every single damage to a cell; 9 000 pairs of revisions; lists of up to 4 documents with skip steps of 1 to 3; decoders that take 3 values, 3 entries and 20 bytes behind run lengths, and for each limit inputs that meet it and inputs one over it | codecs, scans, recovery, evolution and seeks (`CodecsRoundTrip`, `ScanIsRightOrRefused`, `RecoveryKeepsPrefix`, `EvolutionKeepsIdentity`, `SeeksAgree`) |
| `encode_limit`, `encode_loose`, `encode_worker_error`, `append_retry`, `append_overwrite` | the smallest instance that meets the case | counterexamples, section 5 |

**Why these bounds.** Two workers are enough for one to wait inside `recv` with the mutex and one
to wait for the mutex, for results in either order, and for a worker that stops while the other
works. Four lines with groups of two rows or three bytes
give up to four groups, meet every branch of `would_exceed` and `reached_limit` (full by rows, full
by bytes, full exactly, a held line that cuts a group of its own) and put a bad or an unreadable
line in front of, inside and behind a good group. With two workers the channels hold four blocks each,
so four-line inputs make no sender wait; `encode_full` therefore cuts eleven blocks: four in the job channel,
one with each worker, four in the result channel and one with the scheduler is everything full at
once. (A mutant whose collector waits for the scheduler before it collects is caught there.) The
decoder uses the same pool and the same collecting loop; its files have three blocks.
`MaxStreamBlocks = 2` in `append_sessions` makes the block limit bite within the calls allowed;
six calls make three sessions of a row and a finish that go on from one another, or two in which a
flush fails or is refused on the way.

`async_decode` has five blocks and batches of two: two full batches and a last one that is not, so
that a failure can be in the first, a middle and the last batch, and the reader can be found to be too
far ahead. `storage` has three processes because the loss of an append takes two, and a repair or a
third append between their steps tells more orders apart; segments are rolled at one block or six bytes
with blocks of two rows, so that both limits cut, and the rolls have one, two or no segments
(`MaxSegments = 5` is how many segment files the model has room for; a roll has at most as many lines).
`formats` takes bytes of four bits so that runs (15), varint groups (3 bits, three of them to a word with
a last one of two bits) and packed values cross their limits within three elements; groups of two
rows so that four rows make two groups and three a short last one; predicates on the bounds of a
group, one off either way and between; revisions whose two identities are under either name. The decoders'
limits are small enough that a column, a footer, a group, a list, a document of a list and a dictionary are each in the
inputs with as much as is taken and with one more; strings of 16 letters and of one are 20 bytes as stored, of 17 and one 21.
In `storage` two row groups are the most a reader takes, and one of its tables has three. Its
behaviours are short on purpose: a pure function has nothing to interleave, and TLC's part is to go
through every input.

**Deadlock** is checked in every run. A call that has returned stutters explicitly (`Returned`).

**Fairness.** `ParallelEncode` and `ParallelDecode` assume weak fairness of each thread: the
scheduler, each worker, the calling thread. That is what an operating system's scheduler gives a
runnable thread, and nothing more: no strong fairness on the mutex (a worker may lose it for ever,
since any worker that gets a job makes progress for all), none on the channels. Blocking operations
are disabled actions, so a thread waiting on a channel that never moves is a counterexample to
`CallReturns`. Faults are in the same actions as successes, so fairness never forces a fault nor its
absence. `AppendStream`, `AsyncDecode` and `FileStore` state safety only: the callers of the first may
stop at any moment, a sink may stay pending for ever and a process may be killed. `Formats` has no
progress to speak of.

### Properties

Encoder: `OutputInOrder`, `FooterMatchesFrames`, `SuccessIsComplete`, `SuccessIsGreedyCut`,
`FooterAfterAllThreads`, `PanicSurfaces`, `BlocksConserved`, `CleanInputSucceeds`; steps: `QuietAfterError`; liveness: `CallReturns`;
refinement: `StreamSpec`.
Decoder: `RowsInPlace`, `SuccessIsWhole`, `AgreesWithSequential`; `QuietAfterError`; `CallReturns`; `DecoderSpec`.
Append stream: `SessionInSync`, `FinishedIsAllThere`, `ReplayReadsRecovered`; `RecoveredBlocksGrow`;
`LogSpec`.
Async decoder: `AgreesWithSequential`, `FailureKeepsWholeBatches`, `ReadAheadIsOneBatch`; `DecoderSpec`.
Files: `LogIsWhole`, `LostRowsMeanOverlap`, `RepairedIsWhole`, `SegmentsConserveRows`; `OutputsStay`.
Formats: `CodecsRoundTrip`, `ScanIsRightOrRefused`, `RecoveryKeepsPrefix`, `EvolutionKeepsIdentity`,
`SeeksAgree`.
Each is stated in words above its definition. Definitions headed `Bug:` are plausible mistakes
(a dropped check, an off-by-one, a counter that stays); for every property of a passing run
`PROJECT.json` names one that makes TLC report the property violated. They are not used by the
specifications.

## 4. What is proved

All for every number of workers, processes and batches, every limit, every input or file, every set of
faults; checked by TLAPS with the assumptions the modules name (`BlockOptionsAssumption`,
`MaxStreamBlocksAssumption`, `WorkersAssumption`, `FaultsAssumption`, `InputsAssumption`,
`FilesAssumption`, `AppendAssumption`, `FileStoreAssumption`: types of the constants, limits that
`BlockOptions::validate` makes positive, that no row is longer than the byte limit where the code
has rejected such a line before, that the files a program starts with are absent, made of cells or made of
columns, and that a roll has no more lines than the model has room for segments; for the codecs
`WidthAssumption`, a byte of at least two bits and a word of whole bytes; `DictionaryAssumption`, that the largest
dictionary is a word; `LimitsAssumption`, that the decoders' limits are numbers; and `PowersAssumption`, that 2^(n+1) is twice 2^n as far as the widths go, which is true and
which the prover does not know, since it has no laws of exponents). A hypothesis beyond these is named with its theorem.

**Folds.** What the operators of `RowGroups` and `Cmp2File` compute is a fold over lines, rows, groups
or cells, and has to be known for every length. The folds of the community modules are functions on
sets of indices, chosen by CHOOSE; `Cmp2File_proofs` gives each of them a table of its
intermediate values (`WriterTable`, `RowsTable`, ...), from which follow its two equations
(`WriterUnfolds`, `RowsUnfolds`, `FlattenUnfolds`, `ReaderUnfolds`,
`InspectUnfolds`, in `FileStore_proofs` `RollUnfolds`): the empty
sequence, and one element more. Induction is then over a *set* of numbers (`Induction`: a set that holds 0 and
with n also n + 1 holds them all), which, unlike the induction theorems of the library, takes no operator as
a parameter. With it:

- `SequentialCutIsGreedy`: for any lines without a rejected one, the groups of the sequential
  writer are, end to end, the rows of the input, each within both limits, and none could have taken one row
  more. The invariant of the fold (`CutSoFar`) also says that the last group flushed is full for the row
  that comes next, which is what the comparison in front of a push and the one behind it give together.
- `DecodableFile`: the sequential reader accepts exactly the files made of a header, frames that follow on,
  and the footer that lists them; `RowsOfFile`, `PrefixGoesOn` and `PiecesJoin` say what it makes of a prefix.
- `ReplayReads`: the reader gets through the prefix recovery keeps, and reads its rows.

**Encoder and decoder.** `ParallelPipeline_proofs` shows that every step of the shared machinery
keeps `PipelineInv`. Its heart is `InFlightWasSent`: whatever is in a channel, in a worker's hand or
in the map is one of the jobs sent, unchanged, at the place its index says; with `JobsAreSequential`
and `CountersMatch` (the scheduler's counters are where the jobs leave them) this makes the order of
the workers irrelevant, since the collector takes the block with index `nextToWrite` and that can
only be `sent[nextToWrite + 1]`. `Progress` ties the calling thread's place to the others': success
means that the scheduler ended well and that as many results were written as jobs sent. The safety
properties themselves are not inductive: nothing in `OutputInOrder` says what the map holds.
Two more parts say where the threads are: `ThreadsInv` (which thread still owns which channel end,
who has been joined, that a panic is remembered until someone reads it) and `BlocksInv` (no index is in
two places at once, and while the collector goes on and nobody panics every index sent is in one).

- `ParallelEncode_proofs` adds what the collector has written: `FramesWritten`, `OutputLength`,
  `IndexMatches` (the index entries chain the offsets), `InputRead`. From the invariant
  (`InductiveInvariant`) follow `TypeCorrect`, `JobNumbering`, `OrderedOutput`, `FooterIsTrue`,
  `SuccessMeansComplete`, `FooterComesLast`, `PanicsSurface`, `NoBlockIsLost`, and
  `NothingAfterError` for steps. `CleanCallsSucceed` rests on `CleanInv`: without faults, on good input,
  nobody stops before the work is done (`NobodyStops`), so that every end of a channel that goes
  away goes away empty.
- `SuccessfulCutIsGreedy` and `EncoderImplementsBlockStream` need what the scheduler's own copy of the cut has
  done with the lines read so far (`StreamInv`): the blocks sent, the pending group and the held line are those
  of the sequential writer after the same lines. With it every step of the encoder is a step of
  `BlockStream`, or stutters.
- `ParallelDecode_proofs` adds `FramesScanned` (the jobs sent are the frames in front of the
  position) and `RowsCounted`; from `DecoderInvariant` follow `DecoderTypes`,
  `RowOrderCheckIsRedundant`, `RowsWrittenInPlace`, `SuccessMeansWhole`, `NoRowsAfterError`,
  `DecoderPanicsSurface`, `NoDecodedBlockIsLost`. The first of these says that the collector's own check of
  `first_row_index` can never fail. `SameFilesAsSequential` (unless a thread, the output or a spawn
  fails, it accepts exactly what the sequential decoder accepts) and `DecoderImplementsStreamDecoder` compare
  the scanner with the fold of the sequential reader.

**Async decoder.** `AsyncDecode_proofs`: the invariant (`AsyncInvariant`) keeps apart where the call is
(reading, decoding, writing, ended), what was scanned (the frames in front of the position, as the reader
would have taken them) and what was delivered (whole batches, the blocks of this one, a piece of the block being
awaited). Theorems: `AsyncTypes`, `AsyncAcceptsTheSame`, `FailuresCostTheirBatch`, `NoReadAhead`,
`AsyncImplementsStreamDecoder`. TLC has checked this invariant too, on the instance of `async_decode`.

**Append stream.** Recovery is a choice: `ValidLen` is the length up to the first cell that does not follow on.
It exists because that cell is the least of its kind, it is unique, and it is local: whether a cell
follows on depends only on that cell and the one before. From this `Cmp2File_proofs` derives:
appending a frame with the next index and the next row to a file that recovery keeps whole
recovers one group more (`AppendedFrame`); appending anything else recovers the same groups
(`AppendedOther`); cutting at `ValidLen` changes nothing (`ResumeRecovers`). The invariant of
`AppendStream_proofs` (`AppendInvariant`) has two parts. `SyncInv` is the types, `SessionInSync` (an open
writer whose writes succeeded is at the end of a file recovery keeps whole, with the counters recovery
would give) and `CallInProgress` (what the middle of a call relies on). `RowsInv` says that every block is
decodable, that the blocks and the pending rows are together the rows found at the start and those pushed since, and
that the index entries are those a reader of the file would collect. Theorems:

- `AppendTypes`, `WriterAgreesWithRecovery`;
- `WritersKeepRecoveredBlocks`, *if the caller cuts the file at `valid_len`*: no step of any writer,
  failing, retried or refused, takes a block from what recovery finds;
- `StreamImplementsLog`, *if the caller cuts the file and gives up a writer whose write failed*: the
  append stream implements `AppendLog`, step by step under the refinement mapping (log = recovered
  groups, pending = the writer's current group);
- `FinishLosesNothing`, *if in addition lines are in the text the decoder renders* (`CanonicalLines`);
- `ReplayReadsWhatRecoveryKeeps`, *for such lines*, with any caller.

The conditions are needed: without them TLC finds the counterexamples of section 5 (a line with another text
is the second of them). `append_jsonl_stream`, and with it `stream-append`, meets the first two; a user of
`JsonlAppendWriter` has to.

**Files.** `FileStore_proofs` starts with `append_jsonl_stream` as a function: for any file, a result is a stream
that recovery keeps whole, the old rows in front and the rows of the lines behind (`AppendAddsItsRows`,
from the greedy cut and `FramesFollow`, frames put behind a recovered prefix one by one). The invariant
(`AppendsInvariant`) is about three kinds of file at once, since each becomes another: the log, what a loss of
power would leave of it, and what every append under way is about to rename. Each is whole, starts with the
first rows, and is *explained* by appends: those in the log, those that were in it when the directory was
last written, or those an append had read and itself (`ExplainedWithMine`, `ExplainedReplaced`). Theorems:
`AppendsAreLostOnlyToOverlaps`; `TheLogStaysWhole`, *for first logs that can be decoded and lines in rendered
text*; `RepairsLeaveOtherFiles`, for steps. TLC has checked the invariant as well, on the two sets of
commands of `storage` that append (144 401 states); it is too slow to be part of the run.

*Rolls.* `SegmentsHoldTheirRows` is `roll_jsonl_append_segments` as a function: for any lines, the
segments it makes are whole, at most one block over the limit, each but the last has reached one of the limits, and
together they hold the rows of the lines in order. It comes from the fold of `RollLine` and says of every prefix of the
lines (`RollsTo`) what the closed segments and the open one hold. The invariant (`RollsInvariant`) is about the
files: one roll at a time puts down, from the first on, what it holds in memory over what was there when it
began, and a segment that is not whole has a culprit, the process that opened it last and
failed, was killed or has not written it yet. `RollsConserveRows` follows: the map from broken segments to
their culprits is one to one, which is the bound on their number.

*Repairs.* `RepairsOfAnyFile`: whatever the damage, if a file can be planned for and the plan executed, the
output is sealed, validates, needs no repair, and has every row (CMP2) or group (CMP4) in front of the damage.
For CMP2 this goes through the inspector: it gets through a sealed file and finds the rows recovery found
(`SealedIs`, `SealedRows`, `RebuiltRows`); for CMP4 through the cut at the last group that follows on
(`WholeEndsInFooter`, `RebuiltGroups`). The invariant (`RepairsInvariant`) carries this to the processes: a plan is
that of the bytes it names, though the file may have changed since, and the one process that made the output holds what
goes into it, since nobody makes a file that exists. `RepairsAreWhole` is the property of the run. Both have the
hypothesis `MarksAreApart`: the marks the model uses for "no file" and "an error" are no cells, no sequences and no
reports. The model values of the run are apart in this way; it is a hypothesis and not an
ASSUME because it is about all sequences, which TLC cannot enumerate.

TLC has checked both invariants on two sets of commands of `storage` that roll and repair (58 614 states).

**Codecs.** `CodecsAreFaithful` is `CodecsRoundTrip` for every width of words and bytes, every list of words, bytes and
strings and every column. Its invariant is small (`InputInv`: what was written is one of the inputs); the
work is in four theorems about functions, each for all inputs: `NumbersComeBack`, `BytesComeBack`,
`StringsComeBack`, `ColumnsComeBack`. They hold for any limits of the decoders and say on both sides of a limit
what happens: a column comes back exactly if it has at most `MaxDecodedValues` cells and, with codec `rle`, its
strings take at most `MaxDecodedBytes` as stored (`IsOverLimit`); otherwise it was encoded all the same and its decoder
refuses it, which is what section 5 reports. `Formats_proofs` builds them from the bottom up:

- *Digits.* A sum of digits times their units has these digits and is below the next unit (`DigitsBack`), and a
  number is the sum of its digits (`DigitsSum`). Bits in a byte, groups in a varint and values in a bit-packed list
  are three uses of these two.
- *Bits.* `UnpackPacked` and `PackUnpacked`: padding that has to be zero is what makes the bytes of flags and of packed
  values unique, which is the second half of `BytesComeBack`.
- *Varints.* A word has one length only (`FitsOnce`), its bytes are read back wherever they are in the data
  (`ReadBack`), and whatever is read is the encoding of a word (`ReadForth`): an overlong one is refused. Lists of
  them follow by induction (`VarintsBack`, `VarintsForth`).
- *Differences.* The sums of the differences are the values again (`DifferencesAre`), and the differences of words are
  words exactly when the words never go down (`DeltaOfWords`).
- *Runs.* The encoder makes pairs whose pieces are, end to end, the data (`EncodedRle`), and the decoder's bound is
  the sum of the counts (`DecodedRuns`).
- *Strings.* `StringsBack` is one induction for the three formats that read a string after another; what each has to
  show is that one string is read wherever it stands (`Readable`). For `prefix` this needs what was read before; for the
  dictionary, that it holds the values each once (`IsDictionary`) and no more of them than there are values.
- *Columns.* A chunk passes every check of its decoder (`ChunkIsBack`): the statistics fit and agree, the bitmap is as
  long as the counts say, what is in front of the values is exactly the bitmap, and each codec finds in the
  metadata what its decoder reads there (`ValuesMeta`). That a decoder of strings refuses more values than bytes costs
  nothing: no string takes less than a byte (`JoinedLength`). Its bound on the output of RLE is the smaller of two: `raw_size`
  and ten bytes a string, which costs nothing either, since no string takes more than its length and the longest varint
  (`StoredLength`), and `MaxDecodedBytes`, which does cost.
- *The choice.* `SmallestIs`, and `SomeCodec`: for each type one candidate takes anything, so that `auto` refuses only
  cells that do not fit the column.

The hypotheses are `ErrIsApart` (the mark for an error is no function, and so no sequence and no record),
`CellMarksAreApart` (null and "a value of another type" are no values), and `InputsAreTyped` (the lists
hold words, bytes and strings, a string being no longer than a word counts; a column has a type and one of its codecs or
`auto`). The predicates are in
`FormatsTables`, so that TLC evaluates the last two on the inputs of the run (`MCFormats`); the first is how TLC treats
model values.

The proof found a mistake in the model: the end of a run in `EncodeRle` was not unique for runs longer than a byte
counts, and TLC had happened to choose the right one. The end now is the one the code's loop stops at.

**The search index.** `IndexesAnswer` is `SeeksAgree` for every list of terms, every postings, every distance of the
skip entries and every limit. A list is readable (`IsReadable`) if it has at most `MaxCollectionEntries`
documents and as many positions in each. A lookup answers the postings of a readable list and refuses any other; a
seek only needs the positions to be few enough, so it answers in lists whose lookup is refused (section 5); a
query is right for two terms whose lists are readable, and nothing is answered from a dictionary of too many terms.
The invariant is again small (`InputInv`, the same); what carries it:

- *A cursor in a list.* A cursor stands behind k postings when it is at the end of the first k pieces of each of
  the three sections and holds the document the next gap is counted from (`Stands`). From there `NextPosting` finds
  the next posting (`NextIs`), and by induction the loop finds the rest (`CursorsAre`), so that a readable list
  decodes to its postings and any other is refused: at the check in front, or where the cursor meets the document of too many
  positions (`ReachedAll`, `PostingsBack`).
- *A skip entry.* It puts a cursor where the postings before it leave one (`FromSkip`); the table is in step with the list
  (`ListIndexed`), and since the documents increase, none of the postings before the last entry that is not past the target
  is the target. A search through the table so finds what is in the list (`SeekIs`), however long that is.
- *The dictionary.* Terms increase, so one entry answers for a term (`TermsBack`).
- *The queries.* The scores of the fold are how often the postings mention a document (`TallyIs`, with the fold unfolded by
  `ScoreTable`). Of n scores of different documents each is outranked by a number of its own below n (`PlacesAre`), so that
  sorting and cutting off gives the best (`RankedIs`, `BestAre`).

Its hypotheses are `ErrIsApart` and `IndexesAreTyped`: terms in increasing order, each with documents and
positions that are words in increasing order - what the encoder takes, it refuses anything else - and a
positive skip step. TLC finds the run's indexes to be of that kind. For the proof the sort of `top_k_by_term_frequency` is written as
what it comes to (`Ranked`: the i-th is the one that i - 1 others outrank), not as the library's sorting operator, of
which the prover knows nothing.

**Only model-checked**: liveness (`CallReturns`), which is out of the prover's reach, as is anything with
ENABLED; and `ScanIsRightOrRefused`, `RecoveryKeepsPrefix`, `EvolutionKeepsIdentity` of `Formats`: files and
revisions, which would each need an induction of its own over groups or columns, on top of the codecs.

## 5. Where the code and its documentation disagree

1. `encode_limit`: `schedule_jobs` never compares the number of blocks with `MAX_STREAM_BLOCKS`
   (the sequential `flush_block` does). An input with one block more is sealed, and every reader
   refuses its footer, although the documentation says that existing readers decode the output.
   The same asymmetry is in the other formats: their decoders have limits that no encoder has, although the round trip is
   said to be exact and the reconstruction lossless. What is over one of them is encoded with `Ok` and refused when it
   is read:

   | limit | of | checked by the decoder at |
   |---|---|---|
   | `MAX_DECODED_VALUES`, 16 Mi | values of a column, so rows of a CMP3 file or of a CMP4 group | `core/codecs/v3/numeric.rs:92`, `string.rs:75`, `boolean.rs:111`, `core/primitives/bitpack.rs:76` |
   | `MAX_DECODED_BYTES`, 256 MiB | strings behind run lengths | `core/codecs/v3/string.rs:120` |
   | `MAX_COLLECTION_ENTRIES`, 1 000 000 | row groups of a CMP4 file, also of one that was recovered; columns | `core/format/v4.rs:207`, `225`, `core/io/v4.rs:298`, `core/io/v3.rs:210` |
   | the same | documents of a list, which `seek_doc` still finds; positions in a document; terms | `core/search/postings.rs:272`, `367`, `core/search/dictionary.rs:232` |

   The run shows this for streams. For the others no counterexample is needed: the properties of `formats` say
   that the encoder answers and the decoder refuses (`CodecsRoundTrip` for columns, `RecoveryKeepsPrefix` for row
   groups, `ScanIsRightOrRefused` for columns of a CMP3 file, `SeeksAgree` for lists and dictionaries), the run goes over each
   limit by one, and `ColumnsComeBack`, `PostingsBack` and `IndexesAnswer` prove it for every limit.
2. `encode_loose`: a block's raw size counts the input's text, readers compare it with the length of
   the text they render. A row with other spacing, or with fields outside the schema, gives a sealed
   stream that no reader decodes.
3. `encode_worker_error`: a worker's error stops the collector; a scheduler that still has jobs then
   ends with "parallel worker pool stopped", and that is what `join_scoped(scheduler)?` returns. The
   worker's error, which the documentation says must not be swallowed, is lost.
4. `append_retry`: a write that fails half way leaves torn bytes and a writer that can be called
   again. The next flush puts a good frame behind the torn bytes; `finish` returns `Ok`, and recovery
   never finds the frame.
5. `append_overwrite`: the documentation allows to resume by positioning the writer at `valid_len`,
   and to ignore the bytes behind it. If the first damaged frame is overwritten by one of the same
   length and row count, the old frames behind it follow on again: recovery finds rows that the session
   had given up.

In the passing runs the first three are kept out by the constants (block limit high enough, no `loose`
rows) and the last two by `Retries = FALSE` and `Truncates = TRUE`.

## 6. What is not modelled, and the plan

Not modelled, and why:

- **Snapshots** (`core/streaming/snapshot.rs`) and **CMP1** beyond being one cell (`core/format/v1.rs`,
  `core/io/`): one buffer is wrapped and unwrapped, and nothing happens over time that the frame of
  `Cmp2File` does not show already. The codecs of CMP1 payloads (`core/codecs/mod.rs`, `core/io/mod.rs`), and with them the
  `MAX_DECODED_BYTES` of `decode_rle`, are left out.
- **Byte layouts**: the parsing of headers, records, metadata and trailers, and the bounds checks that
  go with it. A cell is a parsed record, or corrupt, or torn. The payloads of columns and posting lists
  are the exception: their bytes are modelled.
- **JSON and YAML**: rows are values, schemas and revisions are records; what a row's text looks like
  after a round trip is only whether it is the same (`loose` rows, section 5).
- **Search lists that were damaged**: a list has a checksum of its own in front of everything else, and
  a list that passes it is one the encoder made.
- **The C ABI** (`crates/compact-ffi`): each function copies its arguments, calls one function of the
  core and hands a buffer over. **Benchmarks, examples and generated headers**.
- **CLI commands that write one new output with `fs::write`** and read nothing that others change
  (encode, decode, inspect, verify and the like): `FileStore` models the ones that replace, repair or
  write several files.
- **Two rolls into one directory at the same time**: they overwrite each other's segments, as any two
  programs that write the same names; nothing in the code or its documentation promises otherwise.

Plan:

| what | aimed at |
|---|---|
| lemmas about `RowGroupFile` on top of `Formats_proofs` | that the groups a file was cut into are read back, and that a group its statistics rule out has no matching row |
