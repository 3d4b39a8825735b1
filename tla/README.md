# A formal model of zsv

This directory holds TLA+ models of zsv, a CSV parser library and a set of
command line tools built on it, the TLC configurations that check them, and
TLAPS proofs. File names below are relative to the repository, which the models
call `src/`: the library is `src/src` and `src/include`, the tools are `src/app`.

## 1. Inventory

| Part | State it keeps | Operations | Hard behaviour |
|---|---|---|---|
| Push parser: `zsv.c`, `zsv_scan_delim.c`, `zsv_internal.c` | the buffer with a partial row and a chunk, indices of row and cell, quote flags and position of the closing quote, the cells of the row, row counts and lengths, `abort`, `finished` | `zsv_parse_more`, `zsv_parse_bytes`, `zsv_abort`, `zsv_finish`; inside them `scanner_pre_parse`, the scan loop, `cell_dl`, `row_dl`, `zsv_throwaway_row` | rows, cells, escaped quotes and CR LF divided between chunks; in-place unquoting; rows longer than the buffer; aborts from callbacks |
| Vector search: `vector_delim.c` | the mask of specials of the current vector | find the next delimiter, line end or quote | the mask is relative to a position that is not always that of the vector; the bytes after the last full vector |
| Pull parser: `zsv_next_row` and the second copy of the scanner | the registers of the suspended scan loop, `pull.now`, `pull.row_used`, the last status | `zsv_next_row` | suspending and resuming the loop; rows other handlers consume; the last row |
| Header handling | `rows_to_ignore`, `keep_empty_header_rows`, `header_span`, the collated header, the inserted header | `ignore_header_rows`, `skip_to_first_row_w_data`, `collate_header_row`, `zsv_insert_string` | row handlers that replace one another, also while a row is truncated |
| Overwrites | the next overwrite and the reader of those that follow | `zsv_get_cell_with_overwrite` | two sorted streams advanced by reads of cells |
| Fixed-width scanner: `zsv_scan_fixed.c` | offsets; buffer as above | `row_fx` | the tail after the last full vector |
| UTF-8 repair: `zsv_strencode.c` | none | replace malformed bytes in place | sequences cut by the end of the cell |
| CSV writer: `app/utils/writer.c` | the output buffer, whether a row has begun | write a cell, flush, delete | cells larger than the buffer, flush order, quoting |
| compare | one pull parser per input, a sorted list of the current rows, column matching | `compare.c` | duplicate and unsorted keys, inputs of different lengths |
| stack, paste | several parsers in turn or side by side | `stack.c`, `paste.c` | columns matched by name; inputs of different lengths |
| select, select-pull | columns chosen from the header, counters of rows skipped, sampled and written | one row handler after another, or a loop over `zsv_next_row` | cells cleaned where they lie, read again by a search or a merge; the limit against skipped and sampled rows |
| pretty | the rows kept so far, the widths | keep, print, flush | widths fixed before all rows are seen; a blank line resets the table in the middle of it |
| flatten | the row of the current group | two passes | a group ends when the next one has begun |
| desc | per column: counts, two trees of unique values, examples | header, rows | sets that are given up at a limit |
| echo, serialize, 2tsv, 2json, 2db | per row | row handlers | an overwrite stream that must keep up; buffers; nesting of JSON; a temporary file that replaces the output |
| prop, rm, mv, property cache | files in a cache directory next to the data file | save, guess, clear, clean, copy, export, import | several file operations per command, and kills and readers between them |
| cli, extensions, ini file | registered extensions | dispatch | none that these models address |
| sql, jq | SQLite's and libjq's | | outside the repository's own logic |
| utilities | none | | |

How they interact. A caller creates a parser (`zsv_new`) and either pushes
input through it (`zsv_parse_more`, `zsv_parse_bytes`, then `zsv_finish`) and is
called back with cells and rows, or pulls rows from it (`zsv_next_row`). The
parser owns one buffer; cells are pointers into it, valid until the next call.
Everything runs in one thread: the interleavings that matter are those of reads,
calls and callbacks. Every tool is a row handler, or a loop over
`zsv_next_row`, with a writer behind it.

## 2. Modules

| Module | Stands for |
|---|---|
| `ZsvScan` | the push parser: buffer, delimiter scanner, cells, rows |
| `CsvRows` | what the push parser promises: no buffer, no chunks |
| `ZsvScanProps`, `MCZsvScan` | its properties, the refinement of `CsvRows` and the invariants of the proofs; alphabets for TLC |
| `RowHandlers` | the chain of row handlers between scanner and caller, and the pull parser; its properties |
| `MCRowHandlers` | options and rows for TLC |
| `VectorScan` | the search for the next special byte |
| `ByteScan` | what that search promises: byte by byte |
| `CsvWriter` | the tools' CSV writer and its output buffer; what it writes, the parser reads |
| `CsvOutput` | what a writer promises of the file behind it |
| `MCCsvWriter` | values for TLC |
| `Compare` | `zsv compare`: the merge of several inputs by key, the report, and what it is to say |
| `RowMatch` | what matching rows by key promises |
| `MCCompare` | inputs and options for TLC |
| `Commands`, `MCCommands` | one run of any of the commands below; inputs and options for TLC |
| `ProvedCommands` | the part of `Commands` that proofs are about: `select`, `select-pull`, `paste`, `serialize`, `Overwrites`, UTF-8 repair, `2db`: a proof module that sees all commands at once is too slow to check |
| `Select`, `SelectPull` | `zsv select` and `zsv select-pull` |
| `FixedScan` | the fixed-width scanner, and `zsv select --fixed` |
| `Overwrites` | a parser with a file of overwrites |
| `Utf8Repair` | cells with malformed UTF-8 |
| `Flatten`, `Pretty`, `Stack`, `Paste`, `Desc`, `Echo`, `Serialize`, `ToTsv`, `ToJson`, `ToDb` | the command of that name (`2tsv`, `2json`, `2db`) |
| `JsonWriter` | the writer behind `2json` |
| `Texts` | comparison without case, and trimming |
| `PropertyFiles`, `PropertyGuess` | `zsv prop`, `mv`, `rm` and their files; what `prop --auto` guesses |
| `PropertyFilesProps`, `MCPropertyFiles` | its properties; names, files and commands for TLC |
| `ZsvScan_proofs`, `RowHandlers_proofs`, `VectorScan_proofs`, `CsvWriter_proofs`, `Compare_proofs`, `PropertyFiles_proofs`, `ProvedCommands_proofs`, `Commands_proofs` | proofs |

The first three specifications are layers of one program, and each takes the layer
below as the next one promises it. `VectorScan` finds specials; by
`ImplementsByteScan` a scan loop that looks at every byte sees the same ones, and
so `ZsvScan` scans bytewise (`Plain`). `ZsvScan` delivers rows; by
`ImplementsCsvRows` they are those of the input, and so `RowHandlers` starts from
rows and from rows that were cut. `CsvWriter` is the other end: `CsvRows`, the
promise of the parser, is what its output is read back with. The commands stand
above all of them: their inputs are sequences of rows, and their output is rows,
lines or tokens before the writer makes bytes of them.

### ZsvScan

One step is one part of a call which the code runs without reading input or
calling back in between: the shift of the partial row (`MovePartialRow`,
`StartFreshRow`, `StartEmpty`), the delivery of a row that fills the buffer
(`TruncateRow`), the read (`SkipBom`, `ReadNothing`, `Read`), one iteration of
the scan loop (`SkipDoubledQuote` to `VisitQuote`, `EndScan`), `zsv_abort`
between calls and `zsv_finish`. `pc` names the step that comes next.

The variables carry the names of the fields of `struct zsv_scanner` and of the
locals of `zsv_scan_delim`. The environment chooses the bytes, how many of them
each read returns, where streams end, and whether a handler aborts. The history
variables `fed`, `inputs`, `truncated` and `calls` record what has been read and
delivered; no action reads them, except that bounds are put on `fed` and
`inputs`.

- A byte is a model value. The four specials are constants; `Junk` is a byte of
  the buffer that was never written.
- Offsets and lengths are numbers modulo `SizeMod`, as a `size_t` is modulo
  2^64. The code subtracts without checking in `cell_dl`, `scanner_pre_parse` and
  at the end of a cell; `Wrap` is applied there.
- A `memmove` or a read that leaves the buffer is undefined behaviour. The step
  then goes to `pc = "fault"` and stops.
- `cell_dl`'s loop over doubled quotes is `RemoveDoubled`, which says what the
  loop computes: it drops the second quote of each pair and leaves what lies
  behind the result as it was.
- The caller follows the headers: it stops at the first status that is not ok,
  may supply another stream after `zsv_status_no_more_input`, and calls
  `zsv_finish` once.
- Left out: header options, fixed-width mode, malformed UTF-8 replacement, the
  scan filter, progress callbacks, and a delimiter other than a comma (which
  adds one flag to cells that hold a comma).

`CsvRows` folds one state machine over the bytes consumed: a cell is bare, open,
after its closing quote and so on; rows are sequences of values. `Consume` says
that whenever more bytes have been scanned exactly their complete rows have been
delivered, and `Finish` that the end of the input delivers the rest. A row that
does not fit (`Truncate`) ends the promise; the properties of the run `long_rows`
take over from there. `ZsvScanProps` states `ImplementsCsvRows` with the
refinement mapping: the bytes consumed are those before the scanner's index,
wherever they are in the buffer.

### RowHandlers

One step is one row end (`EndRow`), one row that fills the buffer (`CutRow`), or
one call of the caller (`Finish`, `ResumeScan`, `NoMoreRows`,
`AbortBetweenCalls`), with every handler it runs. The handlers are functions from
scanner to scanner: `IgnoreHeaderRow`, `SkipToFirstRowWithData`,
`CollateHeaderRow`, `ThrowawayRow` and `CallerRow` are the functions that the code
assigns to `opts.row_handler`, `SetCallbacks` and `SetRowHandler` make those
assignments, `ApplyCallbacks` hands on the row at hand, and `RowDl` is `row_dl`.

- The text of a cell is a sequence of words, a word the number of the row and
  column it was read from: so a collated header can be told from its parts, and
  a cell of one row in another is noticed.
- The caller is the one the tools have: a header handler that replaces itself by
  a data handler (`zsv_set_row_handler`), both with a cell handler; in pull mode
  the handler is `zsv_pull_row`. Any call of the caller's functions may abort.
- `calls` records each call with the context, the row number, the `get_cell`
  function and the cells that the caller could see.
- `pc = "undefined"` is where the code has no defined behaviour: the collated
  header freed twice, an inserted header whose handler aborts, a cut row whose
  handler aborts (points 3 and 4 of the list in section 3).
- An inserted header (`zsv_insert_string`) is the rows the scanner finds in it.
  One that does not fit in the buffer is left out.

### VectorScan and ByteScan

One step is one part of an iteration of the scan loop: the start of a search
(`StartSearch`), one vector of `vec_delims` (`NextVector`, `VectorFound`,
`VectorsEnd`), the byte at the next bit of the mask (`NextBit`), or a byte looked
at without a mask (`TailByte`, `ByteBehindVectors`).

A byte is plain, a quote, another special, or `"matched"`: one that the mask
takes for a special and the loop does not (NUL, when `opts.no_quotes` makes the
fourth comparison one with 0). What the loop does with a special is not repeated
here; only that behind a quote it may ask for the next byte, if that is a quote,
to be skipped. `cell_dl` moves bytes behind the cursor only, so the chunk ahead
is constant.

`vec_delims` may pass over vectors before it finds a mask, and the loop applies
the mask at `mask_last_start`, where the search began. It then looks at the wrong
bytes, all of them plain, and searches again from the middle of what it has
already been over. That this loses nothing, and ends, is what the module is
about.

`ByteScan` is the loop without vectors: `VisitSpecial` handles the first special
not yet handled, `SkipSecondQuote` the second quote of a pair, `End` needs that
none is left. The refinement maps what has been handled to the history variable
`passed`.

### CsvWriter and CsvOutput

One step is one call: a cell (`Cell`, which stands for `zsv_writer_cell` and the
calls that end in it), `CellPrepend`, `Flush`, `Delete`. `out` is the used part of
the output buffer and the file behind it; `OutputBuffWrite` and `OutputBuffFlush`
are the functions of those names. `rows`, a history variable, is what the caller
meant to write.

- Bytes are model values, as in `ZsvScan`. `Lead` is the first byte of a UTF-8
  character of two bytes: `zsv_csv_quote` steps over characters, and so the byte
  behind it is not looked at (`CharStart`).
- `Quoted` says what `zsv_csv_quote` builds in its second pass; `UpToNul` is the
  `strlen` that gives its length.
- A caller has a cell written unchecked only if it needs no quotes: a number, or a
  cell to which the parser gave no flags. That the parser flags all cells that
  need quotes is `QuotedWhenNeeded`, checked for `ZsvScan`. A value behind a prefix is a
  string without NUL, as in `select`.

`CsvOutput` promises that the text goes to the file in order, each part once, and
all of it at a flush and at the end. `ReadsBack` reads the file with the rows of
`CsvRows` and compares them with `rows`.

### Compare and RowMatch

One step is one turn of the loop around `zsv_compare_next` (`CompareRows`,
`NoMoreInput`), after `SetUp`. Within it `Advanced` is `zsv_compare_advance`,
`SortedInputs` what `qsort` may return, `Group` the search for inputs with the
same key, `PrintRow` the report and `Used` the reset of `row_loaded`.

- A text is a model value. The constants `Same`, `KeyOrder` and `SqlOrder` say
  which texts `zsv_strincmp` takes for the same, how it orders keys and how SQLite
  does; `Close` which numbers are within the tolerance.
- A column is a name and its occurrence (`Column`), as `zsv_compare_unique_colname`
  is. The maps which the set-up makes from it (`out2in`, the key columns, the source
  of an added column) are functions of the headers.
- With `--sort` the rows of an input are in any order that its `order by` allows
  (`SqlSorted`).
- `row` is what `get_cell` reads, also when the input is over: a row that
  `zsv_finish` delivered stays readable (`unended`).
- Since `qsort` may order inputs with the same key as it likes, the array
  `inputs_to_sort` need not be remembered from one row to the next.

`RowMatch` keeps the keys left of each input. A step takes the first of some
inputs, all the same key; if the inputs ascend it must be the smallest key and all
inputs that have it. It may end only when nothing is left.

### Commands

`zsv` runs one command and ends. `Commands` is that: `command` names it, as
`main()` of `cli.c` dispatches it, and each command is an instance of its module.
All of them have the variables `opts`, `input`, `at` (rows read), `data` (the
command's struct), `written` and `pc`, so that one specification holds them side
by side. One step is one row, unless said otherwise.

| Module | State (`data`) | What it promises |
|---|---|---|
| `Select`, `SelectPull` | header names, `out2in`, row counters, `cancelled` | `WritesColumns`: a row written is its row of the input, cut down to the columns chosen, each cell cleaned. `WritesRows`: just the rows that are eligible, in order, each once, up to the limit |
| `FixedScan` | the buffer, the partial row; one step is a call of `zsv_parse_more` | `FixedRows`: a line is a row, in whatever pieces the input comes; `--fixed-auto` cuts no word. `Outcome` names the inputs for which `--fixed-auto` does not come to that |
| `Overwrites` | the overwrite at hand, those that follow; a step is a row or a `zsv_get_cell` | `OverwrittenWhereListed`: never the value of another cell, and all of them used if cells are asked for in order |
| `Utf8Repair` | none; a step is a cell | `KeepsCharacters`: whatever is malformed around them, the characters of a cell stay, and what is left is well formed |
| `Flatten` | the columns found in the first pass; the output row of the second | `RowPerBlock`: one row for each block of rows with one id, with the values of that block under their names |
| `Pretty` | rows kept, widths, first column count | `Aligned`: the columns of a table are at one place in all its lines. `RowsInOrder`: each row is one line, in order |
| `Stack` | columns by name and occurrence; a map for each file | `UnderItsName`: a value is under the name it has in its file |
| `Paste` | which inputs have ended; a step asks one parser for its next row | `SideBySide`: a file stays in its columns, no row of any is lost |
| `Desc` | per column: counts, the sets of unique values, examples | `Describes`: what is printed of a column is true of its cells |
| `Echo` | the next overwrite of an SQLite query | `Overwritten`: a cell is overwritten if and only if there is an overwrite for it |
| `Serialize` | the header | `Rebuilds`: the table can be put together again from its tuples, those behind the first row, by id and name of the column; with another id column the first one has the empty name |
| `ToTsv` | the output buffer | `ReadsBack`: with escapes undone, the output is the rows of the input |
| `ToJson`, `JsonWriter` | the header; the stack and the output buffer of the writer | `WritesTable`: the output is one JSON value that has every cell, for an input with a row and no text longer than the buffer |
| `ToDb` | two runs with their `pc`, files and transaction | `OldOrWhole`: under the name of the output is the file that was there before, or a database with all rows and indexes of its JSON |

- `Select` keeps the bytes of a cell and what cleaning leaves behind its end:
  `Cleaned` is one of the cleanings of `zsv_select_cell_clean`, in their order, each
  in place. A text which reads differently when cleaned twice (`Settled`) is exempt.
- `SelectPull` takes from `Select` what `select-pull.c` repeats word by word, and
  states again what differs: the loop, the end, the width of `sample_every_n`.
- The `FixedScan` reader may return any number of bytes; vectors are
  `VectorBytes` long. A row as long as the buffer is delivered cut, and what follows it up to
  the next line end is thrown away. `--fixed-auto` may also end as `Outcome` says: with
  an error before anything is parsed, with offsets that are refused, with delimited text
  instead, or `undefined`, behind the end of the array of offsets.
- `JsonWriter` writes through its buffer. A text that is longer than the buffer is
  copied behind its end (`overrun`), and `2json` ends as `undefined`.
- `Overwrites` asks for the cells of a row in any order, at most twice a row.
- `ToDb` has two runs with one output, each with one call of the file system or
  of SQLite a step; each may be killed between any two. The ghost `shared` says that
  both have had the temporary file at one time, and then nothing is promised:
  TLC finds that a half-built database can then become the output.

### PropertyFiles

`prop` keeps what it knows of a data file in `<dir>/.zsv/data/<name>/props.json`, and
every other command loads that before it parses. One command at a time changes
files, one system call a step, and may be killed between two of them (`Crash`);
another command may load properties at any time (`LoadOpen`, `LoadRead`). Between
commands the user makes and deletes data files.

- `entry` maps names to inodes: a file that is open is read to its end although
  its name has gone, and `fopen(.., "wb")` empties the inode that it finds. That is
  why `WholeProps` speaks of the reader too.
- A file holds whole properties or is torn, with the operation that tore it.
- `job` is the command under way: `pc` the next call, `at` the name it works on,
  `content` what it is to write, `todo` the directories that `--clean` has not seen.
- The history variables `owner` (the data a name's properties were given for) and
  `trusted` (nothing was killed, or deleted behind the program's back) are read by
  properties only. When a `mv --cache` that failed moves back a file which it had not
  moved, the name gets another's file: its properties are then marked `Reverted`, and
  `OwnProperties` says nothing of them until they are removed or given anew. That is the one
  exception, and `mv_cache` shows the step; every other failed move is included.
- `PropertyGuess` is what `--auto` makes of the first ten rows, each row a count of
  cells, of empty ones and of those that look like numbers, dates or bools.

## 3. What TLC checks

| Run | Question | Bounds |
|---|---|---|
| `rows` | are the rows those of the bytes under every division into reads, and are cells flagged that need quotes? | all 5 kinds of bytes, buffer of 4, input of 5, byte order mark or not |
| `long_rows` | rows longer than the buffer, a row limit, aborts in every handler and between calls, both entry points | buffer of 3, input of 7, 2 columns, `max_rows` 3 |
| `chain` | every chain of row handlers in push and pull mode: does the caller get its rows, by the right handler, with the right numbers and cells? | 4 pieces of rows, 2 columns, header spans of 0 to 3, 1 ignored row |
| `search` | does the vector search handle each special once, and end? | vectors of 2 bytes, chunks of up to 6, every start |
| `writer` | does the file get the text in order, and does the parser read it back? | buffer of 4 bytes, 3 cells of 12 kinds, with and without prefix, check and byte order mark |
| `compare` | are rows matched by key and their differences reported, for sorted and unsorted inputs, and does it end? | 3 inputs, 3 rows, 3 sets of headers, no key, one and two |
| `commands` | is what each command writes what it promises of its input? | tables of a header and up to 3 or 4 rows under every combination of the options modelled; `MaxCols` 3, a fixed-width buffer of 7 with vectors of 3, TSV and JSON buffers of 3, transactions of 2 rows, two runs of `2db` |
| `files` | do properties and data files survive every sequence of `prop`, `mv` and `rm`, with a kill and a reader in between? | 3 names in 2 directories, 2 data files, 20 commands of which 3 run, 1 kill, 8 inodes |
| `lone_quote`, `extra_row`, `compare_sorted`, `mv_cache` | one sentence each that the code contradicts, see below | those of the runs above, or less |

Why the bounds are enough. In `rows` a chunk can end before and after each byte of
a quoted cell, of an escaped quote and of a CR LF pair, with at least one row
before or behind it. In `long_rows` a row fills the buffer exactly, or twice, and
another follows; 3 rows are the least with which a limit is passed by the last
row, by `zsv_finish` and by neither. In `chain` 4 rows are one for each link (an
ignored one, a blank one, two header rows), or a cut row with its tail among
others. In `search` three vectors, or two and a rest, lie side by side: a mask can
be found in the first vector, in one behind it, and not at all, from every start
and with every rest. In `writer` three cells are a row behind a row, or a row of
three, and the lengths 0, 1, 3, 4 and 5 of what is written meet a buffer of 4 in
every state. In `compare` three rows are a repeated key with a partner, a key in
each input, or a key that waits while two others pass; three inputs are the least
in which the first of a group may be alone or not. `SizeMod` is far larger than any
real length and so a wrapped one is recognised.

In `commands` the rows are few and all different: two rows that are written with one
skipped, sampled away or blank between them, a group of `flatten` or a table of
`pretty` that ends and another that begins, a set of `desc` that meets its limit and a
row after it. A fixed-width buffer of 7 holds two vectors of 3 and a rest of one, and the
lines have widths that end in a vector, at its end and behind the last one. `--fixed-auto`
sees the whole input in its preview; each of its outcomes is met. A batch of
2 is full, exceeded by one row and not reached. In `files` three commands are one
that saves, one that moves, copies or removes, and one that uses what is there; a kill
in any of them leaves the others to run on what it left. The two names in one
directory and the third in another are the two ways `mv` can go, and 8 inodes are
never used up.

Fairness. `VectorScan` and `Compare` assume it (`FairSpec`, weak fairness of
`Next`): the scan, and the loop over the rows of `zsv compare`, are loops of one
thread which nothing but their own condition ends. The other specifications
promise nothing about progress: the library runs only when it is called, and a
command may be killed. The systems may stop: the input ends, the command has run, and
so `CHECK_DEADLOCK FALSE` is set.

### Where the code and its documentation differ

Each of these runs checks one sentence of a header or usage text, and TLC finds a
behaviour of the code that contradicts it.

| Run | Sentence | What the code does |
|---|---|---|
| `lone_quote` | `len` is the length of the contents (`common.h:50`) | an input that ends with an opening quote gives a cell of length 2^64 - 1 |
| `extra_row` | the row handler is called for each row (`common.h:110`) | `zsv_finish` after `zsv_parse_bytes` of an input that ends with a line end delivers one more row |
| `compare_sorted` | sorted input is necessary "unless the --sort option is used" (`compare.c:625-626`) | `--sort` sorts by bytes and the merge ignores case and blanks: keys that are in both inputs are reported as missing in each |
| `mv_cache` | `--cache`: "only move related cache (not the file)" (`mv.c:33`) | when the cache cannot be moved, the file at the destination is renamed to the source (`mv.c:103`), where it replaces another or which it never left |

Others were met while modelling. The properties name them as exceptions, or the
models go to `pc = "undefined"`:

The parser and its handlers:

1. An abort between calls takes effect at the next row end only, and the parse
   functions go on until then (`api.h:240-242` says otherwise).
2. The tail of a cut row ends at its first line end, also within quotes
   (`common.h:130-135`). After a cut row `cell_start` is stale and later cells may
   have negative lengths. The position of the closing quote is stale as well:
   in a buffer of 5, `"aa"a` is cut, and the end of the cell that goes on in
   `,\na,a` moves that many bytes behind its start (`zsv_internal.c:299`), which
   overwrites the next row before it is scanned. `RowSoFar` excludes cut rows of
   inputs with quotes for that reason. If the handler of a row cut at
   `max_rows` has aborted, and the caller supplies another stream in spite of it, the
   row is delivered once more.
3. When the handler of a cut row aborts, the status is taken for a capacity
   (`zsv.c:71`).
4. With two blank header rows in a span, `collate_header_append` calls
   `realloc(p, 0)`, takes NULL for a lack of memory, and the header is freed twice.
   A status of scanning an inserted header is dropped (`zsv.c:108`).
5. The last cell of an input may carry flags that `common.h:62` calls internal; a
   first cell that fills the buffer gives a row without cells (`api.h:94`: at
   least one); CR and LF in two streams end two rows (`api.h:187-190`: read as
   one); the cumulative length drops at `zsv_finish` (`api.h:253`).
6. Row numbers, which overwrites are compared with, start at the header row with 0
   (`zsv_internal.c:172`); they start with 1 when rows are ignored, empty header
   rows kept and the header spans one row, and start again after a cut row.
7. With empty header rows kept and no chain, the function that applies overwrites
   is chosen before they are opened, and they are ignored.
8. An inserted header that ends with a line end is followed by a blank row.
9. In pull mode a cut row is returned with the cells of its tail; a cut first row
   of a header that spans two loses the collation.
10. A quoted value with a NUL loses its closing quote, since its length is taken with
    `strlen` (`writer.c:213`), and a malformed UTF-8 character hides a special byte
    from `zsv_csv_quote`: both are exempted from `ReadsBack`. A cell that needs
    quotes is written without when there is no memory for them, and what `write`
    returns is not looked at. The prefix of `zsv_writer_cell_prepend` is for "the
    next cell" (`writer.h:73`) and stays until it is set again.
11. In `zsv compare` an added column comes from the row its input has in hand, whatever
    its key, or from the last row of an input that is over; the example of
    `docs/compare.md:219-230` shows such values. The comment "input position second"
    (`compare.c:562`) is not what `qsort` does: the inputs of a group may come in an
    order that earlier rows have left, and whether a column that only some of them
    have is reported depends on it. Rows that are missing do not count as
    differences for `--exit-code`. An error in an input is taken for its end.
    `--sort-in-memory` is in the usage text but not among the options.
12. While a row is thrown away the cell and overflow handlers get the scanner as
    their context, and `zsv_get_cell` may have no function to call.
13. In pull mode the last of `max_rows` rows (`zsv_internal.c:179`) is never returned
    (`zsv_internal.c:387`), and a header that spans several rows
    (`common.h:228-229`) loses the columns beyond those of its first row
    (`zsv_internal.c:562`).
14. In fixed-width mode the rows that lie behind the last full vector are one row
    when their line end is missing at the end of the input.
15. A malformed line of an overwrite file is an overwrite of the first header cell with
    nothing, and a file that has only a header makes `zsv_new` fail.
    `--malformed-utf8-encoding` takes a value of two bytes, and uses the first
    (`arg.c:240`).

The commands:

16. `select`: a cell that is cleaned in place twice, for a search and for writing,
    may get stale bytes at its end; `--sample-every 1` writes no rows;
    `-H 0` writes one; with `-s`, `-H n` looks at the rows it writes only;
    `-n --merge -x 3` merges a column that is excluded; a range of columns ends before the
    last column that a row may have. `--fixed-auto` counts columns in the first line
    that is not empty and takes their offsets from all lines together: with more offsets
    than columns it writes behind the end of the array it allocated (`select.c:712-745`); with fewer
    the offsets are refused, no row is written, and the status is 0; if that first line is
    blank the input is parsed as delimited text.
    `select-pull` keeps the sample distance in an unsigned char, so 256 is every
    row, and reads on to the end of the input after the limit.
17. `flatten`: the first row of a group also counts for the aggregates of the group before; the
    second pass parses with default options; with too many columns only a header is
    written, and the status is 0. `pretty`: a blank line begins a new table; an error in
    an option is forgotten. `stack`: an input that is one line with two cells and no
    line end crashes it; of columns of one name in one file the last is used; `-t` counts
    in the second pass only. `desc`: a header of `max_cols` columns or more gives no description.
18. `echo`: the overwrites of the first data row of an SQLite query are lost, and
    `--trim-columns --skip-until` writes nothing. `serialize --id-column 2` leaves the name of
    the first column empty. `2json`: the test that counts indexes is off by one. Its JSON writer
    does not return after it has written a piece longer than its buffer of 64 KB, and copies that
    piece behind the end of the buffer too (`jsonwriter.c:49-60`). Of an input without rows
    nothing is written, not even an empty array.
19. `2db`: a row whose values are all empty is not inserted; a data type is written only
    if there is a collation; JSON without a data array or without indexes replaces the
    output by an empty database; inserting without a table name fails; the first transaction
    begins only behind the first full batch. An insert that fails is printed and its row lost, and
    whether a COMMIT has failed is not looked at. Whether the output exists is looked at
    when the run starts, and it is deleted when the run ends, also without `--overwrite`. Two
    runs share `<output>.tmp`, so that a half-built database can become the output.
    A kill between deletion and rename leaves no output under its name; the next run
    deletes the temporary file that has it.

Properties and files:

20. `rm --keep` removes the cache too (`rm.c:33` says otherwise). `prop --copy` with a conflict
    and `--import` of a torn file return 0. An import without `-f` into a
    directory that exists fails by an `errno` left from before. `mv` looks at the
    cache of the destination only if the source has one, and a file with a cache
    cannot be moved to a directory that has none. Removing the last value leaves an
    empty temporary file.
21. `prop --auto` with rows to skip and no row of data takes all rows that are left for the header
    (`prop.c:307`); `-R auto --save` is refused when `d` only is saved, since "none" counts
    as a value there. A torn `props.json` makes every command fail to start. Two `prop`
    commands at one time share one temporary name (one at a time is modelled).

## 4. What is proved

Every proof follows the same plan: `IInv` strengthens the properties until each
step preserves it; one lemma per action shows that it does.

`ZsvScan_proofs` proves, for every buffer size, alphabet, input length, number
of columns, row limit, entry point and set of abort points:

- `TypeCorrect`: `Spec => []TypeOK`. Indices never leave the buffer, lengths
  stay a `size_t`, a row never holds more than `max_columns` cells.
- `Safety`: `Spec => []SafetyInv`, that is
  - `StageInv` and `ReadHasRoom`: what each stage of a call leaves to the next; in
    particular a read has room, so that a full buffer is not mistaken for the end
    of the input;
  - `RowInv`: while no truncated row is being thrown away, row start, cell start
    and cursor are in order, the finished cells lie one after the other in the
    row, the quote flags and the position of the closing quote agree with the
    bytes, and a CR outside quotes has ended the row;
  - `NoFault`: undefined behaviour needs a truncated row.

- `CancelsForGood`: `Spec => CancelledIsFinal`. After a call has returned
  `zsv_status_cancelled`, neither `zsv_parse_more` nor `zsv_finish` reaches a handler.

The assumptions are those of `ZsvScan`: the specials are distinct, the buffer
has at least one byte, and `SizeMod` is more than twice the buffer plus the
input, as 2^64 is. `IInv == TypeOK /\ SafetyInv` is inductive. `NoFault` is the
aim: `cell_dl` reads and writes `quote_close_position` bytes at the start of the
cell without looking at the length, so it is safe only if the closing quote lies
inside the cell. That needs `QuoteInv`; `QuoteInv` survives the shift of a
partial row because row start, cell start and cells move together (`OrderInv`,
`CellsInRow`), survives the boundary of a chunk because of `PENDING`'s clause,
and survives the read because of `StageInv`. `CrInv` is needed where a line feed
is ignored: nothing of a row may be pending there. Lemmas `RemoveDoubledFacts`
and `UnquoteFacts` say what unquoting preserves.

The same module goes on from there to what is delivered:

- `RowsAreTraced`: `Spec => []RowSoFar`. The cells collected so far, and the flags of the one
  being scanned, are those which the bytes of the row alone determine.
- `ImplementsTheRows`: `MaxInputs = 1` and `api = "more"` give `Spec => ImplementsCsvRows`,
  the refinement: for every size of the buffer and every way the reads divide the
  input, the rows delivered are those of the bytes scanned, and `zsv_finish` delivers
  the last. Both hypotheses are the code's: a second stream is scanned with the last byte of
  the first in mind, so that a line feed at its start may be taken for that of a CR LF pair, and
  `zsv_finish` after `zsv_parse_bytes` delivers a row too many (`extra_row`).
- `QuotesWhenNeeded`: `Spec => []QuotedWhenNeeded`, without any hypothesis: a cell
  delivered without flags holds no special byte, even among the tails of truncated
  rows, where cells are moved over one another.
- `CallsOncePerRow`: `MaxInputs = 1` gives `Spec => []OneCallPerPlainRow`. However often rows
  are truncated, an input without quotes makes at most one call of the row handler for each of
  its rows, and any input at most `max_rows`. Both fail over two streams: when the caller aborts as
  a row is truncated and yet supplies another stream, that row is delivered again.

What `Parse` computes is followed one byte at a time: `Runs` names the states of its
recursion, `RunExists` and `LeastNumber` give the induction over their number, and so
`Parse` of one more byte is `AddToRow` of `Parse` (no induction theorem with an
operator parameter is needed). `RowIInv == IInv /\ FeedInv /\ TraceInv` is inductive:
`FeedInv` says that the bytes of the row that are in the buffer and not yet unquoted are the last
ones of the input, wherever the row has been moved, and `TraceInv` that mode, value and
raw bytes of the specification's cell are what the flags, the position of the closing
quote and these bytes say. The heart is that unquoting in place gives the value that
`AddByte` builds: `RemoveDoubled` drops the second quote of each pair in the run of
quotes, as the mode changes from `quote` back to `open`.
`RefInv == RowIInv /\ OneStreamInv /\ LastInv /\ WholeInv` carries the refinement: `LastInv`
says that `last` is the byte before the chunk when the scanner looks at it, and
`WholeInv` that the rows of all bytes scanned are those delivered, followed by the row
which `TraceInv` speaks of.

`FlagsInv` is what `QuotedWhenNeeded` needs where `RowInv` does not hold. A cell that ended without
flags either holds no special byte (`PlainCell`), or reaches behind the buffer after the
subtraction wrapped, and then has no contents a handler could see. `HereInv` says the
same of the cell being scanned, and `TailInv` why a later unquoting cannot bring a special byte
into it: in the tail of a truncated row only the first cell can have a closing quote.

`CountInv == CallsInv /\ AheadInv /\ LimitInv` counts the calls. A row that was cut short is
delivered before its end is scanned, so the calls may be one ahead of the rows that have
ended; `AheadInv` says when, and that the row has begun whenever they are, so that it is
among those which are due (`Due`, which `PlainParse` shows to grow with the input). The step where this
could fail is the line feed after a CR that ended a row at the end of a full buffer:
`IgnoreLf` is impossible in the tail of a truncated row, as the byte before it is the last of that
row and no CR. `LimitInv` says that once `max_rows` is reached no part of the parser can go
on: it is aborted, and cancelled, finished or stuck with a full buffer (`Stopped`).

`RowHandlers_proofs` proves, for every set of options, number of columns, input
and abort:

- `RowsTypeCorrect`: `Spec => []TypeOK`. In particular `rows_to_ignore` and
  `header_span`, which are unsigned and counted down, never pass 0.
- `HeaderHandledFirst`: `Spec => []HeaderThenData`. The caller's first row goes to
  its header handler, all others to the data handler, with its own context and
  readable cells.
- `OverwritesReachRows`: `Spec => []OverwritesInUse`;
- `TailsAreThrownAway`: `Spec => []NoTailInRows`;
- `RowsReachCaller`: `Spec => []RowsAsPromised`. The caller has the rows of the input so
  far, in order and each once, without those to ignore or skip and with its header rows
  made one; their numbers; and in push mode their cells, each given to the cell handler
  before its row. What is exempt is what the property itself exempts, and nothing more.

`ChainInv` says which handler may be installed with which counters, and that the
scanner is the context of the links of the chain and nobody else's; `ModeInv` that
pull and push handlers do not mix, and that by the time a row is the caller's overwrites are
in use if they are to be; `Ordered` relates the calls so far to the
handler that `set_callbacks` will restore. `Handled` says what any link leaves, and
lemma `RowDlFacts` that it does so for one row, whatever link it reaches.
`TailInv`, on top of it, follows the texts: the row in hand, the header being collated and
the calls made hold rows only that are no tails, and the handler that throws rows away is
in force for exactly the tails.

`RowsReachCaller` compares two sequences of any length: what the caller was told, and
`RowsPromised` of all the input. `RowsAsPromised` alone is not inductive: it does not say what the
chain will do with the next row. `PromiseInv` adds that. As long as a row may come, the
scanner waits for the one behind the input so far (`Awaits`): `Phase` says that the counters
of the chain are those that the rows so far leave, that is rows left to ignore, whether a row
with text was seen, rows left to collate, and the text that `collate_header_append` has for every
column, which is the concatenation of that column; `Due`, that the handler installed is the one
those counters call for; `Counts`, that `data_row_count` is the number of rows told. A row that
`zsv_next_row` has returned is told but not counted, until the scan is resumed (`CountedTo`).
Each link of the chain is shown to take one row from `Phase` to `Phase` and to tell the caller
what the row adds to the promise (`Passes`; `IgnoreTakes`, `SkipTakes`, `CollateTakes`,
`CallerTakes`), and one lemma per action follows. What a row adds to a promise (`BodyMore`,
`HandedMore`, `CollatedMore`) rests on what one more member adds to a selection from a sequence and
to a concatenation (`KeptMore`, `FlattenMore`). Those two are recursive functions; the facts
about them use that the least number at which they could fail does not exist
(`LeastNumber`, from the well-foundedness of `<`) instead of an induction theorem. TLC
confirmed `PromiseInv` on the instance of the run `chain` before it was proved.

`VectorScan_proofs` proves, for every vector size and every chunk:

- `SearchStaysInChunk`: `Spec => [](TypeOK /\ EndsAtEnd)`;
- `SearchFindsAll`: `Spec => ImplementsByteScan`, the refinement.

`MaskInv` is the heart: whatever vector the mask came from, every special between
what is handled and the end of the vector *at `mask_last_start`* has its bit in
the mask. It holds when the mask is found in the first vector because the mask is
that vector's, and when it is found further on because the first vector, all of
whose bytes were passed over, has no special.

`CsvWriter_proofs` proves, for every buffer size, alphabet and set of values:

- `WriterTypeCorrect`: `Spec => []TypeOK`, in particular the buffer is never written
  past its end, and is empty before the first cell and after the last;
- `WriterKeepsText`: `Spec => ImplementsCsvOutput`. Lemma `WriteFacts` is the
  argument: a write makes file and buffer, taken together, longer by exactly its
  bytes, whichever of its three ways it goes.

`Compare_proofs` proves, for every number of inputs, all rows, headers, keys and
orders of keys, and every choice `qsort` makes between equal keys:

- `CompareTypeCorrect`: `Spec => []TypeOK`: the row in hand is that of its position,
  a row that waits has not been reported, and an input is over only after its last
  row;
- `CompareMatchesRows`: `Spec => ImplementsRowMatch`. `GroupFacts` shows that the
  inputs found after sorting are all those whose row in hand has the smallest key;
  `KeysLeftFacts` that a step takes the first key left of exactly these. If an input
  ascends its row in hand has its smallest key, and so no input that still has the
  key is left out.
- `CompareReports`: `Spec => []ReportsRows`. What a report says of the rows it is about: key,
  values matched by column name, the columns reported and left out, added values.

`PropertyFiles_proofs` proves, for every set of names, directories, data files, inodes
and commands, and every number of commands and kills:

- `GuessIsAHeader`: what `--auto` guesses of a file is within its rows, and the
  row after those it skips is not blank unless nothing is left;
- `PropertyTypeCorrect`: `Spec => []TypeOK`;
- `PropsAreWhole`: `Spec => []WholeProps`. A `props.json` that was torn by `prop` itself
  is never seen, under its name or by a reader who has it open, since `prop` writes
  another file and renames it;
- `SavesAHeader`: `Spec => []GuessesHeader`: what is saved as a guess is that of rows that exist;
- `FilesAreKept` and `PropsAreKept`: `Spec => FilesKept` and `Spec => PropsKept`. A step loses a data
  file, or properties, only if the command under way is one that may.

`IInv == TypeOK /\ JobInv /\ InodesApart /\ WholeProps` is inductive: `JobInv` says what the
command under way has in hand at each of its calls, and `InodesApart` that no inode has two names
and that the one being written has not been opened by a reader. `PropsAreKept` needs a second
invariant, `CacheInv`: only cache directories hold files, and a command is at a
call of its own kind only. That the least element of a set exists, on which the guess rests,
is `MinIsLeast`, from well-founded induction.

`PropsAreOwn` rests on `OwnInv`: while nobody interferes, the properties of every name are its
own, but for those about to be removed and those whose data file `mv` has moved ahead, or is
about to move back, and for those which a failed `mv --cache` has left with another's file (`Reverted`:
there the promise is false, and the theorem says so); `mv` moves back only when the destination had no cache directory, so that
nothing can have come under that name. `MergesProps` rests on `MergeInv`: from the read to the rename
what is to be saved agrees with what is found under the name, which holds as the temporary file
is another inode than the one found.

`Commands_proofs`, with its lemmas in `ProvedCommands_proofs`, proves for every command
that may be run, every two documents and options, and every batch size:

- `DatabaseIsWhole`: `Spec => []DbOldOrWhole`. Two runs of `2db` with one output may take their
  steps in any order and be killed between any two; only a run that has removed the temporary
  file of another (`shared`) is exempt, as in the property.

`DbInv` is inductive. `DbOwn` follows the file of one run: as long as it is alive, the rows committed and
those in its transaction are together what `Kept` has of the rows read so far, so that it does not
matter where the batches end (`InsertedDoes`: a row more on either side is a row more in all);
once the indexes are made and the last batch is committed the file is complete, and stays so when the
run is killed. `DbNames` follows the names: from `open` on the temporary file is that of the
run, so `rename` gives the output the file which that run has completed. `Kept` is a recursive function,
and `KeptRows` unfolds it (`KeepsExists`, with the least number at which it could
fail). The assumption, `ToDbAssumption`, is that batches are not empty and that a
document has the fields that the JSON schema of `2db` gives it.

- `OverwritesAreUsed`: `Spec => []OverwrittenWhereListed`. For every table and file, whatever
  cells are asked for.

`OwInv` is inductive. `Reading` says that what is left of the file is its tail and that the line at
hand is the one before that tail; `SkipPasses`, which unfolds the loops of `zsv_have_overwrite`
(`Skip` is a recursive function, so that this can be done), that they stop at the first
line that is not to be skipped, since with every line that is passed one less is left. An answer
(`OwAnswer`) is then the cell itself or the line at hand. `OwAllUsed` is the stronger part, for cells
asked for in order: every line passed is before the last cell asked for, so a line for the next one
is still ahead, and as the file is in order it is the one at hand. `OverwritesAssumption`:
rows and columns of the file are numbers, or left empty.

- `RowsAreSelected`: `Spec => []SelectWritesRows`, of `select` and of `select-pull`, which do the same
  with rows that come by callback and by loop. For every input and every choice of options the
  rows written are the eligible ones, each once and in order, up to the limit of `-H`; of a sample by
  chance they are some of these.

`SelInv` is inductive. It counts: what is left of `--skip-data` is what was asked for less the rows
with cells so far (`SelRowStep`), so that a row is skipped exactly if `Eligible` counts too few before
it; the numbers written are those of the eligible rows behind the reader (`SelNumbers`); and a row at the
limit has cancelled the command (`SelLast`), so that none comes after it. `SearchFinds`, which
unfolds the loop over the cells of a row, shows that the search says yes if and only if a cleaned
cell has the text, although it cleans cells in place as it goes. `SelectAssumption`: options are
numbers, and the parser delivers no row without a cell to these commands. The property says
nothing of `select-pull` with a sample distance of 256 or more, which does not fit its unsigned
char.

- `FilesSideBySide`: `Spec => []PasteSideBySide`. For any number of files of any shape, each file has
  columns of its own that never move, row n of the output has row n of each, and there are as many rows
  as the longest file has.

`PasteInv` says how often each file has been asked for a row (`AskedTimes`: a file that has ended is not
asked again, and keeps its last row, which is no more used), that the width of a file is fixed when its first row
is there, and that another row is due exactly if a file had one (`PasteLoaded`). `PiecesInPlace` says where
each piece is when sequences are put one behind the other. `PasteAssumption`: at least one file.

- `CharactersAreKept`: `Spec => []Utf8KeepsCharacters`. For every cell, whichever of its bytes are
  malformed, repair in place leaves the characters, in order, and replaces or drops each other byte.

`Utf8Inv` says that the front of the cell is what is to be kept of the bytes read so far, and that the
bytes from the read position on are still the cell's: the write position never passes the read position, as a
malformed byte is replaced by at most one. It rests on `Utf8Whole`: no character of the cell lies on both sides of
the read position. That is why a character cut short takes only the bytes up to the one that does not
belong: that one may begin a character. `Utf8Assumption`: a cell is a sequence of bytes.

- `TablesAreRebuilt`: `Spec => []SerializeRebuilds`. For every table with an id per row and named
  columns, exactly one tuple behind the first row has the id and the column name of a cell that is not
  the id, and it has its value. If the ids are not in the first column, the name of that one is the empty
  name, as `serialize.c:152` stores none for it.

`SerInv` says that the tuples behind the first are exactly those of the cells read so far that are shown
(`SerTuples`), with the names of the first row. The proof is why `Rebuilds` excepts the first row of the output: that
is a header, whose second cell is "Column", and when a column has that name and a row has the name of
the id column for its id, the header looks like the tuple of a cell. An input with such
a column is among TLC's. `SerializeAssumption`: names and cells are texts.

Only model-checked:

- `Terminates`: liveness under fairness is out of the prover's reach.
- `ReadsBack` of the writer, which parses the text of the file.
- `ImplementsCsvRows` over several streams, or with `zsv_parse_bytes`.
- `SelectWritesColumns`, `FlattenRowPerBlock`, `EchoOverwritten`, `PrettyAligned`, `JsonWritesTable`: a step folds an
  operator over the cells of a row or over the rows kept (`FoldLeft`). What such a fold computes
  needs induction over the sequence; a fold takes an operator as a parameter, so a lemma
  about one fold does not serve another.
- `StackUnderItsName`, `FixedRows`, `DescDescribes`: they speak of selections from a sequence and of sorted
  sets (`SelectSeq`, `SetToSortSeq`); the first of these the provers cannot expand.
- `TsvReadsBack`, which parses the text that is written.

## 5. What would come next

Proofs of the text of the CSV writer (`ReadsBack`) and of what the other commands write, with the
input as a sequence and the output as a function of a prefix of it, as in `RowsReachCaller` and
`RowsAreSelected`; two `prop` commands at one time.

## 6. Not modelled

- `sql` builds a statement and passes rows from SQLite to the writer; what it promises is SQLite's to
  keep. `2json --from-db` likewise.
- `count`, `count-pull` and `noop` are a counter in a row handler, or nothing.
- Extensions, the ini file, help texts, `jq` and the JSON helpers: a table of function pointers,
  texts, and wrappers of libraries that are not in the repository.
- Option parsing and platform glue (`arg.c`, `os.c`, `file.c`, `mem.c`, `signal.c`), but for what commands do
  with the parsed options.
- `prop --export` and `--import` of anything but the one file a cache directory holds; types
  and collations of columns in `2db`, and inserts or commits of SQLite that fail; a loss of
  power, after which a rename may come before the bytes of the file.
- Examples and the JavaScript bindings: callers of the library, whose order of
  calls `ZsvScan` takes from them.
- Vendored code (SQLite, yajl, inih, sglib, utf8proc), but for the JSON writer.

`PROJECT.json` lists every component with its status.
