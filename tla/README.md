# p4ls in TLA+

A verification development for p4ls, the language server for P4 in
`src/server` (C++, boost::asio, boost::wave, rapidjson). It holds TLA+ modules
translated from that source, TLC configurations that check them on small
instances, and TLAPS proofs of the theorems that hold for every instance.
Line numbers refer to the sources; `PROJECT.json` maps every definition to its
lines.

## 1. The system

p4ls is one process. A client (Emacs, Eclipse) writes JSON-RPC messages to its
standard input and reads the answers from its standard output.

| component | source | state | operations |
|---|---|---|---|
| Server threads | `lsp/lsp_server.cpp` 18-105, 330-392 | `_is_done`, `_io_context` with its queue, `_work`, `_worker`, the streams | `run` (read, post, set done, reset, join), `on_exit`, the constructor's worker thread, `read_message` |
| Dispatch | `lsp/dispatcher.cpp`, `lsp/context.{h,cpp}` | the table of handlers; the thread-local stack of context layers | `call`, `reply`, `send`, `Scoped_context` in and out |
| Protocol types | `lsp/protocol.{h,cpp}` | none | `set_params_from_json`, `get_json` |
| Document store | `lsp/lsp_server.cpp` 140-170, `lsp/p4unit.cpp` | `_files`, the text of each `P4_file` | didOpen, didChange, didClose, didSave, `change_source_code`, `get_position_index` |
| Compilation commands | `lsp/lsp_server.cpp` 394-470 | `_commands` | `find_command_for_path` |
| Symbols, hover, highlights | `lsp/p4unit.cpp` | tables of a `P4_file` | `compile`, the three requests |
| Lexer generator (slex) | `p4l/lexer.h` 189-2712 | expression trees, `dfa_table` | `parse` of an expression, `create_dfa`, `do_match`, `next_token` |
| Table cache | `p4l/lexer.h` 2757-2899, 3494-3583 | the file `wave_slex_lexer.dfa` | `load`, `save`, `init_lexer` |
| Hand-written lexer | `p4l/lexer.cpp`, `p4l/lexer.h` 127-178 | one character of lookahead, row, column, text, value, width | `next` and the reading functions |
| Token functor and iterator | `p4l/lexer.h` 3592-3733, `p4l/p4lex_iterator.h`, `p4l/p4lex_token.h` | `first`, `at_eof`, the current token | `get`, `set_position` |
| Parser and AST stubs | `p4l/parser.cpp`, `p4l/ast.h` | none | `run` (reads nothing) |
| Daemon | `daemon/main.cpp` | options, logging | `main`, `signal_handler` |
| Clients | `src/clients/*` | | start the server |

How they interact. `run` reads a message on the main thread and posts
`Dispatcher::call` to the `io_context`; the worker thread runs the posted
functions in turn. `call` pushes the output stream and the request id as layers
on the thread-local context and invokes a method of `LSP_server`; a method that
answers calls `reply`, which looks the id and the stream up in that context.
didOpen and didChange change the text of a `P4_file`; didOpen also looks up the
compilation command, which reads `compile_commands.json` from the disk. A
`P4_file` is compiled by boost::wave, which takes its tokens from the functor,
that is from the table of the lexer generator, which `init_lexer` loads from the
cache or builds from the registered expressions. The hand-written lexer is to
feed the parser, which is a stub.

What is hard in it, and what makes the parts correct:

- *Frames.* Lengths come from the client, reads end anywhere and may be
  interrupted, and `errno` is never cleared. Each content has to be delivered
  once, in order, and the end of the input has to be noticed.
- *Threads.* `_is_done` is a plain `bool` shared by two threads; functions that
  are queued capture objects on the stack of `run`. No message may be lost or
  overtaken, `run` may only return when the worker is done, and must return
  after the end of input.
- *Ids through context.* The handlers never see the request id. Every way out of
  `call` must leave the context as it was, and every request must get its own
  answer, once.
- *Texts kept in step.* Positions are turned into indices, changes are applied
  one after another or ignored; the protocol counts UTF-16 units, the server bytes.
  The text of the server has to stay that of the editor.
- *Remembered commands.* Databases change on disk, entries stay in memory.
- *Tables.* Vectors grow in step during the subset construction. The table has
  to be that of the expressions, the longest match and the first registered
  expression have to win.
- *A file between runs.* Servers crash while they save it, and others load it.
- *Tokens on their way.* `get` throws and is called again, `#line` directives
  renumber the token in hand and those to come. No other token may be lost, and
  the loop that catches the exceptions has to end.
- *Lookahead.* Each reading function of the hand-written lexer leaves a character
  for the next.

## 2. Modules

    RpcPromise        what the dispatcher promises           (abstract)
      Protocol        contents, methods, answers
      Dispatcher      Dispatcher::call and Context           refines RpcPromise
        LspServer     both threads around the dispatcher   refines FrameReader
    FrameReader       what the loop around read_message promises (abstract)
      MessageReader   read_message on header lines         refines FrameReader
    CompileCommands   find_command_for_path
    P4File            positions and changes of a text in UTF-8
      Documents       editor and server, with CompileCommands
    RegexTree         positions of expression trees
    SubsetConstruction  create_dfa_for_state, do_match
      RegexLexer      both together
    RegexGrammar      the grammar of expressions
      RegexLanguage   what a text should mean                (reference)
    DfaCache          load, save, init_lexer
    TokenStream       slex_functor::get, the iterator, the loop of compile
    P4Number, P4Lexer the hand-written lexer
      P4Tokens        what it should find                    (reference)
    LspServerProofs (and Dispatcher), MessageReaderProofs,
    DocumentsProofs (and CompileCommands), RegexLexerProofs (and
    RegexTree, SubsetConstruction), DfaCacheProofs, P4LexerProofs, TokenStreamProofs     theorems
      SequenceLemmas  what several of them need: induction, stacks, flattening
    MC*               instances for TLC

**Protocol** abstracts a message content to the facts that `call` tests, in the
order it tests them: does it parse, is it an object, has it the version, what is
its id, its method and the shape of its parameters. `AnswerTo(m)` is the answer
that the code gives to a content.

**RpcPromise** has no context: contents are taken up one at a time, each is owed
`AnswerTo(m)`, and the next is not taken up before that was delivered.

**Dispatcher** is one call, step by step. `context` is the current `Context`, a
sequence of layers; `scopes` holds the `_previous` of the `Scoped_context`
objects that are alive. `pc` follows the function: `validate` (the early
returns, `Drop`, or `Abort` where rapidjson asserts or `std::stoi` throws),
`stream`, `invoke`, `send`, `leave_id`, `leave_stream`. `invoke` can abort, too:
in a setter (a range of didChange without its members), or in the handler of
didOpen, where the disk decides (`MayAbort`). `Promise` is the refinement mapping
to RpcPromise.

**LspServer** extends it with `run` on the main thread (`mainPc`: `test`,
`read`, `post`, `done`, `reset`, `join`, `returned`), the queue of the
`io_context`, and the worker. A store of the worker to `_is_done` stays `unseen`
for a while, and until then `TestLoop` may read either value: that is what the
data race can produce. A frame is a content, or `Junk` for everything for which
`read_message` returns `nullopt` although the stream is good. `FrameStream` maps
the server to FrameReader: a content is delivered when it is posted, and what is
in the hands of the reader is still in the input.

**FrameReader** takes frames off an input in order and hands on the content of
each once; behind a frame whose length is wrong, and after an interrupted read,
it may do anything (`Guess`). **MessageReader** is `read_message` with the loop
of `run`, one action per line, per content and per interruption. A text is a
sequence of the symbols that the function tells apart: a `Content-Length` with
its value, other header text, `\r`, `\n`, a byte of a content. `good` and `errno`
are those of the code. `checked` says whether the library aborts on `back()` of
an empty string, which is undefined otherwise. What a frame means (`KindOf`,
`LengthOf`) is defined from what the client wrote, not from the stream: a header
of lengths and other texts, lines that end in `\n` or `\r\n`, any content. A
content that is not asked for counts as passed over only if it reads like header
lines that change nothing (`OwnLines`).

**CompileCommands** has the disk (a database per directory, written by anybody
at any time), `_commands`, and the lookup. A database with an entry that fails an
assertion is one of a kind `faulty`. The include directory of a command
comes from a tokenizer over a destroyed string: it is any of `Includes`, and the
assertion of its iterator can fail for every array.

**P4File** holds the arithmetic: `get_position_index`, `change_source_code`, and
next to it what the protocol means by a position (`PositionOf`). A text is the
sequence of its bytes in UTF-8. The code counts bytes, the protocol UTF-16 units:
none for a byte that continues a character, two for the first byte of a character
outside the basic plane. A client cuts texts at `Boundaries` only; the server may
cut inside a character. **Documents** has the texts of the editor, the `P4_file`s
of the server, and one action per notification. `lost` is a history variable: for
each path, how many reports it was sent since the first one that the server is
known not to follow (`Unfollowed`), or 0.

**RegexTree** has a syntax tree as the sequence of its nodes, each behind its
operands, as the classes of `lexer.h` own them: `m_left` and `m_right` are the places
of the operands. The virtual methods that return nullable, first, last and follow
positions, matched characters and eof ids become one recursive function over the
places of the nodes (`Attributes`). Next to it stands what an expression means,
which knows nothing of positions: the spans of a word it describes (`Spans`).
**SubsetConstruction** builds the table one entry at a time (`Mark`, `Enter`,
`EndOfRow`, `Finish`) and matches with it; **RegexLexer** puts both together for
the registered lists and compares the matches with the spans. **RegexGrammar**
is the grammar of expressions as a function of a text with its stack of actions;
**RegexLanguage** writes terms as texts and says what they mean.

**DfaCache** has the file as a sequence of chunks, and servers that start, load
chunk by chunk, compile, open, save chunk by chunk, fail to write, stop and
crash. `shared` is a history variable: a server was started while another one
was between its start and being ready.

**TokenStream** has a text as the pieces that `next_token` finds in it, the place
and line of `first`, `at_eof`, and the token of the iterator. Each way out of
`get` is an action: a token, an exception of a validation, `T_EOF`, `T_EOI`.
`SetPosition` is what boost::wave calls behind a `#line` directive. wave itself is
external: it asks for at least one token per pass of the loop of `compile`.

**P4Number** is `read_number` on the text of a literal, **P4Lexer** the lexer
over a stream with `get()` and its failbit. An action is a pass of a loop of `next()`
and the reading functions, or what stands between two loops: `pc` says which loop,
`lexer` holds the stream, `last`, the row and the column, `tokens` what the calls
returned, each with the `last` it left behind. A block comment that is not closed
makes steps for ever, and no call returns from it.
**P4Tokens** defines the tokens of a text from the places of the text: the piece
that begins at a place is a space, a comment, a number, a name or the longest
lexeme that stands there, and the text is cut into pieces one behind the other.

## 3. Runs

Each passing run lists its properties in its `.cfg`; each property comes with a
mutant (an operator marked "Mutant:" in the module) under which the same run
finds it violated.

| run | what it asks | bounds, and why they are enough |
|---|---|---|
| dispatcher_call | is the promise kept for every class of content, in every order | all classes of contents; two ids, so that a wrong one can be told; the output is cut after 2 replies, so that there is one behind and one in front |
| server_threads | queue, drain, order of replies, FrameReader; end of `run`, nothing left unhandled | 3 frames out of 5 contents and junk: one in the call, one in the queue, one in the hands of the reader; more frames only lengthen the queue, for which the proofs stand |
| read_message | does it read what the client wrote, when does it abort, does it notice the end | every input of up to 2 of 17 frames, cut off anywhere, one interruption anywhere; the largest content, streamsize and length are 2, 3 and 4, standing for 2^30, 2^63-1 and 2^64-1, so that there are lengths on both sides of each; with 2 frames there is one behind whatever went wrong |
| compile_commands | only listed commands, which stay | 2 files, 2 directories in a chain, databases of up to 2 entries (two entries for a file, entries for the other file) |
| documents | texts stay in step; every position has the right index | texts of up to 5 bytes with line ends anywhere and characters of 1, 2 and 4 bytes, batches of 1 or 2 changes, one edit beyond the first that is not followed |
| regex_lexer | is the table exact, does the right expression win, does the construction end | every list of one or two expressions with up to 3 operators over 2 characters, inputs of up to 4 |
| regex_grammar | are texts parsed as meant, does the stack stay balanced | terms of two operators over 8 atoms (some 2600), classes like those of the server's tokens, all texts of up to 4 of the special characters |
| dfa_cache | is a torn or foreign file never taken, a good one always | 2 servers, 2 builds, 4 starts, tables of 3 chunks: header, middle, end |
| token_stream | are tokens in order and numbered as the directives say, does `compile` return | texts of up to 4 pieces of every kind, directives to lines 1 and 7: a directive, its end, and a token behind that, with an exception between any two |
| p4_lexer | tokens, rows, end, termination; value and width of a literal | all texts of up to 5 characters around comments, up to 4 around operators and names, and of white space; literals of up to 4 binary and 3 other digits with widths up to 16 |

The bounds are constants of the MC modules and configurations: `MaxOutput`,
`MaxSent`, `MaxFrames`, `MaxInterrupts`, `MaxEntries`, `MaxLength`, `MaxLost`,
`MaxInput`, `MaxWord`, `MaxStarts`, `MaxPieces`, `MaxWidth`. No symmetry is used.

`CHECK_DEADLOCK FALSE` stands where the system may stop: a dispatcher that
aborted, a reader that has given up, a table that is complete, an input or a
token stream that is at its end, a directory whose starts are used up. `LspServer` and the documents are checked for
deadlock; `Stopped` is the step of a server that has returned.

Runs that are expected to fail, each with a finding in `PROJECT.json`:

| run | what the code does |
|---|---|
| advertised_requests | references and willSaveWaitUntil are advertised, but answered with MethodNotFound |
| line_end | a character beyond its line has no index, and the change is ignored |

Some properties state a promise together with its known exceptions, so that the
rest of it is checked. What they except, and why:

| property | exception | what the code does there |
|---|---|---|
| ReadsFrames | what follows a frame of kind `misframed`, and a `disturbed` read | the length is not that of the content, or a signal took a part of a line or of a content: the reader stands in the middle of a text that it takes for header lines |
| AbortsExplained | lengths of 2^64 and more; with a library that checks, empty lines | `std::stoull` throws out of `run`; `line.back()` of an empty string, behind a bare `\n` or at the end of the input |
| ReaderStops | `errno = EINTR` | an interrupted read leaves it so, the end of the input then looks like another interruption, and the loop never ends |
| StaysToTheEnd | `disturbed` | after an interrupted read of a content nobody clears the stream |
| Synchronised | paths with `lost > 0` | ends of lines (the run line_end); positions behind, and lengths over, characters outside ASCII; a document that is closed and opened again with another text keeps its old one |
| PositionIndexExact | behind characters outside ASCII | the index is too small, but on the right line |
| LinesAsDirected | a directive whose line ends in `\r` alone | `set_position` looks for a `\n` in the current token |
| EndAtEnd | texts with an empty `//` comment, or a `#` | `is.get(sb)` stores nothing and sets failbit, and the next token is `T_END` |
| CallsReturn | a block comment that is not closed | its loop ends only at a NUL, and `advance` gives EOF for ever |
| LongestTokens | quotes, `#` and `@`; an empty `//` comment; a block comment that is not closed; a `\|+` or `\|-` without a second bar | strings, locations and pragmas are no tokens of the reference; the comments are those of `EndAtEnd` and `CallsReturn`; `read_other` has taken two characters and gives `T_UNKNOWN` for both |
| RowsCounted | a new line behind a name; texts with a quote | `read_identifier` and `read_string` take characters past `advance`, which counts rows |
| Balanced | texts with a `/`; a `-` before a character that is not above the one in front of it | trailing context (`re/re`) leaves a tree of its own, and the assertion of `parse` fails; a range that does not ascend, and the closing bracket can be its end, fails that of `make_ccl` |
| ParsedAsMeant | no `[` in a class | `make_ccl` skips it with what follows |
| TablesOfBuild, CompiledOnce | `shared` | two servers in `init_lexer` at once can leave a file with a good header and a hole, and a third takes it |
| LiteralValue | no literal of underscores only (`0x_`) | `std::stoi` throws `std::invalid_argument` out of `next` |

### Fairness

- `LspServer`: weak fairness of the main thread, of the worker, and of the store
  becoming visible. The operating system schedules both threads, and a handler
  is assumed to return: for the loop of `compile`, `CompileReturns` shows it.
  Nothing is assumed of the client: it may stop writing and never close.
- `SubsetConstruction`, `DfaCache`, `P4Lexer`, `MessageReader`, `TokenStream`:
  weak fairness of the only function that runs, in `DfaCache` per server, in `P4Lexer`
  of a call that was begun: the stream is in memory, and nothing blocks.
  Starting, crashing, interruptions and `#line` directives are not fair. The
  input of MessageReader is one that the client has finished.

## 4. Proofs

TLAPS 1.4.5 proves, for any set of contents and ids, any number of frames, any
lengths and limits of them, any files and databases, texts of any length and any
edits, any lists of expressions and any alphabet, any number of servers and any size of a table:

| theorem | module | states |
|---|---|---|
| DispatchTypeCorrect, DispatchContextBalanced, DispatchContextOfCaller | LspServerProofs | the invariants of dispatcher_call |
| DispatchImplementsPromise | LspServerProofs | Dispatcher implements RpcPromise |
| ServerTypeCorrect, ServerDrains, ServerOneLateMessage, ServerRepliesInOrder | LspServerProofs | the invariants of server_threads |
| ServerPostsFrames | LspServerProofs | the server implements FrameReader |
| ServerQueueIsFifo, ServerContextOfCaller | LspServerProofs | what is posted is what was handled followed by the queue; ContextOfCaller on the worker thread |
| ReaderStaysToTheEnd, ReaderAbortsExplained | MessageReaderProofs | the invariants of read_message |
| ReaderReadsFrames | MessageReaderProofs | MessageReader implements FrameReader |
| CommandsTypeCorrect, CommandsOnlyListed, CommandsAlwaysStay | DocumentsProofs | everything compile_commands checks |
| DocumentsTypeCorrect, DocumentsSynchronised, DocumentsPositionsExact | DocumentsProofs | the invariants of documents |
| TablesAlwaysAligned, TableAlwaysExact | RegexLexerProofs | the table of regex_lexer |
| TableMatchesLongest | RegexLexerProofs | `do_match` on the complete table finds the longest prefix that the automaton accepts, and the smallest eof position there |
| LexerTakesLongestFirst | RegexLexerProofs | LongestFirst of regex_lexer: `do_match` finds the longest prefix that an expression describes, and the first expression that does |
| CacheTypeCorrect, CacheTablesOfBuild, CacheCompiledOnce | DfaCacheProofs | the invariants of dfa_cache |
| StreamInvariant | TokenStreamProofs | the types of TokenStream, and where its iterator stands |
| StreamTokensInOrder, StreamLinesAsDirected | TokenStreamProofs | the invariants of token_stream |
| LexerInvariant | P4LexerProofs | the types of P4Lexer, and where its stream and each of its loops stand in the text |
| LexerRowsCounted, LexerEndAtEnd | P4LexerProofs | the rows and the end of p4_lexer |
| LexerLongestTokens | P4LexerProofs | LongestTokens of p4_lexer: what `next` returned for a plain text are its longest tokens |
| LexerLiteralValue | P4LexerProofs | LiteralValue of p4_lexer: a literal is read in one token, with the value and the width it says |

*Dispatcher.* `ContextBalanced` is not inductive: `Leave` takes off whatever is
on the stack. The invariant `ContextShape` says, for every `pc`, exactly which layers
and which saved contexts there are: none, the stream, or the stream and the id
of the message in the call. Each action takes the shape of its `pc` to that of
the next, by lemmas on sequences of at most two elements.
With the shape, `send` finds exactly the id of the message, and each step maps
to a step of RpcPromise or to a stutter.

*Server.* The invariant of the threads adds that the worker only stops when the queue
is empty and `_work` is gone, and that `_work` goes only when the reader is past
its loop, so that nothing is posted any more; and for `OneLateMessage` that a
late message is posted only from a read that began before the store was visible.
The steps of the dispatcher are taken over from its own lemma: `WorkerStep`
leaves the variables of the server alone but for `_is_done`. `RepliesInOrder` needs
that the call in progress is that of the last message handled, and that a call
writes all of its answer on one of the ways past `send`: early returns, handlers
that do not reply and messages without an id are owed nothing. It is proved over
the messages handled first; that these begin the ones posted is `QueueIsFifo`. The
flattening of a sequence of answers is a recursive function: SequenceLemmas proves
that it exists and what it does with one more sequence. For the refinement, a step
that reads takes a frame, a step of the client lets one arrive, and the post, which
moves a content from the hands of `run` to those posted, is a stutter.

*Reader.* A read that fails has taken all there was, or a signal stopped it
(`FailsAtTheEnd`). The case to look at is `ignore`, which may leave the stream good
or not when the input ends exactly behind what it passes over.

That it reads what the client wrote rests on two invariants. `Layout` says where
every frame lies in the input: its header lines one behind the other, the empty
line, the content; it is shown for the initial states, from lemmas on where the
texts of a flattened sequence begin, by induction over header lines and over
frames. `ReaderPlace` says that a reader that is still `Framed` stands at such a
place (`At`): in front of a frame, in front of a header line with the length of
the lines before it, in front of the `\n` that an interruption left of an empty
line, in front of a content with the length of its header, or in front of a line
of a content that is read as header lines. `StepGoes` shows that every step leads
from such a place to another one of the same frame, to the beginning of the
next, or to the end of the input, or that the reader is no longer framed; and it
shows what was delivered on the way. The refinement follows: a step takes a
frame, loses the framing, is interrupted, guesses, ends, or is a stutter.
`AbortsExplained` needs besides that lengths in `rest` were written by the client
(`RestWritten`), and that a framed reader sees an empty line only where a frame
ends its lines in a bare `\n` or has a `\n` in its content. The proofs found three
places where the model said less than was meant: cases of `KindOf` that
overlapped, a content that is itself a `Content-Length`, and symbols of a content
in a header.

*Token stream.* `TokensInOrder` and `LinesAsDirected` compare the state with
recursive functions over the text: those tokens that are to be returned, and the
line of a piece when the directives given so far are counted in. Both exist by
the recursion theorem on the numbers. The invariant adds where the iterator
stands: on a token of the text in front of `first`, or on one of the end when the
functor knows; and that the directives given are all behind it, so that one more
directive changes the lines from its place on, and no others.

*Documents.* `Synchronised` is inductive with the types, because `lost` remembers:
a change that `Unfollowed` does not name has the same range in bytes for the server
as in units for the editor, and both replace the same bytes. That range is found
line by line: `LineStart`, the loop of `get_position_index`, ends at the place that
`StartOfLine` defines by counting new lines (by induction over the lines), and the
index of a reported position is that start and its units where no wide character
stands in front of it. `PositionIndexExact` needs more, since behind wide
characters the index is only bounded: there are at most as many units as bytes in
front of a boundary, because each first byte of four, which counts two, is followed
by a byte that counts none (an injection).

*Commands.* `OnlyListedCommands` is not inductive, since a lookup takes commands
from the disk: the invariant adds that what is on the disk has been listed. That
each loaded command comes from an entry for its file needs the first such entry
to exist, that is, a least element of a set of indices.

*Table.* `TableExact` needs the types of the vectors, `TablesAligned`, and that
the state in progress is marked. `GrowsByOne`, `RowsAfter` and `EntryAfter` say
what a pass of the inner loop does to the vectors, whether the set of followers
is empty, known or new; the three cases are proved one by one, and the
invariant from what they have in common.

*Matching.* `MatchInv` adds that the first state is that of the first positions,
that each state accepts what its positions say, and that a complete table has no
state left to process, so that `TableExact` speaks of every entry. The run of
`do_match` and the positions after each prefix (`PositionsAfter`, which knows
nothing of states) are recursive functions; by induction over the input, the run
stands on the state of the positions, or nowhere when there are none. What is the
longest match by positions is then what `do_match` takes.

*Expressions.* What connects positions with the meaning of an expression is a walk:
positions, one for each character between two places of a word, that match these
characters, the first of them from `first`, the last from `last`, each in the `follow`
of the one before. A tree reads a word between two places if there is a walk, or if
the places are the same and it is nullable. `TreeAgrees` says that each node of a tree
reads exactly what it describes, by induction over the nodes: a walk of a `cat_node`
goes over from the left operand to the right one once, because the positions of the
two are disjoint (the numbers that `assign_node_ids` gives ascend), and a walk of a
`star_node` is cut where it goes from a last to a first position. For a list,
`ListComposed` says that `parse_regexes` keeps the positions of the expressions apart
and ends each with a larger eof id than the one before, so that a walk from the
first positions to an eof id is a walk of that one expression (`PositionsArePaths`
connects walks with the sets of positions the table is made of) and the
smallest eof id is the first expression. No expression has an `eof_node` of its
own and no empty token is taken.

*Cache.* While `shared` is false, at most one server is in `init_lexer`. The
invariant says that the file is then always the first part of the image of one
build, that what a loading server has read is the first part of its own image
and of the file, and that a saving server stands at the end of the file. A file
with the header of a build is then a part of its image, and a complete one is
its image.

*Hand-written lexer.* The invariant (`LexerInv`) says that the stream holds the rest of
the text and fails only with EOF in `last`; that `last` is the character in front
of the rest, but for the blank the lexer starts with; that in `read_other` the
character `prev` stands in front of `last`; and that a block comment begins at some
place behind which no `*/` was taken (`InComment`). For the inner loop of a comment
this needs that `last` is a star and not the one the comment begins with, and for the
outer loop that a star there can only be that one: behind any other it would pass
over a `*/`. `Sound` holds with its exception because a stream that fails in front of
the end was asked for an empty line: then two slashes stand in front of a new line,
or the text has a `#`. The rows rest on one lemma per way of taking characters:
`advance` (`Advances`) and `is.get(sb)` (`TakesLine`) leave the difference between
the row and the new lines taken as it is, `is.get()` behind a name (`NameGets`) lowers it
by the new line it takes, and the name that is returned with it is counted. That
every operator is read in such ways is `OperatorReads`.

*Longest tokens.* `SplitInv` says where a call of `next` is, in terms of pieces: the tokens
returned so far are those of the text in front of some place (`SplitTo`), and a piece
begins there. Between two pieces `last` is the first character of the next one, which
is what every reading function has to leave behind; in a name or a number the
characters from that place to `last` all go on with it; in `read_other` the
character `prev` is there and `last` behind it; in a block comment `/*` is there,
and where the loop stands is `InComment` again. Each step stays in its piece, or ends
where the piece ends: a run where it can go on no more (`RunEndIs`), a line comment at
its new line (`LineEndIs`), a block comment at the first `*/` (`BlockEndIs`). For
operators, `OperatorFound` shows it: what `Operator` reads with one or two characters
of lookahead is the longest entry of the table of lexemes, which is found from the
entries that begin with a character (at most four). One step more of the function
`Pieces` is `OneMore`; that the token of a number does not depend on
the width that an earlier literal left in the lexer is `NumberAlone`.

*Literals.* `ValueInv` says that a literal is read as far as `last` (`LiteralAhead`), or
was read with what `read_number` makes of the whole of it (`LiteralDone`); every character
of its text goes on with the number, so the call cannot return in front of the end. What
is left is about `read_number`. That `std::stoi`, which stops at the first character
that is no digit and throws when an int is too small, is the sum `Denoted` of the
reference goes by induction over the digits (`StoiDenotes`): the sums of the first
digits never exceed the whole one. The groups of the regular expression are found from
the text: behind the only `s` or `w` (`MarkedReads`), or from the start where there is
none (`UnmarkedReads`), the base is read and the digits follow (`BodyReads`). Mask and
sign are powers of two, which TwoTo defines by doubling; that value and digits then
differ by a multiple of the power, with the value in its range, is `CutToWidth`.

Only model-checked: the grammar of the lexer generator (`ParsedAsMeant`, `Balanced`
compare it with recursive operators over expressions), and all liveness.
Liveness under fairness, ENABLED and recursive operators are out of the prover's
reach. The library's theorems on induction take a predicate as a parameter, which
the provers cannot instantiate; where the proofs need induction they take it over
the numbers of a set (`Induction` in SequenceLemmas, from the well-foundedness of
the numbers). The modules that use `RECURSIVE` (RegexLanguage, RegexGrammar)
are for TLC.

Assumptions of the theorems are the named assumptions on the constants in the
modules: contents are of the type `Content`, ids are integers, the header lines of
a frame hold no line ends and end in `\n` or `\r\n`, the limits of lengths are
numbers in their order, texts are
sequences of bytes in UTF-8, cut only between characters, those of the hand-written
lexer sequences of characters without NUL and EOF and its letters neither blanks nor
slashes nor EOF, its literals are at most 30 bits wide, with digits of their base that
denote an int and a sign only behind a width, the directories
above a file are a sequence, the positions of an automaton are numbers and its eof ids
finitely many, the lists of expressions are not empty (`parse_regexes` throws
otherwise), their expressions are trees without an `eof_node` over the alphabet, and
the automata of RegexLexer are those of its lists, the size of a table is positive. `~shared` is a premise inside of
`TablesOfBuild` and `CompiledOnce`, for the reason above.

## 5. Not modelled, and what abstractions leave out

- boost::wave and boost::spirit between the loop of `compile` and the functor:
  `multi_pass` only hands tokens on. The tables of symbols stay empty because
  their collector is compiled out (`#if 0`).
- The text of a token in `get` (trigraphs, `include_next`) and guards against
  repeated inclusion, which are data of wave.
- The parser and the AST, which read nothing; the daemon, whose signal handler
  ends the process; the clients, which start the server and show its answers.
- `_is_done` in MessageReader (it is LspServer's); what logging does to `errno`
  between two reads is assumed to be nothing.
- Shifts of 31 bits and more in `read_number`; bytes 0xFF in a stream.
- Escapes by number and characters wider than a byte in regular expressions: the
  server's expressions have neither. A class expression like `[:alpha:]` is one
  character of the text, found only between the brackets of a class.
- Logging everywhere.

Hazards that no property covers are listed with the reason in `PROJECT.json`.

## 6. Plan

Done, in this order: the dispatcher and its promise; the threads around it;
documents and commands; the lexer generator and its grammar; the cache; the
hand-written lexer, pass by pass of its loops; proofs of the dispatcher, the threads, the cache, the subset
construction and the commands; `read_message` and its promise, which the threads
implement too; texts in UTF-8; the token functor; proofs of the documents, of
the order of replies, of the token stream, of the matching, of the hand-written
lexer, the tokens it finds and the values it reads, that `read_message` implements its promise, and that the lexer generator
recognises what its expressions describe.

Next, by weight:

1. An abstract document store (a map from open paths to texts) that Documents
   implements while nothing is lost.
2. The client side of LspServer: initialize, shutdown and exit in the order the
   protocol asks for, and a client that waits for answers.
