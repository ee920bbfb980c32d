# Verification of the AT command server

TLA+ models of the AT command server library (`src/lib`), the TLC runs that
check them on small instances and machine-checked proofs for every instance.
Line numbers of the source are in the `map` of `PROJECT.json`.

## 1. The system

The library is a C++23 template, `Server<...>`, instantiated at compile time
with three lists of command classes. The application feeds it characters
(`feed`), the server calls the handlers of commands and prints responses
through a callback, and handlers that cannot finish at once return `ASYNC` and
report later through `on...Update()`. There is no thread and no allocation in
the library; everything happens inside the calls of the application.

### Components

| component | state | operations | what makes it correct |
|---|---|---|---|
| Parser (`server/server.h`) | `m_state` (a member-function pointer), trie node, parameter in hand (`m_param_index`, a union of number / string size / hex-string state) | `feed`; one `stateX` handler per state; handlers dispatch the same character again (`stateBasicParameter` twice) | accepts what the tables describe and nothing else; every line that ends is answered; what it writes, it writes where the executor will read it |
| Command line buffer and executor (`detail/server_cmdline.h`) | `m_cmdline`, `m_cmdline_parse_index`, `m_cmdline_parse_ok_index`, `m_cmdline_exec_index`, `m_last_result_code`, `m_error`, S3, S4 | add a command, a parameter, a default; commit; run, suspend, resume, abort | no write outside the buffer; committed commands are never changed; the executor steps from command to command; one answer per line |
| Command tables (`detail/extcmddef.h`, `basiccmddef.h`, `cmdparamdef.h`, `server/command_base.h`, ...) | constants | ids, field sizes, buffer size, ranges | ids and layout agree between writer and reader; the buffer holds what it was sized for |
| Name trie (`detail/trie.h`, `triebuilder.h`) | packed bytes made at compile time; the position of the current node | build and pack; feed a character, is a leaf, index of the command | two passes over the names agree on every length; accepts exactly the names, yields the right index, reads no byte behind the end |
| Characters and numbers (`detail/characters.h`, `characters.cpp`) | none | classes, folding, digits, printing | what is printed can be typed; exact arithmetic up to 2^32 - 1 |
| S parameters (`sparameters.cpp`) | S3, S4, verbose, echo | get, set | S3 takes effect at once; switching words and digits leaves responses readable |
| Response printing (`server_base.cpp`, `extendedcommand.cpp`, `command_base.cpp`) | print callback, the information text that exists | result codes, information texts, silenced result texts | every text is framed and can be taken apart; printing comes back after a silenced text |
| Terminal example (`examples/at_terminal`) | three registers, flags, two mutexes, a condition variable, three kinds of threads | main loop, input thread, emulated asynchronous writes and reads | no event is slept through; OK means done; no deadlock |
| Zephyr example | none of its own | glue around a server without commands | `feed` returns |

### Interactions

Parser and executor share the buffer: the parser encodes a line into it and
advances the parse index; committing a command moves the parse-ok index; the
terminator resets the exec index and the executor decodes the bytes again,
using only the tables to know how long each command is. They also share S3:
the executor may change it while the rest of the input is still to be parsed.
The executor calls handlers; a handler may return `ASYNC`, after which the
line is suspended in `stateExecuting` until `on...Update()` (matched by command
id) resumes it or a character fed with permission aborts it. `finalizeExtCmd`
and `continueCmdExec` are loops inside a call; `stateA` to `stateExecuting` are
reached through one member-function pointer.

### What is hard here

 - two programs (parser and executor) that must agree on a byte layout, with
   writes that are not checked where they happen but, supposedly, earlier; the
   parameter list computes the same layout a third time, from types;
 - handlers that hand the character on: the terminator reaches a line through
   up to three handlers in one call;
 - lines that fail half-way, in the parser or in a handler, and what is
   reported then;
 - suspension: a completion, an abort and more input can come in any order;
 - loops whose end depends on two indices meeting exactly;
 - numbers of varying length in the packed trie, written by one computation and
   sized by another;
 - output that is framed by constructors and destructors and silenced by
   exchanging a callback in between;
 - in the terminal example, threads that hold one mutex while they wait for
   another, a condition variable without a predicate, and flags that outlive the
   operation they report.

The hazards are listed one by one, with their lines, in `PROJECT.json`.

## 2. The modules

    Characters <- CommandTable <- ServerCmdline <- Server <- MCServer     (TLC)
                                     Server <- ServerProofs <- ServerLayoutProofs  (TLAPS)
                                     ServerLayoutProofs <- ServerExecutionProofs
                                     Server <- Handles   <- MCHandles
                                     Server <- Responses <- MCResponses
    Handles, ServerExecutionProofs <- HandlerProofs
    Responses, ServerLayoutProofs  <- ResponseProofs
    LineSession   abstract: INSTANCEd by Server and by Terminal
    NameLookup    abstract: INSTANCEd by NameTrie <- MCNameTrie, NameTrieProofs
    CommandSearch <- MCCommandSearch, CommandSearchProofs
    Terminal      <- MCTerminal, TerminalProofs

**Characters** - the character classes. A character is its ASCII code, because
S3 is typed as a number and compared with characters afterwards. A fed `char`
is one of 0 .. 127.

**CommandTable** - the constants a server is compiled with: the basic,
ampersand and extended commands with their parameters, `ParamOffset` (where
each field of a write command starts), `CmdlineSize`. The named assumptions are
what the templates enforce (`calcCmdlineSize`, the builders of definitions,
16-bit ids and sizes). Tables are indexed from 0. Names are looked up as
`NameLookup` and `CommandSearch` promise: a trie node is the prefix read so far,
a leaf is a name, a letter finds the command of that name. The decimal limit is
`NumMax`, which is 2^32 - 1 in the code; the overflow tests only use its
residues, and the instances use 255, which has the same ones; the theorems hold
for every `NumMax` that has them.

**ServerCmdline** - the buffer and the member functions of the class of the
same name; every operator says what one call does. Cells of an earlier line
hold `Stale` instead of their old bytes (`ResetCmdline` marks them): the bytes
are still there in the code, but a read of one is never intended, and the
properties can tell.

**Server** - the parser's handlers, one operator each with the same name, and
the executor. The correspondence:

| action | code |
|---|---|
| `Feed(c)` | `feed(c)` up to the return of the first handler |
| `Redispatch` | a further dispatch of the same character by a handler (`stateSSet`, `stateExtendedEq`: one; `stateBasicParameter`: two) |
| `FinalizeExtCmd` | one iteration of the loop over left-out parameters, with what its caller does at the end |
| `ExecCommand` | one iteration of `continueCmdExec`: one command |
| `ExecEnd` | its end: the result code is printed and the server waits for `A` |
| `Abort` | `feed` with permission to abort, in `stateExecuting` |
| `Update(id)` | `on...Update()` of the command with that id |

A call is split into these steps only to keep its loops visible: `pc` and
`redo` say which loop is in progress and how many dispatches are left, and no
environment action is enabled before they are done (`Idle`). `reply`, `cur` and
`fault` are history: the code printed last, the current character, and an
access behind the buffer. Once `fault` is set the behaviour of the code is
undefined and the model stops. Likewise `ExecCommand` has no step where the
executor stands on bytes that are no command (`AtCommand` false).

Members without an initialiser start as zero: a `Server` has static storage in
both examples. Handlers are atomic and return one of the results `OK` (any
final code with a text), `ERROR`, and `ASYNC` if their id is in `Asynchronous`;
`RESULT_CODE::CUSTOM` is left out (as a final code it fails the assertion in
`printResultCode`). `SupportedSOnly` is a discipline of the caller, not of the
code: only S3 and S4 are typed. All instances keep it;
what happens without it is told in section 5.

**LineSession** - what a client is promised about a line, with no commands and
no buffer: it is entered, perhaps spoiled, submitted once, perhaps suspended
and resumed, and gets exactly one code; a spoiled line is not answered with
success unless it is aborted, when the handler's word is taken. `Server` and
`Terminal` implement it, each under its mapping `Session`.

**Handles** - what handlers see and print, over the states of `Server`:
`Argument` is the parameter list of a write command (offsets from the types,
bytes put together again; behind a number the code counts numbers only, and
`OffsetAssumption` keeps to the lists for which that compiles), `PrintParameters` what a read handler prints for
values through the chain of text objects, `ToldLimits` the answer to a test
command, `IsLastCommand` (in `ServerCmdline`) the flag a handler is given.
`typed` and `entered` are history, the characters of the command being entered and,
by its place in the buffer, of each complete one. They give the arguments
something to be compared with; no action depends on them. `Parts` reads such a
text as a client means it, commas and quotes first, without the parser's states.

**Responses** - what a client reads while a line runs. A handler's call is
opened up: between two steps of the executor it may construct an information
text (`PrintText`), destroy it (`EndText`) and, as the example's `V`, switch
between words and digits (`SetVerbose`). `MakeParameterInformationText` and
`DestroyText` keep the order of constructors and destructors, which the
exchange of `m_print_char_callback` depends on. `RunCommand`, `RunEnd`,
`AbortCommand`, `Parse` and `Completed` are the actions of `Server` with what
they print. A text, a number and a name are one token each.

**NameLookup** - what looking a name up promises: a character is accepted as
long as some name goes on with it, a complete name gives its position in the
list, and after a rejection nothing is asked before a reset.

**NameTrie** - the trie that keeps that promise: `Children` is the tree of
`buildTrie`, `SubtreeSizes` the first pass (`calcSubtreeSize`), `Pack` the second,
and the bytes are walked by `Reset`, `Feed` and, once per sibling, `Scan`. A tree of
pointers becomes functions on the nodes, each value given by those of the
children. The masks are constants, so that small tables reach the lengths for
which numbers take two and three bytes. The named assumptions are what the
builder asserts: encodable characters, no name twice, at most 0x3FFF commands, a
subtree whose size fits three bytes.

**CommandSearch** - the binary search for a one-letter command, one action per
branch of the loop. The list is sorted by assumption: the code does not check.

**Terminal** - the example's threads. Of the server only the line protocol is
kept, of its commands TEST4_ASYNC with its handlers. The correspondence:

| action | code |
|---|---|
| `TypeLine`, `PostLine` | `AsyncInput::getLine_` before and inside its lock |
| `ReadTick` | one turn of `AsyncIoEmulator::read_` |
| `WriterLock` ... `WriterEnd` | `AsyncIoEmulator::write_`, between its accesses to shared state |
| `Wake` | the return of `l_cond.wait`, notified or not |
| `GetLine` | `input.getLine()`, and the first character of a line fed to a suspended server, which aborts (`onWrite`, `onRead`) |
| `FeedLine` | `execCmd` for the rest of the line |
| `Exec` | the executor requests the next command, or prints the code |
| `Assign` | the assignment to `m_write_future`, which waits for the thread before |
| `Poll`, `Poll2`, `Get` | the two halves of `poll()`, with the responses of `onWrite` and `onRead` |

Main holds `l_mutex` except in `wait`, so what other threads do with it held is
one step. `Patient` is a discipline of the client: it types only while no line
is executed.

**MCServer**, **MCHandles**, **MCResponses**, **MCNameTrie**,
**MCCommandSearch**, **MCTerminal** - tables, alphabets, lines and sizes of the
instances. **ServerProofs**, **ServerLayoutProofs**,
**ServerExecutionProofs**, **HandlerProofs**, **ResponseProofs**,
**NameTrieProofs**, **CommandSearchProofs**, **TerminalProofs** - the theorems.

## 3. The properties

Of the server:

 - `TypeOK`.
 - `WritesFit` - no write passes the end of the buffer (`WritesInside`), and each
   state that writes without looking has enough space in front of it.
 - `NumberFits` - the number in hand fits into the accumulator, so what is compared
   with the ranges and written is what was typed.
 - `FieldAligned` - while a parameter is parsed the parse index is where the
   table says its field starts (plus what was written of it).
 - `ExecutesWholeCommands` - the executor stands at the end of the line or at a
   command the parser completed, of a kind the tables know.
 - `WaitsForCommand` - a suspended line stands at an unfinished command that
   may be asynchronous.
 - `NothingDropped` - a line run without error is run up to its last byte.
 - `CommittedStable` - committed commands are not touched by later parsing.
 - `OptionalParametersMayBeOmitted` - in the first command of a line all
   parameters, if optional, can be left out at the end.
 - `TerminatorAnswered` - outside a string the terminator always ends a line.
   An S3 with a syntactic role (a letter, a digit, `;` ...) is excepted.
 - `ImplementsSession` - refinement of `LineSession`.
 - `EveryCallReturns`, `LineAnswered` - liveness.

Of what handlers see and what is printed:

 - `ArgumentsAsTyped` - the arguments of a write handler are the values typed
   for it, and the defaults of those left out.
 - `PrintedCanBeTyped` - what a read handler prints for values means the same
   values when it is typed.
 - `WithinToldLimits` - no handler gets a value the test command rules out.
 - `LastCommandTold` - no handler is told that its command is the last while
   another is to be run behind it, also on a line the parser rejected half-way;
   on a line without an error the last is told so.
 - `ClientReadsBack` - a client that knows the framing characters can take what
   was printed apart into the texts and the code, nothing more and nothing less.
 - `ResultTextIsLast` - a result text that was printed is that of the last
   command that runs.

Of the look-ups:

 - `PackedToSize`, `ReadsInside` - the packed trie has the size computed for
   the array that holds it; no byte behind it is read.
 - `ImplementsLookup` - refinement of `NameLookup`, with its liveness: every
   question is answered.
 - `FindsCommand`, `SearchReturns` - the binary search.

Of the terminal example:

 - `NothingSleptThrough` - while main sleeps, not notified, there is nothing to
   do for it.
 - `OneWriteAtATime` - `m_write_ongoing` is set exactly while a write is under
   way or waits to be polled, and there is at most one.
 - `LocksInOrder` - main never waits for a lock or the end of a thread that
   waits for main.
 - `OKMeansStored` - a line is answered OK when the registers hold what its last
   write said, and a read after it printed that.
 - `LineAnswered`, `ImplementsSession`.

## 4. The runs

The number of characters fed, of lines and of completions is not bounded: state
spaces are finite because every index is bounded by the buffer, every number by
`NumMax` and history is cleared with each line. Each alphabet holds the
characters that matter to its instance.

| run | instance | what it shows |
|---|---|---|
| `async` | `I`, S3, `+X?`, `+X=[hex]`, `+X=?`, asynchronous; 6 bytes | commands of 2, 3, 4 and 6 bytes in one line; completions of the wrong command, aborts, ASYNC answered twice, `A/`; the executor follows the parser, suspension, refinement of the session |
| `numbers` | `V<0..2>`, `&V<0..9>`, asynchronous, and `+V?`; digits 2, 5, 6; 18 bytes | three six-byte commands: the unchecked number fits when all commands have one width; 255 is typed and 256 refused; committed commands are kept through the double dispatch; a line is answered |
| `s_parameters` | `I`, S3 and S4; 6 bytes | S3 set to `!` mid-line and everything after it; the current terminator is always answered; nothing is dropped |
| `parameters` | `A`, `+X=["s"][,dec]`, and `+T=bin,"hex"`, asynchronous; 10 bytes | every type of parameter; `+X` alone, behind an `A` and before one, or up to five `A`; a second command ends where the buffer does or finds no room; arguments, printing, limits, which command is told that it is the last, layout, defaults, return of every call |
| `responses` | `I`, `+X?` asynchronous, `+X=?`, `S4?`; 6 bytes, 2 texts | three commands that print, silenced and not, in words and digits, suspended and aborted |
| `lookup` | all lists of 1 to 3 of six names, and two of 20 names | shared prefixes, names that begin others, indices of two bytes, sizes of three |
| `search` | all sorted lists of 0 to 6 of nine letters | every list, every letter |
| `terminal` | four lines of up to three commands, 3 looks at the flag, patient client | no deadlock, OK is true, every line answered under `FairSpec` |
| `terminal_aborts` | three lines, 2 looks, impatient client | aborts at every point; typing, wake-ups, one write at a time, the session |
| `dropped_ampersand` | `&F` | violated: `AT&F` is submitted without an error, `&F` is not to be run |
| `two_sizes` | `I`, `V<n>`; 6 bytes | violated: in `ATIV` the number of `V` is written from index 4 of 6 |
| `stale_completion` | as `terminal_aborts`, 1 look | violated: after an abort, OK without the first register written |

Why the bounds are enough: a second command in the buffer is what can be
misplaced, and a third what can be misplaced behind a misplaced one; the
instances with `MaxCommandsPerLine = 1` hold two or three short commands in the
room of the longest, so commands also end exactly at, and one byte past, the
end. In `parameters` an `A` and a `+X`, in either order, fill the ten bytes: fields
are laid down behind another command, and a command that is not the last is run on
an error-free line. `Checks` (10 in the code) only says how often a writer can see
the abort; `NumMax` keeps the residues the overflow tests use. The 20 names reach
every length class of a number with `MASKS_LEAF = 4`; the theorems of
`NameTrieProofs` give the rest. In `parameters` the alphabet has no `0`, because leading zeros would make `typed` unbounded, and no `/`, because
`A/` breaks `LastCommandTold` (section 6).

`terminal_aborts` does not check deadlock because an impatient client can bring
one about (section 5); `two_sizes` and `stale_completion` because behaviour ends
or may block; `search` because the call returns.

**Fairness.** `CallsReturn`, weak fairness of the steps inside a call, is that
of a sequential program: a call that has a step left takes it. `HandlesSpec`
says the same of its own next-state relation, `NameTrie` of `Scan`,
`CommandSearch` of its loop. `LineAnswered` of `Server` also needs the handlers:
`HandlersComplete` says that a handler that returned `ASYNC` is eventually
followed by its `on...Update()` (weak fairness of `Update`) and that a handler
called again and again does not return `ASYNC` for ever (strong fairness of the
steps with another result). Both are the contract of asynchronous handlers;
without the first, a suspended line rightly waits for ever. In `Terminal` threads
run (weak fairness of main and of the writers' own steps), and a thread that
waits for a mutex that becomes free again and again gets it, as does a notified
main (strong fairness of `WriterLock`, `WriterNotify`, `PostLine`, `ReadTick`
and of `Wake` once notified): the holders sleep for a tenth of a second or wait
on the condition variable in between. Nothing is assumed of clients and of
wake-ups without a notification.

Each property of a passing run has at least one mutant of the code it guards (the
operators marked "Mutant of"), which violates it under the same configuration.

## 5. What was found

Three runs show the code against what the repository says of it (`findings`):

 - an ampersand command without a parameter is dropped at the end of a line: the
   trace of `dropped_ampersand` ends when `AT&F` is submitted without an error, and
   the executor's next step prints OK;
 - the number of a basic command is written without a look at the space: in
   `two_sizes`, `ATIV` writes four bytes from index 4 of a buffer of six;
 - in the terminal example, with a client that types while a line runs, a write
   that follows an aborted one can be taken for done by the old one's end.

Also seen while modelling. In the library:

 - `stateS` overwrites `stateError` for an unsupported S parameter, so `ATS5?` is
   accepted and leaves a byte without a command id: `ExecutesWholeCommands`
   fails without `SupportedSOnly`;
 - with extended commands, `AT+<CR>` (an unknown or incomplete name before the
   terminator) gets no answer: `stateExtended` goes to `stateError` without
   looking at the terminator it has read, and the next line is taken for the rest
   of this one. `TerminatorAnswered` is therefore checked on a server without
   extended commands;
 - in `ATV1V` the second `V` is dispatched twice and adds commands until the
   buffer is full (`CommittedStable` holds all the same);
 - a server without commands never returns from `ATS3?`: `continueCmdExec` has an
   empty body then; one with extended commands only looks an S id up among them;
 - the default of a hex string does not advance `m_param_index`, so the line
   fills up with it and fails (`AddDefaultHexString`; no instance has one);
 - several ranges of a parameter are intersected, while the test command prints
   them as alternatives;
 - `RESULT_CODE::CUSTOM` as a final code fails an assertion; any other final code
   that follows a result text is printed behind it, so a client that got its
   result in an information text gets a standard code as well;
 - a silenced result text still prints the header of its frame, and the trailer,
   because the callback is exchanged after the one and back before the other: the
   client sees an empty text;
 - `A/` after a line that was rejected runs its accepted prefix and answers OK;
 - S3 set to a character with another role cannot end a line everywhere;
 - a completion called from inside the handler re-enters the executor;
 - an abort does not look at `m_error`: if the accepted prefix of a line the
   parser rejected suspends and is aborted, the code of the aborted handler is
   printed, which need not be ERROR (`LineSession!Abort` allows it);
 - `is_last` compares with the parse index instead of the committed end: on a
   rejected line no command need be told that it is the last;
 - lists of one-letter commands must be sorted, which nothing checks.

In the terminal example, with a client that types while a line runs:

 - main can wait in `get()` for `m_data_mutex`, holding `l_mutex`, while the
   writer of an aborted write holds `m_data_mutex` and waits for `l_mutex`, so that
   `LocksInOrder` fails without `Patient`; likewise in `write()`, assigning to the
   future of such a writer;
 - the line behind an aborted write can hang, its write having been ignored and
   nothing being left to report its end.

## 6. What is proved

`ServerProofs`, for all tables, sizes and alphabets the assumptions of
`CommandTable`, `ServerCmdline` and `Server` admit:

 - `InvariantHolds`: `Spec => []IInv`; `TypeCorrect`: `Spec => []TypeOK`;
   `SuspendedLineWaits`: `Spec => []WaitsForCommand`; `CommittedStays`:
   `Spec => CommittedStable`;
 - `OverflowTestsExact`: in every base a digit is refused exactly when the number it
   would make does not fit; with it `NumbersFit`: `Spec => []NumberFits`. Both are
   about 2^32 - 1 as well, which the runs cannot reach.

`TypeOK` alone is not inductive: `m_num - 1` is a natural number only if the
quoted field has room, `Cmd.params[m_param_index]` is defined only if a writable
command is in hand, S3 is a byte only if the value the executor reads was
written by this line. `IInv` adds what makes it so: `ControlOK` (which states a
loop can be in), `ParameterInHand` (in a parameter state the trie is at a
writable command and the parameter has the type the state is for),
`RoomInField`, `IndicesOrdered` (parse-ok index <= parse index <= buffer end,
unless a fault was recorded) and `Suspended`. Lemmas first say what the writing
operators do to the buffer (`BufferWritten`), then how handlers end
(`StayLemma`, `FailLemma`, `LeaveLemma`, `ExecuteLemma`, `SetupLemma`,
`FinalizeLemma`), then there is one lemma per handler with the common conclusion
`HandlerPost`, and `PostLemma` turns that conclusion into the invariant.
Executor steps leave the parser's variables alone (`ExecutorStep`).

The theorems of the next four modules rest on `InvariantHolds`. Some of them have
hypotheses on the command table or on what is typed; each names a fault of the code
that breaks the property without it, or a limit of the property:

| hypothesis | without it |
|---|---|
| `AmpersandsNumbered` | an ampersand command without a number is written and not committed (`dropped_ampersand`) |
| `HexStringsRequired` | the default of a hex string does not move the parameter index |
| `NoNumbers` | the number of a basic command is written without a look at the space (`two_sizes`) |
| `SKnown`: there is a basic or an ampersand command, and `SupportedSOnly`; or else the letter S is not typed | an unsupported S parameter writes its byte without an id; without those commands the executor does not know the id of S |
| no ampersand and no extended commands (`TerminatorEndsLine`) | `AT+<CR>` gets no answer |
| no `/` is typed (`LastCommandKnown`) | `A/` clears the error of a line whose rejected part still lies behind the parse-ok index |
| `DefaultsWhole`: no NUL in the default of a string | a text in the buffer ends at its first NUL, and the handler gets a shorter default |
| `DefaultsPlain`: no quote in the default of a string | it is printed between quotes as it is, and cannot be typed back |
| NUL is not typed | it ends the text it is typed in |

`Meant` is the first two and the fourth together.

`ServerLayoutProofs` begins with induction over intervals (`LeastMember`,
`IntervalInduction`), stated about sets instead of predicates and derived from the
well-foundedness of strict inclusion among finite sets. Then:

 - `LayoutAgreed`: `FieldAligned`, under the first two hypotheses. Fields are
   counted from the last commit, so the strengthening `LInv` adds
   `CommandStart`: between commands everything written is committed.
 - `NothingBehindBuffer`: `WritesFit`, under `NoNumbers` and for every buffer
   size. `SpaceReserved` is its own strengthening: every state that writes is
   entered with the space it may use, and keeps what it has not used.
 - `OptionalParametersOmitted`: `OptionalParametersMayBeOmitted`, under the first two
   hypotheses. By `LayoutAgreed` the parse index of the first command of a line is
   the offset of its parameter, offsets ascend to the size of the command
   (`OffsetsAscend`), and the buffer holds the largest (`CommandsFitBuffer`).

Both halves of what a handler preserves (`KeepsLayout`, `KeepsSpace`) go through
one lemma per handler.

and of whole lines:

 - `ServerKeepsProtocol`: `ImplementsSession`, with no hypothesis. A handler of a
   line being entered either goes on entering it or submits it (`StepPost`), and a
   spoiled line stays spoiled; each executor step is a step of `LineSession` or a
   stutter. The only thing needed of the data is `Resumed`: the executor does not
   reach the end of a line with `ASYNC` as its last result, for which `Suspended`
   is needed (a suspended line is not at its end).
 - `NoCommandDropped`: `NothingDropped`, under the first two hypotheses, from
   `StepPost` and `CommandStart`.
 - `TerminatorEndsLine`: `TerminatorAnswered`, for a server of basic commands alone.
   The invariants are that no other state is reached (`OnlyBasic`) and that a
   handler that passes a character on leads to a state that looks at it
   (`AgainThere`).

`ServerExecutionProofs`:

 - `WholeCommandsRun`: `ExecutesWholeCommands`, under `Meant`. The invariant `WInv`
   says that there is a set of places in the committed part of the buffer, its two
   ends among them, such that a whole command begins at each place but the last and
   ends at another (`Line`), and that the executor stands at one of them. A commit
   adds one place; `Pending` says, state by state, how much of the command behind
   the last place has been written, with which id; `Letter` covers the character
   that is dispatched again in state S. Committed bytes do not move (`Grows`), so
   places stay places. A whole write command has a value of its parameter in each of
   its fields (`Fields`, `Filled`): a number in the ranges, a text that ends inside
   its field, bytes and how many they are.

`HandlerProofs`, where `Handles` is shown to add nothing to the server's behaviours
(`HandlesImplementServer`):

 - `LastCommandKnown`: `LastCommandTold`, under `Meant` and if no line is repeated.
   That only the last is told so follows from the places of `WInv`: the command the
   executor stands at ends at a place, and no committed byte lies behind the parse
   index (`ToldIsLast`). That it is told, on a line without an error, is
   `StepPost`: such a line is committed to its last byte, and that is carried along
   while it runs (`RunsWhole`).
 - `ArgumentsAllowed`: `WithinToldLimits`, under `Meant`. The parameter list finds its
   fields at offsets computed from the types; the recursion over the types is
   unfolded once and for all in `OffsetCalcLemma`, which shows that they are the
   parser's. It needs `OffsetAssumption` (behind a number there are only numbers up
   to the parameter asked for, `NumbersBehind`). `NumberRead`, `StringRead` and `HexStringRead` then read back what
   `Fields` says is there.
 - `HandlersGetWhatWasTyped`: `ArgumentsAsTyped`, under `Meant`, `DefaultsWhole` and
   if NUL is not typed. The invariant is `TextInv`, which follows what was typed
   into the buffer. Its first half, `TInv`, is about the command being entered:
   the parameters before the one in hand are held by their fields (`FieldsHeld`),
   and the one in hand as far as its state has read it (`InField`), as the value of
   the digits so far, the letters so far, or the pairs of hex digits so far, perhaps
   with half a pair in `m_num`. Its second half, `LineText`, is about the committed
   part: what stands at each place of `Line` is what was entered for it (`Meaning`),
   and stays so as the line grows, is run, and is run again. `WInv` alone does not
   give this: it says that a field holds some value of its parameter, not which.
   Each state adds a character to a text, so `ReadingAppend` and `ValueAppend` say
   what splitting at the commas and reading a value give for a text one character
   longer; the recursive functions behind them are unfolded by `Recursion`.
 - `PrintedIsTypedBack`: `PrintedCanBeTyped`, under the same hypotheses and
   `DefaultsPlain`. `NumberPrinted` is about the code's way of printing a number,
   which reverses its digits and keeps the trailing zeros of the reversed number by
   a count: read as digits, what it prints is the number. Quoted texts do not end
   early (`ReadQuoted`), no other text holds a comma (`ReadOn`), so the parts of what
   is printed are the texts of the parameters (`ParametersPrinted`), whatever their
   number and types.

`ResponseProofs`, where `Responses` is shown to add nothing to the server's behaviours
(`ResponsesImplementServer`):

 - `ShownResultIsLast`: `ResultTextIsLast`, with no hypothesis.
 - `ClientTakesApart`: `ClientReadsBack`, with no hypothesis. What was printed is
   frames laid end to end, one for each text and one for the code (`Framed`), and a
   text that is being printed was begun behind whole frames (`TextOpen`), also when
   the client switches between words and digits in the middle of the line
   (`Printed`). `FramesUnfold` and `FramedRead` then follow the client from frame to
   frame: it never takes an S4 for a text, nor an empty text for a header.

`TerminalProofs`, for all lines, register values and numbers of looks:

 - of every client: `InvariantHolds` (`IInv`), `TypeCorrect`, `NoLostWakeup`
   (`NothingSleptThrough`), `WritesOneByOne` (`OneWriteAtATime`),
   `TerminalKeepsProtocol` (`ImplementsSession`);
 - of a patient one: `PatientInvariantHolds` (`PInv`), `PatientNeverDeadlocks`
   (`LocksInOrder`), `PatientOKIsTrue` (`OKMeansStored`).

`IInv` says that what main has seen since it woke cannot become true again while
it holds the mutex (`Seen`) and that a write counts as ongoing exactly while one
thread works for it (`Work`). `PInv` adds what patience buys: a thread at work
belongs to the command in hand and writes the register that command is at
(`InHand`), so what is done of the line is in the registers (`Done`). That the
last two theorems need the hypothesis is what `stale_completion` shows.

`NameTrieProofs`, for every alphabet, every `MASKS_LEAF` and every list of names
that the builder accepts:

 - `SizeReadBack`, `IndexReadBack`: what the packer writes for a subtree size (up to
   three bytes) and an index (up to two) is what the walk reads back and skips;
 - `PackedExactly` (`PackedToSize`): every node takes as many bytes as
   `calcSubtreeSize` counted for it (`PackedAre`);
 - `NothingReadBehindEnd` (`ReadsInside`);
 - `LookupRefined`: the safety of `ImplementsLookup`, that is, the walk starts as
   `NameLookup` does and each step of it is one of `NameLookup` or a stutter.

The functions on the tree are recursive on the length of what is left of a name;
`TreeInduction` and `TreeRecursion` say, about sets of nodes and without an operator
as a parameter, that a property inherited from the children holds of every
node and that a function so defined has the values its definition says. Sums and
concatenations over the children are treated alike (`Sums`, `Parts`). The
invariant of the walk is that between two calls of `feed` the bytes of the node
that was read lie at `m_pos` (`AtNode`), and within one those of a child of it, its
siblings one behind another, none of the earlier ones having the character asked
for (`AtChild`). `GoesOn` ties it to the list: a name goes on with a character if
and only if a child has it.

`CommandSearchProofs`: `SearchFindsCommand`, `FindsCommand` for sorted lists of
any size; the invariant is that the command, if it is in the list, is between
`l` and `r`.

**What the assumptions leave open.** With numbered basic commands `WritesFit`
depends on the size of the buffer and on the mix of commands: `two_sizes` refutes
it for one table, `numbers` finds it kept for one that has commands of one size,
and nothing is proved. The properties of the layout say nothing of tables the
hypotheses leave out, and `TerminatorEndsLine` nothing of servers with ampersand or
extended commands.

**Only model-checked**: liveness (`EveryCallReturns`, `LineAnswered`, `SearchReturns`,
the fairness part of `ImplementsLookup`), because fairness and `ENABLED` are outside
the prover's reach. Every safety property of a passing run is the conclusion of a
theorem, under the hypotheses above where there are any.

## 7. What is not modelled

 - The echo, which repeats every character fed, and the value of S4: only output.
 - `RESULT_CODE::CUSTOM`, and handlers that call back into the server.
 - The method tables of extended commands (`extcmddef.cpp`) and the concepts that
   guard the construction of tables: compile-time selection without state; what
   they guarantee is assumed of the constants.
 - Parameter texts that a handler abandons half-way.
 - The Zephyr example: an interrupt handler puts characters into a pipe of 100
   bytes, dropping those that find it full, and the main loop feeds them to a
   server without commands, without permission to abort.
 - Characters above 127. In the runs, arithmetic at the full width of 32 bits; the
   theorems cover it (`NumMax` = 2^32 - 1).

In `Responses`, S3 and S4 differ and occur in no text: a client could not tell
frames from texts otherwise.

## 8. Plan

1. Done: parser, buffer, executor, session, handles, responses, both look-ups, the
   terminal example; the theorems above.
2. Theorems still worth having: `WritesFit` for numbered commands of one size, in a
   buffer of a multiple of it.
3. A composition of `Server` itself with the threads of the terminal example, in
   place of the line protocol, and handlers that complete from within a call.
