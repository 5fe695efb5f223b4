# Verification of dummy_https_server

TLA+ models of the HTTPS server and of the two lint scripts that gate its sources, all
under `src/`, checked with TLC and, for the properties that matter most, proved with
TLAPS for every value of the constants.

| module | what it is |
|---|---|
| `EventLoop` | a worker loop, its Channels, and the three threads that use them |
| `MCEventLoop` | its instances for TLC |
| `EventLoopProofs` | theorems: types and thread confinement, no lost wakeup, the kernel's mask, static connections need no lock and touch freed memory in one way only |
| `Buffer` | the byte buffer, in the three ways the program fills one |
| `BufferProofs` | theorems: indices, assertions, the order of the bytes, refinement of `FifoQueue` |
| `TCPConn` | a TCP connection: its requests, answers, output and close |
| `TCPConnProofs` | theorems: types, no output dropped, use after a failed send, the answers are those that are due |
| `BlockQueue` | the blocking queue of the log and of the CGI requests |
| `MCBlockQueue` | its instance for TLC |
| `BlockQueueProofs` | theorems: mutual exclusion, order, no lost signal, refinement of `FifoQueue` |
| `FifoQueue` | the abstract queue that a `Buffer` and a `BlockQueue` implement |
| `NumberFacts` | lemmas that several proofs use: runs of consecutive numbers (what a `FifoQueue` holds), least elements, induction over a set of numbers |
| `CGIWorker` | the CGI thread, the process cgi_worker, its scripts, the two pipes and SIGCHLD |
| `MCCGIWorker` | the kinds of requests for TLC |
| `CGIWorkerProofs` | theorems: types, completion after a 500 only behind a death, the dialogue in step, own answers, own environment |
| `ClangTidy` | the thread pool of run_clang_tidy.py |
| `MCClangTidy` | its instance for TLC |
| `ClangTidyProofs` | theorems: types, the count of tasks, join as a barrier, the exit status |
| `LintText` | cpplint.py: comments, strings and raw strings are taken out |
| `LintExpr` | cpplint.py: the matching of brackets, forwards and backwards |
| `LintNesting` | cpplint.py: the stack of open blocks and the preprocessor's branches |
| `LintIncludes` | cpplint.py: the include lists, their order, the header guard |
| `CppLint` | cpplint.py: a call from its arguments to its exit status |
| `MCCppLint` | the calls and files for TLC |
| `CppLintProofs` | theorems: the filters of a configuration end with its file, what is printed is up to the file itself, what the include lists keep and the order they report, the block stack across `#else` |

The lint modules build on one another (`CppLint` extends `LintIncludes`, that
`LintNesting`, that `LintExpr` and `LintText`); `Buffer` and `BlockQueue` instantiate
`FifoQueue`.

To run one check: `tlc -config EventLoop_cgi.cfg MCEventLoop.tla`; to check the
proofs of a module: `tlapm BufferProofs.tla`.

## 1. The system

A C program (about 1700 lines under `src/src`). `main` starts a log thread, a
pool of worker threads with one epoll loop each, two acceptors (HTTP and HTTPS)
on its own loop, and a CGI thread with one child process. A connection is
accepted by main's thread, assigned to a worker round robin and served there. A
request under `/cgi` leaves the worker: the connection stops reading, the CGI
thread talks to the child, answers, and switches reading back on.

The larger part of the repository's own lines are two Python scripts that
`make check-code` runs on it: `check-lint` calls `cpplint.py --verbose=2 --quiet
--linelength=120 --filter=...` on the headers and sources, `check-clang-tidy` calls
`run_clang_tidy.py` on the compilation database. Neither is part of the server, but
whether a change gets in depends on the state they keep, and they keep much of it.

### Components

| component | state | operations | properties that make it correct |
|---|---|---|---|
| EventLoop, Channel (`eventloop.c`) | epoll set, `pendingChannels` under a lock, eventfd; per Channel the mask `events` and the one outstanding `op` | Enable/Disable Reading/Writing, `update`, `modifyChannel`, `ChannelFree`, `evtfdHandleRead`, `Loop` | `epoll_ctl` only in the loop's thread; no posted channel without a wakeup; the kernel's mask is the channel's; no use of a freed channel |
| Buffer (`buffer.c`) | array, size, read and write index | Append, ReadFromFD, ReadFromSSL, RetrieveData, WriteToFD/SSL, Find* | indices in bounds; bytes come out as they went in |
| BlockQueue, DArray (`utils.c`) | array, mutex, condition | PushBack, WaitAndSwap | no lost signal; every item once, in order |
| TCPConn (`tcpconn.c`) | Channel, two Buffers, `closed` | Send, Close, HandleRead, HandleWrite, HandleNewConn | output eventually written; freed once and not used afterwards; a deferred close closes |
| TLSConn (`tlsconn.c`) | the same with `state` and the SSL object; a global `ssl_context` | the same, handshake, SIGHUP | initialised before it is registered; no input left behind |
| HTTPClient (`parse.c`) | `state` LINE/HEADER/BODY, request, `wrong_format`, `buffer` | HandleMessage, Send, SendComplete | one answer per request; no answer after close |
| CGI thread (`cgi.c`) | queue of clients, two pipes, child's pid | CGIPush, processRequest, SIGCHLD handler | each answer goes to its request; a dead child does not block the thread |
| CGI worker (`cgi_worker.c`) | input Buffer, parser state, environment | main loop | stays in step with the parent |
| Log (`log.c`) | BlockQueue of lines, `quit` | Log*, consumer, StopAndWait | every line written, in order |
| Acceptor, ThreadPool (`acceptor.c`, `threadpool.c`) | listening Channel; loops and `next` | HandleRead; NextLoop | every connection registered, loops used in turn |
| cpplint.py (lint gate) | module globals: filters and backup, line length, extensions, header extensions, root, suppressions; per file the nesting stack, include lists, function state | ParseArguments, ProcessFile, ProcessConfigOverrides, ProcessLine, Error, main | what is taken for code is code; brackets, blocks and branches are the file's; nothing of one file or line decides about another |
| run_clang_tidy.py (lint gate) | bounded queue, failed files, return code, temporary directory | main, run_tidy in each thread | join waits for everything; the exit status and the exported fixes are complete; the script ends |


The server's threads meet in four places: `pendingChannels` with the eventfd (main and
CGI thread to a worker), the Channel itself (`events`, `op`: no lock), the CGI queue
(worker to CGI thread), and the log queue (everybody). Control passes between
layers by callbacks stored in Channel and HTTPClient; a callback may free the
object whose method is running. The CGI thread and its child meet in two pipes, and a
signal handler replaces both pipes and the child under the thread's hands.

### What is hard

`PROJECT.json` lists each hazard at its line. In groups: the four-step protocol
of push, eventfd write, eventfd read and swap; a Channel used by two threads;
connections freed by a callback while someone up the stack or another thread
still uses them; writes refused, completed in part, or failed while a close is
pending; requests pipelined behind a dynamic one; reads that just fill or just
overflow a buffer; the dialogue with a child that keeps its input and environment from
one request to the next, may print late or never, and may die between any two steps;
signal handlers that take locks; the start-up, where nothing waits for the workers;
globals of cpplint.py that one file leaves for the next, and heuristics that read the
same text by different rules; threads of the clang-tidy pool that die with a task.

## 2. What was built, and what is left

The order was that of the behaviour's weight: the loop with its threads, the buffer, the
queue, a connection; then the dialogue with the CGI process, and the lint gate. What a
next step would add:

- An abstract request-response stream that `TCPConn` implements.
- The log queue with signal handlers that nest inside a push, which needs threads whose
  steps are interrupted and resumed.

Section 6 names what is left out for good.

## 3. What is modelled

### EventLoop

One worker loop and the Channels assigned to it. Threads: `"loop"` runs `Loop`,
its handlers and `evtfdHandleRead`; `"main"` registers accepted connections;
`"cgi"` answers dynamic requests. `pc`, `chan` and `call` hold where each thread
is and the locals of the Channel call it is in.

| code | actions |
|---|---|
| `ChannelEnable/Disable*` | `ChannelLoad` (assertion, read of `events`, choice of ADD/MOD/DEL by `OpFor`), `ChannelStore` |
| `update` | `Update` (write of `op`; in the loop's thread on to `modifyChannel`, otherwise the push under the lock), `Notify` (write to the eventfd) |
| `modifyChannel` | `ModifyCtl` (`epoll_ctl`), `ModifyClear` (`op = 0`) |
| `ChannelFree`, `doCloseTCPConn` | `ChannelFree` (a helper of `SendFails` and `Close`), `Update`, `Notify`, `CloseFd`; `call.back` holds where the close returns to |
| `LoopSetThread`, `Loop` | `LoopSetThread`, `EpollWait` (some set of ready descriptors), `Fire` (one report, read handler before write handler, with the handlers' assertions) |
| `evtfdHandleRead` | `ReadEventfd`, `SwapPending`, `ApplyNext` |
| `TCPConnHandleRead/Write`, `TCPConnSend`, `TCPConnClose` | `Leave`, `SendPartial`, `SendFails` (frees, and returns into the handler), `WriteAll` and `Written` (the look at `closed` behind the last byte, and `ChannelShutDownWrite`'s assertion), `Close`, `CloseDeferred` |
| uses of a connection behind a send or a close that freed it | `TouchFreed` |
| `HTTPClientHandleMessage` on a dynamic request | `BeginDispatch`, `Dispatch`, `LinkBuffer`: three steps, since the client is queued before its `buffer` is set |
| `TCPConnHandleNewConn` | `Accept` |
| CGI `consumer`, `processRequest`, `HTTPSendComplete` | `CgiBegin`, `CgiComplete`, `Close` and `CloseDeferred` at `"serve"` (behind which `processRequest` may go on), then the same handler actions in thread `"cgi"` at `"tail"` |

Grain: the Channel calls are split at every access to `events` and `op` that
another thread can come between. The list operations under the lock are one step.
What a handler does with bytes is abstracted to the Channel calls it may make, in
any order the code can: a read handler may parse nothing, send, fail to send, close
or dispatch. `fate` becomes `"assert"` when an assertion on a Channel fails and
`"uaf"` when freed or never-assigned memory is used; the process then stops, as the
build makes it (`-fsanitize=address -fno-sanitize-recover=all`). EPOLLHUP is a
read report that needs no bit in the mask. The eventfd is a descriptor that does
not exist before `LoopSetThread`; a wakeup written earlier is `stray`. Line-level
behaviour of a connection is `TCPConn`'s subject.

### Buffer

`feed` says which call fills the buffer; the program never mixes them. Bytes are
numbered in the order they are handed over, so a buffer's content can be compared
with the stream: `got` counts bytes in, `taken` bytes out. `BufferReadFromFD`
models readv over the rest of the array and `extrabuf`, the resize and the copy
of `nread - writeIndex` bytes exactly as written, which is wrong; `spilled`
records that such a read, or a TLS read that fills the array exactly, has
happened. A failed assertion or a copy outside an array is `Abort`. A read or a
write that fails changes nothing and is left out.

### TCPConn

One connection that only its loop's thread uses, as every connection is that
serves static content (`StaticCallsSerial`). `pc` says where that thread is:
`"wait"` in `Loop`, `"parse"`, about to `"send"`, or with the answer `"sent"`.

| code | actions |
|---|---|
| `TCPConnHandleRead` | `ReadData`, `ReadEnd` (end of input or error, as often as the loop reports it) |
| `parseRequest`, `parseHead` | `ParseHead` (one line), `ParseBody` (version, method, body, the choice of the answer) |
| `TCPConnSend` | `TCPConnSend`: append, and a write if none is waiting: all, part, EAGAIN, error |
| `HTTPClientHandleMessage` after the answer | `AfterAnswer` (reset, next request), `AfterRejection` (a POST: no reset), `AfterFatal` (close), `UseFreed` (each of these but the rejection goes on to a connection that the send has freed) |
| `TCPConnHandleWrite` | `HandleWrite`, `HandleWriteError` |
| `TCPConnClose`, `doCloseTCPConn` | `TCPConnClose`, a helper of the above |

Input is a sequence of lines of five kinds; which text belongs to which kind is
decided by `parseRequestLine` and `parseRequestHeader`, whose character tests are
left out. A body is one line long. A part of a line or of a body that arrives
without the rest makes the parser return `CONTINUE` without a change, as an empty
buffer does, so reads deliver whole lines. The input buffer is the stream here:
`Buffer` says for which reads that is so. Output is a count of bytes. Peer and
socket: a write may take any part of the output while the peer is there, and fails
once it is gone or the server's end is shut down. `stalled`, `refused` and
`writeFailed` remember the three ways in which the code leaves output behind.

### BlockQueue

Any set of producers and one consumer. Each pthread call is a step: `PushLock`,
`Push`, `PushUnlock`, `Signal` (after the unlock, as in the code), `Enter`,
`Check` (wait releases the mutex atomically), `SpuriousWakeup`, `Relock`, `Swap`,
`SwapUnlock`; then `Handle` per element and `Clear`. With `ConsumerPushes` the
consumer may push between two elements, as the CGI thread does when it finds the
next dynamic request in the buffer (`cgi.c`, `parse.c:411`); without it the
module is the log. The `DArray`s are sequences.

### FifoQueue

Items numbered as they go in, put and taken in blocks. An output `Buffer`
implements it with the unread bytes as contents; a `BlockQueue` with what is left
of the consumer's batch followed by the queue. A swap is a stuttering step.

### CGIWorker

The consumer thread of `cgi.c` (`pc`, `current`), the process (`child`, its Buffer
`buffer`, its parser `state`, its `env`), the pipes `toChild` and `fromChild`, and the
signal handler, of which `handler = "closed"` is the moment between close and fork. A
pipe holds tokens, each with the request it is about, so that what a client gets can be
compared with what it is owed.

| code | actions |
|---|---|
| `consumer` | `Take` |
| `processRequest`, `sendToChild` | `SendHead` (one string per step), `SendBody` |
| `waitPipein` | `WaitHead`, `WaitAnswer`: select at once, or blocked until the pipe it has looked at has input or an end |
| the `int` acknowledgement | `ReadHead`, which an answer left in the pipe is taken for |
| the read loop and `HTTPSendComplete` | `ReadAnswer`, `Complete` |
| `handle_sigchld`, `createChild` | `HandlerCloses`, `CreateChild`: the process is dead, so the thread may be anywhere |
| `cgi_worker.c`: `main` | `ReadStdin`, `TakeString` (with `TakeMethod`, `TakeURI`, `TakeHeaderName`, `TakeHeaderValue`, `EndHead`) |
| `resetEnvp`, `setEnv` | parts of the same |
| the file that is run | `RunFile`: `RunMissing`, `RunGet`, `RunPost`, `RunOther` (adder.py), `RunBig`, `RunExit` |

Scripts are kinds: the repository's `adder.py` by what it reads and prints, no such
file, a script that prints more than stdio buffers and one that calls `sys.exit`; the
last two are not in the repository, but any file under the CGI root may be run.

### ClangTidy

The main thread (`main`, `next`), the daemon threads (`pc`, `name`), `queue.Queue` with
its count of unfinished tasks.

| code | actions |
|---|---|
| `main`, before the pool | `PrepareFails`, `BadPattern` (a pattern that is no regular expression, when `tmpdir` is made), `Prepare` |
| the put loop, `task_queue.join()` | `Put`, `Join` |
| export, `apply_fixes`, exit | `ExportFixes` (fails as soon as a thread has taken a file, for `yaml` is not imported), `ApplyFixes` (may raise; the status of its tool is ignored) |
| `KeyboardInterrupt` | `Interrupt` |
| `run_tidy` | `Get`, `Skip`, `RunTidy`, `RecordFailure`, `Report`; `ThreadRaises` |

The put loop's timeouts, and its turns on a file that the patterns do not name, change
nothing and so are stuttering steps; the loop never passes such a file.

### LintText, LintExpr, LintNesting, LintIncludes, CppLint

Pure functions of `cpplint.py` are operators, the program is the state machine of
`CppLint`. A line is a short sequence of tokens, the ones its state and its heuristics
tell apart. What the program finds by comparing paths as text, such as whether a header's
path contains the file's, is given with the file; `options` are the globals that
`--linelength`, `--extensions`, `--headers` and `--root` set, and that a `CPPLINT.cfg` sets
for the files behind it too.

| code | definitions |
|---|---|
| `RemoveMultiLineComments`, `CleanseRawStrings`, `_CollapseStrings`, `CleanseComments`, `IsCppString` | `LintText`: the same names, and `Elided` |
| `CloseExpression`, `ReverseCloseExpression` and the searches in a line | `LintExpr` |
| `NestingState.Update`, `UpdatePreprocessor`, `InTemplateArgumentList`, `CheckCompletedBlocks` | `LintNesting` |
| `_IncludeState`, `_ClassifyInclude`, `CheckIncludeLine`, `CheckForIncludeWhatYouUse`, `CheckHeaderFileIncluded`, `CheckForHeaderGuard` | `LintIncludes` |
| `ParseArguments`, `ProcessFile` with `ProcessConfigOverrides` | `CppLint`: `ParseArguments`, `SkipFile`, `BadConfig`, `BeginFile` |
| `ProcessLine` with `ParseNolintSuppressions`, `CheckForFunctionLengths`, `CheckStyle`, `CheckLanguage` | `ProcessLine` |
| the checks at the end of the file, `RestoreFilters` | `FinishFile` |
| `Error`, `_ShouldPrintError`, `IsErrorSuppressedByNolint` | `Report`, `ShouldPrint` |
| `main` | `Exit` |

Grain: one action per file begun, per line and per file ended. `reports` remembers every
error that was raised, with whether it was printed. The reference definitions that the
properties compare with are written apart from the code's method: a scanner with modes
(`LexLines`), a reading token by token with a stack of kinds (`Reading`), the file without
the branches that do not count (`FirstBranches`), the includes of a section as a set
(`SectionBefore`), the wish of the file, its directories and the arguments (`Wanted`).

## 4. What is checked

| run | question and result |
|---|---|
| `loop_cgi` | one channel, two dynamic requests, resets and refused writes. `TypeOK` (only the loop enters `modifyChannel`), `NoLostWakeup`, `InterestCoherent`, and `PendingApplied` under `FairSpec` |
| `loop_two` | two channels, one dynamic request. `StaticCallsSerial`, `StaticCoherent`, `StaticRunsSafe`: a connection that serves only static content is single-threaded, watched for what it asks for, and while no request is dynamic no assertion fails and freed memory is used only behind a refused send |
| `buffers` | all three kinds of buffer. `TypeOK`, `Fifo`, `NoAbort`, `ImplementsQueue` |
| `conn` | one connection, five lines. `TypeOK`, `OutputKept`, `AnswersMatch` (the answers are those due to the lines received, however reads cut them), `CloseCarriedOut` under `FairSpec` |
| `queue` | two producers and a pushing consumer. `TypeOK`, `NoLostSignal`, `InOrder`, `ImplementsFifo`, `AllDelivered` under `FairSpec` |
| `cgi` | three dynamic requests of twelve kinds. `TypeOK`, `StreamAligned`, `OwnAnswers`, `Answered`, `OwnEnvironment`, `UseFollowsDeath`, `AllServed` under `FairSpec` |
| `tidy` | two threads, three files. `TypeOK`, `TasksCounted`, `JoinComplete`, `ExitTells`, `Ends` under `FairSpec` |
| `lint` | all short files over five alphabets, and pairs of files with configurations. `CodeFound`, `BracketsPair`, `StackFollowsBranches`, `BlocksMatchBraces`, `AsmExempt`, `TopLevelRemembered`, `OrderFollowsGuide`, `PrintedExactly` |
| `loop_assert` | violated: `ReadHandlerAssertion` |
| `loop_dangling` | violated: `ModifiesLiveChannel` |
| `buffer_fd_lost` | violated: `StreamStored` |
| `lint_config` | violated: `ConfigHasItsScope` |

The largest are `loop_two` (about 567,000 distinct states), `lint` (about 356,000) and
`loop_cgi` (about 306,000); each takes from half a minute to a few minutes.

### What the violated claims show

- `loop_assert`. A response was written in part (output on), the next request is
  dynamic (reading off), the peer resets: EPOLLHUP takes the loop to the read
  handler, whose assertion fails and ends the server.
- `loop_dangling`. A connection closed by the CGI thread is freed while its
  pointer waits on `pendingChannels`.
- `buffer_fd_lost`. A read larger than the room in the array loses its first part.
- `lint_config`. cpplint.py walks from a file's directory to the root and writes each
  `linelength` it meets into a global: the farthest configuration wins over the nested
  one.

### What the passing runs except

A property that holds only outside of some case names the case, so that a reader sees
where the code does not keep the promise.

`NoLostWakeup` and `PendingApplied` except `stray`: `main` does not wait for its workers;
a connection accepted before the worker's `LoopSetThread` is pushed on `pendingChannels`
and its wakeup written to descriptor 0, so it waits for another post to the same loop.
`InterestCoherent` excepts channels on which two calls have overlapped: after
`HTTPSendComplete` switches reading on, the CGI thread parses on and may make the next
call before the loop has applied the first, which overwrites `op`. That this cannot happen
to a connection without dynamic requests is `StaticCoherent`, which excepts nothing else.
`StaticRunsSafe` names the one way in which such a connection is used when it is gone:
`TCPConnSend` frees it on a refused write and returns, and the read handler goes on, by a
close, the next request or a read of the freed client (`TouchFreed`, `refused`).
`Fifo` excepts `spilled`, which a TLS read that fills the array exactly sets as well: what
it read is dropped whole.

`OutputKept` has to except `stalled`: after EAGAIN on a first write nothing asks
the loop to write again, so the response waits for the next one, and is dropped if
the connection is closed first (a 404, for example, closes it at once).
`CloseCarriedOut` has to except `writeFailed`: `TCPConnHandleWrite` says
"connection closed" in its log but only sets `closed`, and nothing releases the
connection afterwards. `UseFollowsRefusal`, which is proved and in no run, names the
states in which a failed send is followed by a use of the freed connection.
`AnswersMatch` follows the answers up to the first after which the request is not reset:
behind it every further read answers the same request again.

`CGIWorker`'s properties hold for a history of requests that upset nothing
(`PlainUpTo`): a script that prints nothing, such as adder.py on parameters that are no
numbers, blocks the CGI thread in its second wait for good; a script that prints in
several pieces has its later pieces read as the acknowledgement, or the answer, of the
next request (`OwnAnswers` names it as the only way); a GET with a body leaves the body
in the stream. A missing file for a request with a Content-Length ends the process, by
the assertion in `BufferRetrieveData`, when the body has not arrived; `PlainUpTo` allows it,
and the dialogue recovers through SIGCHLD. `lost` marks a request during which a process
ended, `UseFollowsDeath` says that only such a request is completed after it was answered
500 and closed. `Stranded` is the one way in which a replacement of the process stops
the queue: the new process never got the head the thread is waiting on.

The export of fixes never succeeds, since the import of `yaml` is commented out;
`ExitTells` says that the exit status tells of it, as of every other failure. It excepts
the status of clang-apply-replacements (`"status"`), which `apply_fixes` ignores, and the
directory that is made before a bad pattern raises.
`Ends` excepts a thread that raised, whose task `join()` waits for, and a file of the
database that the patterns do not name, on which the put loop spins.

`CodeFound` counts the braces of every line, and excepts files with an error about
comments or strings and three ways in which the heuristics are misled: a comment of several
lines that ends before the end of a line (`EndsMidLine`), a line of a raw string that begins
like one (`CommentInRaw`: the comment is taken for code's and ends where the next `*/` does),
and quotes that are none or the wrong ones (`MisleadingQuote`). `BracketsPair` leaves out
the pairs of `<` and `>` themselves, on which the two searches differ; it says that they do
not disturb the pairs around them. `StackFollowsBranches` excepts a line with a class head
whose first mark is `<` or stands on a later line (`SplitHead`): the search for the end of its
template arguments reads on through `#else`. `BlocksMatchBraces` and `AsmExempt` speak of
plain files (`PlainSoFar`), what is not plain being named in `PlainToken` and `ReadLine`: a
second head on a line or behind one that waits, which the code does not look for; heads in
inline assembly; a block that ends while a head waits; more than a brace behind a namespace;
template arguments in a class head; and braces or heads in parentheses of several lines, where
the count of parentheses goes to the wrong block. Their reference follows the code in two
things that C++ has differently: `extern "C"` and `asm` count with their brace on the
same line only, and an `asm` statement is one only if it goes on over several lines.
`TopLevelRemembered` and `OrderFollowsGuide` except files with a directive or
an include inside inline assembly (`DirectiveInAsm`): such a line is exempt from all
checks, and when it is an `#if` the lists miss its branch and lose the headers at the
`#else` behind the assembly. Headers that are never taken cannot be remembered or out of
order: those of third parties (`IsThirdParty`; a header named like a third party's that is
the file's own is taken like any other) and sources of other directories
(`IsForeignSource`). `PrintedExactly` excepts errors raised before the NOLINT of
their line is looked for (`RaisedEarly`).

### Bounds

- `EventLoop`: `MaxDispatch` bounds the dynamic requests (two let one follow
  another on the same connection, both from the loop and from the CGI thread's
  own parsing), `MaxPending` the list (one entry: a second is posted, for the same
  channel or for another, while the first waits in the batch being applied; the theorems
  are for every bound). One channel suffices for properties about a channel; two for what
  one connection may do to another.
- `Buffer`: an array of 3 bytes, 4 of `extrabuf`, growth 2, 12 bytes in all:
  buffers fill exactly, overflow, spill part and all of `extrabuf`, empty and
  start over, and grow more than once.
- `TCPConn`: five lines let a request with a body be followed by the start of
  another, malformed lines stand before, inside and behind a good request, and a
  rejected request be answered twice. A response of two bytes can be written in
  part, and two responses wait together.
- `BlockQueue`: two producers and five items, so that a batch has several
  elements and both arrays have been swapped more than once.
- `CGIWorker`: `MaxRequests` is three: one request to upset the dialogue, one to suffer
  it and one to see whether it is over. `MCRequests` has one request of each kind that
  the scripts tell apart; a body has at most two bytes.
- `ClangTidy`: two threads, so a queue of two places, and three files, so that `put`
  meets a full queue and a thread takes a second task.
- `CppLint`: files of up to five lines over an alphabet per subject (`TextCalls`,
  `ExprCalls`, `NestCalls`, `IncludeCalls`), long enough for a comment or raw string over
  three lines, a raw string with a comment's beginning in it, heads and braces on one line
  and on several, assembly with braces and parentheses, a conditional with `#else` inside a
  block, and an include behind a conditional; pairs of files (`PairCalls`) for what one
  file leaves for the next, with configurations that set filters, among them one that ends
  within a word, and options.
  `NormalTrigger = 1` makes a function of a few lines too long.

No run checks for deadlock, since every module is allowed to stop: `EventLoop` when the
process ends or every peer is silent, `TCPConn` when the connection is freed, `Buffer`,
`BlockQueue` and `CGIWorker` when the bound on their input is reached (the last also with
a silent script), `ClangTidy` and `CppLint` when the script exits.

### Fairness

- `EventLoop`: each thread makes progress when it can (weak fairness per thread).
  `epoll_wait` is strongly fair to the eventfd: a descriptor that stays ready is
  reported in a later call, since the kernel rotates its ready list. Peers and new
  connections are owed nothing.
- `TCPConn`: the thread finishes its handlers, and the loop reports an end of input
  and a writable socket (level-triggered epoll: again until it is handled). `Write`
  being fair includes that the peer takes what is written for as long as it is
  there; a peer that stops reading without going away is outside
  `CloseCarriedOut`. New input and the end of the peer are owed nothing.
- `BlockQueue`: each thread goes on when it can. A producer that asks for the
  mutex while spurious wakeups make the consumer take it over and over gets it in
  the end (strong fairness on its lock); a wakeup is never assumed spurious.
- `CGIWorker`: the consumer thread and the process are scheduled, and SIGCHLD is
  delivered. A script that waits for input it was not sent may wait for ever.
- `ClangTidy`: main and the threads are scheduled and clang-tidy processes end. No
  thread has to raise and nobody has to press Ctrl-C.

## 5. What is proved

Every theorem holds for all values of the constants; the assumptions are the
`ASSUME`s of the modules: `NoChannel` is not a channel and the bounds are natural
numbers (`EventLoop`); sizes are positive (`Buffer`, `TCPConn`); the producers are finitely
many, and neither the consumer nor the holder of a free mutex is one (`BlockQueue`);
requests are records of the kinds told apart (`CGIWorker`); there are some and finitely
many threads (`ClangTidy`); lines are sequences of tokens, and configurations sequences of
options, and no `#include` is another directive (`CppLint`).

Induction. The library's induction theorems cannot be used here, since they take an
operator. `NumberFacts` states induction for a set instead: a set that holds 0 and with
every number the next one holds all numbers (`AllNumbers`, from `LeastElement`, which
follows from the well-foundedness of inclusion among finite sets). With the set of the
numbers up to which something holds, recursive functions and folds can be followed as far
as a proof needs them: `TCPConnProofs` unfolds the reference `DueTo` line by line,
`CppLintProofs` each fold place by place (`FoldExists`, `FoldPrefixes`).

- `EventLoopProofs!TypeCorrect` (`[]TypeOK`). `TypeOK` is inductive once it says
  which program counters each thread may have and that a thread inside a call has
  a channel; every action moves one thread, so the per-thread part is one lemma
  used by all actions.
- `EventLoopProofs!WakeupKept` (`[]NoLostWakeup`). Inductive together with
  `TypeOK`: a push leaves the poster at `"notify"`; the eventfd is drained only on
  the way to `"swap"`; a swap empties the list.
- `EventLoopProofs!InterestKept` (`[]InterestCoherent`). `InterestInv`: of each live channel
  on which no calls have overlapped (`Settling`), one change at most is under way, in one
  thread or once in the backlog of posted channels, and wherever it has got to the
  operation chosen for it is the right one (`OnItsWay`); when none is, the kernel watches
  the channel's mask. That the backlog holds a channel once is needed, for the second
  `epoll_ctl` would fail. `CallInv` says to which places the calls return.
- `EventLoopProofs!StaticSerial` (`[]StaticCallsSerial`). `StaticInv`: a channel that never
  had a dynamic request is the acceptor's until its one change has been applied; until
  then the loop cannot have come to see it (`Untouched`), for it is not registered.
- `EventLoopProofs!StaticInterest` (`[]StaticCoherent`). From the two above: a channel on
  which calls have overlapped has had a dynamic request.
- `EventLoopProofs!StaticSafe` (`[]StaticRunsSafe`). `SafeInv`, from those above: while
  no request is dynamic, `fate` is `"run"` or the loop has just used a connection that its own
  refused send has freed, and each channel that the
  kernel or the backlog can bring up is live with reading on (`SafeFor`); what the loop has
  in hand is as its handler expects (`Held`), and a mask that a call is about to store
  leaves it so (`Good`). Without the last part a handler's assertion could fail on the
  report that follows in the same turn of the loop.
- `BufferProofs!TypeCorrect`, `NeverAborts`. The invariant `IInv` adds to the types
  that a TLS buffer is never full, which the growth after an exact fill restores
  and without which the next read's assertion could not be shown.
- `BufferProofs!FifoKept` (`[]Fifo`). From `IInv`, with lemmas on what `memcpy` and
  `resize` leave in an array.
- `BufferProofs!OutputIsQueue` (`Spec => ImplementsQueue`). By `Fifo` and because nothing
  is read into an output buffer, the mapped contents are the run of numbers from `taken`
  to `got`; that a longer run is a run with a run behind it, and what is left of a run
  is one, are lemmas of `NumberFacts`. Moving the bytes to the front changes no run.
- `TCPConnProofs!TypeCorrect`, `OutputIsKept`, `UseOnlyAfterRefusal`. `IInv` adds
  `HandlerInv`: a handler that has not answered yet works on a live connection
  (otherwise a send could switch writing on in a freed one), and one that has
  answered on a freed one got there by a write error, which stays one.
- `TCPConnProofs!AnswersDue` (`[]AnswersMatch`). What is due is a function of all lines
  received, what was sent came of the lines read so far; `Matching` bridges the two: for
  every way the input may go on, all that is due is what was sent, followed by what is
  due from the beginning of the request that is being read (`Settled`, `Pending`). After an
  answer behind which the request is not reset, what was sent stands (`Finished`).
- `BlockQueueProofs!TypeCorrect`, `OrderKept`. `IInv` adds to `InOrder` that the
  consumer comes to the swap with an empty array (the assertion at the top of
  `BlockQueueWaitAndSwap`): otherwise the swap would put handled items back.
- `BlockQueueProofs!SignalKept` (`[]NoLostSignal`). Inductive together with
  `TypeOK`.
- `BlockQueueProofs!QueueIsFifo` (`Spec => ImplementsFifo`). By `InOrder` what is left of
  the batch and the queue are two runs that join; `PushBound` keeps the bound on the
  items for every thread that is on its way to push.
- `CGIWorkerProofs!TypeCorrect`, `UseOnlyAfterDeath`. `History` adds that the thread has
  marked its request whenever the process is dead (`DeathNoticed`), that no 500 ever
  comes through the pipe, and that a request with a 500 is failed or marked (`Refused`):
  the only 500 that does not end a request is sent in `WaitAnswer`, where a closed pipe
  means a dead process. That a sequence holds no 500 is said without naming what it may
  hold otherwise, so the proof needs no type for the pipes and the environment.
- `CGIWorkerProofs!DialogueKept` (`[]Talk`). As long as no script before has printed in pieces,
  the two ends are in one of five modes: the head of the request is on its way and the
  process has taken a part of it (`EntersHead`), the process is at the request (`Working`),
  the thread is at a request that a new process has only the end of (`Stray`), the
  thread is idle and the process waits for a method (`Rests`), or the process is dead. In
  each, what is in the pipes, the Buffer and the environment is one sequence that the
  head of the request, or its answer, continues. `StreamTyped` bounds what may be in them
  at all, `Begun` and `Replied` say what the clients were sent.
- `CGIWorkerProofs!Aligned` (`[]StreamAligned`), `OwnAnswersOnly` (`[]OwnAnswers`),
  `AnsweredAlways` (`[]Answered`), `EnvironmentOwned` (`[]OwnEnvironment`) read the modes:
  `Rests` is the first, the others are what `Talk` says of answers and of a script that
  runs.
- `ClangTidyProofs!TypeCorrect`, `CountKept`, `JoinIsBarrier`, `ExitIsTold`. The barrier
  rests on the count: unfinished tasks are those waiting and those held, so that none
  left means no thread holds one, and every file before `next` is in exactly one place.
- `CppLintProofs!FiltersAreRestored` (`[]FiltersRestored`). While a file is looked at, the
  backup holds the filters of the arguments (`BackedUp`).

- `CppLintProofs!PrintedAsWanted` (`[]PrintedExactly`). Whatever files, configurations and
  marks the call has: the files left are the last ones of the call (`Remaining`), and while
  one is looked at the text, the global suppressions and the filters are its own and the
  suppressions are those of a set of its lines that holds all lines up to the next
  (`Prepared`). `Judged` says that an error is then judged as it should be if every mark
  about it is in the set. That is so for a line, whose errors are all on the line itself
  (`OnLine`); for the whole file, of which all lines are in the set; and for the header
  guard, whose errors are on the lines looked at for it (`GuardLines`). `FiltersRead` says
  that the filters of the configurations do not depend on the options that the file
  before has left.
- `CppLintProofs!TopLevelIncludesRemembered` (`[]TopLevelRemembered`) and
  `OrderIsTheGuides` (`[]OrderFollowsGuide`). Both follow the include lists line by line
  (`IncludeInv`), with the lines and the nesting behind them known from the file
  (`Following`). `Kept`: the lists that no open conditional has made, as many as there are
  lists less the depth, hold every header included at depth 0. `#if` and `#else` touch
  only the last list, `#endif` none (`ResetKeeps`), and an include adds to the last one
  (`AddKeeps`), which at depth 0 is one of those. That a header is found now does not
  show that it is found behind the next `#else`; that it is in one of these lists does.
  `SectionFits`: the one word that the code keeps of the order is what the set of the
  includes since the last directive leads to (`Fit`): `other_h` if one of them is
  another's, or an own header behind system headers, else the latest kind. `FitNext` adds
  a line to the set, `OrderStep` to the word. `Raised` says that no error about an include
  is there for a line that has not been looked at, so that what is reported of a line is
  what its own step reported; `LineFacts` says what this is.
- `CppLintProofs!BranchesAreFollowed` (`[]StackFollowsBranches`). The nesting of the file
  and that of the file without the parts behind `#else` are followed together
  (`BranchesPaired`). The open conditionals have a checkpoint each (`Track`), which a
  directive pushes, turns or pops (`TrackNext`). While all open branches are first ones
  the two nestings are equal, and a line does the same to both (`FirstGoesOn`). Behind an
  `#else` the second reads empty lines and stays at the stack that the outermost turned
  checkpoint of the first holds (`Turned`); the `#endif` of that checkpoint brings the
  first back to it (`TurnedEnds`). An empty line is not nothing: it ends an assembly block
  whose parentheses have closed, so that the second stays at the remembered stack behind
  such a line (`Calm`), and the next line that both read, the `#endif`, makes the two
  equal (`CalmCounts`). That a line of code does the same to both needs it to be read by
  itself: `InTemplateArgumentList`, the one place where the code reads on into later
  lines, finds its answer on the line when the class head is no `SplitHead`
  (`InnerAlike`). That lines are sequences of tokens and blocks have their fields is
  followed through the cleansing (`ElidedTyped`) and the nesting (`Stacks`).

Only model-checked:

- Liveness (`PendingApplied`, `CloseCarriedOut`, `AllDelivered`, `AllServed`, `Ends`): the
  prover has no rule that takes fairness and `ENABLED` together.
- `CodeFound`, `BracketsPair`, `BlocksMatchBraces` and `AsmExempt` of `CppLint`: each compares
  two readings of the same tokens by methods of their own, one of them over several lines,
  and the invariant that relates the two states at every token is larger than either.

## 6. What is not modelled

- TLSConn beyond its reads into a `Buffer`: its sending, parsing and closing follow
  TCPConn; the handshake, what SSL_read and SSL_write keep inside the SSL object and the
  exchange of the certificate by SIGHUP lie in OpenSSL. Three hazards are listed there
  without a property.
- How `parse.c` takes a line apart: `TCPConn` has kinds of lines.
- The acceptor, the thread pool and `main`: what they do to the rest is `Accept` and the
  initial states of `EventLoop`; what is left is set-up.
- `quit`, `LogStopAndWait`, `QuitCGI` and `QuitLoop`, which have no callers while the
  server serves; formatting of log lines; handlers that log inside a push.
- SIGCHLD for a process that is only stopped, pipes that are full, and descriptors that
  another connection gets between close and read.
- cpplint.py's checks of single lines, of which the width and the casts stand for all;
  access specifiers and indentation in classes; output formats, counters by category and
  the options that only choose among them.
- The command lines and merged YAML of run_clang_tidy.py; the pages that are served; the
  Makefile and the certificate script, which keep no state.

In `EventLoop`, `epoll_ctl` succeeds whenever the descriptor's registration permits it,
and memory is never exhausted. Accesses to `events` and `op` are taken as atomic and in
program order, as the build for the usual targets makes them; the races in them are
modelled as interleavings.
