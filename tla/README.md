# A TLA+ model of mcr-server

mcr-server is a small static web server in C: one process, an accept loop, and a
detached POSIX thread for every connection, which parses HTTP with the vendored
`http-parser` and answers with files below `wwwroot`. This directory holds TLA+
modules for the server, its parser, its configuration reader and its list library, TLC
configurations that check them on small instances, and TLAPS proofs of most of what is
checked. File names without a directory are relative to `src/`.

## 1. Inventory

| component | state it keeps | operations | modules |
|---|---|---|---|
| server loop, process (`mcr_server.c:111-138`, `mcr_main.c:36-85`) | `new_fd`, the one `cargs` on its stack, options, whether there is a server socket | `getopt`, `daemon`, `accept`, store into `cargs`, `pthread_create`, return on any failure, then the end of `main` and of all threads | `McrStart` up to the loop, `McrServer` from there |
| listening socket (`mcr_server.c:76-108`, `141-189`) | address list, server socket | `get_addr4_by_host`, `server_init`, the address loop | `McrStart` |
| connection worker (`cli_conn`, `mcr_server.c:27-73`) | `sock`, `recv_buf`, `recved` | read `cargs`, make the HTTP object, `recv` loop, `close` | `McrServer`; its loop over one parser in `HttpConn` |
| http glue (`mcr_http.c`) | context (`sock`, `url`, `buffer`, `complete_flag`), parser, hooks | `mcr_make_http`, `mcr_http_parse`, callbacks, `mcr_route`, response, frees | `McrServer` (descriptors, failures), `HttpConn` (URL, flags, results), `McrResponse` (path, type, buffer, `send`) |
| `http_parser_execute` | state, flags, marks, counts, `upgrade`, `http_errno` | one call per `recv`, callbacks | `HttpParser`, `UrlChar`, `HttpMessages` |
| `http_parser_parse_url` | fields, port | two state machines | `HttpUrl`, `UrlChar` |
| list (`mcr_list.c`) | headers, nodes, iterators, `free`/`dup` methods | all functions of `mcr_list.h` | `McrList`, `ListSeq` |
| configuration (`mcr_text.c`, `mcr_dict.c`, `mcr_config.c`) | dicts in a list, `server_config` | `readline`, `str_split2`, `to_words`, `to_dict`, `dict_init`, `dict_deinit`, `read_server_config` | `McrText`, `McrConfig` |
| `test/test-client.c`, parser tests, bench and contrib | | drivers and tools | not modelled |

How they interact. The main thread reads the configuration and opens the socket before
any thread exists. From then on it shares three things with the workers: `cargs` (a
pointer to it is the thread argument), the descriptor table of the process, and the
fate of the process (a return from `main`, a signal or a crash in any thread ends
all). A worker calls the parser synchronously; the parser calls back
`mcr_message_complete_callback`, which opens, reads and closes a file and sends the
response on the worker's socket before the parser goes on. Clients interact through
the kernel: the backlog, the receive buffers, FIN and RST. The configuration reader
is the only user of dicts and of the list, once, before the loop starts.

What is hard here, and what makes each part correct:

* *hand-over*: each thread serves the connection it was created for, although all
  threads get the address of the same variable;
* *descriptors*: numbers are reused at once by `accept` and `open` of other threads,
  so every path must close its descriptor exactly once and none may be lost;
* *isolation*: a client gets responses to its own messages only, at most one for each;
* *failure*: `recv`, `send`, `open`, `accept`, `malloc` and `pthread_create` fail one
  at a time in the middle of an operation; the test for a failed `recv` is dead code;
* *progress*: clients do not wait for each other, and a connection that was used or
  left is closed;
* *cuts*: the bytes of a message arrive in pieces of any size; what the parser tells,
  counts and refuses must not lose a byte at the edge of a call, nor may the glue lose
  what was told before it;
* *one buffer*: all responses of a connection are built in one buffer by functions that
  look for its NUL byte;
* *ownership*: lists, dicts, iterators and files are released on every early return;
* *lists*: the two chains, the header and the length agree after every call, deletions
  inside a loop included, and values are freed at most once.

`PROJECT.json` lists the hazards at their lines with the properties that cover them.

## 2. Modules

| module | what it is |
|---|---|
| `McrServer` | main thread, workers, descriptor table and clients; its properties |
| `ConnService` | the abstract service: isolated connections that are admitted, answered and finished, and a process that may stop |
| `HttpParser` | `http_parser_execute`: one action per case of its switch, one step per byte, and the calls between which the bytes are cut |
| `UrlChar` | the classes of bytes and `parse_url_char`, used by both URL machines |
| `HttpMessages` | the abstract parser: the callbacks of messages in order |
| `HttpConn` | `HttpParser` driven by `cli_conn` and `mcr_http_parse`, with the callbacks that keep something |
| `HttpUrl` | `http_parser_parse_url` and `http_parse_host` |
| `McrResponse` | `mcr_route` and the response in the connection's buffer |
| `McrText` | the text of a configuration file, cut into lines, sides and words |
| `McrConfig` | `read_server_config` and `to_dict`: who holds what while any allocation fails, and which line decides |
| `McrStart` | `main` up to the loop: extends `McrConfig` with options, sockets and `daemon` |
| `McrList` | `mcr_list.c` over a heap of nodes, the iterator, the life of values |
| `ListSeq` | the abstract lists: sequences of values |
| `McrServerProofs`, `HttpParserProofs` (with `HttpConn`), `HttpUrlProofs`, `McrResponseProofs`, `McrTextProofs`, `McrStartProofs`, `McrListProofs` | inductive invariants, theorems and proofs about the modules so named |
| `LeastNumber` | least and greatest numbers and induction, for the proofs |
| `MC...` | the module of that name for TLC: symmetry, constraints, sets |

### McrServer and the code

A worker is indexed by the connection whose `accept` led to the `pthread_create` that
made it. The descriptor it works on is what it read from `cargs`, which may be the
descriptor of another connection; nothing in the model assumes otherwise. A response is
counted in `sent[d][s]`: `d` is the connection it was written on, `s` the one the
answered message was received from.

| variable | code |
|---|---|
| `main`, `newFd`, `newConn`, `cargs` | program counter of `run_serverloop`/`main`, `new_fd`, its connection, `cargs.fd` |
| `fdt`, `phase`, `peer`, `inbox` | the kernel: descriptor table, backlog, the state of the client's end, received data |
| `pc`, `sock`, `left` | a worker: where it is, `sock`, the messages of `recv_buf` not parsed yet |
| `file` | the `fd` of `mcr_route` |
| `upg`, `dead`, `complete` | `parser->upgrade`, a latched parser error or `s_dead`, `context->complete_flag` |
| `clobbered`, `from`, `asked`, `sent` | history: the hand-over went wrong, where data came from, messages and responses counted |

Actions follow the system calls, where threads can interleave: `Accept`, `Store`,
`Spawn` and the failures of the loop; `ThreadEntry` (the read of `cargs`), `MakeHttp`,
`RecvCall`/`RecvData`/`RecvEof`/`RecvError`/`RecvBadFd`, `ParseReject`/`ParseMessage`,
`RouteOpen`/`RouteRead`/`RouteClose`, `SendOk`/`SendFail`/`SendKilled`, `Close`. What
lies between two calls touches only locals of the thread and is part of the step.

Decisions worth knowing:

* *Any free descriptor.* The kernel gives the lowest free number; the model gives any.
  This allows more behaviours, makes descriptors symmetric and the proofs independent
  of their order.
* *Messages.* A message is one of six kinds, by what the parser makes of it; it arrives
  whole. What a `recv` that returns part of a message changes is inside the parser and is
  in `HttpParser` and `HttpConn`, as are responses, which the parser accepts as well
  (`HTTP_BOTH`).
* *A failed `recv`.* `recved` is a `size_t`, so the branch for errors is never taken and
  the parser runs on from `recv_buf`. What it finds there is nondeterministic: an old
  message of any kind, then no message, or unmapped memory (`ParseStale`).
* *A worker that reads `cargs` after the loop has returned* reads a dead stack slot: any
  descriptor number.
* *Ends of the process*: `Exit` (the return from `main`) and `Killed` (SIGPIPE, abort
  and segmentation faults that the code can run into). Both close every descriptor.
* `send` writes the response or fails; that it may write a part is in `McrResponse`.

Definitions whose names say what goes wrong (`AcceptSerially`, `CloseTwice`, ...) stand
before the action they are a broken version of and are no part of `Next`; they show for
each property a bug that it would find.

### McrList and the code

The heap is `prev`, `next` and `value` over the nodes in `heap`; `free` clears a node.
Each library call is one action, since nothing runs concurrently with it. A pointer is
dereferenced through `Faults`, which records NULL and freed nodes in `crashed`. A
caller does what the comments ask: the node it names is in the list; while it iterates
it deletes only the current element and does not empty or join away the list it is in,
but it may add, insert, rotate and append. With a free method it hands over values it
owns; `alive` are the values allocated. `methods` are the methods the lists have, one of
the sets `Methods`; `JoinEmpty` says whether callers join an empty list. A call whose
first `malloc` fails changes nothing and is no step; a `listDup` that fails later is
`listDupFails`. `todo` and `calm` are history: what an iteration still owes, and whether
it still does.

### HttpParser, HttpConn and the code

A call of `http_parser_execute` is `Execute`, a step for each byte, and `EndOfData`, a
failure or an upgrade; `call` says where it is. Bytes are not fixed beforehand: each step
takes any of the classes in `Bytes`, so every stream and every cut of it is covered. The
actions are named after the cases (`HeadersDone` is `s_headers_done`), the macros are
operators: `To` UPDATE_STATE, `Again` REEXECUTE, `Notify` and `Data` the callbacks with
their NOADVANCE variants, `Marked` MARK, `Counts` and `TooLong` COUNT_HEADER_SIZE. A
callback returns 0 or, for those in `MayFail`, an error.

| variable | code |
|---|---|
| `parser` | the struct: `type`, `method`, `status_code`, `state`, `flags`, `header_state`, `nread`, `content_length`, `upgrade`, `http_errno`; `old` is a version below 1.1 |
| `mark` | the marks that are set, with the distance of `p` from them |
| `ch` | the byte a REEXECUTE looks at again |
| `run`, `skip` | the inner loops of header names and values: bytes not counted yet, and whether `memchr` is jumping to the end of the line |
| `whole` | the call returned the length it was given |
| `cb`, `owed`, `due`, `order` | history: the callback being made, bytes of a part not told yet, the length announced without overflow, the order of callbacks |

A word the code matches letter by letter (a method, a version, a header name or value)
is one byte, offered where the code looks for it. `MaxLen` stands for ULLONG_MAX and all
arithmetic on lengths wraps at it; `MaxHeader` for HTTP_MAX_HEADER_SIZE. A body may come
in pieces of any size up to its end, a body without length in pieces of up to `MaxPiece`.

Quirks that the model has because the code has them: the first byte of a header value is
never checked, and behind the second one `memchr` jumps over bytes the check would refuse;
"Connection: c, close" swallows the comma after a word that only begins like `close`;
folding a line drops a matched `close` or `chunked`; "Content-Length: 1 2" is 12; the
bytes of trailers count against the header limit of the next message.

`HttpConn` conjoins each parser step with what the callbacks of `mcr_http.c` do: `url` is
whose URL `context->url` holds and how much of it, `result` what `mcr_http_parse` made of
the length that the call returned. The worker calls `recv` again only after MCR_EAGAIN.

### HttpUrl and the code

`UrlLoop` is the loop of `http_parser_parse_url`, `HostLoop` that of `http_parse_host`,
which starts the host field again; `EndOfUrl`, `EndOfHost` and `Port` are what follows
each. `behind` are the digits in memory after the URL, where `strtoul` goes on.

### McrResponse and the code

A path of `Paths` says which extension follows its last dot, and whether it is a page of
some length, a directory or missing. The buffer of the connection is an array of cells,
each a part of the head as one `mcr_http_*` function appends it, a piece of a body, a NUL
or what was never written; `Strlen`, `Strcpy` and `Strcat` work on it as the C functions
do, so that leaving one out, or taking a length too late, shows. `content_len` is unsigned:
-1 stands for SIZE_MAX. Files longer than three quarters of the buffer are cut.

### McrText, McrConfig, McrStart and the code

`McrText` works on characters: `cl` and `nl` are `this_line` and `next_line`, `key_area`
and `values_area` the two arrays of `to_dict` (the first keeps what an earlier line left),
`words` what `to_words` has found. Lines are assumed to fit the arrays. `McrConfig`
abstracts a line to what `to_dict` makes of it (skipped, no key, a setting) and follows
`heap[i]`, the blocks `dict_init` has allocated for line i, the list, the iterator and the
descriptor, with a failure possible at each allocation. `lines` includes what the stack
holds behind the file, since nothing ends `buf` with a NUL. `McrStart` conjoins that
reader with the options before it and the search for an address after it: `bindable` are
the addresses `bind` succeeds for, `Transient` says whether `socket` and `listen` may fail.

## 3. Runs

| run | instance | question |
|---|---|---|
| `shared` | 2 connections, 2 descriptors, 2 messages in all, plain or upgrade | are descriptors mixed up, lost or closed by others, responses misdirected or repeated? is the invariant of the proofs one, also after a wrong hand-over? is the service implemented? |
| `progress` | 2 connections, 2 descriptors, one message each (`last` or `bad`), fair threads | does everybody get accepted, does every connection get closed? |
| `race` | 2 connections | violated: two threads on one descriptor |
| `upgrade` | 1 connection, fair threads | violated: the thread of a client that has left never ends |
| `parser` | 10 classes of bytes, 12 words, ULLONG_MAX = 21, header limit 14 | assertions, marks, counts, lengths, upgrade, order of callbacks, over every stream and cut |
| `conn` | 7 classes of bytes, 9 words, header limit 10, URL buffer of 3 | which URL is routed, when the loop ends, whether every REEXECUTE ends |
| `conn_pieces` | requests only, with a larger URL buffer | violated: a cut URL is routed by its last piece |
| `url` | URLs of up to 9 bytes (5 for CONNECT), port limit 25 | do the fields tile the URL, are host and port well formed? |
| `response` | 8 paths, 2 messages | is each response whole, its own and framed, although the buffer held another? |
| `text` | every text of up to 5 of 7 characters | does each setting become one dict with the key and the words of its line? |
| `start` | 2 lines, 2 options, 2 values, 3 addresses, any failure | what is held and freed on each path, and what does the loop get? |
| `list` | 2 lists, 4 nodes, 4 values, with and without methods | chains, lengths, iterations, look-ups, freed values, and the sequences the lists stand for |

Why these bounds. Mixing up descriptors takes a worker that has one, a second one that
closes one, and an `accept` or `open` that reuses its number; with two connections and two
descriptors this happens with the table full, `AcceptEmfile` happens, and so does the
overwritten `cargs`. Two messages may come from one client, sent ahead, so that one is
answered and one is left; `ParseStale` adds rejected ones to the two kinds, and the proofs
of section 5 cover all kinds and any number of everything. In `parser`, a header limit of
14 lets a request with one header and a response with two through and is passed inside
names, values and trailers; 21 is passed by two digits in base 10 and in base 16, and "21"
itself is the length that means none; two digits, a letter and each word that changes a
flag are there, and streams and messages are unbounded: the parser forgets a message but
for its type and counts. In `conn`, a limit of 10 lets several HTTP/1.1 messages through
in one call, responses, and messages with bodies of a length or in chunks with trailers;
HEAD is offered there only, and HTTP/1.0, which the
parser treats as the HTTP/0.9 of requests without a version, nowhere. URLs of nine bytes
have a schema, a user, a host and a port (`a://a@a:2`), and five bytes a path, a query and
a fragment. In `text`, five characters hold
two lines of which the second begins with the separator; words are cut at two characters.
Two lines in `start` suffice for an earlier and a later setting of one option, three
addresses for the one that is never tried. Four nodes allow lists with a first, a last and
inner elements and a second list to join; the operations touch at most three nodes.

The state constraint `HandedOver` of `progress` drops the successors of states in which
`cargs` has already been overwritten too early. Both properties of this run allow
`clobbered`, and it is never reset, so nothing is lost; `shared` explores what comes
after. `TwoMessages` of `shared` is the bound on messages.

Deadlock is checked for `list`. Elsewhere the system may stop: the process ends or is
idle for ever, a client sends no more, a text is read.

Symmetry is used only where no liveness is checked; no action compares connections,
descriptors, nodes, lists or values except for equality.

Fairness. `McrServer!FairSpec`: weak fairness of the main thread, without the failures of
`accept` that nothing forces, and of each worker: threads are scheduled by the kernel and
none of the program's own code waits. `recv` is enabled only when there is something to
return, so a silent client blocks its worker. Clients owe nothing, with one exception to
know of: `SendOk` is enabled while the client keeps its end open, that is, a client that
stays does read. One that does not can block its own thread for ever. `FairConnSpec`: a
call that was made runs and its result is looked at, and it comes to the end of its bytes
(strong fairness of `ParseEnd`), because one `recv` fills at most one buffer and the model
does not count its bytes; nobody has to send. `McrText` and `McrStart`: the one thread
there is runs on; `accept` is not forced to fail.

## 4. What the runs show

* While `cargs` is handed over correctly, the threads are isolated: ownership of
  descriptors (`OwnSocket`, `OwnFile`, `NoFdLeak`, `ClosedByItsWorker`) and of responses
  (`NoCrossTalk`, `NoDuplicateResponse`) holds on all paths, those of failing calls
  included, and the whole implements `ConnService`. `OwnFile`, `NoFdLeak` and
  `NoDuplicateResponse` are checked as parts of `Inv`.
* The hand-over itself is a race (`race`): the value read at `mcr_server.c:30` can be
  the one stored for the next connection at line 129.
* A connection is good for one batch (`AnsweredThenCloses`), except that after a request
  for an upgrade the worker never leaves its loop (`upgrade`).
* The parser loses and repeats nothing wherever its input is cut (`PiecesWhole`), counts
  every byte (`HeaderCounted`), never reads a body of another length than announced
  (`LengthExact`), keeps its assertions (`Asserts`), consumes what it looks at again
  (`ByteUsed`), and its calls are those of whole messages (`ImplementsMessages`).
* The glue is right for URLs that come in one piece and fit (`UncutUrlRouted`); for others
  it routes the last piece (`conn_pieces`). MCR_ERR always means an error (`NoFalseError`).
* Responses are whole and framed by their own head (`ResponseRight`); after a `read` that
  failed, the head lacks its last part and announces a length of -1 (`FailedReadFramed`).
* The configuration reader releases file, list and iterator on every path and never
  leaves a dict in pieces (`Released`, `DictsWhole`); the dicts themselves are never freed,
  which no property asks for. The last line that sets an option decides (`LastLineWins`),
  and only a lack of memory leaves out lines (its part `AllLinesRead`).
* The start leaves one socket that listens on an address that could be bound, or none
  (`ServesBound` with its part `OneServerSocket`), and ends unless the second of several
  addresses is tried again and again (`Starts`).
* The list library keeps its promises for callers that keep clear of the two below:
  the chains stay whole and lose no node (`Linked` with its part `Partitioned`), values
  are freed once (`NoFault` with its part `OwnValues`), an iteration returns what was there
  when it began (`IterationExact`), look-ups find the right node (`LookupsRight`), and the
  calls do to the sequences what their comments say (`ImplementsSeq`).
* Type invariants are properties of their own (`TypeOK`, `StartTypeOK`) where proofs rest
  or will rest on them and for the parser; in the smaller modules they are a conjunct of
  `Linked`, `FieldsTile`, `NoLineLost`, `ResponseRight` and `UncutUrlRouted`.

### Known disagreements

Three have a run of their own: `race`, `upgrade`, `conn_pieces`. The others are in the
model as the code has them. The properties do not ask for what the code does there, nor for
what the comment says: they leave these cases open, or the constants of the runs exclude
them, except that `RightType` and `FailedReadFramed`, which no comment contradicts, follow
the code. The list says for each how the model shows it.

* `mcr_list.c:326` against the comment at 315: `listJoin` of an empty list takes over its
  NULL tail. With `JoinEmpty = TRUE`, TLC finds `Linked` violated.
* `mcr_list.c:243` against the comment at 219: a `listDup` that fails with a free method
  and no dup method frees the values of the original. With `Methods` `{{"free"}}`, TLC
  finds `NoFault` violated. The server calls neither function.
* `http_parser.c:1468-1491` against `test.c:3548` and `3845`: control bytes in a header
  value are refused or passed over depending on the cut (`ValueByte`, `skip`).
* `mcr_http.c:174` against `mcr_server.c:60-61`: an error on the last byte received is
  looked for in the parsed length only and answered with MCR_EAGAIN. `NoFalseError` is the
  converse.
* `mcr_http.c:92` makes a parser of requests and responses: a response is routed like a
  request, with whatever `context->url` holds (`HttpConn!OnMessageComplete`; `RoutesOwnUrl`
  fails for it too when `Words` of `conn_pieces` has a status).
* `mcr_dict.c:118` and `mcr_text.c:35` against `mcr_dict.c:119`: "a b: c" is stored under
  `a`, ": c" under the key of an earlier line (`str_split2` leaves `key_area`). `NoLineLost`
  asks for dicts of lines with one key word, `OwnKey` for the key of lines that have one.
* `mcr_config.c:115` against `mcr_list.c:6-8` and `mcr_dict.c:56`: no dict is ever freed.
  `heap` keeps the blocks of every line that came past `to_dict`, `Release` frees none;
  `DictsWhole` and `Released` allow it.
* `mcr_dict.c:125`: after a lack of memory the rest of the file is not read, and
  `read_server_config` returns 0; `LastLineWins` allows it.
* `mcr_server.c:173` against 175: the loop tries the first two addresses, then the second
  again and again; a third is never tried (`NextAddress`, and the exception in `Starts`).
* `mcr_main.c:62` against `README.md:29`: without a readable file the server starts with
  an uninitialised configuration.
* `mcr_http.c:390`, "Support mime types" in `README.md:13`: jpg is sent as `text/jpg`
  (`RightType`).
* `http_parser.c:2374` against 2373 and `http_parser.h:360`: `strtoul` reads digits that follow
  the URL in memory (`Strtoul` and `behind`). `PortShown` is about the other URLs.

## 5. Proofs

Each module with proofs extends the module it is about. What TLC checks on the instances
of section 3 these theorems state for every value of the constants, under the assumptions
the modules name; each inductive invariant was an invariant of a TLC run first.

| module, theorem | statement, `Spec =>` | property |
|---|---|---|
| `McrServerProofs`: `TypeCorrect`, `Invariance` | `[]TypeOK`, `[]Inv` | types, the inductive invariant |
| `DescriptorOwnership` | `[](OwnSocket /\ OwnFile /\ NoFdLeak)` | descriptors have one owner |
| `ResponseIsolation` | `[](NoCrossTalk /\ NoDuplicateResponse)` | responses go where they belong, once |
| `OneBatchOnly`, `OnlyOwnerCloses` | `[]AnsweredThenCloses`, `ClosedByItsWorker` | one batch for each connection, closed by its worker |
| `ServiceImplemented` | `ImplementsService` | the abstract service is implemented |
| `HttpParserProofs`: `ParserTypes`, `AssertionsHold` | `[]TypeOK`, `[]Asserts` | types and the asserts of the code |
| `PiecesAreWhole`, `LengthsExact` | `[]PiecesWhole`, `[]LengthExact` | no byte lost at a cut, sharp overflow tests |
| `UpgradeEndsCall`, `HeadersCounted` | `[]UpgradeStops`, `HeaderCounted` | the end of a call after an upgrade, the header limit for every step |
| `MessagesImplemented` | `ImplementsMessages` | the abstract order of callbacks is implemented |
| about `HttpConn`: `ConnRunsParser` | `HttpParser!Spec` | the parser's theorems hold on a connection |
| `ErrorsAreErrors`, `UncutUrlsRouted` | `[]NoFalseError`, `[]UncutUrlRouted` | the glue's results and URLs |
| `HttpUrlProofs`: `UrlFalls`, `UrlServer`, `UrlPort` | `[]FieldsTile`, `[]ServerRight`, `[]PortShown` | fields, host and port of accepted URLs |
| `McrResponseProofs`: `ResponseCorrect`, `FailedReadCorrect` | `[]ResponseRight`, `[]FailedReadFramed` | what is sent of the buffer |
| `McrTextProofs`: `WordsFound`, `LinesKept`, `KeysTraced` | `[]WordsExact`, `[]NoLineLost`, `[]OwnKey` | words, lines and keys |
| `McrListProofs`: `ListLinked`, `ListLookups`, `ListIterations` | `[]Linked`, `[]LookupsRight`, `[]IterationExact` | chains, look-ups and iterations |
| `ListSafe` | `[]NoFault` | no freed node or value is used |
| `ListRefinement` | `ImplementsSeq` | the lists are sequences of values |
| `McrStartProofs`: `StartTypes`, `DictsAreWhole`, `ReaderReleases`, `LastLineDecides`, `ServesOnBound` | `[]StartTypeOK`, `[]DictsWhole`, `[]Released`, `[]LastLineWins`, `[]ServesBound` | reader and start |

Assumptions. They say what a type in C says (a limit is a number, a descriptor that is
none is none of the table) or what the caller's data is: the bytes behind a URL are a
string of digits, the stack under `key_area` a string of characters. The number of
connections, bytes, lines, options, addresses, words and the sizes of all limits are free.

### McrServer

`OwnSocket` alone is not inductive: a thread that has not started yet will
use what `cargs` holds by then. `HandOver` follows the descriptor on its way from
`new_fd` through `cargs` into the thread (as long as no store came too early there is at
most one such thread), `Table` says that a connection has at most one descriptor, and
`NoFdLeak` that each one has an owner; together they are `FdInv`. Every action either
leaves the table alone (`InnerMove`), adds an object under a free number, or removes one
that its worker owns. `NoDuplicateResponse` needs `Budget`: responses given, messages in
`left` and messages in `inbox` together never exceed the messages sent. A failing `recv`
may make the parser run over an old message, but then the error has taken the client's
end to `gone`, on which no `send` succeeds any more; this is why `Budget` excepts it.
`Source` ties the data a worker holds to its own connection. For `AnsweredThenCloses`
the invariant `Batch` says what a worker in the middle of a batch has latched. The
refinement follows from `FdMoves`: only `Accept` and `Close` change whether a connection
has a descriptor, and under `Inv` a pending `recv` keeps nothing open that has none
(`OpenIsFd`).

### HttpParser and HttpConn

`ParserInv` says for each state which mark is set (`MarksFit`), that a mark is exactly as
far behind as there are bytes the callbacks have not been told (`Owes`), which callback
was made last (`InOrder`), and what the state says of flags and lengths (`Fields`, with
`Measures`: the count is within its limit and the length is the announced one). The
assertions need all of these: that a body state has bytes left needs the chunk size to
have been looked at, that a header's mark is where the code asserts it needs the state.
`InOrder` is also the refinement mapping's invariant: with it each step is a step of
`HttpMessages` or leaves it alone. The proof has a lemma for each macro of the code
(what `Notify`, `Data`, `Marked` and the counts do to the invariant) and one for each
action. `ConnInv` adds to it what the context keeps, and that a result other than the
ones being computed came from an error of the parser: since a connection's steps are
steps of the parser (`ConnStep`), nothing about the parser is proved twice.

### HttpUrl

Two machines write one table. `UrlPart` is the invariant of the first: the field at work
reaches to the last byte, the others do not come later than the state allows. `ServerPart`
is that of the second: up to `p` the server part is cut, behind `end` nothing changes, the
byte before `p` is the one that led to the state, and the host so far is a name or has its
bracket. Between them, `Tiled` counts the old host field as gone (`Cut`) and the bytes
`p..end-1` as not looked at yet, which makes one statement of three lemmas: the byte is a
delimiter, goes on with a field, or begins one. For `PortShown`, `PortIs` shows that
`strtoul` stops at the end of the field or goes on behind the URL, and nowhere else
(`PortRead`); where nothing follows, the number is that of the field.

### McrResponse

The buffer is full of earlier responses, so what `strcat` appends to matters. `String(b, n)`
says that the first NUL of `b` is behind cell n; with it `StrlenIs`, `StrcpyIs` and
`StrcatIs` say what the string functions do, and `WithHeadIs` that after the i-th of them
the buffer holds i cells of this head, a NUL, and what it held before (`Filled`): no cell
of a head is a NUL (`HeadIs`), and `strcpy` starts at the first cell. `MakeResponseIs` adds
the body behind it; it holds for the length -1 too, where the result is one cell short.
The invariant `Inv` carries from `open` to `send` that there is a file, that `content_len`
and `content_type` are its own, and that `not_found` is reached only for a missing or an
empty one; the type and the length an earlier message left play no part.

### McrText, McrConfig and McrStart

`TextInv` follows `to_words` with the words of a side up to where it is (`NoMoreIs`: the
search for the next one skips separators only), the dicts with the lines up to
`this_line`, and the keys with the last line that had one (`KeyFrom`), which for a line that
has one is that line. `StartInv` ties the descriptor,
the list and the iterator to the program counter (`Holds`), the blocks of each line to how
far `dict_init` came (`Heap`), the list to the lines (`Listed`), and the options to the
nodes visited so far (`Assigning`), which at the end becomes a statement about lines
(`Assigned`). `SearchInv` says what the search for an address has shown.

### McrList

The model walks links, the properties speak of lists, so the invariant names the lists:
there is a sequence of nodes for each header, `w`, such that (`Chained`) the header points
at its ends, each node's `next` and `prev` are its neighbours, `len` its length, no node
occurs twice or in two of them, and all of them together are the heap. From this the loops
of the code read `w` (`WalkIs`, `ChainIs`: a loop that follows a sequence of different
nodes meets NULL behind its last one), which gives `Linked` and `LookupsRight`. A call is
then three lemmas: its stores make the edited sequence (`Inserted`, `Deleted`, `Rotated`,
`Joined`, `Copied`: head, tail and middle are cases of one formula), the other lists do
not notice (`OneReplaced`), and neither does the iterator (`IterationKept`). `Iterating`
keeps for a calm iteration that the links from `iter.next` on lead through `todo`, and
that the element given is neither `iter.next` nor in `todo`: it is why deleting it is safe
and deleting another one is not. `Sane` is what the nodes own, `Held` that they hold
what was stored. Since every call names its new `w`, `ImplementsSeq` is left with the
sequences of values (`ItemsChange`).

Two hypotheses are those of the run and of section 4. `~JoinEmpty`: `listJoin` breaks the
first list when the second is empty, and then nothing of the above holds. `FreeDups`, for
`NoFault` alone: lists with a free method have a dup method, since otherwise `listDup`
gives two lists the same values and both free them; `mcr_list.h` leaves that to the
caller. The nodes are a finite set, as the memory of a process is.

### Induction and what is left

The library's induction theorems take a predicate, which the installed provers cannot be
given. `LeastNumber` derives the least-number principle from well-foundedness as the
library states it for relations, and from it induction with a set in place of the
predicate; it serves the recursive functions (`DecimalIs`, the value of a string of
digits, exists and is a number) and the least elements that the C loops search for
(`LineEnd`, `Strtoul`, the last setting of an option).

Only model-checked: the liveness properties (`QueuedAccepted`, `ServedAndClosed`,
`ReadsToTheEnd`, `Starts`, `AnswerEnds`) and `ByteUsed`, since fairness and ENABLED are out
of the prover's reach; the violated properties.
No module declares a RECURSIVE operator, so all of them can be proved about.

## 6. Not modelled

* `http_parser_pause` and `http_body_is_final`, which nothing in the server calls; the
  tables of method, error and status names; methods other than GET, HEAD and CONNECT,
  whose letters are matched one by one without effect on what follows.
* The order of the allocations of `mcr_make_http`: each failure after the first uses or
  frees the context wrongly and ends the process, which is an outcome of
  `McrServer!MakeHttp`. `mcr_url_check` is only called without a filter and returns 0.
* The effect of `daemon` on a relative `wwwroot`: `detached` records it and no document
  says what such a path is relative to. That `wwwroot` "./www" loses its dot.
* Output to the terminal, `dump_server_config` and `dict_dump`, `pthread_detach`.
* `test/test-client.c`, `http-parser/contrib`, `bench.c` and `test.c`: drivers and tools.

## 7. Plan

* The parser run twice on one stream with different cuts: the same callbacks but for the
  pieces.

## 8. Running

    tlasany McrServer.tla
    tlc -workers 2 -config MCParser.cfg MCHttpParser   (likewise the other .cfg files)
    tlapm HttpParserProofs.tla   (likewise the other modules with proofs)

The longest runs (`shared`, `progress`, `parser`, `conn`) take one to three minutes each.
