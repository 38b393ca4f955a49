------------------------------ MODULE McrServer ------------------------------
(***************************************************************************)
(* The process: the accept loop of run_serverloop, one worker thread per   *)
(* accepted connection (cli_conn and, inside it, the http callbacks), the  *)
(* descriptor table all threads share, and the clients.                    *)
(*                                                                         *)
(* A worker is named after the connection whose accept() led to the        *)
(* pthread_create() that made it: pc[c], sock[c], ... are the locals of    *)
(* the thread created for c.  Which descriptor that thread really works on *)
(* is what it reads from the stack variable cargs, shared by all threads.  *)
(*                                                                         *)
(* A message is one whole HTTP message; the pieces of a message that a     *)
(* recv() may return before its last byte change nothing modelled here     *)
(* (the parser only records them) and are left out.                        *)
(***************************************************************************)
EXTENDS Naturals, Sequences

CONSTANTS Conns,    \* the connections clients may make
          Fds,      \* the descriptors left for connections and files
          Kinds,    \* the kinds of message clients send
          MaxReq,   \* bound on the messages of one connection
          NoFd,     \* a value that is no descriptor
          None      \* no connection

(***************************************************************************)
(* What the parser makes of a message.  plain: accepted, keeps the         *)
(* connection; last: accepted, asks to close it; upgrade: accepted, asks   *)
(* to switch protocols; bad: rejected before its headers end; badbody and  *)
(* badupgrade: rejected after them, without and with a request to switch.  *)
(***************************************************************************)
AllKinds == {"plain", "last", "upgrade", "bad", "badbody", "badupgrade"}
Rejected == {"bad", "badbody", "badupgrade"}

ASSUME KindsAssumption  == Kinds \subseteq AllKinds
ASSUME NoFdAssumption   == NoFd \notin Fds
ASSUME NoneAssumption   == None \notin Conns
ASSUME MaxReqAssumption == MaxReq \in Nat

VARIABLES
  main,       \* where the main thread is; "exited", "killed": no process
  newFd,      \* run_serverloop's new_fd
  newConn,    \* the connection new_fd was returned for
  cargs,      \* cargs.fd
  clobbered,  \* cargs was overwritten, or its frame left, while a thread
              \* just created had not read it yet
  fdt,        \* the descriptor table
  phase,      \* a connection, seen by the kernel: new, queued, accepted
  peer,       \* its client: open, fin, rst (error pending), gone
  inbox,      \* messages received by the kernel and not by a worker
  asked,      \* number of messages the client has sent
  sent,       \* sent[d][s]: responses written on d to messages of s
  pc, sock,   \* a worker: where it is, its variable sock,
  from,       \* the connection its recv() was called on,
  file,       \* mcr_route's fd,
  left,       \* the messages of recv_buf not parsed yet,
  upg,        \* parser->upgrade,
  dead,       \* the parser takes no more (error latched, or s_dead),
  complete    \* context->complete_flag

mainVars   == <<main, newFd, newConn, cargs, clobbered>>
clientVars == <<peer, inbox, asked>>
localVars  == <<sock, from, file, left, upg, dead, complete>>
vars == <<mainVars, fdt, phase, clientVars, sent, pc, localVars>>

-----------------------------------------------------------------------------
(* The descriptor table *)

Free    == [kind |-> "free", conn |-> None]
Sock(c) == [kind |-> "sock", conn |-> c]
File(c) == [kind |-> "file", conn |-> c]    \* opened by the worker of c

Objects == {Free} \union {Sock(c) : c \in Conns} \union {File(c) : c \in Conns}

FreeFds == {f \in Fds : fdt[f] = Free}

\* What descriptor f refers to; a number that is not open is like a free one.
At(f) == IF f \in Fds THEN fdt[f] ELSE Free

\* close(f): on a number that is not open it fails and changes nothing.
Closed(f) == [g \in Fds |-> IF g = f THEN Free ELSE fdt[g]]

Down == main \in {"exited", "killed"}

\* A connection stays open while a descriptor, or a recv() under way, refers
\* to it.
Open(c) == \/ \E f \in Fds : fdt[f] = Sock(c)
           \/ \E d \in Conns : pc[d] = "wait" /\ from[d] = c

\* A thread has been created and has not read its argument yet.
Unread == \E c \in Conns : pc[c] = "entry"

Init ==
  /\ main = "accept" /\ newFd = NoFd /\ newConn = None /\ cargs = NoFd
  /\ clobbered = FALSE
  /\ fdt = [f \in Fds |-> Free]
  /\ phase = [c \in Conns |-> "new"]
  /\ peer = [c \in Conns |-> "open"]
  /\ inbox = [c \in Conns |-> <<>>]
  /\ asked = [c \in Conns |-> 0]
  /\ sent = [d \in Conns |-> [s \in Conns \union {None} |-> 0]]
  /\ pc = [c \in Conns |-> "unborn"]
  /\ sock = [c \in Conns |-> NoFd]
  /\ from = [c \in Conns |-> None]
  /\ file = [c \in Conns |-> NoFd]
  /\ left = [c \in Conns |-> <<>>]
  /\ upg = [c \in Conns |-> FALSE]
  /\ dead = [c \in Conns |-> FALSE]
  /\ complete = [c \in Conns |-> FALSE]

\* The stacks and heap objects of the workers in S are given back.
Discard(S) ==
  /\ sock' = [c \in Conns |-> IF c \in S THEN NoFd ELSE sock[c]]
  /\ from' = [c \in Conns |-> IF c \in S THEN None ELSE from[c]]
  /\ file' = [c \in Conns |-> IF c \in S THEN NoFd ELSE file[c]]
  /\ left' = [c \in Conns |-> IF c \in S THEN <<>> ELSE left[c]]
  /\ upg' = [c \in Conns |-> c \notin S /\ upg[c]]
  /\ dead' = [c \in Conns |-> c \notin S /\ dead[c]]
  /\ complete' = [c \in Conns |-> c \notin S /\ complete[c]]

\* The process ends: every thread stops, every descriptor is closed.
Terminate(how) ==
  /\ main' = how
  /\ fdt' = [f \in Fds |-> Free]
  /\ pc' = [c \in Conns |-> IF pc[c] = "unborn" THEN "unborn" ELSE "done"]
  /\ Discard(Conns)
  /\ UNCHANGED <<newFd, newConn, cargs, clobbered, phase, asked, sent>>

Killed == Terminate("killed") /\ UNCHANGED <<peer, inbox>>

-----------------------------------------------------------------------------
(* Clients *)

Talking(c) == ~Down /\ (phase[c] = "queued" \/ Open(c))

Connect(c) ==
  /\ ~Down /\ phase[c] = "new"
  /\ phase' = [phase EXCEPT ![c] = "queued"]
  /\ UNCHANGED <<mainVars, fdt, clientVars, sent, pc, localVars>>

SendMessage(c, k) ==
  /\ Talking(c) /\ peer[c] = "open" /\ asked[c] < MaxReq
  /\ inbox' = [inbox EXCEPT ![c] = Append(@, k)]
  /\ asked' = [asked EXCEPT ![c] = @ + 1]
  /\ UNCHANGED <<mainVars, fdt, phase, peer, sent, pc, localVars>>

Fin(c) ==
  /\ Talking(c) /\ peer[c] = "open"
  /\ peer' = [peer EXCEPT ![c] = "fin"]
  /\ UNCHANGED <<mainVars, fdt, phase, inbox, asked, sent, pc, localVars>>

\* A reset, or a connection that times out.  After a FIN the next recv() still
\* returns 0 and the next send() gets EPIPE.
Reset(c) ==
  /\ Talking(c) /\ peer[c] \in {"open", "fin"}
  /\ peer' = [peer EXCEPT ![c] = IF @ = "open" THEN "rst" ELSE "gone"]
  /\ UNCHANGED <<mainVars, fdt, phase, inbox, asked, sent, pc, localVars>>

-----------------------------------------------------------------------------
(* The main thread: run_serverloop, then the end of main *)

\* Mutant: the next accept() waits for the last worker (pthread_join).
AcceptSerially(c) ==
  /\ main = "accept" /\ phase[c] = "queued"
  /\ \A d \in Conns : pc[d] \in {"unborn", "done"}
  /\ \E f \in FreeFds : fdt' = [fdt EXCEPT ![f] = Sock(c)] /\ newFd' = f
  /\ newConn' = c /\ main' = "store"
  /\ phase' = [phase EXCEPT ![c] = "accepted"]
  /\ UNCHANGED <<cargs, clobbered, clientVars, sent, pc, localVars>>

Accept(c) ==
  /\ main = "accept" /\ phase[c] = "queued"
  /\ \E f \in FreeFds :
       /\ fdt' = [fdt EXCEPT ![f] = Sock(c)]
       /\ newFd' = f
  /\ newConn' = c
  /\ phase' = [phase EXCEPT ![c] = "accepted"]
  /\ main' = "store"
  /\ UNCHANGED <<cargs, clobbered, clientVars, sent, pc, localVars>>

\* run_serverloop returns -1: cargs is gone with its frame.
LoopReturns ==
  /\ main' = "exit"
  /\ clobbered' = (clobbered \/ Unread)
  /\ UNCHANGED <<newFd, newConn, cargs, fdt, phase, clientVars, sent, pc,
                 localVars>>

AcceptEmfile == main = "accept" /\ FreeFds = {} /\ LoopReturns

AcceptError == main = "accept" /\ LoopReturns

Store ==
  /\ main = "store"
  /\ cargs' = newFd
  /\ clobbered' = (clobbered \/ Unread)
  /\ main' = "spawn"
  /\ UNCHANGED <<newFd, newConn, fdt, phase, clientVars, sent, pc, localVars>>

Spawn ==
  /\ main = "spawn"
  /\ pc' = [pc EXCEPT ![newConn] = "entry"]
  /\ main' = "accept"
  /\ UNCHANGED <<newFd, newConn, cargs, clobbered, fdt, phase, clientVars,
                 sent, localVars>>

SpawnError == main = "spawn" /\ LoopReturns

\* close_serversock and the return from main, which ends all threads.
Exit == main = "exit" /\ Terminate("exited") /\ UNCHANGED <<peer, inbox>>

-----------------------------------------------------------------------------
(* A worker: cli_conn *)

\* After run_serverloop has returned, cargs is a slot of a dead frame.
ThreadEntry(c) ==
  /\ pc[c] = "entry"
  /\ \E f \in IF main = "exit" THEN Fds \union {NoFd} ELSE {cargs} :
       sock' = [sock EXCEPT ![c] = f]
  /\ pc' = [pc EXCEPT ![c] = "make"]
  /\ UNCHANGED <<mainVars, fdt, phase, clientVars, sent, from, file, left, upg,
                 dead, complete>>

\* mcr_make_http: a failed allocation gives NULL, or kills the process when it
\* is the context's (used before its check) or a later one (freed twice).
MakeHttp(c) ==
  /\ pc[c] = "make"
  /\ \/ /\ \E next \in {"recv", "close"} : pc' = [pc EXCEPT ![c] = next]
        /\ UNCHANGED <<mainVars, fdt, phase, clientVars, sent, localVars>>
     \/ Killed

RecvCall(c) ==
  /\ pc[c] = "recv" /\ At(sock[c]).kind = "sock"
  /\ from' = [from EXCEPT ![c] = At(sock[c]).conn]
  /\ pc' = [pc EXCEPT ![c] = "wait"]
  /\ UNCHANGED <<mainVars, fdt, phase, clientVars, sent, sock, file, left, upg,
                 dead, complete>>

RecvData(c) ==
  LET d == from[c] IN
  /\ pc[c] = "wait"
  /\ \E n \in 1..Len(inbox[d]) :
       /\ left' = [left EXCEPT ![c] = SubSeq(inbox[d], 1, n)]
       /\ inbox' = [inbox EXCEPT ![d] = SubSeq(@, n + 1, Len(@))]
  /\ pc' = [pc EXCEPT ![c] = "parse"]
  /\ UNCHANGED <<mainVars, fdt, phase, peer, asked, sent, sock, from, file, upg,
                 dead, complete>>

\* What mcr_http_parse returns takes the worker back to recv() (MCR_EAGAIN)
\* or out of the loop (MCR_OK, MCR_ERR).  upgrade is looked at first.
AfterParseKeepsAlive(upgrade, again) == "recv"  \* Mutant: complete_flag ignored

AfterParse(upgrade, again) == IF upgrade \/ again THEN "recv" ELSE "close"

\* Mutant: no bytes parsed is MCR_EAGAIN.
RecvEofAgain(c) ==
  /\ pc[c] = "wait" /\ inbox[from[c]] = <<>>
  /\ peer[from[c]] \in {"fin", "gone"}
  /\ pc' = [pc EXCEPT ![c] = "recv"]
  /\ UNCHANGED <<mainVars, fdt, phase, clientVars, sent, localVars>>

\* End of stream: the parser runs on no bytes.
RecvEof(c) ==
  /\ pc[c] = "wait" /\ inbox[from[c]] = <<>>
  /\ peer[from[c]] \in {"fin", "gone"}
  /\ pc' = [pc EXCEPT ![c] = AfterParse(upg[c], FALSE)]
  /\ UNCHANGED <<mainVars, fdt, phase, clientVars, sent, localVars>>

\* recv() = -1.  recved is a size_t, the test recved < 0 never holds and the
\* parser runs on SIZE_MAX bytes from recv_buf on: bytes of an earlier recv()
\* or of another use of the stack first, then bytes that are no message, or
\* beyond the mapped stack.
ParseStale(c) ==
  \/ /\ \E stale \in {<<"bad">>} \union {<<k, "bad">> : k \in Kinds} :
          left' = [left EXCEPT ![c] = stale]
     /\ pc' = [pc EXCEPT ![c] = "parse"]
     /\ UNCHANGED <<mainVars, fdt, phase, asked, sent, sock, from, file, upg,
                    dead, complete>>
  \/ Terminate("killed")

RecvBadFd(c) ==
  /\ pc[c] = "recv" /\ At(sock[c]).kind # "sock"
  /\ ParseStale(c)
  /\ UNCHANGED <<peer, inbox>>

RecvError(c) ==
  /\ pc[c] = "wait" /\ inbox[from[c]] = <<>> /\ peer[from[c]] = "rst"
  /\ peer' = [peer EXCEPT ![from[c]] = "gone"]
  /\ ParseStale(c)
  /\ UNCHANGED inbox

-----------------------------------------------------------------------------
(* http_parser_execute and the message-complete callback *)

\* parser->upgrade is set when the headers of a message are complete.
UpgradeAfter(k, upgrade) ==
  k \in {"upgrade", "badupgrade"} \/ (k = "bad" /\ upgrade)

ParseReject(c) ==
  LET k == Head(left[c])
      u == IF dead[c] THEN upg[c] ELSE UpgradeAfter(k, upg[c]) IN
  /\ pc[c] = "parse" /\ (dead[c] \/ k \in Rejected)
  /\ dead' = [dead EXCEPT ![c] = TRUE]
  /\ upg' = [upg EXCEPT ![c] = u]
  /\ left' = [left EXCEPT ![c] = <<>>]
  /\ pc' = [pc EXCEPT ![c] = AfterParse(u, FALSE)]
  /\ UNCHANGED <<mainVars, fdt, phase, clientVars, sent, sock, from, file,
                 complete>>

ParseMessage(c) ==
  LET k == Head(left[c]) IN
  /\ pc[c] = "parse" /\ ~dead[c] /\ k \notin Rejected
  /\ upg' = [upg EXCEPT ![c] = UpgradeAfter(k, @)]
  /\ dead' = [dead EXCEPT ![c] = (k = "last")]
  /\ pc' = [pc EXCEPT ![c] = "open"]
  /\ UNCHANGED <<mainVars, fdt, phase, clientVars, sent, sock, from, file, left,
                 complete>>

\* mcr_route: open() the file, or answer 404.
RouteOpen(c) ==
  /\ pc[c] = "open"
  /\ \/ \E f \in FreeFds :
          /\ fdt' = [fdt EXCEPT ![f] = File(c)]
          /\ file' = [file EXCEPT ![c] = f]
          /\ pc' = [pc EXCEPT ![c] = "read"]
     \/ /\ pc' = [pc EXCEPT ![c] = "send"]
        /\ UNCHANGED <<fdt, file>>
  /\ UNCHANGED <<mainVars, phase, clientVars, sent, sock, from, left, upg, dead,
                 complete>>

\* read() and the making of the response; a path without a '.' kills the
\* process in mcr_get_mimetype.  If the descriptor has come to refer to a
\* connection, the body of the response is what that client sent.
RouteRead(c) ==
  LET o == At(file[c]) IN
  /\ pc[c] = "read"
  /\ \/ /\ pc' = [pc EXCEPT ![c] = "shut"]
        /\ IF o.kind = "sock"
           THEN \E n \in 0..Len(inbox[o.conn]) :
                  /\ n = 0 => inbox[o.conn] = <<>> /\ peer[o.conn] # "open"
                  /\ inbox' = [inbox EXCEPT ![o.conn] =
                                            SubSeq(@, n + 1, Len(@))]
                  /\ peer' = [peer EXCEPT ![o.conn] =
                                IF n = 0 /\ @ = "rst" THEN "gone" ELSE @]
           ELSE UNCHANGED <<inbox, peer>>
        /\ UNCHANGED <<mainVars, fdt, phase, asked, sent, localVars>>
     \/ Killed

\* Mutants: "close(fd); goto ok" closes twice; close() of the wrong variable.
RouteCloseTwice(c) ==
  /\ pc[c] = "shut"
  /\ fdt' = Closed(file[c])
  /\ \E next \in {"shut", "send"} : pc' = [pc EXCEPT ![c] = next]
  /\ UNCHANGED <<mainVars, phase, clientVars, sent, localVars>>

RouteCloseSock(c) ==
  /\ pc[c] = "shut"
  /\ fdt' = Closed(sock[c])
  /\ pc' = [pc EXCEPT ![c] = "send"]
  /\ UNCHANGED <<mainVars, phase, clientVars, sent, localVars>>

RouteClose(c) ==
  /\ pc[c] = "shut"
  /\ fdt' = Closed(file[c])
  /\ file' = [file EXCEPT ![c] = NoFd]
  /\ pc' = [pc EXCEPT ![c] = "send"]
  /\ UNCHANGED <<mainVars, phase, clientVars, sent, sock, from, left, upg, dead,
                 complete>>

\* Mutants: the parser is called again when nothing is left, and on the message
\* just answered.
SendOkReparses(c) ==
  LET o == At(sock[c]) IN
  /\ pc[c] = "send" /\ o.kind = "sock" /\ peer[o.conn] \in {"open", "fin"}
  /\ sent' = [sent EXCEPT ![o.conn][from[c]] = @ + 1]
  /\ complete' = [complete EXCEPT ![c] = TRUE]
  /\ left' = [left EXCEPT ![c] = Tail(@)]
  /\ pc' = [pc EXCEPT ![c] = "parse"]
  /\ UNCHANGED <<mainVars, fdt, phase, clientVars, sock, from, file, upg, dead>>

SendOkAgain(c) ==
  LET o == At(sock[c]) IN
  /\ pc[c] = "send" /\ o.kind = "sock" /\ peer[o.conn] \in {"open", "fin"}
  /\ sent[o.conn][from[c]] < 2
  /\ sent' = [sent EXCEPT ![o.conn][from[c]] = @ + 1]
  /\ complete' = [complete EXCEPT ![c] = TRUE]
  /\ pc' = [pc EXCEPT ![c] = "parse"]
  /\ UNCHANGED <<mainVars, fdt, phase, clientVars, sock, from, file, left, upg,
                 dead>>

\* The response is written.  An upgrade ends the parse, whatever follows.
SendOk(c) ==
  LET o == At(sock[c])
      rest == IF upg[c] THEN <<>> ELSE Tail(left[c]) IN
  /\ pc[c] = "send" /\ o.kind = "sock" /\ peer[o.conn] \in {"open", "fin"}
  /\ sent' = [sent EXCEPT ![o.conn][from[c]] = @ + 1]
  /\ complete' = [complete EXCEPT ![c] = TRUE]
  /\ left' = [left EXCEPT ![c] = rest]
  /\ pc' = [pc EXCEPT ![c] = IF rest # <<>> THEN "parse"
                             ELSE AfterParse(upg[c], FALSE)]
  /\ UNCHANGED <<mainVars, fdt, phase, clientVars, sock, from, file, upg, dead>>

\* Mutant: the unparsed bytes survive a failed send().
SendFailKeeps(c) ==
  LET o == At(sock[c]) IN
  /\ pc[c] = "send" /\ o.kind = "sock" /\ peer[o.conn] = "rst"
  /\ peer' = [peer EXCEPT ![o.conn] = "gone"]
  /\ pc' = [pc EXCEPT ![c] = AfterParse(upg[c], TRUE)]
  /\ UNCHANGED <<mainVars, fdt, phase, inbox, asked, sent, localVars>>

\* send() = -1 without a signal: a pending reset, or no socket.  The error is
\* latched in the parser, but mcr_http_parse sees it only if bytes are left.
SendFail(c) ==
  LET o == At(sock[c]) IN
  /\ pc[c] = "send"
  /\ IF o.kind = "sock"
     THEN /\ peer[o.conn] = "rst"
          /\ peer' = [peer EXCEPT ![o.conn] = "gone"]
     ELSE peer' = peer
  /\ dead' = [dead EXCEPT ![c] = TRUE]
  /\ left' = [left EXCEPT ![c] = <<>>]
  /\ pc' = [pc EXCEPT ![c] =
              AfterParse(upg[c], Tail(left[c]) = <<>> /\ ~complete[c])]
  /\ UNCHANGED <<mainVars, fdt, phase, inbox, asked, sent, sock, from, file, upg,
                 complete>>

\* send() raises SIGPIPE, which nobody handles.
SendKilled(c) ==
  LET o == At(sock[c]) IN
  /\ pc[c] = "send" /\ o.kind = "sock" /\ peer[o.conn] = "gone"
  /\ Killed

\* Mutant: the socket is closed twice (by the callback and by cli_conn).
CloseTwice(c) ==
  /\ pc[c] = "close"
  /\ fdt' = Closed(sock[c])
  /\ \E next \in {"close", "done"} : pc' = [pc EXCEPT ![c] = next]
  /\ UNCHANGED <<mainVars, phase, clientVars, sent, localVars>>

Close(c) ==
  /\ pc[c] = "close"
  /\ fdt' = Closed(sock[c])
  /\ pc' = [pc EXCEPT ![c] = "done"]
  /\ Discard({c})
  /\ UNCHANGED <<mainVars, phase, clientVars, sent>>

-----------------------------------------------------------------------------
Client(c) == \/ Connect(c) \/ Fin(c) \/ Reset(c)
             \/ \E k \in Kinds : SendMessage(c, k)

\* The main thread's steps the scheduler owes it: not a failure of accept()
\* that nothing forces.
Main == \/ \E c \in Conns : Accept(c)
        \/ AcceptEmfile \/ Store \/ Spawn \/ SpawnError \/ Exit

Worker(c) ==
  \/ ThreadEntry(c) \/ MakeHttp(c)
  \/ RecvCall(c) \/ RecvData(c) \/ RecvEof(c) \/ RecvBadFd(c) \/ RecvError(c)
  \/ ParseReject(c) \/ ParseMessage(c)
  \/ RouteOpen(c) \/ RouteRead(c) \/ RouteClose(c)
  \/ SendOk(c) \/ SendFail(c) \/ SendKilled(c)
  \/ Close(c)

Next == Main \/ AcceptError \/ \E c \in Conns : Client(c) \/ Worker(c)

Spec == Init /\ [][Next]_vars

\* The kernel runs every thread that can run; clients promise nothing, except
\* that one which keeps its end open lets send() finish.
FairSpec == Spec /\ WF_vars(Main) /\ \A c \in Conns : WF_vars(Worker(c))

-----------------------------------------------------------------------------
(* What the server should guarantee *)

PcTypes == {"unborn", "entry", "make", "recv", "wait", "parse", "open", "read",
            "shut", "send", "close", "done"}

\* Between a recv() and the last send() for what it returned.
Serving(c) == pc[c] \in {"parse", "open", "read", "shut", "send"}

MainTypes ==
  /\ main \in {"accept", "store", "spawn", "exit", "exited", "killed"}
  /\ newFd \in Fds \union {NoFd} /\ cargs \in Fds \union {NoFd}
  /\ newConn \in Conns \union {None}
  /\ clobbered \in BOOLEAN
KernelTypes ==
  /\ fdt \in [Fds -> Objects]
  /\ phase \in [Conns -> {"new", "queued", "accepted"}]
ClientTypes ==
  /\ peer \in [Conns -> {"open", "fin", "rst", "gone"}]
  /\ inbox \in [Conns -> Seq(AllKinds)]
  /\ asked \in [Conns -> Nat]
LocalTypes ==
  /\ sock \in [Conns -> Fds \union {NoFd}]
  /\ from \in [Conns -> Conns \union {None}]
  /\ file \in [Conns -> Fds \union {NoFd}]
  /\ left \in [Conns -> Seq(AllKinds)]
  /\ upg \in [Conns -> BOOLEAN]
  /\ dead \in [Conns -> BOOLEAN]
  /\ complete \in [Conns -> BOOLEAN]
ControlTypes ==
  /\ pc \in [Conns -> PcTypes]
  /\ main \in {"store", "spawn"} => newConn \in Conns
  /\ \A c \in Conns : /\ pc[c] = "wait" => from[c] \in Conns
                      /\ Serving(c) => left[c] # <<>>

\* The variables have their types; a worker that parses has something to parse,
\* one in recv() a connection to wait for.
TypeOK ==
  /\ MainTypes /\ KernelTypes /\ ClientTypes /\ LocalTypes /\ ControlTypes
  /\ sent \in [Conns -> [Conns \union {None} -> Nat]]

\* The worker of c has its argument and has not closed its socket.
Holding(c) == pc[c] \notin {"unborn", "entry", "done"}

\* "kept by thread connections" (README.md): no two threads serve the same
\* descriptor.  cli_conn's read of cargs races with the next accept().
ThreadPerConnection ==
  \A c, d \in Conns : c # d /\ Holding(c) /\ Holding(d) => sock[c] # sock[d]

\* As long as the hand-over of cargs has not gone wrong, the descriptor a
\* worker uses is that of the connection it was made for: close() of one
\* thread never takes it from another (cli_conn, run_serverloop).
OwnSocket ==
  ~clobbered => \A c \in Conns : Holding(c) => At(sock[c]) = Sock(c)

\* Then the file a worker is reading is the one it opened (mcr_route).
OwnFile ==
  ~clobbered => \A c \in Conns :
                  pc[c] \in {"read", "shut"} => At(file[c]) = File(c)

\* Then no descriptor is lost: each one in use has a thread that will close it,
\* on every path out of cli_conn and mcr_route, or is on its way to one.
NoFdLeak ==
  ~clobbered => \A f \in Fds, c \in Conns :
    /\ fdt[f] = Sock(c) => \/ main \in {"store", "spawn", "exit"} /\ newFd = f
                           \/ pc[c] = "entry" /\ cargs = f
                           \/ Holding(c) /\ sock[c] = f
    /\ fdt[f] = File(c) => pc[c] \in {"read", "shut"} /\ file[c] = f

\* Then a client gets responses to its own messages only.
NoCrossTalk ==
  ~clobbered => \A d \in Conns : \A s \in Conns \union {None} :
                  s # d => sent[d][s] = 0

\* Then no message is answered twice, not even when a failed recv() makes the
\* parser run over an old one (the size_t recved of cli_conn).
NoDuplicateResponse == ~clobbered => \A c \in Conns : sent[c][c] <= asked[c]

\* The strengthening of the properties above that every step preserves.
HandOver ==
  /\ \A c \in Conns : pc[c] = "entry" =>
       main \in {"accept", "store"} /\ At(cargs) = Sock(c)
  /\ main \in {"store", "spawn"} =>
       At(newFd) = Sock(newConn) /\ pc[newConn] = "unborn"
  /\ main = "spawn" => cargs = newFd

Table ==
  /\ \A f \in Fds, c \in Conns : fdt[f] = Sock(c) => phase[c] = "accepted"
  /\ \A f, g \in Fds, c \in Conns :
       fdt[f] = Sock(c) /\ fdt[g] = Sock(c) => f = g
  /\ \A c \in Conns : pc[c] # "unborn" => phase[c] = "accepted"

Source == \A c \in Conns : pc[c] = "wait" \/ Serving(c) => from[c] = c

Budget ==
  /\ \A c \in Conns : ~Serving(c) => left[c] = <<>>
  /\ \A c \in Conns : peer[c] # "gone" =>
       sent[c][c] + Len(left[c]) + Len(inbox[c]) <= asked[c]

FdInv   == OwnSocket /\ OwnFile /\ NoFdLeak /\ (~clobbered => HandOver /\ Table)
DataInv == /\ NoCrossTalk /\ NoDuplicateResponse
           /\ ~clobbered => Source /\ Budget

\* The invariant of the proofs: who owns which descriptor (run_serverloop, the
\* way into cli_conn and its close()), whose data a worker holds, and how many
\* responses each client may still get.
Inv == TypeOK /\ FdInv /\ DataInv

\* A worker that has answered goes back to recv() only after an upgrade:
\* complete_flag ends the connection after the first batch of messages.
AnsweredThenCloses ==
  \A c \in Conns : pc[c] \in {"recv", "wait"} /\ complete[c] => upg[c]

\* While the process lives and the hand-over has not gone wrong, only the
\* worker made for a connection closes it.
ClosedByItsWorker ==
  [][\A c \in Conns : Open(c) /\ ~Open(c)' /\ ~clobbered /\ ~Down'
                        => pc[c] = "close" /\ pc'[c] = "done"]_vars

\* The process, seen as a service to isolated connections.
Stage(c) == CASE phase[c] = "new"      -> "idle"
              [] phase[c] = "queued"   -> IF Down THEN "closed" ELSE "pending"
              [] phase[c] = "accepted" -> IF Open(c) THEN "serving" ELSE "closed"

Service == INSTANCE ConnService
             WITH up       <- ~Down,
                  stage    <- [c \in Conns |-> Stage(c)],
                  answered <- [d \in Conns |-> [s \in Conns |-> sent[d][s]]],
                  spoilt   <- clobbered

\* run_serverloop and its workers implement that service until the hand-over
\* of cargs goes wrong.
ImplementsService == Service!Spec

\* As long as the hand-over works, a client that connects is accepted unless
\* the process ends, whatever the clients before it do.
QueuedAccepted == \A c \in Conns : phase[c] = "queued" ~>
                      (phase[c] = "accepted" \/ Down \/ clobbered)

\* Without protocol upgrades, a connection on which a message was sent or
\* whose client has left is closed in the end ("parse ok/error, exit").
ServedAndClosed ==
  \A c \in Conns : (Open(c) /\ (asked[c] > 0 \/ peer[c] # "open")) ~>
                   (~Open(c) \/ clobbered)

\* "parse ok/error, exit" (cli_conn): the worker of a client that has left
\* exits once it has parsed a message.
ParsedThenExits ==
  \A c \in Conns : (complete[c] /\ peer[c] # "open") ~> pc[c] = "done"

=============================================================================
