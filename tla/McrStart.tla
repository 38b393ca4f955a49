------------------------------- MODULE McrStart ------------------------------
(***************************************************************************)
(* The start of the process: main up to run_serverloop, with the           *)
(* configuration reader of McrConfig, the search of open_serversock for an *)
(* address to listen on, and daemon().  What the loop then does is         *)
(* McrServer; here it is one state that ends when accept() fails.          *)
(***************************************************************************)
EXTENDS McrConfig

CONSTANTS MaxArgs,   \* bound on the options of the command line
          MaxAddrs,  \* bound on the addresses getaddrinfo() returns
          Transient  \* whether socket() and listen() may fail

ASSUME StartAssumption == /\ MaxArgs \in Nat /\ MaxAddrs \in Nat \ {0}
                          /\ Transient \in BOOLEAN

VARIABLES step,       \* where main, open_serversock or server_init is
          args,       \* what getopt() has not returned yet
          daemonize,
          addrs,      \* the length of ai_list; 0: there is none
          bindable,   \* the addresses bind() succeeds for
          ai,         \* the address server_init is called for; 0: NULL
          held,       \* server sockets the process has open
          listening,  \* the address the last of them listens on; 0: none
          server_sock,\* whether main has a server socket: "-1", "ok"
          detached,   \* the process runs in "/", its stdio on /dev/null
          exit        \* the value main returned

sockVars  == <<addrs, bindable, ai, held, listening>>
startVars == <<step, args, daemonize, sockVars, server_sock, detached, exit>>

StartInit ==
  /\ Init
  /\ step = "options" /\ args \in UNION {[1..n -> {"c", "d", "h", "?"}] : n \in 0..MaxArgs}
  /\ daemonize = FALSE /\ server_sock = "-1" /\ detached = FALSE /\ exit = "none"
  /\ addrs = 0 /\ bindable \in SUBSET (1..MaxAddrs) /\ ai = 0
  /\ held = 0 /\ listening = 0

Exit(code) == exit' = code /\ step' = "exited"

\* One option.  The file that -c names and the default one are not told apart.
Option ==
  /\ step = "options" /\ args # <<>> /\ args' = Tail(args)
  /\ CASE Head(args) = "h" -> Exit("0") /\ UNCHANGED daemonize
       [] Head(args) = "?" -> Exit("-1") /\ UNCHANGED daemonize
       [] Head(args) = "d" -> daemonize' = TRUE /\ UNCHANGED <<step, exit>>
       [] OTHER            -> UNCHANGED <<daemonize, step, exit>>
  /\ UNCHANGED <<cfgVars, sockVars, server_sock, detached>>

OptionsDone == /\ step = "options" /\ args = <<>> /\ step' = "config"
               /\ UNCHANGED <<cfgVars, sockVars, args, daemonize, server_sock, detached, exit>>

ReadConfig == step = "config" /\ Next /\ UNCHANGED startVars

\* If it returned -1 main says so and goes on.
ConfigRead ==
  /\ step = "config" /\ pc = "done" /\ step' = "resolve"
  /\ UNCHANGED <<cfgVars, sockVars, args, daemonize, server_sock, detached, exit>>

-----------------------------------------------------------------------------
(* open_serversock *)

mainVars == <<cfgVars, args, daemonize, detached>>

\* get_addr4_by_host for config.port, whatever is in it.
Resolve ==
  /\ step = "resolve"
  /\ \/ addrs' \in 1..MaxAddrs /\ ai' = 1 /\ step' = "socket" /\ UNCHANGED exit
     \/ Exit("-1") /\ UNCHANGED <<addrs, ai>>
  /\ UNCHANGED <<mainVars, bindable, held, listening, server_sock>>

\* server_init.  That SO_REUSEADDR cannot be set is only printed.
Socket ==
  /\ step = "socket" /\ held' = held + 1 /\ step' = "bind"
  /\ UNCHANGED <<mainVars, addrs, bindable, ai, listening, server_sock, exit>>

SocketFails ==
  /\ Transient /\ step = "socket" /\ step' = "next"
  /\ UNCHANGED <<mainVars, sockVars, server_sock, exit>>

Bind ==
  /\ step = "bind" /\ ai \in bindable /\ step' = "listen"
  /\ UNCHANGED <<mainVars, sockVars, server_sock, exit>>

Err2 == held' = held - 1 /\ step' = "next"

BindFails ==
  /\ step = "bind" /\ ai \notin bindable /\ Err2
  /\ UNCHANGED <<mainVars, addrs, bindable, ai, listening, server_sock, exit>>

\* The break in the loop of open_serversock, and freeaddrinfo.
Listen ==
  /\ step = "listen" /\ listening' = ai /\ server_sock' = "ok"
  /\ addrs' = 0 /\ ai' = 0 /\ step' = "daemon"
  /\ UNCHANGED <<mainVars, bindable, held, exit>>

\* Mutant: server_init returns the socket whatever listen() says.
ListenFailsUnseen ==
  /\ Transient /\ step = "listen" /\ server_sock' = "ok"
  /\ addrs' = 0 /\ ai' = 0 /\ step' = "daemon"
  /\ UNCHANGED <<mainVars, bindable, held, listening, exit>>

ListenFails ==
  /\ Transient /\ step = "listen" /\ Err2
  /\ UNCHANGED <<mainVars, addrs, bindable, ai, listening, server_sock, exit>>

\* Mutant: the loop asks for the same address again.
NextAddressSame ==
  /\ step = "next" /\ step' = "socket"
  /\ UNCHANGED <<mainVars, sockVars, server_sock, exit>>

\* Mutant: the end of the list is not looked for.
NextAddressPastEnd ==
  /\ step = "next" /\ ai' = ai + 1 /\ step' = "socket"
  /\ UNCHANGED <<mainVars, addrs, bindable, held, listening, server_sock, exit>>

\* ai = ai_list->ai_next: of the first address, not of this one.  Without a next
\* address the list is freed and main returns.
NextAddress ==
  /\ step = "next"
  /\ \/ addrs > 1 /\ ai' = 2 /\ step' = "socket" /\ UNCHANGED <<addrs, exit>>
     \/ addrs = 1 /\ ai' = 0 /\ addrs' = 0 /\ Exit("-1")
  /\ UNCHANGED <<mainVars, bindable, held, listening, server_sock>>

-----------------------------------------------------------------------------
\* daemon(0, 0), if asked for; its result is not looked at.
Daemon ==
  /\ step = "daemon" /\ step' = "serving"
  /\ detached' \in IF daemonize THEN BOOLEAN ELSE {FALSE}
  /\ UNCHANGED <<cfgVars, sockVars, args, daemonize, server_sock, exit>>

\* run_serverloop returns; close_serversock.
LoopEnds ==
  /\ step = "serving" /\ held' = held - 1 /\ listening' = 0 /\ Exit("-1")
  /\ UNCHANGED <<mainVars, addrs, bindable, ai, server_sock>>

OpenServersock == \/ Resolve \/ Socket \/ SocketFails \/ Bind \/ BindFails
                  \/ Listen \/ ListenFails \/ NextAddress

StartNext == \/ Option \/ OptionsDone \/ ReadConfig \/ ConfigRead
             \/ OpenServersock \/ Daemon \/ LoopEnds

StartSpec == StartInit /\ [][StartNext]_<<cfgVars, startVars>>

\* main runs on until it serves; nothing makes accept() fail.
FairStartSpec == StartSpec /\ WF_<<cfgVars, startVars>>(StartNext /\ ~LoopEnds)

-----------------------------------------------------------------------------
\* The address and the sockets exist, and the reader's variables have their types.
StartTypeOK ==
  /\ TypeOK
  /\ step \in {"options", "config", "resolve", "socket", "bind", "listen", "next",
               "daemon", "serving", "exited"}
  /\ args \in Seq({"c", "d", "h", "?"}) /\ daemonize \in BOOLEAN /\ detached \in BOOLEAN
  /\ addrs \in 0..MaxAddrs /\ ai \in 0..addrs /\ bindable \subseteq 1..MaxAddrs
  /\ held \in Nat /\ listening \in 0..MaxAddrs
  /\ server_sock \in {"-1", "ok"} /\ exit \in {"none", "0", "-1"}

\* Each address that was tried and given up has closed its socket: there is never
\* more than one, exactly one while the process serves and none when main returns.
OneServerSocket ==
  held = IF step \in {"bind", "listen", "daemon", "serving"} THEN 1 ELSE 0

\* The sockets are as OneServerSocket says, and
\* what is handed to run_serverloop listens, on an address that could be bound;
\* nothing of the address list or of the configuration file is still held.
ServesBound ==
  /\ OneServerSocket
  /\ step = "serving" =>
       /\ listening \in bindable /\ server_sock = "ok" /\ ai = 0 /\ addrs = 0
       /\ fd = "closed" /\ list # "held" /\ iter # "held"

\* main comes to its loop, returns, or crashes in the reader.  Only the second of
\* several addresses may be tried again and again; that it is, where a third could
\* be tried or the search given up, is not required.
Starts == \/ <>(step \in {"serving", "exited"} \/ pc = "crashed")
          \/ []<>(step = "next" /\ ai = 2)

=============================================================================
