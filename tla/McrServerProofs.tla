--------------------------- MODULE McrServerProofs ---------------------------
(* Theorems about McrServer, for every set of connections and descriptors. *)
EXTENDS McrServer, SequenceTheorems, TLAPS

\* The message kinds a worker may find in its buffer.
LEMMA StaleKinds == \A k \in Kinds : k \in AllKinds
BY KindsAssumption

\* A descriptor that refers to a connection refers to one of Conns.
LEMMA AtTypes ==
  ASSUME KernelTypes, NEW f
  PROVE  /\ At(f) \in Objects
         /\ At(f).kind = "sock" => At(f).conn \in Conns /\ At(f) = Sock(At(f).conn)
BY DEF KernelTypes, At, Objects, Free, Sock, File

\* A group of variables that a step leaves alone keeps its types.
LEMMA SameTypes ==
  /\ MainTypes /\ UNCHANGED mainVars => MainTypes'
  /\ KernelTypes /\ UNCHANGED <<fdt, phase>> => KernelTypes'
  /\ ClientTypes /\ UNCHANGED clientVars => ClientTypes'
  /\ LocalTypes /\ UNCHANGED localVars => LocalTypes'
  /\ ControlTypes /\ UNCHANGED <<mainVars, pc, localVars>> => ControlTypes'
BY DEF MainTypes, KernelTypes, ClientTypes, LocalTypes, ControlTypes, Serving,
       mainVars, clientVars, localVars

\* The first n elements of a sequence and the rest of it.
LEMMA SplitSeq ==
  ASSUME NEW T, NEW s \in Seq(T), NEW n \in 1..Len(s)
  PROVE  /\ SubSeq(s, 1, n) \in Seq(T) /\ Len(SubSeq(s, 1, n)) = n
         /\ SubSeq(s, 1, n) # <<>>
         /\ SubSeq(s, n + 1, Len(s)) \in Seq(T)
         /\ Len(SubSeq(s, n + 1, Len(s))) = Len(s) - n
<1>1. Len(s) \in Nat
  BY LenProperties
<1>2. SubSeq(s, 1, n) \in Seq(T) /\ Len(SubSeq(s, 1, n)) = n
  BY <1>1, SubSeqProperties
<1>3. /\ SubSeq(s, n + 1, Len(s)) \in Seq(T)
      /\ Len(SubSeq(s, n + 1, Len(s))) = Len(s) - n
  BY <1>1, SubSeqProperties
<1> QED
  BY <1>2, <1>3, EmptySeq

LEMMA UpgradeType ==
  ASSUME NEW k, NEW u \in BOOLEAN
  PROVE  UpgradeAfter(k, u) \in BOOLEAN
BY DEF UpgradeAfter

LEMMA InitTypeOK == Init => TypeOK
<1> SUFFICES ASSUME Init PROVE TypeOK
  OBVIOUS
<1>1. MainTypes
  BY DEF Init, MainTypes
<1>2. KernelTypes
  BY DEF Init, KernelTypes, Objects
<1>3. ClientTypes
  BY DEF Init, ClientTypes
<1>4. LocalTypes
  BY DEF Init, LocalTypes
<1>5. ControlTypes
  BY DEF Init, ControlTypes, PcTypes, Serving
<1>6. sent \in [Conns -> [Conns \union {None} -> Nat]]
  BY DEF Init
<1> QED
  BY <1>1, <1>2, <1>3, <1>4, <1>5, <1>6 DEF TypeOK

\* Giving back the memory of some workers leaves their variables typed.
LEMMA DiscardTypes ==
  ASSUME LocalTypes, NEW S, Discard(S)
  PROVE  LocalTypes'
<1>1. /\ sock' \in [Conns -> Fds \union {NoFd}]
      /\ file' \in [Conns -> Fds \union {NoFd}]
  BY DEF LocalTypes, Discard
<1>2. from' \in [Conns -> Conns \union {None}]
  BY DEF LocalTypes, Discard
<1>3. left' \in [Conns -> Seq(AllKinds)]
  BY DEF LocalTypes, Discard
<1>4. upg' \in [Conns -> BOOLEAN] /\ dead' \in [Conns -> BOOLEAN]
  BY DEF LocalTypes, Discard
<1>5. complete' \in [Conns -> BOOLEAN]
  BY DEF LocalTypes, Discard
<1> QED
  BY <1>1, <1>2, <1>3, <1>4, <1>5 DEF LocalTypes

\* The end of the process leaves every variable in its type.
LEMMA TerminateTypeOK ==
  ASSUME TypeOK, NEW how \in {"exited", "killed"}, Terminate(how), ClientTypes'
  PROVE  TypeOK'
<1>1. MainTypes'
  BY DEF TypeOK, MainTypes, Terminate
<1>2. KernelTypes'
  BY DEF TypeOK, KernelTypes, Terminate, Objects
<1>3. LocalTypes'
  BY DiscardTypes DEF TypeOK, Terminate
<1>4. ControlTypes'
  <2>1. \A c \in Conns : pc'[c] \in {"unborn", "done"}
    BY DEF TypeOK, ControlTypes, Terminate
  <2>2. pc' \in [Conns -> PcTypes]
    BY DEF TypeOK, ControlTypes, Terminate, PcTypes
  <2> QED
    BY <2>1, <2>2 DEF Terminate, ControlTypes, Serving
<1> QED
  BY <1>1, <1>2, <1>3, <1>4 DEF TypeOK, Terminate

\* Every step leaves every variable in its type.
LEMMA NextTypeOK ==
  ASSUME TypeOK, [Next]_vars
  PROVE  TypeOK'
<1> USE DEF TypeOK
<1>1. ASSUME NEW c \in Conns, Connect(c) PROVE TypeOK'
  <2>1. KernelTypes'
    BY <1>1 DEF Connect, KernelTypes
  <2> QED
    BY <1>1, <2>1, SameTypes DEF Connect
<1>2. ASSUME NEW c \in Conns, NEW k \in Kinds, SendMessage(c, k) PROVE TypeOK'
  <2>1. ClientTypes'
    BY <1>2, StaleKinds DEF SendMessage, ClientTypes
  <2> QED
    BY <1>2, <2>1, SameTypes DEF SendMessage
<1>3. ASSUME NEW c \in Conns, Fin(c) PROVE TypeOK'
  <2>1. ClientTypes'
    BY <1>3 DEF Fin, ClientTypes
  <2> QED
    BY <1>3, <2>1, SameTypes DEF Fin
<1>4. ASSUME NEW c \in Conns, Reset(c) PROVE TypeOK'
  <2>1. ClientTypes'
    BY <1>4 DEF Reset, ClientTypes
  <2> QED
    BY <1>4, <2>1, SameTypes DEF Reset
<1>5. ASSUME NEW c \in Conns, Accept(c) PROVE TypeOK'
  <2>1. MainTypes'
    BY <1>5 DEF Accept, MainTypes, FreeFds
  <2>2. KernelTypes'
    BY <1>5 DEF Accept, KernelTypes, FreeFds, Objects
  <2>3. ControlTypes'
    BY <1>5 DEF Accept, ControlTypes, Serving, localVars
  <2> QED
    BY <1>5, <2>1, <2>2, <2>3, SameTypes DEF Accept
<1>6. ASSUME LoopReturns PROVE TypeOK'
  <2>1. MainTypes'
    BY <1>6 DEF LoopReturns, MainTypes, Unread
  <2>2. ControlTypes'
    BY <1>6 DEF LoopReturns, ControlTypes, Serving, localVars
  <2> QED
    BY <1>6, <2>1, <2>2, SameTypes DEF LoopReturns
<1>7. ASSUME Store PROVE TypeOK'
  <2>1. MainTypes'
    BY <1>7 DEF Store, MainTypes, Unread
  <2>2. ControlTypes'
    BY <1>7 DEF Store, ControlTypes, Serving, localVars
  <2> QED
    BY <1>7, <2>1, <2>2, SameTypes DEF Store
<1>8. ASSUME Spawn PROVE TypeOK'
  <2>1. MainTypes'
    BY <1>8 DEF Spawn, MainTypes
  <2>2. ControlTypes'
    BY <1>8 DEF Spawn, ControlTypes, Serving, PcTypes, localVars
  <2> QED
    BY <1>8, <2>1, <2>2, SameTypes DEF Spawn
<1>9. ASSUME NEW c \in Conns, ThreadEntry(c) PROVE TypeOK'
  <2>1. LocalTypes'
    BY <1>9 DEF ThreadEntry, LocalTypes, MainTypes
  <2>2. ControlTypes'
    BY <1>9 DEF ThreadEntry, ControlTypes, Serving, PcTypes, mainVars
  <2> QED
    BY <1>9, <2>1, <2>2, SameTypes DEF ThreadEntry
<1>10. ASSUME NEW c \in Conns, RecvCall(c) PROVE TypeOK'
  <2>1. LocalTypes'
    BY <1>10, AtTypes DEF RecvCall, LocalTypes, KernelTypes
  <2>2. ControlTypes'
    BY <1>10, AtTypes DEF RecvCall, ControlTypes, LocalTypes, Serving, PcTypes, mainVars
  <2> QED
    BY <1>10, <2>1, <2>2, SameTypes DEF RecvCall
<1>11. ASSUME NEW c \in Conns, RecvData(c) PROVE TypeOK'
  <2>1. from[c] \in Conns /\ inbox[from[c]] \in Seq(AllKinds)
    BY <1>11 DEF RecvData, ControlTypes, ClientTypes
  <2>2. PICK n \in 1..Len(inbox[from[c]]) :
          /\ left' = [left EXCEPT ![c] = SubSeq(inbox[from[c]], 1, n)]
          /\ inbox' = [inbox EXCEPT ![from[c]] =
                          SubSeq(inbox[from[c]], n + 1, Len(inbox[from[c]]))]
    BY <1>11 DEF RecvData
  <2>3. ClientTypes'
    BY <1>11, <2>1, <2>2, SplitSeq DEF RecvData, ClientTypes
  <2>4. LocalTypes'
    BY <1>11, <2>1, <2>2, SplitSeq DEF RecvData, LocalTypes
  <2>5. SubSeq(inbox[from[c]], 1, n) # <<>>
    BY <2>1, SplitSeq
  <2>6. ControlTypes'
    BY <1>11, <2>2, <2>5
       DEF RecvData, ControlTypes, Serving, PcTypes, LocalTypes, mainVars
  <2> QED
    BY <1>11, <2>3, <2>4, <2>6, SameTypes DEF RecvData
<1>12. ASSUME NEW c \in Conns, RecvEof(c) PROVE TypeOK'
  <2>1. ControlTypes'
    BY <1>12 DEF RecvEof, ControlTypes, AfterParse, Serving, PcTypes, mainVars, localVars
  <2> QED
    BY <1>12, <2>1, SameTypes DEF RecvEof
<1>13. ASSUME NEW c \in Conns, ParseReject(c) PROVE TypeOK'
  <2>1. PICK u \in BOOLEAN : upg' = [upg EXCEPT ![c] = u]
                            /\ pc' = [pc EXCEPT ![c] = AfterParse(u, FALSE)]
    <3>1. upg[c] \in BOOLEAN
      BY DEF LocalTypes
    <3> QED
      BY <1>13, <3>1, UpgradeType DEF ParseReject
  <2>2. LocalTypes'
    BY <1>13, <2>1 DEF ParseReject, LocalTypes
  <2>3. ControlTypes'
    BY <1>13, <2>1
       DEF ParseReject, ControlTypes, AfterParse, Serving, PcTypes, mainVars
  <2> QED
    BY <1>13, <2>2, <2>3, SameTypes DEF ParseReject
<1>14. ASSUME NEW c \in Conns, ParseMessage(c) PROVE TypeOK'
  <2>1. PICK u, v \in BOOLEAN : upg' = [upg EXCEPT ![c] = u]
                               /\ dead' = [dead EXCEPT ![c] = v]
    <3>1. upg[c] \in BOOLEAN /\ (Head(left[c]) = "last") \in BOOLEAN
      BY DEF LocalTypes
    <3> QED
      BY <1>14, <3>1, UpgradeType DEF ParseMessage
  <2>2. LocalTypes'
    BY <1>14, <2>1 DEF ParseMessage, LocalTypes
  <2>3. ControlTypes'
    BY <1>14 DEF ParseMessage, ControlTypes, Serving, PcTypes, mainVars
  <2> QED
    BY <1>14, <2>2, <2>3, SameTypes DEF ParseMessage
<1>15. ASSUME NEW c \in Conns, RouteOpen(c) PROVE TypeOK'
  <2>1. KernelTypes'
    BY <1>15 DEF RouteOpen, KernelTypes, FreeFds, Objects
  <2>2. LocalTypes'
    BY <1>15 DEF RouteOpen, LocalTypes, FreeFds
  <2>3. ControlTypes'
    BY <1>15 DEF RouteOpen, ControlTypes, Serving, PcTypes, mainVars
  <2> QED
    BY <1>15, <2>1, <2>2, <2>3, SameTypes DEF RouteOpen
<1>16. ASSUME NEW c \in Conns, RouteClose(c) PROVE TypeOK'
  <2>1. KernelTypes'
    BY <1>16 DEF RouteClose, KernelTypes, Closed, Objects
  <2>2. LocalTypes'
    BY <1>16 DEF RouteClose, LocalTypes
  <2>3. ControlTypes'
    BY <1>16 DEF RouteClose, ControlTypes, Serving, PcTypes, mainVars
  <2> QED
    BY <1>16, <2>1, <2>2, <2>3, SameTypes DEF RouteClose
<1>17. ASSUME NEW c \in Conns, SendOk(c) PROVE TypeOK'
  <2>1. LocalTypes'
    BY <1>17, AtTypes DEF SendOk, LocalTypes, ControlTypes, Serving
  <2>2. ControlTypes'
    BY <1>17, AtTypes DEF SendOk, ControlTypes, AfterParse, LocalTypes, Serving, PcTypes, mainVars
  <2>3. sent' \in [Conns -> [Conns \union {None} -> Nat]]
    <3>1. At(sock[c]).conn \in Conns /\ from[c] \in Conns \union {None}
      BY <1>17, AtTypes DEF SendOk, LocalTypes
    <3>2. sent' = [sent EXCEPT ![At(sock[c]).conn][from[c]] = @ + 1]
      BY <1>17 DEF SendOk
    <3>3. sent[At(sock[c]).conn][from[c]] \in Nat
      BY <3>1
    <3>4. [sent[At(sock[c]).conn] EXCEPT ![from[c]] = @ + 1]
            \in [Conns \union {None} -> Nat]
      BY <3>1, <3>3
    <3> QED
      BY <3>1, <3>2, <3>4
  <2> QED
    BY <1>17, <2>1, <2>2, <2>3, SameTypes DEF SendOk
<1>18. ASSUME NEW c \in Conns, SendFail(c) PROVE TypeOK'
  <2>1. ClientTypes'
    BY <1>18, AtTypes DEF SendFail, ClientTypes, KernelTypes
  <2>2. LocalTypes'
    BY <1>18, AtTypes DEF SendFail, LocalTypes
  <2>3. ControlTypes'
    BY <1>18, AtTypes DEF SendFail, ControlTypes, AfterParse, Serving, PcTypes, mainVars
  <2> QED
    BY <1>18, <2>1, <2>2, <2>3, SameTypes DEF SendFail
<1>19. ASSUME Exit \/ Killed PROVE TypeOK'
  <2>1. ClientTypes'
    BY <1>19 DEF Exit, Killed, Terminate, ClientTypes
  <2> QED
    BY <1>19, <2>1, TerminateTypeOK DEF Exit, Killed
<1>20. ASSUME NEW c \in Conns, MakeHttp(c) PROVE TypeOK'
  <2>1. CASE Killed
    BY <2>1, <1>19
  <2>2. CASE ~Killed
    <3>1. PICK next \in {"recv", "close"} : pc' = [pc EXCEPT ![c] = next]
      BY <1>20, <2>2 DEF MakeHttp
    <3>2. ControlTypes'
      BY <1>20, <2>2, <3>1
         DEF MakeHttp, ControlTypes, Serving, PcTypes, mainVars, localVars
    <3> QED
      BY <1>20, <2>2, <3>2, SameTypes DEF MakeHttp
  <2> QED
    BY <2>1, <2>2
<1>21. ASSUME NEW c \in Conns, ParseStale(c), ClientTypes' PROVE TypeOK'
  <2>1. CASE Terminate("killed")
    BY <1>21, <2>1, TerminateTypeOK
  <2>2. CASE ~Terminate("killed")
    <3>1. PICK stale \in {<<"bad">>} \union {<<k, "bad">> : k \in Kinds} :
            left' = [left EXCEPT ![c] = stale]
      BY <1>21, <2>2 DEF ParseStale
    <3>2. stale \in Seq(AllKinds) /\ stale # <<>>
      <4>1. "bad" \in AllKinds
        BY DEF AllKinds
      <4>2. CASE stale = <<"bad">>
        BY <4>1, <4>2
      <4>3. CASE \E k \in Kinds : stale = <<k, "bad">>
        BY <4>1, <4>3, StaleKinds
      <4> QED
        BY <4>2, <4>3
    <3>3. LocalTypes'
      BY <1>21, <2>2, <3>1, <3>2 DEF ParseStale, LocalTypes
    <3>4. ControlTypes'
      <4>1. /\ pc' = [pc EXCEPT ![c] = "parse"]
            /\ UNCHANGED <<mainVars, from>>
        BY <1>21, <2>2 DEF ParseStale
      <4>2. \A d \in Conns : d # c => left'[d] = left[d]
        BY <3>1 DEF LocalTypes
      <4>3. left'[c] # <<>>
        BY <3>1, <3>2 DEF LocalTypes
      <4> QED
        BY <4>1, <4>2, <4>3 DEF ControlTypes, Serving, PcTypes, mainVars
    <3> QED
      BY <1>21, <2>2, <3>3, <3>4, SameTypes DEF ParseStale
  <2> QED
    BY <2>1, <2>2
<1>22. ASSUME NEW c \in Conns, RecvBadFd(c) PROVE TypeOK'
  <2>1. ClientTypes'
    BY <1>22 DEF RecvBadFd, ParseStale, Terminate, ClientTypes
  <2> QED
    BY <1>21, <1>22, <2>1 DEF RecvBadFd
<1>23. ASSUME NEW c \in Conns, RecvError(c) PROVE TypeOK'
  <2>1. ClientTypes'
    BY <1>23 DEF RecvError, ParseStale, Terminate, ClientTypes
  <2> QED
    BY <1>21, <1>23, <2>1 DEF RecvError
<1>24. ASSUME NEW c \in Conns, RouteRead(c) PROVE TypeOK'
  <2>1. CASE Killed
    BY <2>1, <1>19
  <2>2. CASE ~Killed
    <3>1. ClientTypes'
      <4>1. CASE At(file[c]).kind # "sock"
        BY <1>24, <2>2, <4>1 DEF RouteRead, ClientTypes
      <4>2. CASE At(file[c]).kind = "sock"
        <5> DEFINE d == At(file[c]).conn
        <5>1. d \in Conns /\ inbox[d] \in Seq(AllKinds)
          BY <4>2, AtTypes DEF ClientTypes
        <5>2. PICK n \in 0..Len(inbox[d]) :
                /\ inbox' = [inbox EXCEPT ![d] =
                               SubSeq(inbox[d], n + 1, Len(inbox[d]))]
                /\ peer' = [peer EXCEPT ![d] =
                              IF n = 0 /\ @ = "rst" THEN "gone" ELSE @]
          BY <1>24, <2>2, <4>2 DEF RouteRead
        <5>3. SubSeq(inbox[d], n + 1, Len(inbox[d])) \in Seq(AllKinds)
          BY <5>1, <5>2, LenProperties, SubSeqProperties
        <5> QED
          BY <1>24, <2>2, <5>1, <5>2, <5>3 DEF RouteRead, ClientTypes
      <4> QED
        BY <4>1, <4>2
    <3>2. ControlTypes'
      BY <1>24, <2>2 DEF RouteRead, ControlTypes, Serving, PcTypes, mainVars, localVars
    <3> QED
      BY <1>24, <2>2, <3>1, <3>2, SameTypes DEF RouteRead
  <2> QED
    BY <2>1, <2>2
<1>25. ASSUME NEW c \in Conns, Close(c) PROVE TypeOK'
  <2>1. KernelTypes'
    BY <1>25 DEF Close, KernelTypes, Closed, Objects
  <2>2. LocalTypes'
    BY <1>25, DiscardTypes DEF Close
  <2>3. ControlTypes'
    BY <1>25 DEF Close, Discard, ControlTypes, Serving, PcTypes, mainVars
  <2> QED
    BY <1>25, <2>1, <2>2, <2>3, SameTypes DEF Close
<1>26. ASSUME UNCHANGED vars PROVE TypeOK'
  BY <1>26, SameTypes DEF vars, mainVars, localVars
<1> QED
  BY <1>1, <1>2, <1>3, <1>4, <1>5, <1>6, <1>7, <1>8, <1>9, <1>10, <1>11, <1>12,
     <1>13, <1>14, <1>15, <1>16, <1>17, <1>18, <1>19, <1>20, <1>22, <1>23,
     <1>24, <1>25, <1>26
     DEF Next, Main, Client, Worker, AcceptEmfile, AcceptError, SpawnError,
         SendKilled

\* Type correctness, for any connections, descriptors and message bound.
THEOREM TypeCorrect == Spec => []TypeOK
<1>1. Init => TypeOK
  BY InitTypeOK
<1>2. TypeOK /\ [Next]_vars => TypeOK'
  BY NextTypeOK
<1> QED
  BY <1>1, <1>2, PTL DEF Spec

-----------------------------------------------------------------------------
(* Descriptors *)

\* What a descriptor refers to tells its kind and its owner.
LEMMA ObjectsDiffer ==
  \A c, d \in Conns : /\ Sock(c) # File(d) /\ Sock(c) # Free /\ File(c) # Free
                      /\ Sock(c) = Sock(d) => c = d
                      /\ File(c) = File(d) => c = d
BY DEF Sock, File, Free

\* Only a number in the table refers to a connection or to a file.
LEMMA AtObject ==
  \A c \in Conns : \A f :
    /\ At(f) = Sock(c) <=> f \in Fds /\ fdt[f] = Sock(c)
    /\ At(f) = File(c) <=> f \in Fds /\ fdt[f] = File(c)
    /\ At(f)' = Sock(c) <=> f \in Fds /\ fdt'[f] = Sock(c)
    /\ At(f)' = File(c) <=> f \in Fds /\ fdt'[f] = File(c)
BY DEF At, Sock, File, Free

LEMMA InitFdInv == Init => FdInv
BY NoFdAssumption
   DEF Init, FdInv, OwnSocket, OwnFile, NoFdLeak, HandOver, Table, Holding, At,
       Free, Sock, File

LEMMA TerminateFdInv ==
  ASSUME TypeOK, FdInv, NEW how \in {"exited", "killed"}, Terminate(how)
  PROVE  FdInv'
<1>1. \A c \in Conns : pc'[c] \in {"unborn", "done"} /\ (pc'[c] = "done" => pc[c] # "unborn")
  BY DEF TypeOK, ControlTypes, PcTypes, Terminate
<1>2. \A f \in Fds : fdt'[f] = Free
  BY DEF Terminate
<1> QED
  BY <1>1, <1>2
     DEF Terminate, FdInv, OwnSocket, OwnFile, NoFdLeak, HandOver, Table, Holding,
         At, Free, Sock, File

\* The steps of a worker between mcr_make_http and close() that touch neither
\* the descriptor table nor the variables that hold descriptors.
Inner == {"make", "recv", "wait", "parse", "open", "send", "close"}

InnerMove(c) ==
  /\ pc[c] \in Inner
  /\ \E next \in Inner : pc' = [pc EXCEPT ![c] = next]
  /\ UNCHANGED <<mainVars, fdt, phase, sock, file>>

LEMMA InnerMoveFdInv ==
  ASSUME TypeOK, FdInv, NEW c \in Conns, InnerMove(c)
  PROVE  FdInv'
<1> USE DEF InnerMove, Inner, TypeOK, ControlTypes, FdInv, mainVars
<1>1. OwnSocket' /\ OwnFile'
  BY DEF OwnSocket, OwnFile, Holding, At
<1>2. NoFdLeak'
  BY DEF NoFdLeak, Holding
<1>3. clobbered' \/ (HandOver' /\ Table')
  BY DEF HandOver, Table, At
<1> QED
  BY <1>1, <1>2, <1>3

\* Every step keeps the ownership of descriptors.
LEMMA NextFdInv ==
  ASSUME TypeOK, FdInv, [Next]_vars
  PROVE  FdInv'
<1> USE DEF TypeOK, MainTypes, KernelTypes, LocalTypes, ControlTypes, FdInv
<1>1. ASSUME NEW c \in Conns, Connect(c) PROVE FdInv'
  <2>1. CASE clobbered'
    BY <2>1 DEF OwnSocket, OwnFile, NoFdLeak
  <2>2. CASE ~clobbered'
    <3>0. ~clobbered
      BY <1>1, <2>2 DEF Connect, mainVars
    <3>1. OwnSocket'
      BY <1>1, <3>0, ObjectsDiffer, AtObject DEF Connect, OwnSocket, Holding, localVars
    <3>2. OwnFile'
      BY <1>1, <3>0, ObjectsDiffer, AtObject DEF Connect, OwnFile, localVars
    <3>3. NoFdLeak'
      BY <1>1, <3>0, ObjectsDiffer, AtObject DEF Connect, NoFdLeak, Holding, mainVars, localVars
    <3>4. HandOver'
      BY <1>1, <3>0, <2>2, ObjectsDiffer, AtObject DEF Connect, HandOver, mainVars
    <3>5. Table'
      BY <1>1, <3>0, ObjectsDiffer, AtObject DEF Connect, Table
    <3> QED
      BY <3>1, <3>2, <3>3, <3>4, <3>5
  <2> QED
    BY <2>1, <2>2
<1>2. ASSUME NEW c \in Conns, Accept(c) PROVE FdInv'
  <2>1. CASE clobbered'
    BY <2>1 DEF OwnSocket, OwnFile, NoFdLeak
  <2>2. CASE ~clobbered'
    <3>0. ~clobbered
      BY <1>2, <2>2 DEF Accept
    <3>1. OwnSocket'
      BY <1>2, <3>0, ObjectsDiffer, AtObject DEF Accept, OwnSocket, Holding, FreeFds, localVars
    <3>2. OwnFile'
      BY <1>2, <3>0, ObjectsDiffer, AtObject DEF Accept, OwnFile, FreeFds, localVars
    <3>3. NoFdLeak'
      BY <1>2, <3>0, ObjectsDiffer, AtObject DEF Accept, NoFdLeak, Holding, HandOver, Table, FreeFds, localVars
    <3>4. HandOver'
      BY <1>2, <3>0, <2>2, ObjectsDiffer, AtObject DEF Accept, HandOver, Table, FreeFds
    <3>5. Table'
      BY <1>2, <3>0, ObjectsDiffer, AtObject DEF Accept, Table, FreeFds
    <3> QED
      BY <3>1, <3>2, <3>3, <3>4, <3>5
  <2> QED
    BY <2>1, <2>2
<1>3. ASSUME LoopReturns PROVE FdInv'
  <2>1. CASE clobbered'
    BY <2>1 DEF OwnSocket, OwnFile, NoFdLeak
  <2>2. CASE ~clobbered'
    <3>0. ~clobbered
      BY <1>3, <2>2 DEF LoopReturns
    <3>1. OwnSocket'
      BY <1>3, <3>0, ObjectsDiffer, AtObject DEF LoopReturns, OwnSocket, Holding, localVars
    <3>2. OwnFile'
      BY <1>3, <3>0, ObjectsDiffer, AtObject DEF LoopReturns, OwnFile, localVars
    <3>3. NoFdLeak'
      BY <1>3, <3>0, ObjectsDiffer, AtObject DEF LoopReturns, NoFdLeak, Holding, localVars
    <3>4. HandOver'
      BY <1>3, <3>0, <2>2, ObjectsDiffer, AtObject DEF LoopReturns, HandOver, Unread
    <3>5. Table'
      BY <1>3, <3>0, ObjectsDiffer, AtObject DEF LoopReturns, Table
    <3> QED
      BY <3>1, <3>2, <3>3, <3>4, <3>5
  <2> QED
    BY <2>1, <2>2
<1>4. ASSUME Store PROVE FdInv'
  <2>1. CASE clobbered'
    BY <2>1 DEF OwnSocket, OwnFile, NoFdLeak
  <2>2. CASE ~clobbered'
    <3>0. ~clobbered
      BY <1>4, <2>2 DEF Store
    <3>1. OwnSocket'
      BY <1>4, <3>0, ObjectsDiffer, AtObject DEF Store, OwnSocket, Holding, localVars
    <3>2. OwnFile'
      BY <1>4, <3>0, ObjectsDiffer, AtObject DEF Store, OwnFile, localVars
    <3>3. NoFdLeak'
      BY <1>4, <3>0, <2>2, ObjectsDiffer DEF Store, NoFdLeak, Holding, HandOver, Unread, localVars
    <3>4. HandOver'
      BY <1>4, <3>0, <2>2, ObjectsDiffer, AtObject DEF Store, HandOver, Unread
    <3>5. Table'
      BY <1>4, <3>0, ObjectsDiffer, AtObject DEF Store, Table
    <3> QED
      BY <3>1, <3>2, <3>3, <3>4, <3>5
  <2> QED
    BY <2>1, <2>2
<1>5. ASSUME Spawn PROVE FdInv'
  <2>1. CASE clobbered'
    BY <2>1 DEF OwnSocket, OwnFile, NoFdLeak
  <2>2. CASE ~clobbered'
    <3>0. ~clobbered
      BY <1>5, <2>2 DEF Spawn
    <3>1. OwnSocket'
      BY <1>5, <3>0, ObjectsDiffer, AtObject DEF Spawn, OwnSocket, Holding, HandOver, localVars
    <3>2. OwnFile'
      BY <1>5, <3>0, ObjectsDiffer, AtObject DEF Spawn, OwnFile, localVars
    <3>3. NoFdLeak'
      BY <1>5, <3>0, ObjectsDiffer, AtObject DEF Spawn, NoFdLeak, Holding, HandOver, localVars
    <3>4. HandOver'
      BY <1>5, <3>0, <2>2, ObjectsDiffer, AtObject DEF Spawn, HandOver
    <3>5. Table'
      BY <1>5, <3>0, ObjectsDiffer, AtObject DEF Spawn, Table, HandOver
    <3> QED
      BY <3>1, <3>2, <3>3, <3>4, <3>5
  <2> QED
    BY <2>1, <2>2
<1>6. ASSUME NEW c \in Conns, ThreadEntry(c) PROVE FdInv'
  <2>1. CASE clobbered'
    BY <2>1 DEF OwnSocket, OwnFile, NoFdLeak
  <2>2. CASE ~clobbered'
    <3>0. ~clobbered
      BY <1>6, <2>2 DEF ThreadEntry, mainVars
    <3>1. OwnSocket'
      BY <1>6, <3>0, ObjectsDiffer, AtObject DEF ThreadEntry, OwnSocket, Holding, HandOver, mainVars
    <3>2. OwnFile'
      BY <1>6, <3>0, ObjectsDiffer, AtObject DEF ThreadEntry, OwnFile
    <3>3. NoFdLeak'
      BY <1>6, <3>0, ObjectsDiffer, AtObject DEF ThreadEntry, NoFdLeak, Holding, HandOver, mainVars
    <3>4. HandOver'
      BY <1>6, <3>0, <2>2, ObjectsDiffer, AtObject DEF ThreadEntry, HandOver, mainVars
    <3>5. Table'
      BY <1>6, <3>0, ObjectsDiffer, AtObject DEF ThreadEntry, Table
    <3> QED
      BY <3>1, <3>2, <3>3, <3>4, <3>5
  <2> QED
    BY <2>1, <2>2
<1>7. ASSUME NEW c \in Conns, RouteOpen(c) PROVE FdInv'
  <2>1. CASE pc'[c] = "send"
    <3>1. InnerMove(c)
      BY <1>7, <2>1 DEF RouteOpen, InnerMove, Inner
    <3> QED
      BY <1>7, <3>1, InnerMoveFdInv
  <2>2. CASE pc'[c] # "send" /\ ~clobbered
    <3>1. PICK f \in Fds : /\ fdt[f] = Free
                          /\ fdt' = [fdt EXCEPT ![f] = File(c)]
                          /\ file' = [file EXCEPT ![c] = f]
                          /\ pc' = [pc EXCEPT ![c] = "read"]
      BY <1>7, <2>2 DEF RouteOpen, FreeFds
    <3>2. pc[c] = "open" /\ UNCHANGED <<main, newFd, newConn, cargs, clobbered, phase, sock>>
      BY <1>7 DEF RouteOpen, mainVars
    <3>3. OwnSocket'
      BY <2>2, <3>1, <3>2, ObjectsDiffer, AtObject DEF OwnSocket, Holding
    <3>4. OwnFile'
      BY <2>2, <3>1, <3>2, ObjectsDiffer, AtObject DEF OwnFile
    <3>5. NoFdLeak'
      BY <2>2, <3>1, <3>2, ObjectsDiffer DEF NoFdLeak, Holding
    <3>6. HandOver'
      BY <2>2, <3>1, <3>2, ObjectsDiffer, AtObject DEF HandOver
    <3>7. Table'
      BY <2>2, <3>1, <3>2, ObjectsDiffer DEF Table
    <3> QED
      BY <3>3, <3>4, <3>5, <3>6, <3>7
  <2>3. CASE clobbered
    BY <1>7, <2>3 DEF RouteOpen, mainVars, OwnSocket, OwnFile, NoFdLeak
  <2> QED
    BY <2>1, <2>2, <2>3
<1>8. ASSUME NEW c \in Conns, RouteClose(c) PROVE FdInv'
  <2>1. CASE clobbered
    BY <1>8, <2>1 DEF RouteClose, mainVars, OwnSocket, OwnFile, NoFdLeak
  <2>2. CASE ~clobbered
    <3>1. file[c] \in Fds /\ fdt[file[c]] = File(c)
      BY <1>8, <2>2, AtObject DEF RouteClose, OwnSocket, OwnFile, Holding
    <3>2. PICK f \in Fds : f = file[c] /\ fdt[f] = File(c)
                          /\ fdt' = [fdt EXCEPT ![f] = Free]
      BY <1>8, <3>1 DEF RouteClose, Closed
    <3>3. /\ pc[c] = "shut" /\ pc' = [pc EXCEPT ![c] = "send"]
          /\ UNCHANGED <<main, newFd, newConn, cargs, clobbered, phase>>
          /\ UNCHANGED sock /\ \A d \in Conns : d # c => file'[d] = file[d]
      BY <1>8 DEF RouteClose, Discard, mainVars
    <3>4. OwnSocket'
      BY <2>2, <3>2, <3>3, ObjectsDiffer, AtObject DEF OwnSocket, Holding
    <3>5. OwnFile'
      BY <2>2, <3>2, <3>3, ObjectsDiffer, AtObject DEF OwnFile
    <3>6. NoFdLeak'
      BY <2>2, <3>2, <3>3, ObjectsDiffer, AtObject DEF NoFdLeak, Holding, Table
    <3>7. HandOver'
      BY <2>2, <3>2, <3>3, ObjectsDiffer, AtObject DEF HandOver
    <3>8. Table'
      BY <2>2, <3>2, <3>3, ObjectsDiffer DEF Table
    <3> QED
      BY <3>4, <3>5, <3>6, <3>7, <3>8
  <2> QED
    BY <2>1, <2>2
<1>9. ASSUME NEW c \in Conns, Close(c) PROVE FdInv'
  <2>1. CASE clobbered
    BY <1>9, <2>1 DEF Close, mainVars, OwnSocket, OwnFile, NoFdLeak
  <2>2. CASE ~clobbered
    <3>1. sock[c] \in Fds /\ fdt[sock[c]] = Sock(c)
      BY <1>9, <2>2, AtObject DEF Close, OwnSocket, OwnFile, Holding
    <3>2. PICK f \in Fds : f = sock[c] /\ fdt[f] = Sock(c)
                          /\ fdt' = [fdt EXCEPT ![f] = Free]
      BY <1>9, <3>1 DEF Close, Closed
    <3>3. /\ pc[c] = "close" /\ pc' = [pc EXCEPT ![c] = "done"]
          /\ UNCHANGED <<main, newFd, newConn, cargs, clobbered, phase>>
          /\ \A d \in Conns : d # c => sock'[d] = sock[d] /\ file'[d] = file[d]
      BY <1>9 DEF Close, Discard, mainVars
    <3>4. OwnSocket'
      BY <2>2, <3>2, <3>3, ObjectsDiffer, AtObject DEF OwnSocket, Holding
    <3>5. OwnFile'
      BY <2>2, <3>2, <3>3, ObjectsDiffer, AtObject DEF OwnFile
    <3>6. NoFdLeak'
      BY <2>2, <3>2, <3>3, ObjectsDiffer, AtObject DEF NoFdLeak, Holding, Table
    <3>7. HandOver'
      BY <2>2, <3>2, <3>3, ObjectsDiffer, AtObject DEF HandOver
    <3>8. Table'
      BY <2>2, <3>2, <3>3, ObjectsDiffer DEF Table
    <3> QED
      BY <3>4, <3>5, <3>6, <3>7, <3>8
  <2> QED
    BY <2>1, <2>2
<1>10. ASSUME Exit \/ Killed PROVE FdInv'
  BY <1>10, TerminateFdInv DEF Exit, Killed
<1>11. ASSUME UNCHANGED <<mainVars, fdt, phase, pc, localVars>> PROVE FdInv'
  BY <1>11 DEF OwnSocket, OwnFile, NoFdLeak, HandOver, Table, Holding, At, mainVars,
               localVars
<1>12. ASSUME NEW c \in Conns, Fin(c) \/ Reset(c) \/ \E k \in Kinds : SendMessage(c, k)
       PROVE  FdInv'
  BY <1>11, <1>12 DEF Fin, Reset, SendMessage
<1>13. ASSUME NEW c \in Conns, RouteRead(c) PROVE FdInv'
  <2>1. CASE Killed
    BY <2>1, <1>10
  <2>2. CASE ~Killed
    <3>1. /\ pc[c] = "read" /\ pc' = [pc EXCEPT ![c] = "shut"]
          /\ UNCHANGED <<main, newFd, newConn, cargs, clobbered, fdt, phase, sock, file>>
      BY <1>13, <2>2 DEF RouteRead, mainVars, localVars
    <3>2. OwnSocket' /\ OwnFile'
      BY <3>1 DEF OwnSocket, OwnFile, Holding, At
    <3>3. NoFdLeak'
      BY <3>1 DEF NoFdLeak, Holding
    <3>4. clobbered' \/ (HandOver' /\ Table')
      BY <3>1 DEF HandOver, Table, At
    <3> QED
      BY <3>2, <3>3, <3>4
  <2> QED
    BY <2>1, <2>2
<1>14. ASSUME NEW c \in Conns,
              \/ RecvCall(c) \/ RecvData(c) \/ RecvEof(c)
              \/ ParseReject(c) \/ ParseMessage(c) \/ SendOk(c) \/ SendFail(c)
       PROVE  InnerMove(c)
  BY <1>14 DEF RecvCall, RecvData, RecvEof, ParseReject, ParseMessage, SendOk, SendFail,
               AfterParse, InnerMove, Inner, localVars
<1>15. ASSUME NEW c \in Conns, MakeHttp(c) PROVE Killed \/ InnerMove(c)
  BY <1>15 DEF MakeHttp, InnerMove, Inner, localVars
<1>16. ASSUME NEW c \in Conns, RecvBadFd(c) \/ RecvError(c)
       PROVE  Terminate("killed") \/ InnerMove(c)
  BY <1>16 DEF RecvBadFd, RecvError, ParseStale, InnerMove, Inner
<1>17. ASSUME NEW c \in Conns, Worker(c) PROVE FdInv'
  BY <1>6, <1>7, <1>8, <1>9, <1>10, <1>13, <1>14, <1>15, <1>16, <1>17, InnerMoveFdInv,
     TerminateFdInv DEF Worker, SendKilled
<1>18. CASE UNCHANGED vars
  BY <1>11, <1>18 DEF vars
<1> QED
  BY <1>1, <1>2, <1>3, <1>4, <1>5, <1>10, <1>12, <1>17, <1>18
     DEF Next, Main, Client, AcceptEmfile, AcceptError, SpawnError

-----------------------------------------------------------------------------
(* Messages and responses *)

\* A hand-over that went wrong stays wrong.
LEMMA ClobberedStays == clobbered /\ [Next]_vars => clobbered'
BY DEF Next, vars, mainVars, Main, Client, Worker, Connect, Fin, Reset, SendMessage,
       Accept, AcceptEmfile, AcceptError, SpawnError, LoopReturns, Store, Spawn, Exit,
       Killed, Terminate, ThreadEntry, MakeHttp, RecvCall, RecvData, RecvEof,
       RecvBadFd, RecvError, ParseStale, ParseReject, ParseMessage, RouteOpen,
       RouteRead, RouteClose, SendOk, SendFail, SendKilled, Close

LEMMA InitDataInv == Init => DataInv
BY EmptySeq DEF Init, DataInv, NoCrossTalk, NoDuplicateResponse, Source, Budget, Serving

\* Steps that change no message and no response, and move no worker into or out
\* of the part of cli_conn that handles messages.
Quiet ==
  /\ UNCHANGED <<from, left, sent, clientVars>>
  /\ \A c \in Conns : /\ Serving(c)' <=> Serving(c)
                      /\ pc'[c] = "wait" => pc[c] = "wait"

LEMMA QuietDataInv ==
  ASSUME DataInv, Quiet, ~clobbered
  PROVE  DataInv'
<1> USE DEF DataInv, Quiet, clientVars
<1>1. NoCrossTalk' /\ NoDuplicateResponse'
  BY DEF NoCrossTalk, NoDuplicateResponse
<1>2. Source' /\ Budget'
  BY DEF Source, Budget
<1> QED
  BY <1>1, <1>2

LEMMA TerminateDataInv ==
  ASSUME TypeOK, DataInv, ~clobbered, Terminate("killed") \/ Terminate("exited"),
         inbox' = inbox,
         \A c \in Conns : peer'[c] = peer[c] \/ peer'[c] = "gone"
  PROVE  DataInv'
<1>1. \A c \in Conns : /\ pc'[c] \in {"unborn", "done"} /\ left'[c] = <<>>
                      /\ Len(left'[c]) <= Len(left[c])
  <2>1. \A c \in Conns : left[c] \in Seq(AllKinds)
    BY DEF TypeOK, LocalTypes
  <2>2. \A c \in Conns : pc'[c] \in {"unborn", "done"} /\ left'[c] = <<>>
    BY DEF TypeOK, ControlTypes, Terminate, Discard
  <2> QED
    BY <2>1, <2>2, EmptySeq, LenProperties
<1>2. UNCHANGED <<asked, sent>>
  BY DEF Terminate
<1>3. NoCrossTalk' /\ NoDuplicateResponse'
  BY <1>2 DEF DataInv, NoCrossTalk, NoDuplicateResponse
<1>4. Source'
  BY <1>1 DEF Source, Serving
<1>5. Budget'
  <2> SUFFICES ASSUME NEW c \in Conns, peer'[c] # "gone"
               PROVE  sent'[c][c] + Len(left'[c]) + Len(inbox'[c]) <= asked'[c]
    BY <1>1 DEF Budget, Serving
  <2>1. /\ sent[c][c] \in Nat /\ asked[c] \in Nat
        /\ Len(left[c]) \in Nat /\ Len(left'[c]) \in Nat /\ Len(inbox[c]) \in Nat
    BY <1>1, EmptySeq, LenProperties DEF TypeOK, LocalTypes, ClientTypes
  <2>2. sent[c][c] + Len(left[c]) + Len(inbox[c]) <= asked[c]
    BY DEF DataInv, Budget
  <2>3. Len(left'[c]) <= Len(left[c])
    BY <1>1
  <2>4. sent'[c][c] = sent[c][c] /\ asked'[c] = asked[c] /\ inbox'[c] = inbox[c]
    BY <1>2
  <2>5. \A v, m, n, k, a \in Nat : v + m + k <= a /\ n <= m => v + n + k <= a
    OBVIOUS
  <2> QED
    BY <2>1, <2>2, <2>3, <2>4, <2>5
<1> QED
  BY <1>3, <1>4, <1>5 DEF DataInv

\* A worker in recv() or at work on messages uses its own connection.
LEMMA OwnConnection ==
  ASSUME TypeOK, FdInv, DataInv, ~clobbered, NEW c \in Conns,
         pc[c] \in {"recv", "wait"} \/ Serving(c)
  PROVE  /\ At(sock[c]).kind = "sock" /\ At(sock[c]).conn = c
         /\ pc[c] # "recv" => from[c] = c
<1>1. At(sock[c]) = Sock(c)
  BY DEF FdInv, OwnSocket, Holding, Serving
<1> QED
  BY <1>1 DEF DataInv, Source, Sock, Serving

\* The numbers in Budget are numbers.
LEMMA BudgetTypes ==
  ASSUME TypeOK, NEW c \in Conns
  PROVE  /\ sent[c][c] \in Nat /\ asked[c] \in Nat
         /\ Len(left[c]) \in Nat /\ Len(inbox[c]) \in Nat
BY LenProperties DEF TypeOK, LocalTypes, ClientTypes

\* A step of one connection that keeps its sum in Budget below the number of its
\* messages keeps all of DataInv.
LEMMA OneBudget ==
  ASSUME TypeOK, DataInv, ~clobbered, NEW c \in Conns,
         \A d \in Conns : d # c => /\ pc'[d] = pc[d] /\ from'[d] = from[d]
                                  /\ left'[d] = left[d] /\ peer'[d] = peer[d]
                                  /\ inbox'[d] = inbox[d] /\ asked'[d] = asked[d]
                                  /\ sent'[d] = sent[d],
         \A s \in Conns \union {None} : s # c => sent'[c][s] = sent[c][s],
         sent'[c][c] <= asked'[c],
         pc'[c] = "wait" \/ Serving(c)' => from'[c] = c,
         Serving(c)' \/ left'[c] = <<>>,
         peer'[c] # "gone" =>
           sent'[c][c] + Len(left'[c]) + Len(inbox'[c]) <= asked'[c]
  PROVE  DataInv'
<1>1. NoCrossTalk'
  BY DEF DataInv, NoCrossTalk
<1>2. NoDuplicateResponse'
  BY DEF DataInv, NoDuplicateResponse
<1>3. Source'
  BY DEF DataInv, Source, Serving
<1>4. Budget'
  BY DEF DataInv, Budget, Serving
<1> QED
  BY <1>1, <1>2, <1>3, <1>4 DEF DataInv

\* Every step keeps messages and responses where they belong.
LEMMA NextDataInv ==
  ASSUME TypeOK, FdInv, DataInv, [Next]_vars
  PROVE  DataInv'
<1>1. CASE clobbered
  BY <1>1, ClobberedStays DEF DataInv, NoCrossTalk, NoDuplicateResponse
<1>2. CASE ~clobbered
  <2> USE <1>2 DEF TypeOK, ControlTypes, Serving
  <2>1. ASSUME NEW c \in Conns,
               Connect(c) \/ Accept(c) \/ ThreadEntry(c) \/ ParseMessage(c)
                 \/ RouteOpen(c) \/ RouteClose(c)
        PROVE  DataInv'
    <3>1. Quiet
      BY <2>1 DEF Quiet, Connect, Accept, ThreadEntry, ParseMessage, RouteOpen,
                  RouteClose, localVars
    <3> QED
      BY <3>1, QuietDataInv
  <2>2. ASSUME LoopReturns \/ Store \/ UNCHANGED vars PROVE DataInv'
    <3>1. Quiet
      BY <2>2 DEF Quiet, LoopReturns, Store, vars, localVars
    <3> QED
      BY <3>1, QuietDataInv
  <2>3. ASSUME Spawn PROVE DataInv'
    <3>1. pc[newConn] = "unborn" /\ newConn \in Conns
      BY <2>3 DEF Spawn, FdInv, HandOver
    <3>2. Quiet
      BY <2>3, <3>1 DEF Quiet, Spawn, localVars
    <3> QED
      BY <3>2, QuietDataInv
  <2>4. ASSUME Exit \/ Killed PROVE DataInv'
    BY <2>4, TerminateDataInv DEF Exit, Killed
  <2>5. ASSUME NEW c \in Conns, MakeHttp(c) PROVE DataInv'
    <3>1. CASE ~Killed
      <4>1. Quiet
        BY <2>5, <3>1 DEF Quiet, MakeHttp, localVars
      <4> QED
        BY <4>1, QuietDataInv
    <3> QED
      BY <2>4, <3>1
  <2>6. ASSUME NEW c \in Conns, RouteRead(c) PROVE DataInv'
    <3>1. CASE ~Killed
      <4>1. At(file[c]) = File(c)
        BY <2>6 DEF RouteRead, FdInv, OwnFile
      <4>2. Quiet
        BY <2>6, <3>1, <4>1 DEF Quiet, RouteRead, File, localVars, clientVars
      <4> QED
        BY <4>2, QuietDataInv
    <3> QED
      BY <2>4, <3>1
  <2>7. ASSUME NEW c \in Conns, NEW k \in Kinds, SendMessage(c, k) PROVE DataInv'
    <3>1. inbox'[c] = Append(inbox[c], k) /\ inbox[c] \in Seq(AllKinds) /\ k \in AllKinds
      BY <2>7, StaleKinds DEF SendMessage, ClientTypes
    <3>2. Len(inbox'[c]) = Len(inbox[c]) + 1
      BY <3>1, AppendProperties
    <3>3. asked'[c] = asked[c] + 1 /\ left'[c] = left[c] /\ UNCHANGED <<peer, sent, pc, from>>
      BY <2>7 DEF SendMessage, ClientTypes, localVars
    <3>4. sent[c][c] <= asked[c]
      BY DEF DataInv, NoDuplicateResponse
    <3>5. peer[c] # "gone" => sent[c][c] + Len(left[c]) + Len(inbox[c]) <= asked[c]
      BY DEF DataInv, Budget
    <3>6. \A d \in Conns : d # c => /\ left'[d] = left[d] /\ inbox'[d] = inbox[d]
                                   /\ asked'[d] = asked[d]
      BY <2>7 DEF SendMessage, ClientTypes, localVars
    <3>7. /\ sent'[c][c] <= asked'[c]
          /\ peer'[c] # "gone" =>
               sent'[c][c] + Len(left'[c]) + Len(inbox'[c]) <= asked'[c]
      <4>1. \A v, m, n, a \in Nat : v <= a => v <= a + 1
        OBVIOUS
      <4>2. \A v, m, n, a \in Nat : v + m + n <= a => v + m + (n + 1) <= a + 1
        OBVIOUS
      <4>3. /\ sent[c][c] \in Nat /\ asked[c] \in Nat
            /\ Len(left[c]) \in Nat /\ Len(inbox[c]) \in Nat
        BY BudgetTypes
      <4> QED
        BY <3>2, <3>3, <3>4, <3>5, <4>1, <4>2, <4>3
    <3>8. (pc[c] = "wait" \/ Serving(c) => from[c] = c) /\ (Serving(c) \/ left[c] = <<>>)
      BY DEF DataInv, Source, Budget
    <3> QED
      BY <3>3, <3>6, <3>7, <3>8, OneBudget
  <2>8. ASSUME NEW c \in Conns, Fin(c) \/ Reset(c) PROVE DataInv'
    <3>1. /\ UNCHANGED <<inbox, asked, sent, pc, from, left>>
          /\ \A d \in Conns : d # c => peer'[d] = peer[d]
          /\ peer[c] # "gone"
      BY <2>8 DEF Fin, Reset, ClientTypes, localVars
    <3>2. sent[c][c] <= asked[c] /\ sent[c][c] + Len(left[c]) + Len(inbox[c]) <= asked[c]
      BY <3>1 DEF DataInv, NoDuplicateResponse, Budget
    <3>3. (pc[c] = "wait" \/ Serving(c) => from[c] = c) /\ (Serving(c) \/ left[c] = <<>>)
      BY DEF DataInv, Source, Budget
    <3> QED
      BY <3>1, <3>2, <3>3, OneBudget
  <2>9. ASSUME NEW c \in Conns, RecvCall(c) \/ RecvEof(c) PROVE DataInv'
    <3>1. At(sock[c]).kind = "sock" /\ At(sock[c]).conn = c /\ (pc[c] # "recv" => from[c] = c)
      BY <2>9, OwnConnection DEF RecvCall, RecvEof
    <3>2. /\ UNCHANGED <<clientVars, sent, left>>
          /\ \A d \in Conns : d # c => pc'[d] = pc[d] /\ from'[d] = from[d]
          /\ pc'[c] \in {"wait", "recv", "close"} /\ (pc'[c] = "wait" => from'[c] = c)
      BY <2>9, <3>1 DEF RecvCall, RecvEof, AfterParse, LocalTypes, localVars
    <3>3. left[c] = <<>>
      BY <2>9 DEF RecvCall, RecvEof, DataInv, Budget
    <3>4. /\ sent[c][c] <= asked[c]
          /\ peer[c] # "gone" => sent[c][c] + Len(left[c]) + Len(inbox[c]) <= asked[c]
      BY DEF DataInv, NoDuplicateResponse, Budget
    <3> QED
      BY <3>2, <3>3, <3>4, OneBudget DEF clientVars
  <2>10. ASSUME NEW c \in Conns, RecvData(c) PROVE DataInv'
    <3>1. At(sock[c]).kind = "sock" /\ At(sock[c]).conn = c /\ (pc[c] # "recv" => from[c] = c)
      BY <2>10, OwnConnection DEF RecvData
    <3>2. from[c] = c /\ inbox[c] \in Seq(AllKinds) /\ left[c] = <<>>
      BY <2>10, <3>1 DEF RecvData, ClientTypes, DataInv, Budget
    <3>3. PICK n \in 1..Len(inbox[c]) :
            /\ left' = [left EXCEPT ![c] = SubSeq(inbox[c], 1, n)]
            /\ inbox' = [inbox EXCEPT ![c] = SubSeq(inbox[c], n + 1, Len(inbox[c]))]
      BY <2>10, <3>2 DEF RecvData
    <3>4. /\ UNCHANGED <<peer, asked, sent, from>> /\ pc' = [pc EXCEPT ![c] = "parse"]
          /\ left'[c] = SubSeq(inbox[c], 1, n)
          /\ inbox'[c] = SubSeq(inbox[c], n + 1, Len(inbox[c]))
          /\ \A d \in Conns : d # c => left'[d] = left[d] /\ inbox'[d] = inbox[d]
      BY <2>10, <3>3 DEF RecvData, ClientTypes, LocalTypes
    <3>5. /\ sent[c][c] <= asked[c]
          /\ peer[c] # "gone" => sent[c][c] + Len(left[c]) + Len(inbox[c]) <= asked[c]
      BY DEF DataInv, NoDuplicateResponse, Budget
    <3>6. /\ sent[c][c] \in Nat /\ asked[c] \in Nat
          /\ Len(left[c]) \in Nat /\ Len(inbox[c]) \in Nat
      BY BudgetTypes
    <3>7. Len(left[c]) = 0 /\ Len(left'[c]) = n /\ Len(inbox'[c]) = Len(inbox[c]) - n
      BY <3>2, <3>4, SplitSeq, EmptySeq
    <3>8. peer'[c] # "gone" =>
            sent'[c][c] + Len(left'[c]) + Len(inbox'[c]) <= asked'[c]
      <4>1. \A v, k, a \in Nat : \A m \in 1..k : v + 0 + k <= a => v + m + (k - m) <= a
        OBVIOUS
      <4>2. n \in 1..Len(inbox[c])
        OBVIOUS
      <4> QED
        BY <3>4, <3>5, <3>6, <3>7, <4>1, <4>2
    <3> QED
      BY <3>2, <3>4, <3>5, <3>8, OneBudget
  <2>11. ASSUME NEW c \in Conns, ParseReject(c) PROVE DataInv'
    <3>1. /\ UNCHANGED <<clientVars, sent, from>> /\ left'[c] = <<>>
          /\ \A d \in Conns : d # c => pc'[d] = pc[d] /\ left'[d] = left[d]
          /\ pc'[c] \in {"recv", "close"}
      BY <2>11 DEF ParseReject, AfterParse, LocalTypes
    <3>2. /\ sent[c][c] <= asked[c]
          /\ peer[c] # "gone" => sent[c][c] + Len(left[c]) + Len(inbox[c]) <= asked[c]
      BY DEF DataInv, NoDuplicateResponse, Budget
    <3>3. /\ sent[c][c] \in Nat /\ asked[c] \in Nat
          /\ Len(left[c]) \in Nat /\ Len(inbox[c]) \in Nat
      BY BudgetTypes
    <3>4. peer'[c] # "gone" =>
            sent'[c][c] + Len(left'[c]) + Len(inbox'[c]) <= asked'[c]
      <4>1. \A v, m, k, a \in Nat : v + m + k <= a => v + 0 + k <= a
        OBVIOUS
      <4> QED
        BY <3>1, <3>2, <3>3, <4>1, EmptySeq DEF clientVars
    <3> QED
      BY <3>1, <3>2, <3>4, OneBudget DEF clientVars
  <2>12. ASSUME NEW c \in Conns, SendOk(c) PROVE DataInv'
    <3>1. At(sock[c]).kind = "sock" /\ At(sock[c]).conn = c /\ (pc[c] # "recv" => from[c] = c)
      BY <2>12, OwnConnection DEF SendOk
    <3>2. /\ from[c] = c /\ peer[c] # "gone" /\ left[c] \in Seq(AllKinds) /\ left[c] # <<>>
          /\ sent' = [sent EXCEPT ![c][c] = @ + 1]
      BY <2>12, <3>1 DEF SendOk, LocalTypes
    <3>3. PICK rest \in Seq(AllKinds) :
            /\ Len(rest) <= Len(left[c]) - 1 /\ left' = [left EXCEPT ![c] = rest]
            /\ pc' = [pc EXCEPT ![c] = IF rest # <<>> THEN "parse"
                                      ELSE AfterParse(upg[c], FALSE)]
      <4>1. Tail(left[c]) \in Seq(AllKinds) /\ Len(Tail(left[c])) = Len(left[c]) - 1
        BY <3>2, HeadTailProperties
      <4>2. <<>> \in Seq(AllKinds) /\ Len(<<>>) <= Len(left[c]) - 1
        BY <3>2, EmptySeq, LenProperties
      <4>3. Len(left[c]) \in Nat
        BY BudgetTypes
      <4>4. CASE upg[c]
        <5> WITNESS <<>> \in Seq(AllKinds)
        <5> QED
          BY <2>12, <4>2, <4>4 DEF SendOk
      <4>5. CASE ~upg[c]
        <5>1. Tail(left[c]) \in Seq(AllKinds)
          BY <4>1
        <5> WITNESS Tail(left[c]) \in Seq(AllKinds)
        <5> QED
          BY <2>12, <4>1, <4>3, <4>5 DEF SendOk
      <4> QED
        BY <4>4, <4>5
    <3>4. /\ UNCHANGED <<clientVars, from>> /\ left'[c] = rest
          /\ \A d \in Conns : d # c => pc'[d] = pc[d] /\ left'[d] = left[d] /\ sent'[d] = sent[d]
          /\ \A s \in Conns \union {None} : s # c => sent'[c][s] = sent[c][s]
          /\ sent'[c][c] = sent[c][c] + 1
          /\ pc'[c] \in {"parse", "recv", "close"} /\ (pc'[c] # "parse" => rest = <<>>)
      BY <2>12, <3>2, <3>3 DEF SendOk, AfterParse, LocalTypes
    <3>5. /\ sent[c][c] <= asked[c]
          /\ peer[c] # "gone" => sent[c][c] + Len(left[c]) + Len(inbox[c]) <= asked[c]
      BY DEF DataInv, NoDuplicateResponse, Budget
    <3>6. /\ sent[c][c] \in Nat /\ asked[c] \in Nat
          /\ Len(left[c]) \in Nat /\ Len(inbox[c]) \in Nat
      BY BudgetTypes
    <3>7. /\ sent[c][c] + 1 <= asked[c]
          /\ sent[c][c] + 1 + Len(rest) + Len(inbox[c]) <= asked[c]
      <4>1. \A v, m, r, k, a \in Nat : v + m + k <= a /\ r <= m - 1 =>
                                       v + 1 <= a /\ v + 1 + r + k <= a
        OBVIOUS
      <4>2. Len(rest) \in Nat
        BY LenProperties
      <4> QED
        BY <3>2, <3>3, <3>5, <3>6, <4>1, <4>2
    <3>8. /\ sent'[c][c] <= asked'[c]
          /\ sent'[c][c] + Len(left'[c]) + Len(inbox'[c]) <= asked'[c]
      BY <3>4, <3>7 DEF clientVars
    <3>9. /\ pc'[c] = "wait" \/ Serving(c)' => from'[c] = c
          /\ Serving(c)' \/ left'[c] = <<>>
      BY <3>2, <3>4
    <3> QED
      BY <3>4, <3>8, <3>9, OneBudget DEF clientVars
  <2>13. ASSUME NEW c \in Conns, SendFail(c) PROVE DataInv'
    <3>1. At(sock[c]).kind = "sock" /\ At(sock[c]).conn = c /\ (pc[c] # "recv" => from[c] = c)
      BY <2>13, OwnConnection DEF SendFail
    <3>2. /\ UNCHANGED <<inbox, asked, sent, from>> /\ left'[c] = <<>> /\ peer'[c] = "gone"
          /\ \A d \in Conns : d # c => pc'[d] = pc[d] /\ left'[d] = left[d] /\ peer'[d] = peer[d]
          /\ pc'[c] \in {"recv", "close"}
      BY <2>13, <3>1 DEF SendFail, AfterParse, LocalTypes, ClientTypes
    <3>3. /\ sent[c][c] <= asked[c]
          /\ peer[c] # "gone" => sent[c][c] + Len(left[c]) + Len(inbox[c]) <= asked[c]
      BY DEF DataInv, NoDuplicateResponse, Budget
    <3> QED
      BY <3>2, <3>3, OneBudget
  <2>14. ASSUME NEW c \in Conns, RecvBadFd(c) PROVE FALSE
    BY <2>14, OwnConnection DEF RecvBadFd
  <2>15. ASSUME NEW c \in Conns, RecvError(c) PROVE DataInv'
    <3>1. At(sock[c]).kind = "sock" /\ At(sock[c]).conn = c /\ (pc[c] # "recv" => from[c] = c)
      BY <2>15, OwnConnection DEF RecvError
    <3>2. /\ UNCHANGED inbox /\ peer'[c] = "gone" /\ from[c] = c
          /\ \A d \in Conns : d # c => peer'[d] = peer[d]
      BY <2>15, <3>1 DEF RecvError, ClientTypes
    <3>3. CASE Terminate("killed")
      BY <3>2, <3>3, TerminateDataInv
    <3>4. CASE ~Terminate("killed")
      <4>1. /\ UNCHANGED <<asked, sent, from>> /\ pc' = [pc EXCEPT ![c] = "parse"]
            /\ \A d \in Conns : d # c => left'[d] = left[d]
        BY <2>15, <3>4 DEF RecvError, ParseStale, LocalTypes
      <4>2. sent[c][c] <= asked[c]
        BY DEF DataInv, NoDuplicateResponse
      <4> QED
        BY <3>2, <4>1, <4>2, OneBudget
    <3> QED
      BY <3>3, <3>4
  <2>16. ASSUME NEW c \in Conns, Close(c) PROVE DataInv'
    <3>1. /\ UNCHANGED <<clientVars, sent>> /\ left'[c] = <<>> /\ left[c] = <<>>
          /\ \A d \in Conns : d # c => pc'[d] = pc[d] /\ left'[d] = left[d] /\ from'[d] = from[d]
          /\ pc'[c] = "done"
      BY <2>16 DEF Close, Discard, DataInv, Budget
    <3>2. /\ sent[c][c] <= asked[c]
          /\ peer[c] # "gone" => sent[c][c] + Len(left[c]) + Len(inbox[c]) <= asked[c]
      BY DEF DataInv, NoDuplicateResponse, Budget
    <3> QED
      BY <3>1, <3>2, OneBudget DEF clientVars
  <2> QED
    BY <2>1, <2>2, <2>3, <2>4, <2>5, <2>6, <2>7, <2>8, <2>9, <2>10, <2>11, <2>12,
       <2>13, <2>14, <2>15, <2>16
       DEF Next, Main, Client, Worker, AcceptEmfile, AcceptError, SpawnError,
           SendKilled
<1> QED
  BY <1>1, <1>2

-----------------------------------------------------------------------------
(* The theorems *)

\* The inductive invariant.
THEOREM Invariance == Spec => []Inv
<1>1. Init => Inv
  BY InitTypeOK, InitFdInv, InitDataInv DEF Inv
<1>2. Inv /\ [Next]_vars => Inv'
  BY NextTypeOK, NextFdInv, NextDataInv DEF Inv
<1> QED
  BY <1>1, <1>2, PTL DEF Spec

\* Whatever the schedule, workers whose cargs was handed over use their own
\* connections and files, and lose no descriptor.
THEOREM DescriptorOwnership == Spec => [](OwnSocket /\ OwnFile /\ NoFdLeak)
<1>1. Inv => OwnSocket /\ OwnFile /\ NoFdLeak
  BY DEF Inv, FdInv
<1> QED
  BY <1>1, Invariance, PTL

\* Then no response goes to another client, and none is sent twice.
THEOREM ResponseIsolation == Spec => [](NoCrossTalk /\ NoDuplicateResponse)
<1>1. Inv => NoCrossTalk /\ NoDuplicateResponse
  BY DEF Inv, DataInv
<1> QED
  BY <1>1, Invariance, PTL

-----------------------------------------------------------------------------
(* One batch of messages per connection *)

\* A connection gets its thread once, after its accept().
Births ==
  /\ \A c \in Conns : phase[c] # "accepted" => pc[c] = "unborn"
  /\ main \in {"store", "spawn"} =>
       phase[newConn] = "accepted" /\ pc[newConn] = "unborn"

LEMMA WorkerMoves ==
  ASSUME TypeOK, NEW c \in Conns, Worker(c)
  PROVE  \/ \E how \in {"killed", "exited"} : Terminate(how)
         \/ /\ pc[c] # "unborn" /\ \A d \in Conns : d # c => pc'[d] = pc[d]
            /\ UNCHANGED <<mainVars, phase>>
<1>1. pc \in [Conns -> PcTypes]
  BY DEF TypeOK, ControlTypes
<1>2. SendKilled(c) => Terminate("killed")
  BY DEF SendKilled, Killed
<1> QED
  BY <1>1, <1>2
     DEF Worker, ThreadEntry, MakeHttp, RecvCall, RecvData, RecvEof, RecvBadFd,
         RecvError, ParseStale, ParseReject, ParseMessage, RouteOpen, RouteRead,
         RouteClose, SendOk, SendFail, Close, Killed

LEMMA NextBirths ==
  ASSUME TypeOK, Births, [Next]_vars
  PROVE  Births'
<1>0. /\ pc \in [Conns -> PcTypes]
      /\ phase \in [Conns -> {"new", "queued", "accepted"}]
      /\ main \in {"store", "spawn"} => newConn \in Conns
  BY DEF TypeOK, KernelTypes, ControlTypes
<1>1. ASSUME \E how \in {"killed", "exited"} : Terminate(how) PROVE Births'
  BY <1>0, <1>1 DEF Terminate, Births
<1>2. ASSUME NEW c \in Conns, Worker(c) PROVE Births'
  BY <1>0, <1>1, <1>2, WorkerMoves DEF Births, mainVars
<1>3. ASSUME NEW c \in Conns, Client(c) PROVE Births'
  BY <1>0, <1>3 DEF Client, Connect, Fin, Reset, SendMessage, Births, mainVars
<1>4. ASSUME NEW c \in Conns, Accept(c) PROVE Births'
  BY <1>0, <1>4 DEF Accept, Births
<1>5. ASSUME LoopReturns \/ Store \/ Spawn PROVE Births'
  BY <1>0, <1>5 DEF LoopReturns, Store, Spawn, Births
<1>6. CASE UNCHANGED vars
  BY <1>6 DEF vars, mainVars, Births
<1> QED
  BY <1>1, <1>2, <1>3, <1>4, <1>5, <1>6
     DEF Next, Main, AcceptEmfile, AcceptError, SpawnError, Exit

\* complete_flag is set by a send() only, and looked at after every parse.
Batch == /\ AnsweredThenCloses
         /\ \A c \in Conns : pc[c] \in {"unborn", "entry", "make"} => ~complete[c]

LEMMA AfterParseCases ==
  ASSUME NEW u \in BOOLEAN, NEW a \in BOOLEAN
  PROVE  /\ AfterParse(u, a) = "recv" \/ AfterParse(u, a) = "close"
         /\ AfterParse(u, a) = "recv" => u \/ a
BY DEF AfterParse

\* Enough to know of a step of one worker.
LEMMA OneBatch ==
  ASSUME Batch, NEW c \in Conns,
         \A d \in Conns : d # c => /\ pc'[d] = pc[d] /\ upg'[d] = upg[d]
                                  /\ complete'[d] = complete[d],
         pc'[c] \in {"recv", "wait"} => upg'[c] \/ ~complete'[c],
         pc'[c] \in {"unborn", "entry", "make"} => ~complete'[c]
  PROVE  Batch'
BY DEF Batch, AnsweredThenCloses

LEMMA NextBatch ==
  ASSUME TypeOK, Births, Batch, [Next]_vars
  PROVE  Batch'
<1>0. /\ pc \in [Conns -> PcTypes] /\ upg \in [Conns -> BOOLEAN]
      /\ complete \in [Conns -> BOOLEAN]
  BY DEF TypeOK, ControlTypes, LocalTypes
<1>1. ASSUME \E how \in {"killed", "exited"} : Terminate(how) PROVE Batch'
  <2>1. \A c \in Conns : pc'[c] \in {"unborn", "done"} /\ ~complete'[c]
    BY <1>0, <1>1 DEF Terminate, Discard
  <2> QED
    BY <2>1 DEF Batch, AnsweredThenCloses
<1>2. ASSUME UNCHANGED <<pc, localVars>> PROVE Batch'
  BY <1>2 DEF localVars, Batch, AnsweredThenCloses
<1>3. ASSUME NEW c \in Conns,
             \/ ThreadEntry(c) \/ RecvCall(c) \/ RecvData(c)
             \/ RouteOpen(c) \/ RouteClose(c)
      PROVE  Batch'
  <2>1. /\ UNCHANGED <<upg, complete>> /\ \A d \in Conns : d # c => pc'[d] = pc[d]
        /\ \/ pc[c] = "entry" /\ pc'[c] = "make"
           \/ pc[c] = "recv" /\ pc'[c] = "wait"
           \/ pc'[c] \in {"parse", "read", "send"}
    BY <1>0, <1>3 DEF ThreadEntry, RecvCall, RecvData, RouteOpen, RouteClose
  <2>2. /\ pc[c] = "entry" => ~complete[c]
        /\ pc[c] = "recv" => upg[c] \/ ~complete[c]
    BY DEF Batch, AnsweredThenCloses
  <2> QED
    BY <2>1, <2>2, OneBatch
<1>14. ASSUME NEW c \in Conns, RecvEof(c) PROVE Batch'
  <2>1. /\ UNCHANGED <<upg, complete>> /\ pc'[c] = AfterParse(upg[c], FALSE)
        /\ \A d \in Conns : d # c => pc'[d] = pc[d]
    BY <1>0, <1>14 DEF RecvEof, localVars
  <2>2. pc'[c] \in {"recv", "close"} /\ (pc'[c] = "recv" => upg[c])
    BY <1>0, <2>1, AfterParseCases
  <2> QED
    BY <2>1, <2>2, OneBatch
<1>15. ASSUME NEW c \in Conns, ParseMessage(c) PROVE Batch'
  <2>1. /\ pc'[c] = "open" /\ UNCHANGED complete
        /\ \A d \in Conns : d # c => upg'[d] = upg[d] /\ pc'[d] = pc[d]
    BY <1>0, <1>15 DEF ParseMessage
  <2> QED
    BY <2>1, OneBatch
<1>4. ASSUME NEW c \in Conns, MakeHttp(c) \/ RouteRead(c) PROVE Batch'
  <2>1. CASE ~Killed
    <3>1. /\ UNCHANGED <<upg, complete>> /\ \A d \in Conns : d # c => pc'[d] = pc[d]
          /\ pc[c] = "make" \/ pc'[c] = "shut"
          /\ pc'[c] \in {"recv", "close", "shut"}
      BY <1>0, <1>4, <2>1 DEF MakeHttp, RouteRead, localVars
    <3>2. pc[c] = "make" => ~complete[c]
      BY DEF Batch
    <3> QED
      BY <3>1, <3>2, OneBatch
  <2> QED
    BY <1>1, <2>1 DEF Killed
<1>5. ASSUME NEW c \in Conns, RecvBadFd(c) \/ RecvError(c) PROVE Batch'
  <2>1. CASE ~Terminate("killed")
    <3>1. /\ UNCHANGED <<upg, complete>> /\ \A d \in Conns : d # c => pc'[d] = pc[d]
          /\ pc'[c] = "parse"
      BY <1>0, <1>5, <2>1 DEF RecvBadFd, RecvError, ParseStale
    <3> QED
      BY <3>1, OneBatch
  <2> QED
    BY <1>1, <2>1
<1>6. ASSUME NEW c \in Conns, ParseReject(c) PROVE Batch'
  <2>1. PICK u \in BOOLEAN : /\ upg' = [upg EXCEPT ![c] = u]
                            /\ pc' = [pc EXCEPT ![c] = AfterParse(u, FALSE)]
    <3>1. upg[c] \in BOOLEAN
      BY <1>0
    <3> QED
      BY <1>6, <3>1, UpgradeType DEF ParseReject
  <2>2. UNCHANGED complete
    BY <1>6 DEF ParseReject
  <2>3. \A d \in Conns : d # c => upg'[d] = upg[d] /\ pc'[d] = pc[d]
    BY <1>0, <2>1
  <2>4. pc'[c] = AfterParse(u, FALSE)
    BY <1>0, <2>1
  <2>5. u => upg'[c]
    BY <1>0, <2>1
  <2>6. pc'[c] \in {"recv", "close"} /\ (pc'[c] = "recv" => upg'[c])
    BY <2>4, <2>5, AfterParseCases
  <2> QED
    BY <2>2, <2>3, <2>6, OneBatch
<1>7. ASSUME NEW c \in Conns, SendOk(c) PROVE Batch'
  <2>1. /\ UNCHANGED upg
        /\ \A d \in Conns : d # c => pc'[d] = pc[d] /\ complete'[d] = complete[d]
        /\ pc'[c] = "parse" \/ pc'[c] = AfterParse(upg[c], FALSE)
    <3> DEFINE rest == IF upg[c] THEN <<>> ELSE Tail(left[c])
    <3>1. /\ UNCHANGED upg
          /\ complete' = [complete EXCEPT ![c] = TRUE]
          /\ pc' = [pc EXCEPT ![c] = IF rest # <<>> THEN "parse"
                                     ELSE AfterParse(upg[c], FALSE)]
      BY <1>7 DEF SendOk
    <3> HIDE DEF rest
    <3> QED
      BY <1>0, <3>1
  <2>2. pc'[c] \in {"parse", "recv", "close"} /\ (pc'[c] = "recv" => upg[c])
    BY <1>0, <2>1, AfterParseCases
  <2> QED
    BY <2>1, <2>2, OneBatch
<1>16. ASSUME NEW c \in Conns, SendFail(c) PROVE Batch'
  <2> DEFINE again == Tail(left[c]) = <<>> /\ ~complete[c]
             next == AfterParse(upg[c], again)
  <2>1. next \in {"recv", "close"} /\ (next = "recv" => upg[c] \/ ~complete[c])
    BY DEF AfterParse
  <2>2. UNCHANGED <<upg, complete>> /\ pc' = [pc EXCEPT ![c] = next]
    BY <1>16 DEF SendFail
  <2> HIDE DEF next
  <2>3. pc'[c] = next /\ \A d \in Conns : d # c => pc'[d] = pc[d]
    BY <1>0, <2>2
  <2> QED
    BY <2>1, <2>2, <2>3, OneBatch
<1>8. ASSUME NEW c \in Conns, Close(c) PROVE Batch'
  <2>1. /\ pc'[c] = "done"
        /\ \A d \in Conns : d # c => /\ pc'[d] = pc[d] /\ upg'[d] = upg[d]
                                     /\ complete'[d] = complete[d]
    BY <1>0, <1>8 DEF Close, Discard
  <2> QED
    BY <2>1, OneBatch
<1>9. ASSUME Spawn PROVE Batch'
  <2>1. newConn \in Conns /\ pc[newConn] = "unborn"
    BY <1>9 DEF Spawn, TypeOK, ControlTypes, Births
  <2>2. UNCHANGED <<upg, complete>> /\ pc' = [pc EXCEPT ![newConn] = "entry"]
    BY <1>9 DEF Spawn, localVars
  <2> QED
    BY <1>0, <2>1, <2>2, OneBatch DEF Batch
<1>10. ASSUME NEW c \in Conns, Worker(c) PROVE Batch'
  BY <1>1, <1>3, <1>4, <1>5, <1>6, <1>7, <1>8, <1>10, <1>14, <1>15, <1>16
     DEF Worker, SendKilled, Killed
<1>11. ASSUME NEW c \in Conns, Client(c) PROVE Batch'
  BY <1>2, <1>11 DEF Client, Connect, Fin, Reset, SendMessage
<1>12. ASSUME Main \/ AcceptError PROVE Batch'
  BY <1>1, <1>2, <1>9, <1>12
     DEF Main, Accept, AcceptEmfile, AcceptError, SpawnError, LoopReturns, Store, Exit
<1>13. CASE UNCHANGED vars
  BY <1>2, <1>13 DEF vars
<1> QED
  BY <1>10, <1>11, <1>12, <1>13 DEF Next

\* A worker that has answered reads again only after an upgrade, for any clients
\* and whatever happens to cargs.
THEOREM OneBatchOnly == Spec => []AnsweredThenCloses
<1>1. Init => Batch /\ Births
  BY DEF Init, Batch, Births, AnsweredThenCloses
<1>2. TypeOK /\ Births /\ Batch /\ [Next]_vars => Births' /\ Batch'
  BY NextBatch, NextBirths
<1>3. Batch => AnsweredThenCloses
  BY DEF Batch
<1> QED
  BY <1>1, <1>2, <1>3, TypeCorrect, PTL DEF Spec

-----------------------------------------------------------------------------
(* Who closes a connection *)

\* Under the invariant a connection is open exactly when a descriptor says so.
HasFd(c) == \E f \in Fds : fdt[f] = Sock(c)

LEMMA OpenIsFd ==
  ASSUME Inv, ~clobbered, NEW c \in Conns
  PROVE  Open(c) <=> HasFd(c)
<1>1. ASSUME NEW d \in Conns, pc[d] = "wait", from[d] = c PROVE HasFd(c)
  <2>1. d = c
    BY <1>1 DEF Inv, DataInv, Source
  <2>2. At(sock[c]) = Sock(c)
    BY <1>1, <2>1 DEF Inv, FdInv, OwnSocket, Holding
  <2> QED
    BY <2>2, AtObject DEF HasFd
<1> QED
  BY <1>1 DEF Open, HasFd

\* How a step may change the descriptors of connections, and which one does.
LEMMA FdMoves ==
  ASSUME Inv, ~clobbered, [Next]_vars, ~Down', NEW c \in Conns
  PROVE  \/ HasFd(c)' <=> HasFd(c)
         \/ Accept(c)
         \/ Close(c)
<1> USE DEF Inv, TypeOK, KernelTypes, ControlTypes, FdInv
<1>1. ASSUME fdt' = fdt PROVE HasFd(c)' <=> HasFd(c)
  BY <1>1 DEF HasFd, Sock
<1>2. ASSUME NEW f \in Fds, NEW o,
             fdt[f] # Sock(c), o # Sock(c), fdt' = [fdt EXCEPT ![f] = o]
      PROVE  HasFd(c)' <=> HasFd(c)
  BY <1>2 DEF HasFd, Sock
<1>3. ASSUME NEW d \in Conns, d # c, Accept(d) PROVE HasFd(c)' <=> HasFd(c)
  <2>1. PICK f \in Fds : fdt[f] = Free /\ fdt' = [fdt EXCEPT ![f] = Sock(d)]
    BY <1>3 DEF Accept, FreeFds
  <2> QED
    BY <1>2, <1>3, <2>1, ObjectsDiffer
<1>4. ASSUME NEW d \in Conns, RouteOpen(d) PROVE HasFd(c)' <=> HasFd(c)
  <2>1. CASE fdt' # fdt
    <3>1. PICK f \in Fds : fdt[f] = Free /\ fdt' = [fdt EXCEPT ![f] = File(d)]
      BY <1>4, <2>1 DEF RouteOpen, FreeFds
    <3> QED
      BY <1>2, <3>1, ObjectsDiffer
  <2> QED
    BY <1>1, <2>1
<1>5. ASSUME NEW d \in Conns, RouteClose(d) PROVE HasFd(c)' <=> HasFd(c)
  <2>1. file[d] \in Fds /\ fdt[file[d]] = File(d)
    BY <1>5, AtObject DEF RouteClose, OwnFile
  <2>2. PICK f \in Fds : fdt[f] = File(d) /\ fdt' = [fdt EXCEPT ![f] = Free]
    BY <1>5, <2>1 DEF RouteClose, Closed
  <2> QED
    BY <1>2, <2>2, ObjectsDiffer
<1>6. ASSUME NEW d \in Conns, d # c, Close(d) PROVE HasFd(c)' <=> HasFd(c)
  <2>1. sock[d] \in Fds /\ fdt[sock[d]] = Sock(d)
    BY <1>6, AtObject DEF Close, OwnSocket, Holding
  <2>2. PICK f \in Fds : fdt[f] = Sock(d) /\ fdt' = [fdt EXCEPT ![f] = Free]
    BY <1>6, <2>1 DEF Close, Closed
  <2> QED
    BY <1>2, <1>6, <2>2, ObjectsDiffer
<1>7. ASSUME NEW how \in {"killed", "exited"}, Terminate(how) PROVE FALSE
  BY <1>7 DEF Terminate, Down
<1>8. ASSUME NEW d \in Conns, Worker(d), ~RouteOpen(d), ~RouteClose(d), ~Close(d)
      PROVE  fdt' = fdt
  BY <1>7, <1>8
     DEF Worker, ThreadEntry, MakeHttp, RecvCall, RecvData, RecvEof, RecvBadFd,
         RecvError, ParseStale, ParseReject, ParseMessage, RouteRead, SendOk,
         SendFail, SendKilled, Killed
<1>9. ASSUME NEW d \in Conns, Client(d) PROVE fdt' = fdt
  BY <1>9 DEF Client, Connect, Fin, Reset, SendMessage
<1>10. ASSUME \/ AcceptEmfile \/ AcceptError \/ Store \/ Spawn \/ SpawnError \/ Exit
              \/ UNCHANGED vars
       PROVE  fdt' = fdt
  BY <1>7, <1>10 DEF AcceptEmfile, AcceptError, SpawnError, LoopReturns, Store, Spawn,
                     Exit, vars
<1> QED
  BY <1>1, <1>3, <1>4, <1>5, <1>6, <1>8, <1>9, <1>10 DEF Next, Main

\* Only its own worker closes a connection, as long as cargs is handed over and
\* the process lives.
THEOREM OnlyOwnerCloses == Spec => ClosedByItsWorker
<1>1. ASSUME Inv, Inv', [Next]_vars
      PROVE  [\A c \in Conns : Open(c) /\ ~Open(c)' /\ ~clobbered /\ ~Down'
                               => pc[c] = "close" /\ pc'[c] = "done"]_vars
  <2> SUFFICES ASSUME NEW c \in Conns, Open(c), ~Open(c)', ~clobbered, ~Down'
               PROVE  pc[c] = "close" /\ pc'[c] = "done"
    OBVIOUS
  <2>1. HasFd(c) /\ ~HasFd(c)'
    BY <1>1, OpenIsFd DEF Open, HasFd
  <2>2. ~Accept(c)
    BY <1>1, <2>1 DEF Accept, HasFd, Inv, FdInv, Table
  <2>3. Close(c)
    BY <1>1, <2>1, <2>2, FdMoves
  <2> QED
    BY <1>1, <2>3 DEF Close, Inv, TypeOK, ControlTypes
<1> QED
  BY <1>1, Invariance, PTL DEF Spec, ClosedByItsWorker

-----------------------------------------------------------------------------
(* McrServer implements ConnService *)

\* A process that has ended runs no thread.
Ended == Down => \A c \in Conns : pc[c] \in {"unborn", "done"}

LEMMA NextEnded ==
  ASSUME TypeOK, Ended, [Next]_vars
  PROVE  Ended'
<1>0. pc \in [Conns -> PcTypes]
  BY DEF TypeOK, ControlTypes
<1>1. ASSUME \E how \in {"killed", "exited"} : Terminate(how) PROVE Ended'
  BY <1>0, <1>1 DEF Terminate, Ended
<1>2. ASSUME NEW c \in Conns, Worker(c) PROVE ~Down
  BY <1>2 DEF Ended, Worker, ThreadEntry, MakeHttp, RecvCall, RecvData, RecvEof,
              RecvBadFd, RecvError, ParseReject, ParseMessage, RouteOpen, RouteRead,
              RouteClose, SendOk, SendFail, SendKilled, Close
<1>3. ASSUME NEW c \in Conns, Worker(c) PROVE Ended'
  BY <1>1, <1>2, <1>3, WorkerMoves DEF Ended, Down, mainVars
<1>4. ASSUME NEW c \in Conns, Client(c) PROVE Ended'
  BY <1>4 DEF Client, Connect, Fin, Reset, SendMessage, Ended, Down, mainVars
<1>5. ASSUME NEW c \in Conns, Accept(c) PROVE Ended'
  BY <1>5 DEF Accept, Ended, Down
<1>6. ASSUME LoopReturns \/ Store \/ Spawn PROVE Ended'
  BY <1>6 DEF LoopReturns, Store, Spawn, Ended, Down
<1>7. CASE UNCHANGED vars
  BY <1>7 DEF vars, mainVars, Ended, Down
<1> QED
  BY <1>1, <1>3, <1>4, <1>5, <1>6, <1>7
     DEF Next, Main, AcceptEmfile, AcceptError, SpawnError, Exit

\* The stage of a connection under the invariant, before and after a step.
StageByFd == Inv /\ ~clobbered => \A c \in Conns :
  Stage(c) = IF phase[c] = "new" THEN "idle"
             ELSE IF phase[c] = "queued" THEN IF Down THEN "closed" ELSE "pending"
             ELSE IF HasFd(c) THEN "serving" ELSE "closed"

LEMMA StageIs == StageByFd
BY OpenIsFd DEF StageByFd, Stage, Inv, TypeOK, KernelTypes

LEMMA StageIsNext == StageByFd'
BY StageIs, PTL

\* Every step is a step of the service, or leaves it alone.
LEMMA ServiceStep ==
  ASSUME Inv, Inv', Ended, [Next]_vars
  PROVE  [Service!Next]_(Service!svars)
<1>1. CASE clobbered'
  BY <1>1 DEF Service!Next
<1>2. CASE ~clobbered'
  <2>1. ~clobbered
    BY <1>2, ClobberedStays
  <2>2. \A c \in Conns :
          /\ Stage(c) = IF phase[c] = "new" THEN "idle"
                        ELSE IF phase[c] = "queued"
                             THEN IF Down THEN "closed" ELSE "pending"
                             ELSE IF HasFd(c) THEN "serving" ELSE "closed"
          /\ Stage(c)' = IF phase'[c] = "new" THEN "idle"
                         ELSE IF phase'[c] = "queued"
                              THEN IF Down' THEN "closed" ELSE "pending"
                              ELSE IF HasFd(c)' THEN "serving" ELSE "closed"
    BY <1>2, <2>1, StageIs, StageIsNext DEF StageByFd
  <2>3. phase \in [Conns -> {"new", "queued", "accepted"}]
    BY DEF Inv, TypeOK, KernelTypes
  <2>0. clobbered = FALSE /\ clobbered' = FALSE
    BY <1>2, <2>1 DEF Inv, TypeOK, MainTypes
  <2>4. ASSUME Down' = Down, UNCHANGED <<phase, asked, sent>>,
               \A c \in Conns : HasFd(c)' <=> HasFd(c)
        PROVE  UNCHANGED Service!svars
    <3>1. \A c \in Conns : Stage(c)' = Stage(c)
      BY <2>2, <2>4
    <3>2. [c \in Conns |-> Stage(c)]' = [c \in Conns |-> Stage(c)]
      BY <3>1
    <3>3. [d \in Conns |-> [s \in Conns |-> sent[d][s]]]'
            = [d \in Conns |-> [s \in Conns |-> sent[d][s]]]
      BY <2>4
    <3>4. asked' = asked /\ clobbered' = clobbered /\ (~Down)' = ~Down
      BY <2>0, <2>4
    <3> QED
      BY <3>2, <3>3, <3>4 DEF Service!svars
  <2>5. ASSUME NEW c \in Conns, ~Down, ~Down', UNCHANGED <<asked, sent>>,
               \A d \in Conns : d # c => Stage(d)' = Stage(d),
               \/ Stage(c) = "idle" /\ Stage(c)' = "pending"
               \/ Stage(c) = "pending" /\ Stage(c)' = "serving"
               \/ Stage(c) = "serving" /\ Stage(c)' = "closed"
        PROVE  Service!Next
    <3>1. [d \in Conns |-> Stage(d)]'
            = [[d \in Conns |-> Stage(d)] EXCEPT ![c] = Stage(c)']
      BY <2>5
    <3>2. [d \in Conns |-> [s \in Conns |-> sent[d][s]]]'
            = [d \in Conns |-> [s \in Conns |-> sent[d][s]]]
      BY <2>5
    <3>3. (~Down)' = ~Down /\ asked' = asked /\ clobbered' = clobbered
      BY <2>0, <2>5
    <3>4. [d \in Conns |-> Stage(d)][c] = Stage(c)
      OBVIOUS
    <3>5. \A a, b : Stage(c) = a /\ Stage(c)' = b => Service!Move(c, a, b)
      BY <2>5, <3>1, <3>2, <3>3, <3>4 DEF Service!Move
    <3> QED
      BY <2>5, <3>5 DEF Service!Next, Service!Arrive, Service!Admit, Service!Finish
  <2>6. ASSUME NEW how \in {"killed", "exited"}, Terminate(how), ~Down
        PROVE  Service!Next
    <3>1. Down' /\ \A c \in Conns : ~HasFd(c)'
      BY <2>6, ObjectsDiffer DEF Terminate, Down, HasFd, Sock, Free
    <3>2. phase' = phase /\ asked' = asked /\ sent' = sent
      BY <2>6 DEF Terminate
    <3>3. \A c \in Conns : Stage(c)' = IF Stage(c) = "idle" THEN "idle" ELSE "closed"
      BY <2>2, <2>3, <2>6, <3>1, <3>2
    <3>4. [c \in Conns |-> Stage(c)]'
            = [c \in Conns |-> IF [d \in Conns |-> Stage(d)][c] = "idle"
                               THEN "idle" ELSE "closed"]
      BY <3>3
    <3>5. [d \in Conns |-> [s \in Conns |-> sent[d][s]]]'
            = [d \in Conns |-> [s \in Conns |-> sent[d][s]]]
      BY <3>2
    <3>6. (~Down)' = FALSE
      BY <3>1
    <3>7. Service!Stop
      BY <2>0, <2>6, <3>2, <3>4, <3>5, <3>6 DEF Service!Stop
    <3> QED
      BY <3>7 DEF Service!Next
  \* Only accept() and close() change who has a descriptor.
  <2>7. ASSUME ~Down', NEW c \in Conns, ~Accept(c), ~Close(c)
        PROVE  HasFd(c)' <=> HasFd(c)
    BY <2>1, <2>7, FdMoves
  <2>8. CASE \E c \in Conns : Connect(c)
    <3>1. PICK c \in Conns : Connect(c)
      BY <2>8
    <3>2. ~Down /\ ~Down' /\ UNCHANGED <<asked, sent>> /\ main' = main
      BY <3>1 DEF Connect, Down, mainVars, clientVars
    <3>3. /\ phase[c] = "new" /\ phase'[c] = "queued"
          /\ \A d \in Conns : d # c => phase'[d] = phase[d]
      BY <2>3, <3>1 DEF Connect
    <3>4. \A d \in Conns : HasFd(d)' <=> HasFd(d)
      BY <3>1 DEF Connect, HasFd, Sock
    <3>5. \A d \in Conns : d # c => Stage(d)' = Stage(d)
      BY <2>2, <3>2, <3>3, <3>4
    <3>6. Stage(c) = "idle" /\ Stage(c)' = "pending"
      BY <2>2, <3>2, <3>3
    <3> QED
      BY <2>5, <3>2, <3>5, <3>6
  <2>9. CASE \E c \in Conns : Accept(c)
    <3>1. PICK c \in Conns : Accept(c)
      BY <2>9
    <3>2. ~Down /\ ~Down' /\ UNCHANGED <<asked, sent>>
      BY <3>1 DEF Accept, Down, clientVars
    <3>3. /\ phase[c] = "queued" /\ phase'[c] = "accepted"
          /\ \A d \in Conns : d # c => phase'[d] = phase[d]
      BY <2>3, <3>1 DEF Accept
    <3>4. ASSUME NEW d \in Conns, d # c PROVE HasFd(d)' <=> HasFd(d)
      <4>1. ~Accept(d)
        BY <3>1, <3>4 DEF Accept
      <4>2. ~Close(d)
        BY <3>1 DEF Accept, Close, mainVars
      <4> QED
        BY <2>7, <3>2, <4>1, <4>2
    <3>5. HasFd(c)'
      <4>1. PICK f \in Fds : fdt' = [fdt EXCEPT ![f] = Sock(c)]
        BY <3>1 DEF Accept, FreeFds
      <4>2. fdt'[f] = Sock(c)'
        BY <4>1 DEF Inv, TypeOK, KernelTypes, Sock
      <4> QED
        BY <4>2 DEF HasFd
    <3>6. \A d \in Conns : d # c => Stage(d)' = Stage(d)
      BY <2>2, <3>2, <3>3, <3>4
    <3>7. Stage(c) = "pending" /\ Stage(c)' = "serving"
      BY <2>2, <3>2, <3>3, <3>5
    <3> QED
      BY <2>5, <3>2, <3>6, <3>7
  <2>10. CASE \E c \in Conns : Close(c)
    <3>1. PICK c \in Conns : Close(c)
      BY <2>10
    <3>2. ~Down /\ ~Down' /\ UNCHANGED <<asked, sent, phase>>
      BY <3>1 DEF Close, Down, clientVars, mainVars, Ended
    <3>3. ASSUME NEW d \in Conns, d # c PROVE HasFd(d)' <=> HasFd(d)
      <4>1. ~Accept(d)
        BY <3>1, <3>2, <2>3 DEF Accept, Close
      <4>2. pc'[d] = pc[d]
        BY <3>1, <3>3 DEF Close, Inv, TypeOK, ControlTypes
      <4>3. ~Close(d)
        BY <4>2 DEF Close, Inv, TypeOK, ControlTypes
      <4> QED
        BY <2>7, <3>2, <4>1, <4>3
    <3>4. sock[c] \in Fds /\ fdt[sock[c]] = Sock(c)
      BY <2>1, <3>1, AtObject DEF Close, Inv, FdInv, OwnSocket, Holding
    <3>5. HasFd(c)
      BY <3>4 DEF HasFd
    <3>6. ~HasFd(c)'
      <4>1. \A f \in Fds : fdt'[f] = IF f = sock[c] THEN Free ELSE fdt[f]
        BY <3>1 DEF Close, Closed
      <4>2. \A f \in Fds : fdt[f] = Sock(c) => f = sock[c]
        BY <2>1, <3>4 DEF Inv, FdInv, Table
      <4> QED
        BY <4>1, <4>2, ObjectsDiffer DEF HasFd, Sock
    <3>7. phase[c] = "accepted"
      BY <2>1, <3>4 DEF Inv, FdInv, Table
    <3>8. \A d \in Conns : d # c => Stage(d)' = Stage(d)
      BY <2>2, <3>2, <3>3
    <3>9. Stage(c) = "serving" /\ Stage(c)' = "closed"
      BY <2>2, <3>2, <3>5, <3>6, <3>7
    <3> QED
      BY <2>5, <3>2, <3>8, <3>9
  <2>11. CASE \E c \in Conns : \E k \in Kinds : SendMessage(c, k)
    <3>1. PICK c \in Conns, k \in Kinds : SendMessage(c, k)
      BY <2>11
    <3>2. /\ ~Down /\ ~Down' /\ UNCHANGED <<phase, sent, fdt>>
          /\ asked' = [asked EXCEPT ![c] = @ + 1]
      BY <3>1 DEF SendMessage, Talking, Down, mainVars
    <3>3. \A d \in Conns : HasFd(d)' <=> HasFd(d)
      BY <3>2 DEF HasFd, Sock
    <3>4. \A d \in Conns : Stage(d)' = Stage(d)
      BY <2>2, <3>2, <3>3
    <3>5. phase[c] = "queued" \/ (HasFd(c) /\ phase[c] = "accepted")
      BY <2>1, <3>1, OpenIsFd DEF SendMessage, Talking, Inv, FdInv, Table, HasFd
    <3>6. Stage(c) \in {"pending", "serving"}
      BY <2>2, <3>2, <3>5
    <3>7. [d \in Conns |-> Stage(d)]' = [d \in Conns |-> Stage(d)]
      BY <3>4
    <3>8. [d \in Conns |-> [s \in Conns |-> sent[d][s]]]'
            = [d \in Conns |-> [s \in Conns |-> sent[d][s]]]
      BY <3>2
    <3>9. [d \in Conns |-> Stage(d)][c] \in {"pending", "serving"}
      BY <3>6
    <3>10. (~Down)' = ~Down
      BY <3>2
    <3>11. Service!Ask(c)
      BY <2>0, <3>2, <3>7, <3>8, <3>9, <3>10 DEF Service!Ask
    <3> QED
      BY <3>11 DEF Service!Next
  <2>12. CASE \E c \in Conns : SendOk(c)
    <3>1. PICK c \in Conns : SendOk(c)
      BY <2>12
    <3>2. ~Down /\ ~Down' /\ UNCHANGED <<phase, asked, fdt>>
      BY <3>1 DEF SendOk, Down, mainVars, clientVars, Ended
    <3>3. At(sock[c]) = Sock(c) /\ from[c] = c /\ left[c] # <<>>
      BY <2>1, <3>1
         DEF SendOk, Inv, TypeOK, ControlTypes, FdInv, OwnSocket, Holding, DataInv,
             Source, Serving
    <3>4. At(sock[c]).conn = c
      BY <3>3 DEF Sock
    <3>5. peer[c] # "gone" /\ sent' = [sent EXCEPT ![c][c] = @ + 1]
      BY <3>1, <3>3, <3>4 DEF SendOk
    <3>6. /\ sent[c][c] \in Nat /\ asked[c] \in Nat
          /\ Len(left[c]) \in Nat /\ Len(inbox[c]) \in Nat /\ Len(left[c]) # 0
      BY <3>3, BudgetTypes DEF Inv
    <3>7. sent[c][c] < asked[c]
      BY <2>1, <3>5, <3>6 DEF Inv, DataInv, Budget
    <3>8. HasFd(c) /\ phase[c] = "accepted"
      BY <2>1, <3>3, AtObject DEF HasFd, Inv, FdInv, Table
    <3>9. \A d \in Conns : HasFd(d)' <=> HasFd(d)
      BY <3>2 DEF HasFd, Sock
    <3>10. \A d \in Conns : Stage(d)' = Stage(d)
      BY <2>2, <3>2, <3>9
    <3>11. [d \in Conns |-> Stage(d)]' = [d \in Conns |-> Stage(d)]
      BY <3>10
    <3>12. [d \in Conns |-> Stage(d)][c] = "serving"
      BY <2>2, <3>8
    <3> DEFINE answered == [d \in Conns |-> [s \in Conns |-> sent[d][s]]]
    <3>13. sent \in [Conns -> [Conns \union {None} -> Nat]]
      BY DEF Inv, TypeOK
    <3>14. \A d, s \in Conns :
             sent'[d][s] = IF d = c /\ s = c THEN sent[c][c] + 1 ELSE sent[d][s]
      BY <3>5, <3>13
    <3>15. answered' = [answered EXCEPT ![c][c] = @ + 1]
      <4>1. answered' = [d \in Conns |-> [s \in Conns |->
                          IF d = c /\ s = c THEN sent[c][c] + 1 ELSE sent[d][s]]]
        BY <3>14
      <4>2. [answered[c] EXCEPT ![c] = @ + 1]
              = [s \in Conns |-> IF s = c THEN sent[c][c] + 1 ELSE sent[c][s]]
        OBVIOUS
      <4>3. [answered EXCEPT ![c] = [answered[c] EXCEPT ![c] = @ + 1]]
              = [d \in Conns |-> [s \in Conns |->
                  IF d = c /\ s = c THEN sent[c][c] + 1 ELSE sent[d][s]]]
        BY <4>2
      <4> QED
        BY <4>1, <4>3
    <3>16. answered[c][c] < asked[c]
      BY <3>7
    <3>17. (~Down)' = ~Down
      BY <3>2
    <3>18. Service!Answer(c)
      BY <2>0, <3>2, <3>11, <3>12, <3>15, <3>16, <3>17 DEF Service!Answer
    <3> QED
      BY <3>18 DEF Service!Next
  \* The rest only concerns what the service does not show.
  <2>13. ASSUME NEW c \in Conns, Worker(c), ~Close(c), ~SendOk(c),
                ~\E how \in {"killed", "exited"} : Terminate(how)
         PROVE  Down' = Down /\ ~Down' /\ UNCHANGED <<phase, asked, sent>>
    BY <2>13
       DEF Worker, ThreadEntry, MakeHttp, RecvCall, RecvData, RecvEof, RecvBadFd,
           RecvError, ParseStale, ParseReject, ParseMessage, RouteOpen, RouteRead,
           RouteClose, SendFail, SendKilled, Killed, Down, Ended, mainVars, clientVars
  <2>14. ASSUME NEW c \in Conns, Fin(c) \/ Reset(c)
         PROVE  Down' = Down /\ ~Down' /\ UNCHANGED <<phase, asked, sent>>
    BY <2>14 DEF Fin, Reset, Talking, Down, mainVars
  <2>15. ASSUME AcceptEmfile \/ AcceptError \/ Store \/ Spawn \/ SpawnError
         PROVE  Down' = Down /\ ~Down' /\ UNCHANGED <<phase, asked, sent>>
    BY <2>15 DEF AcceptEmfile, AcceptError, Store, Spawn, SpawnError, LoopReturns,
                 Down, clientVars
  <2>16. CASE UNCHANGED vars
    <3>1. Down' = Down /\ UNCHANGED <<phase, asked, sent, fdt>>
      BY <2>16 DEF vars, mainVars, clientVars, Down
    <3>2. \A c \in Conns : HasFd(c)' <=> HasFd(c)
      BY <3>1 DEF HasFd, Sock
    <3> QED
      BY <2>4, <3>1, <3>2
  <2>17. ASSUME ~\E c \in Conns : Accept(c) \/ Close(c),
                ~Down', Down' = Down, UNCHANGED <<phase, asked, sent>>
         PROVE  UNCHANGED Service!svars
    BY <2>4, <2>7, <2>17
  <2>18. ASSUME NEW how \in {"killed", "exited"}, Terminate(how), NEW c \in Conns,
                Worker(c) \/ Exit
         PROVE  Service!Next
    <3>1. ~Down
      BY <2>18
         DEF Exit, Down, Ended, Worker, ThreadEntry, MakeHttp, RecvCall, RecvData,
             RecvEof, RecvBadFd, RecvError, ParseReject, ParseMessage, RouteOpen,
             RouteRead, RouteClose, SendOk, SendFail, SendKilled, Close
    <3> QED
      BY <2>6, <2>18, <3>1
  <2> QED
    <3>1. CASE \E c \in Conns : Worker(c)
      BY <2>10, <2>12, <2>13, <2>17, <2>18, <2>9, <3>1
    <3>2. CASE Exit
      <4>1. Terminate("exited") /\ ~Down
        BY <3>2 DEF Exit, Down
      <4> QED
        BY <2>6, <4>1
    <3>3. CASE \E c \in Conns : Client(c)
      BY <2>8, <2>9, <2>10, <2>11, <2>14, <2>17, <3>3 DEF Client
    <3> QED
      BY <2>9, <2>10, <2>15, <2>16, <2>17, <3>1, <3>2, <3>3 DEF Next, Main
<1> QED
  BY <1>1, <1>2

\* run_serverloop and the workers implement ConnService.
THEOREM ServiceImplemented == Spec => ImplementsService
<1>1. Init => Service!Init /\ Ended
  <2> SUFFICES ASSUME Init PROVE Service!Init /\ Ended
    OBVIOUS
  <2>1. \A c \in Conns : Stage(c) = "idle"
    BY DEF Init, Stage
  <2>2. [c \in Conns |-> Stage(c)] = [c \in Conns |-> "idle"]
    BY <2>1
  <2>3. [d \in Conns |-> [s \in Conns |-> sent[d][s]]]
          = [d \in Conns |-> [s \in Conns |-> 0]]
    BY DEF Init
  <2>4. ~Down /\ clobbered = FALSE /\ asked = [c \in Conns |-> 0]
    BY DEF Init, Down
  <2>5. (~Down) = TRUE
    BY <2>4
  <2> QED
    BY <2>2, <2>3, <2>4, <2>5 DEF Service!Init, Ended
<1>2. Spec => []Ended
  <2>1. TypeOK /\ Ended /\ [Next]_vars => Ended'
    BY NextEnded
  <2> QED
    BY <1>1, <2>1, TypeCorrect, PTL DEF Spec
<1>3. Inv /\ Inv' /\ Ended /\ [Next]_vars => [Service!Next]_(Service!svars)
  BY ServiceStep
<1> QED
  BY <1>1, <1>2, <1>3, Invariance, PTL DEF Spec, ImplementsService, Service!Spec

=============================================================================
