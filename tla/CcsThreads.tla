----------------------------- MODULE CcsThreads -----------------------------
(***************************************************************************)
(* The threads of the connection server: the main thread (CMainCtrl)       *)
(* accepts connections and hands each to the auxiliary thread (CAuxHandle) *)
(* that seems to have the fewest, through a pipe of that thread's own; two *)
(* signals set the flag the main thread looks at once per turn.            *)
(*                                                                         *)
(* What the threads share is the counters of connections, read without a   *)
(* lock, the pipes, and the descriptors of the process: one that a thread  *)
(* closes may be given to the next connection before that thread has       *)
(* struck it from its table.  Requests and replies are in CcsAux,          *)
(* RecvFraming and OutStream.                                              *)
(***************************************************************************)
EXTENDS Naturals, Sequences, FiniteSets

CONSTANTS
  Aux,             (* the auxiliary threads, 0 .. m_iAuxHandleNum - 1       *)
  Masks,           (* m_aiTcpPortAuxMask: the threads each port may use     *)
  Fds,             (* bound: the descriptors there can be                   *)
  MAX_SOCKET_NUM,  (* slots in the table of a thread                        *)
  ClientLimit,     (* a thread with as many connections is not selected     *)
  PipeCap,         (* bound: messages a pipe has room for                   *)
  Conns,           (* bound: the connections clients make, 1 .. n           *)
  MaxSignals       (* bound: how many signals are sent                      *)

ASSUME ThreadsAssumption ==
  /\ Aux = 0 .. Cardinality(Aux) - 1 /\ IsFiniteSet(Aux) /\ Masks \subseteq SUBSET Aux
  /\ Fds \subseteq Nat \ {0}
  /\ MAX_SOCKET_NUM \in Nat \ {0} /\ ClientLimit \in Nat /\ PipeCap \in Nat \ {0}
  /\ Conns = 1 .. Cardinality(Conns) /\ IsFiniteSet(Conns)
  /\ MaxSignals \in Nat

VARIABLES
  m_iRunFlag,      (* what the last signal asked for: reload, exit or none  *)
  signals,         (* how many were sent                                    *)
  mpc,             (* where the main thread is                              *)
  new,             (* the connection it has accepted                        *)
  newSocket,       (* and its descriptor                                    *)
  iAuxMask,        (* the threads it may be given to                        *)
  i,               (* the thread its loop is at                             *)
  iSelectAuxId,    (* the thread selected; -1 is NoAux                      *)
  unMaxTcpClient,  (* and how many connections that one seemed to have      *)
  m_iRunStatus,    (* of every auxiliary thread: running, stopped           *)
  apc,             (* where it is                                           *)
  m_Main2MePipe,   (* the connections handed to it                          *)
  m_pSocket,       (* its table: of every slot the connection and its fd    *)
  m_unTcpClientNum,(* how many connections it counts                        *)
  events,          (* the slots in its batch of events not yet handled      *)
  clearing,        (* the slot it is clearing, the descriptor closed        *)
  client,          (* external: "off" before it connects, "open", or "gone" *)
                   (* when nothing but the end is left to be read           *)
  kernel,          (* external: the connection each descriptor stands for   *)
  refused          (* history: connections whose hand-over found no room    *)

mainVars == <<mpc, new, newSocket, iAuxMask, i, iSelectAuxId, unMaxTcpClient>>
auxVars  == <<apc, m_Main2MePipe, m_pSocket, m_unTcpClientNum, events, clearing>>
vars ==
  <<m_iRunFlag, signals, mainVars, m_iRunStatus, auxVars, client, kernel, refused>>

Slots    == 0 .. MAX_SOCKET_NUM - 1
NoSlot   == MAX_SOCKET_NUM
NoAux    == Cardinality(Aux)
Nobody   == 0
FreeNode == [m_iSocket |-> 0, conn |-> Nobody]

Taken(t, s) == m_pSocket[t][s] # FreeNode
Open(c)     == \E f \in Fds : kernel[f] = c

Init ==
  /\ m_iRunFlag = "none" /\ signals = 0
  /\ mpc = "top" /\ new = Nobody /\ newSocket = 0 /\ iAuxMask = {}
  /\ i = 0 /\ iSelectAuxId = NoAux /\ unMaxTcpClient = ClientLimit
  /\ m_iRunStatus = [t \in Aux |-> "running"]
  /\ apc = [t \in Aux |-> "created"]
  /\ m_Main2MePipe = [t \in Aux |-> <<>>]
  /\ m_pSocket = [t \in Aux |-> [s \in Slots |-> FreeNode]]
  /\ m_unTcpClientNum = [t \in Aux |-> 0]
  /\ events = [t \in Aux |-> {}]
  /\ clearing = [t \in Aux |-> NoSlot]
  /\ client = [c \in Conns |-> "off"]
  /\ kernel = [f \in Fds |-> Nobody]
  /\ refused = {}

-----------------------------------------------------------------------------
(* The clients, and who sends signals (bin/stop_ccs.sh, bin/reload_ccs.sh). *)

Leaves(c) ==
  /\ client[c] = "open"
  /\ client' = [client EXCEPT ![c] = "gone"]
  /\ UNCHANGED <<m_iRunFlag, signals, mainVars, m_iRunStatus, auxVars, kernel, refused>>

SetRunFlag(flag) ==
  /\ signals < MaxSignals /\ mpc # "exited"
  /\ signals' = signals + 1
  /\ m_iRunFlag' = flag
  /\ UNCHANGED <<mainVars, m_iRunStatus, auxVars, client, kernel, refused>>

-----------------------------------------------------------------------------
(* The main thread.                                                        *)

RunTop ==
  /\ mpc = "top"
  /\ mpc' = CASE m_iRunFlag = "exit" -> "stop"
              [] m_iRunFlag = "reload" -> "reload"
              [] OTHER -> "listen"
  /\ UNCHANGED <<m_iRunFlag, signals, new, newSocket, iAuxMask, i, iSelectAuxId,
                 unMaxTcpClient, m_iRunStatus, auxVars, client, kernel, refused>>

(* ReadCfgFile is done; whatever the flag says by now is forgotten.        *)
Reloaded ==
  /\ mpc = "reload"
  /\ m_iRunFlag' = "none"
  /\ mpc' = "listen"
  /\ UNCHANGED <<signals, new, newSocket, iAuxMask, i, iSelectAuxId, unMaxTcpClient,
                 m_iRunStatus, auxVars, client, kernel, refused>>

(* CheckClientMessage: a client connects and accept() gives a descriptor   *)
(* that is free; or nobody does, or there is none.                         *)
Accept(c, f, mask) ==
  /\ mpc = "listen"
  /\ client[c] = "off" /\ \A d \in 1 .. c - 1 : client[d] # "off"
  /\ kernel[f] = Nobody
  /\ client' = [client EXCEPT ![c] = "open"]
  /\ kernel' = [kernel EXCEPT ![f] = c]
  /\ new' = c /\ newSocket' = f /\ iAuxMask' = mask
  /\ mpc' = "select"
  /\ UNCHANGED <<m_iRunFlag, signals, i, iSelectAuxId,
                 unMaxTcpClient, m_iRunStatus, auxVars, refused>>

NothingToAccept ==
  /\ mpc = "listen"
  /\ mpc' = "top"
  /\ UNCHANGED <<m_iRunFlag, signals, new, newSocket, iAuxMask, i, iSelectAuxId,
                 unMaxTcpClient, m_iRunStatus, auxVars, client, kernel, refused>>

(* SelectAuxThreadForClient looks at the counters one after the other; the *)
(* first of those that seem to have the fewest connections is taken.       *)
SelectAux ==
  /\ mpc = "select"
  /\ i \in Aux
  /\ IF i \in iAuxMask /\ m_unTcpClientNum[i] < unMaxTcpClient
       THEN iSelectAuxId' = i /\ unMaxTcpClient' = m_unTcpClientNum[i]
       ELSE UNCHANGED <<iSelectAuxId, unMaxTcpClient>>
  /\ i' = i + 1
  /\ UNCHANGED <<m_iRunFlag, signals, mpc, new, newSocket, iAuxMask, m_iRunStatus, auxVars,
                 client, kernel, refused>>

(* The locals of the selection are those of the next call.                 *)
BackToTop ==
  /\ mpc' = "top" /\ new' = Nobody /\ newSocket' = 0 /\ iAuxMask' = {}
  /\ i' = 0 /\ iSelectAuxId' = NoAux /\ unMaxTcpClient' = ClientLimit

NoAuxSelected ==
  /\ mpc = "select" /\ i = NoAux /\ iSelectAuxId = NoAux
  /\ kernel' = [kernel EXCEPT ![newSocket] = Nobody]
  /\ BackToTop
  /\ UNCHANGED <<m_iRunFlag, signals, m_iRunStatus,
                 auxVars, client, refused>>

(* Mutant: a connection that was handed over is closed here as well.       *)
HandOverCloses ==
  /\ mpc = "select" /\ i = NoAux /\ iSelectAuxId # NoAux
  /\ m_Main2MePipe' = [m_Main2MePipe EXCEPT ![iSelectAuxId] =
                         Append(@, [conn |-> new, m_iSuffix |-> newSocket])]
  /\ kernel' = [kernel EXCEPT ![newSocket] = Nobody]
  /\ BackToTop
  /\ UNCHANGED <<m_iRunFlag, signals, m_iRunStatus,
                 apc, m_pSocket, m_unTcpClientNum, events, clearing, client, refused>>

(* Whether the pipe had room is not looked at: without it nobody has the   *)
(* descriptor any more, and it stays open.                                 *)
HandOver ==
  /\ mpc = "select" /\ i = NoAux /\ iSelectAuxId # NoAux
  /\ \/ /\ Len(m_Main2MePipe[iSelectAuxId]) < PipeCap
        /\ m_Main2MePipe' = [m_Main2MePipe EXCEPT ![iSelectAuxId] =
                               Append(@, [conn |-> new, m_iSuffix |-> newSocket])]
        /\ UNCHANGED refused
     \/ /\ Len(m_Main2MePipe[iSelectAuxId]) = PipeCap
        /\ refused' = refused \cup {new}
        /\ UNCHANGED m_Main2MePipe
  /\ BackToTop
  /\ UNCHANGED <<m_iRunFlag, signals, m_iRunStatus,
                 apc, m_pSocket, m_unTcpClientNum, events, clearing, client, kernel>>

(* StopThread of one thread after the other, each joined before the next.  *)
StopThread ==
  /\ mpc = "stop" /\ i \in Aux
  /\ m_iRunStatus' = [m_iRunStatus EXCEPT ![i] = "stopped"]
  /\ mpc' = "join"
  /\ UNCHANGED <<m_iRunFlag, signals, new, newSocket, iAuxMask, i, iSelectAuxId, unMaxTcpClient,
                 auxVars, client, kernel, refused>>

Joined ==
  /\ mpc = "join" /\ apc[i] = "ended"
  /\ i' = i + 1 /\ mpc' = "stop"
  /\ UNCHANGED <<m_iRunFlag, signals, new, newSocket, iAuxMask, iSelectAuxId,
                 unMaxTcpClient, m_iRunStatus, auxVars, client, kernel, refused>>

(* The end of the process closes what is open.                             *)
ServerExit ==
  /\ mpc = "stop" /\ i = NoAux
  /\ mpc' = "exited"
  /\ kernel' = [f \in Fds |-> Nobody]
  /\ UNCHANGED <<m_iRunFlag, signals, new, newSocket, iAuxMask, i, iSelectAuxId,
                 unMaxTcpClient, m_iRunStatus, auxVars, client, refused>>

-----------------------------------------------------------------------------
(* An auxiliary thread.  It does nothing else between closing a descriptor *)
(* and freeing the slot.                                                   *)

At(t, pc) == apc[t] = pc /\ clearing[t] = NoSlot /\ mpc # "exited"

(* Mutant: only the thread itself says that it is running.                 *)
RunSetsStatus(t) ==
  /\ At(t, "created")
  /\ apc' = [apc EXCEPT ![t] = "top"]
  /\ m_iRunStatus' = [m_iRunStatus EXCEPT ![t] = "running"]
  /\ UNCHANGED <<m_iRunFlag, signals, mainVars, m_Main2MePipe, m_pSocket,
                 m_unTcpClientNum, events, clearing, client, kernel, refused>>

(* The status was set before the thread was created.                       *)
Run(t) ==
  /\ At(t, "created")
  /\ apc' = [apc EXCEPT ![t] = "top"]
  /\ UNCHANGED <<m_iRunFlag, signals, mainVars, m_iRunStatus, m_Main2MePipe, m_pSocket,
                 m_unTcpClientNum, events, clearing, client, kernel, refused>>

(* A turn of the loop, unless the thread is stopped, begins with a batch   *)
(* of events: the connections that ended, and any that sent something.     *)
Wait(t) ==
  /\ At(t, "top")
  /\ IF m_iRunStatus[t] = "stopped"
       THEN apc' = [apc EXCEPT ![t] = "ended"] /\ UNCHANGED events
       ELSE /\ apc' = [apc EXCEPT ![t] = "batch"]
            /\ \E E \in SUBSET {s \in Slots : Taken(t, s)} :
                 /\ \A s \in Slots :
                      Taken(t, s) /\ client[m_pSocket[t][s].conn] = "gone" => s \in E
                 /\ events' = [events EXCEPT ![t] = E]
  /\ UNCHANGED <<m_iRunFlag, signals, mainVars, m_iRunStatus, m_Main2MePipe, m_pSocket,
                 m_unTcpClientNum, clearing, client, kernel, refused>>

(* ClearSocketNode up to close(): another thread may be given the          *)
(* descriptor from now on.                                                 *)
ClearSocketNode(t, s) ==
  /\ m_unTcpClientNum' = [m_unTcpClientNum EXCEPT ![t] = @ - 1]
  /\ kernel' = [kernel EXCEPT ![m_pSocket[t][s].m_iSocket] = Nobody]
  /\ clearing' = [clearing EXCEPT ![t] = s]

(* Mutant: the slot keeps its descriptor, so that it is closed twice.      *)
SlotKept(t) ==
  /\ clearing[t] # NoSlot /\ mpc # "exited"
  /\ clearing' = [clearing EXCEPT ![t] = NoSlot]
  /\ UNCHANGED <<m_iRunFlag, signals, mainVars, m_iRunStatus, apc, m_Main2MePipe,
                 m_pSocket, m_unTcpClientNum, events, client, kernel, refused>>

SlotFreed(t) ==
  /\ clearing[t] # NoSlot /\ mpc # "exited"
  /\ m_pSocket' = [m_pSocket EXCEPT ![t][clearing[t]] = FreeNode]
  /\ clearing' = [clearing EXCEPT ![t] = NoSlot]
  /\ UNCHANGED <<m_iRunFlag, signals, mainVars, m_iRunStatus, apc, m_Main2MePipe,
                 m_unTcpClientNum, events, client, kernel, refused>>

(* The client has ended, or CCS gives it up: a bad message, the load limit, *)
(* a pipe to MCP or a pool without room.                                   *)
RecvClientData(t, s) ==
  \/ ClearSocketNode(t, s)
  \/ /\ client[m_pSocket[t][s].conn] # "gone"
     /\ UNCHANGED <<m_unTcpClientNum, kernel, clearing>>

(* CheckClientMessage, one event.  The slot may have been freed, or given  *)
(* to another connection, since epoll_wait.  An error of the socket or of  *)
(* a flush closes the connection too; after a flush that failed the rest   *)
(* of the batch is left.                                                   *)
HandleEvent(t, s) ==
  /\ At(t, "batch") /\ s \in events[t]
  /\ \/ /\ ~Taken(t, s)
        /\ UNCHANGED <<m_unTcpClientNum, kernel, clearing>>
        /\ events' = [events EXCEPT ![t] = @ \ {s}]
     \/ /\ Taken(t, s) /\ RecvClientData(t, s)
        /\ events' = [events EXCEPT ![t] = @ \ {s}]
     \/ /\ Taken(t, s) /\ ClearSocketNode(t, s)
        /\ events' = [events EXCEPT ![t] = {}]
  /\ UNCHANGED <<m_iRunFlag, signals, mainVars, m_iRunStatus, apc, m_Main2MePipe,
                 m_pSocket, client, refused>>

(* Mutant: a slot that is taken is overwritten.                            *)
CreateSocketNodeOver(t) ==
  /\ At(t, "batch") \/ At(t, "main")
  /\ m_Main2MePipe[t] # <<>>
  /\ m_Main2MePipe' = [m_Main2MePipe EXCEPT ![t] = Tail(@)]
  /\ LET m == Head(m_Main2MePipe[t]) IN
       m_pSocket' = [m_pSocket EXCEPT ![t][m.m_iSuffix % MAX_SOCKET_NUM] =
                       [m_iSocket |-> m.m_iSuffix, conn |-> m.conn]]
  /\ m_unTcpClientNum' = [m_unTcpClientNum EXCEPT ![t] = @ + 1]
  /\ UNCHANGED <<m_iRunFlag, signals, mainVars, m_iRunStatus, apc, events, clearing,
                 client, kernel, refused>>

(* CheckMainMessage, also as one of the events: a connection that was      *)
(* handed over gets its slot, or is closed when the slot is taken.         *)
CreateSocketNode(t) ==
  /\ At(t, "batch") \/ At(t, "main")
  /\ m_Main2MePipe[t] # <<>>
  /\ m_Main2MePipe' = [m_Main2MePipe EXCEPT ![t] = Tail(@)]
  /\ LET m == Head(m_Main2MePipe[t])
         iPos == m.m_iSuffix % MAX_SOCKET_NUM
     IN \/ /\ ~Taken(t, iPos)
           /\ m_pSocket' = [m_pSocket EXCEPT ![t][iPos] =
                              [m_iSocket |-> m.m_iSuffix, conn |-> m.conn]]
           /\ m_unTcpClientNum' = [m_unTcpClientNum EXCEPT ![t] = @ + 1]
           /\ UNCHANGED kernel
        \/ /\ Taken(t, iPos)
           /\ kernel' = [kernel EXCEPT ![m.m_iSuffix] = Nobody]
           /\ UNCHANGED <<m_pSocket, m_unTcpClientNum>>
  /\ UNCHANGED <<m_iRunFlag, signals, mainVars, m_iRunStatus, apc, events, clearing,
                 client, refused>>

(* CheckSvrMessage, also as one of the events: a reply that the send       *)
(* buffers have no room for costs the connection, whatever its client does; *)
(* a send() that fails is left to the events.                              *)
AppendRefused(t, s) ==
  /\ At(t, "batch") \/ At(t, "svr")
  /\ Taken(t, s)
  /\ ClearSocketNode(t, s)
  /\ UNCHANGED <<m_iRunFlag, signals, mainVars, m_iRunStatus, apc, m_Main2MePipe,
                 m_pSocket, events, client, refused>>

(* Mutant: the pipe is read only when the notification is among the events. *)
GoOnUnnotified(t) ==
  /\ \/ At(t, "batch") /\ events[t] = {} /\ apc' = [apc EXCEPT ![t] = "svr"]
     \/ At(t, "svr") /\ apc' = [apc EXCEPT ![t] = "top"]
  /\ UNCHANGED <<m_iRunFlag, signals, mainVars, m_iRunStatus, m_Main2MePipe, m_pSocket,
                 m_unTcpClientNum, events, clearing, client, kernel, refused>>

(* On to the next part of the turn when this one has nothing left.         *)
GoOn(t) ==
  /\ \/ At(t, "batch") /\ events[t] = {} /\ apc' = [apc EXCEPT ![t] = "main"]
     \/ At(t, "main") /\ m_Main2MePipe[t] = <<>> /\ apc' = [apc EXCEPT ![t] = "svr"]
     \/ At(t, "svr") /\ apc' = [apc EXCEPT ![t] = "top"]
  /\ UNCHANGED <<m_iRunFlag, signals, mainVars, m_iRunStatus, m_Main2MePipe, m_pSocket,
                 m_unTcpClientNum, events, clearing, client, kernel, refused>>

-----------------------------------------------------------------------------
MainStep ==
  \/ RunTop \/ Reloaded \/ NothingToAccept
  \/ \E c \in Conns, f \in Fds, mask \in Masks : Accept(c, f, mask)
  \/ SelectAux \/ NoAuxSelected \/ HandOver
  \/ StopThread \/ Joined \/ ServerExit

AuxStep(t) ==
  \/ Run(t) \/ Wait(t) \/ SlotFreed(t) \/ CreateSocketNode(t) \/ GoOn(t)
  \/ \E s \in Slots : HandleEvent(t, s) \/ AppendRefused(t, s)

Next ==
  \/ \E c \in Conns : Leaves(c)
  \/ \E flag \in {"reload", "exit"} : SetRunFlag(flag)
  \/ MainStep
  \/ \E t \in Aux : AuxStep(t)

Spec == Init /\ [][Next]_vars

(* The threads run; clients and signals come or not.                       *)
FairSpec == Spec /\ WF_vars(MainStep) /\ \A t \in Aux : WF_vars(AuxStep(t))
-----------------------------------------------------------------------------
TypeOK ==
  /\ m_iRunFlag \in {"none", "reload", "exit"} /\ signals \in 0 .. MaxSignals
  /\ mpc \in {"top", "reload", "listen", "select", "stop", "join", "exited"}
  /\ new \in Conns \cup {Nobody} /\ newSocket \in Fds \cup {0} /\ iAuxMask \in Masks \cup {{}}
  /\ i \in Aux \cup {NoAux} /\ iSelectAuxId \in Aux \cup {NoAux}
  /\ unMaxTcpClient \in 0 .. ClientLimit
  /\ m_iRunStatus \in [Aux -> {"running", "stopped"}]
  /\ apc \in [Aux -> {"created", "top", "batch", "main", "svr", "ended"}]
  /\ m_Main2MePipe \in [Aux -> Seq([conn : Conns, m_iSuffix : Fds])]
  /\ m_pSocket \in [Aux -> [Slots -> [m_iSocket : Fds \cup {0}, conn : Conns \cup {Nobody}]]]
  /\ m_unTcpClientNum \in [Aux -> Nat]
  /\ events \in [Aux -> SUBSET Slots]
  /\ clearing \in [Aux -> Slots \cup {NoSlot}]
  /\ client \in [Conns -> {"off", "open", "gone"}]
  /\ kernel \in [Fds -> Conns \cup {Nobody}]
  /\ refused \subseteq Conns

(* The slots a thread serves; the one it is clearing is not among them.    *)
Served(t) == {s \in Slots : Taken(t, s) /\ s # clearing[t]}

InTable(c) == \E t \in Aux : \E s \in Served(t) : m_pSocket[t][s].conn = c

InPipe(c) ==
  \E t \in Aux : \E k \in 1 .. Len(m_Main2MePipe[t]) : m_Main2MePipe[t][k].conn = c

(* A descriptor in the main thread's hand, in a pipe or in a table still   *)
(* stands for the connection it was accepted for, whichever thread closed  *)
(* a descriptor of that number before: no thread reads or closes what      *)
(* belongs to another one.                                                 *)
DescriptorsTheirOwn ==
  mpc # "exited" =>
    /\ new # Nobody => kernel[newSocket] = new
    /\ \A t \in Aux :
         /\ \A k \in 1 .. Len(m_Main2MePipe[t]) :
              kernel[m_Main2MePipe[t][k].m_iSuffix] = m_Main2MePipe[t][k].conn
         /\ \A s \in Served(t) : kernel[m_pSocket[t][s].m_iSocket] = m_pSocket[t][s].conn

(* An open connection is in somebody's hands, except for one whose         *)
(* hand-over found the pipe full.                                          *)
NobodyForgotten ==
  \A c \in Conns : Open(c) => new = c \/ InPipe(c) \/ InTable(c) \/ c \in refused

(* The counter the main thread goes by is the number of connections.       *)
CountersRight == \A t \in Aux : m_unTcpClientNum[t] = Cardinality(Served(t))

(* Nobody is lost and nobody is counted who is not there.                  *)
Accounted == TypeOK /\ NobodyForgotten /\ CountersRight

(* A connection that was given a slot, ended or not, is closed by the      *)
(* thread of that slot, which strikes this very slot next, or by the end   *)
(* of the process: never by another thread, nor for the sake of another    *)
(* connection that had its descriptor, or its slot, before.                *)
ClosedByItsThread ==
  [][\A t \in Aux, c \in Conns : \A s \in Served(t) :
       m_pSocket[t][s].conn = c /\ ~Open(c)' => clearing'[t] = s \/ mpc' = "exited"]_vars

(* Clients come and go finitely often here, so that the following two can  *)
(* be said of the end of a behaviour.  Who is accepted gets a slot, unless *)
(* it is closed before or the pipe has no room: nobody waits in a pipe.    *)
AcceptedServed ==
  <>[](\A c \in Conns : Open(c) => InTable(c) \/ c \in refused)

(* The descriptor of a connection that has ended is closed.                *)
EndedClosed ==
  <>[](\A c \in Conns : client[c] = "gone" => ~Open(c) \/ c \in refused)

(* Both: when clients have come and gone, what is open is served.          *)
Settled == AcceptedServed /\ EndedClosed

(* A signal to exit that is not overwritten by another one and does not    *)
(* come during a reload (which forgets it) ends the threads and the        *)
(* server, also when a thread has not begun to run.                        *)
ExitObeyed ==
  (m_iRunFlag = "exit" /\ mpc # "reload") ~> (mpc = "exited" \/ m_iRunFlag # "exit")
=============================================================================
