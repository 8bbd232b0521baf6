--------------------------- MODULE CcsThreadsProofs ---------------------------
(***************************************************************************)
(* The safety properties of CcsThreads, for any number of threads, ports,  *)
(* descriptors, slots, connections and signals, any limits.                *)
(***************************************************************************)
EXTENDS CcsThreads, FiniteSetTheorems, TLAPS

(* A connection is in the main thread's hands while a thread is selected   *)
(* for it; a thread is joined that there is.                               *)
InHand ==
  /\ new # Nobody <=> mpc = "select"
  /\ new # Nobody => newSocket \in Fds
  /\ mpc = "join" => i \in Aux

(* A node that is not free names a connection and its descriptor.          *)
NodesWhole ==
  \A t \in Aux : \A s \in Slots :
    Taken(t, s) => m_pSocket[t][s].m_iSocket \in Fds /\ m_pSocket[t][s].conn \in Conns

(* A descriptor stands for a connection that was made, each for another.   *)
KernelRight ==
  /\ \A f \in Fds : kernel[f] # Nobody => client[kernel[f]] # "off"
  /\ \A f, g \in Fds : kernel[f] # Nobody /\ kernel[f] = kernel[g] => f = g

(* No descriptor is held twice: in the main thread's hand, in the pipes    *)
(* and in the tables.                                                      *)
NewApart ==
  new # Nobody =>
    \A t \in Aux :
      /\ \A k \in 1 .. Len(m_Main2MePipe[t]) : m_Main2MePipe[t][k].m_iSuffix # newSocket
      /\ \A s \in Served(t) : m_pSocket[t][s].m_iSocket # newSocket

PipesApart ==
  \A t, u \in Aux :
    \A k \in 1 .. Len(m_Main2MePipe[t]) : \A l \in 1 .. Len(m_Main2MePipe[u]) :
      m_Main2MePipe[t][k].m_iSuffix = m_Main2MePipe[u][l].m_iSuffix => t = u /\ k = l

PipeTableApart ==
  \A t, u \in Aux : \A k \in 1 .. Len(m_Main2MePipe[t]) : \A s \in Served(u) :
    m_Main2MePipe[t][k].m_iSuffix # m_pSocket[u][s].m_iSocket

TablesApart ==
  \A t, u \in Aux : \A r \in Served(t) : \A s \in Served(u) :
    m_pSocket[t][r].m_iSocket = m_pSocket[u][s].m_iSocket => t = u /\ r = s

IInv ==
  /\ Accounted
  /\ InHand /\ NodesWhole
  /\ mpc # "exited" =>
       /\ DescriptorsTheirOwn /\ KernelRight
       /\ NewApart /\ PipesApart /\ PipeTableApart /\ TablesApart

-----------------------------------------------------------------------------
LEMMA Remainder == ASSUME NEW n \in Int, NEW d \in Int, d > 0 PROVE n % d \in 0 .. d - 1
OBVIOUS

LEMMA SlotOf ==
  ASSUME NEW f \in Fds
  PROVE  f % MAX_SOCKET_NUM \in Slots
<1>1. f \in Int /\ MAX_SOCKET_NUM \in Int /\ MAX_SOCKET_NUM > 0
  BY ThreadsAssumption
<1> QED BY <1>1, Remainder DEF Slots

LEMMA HeadAndTail ==
  ASSUME NEW S, NEW s \in Seq(S), s # <<>>
  PROVE  /\ Head(s) \in S /\ Head(s) = s[1]
         /\ Tail(s) \in Seq(S) /\ Len(Tail(s)) = Len(s) - 1 /\ Len(s) \in Nat \ {0}
         /\ \A k \in 1 .. Len(Tail(s)) : k + 1 \in 1 .. Len(s) /\ Tail(s)[k] = s[k + 1]
OBVIOUS

LEMMA Entry == ASSUME NEW S, NEW s \in Seq(S), NEW k \in 1 .. Len(s) PROVE s[k] \in S
OBVIOUS

LEMMA Appended ==
  ASSUME NEW S, NEW s \in Seq(S), NEW x \in S
  PROVE  /\ Append(s, x) \in Seq(S) /\ Len(Append(s, x)) = Len(s) + 1 /\ Len(s) \in Nat
         /\ Append(s, x)[Len(s) + 1] = x
         /\ \A k \in 1 .. Len(s) : Append(s, x)[k] = s[k]
OBVIOUS

LEMMA NoOthers ==
  /\ NoAux \notin Aux /\ NoAux \in Nat /\ Aux = 0 .. NoAux - 1
  /\ NoSlot \notin Slots
  /\ Nobody \notin Conns /\ 0 \notin Fds /\ 0 \in Aux \cup {NoAux}
<1>1. NoAux \in Nat
  BY ThreadsAssumption, FS_CardinalityType DEF NoAux
<1>2. NoAux \notin Aux /\ Aux = 0 .. NoAux - 1
  BY <1>1, ThreadsAssumption DEF NoAux
<1>3. NoSlot \notin Slots
  BY ThreadsAssumption DEF NoSlot, Slots
<1>4. Nobody \notin Conns
  <2>1. PICK n \in Nat : Conns = 1 .. n
    BY ThreadsAssumption, FS_CardinalityType
  <2> QED BY <2>1 DEF Nobody
<1>5. 0 \notin Fds
  BY ThreadsAssumption
<1>6. 0 \in Aux \cup {NoAux}
  BY <1>1, <1>2
<1> QED BY <1>1, <1>2, <1>3, <1>4, <1>5, <1>6

LEMMA SlotsFinite ==
  ASSUME NEW t \in Aux
  PROVE  IsFiniteSet(Served(t)) /\ Cardinality(Served(t)) \in Nat
<1>1. IsFiniteSet(Slots)
  BY ThreadsAssumption, FS_Interval DEF Slots
<1> QED BY <1>1, FS_Subset, FS_CardinalityType DEF Served

(* The counter of a thread that serves somebody is not 0.                  *)
LEMMA CountsServed ==
  ASSUME IInv, NEW t \in Aux, NEW s \in Served(t)
  PROVE  m_unTcpClientNum[t] - 1 \in Nat
<1>1. m_unTcpClientNum[t] = Cardinality(Served(t)) /\ m_unTcpClientNum[t] # 0
  BY SlotsFinite, FS_EmptySet DEF IInv, Accounted, CountersRight
<1> QED BY <1>1, SlotsFinite

LEMMA InitIInv == ASSUME Init PROVE IInv
<1> USE DEF Init
<1>1. TypeOK
  BY ThreadsAssumption, NoOthers DEF TypeOK, NoSlot, FreeNode
<1>2. \A t \in Aux : Served(t) = {} /\ m_Main2MePipe[t] = <<>>
  BY DEF Served, Taken
<1>3. CountersRight
  BY <1>2, FS_EmptySet DEF CountersRight
<1>4. NobodyForgotten
  BY NoOthers DEF NobodyForgotten, Open
<1> QED
  BY <1>1, <1>2, <1>3, <1>4
  DEF IInv, Accounted, InHand, NodesWhole, Taken, DescriptorsTheirOwn, KernelRight,
      NewApart, PipesApart, PipeTableApart, TablesApart, Nobody
-----------------------------------------------------------------------------
(* Types.                                                                  *)
LEMMA MainTypes == ASSUME IInv, MainStep PROVE TypeOK'
<1>0. TypeOK /\ InHand
  BY DEF IInv, Accounted
<1>. USE <1>0, NoOthers DEF TypeOK, InHand, mainVars, auxVars
<1>1. CASE RunTop
  <2>1. mpc' \in {"stop", "reload", "listen"}
    BY ONLY <1>1, Zenon DEF RunTop
  <2> QED BY <1>1, <2>1 DEF RunTop
<1>2. CASE Reloaded \/ NothingToAccept
  BY <1>2 DEF Reloaded, NothingToAccept
<1>3. ASSUME NEW c \in Conns, NEW f \in Fds, NEW mask \in Masks, Accept(c, f, mask)
      PROVE  TypeOK'
  <2>1. /\ kernel' \in [Fds -> Conns \cup {Nobody}]
        /\ client' \in [Conns -> {"off", "open", "gone"}]
    BY <1>3 DEF Accept
  <2> QED BY <1>3, <2>1 DEF Accept
<1>4. CASE SelectAux
  <2>1. i' \in Aux \cup {NoAux}
    BY <1>4 DEF SelectAux
  <2>2. iSelectAuxId' \in Aux \cup {NoAux} /\ unMaxTcpClient' \in 0 .. ClientLimit
    <3>1. m_unTcpClientNum[i] < unMaxTcpClient => m_unTcpClientNum[i] \in 0 .. ClientLimit
      BY <1>4, ThreadsAssumption DEF SelectAux
    <3> QED BY <1>4, <3>1 DEF SelectAux
  <2> QED BY <1>4, <2>1, <2>2 DEF SelectAux
<1>5. CASE NoAuxSelected
  <2>1. kernel' \in [Fds -> Conns \cup {Nobody}]
    BY <1>5 DEF NoAuxSelected
  <2>2. unMaxTcpClient' \in 0 .. ClientLimit
    BY <1>5, ThreadsAssumption DEF NoAuxSelected, BackToTop
  <2> QED BY <1>5, <2>1, <2>2 DEF NoAuxSelected, BackToTop
<1>6. CASE HandOver
  <2>1. iSelectAuxId \in Aux /\ unMaxTcpClient' \in 0 .. ClientLimit
    BY <1>6, ThreadsAssumption DEF HandOver, BackToTop
  <2>2. mpc = "select" /\ new \in Conns /\ newSocket \in Fds
    BY <1>6 DEF HandOver
  <2>3. m_Main2MePipe' \in [Aux -> Seq([conn : Conns, m_iSuffix : Fds])]
    <3>1. Append(m_Main2MePipe[iSelectAuxId], [conn |-> new, m_iSuffix |-> newSocket])
            \in Seq([conn : Conns, m_iSuffix : Fds])
      <4> DEFINE S == [conn : Conns, m_iSuffix : Fds]
      <4>1. m_Main2MePipe[iSelectAuxId] \in Seq(S) /\ [conn |-> new, m_iSuffix |-> newSocket] \in S
        BY <2>1, <2>2
      <4>2. \A s \in Seq(S), x \in S : Append(s, x) \in Seq(S)
        OBVIOUS
      <4>. HIDE DEF S
      <4> QED BY ONLY <4>1, <4>2 DEF S
    <3> QED BY <1>6, <2>1, <3>1 DEF HandOver
  <2>4. refused' \subseteq Conns
    BY <1>6, <2>2 DEF HandOver
  <2> QED BY <1>6, <2>1, <2>3, <2>4 DEF HandOver, BackToTop
<1>7. CASE StopThread
  BY <1>7 DEF StopThread
<1>8. CASE Joined
  <2>1. i' \in Aux \cup {NoAux}
    BY <1>8 DEF Joined
  <2> QED BY <1>8, <2>1 DEF Joined
<1>9. CASE ServerExit
  BY <1>9 DEF ServerExit
<1> QED BY <1>1, <1>2, <1>3, <1>4, <1>5, <1>6, <1>7, <1>8, <1>9 DEF MainStep

(* What closes the descriptor of a served slot keeps the types.            *)
LEMMA ClearTypes ==
  ASSUME IInv, NEW t \in Aux, NEW s \in Slots, At(t, apc[t]), Taken(t, s),
         ClearSocketNode(t, s)
  PROVE  /\ m_unTcpClientNum' \in [Aux -> Nat]
         /\ kernel' \in [Fds -> Conns \cup {Nobody}]
         /\ clearing' \in [Aux -> Slots \cup {NoSlot}]
<1>1. s \in Served(t)
  BY NoOthers DEF Served, At
<1>2. m_unTcpClientNum[t] - 1 \in Nat
  BY <1>1, CountsServed
<1> QED BY <1>2 DEF IInv, Accounted, TypeOK, ClearSocketNode

LEMMA AuxTypes == ASSUME IInv, NEW t \in Aux, AuxStep(t) PROVE TypeOK'
<1> USE DEF mainVars, auxVars
<1>0. TypeOK
  BY DEF IInv, Accounted
<1>1. CASE Run(t) \/ GoOn(t)
  BY <1>0, <1>1 DEF Run, GoOn, TypeOK
<1>2. CASE Wait(t)
  <2>1. PICK E \in SUBSET Slots : events' = events \/ events' = [events EXCEPT ![t] = E]
    BY <1>2 DEF Wait
  <2>2. apc' \in [Aux -> {"created", "top", "batch", "main", "svr", "ended"}]
    BY <1>0, <1>2 DEF Wait, TypeOK
  <2> QED BY ZenonT(40), <1>0, <1>2, <2>1, <2>2 DEF Wait, TypeOK
<1>3. CASE SlotFreed(t)
  <2>1. m_pSocket' = [m_pSocket EXCEPT ![t] = [m_pSocket[t] EXCEPT ![clearing[t]] = FreeNode]]
    BY <1>0, <1>3 DEF SlotFreed, TypeOK
  <2>2. FreeNode \in [m_iSocket : Fds \cup {0}, conn : Conns \cup {Nobody}]
    BY DEF FreeNode
  <2>3. m_pSocket' \in
          [Aux -> [Slots -> [m_iSocket : Fds \cup {0}, conn : Conns \cup {Nobody}]]]
    BY <1>0, <2>1, <2>2 DEF TypeOK
  <2>4. clearing' \in [Aux -> Slots \cup {NoSlot}]
    BY <1>0, <1>3 DEF SlotFreed, TypeOK
  <2> QED BY ZenonT(40), <1>0, <1>3, <2>3, <2>4 DEF SlotFreed, TypeOK
<1>4. CASE CreateSocketNode(t)
  <2> DEFINE m == Head(m_Main2MePipe[t])
             iPos == m.m_iSuffix % MAX_SOCKET_NUM
  <2>1. /\ m \in [conn : Conns, m_iSuffix : Fds]
        /\ Tail(m_Main2MePipe[t]) \in Seq([conn : Conns, m_iSuffix : Fds])
    <3>1. /\ m_Main2MePipe[t] \in Seq([conn : Conns, m_iSuffix : Fds])
          /\ m_Main2MePipe[t] # <<>>
      BY <1>0, <1>4 DEF CreateSocketNode, TypeOK
    <3> QED BY <3>1, HeadAndTail
  <2>2. iPos \in Slots
    BY <2>1, SlotOf
  <2>3. m_Main2MePipe' = [m_Main2MePipe EXCEPT ![t] = Tail(m_Main2MePipe[t])]
    BY <1>4 DEF CreateSocketNode
  <2>a. m_Main2MePipe' \in [Aux -> Seq([conn : Conns, m_iSuffix : Fds])]
    BY <1>0, <2>1, <2>3 DEF TypeOK
  <2>4. CASE Taken(t, iPos)
    <3>1. /\ kernel' = [kernel EXCEPT ![m.m_iSuffix] = Nobody]
          /\ UNCHANGED <<m_pSocket, m_unTcpClientNum>>
      BY <1>4, <2>4 DEF CreateSocketNode
    <3>2. kernel' \in [Fds -> Conns \cup {Nobody}]
      BY <1>0, <3>1 DEF TypeOK
    <3> QED BY ZenonT(40), <1>0, <1>4, <2>a, <3>1, <3>2 DEF CreateSocketNode, TypeOK
  <2>5. CASE ~ Taken(t, iPos)
    <3>1. /\ m_pSocket' = [m_pSocket EXCEPT ![t] =
                [m_pSocket[t] EXCEPT ![iPos] = [m_iSocket |-> m.m_iSuffix, conn |-> m.conn]]]
          /\ m_unTcpClientNum' = [m_unTcpClientNum EXCEPT ![t] = m_unTcpClientNum[t] + 1]
          /\ UNCHANGED kernel
      BY <1>0, <1>4, <2>5 DEF CreateSocketNode, TypeOK
    <3>2. m_pSocket' \in
            [Aux -> [Slots -> [m_iSocket : Fds \cup {0}, conn : Conns \cup {Nobody}]]]
      BY <1>0, <2>1, <2>2, <3>1 DEF TypeOK
    <3>3. m_unTcpClientNum' \in [Aux -> Nat]
      BY <1>0, <3>1 DEF TypeOK
    <3> QED BY ZenonT(40), <1>0, <1>4, <2>a, <3>1, <3>2, <3>3 DEF CreateSocketNode, TypeOK
  <2> QED BY <2>4, <2>5
<1>5. ASSUME NEW s \in Slots, HandleEvent(t, s)
      PROVE  TypeOK'
  <2>1. events' \in [Aux -> SUBSET Slots]
    <3>1. /\ events \in [Aux -> SUBSET Slots] /\ events[t] \ {s} \subseteq Slots
          /\ \/ events' = [events EXCEPT ![t] = events[t] \ {s}]
             \/ events' = [events EXCEPT ![t] = {}]
      BY <1>0, <1>5 DEF HandleEvent, TypeOK
    <3> QED BY ONLY <3>1
  <2>2. CASE Taken(t, s) /\ ClearSocketNode(t, s)
    <3>1. At(t, apc[t])
      BY <1>5 DEF HandleEvent, At
    <3> QED BY ZenonT(40), <1>0, <1>5, <2>1, <2>2, <3>1, ClearTypes DEF HandleEvent, TypeOK
  <2>3. CASE UNCHANGED <<m_unTcpClientNum, kernel, clearing>>
    BY ZenonT(40), <1>0, <1>5, <2>1, <2>3 DEF HandleEvent, TypeOK
  <2> QED BY <1>5, <2>2, <2>3 DEF HandleEvent, RecvClientData
<1>6. ASSUME NEW s \in Slots, AppendRefused(t, s)
      PROVE  TypeOK'
  <2>1. At(t, apc[t]) /\ Taken(t, s) /\ ClearSocketNode(t, s)
    BY <1>6 DEF AppendRefused, At
  <2> QED BY ZenonT(40), <1>0, <1>6, <2>1, ClearTypes DEF AppendRefused, TypeOK
<1> QED BY <1>1, <1>2, <1>3, <1>4, <1>5, <1>6 DEF AuxStep

-----------------------------------------------------------------------------
LEMMA Held ==
  ASSUME TypeOK, NodesWhole
  PROVE  /\ \A t \in Aux : \A k \in 1 .. Len(m_Main2MePipe[t]) :
              /\ m_Main2MePipe[t][k].m_iSuffix \in Fds
              /\ m_Main2MePipe[t][k].conn \in Conns
         /\ \A t \in Aux : \A s \in Served(t) :
              m_pSocket[t][s].m_iSocket \in Fds /\ m_pSocket[t][s].conn \in Conns
<1> DEFINE S == [conn : Conns, m_iSuffix : Fds]
<1>1. \A s \in Seq(S) : \A k \in 1 .. Len(s) : s[k] \in S
  <2>. HIDE DEF S
  <2> QED BY Entry
<1>2. \A t \in Aux : m_Main2MePipe[t] \in Seq(S)
  BY DEF TypeOK
<1>3. \A m \in S : m.m_iSuffix \in Fds /\ m.conn \in Conns
  OBVIOUS
<1>. HIDE DEF S
<1>4. \A t \in Aux : \A k \in 1 .. Len(m_Main2MePipe[t]) : m_Main2MePipe[t][k] \in S
  BY <1>1, <1>2
<1>5. \A t \in Aux : \A s \in Served(t) :
        m_pSocket[t][s].m_iSocket \in Fds /\ m_pSocket[t][s].conn \in Conns
  BY DEF NodesWhole, Served
<1> QED BY <1>3, <1>4, <1>5

(* A step that changes nothing of who holds what.                          *)
LEMMA Unheld ==
  ASSUME IInv, TypeOK', InHand',
         UNCHANGED <<new, newSocket, m_Main2MePipe, m_pSocket, m_unTcpClientNum, clearing,
                     kernel, refused>>,
         mpc' # "exited" => mpc # "exited",
         \A c \in Conns : client[c] # "off" => client'[c] # "off"
  PROVE  IInv'
<1>1. \A t \in Aux : Served(t)' = Served(t)
  BY DEF Served, Taken
<1>2. NodesWhole' /\ CountersRight'
  BY <1>1 DEF IInv, Accounted, NodesWhole, Taken, CountersRight
<1>3. NobodyForgotten'
  BY <1>1 DEF IInv, Accounted, NobodyForgotten, Open, InPipe, InTable
<1>4. ASSUME mpc' # "exited"
      PROVE  /\ DescriptorsTheirOwn' /\ KernelRight'
             /\ NewApart' /\ PipesApart' /\ PipeTableApart' /\ TablesApart'
  <2>1. KernelRight'
    BY <1>4 DEF IInv, Accounted, TypeOK, KernelRight
  <2>2. DescriptorsTheirOwn'
    BY <1>1, <1>4 DEF IInv, DescriptorsTheirOwn
  <2>3. NewApart' /\ PipesApart' /\ PipeTableApart' /\ TablesApart'
    BY <1>1, <1>4 DEF IInv, NewApart, PipesApart, PipeTableApart, TablesApart
  <2> QED BY <2>1, <2>2, <2>3
<1> QED BY <1>2, <1>3, <1>4 DEF IInv, Accounted

LEMMA AcceptIInv ==
  ASSUME IInv, TypeOK', NEW c \in Conns, NEW f \in Fds, NEW mask \in Masks, Accept(c, f, mask)
  PROVE  IInv'
<1>0. /\ TypeOK /\ InHand /\ DescriptorsTheirOwn /\ KernelRight /\ mpc = "listen"
      /\ NewApart /\ PipesApart /\ PipeTableApart /\ TablesApart /\ NodesWhole
      /\ NobodyForgotten /\ CountersRight
  BY DEF IInv, Accounted, Accept
<1>a. /\ UNCHANGED <<m_Main2MePipe, m_pSocket, m_unTcpClientNum, clearing, refused, i>>
      /\ client[c] = "off" /\ client' = [client EXCEPT ![c] = "open"]
      /\ kernel[f] = Nobody /\ kernel' = [kernel EXCEPT ![f] = c]
      /\ new = Nobody /\ new' = c /\ newSocket' = f /\ mpc' = "select"
  BY <1>0 DEF Accept, auxVars, InHand
<1>b. c # Nobody
  BY NoOthers
<1>1. \A t \in Aux : Served(t)' = Served(t)
  BY <1>a DEF Served, Taken
<1>2. NodesWhole' /\ CountersRight' /\ InHand'
  BY <1>0, <1>1, <1>a, <1>b DEF NodesWhole, Taken, CountersRight, InHand
<1>3. NobodyForgotten'
  <2> SUFFICES ASSUME NEW d \in Conns, d # c, NEW g \in Fds, kernel'[g] = d
               PROVE  InPipe(d)' \/ InTable(d)' \/ d \in refused'
    BY <1>a DEF NobodyForgotten, Open
  <2>1. kernel[g] = d
    BY <1>0, <1>a DEF TypeOK
  <2> QED
    BY <1>0, <1>1, <1>a, <2>1, NoOthers DEF NobodyForgotten, Open, InPipe, InTable
<1>4. KernelRight'
  BY <1>0, <1>a, <1>b DEF TypeOK, KernelRight
(* Who holds a descriptor holds one that stands for somebody.              *)
<1>5. \A t \in Aux : \A k \in 1 .. Len(m_Main2MePipe[t]) :
        /\ m_Main2MePipe[t][k].m_iSuffix \in Fds
        /\ m_Main2MePipe[t][k].m_iSuffix # f
  BY <1>0, <1>a, Held, NoOthers DEF DescriptorsTheirOwn
<1>6. \A t \in Aux : \A s \in Served(t) :
        /\ m_pSocket[t][s].m_iSocket \in Fds
        /\ m_pSocket[t][s].m_iSocket # f
  BY <1>0, <1>a, Held, NoOthers DEF DescriptorsTheirOwn
<1>7. DescriptorsTheirOwn'
  BY <1>0, <1>1, <1>5, <1>6, <1>a DEF DescriptorsTheirOwn, TypeOK
<1>8. NewApart'
  BY <1>1, <1>5, <1>6, <1>a DEF NewApart
<1>9. PipesApart' /\ PipeTableApart' /\ TablesApart'
  BY <1>0, <1>1, <1>a DEF PipesApart, PipeTableApart, TablesApart
<1> QED BY <1>2, <1>3, <1>4, <1>7, <1>8, <1>9 DEF IInv, Accounted

LEMMA NoAuxSelectedIInv ==
  ASSUME IInv, TypeOK', NoAuxSelected
  PROVE  IInv'
<1>0. /\ TypeOK /\ InHand /\ DescriptorsTheirOwn /\ KernelRight /\ mpc = "select"
      /\ NewApart /\ PipesApart /\ PipeTableApart /\ TablesApart /\ NodesWhole
      /\ NobodyForgotten /\ CountersRight
  BY DEF IInv, Accounted, NoAuxSelected
<1>a. /\ UNCHANGED <<m_Main2MePipe, m_pSocket, m_unTcpClientNum, clearing, refused, client>>
      /\ kernel' = [kernel EXCEPT ![newSocket] = Nobody]
      /\ new # Nobody /\ newSocket \in Fds /\ new' = Nobody /\ mpc' = "top"
      /\ kernel[newSocket] = new
  BY <1>0 DEF NoAuxSelected, BackToTop, auxVars, InHand, DescriptorsTheirOwn
<1>1. \A t \in Aux : Served(t)' = Served(t)
  BY <1>a DEF Served, Taken
<1>2. NodesWhole' /\ CountersRight' /\ InHand'
  BY <1>0, <1>1, <1>a DEF NodesWhole, Taken, CountersRight, InHand
<1>3. NobodyForgotten'
  <2> SUFFICES ASSUME NEW d \in Conns, NEW g \in Fds, kernel'[g] = d
               PROVE  InPipe(d)' \/ InTable(d)' \/ d \in refused'
    BY DEF NobodyForgotten, Open
  <2>1. kernel[g] = d /\ g # newSocket
    BY <1>0, <1>a, NoOthers DEF TypeOK
  <2>2. d # new
    BY <1>0, <1>a, <2>1 DEF KernelRight
  <2> QED BY <1>0, <1>1, <1>a, <2>1, <2>2 DEF NobodyForgotten, Open, InPipe, InTable
<1>4. KernelRight'
  BY <1>0, <1>a DEF TypeOK, KernelRight
<1>5. DescriptorsTheirOwn'
  BY SMTT(30), <1>0, <1>1, <1>a, Held DEF DescriptorsTheirOwn, TypeOK, NewApart
<1>6. NewApart'
  BY <1>a DEF NewApart
<1>7. PipesApart' /\ PipeTableApart' /\ TablesApart'
  BY <1>0, <1>1, <1>a DEF PipesApart, PipeTableApart, TablesApart
<1> QED BY <1>2, <1>3, <1>4, <1>5, <1>6, <1>7 DEF IInv, Accounted

LEMMA HandOverIInv ==
  ASSUME IInv, TypeOK', HandOver
  PROVE  IInv'
<1>0. /\ TypeOK /\ InHand /\ DescriptorsTheirOwn /\ KernelRight /\ mpc = "select"
      /\ NewApart /\ PipesApart /\ PipeTableApart /\ TablesApart /\ NodesWhole
      /\ NobodyForgotten /\ CountersRight
  BY DEF IInv, Accounted, HandOver
<1>a. /\ UNCHANGED <<m_pSocket, m_unTcpClientNum, clearing, client, kernel>>
      /\ new \in Conns /\ newSocket \in Fds /\ new' = Nobody /\ mpc' = "top"
      /\ kernel[newSocket] = new /\ iSelectAuxId \in Aux /\ new # Nobody
  BY <1>0 DEF HandOver, BackToTop, InHand, DescriptorsTheirOwn, TypeOK
<1>1. \A t \in Aux : Served(t)' = Served(t)
  BY <1>a DEF Served, Taken
<1>2. NodesWhole' /\ CountersRight' /\ InHand'
  BY <1>0, <1>1, <1>a DEF NodesWhole, Taken, CountersRight, InHand
<1>3. KernelRight' /\ NewApart' /\ TablesApart'
  BY <1>0, <1>1, <1>a DEF KernelRight, NewApart, TablesApart
<1>4. CASE /\ refused' = refused \cup {new}
           /\ UNCHANGED m_Main2MePipe
  <2>1. NobodyForgotten'
    BY <1>0, <1>1, <1>a, <1>4 DEF NobodyForgotten, Open, InPipe, InTable
  <2>2. DescriptorsTheirOwn'
    BY <1>0, <1>1, <1>a, <1>4 DEF DescriptorsTheirOwn
  <2>3. PipesApart' /\ PipeTableApart'
    BY <1>0, <1>1, <1>a, <1>4 DEF PipesApart, PipeTableApart
  <2> QED BY <1>2, <1>3, <2>1, <2>2, <2>3 DEF IInv, Accounted
<1>5. CASE /\ m_Main2MePipe' = [m_Main2MePipe EXCEPT ![iSelectAuxId] =
                 Append(m_Main2MePipe[iSelectAuxId], [conn |-> new, m_iSuffix |-> newSocket])]
           /\ UNCHANGED refused
  <2> DEFINE a == iSelectAuxId
             n == Len(m_Main2MePipe[a])
  <2>1. /\ n \in Nat /\ Len(m_Main2MePipe'[a]) = n + 1
        /\ m_Main2MePipe'[a][n + 1] = [conn |-> new, m_iSuffix |-> newSocket]
        /\ \A k \in 1 .. n : m_Main2MePipe'[a][k] = m_Main2MePipe[a][k]
    <3> DEFINE S == [conn : Conns, m_iSuffix : Fds]
               m == [conn |-> new, m_iSuffix |-> newSocket]
    <3>1. m_Main2MePipe[a] \in Seq(S) /\ m \in S
      BY <1>0, <1>a DEF TypeOK
    <3>2. m_Main2MePipe'[a] = Append(m_Main2MePipe[a], m)
      BY <1>0, <1>5, <1>a DEF TypeOK
    <3>. HIDE DEF S, m
    <3>3. /\ n \in Nat /\ Len(m_Main2MePipe'[a]) = n + 1 /\ m_Main2MePipe'[a][n + 1] = m
          /\ \A k \in 1 .. n : m_Main2MePipe'[a][k] = m_Main2MePipe[a][k]
      BY <3>1, <3>2, Appended
    <3> QED BY <3>3 DEF m
  <2>2. \A t \in Aux \ {a} : m_Main2MePipe'[t] = m_Main2MePipe[t]
    BY <1>0, <1>5 DEF TypeOK
(* What is in a pipe now was there before, or is the new one.              *)
  <2>3. \A t \in Aux : \A k \in 1 .. Len(m_Main2MePipe'[t]) :
          \/ k \in 1 .. Len(m_Main2MePipe[t]) /\ m_Main2MePipe'[t][k] = m_Main2MePipe[t][k]
          \/ t = a /\ k = n + 1 /\ m_Main2MePipe'[t][k] = [conn |-> new, m_iSuffix |-> newSocket]
    <3> TAKE t \in Aux
    <3> TAKE k \in 1 .. Len(m_Main2MePipe'[t])
    <3>1. CASE t = a
      <4>1. k \in 1 .. n \/ k = n + 1
        BY <2>1, <3>1
      <4> QED BY <2>1, <3>1, <4>1
    <3>2. CASE t # a
      BY <2>2, <3>2
    <3> QED BY <3>1, <3>2
  <2>4. \A t \in Aux : \A k \in 1 .. Len(m_Main2MePipe[t]) :
          k \in 1 .. Len(m_Main2MePipe'[t]) /\ m_Main2MePipe'[t][k] = m_Main2MePipe[t][k]
    BY <2>1, <2>2
  <2>5. NobodyForgotten'
    <3> SUFFICES ASSUME NEW c \in Conns, Open(c)
                 PROVE  InPipe(c)' \/ InTable(c)' \/ c \in refused'
      BY <1>a DEF NobodyForgotten, Open
    <3>1. CASE c = new
      BY <1>a, <2>1, <3>1 DEF InPipe
    <3>2. CASE InPipe(c)
      BY <2>4, <3>2 DEF InPipe
    <3>3. CASE InTable(c) \/ c \in refused
      BY <1>1, <1>5, <1>a, <3>3 DEF InTable
    <3> QED BY <1>0, <3>1, <3>2, <3>3 DEF NobodyForgotten
  <2>6. DescriptorsTheirOwn'
    <3>1. \A t \in Aux : \A k \in 1 .. Len(m_Main2MePipe'[t]) :
            kernel[m_Main2MePipe'[t][k].m_iSuffix] = m_Main2MePipe'[t][k].conn
      BY <1>0, <1>a, <2>3 DEF DescriptorsTheirOwn
    <3> QED BY <1>0, <1>1, <1>a, <3>1 DEF DescriptorsTheirOwn
  <2>7. PipesApart'
    <3> SUFFICES ASSUME NEW t \in Aux, NEW u \in Aux,
                        NEW k \in 1 .. Len(m_Main2MePipe'[t]),
                        NEW l \in 1 .. Len(m_Main2MePipe'[u]),
                        m_Main2MePipe'[t][k].m_iSuffix = m_Main2MePipe'[u][l].m_iSuffix
                 PROVE  t = u /\ k = l
      BY DEF PipesApart
    <3> DEFINE wasT == k \in 1 .. Len(m_Main2MePipe[t]) /\ m_Main2MePipe'[t][k] = m_Main2MePipe[t][k]
               wasU == l \in 1 .. Len(m_Main2MePipe[u]) /\ m_Main2MePipe'[u][l] = m_Main2MePipe[u][l]
    <3>1. CASE wasT /\ wasU
      BY <1>0, <3>1 DEF PipesApart
    <3>2. CASE ~ wasT /\ ~ wasU
      BY <2>3, <3>2
    <3>3. CASE wasT /\ ~ wasU
      <4>1. m_Main2MePipe'[u][l].m_iSuffix = newSocket
        BY <2>3, <3>3
      <4> QED BY <1>0, <1>a, <3>3, <4>1 DEF NewApart
    <3>4. CASE ~ wasT /\ wasU
      <4>1. m_Main2MePipe'[t][k].m_iSuffix = newSocket
        BY <2>3, <3>4
      <4> QED BY <1>0, <1>a, <3>4, <4>1 DEF NewApart
    <3>. HIDE DEF wasT, wasU
    <3> QED BY <3>1, <3>2, <3>3, <3>4
  <2>8. PipeTableApart'
    <3> SUFFICES ASSUME NEW t \in Aux, NEW u \in Aux,
                        NEW k \in 1 .. Len(m_Main2MePipe'[t]), NEW s \in Served(u)
                 PROVE  m_Main2MePipe'[t][k].m_iSuffix # m_pSocket[u][s].m_iSocket
      BY <1>1, <1>a DEF PipeTableApart
    <3> QED BY <1>0, <1>a, <2>3 DEF PipeTableApart, NewApart
  <2> QED BY <1>2, <1>3, <2>5, <2>6, <2>7, <2>8 DEF IInv, Accounted
<1> QED BY <1>4, <1>5 DEF HandOver

LEMMA ServerExitIInv ==
  ASSUME IInv, TypeOK', ServerExit
  PROVE  IInv'
<1>1. /\ UNCHANGED <<m_Main2MePipe, m_pSocket, m_unTcpClientNum, clearing, new, newSocket>>
      /\ mpc' = "exited" /\ mpc = "stop"
      /\ \A f \in Fds : kernel'[f] = Nobody
  BY DEF ServerExit, auxVars
<1>2. \A t \in Aux : Served(t)' = Served(t)
  BY <1>1 DEF Served, Taken
<1>3. NodesWhole' /\ CountersRight' /\ InHand'
  BY <1>1, <1>2 DEF IInv, Accounted, NodesWhole, Taken, CountersRight, InHand
<1>4. NobodyForgotten'
  BY <1>1, NoOthers DEF NobodyForgotten, Open
<1> QED BY <1>1, <1>3, <1>4 DEF IInv, Accounted

(* A thread closes the descriptor of a slot it serves.                     *)
LEMMA ClearIInv ==
  ASSUME IInv, TypeOK', NEW t \in Aux, NEW s \in Slots, At(t, apc[t]), Taken(t, s),
         ClearSocketNode(t, s),
         UNCHANGED <<mpc, i, new, newSocket, m_Main2MePipe, m_pSocket, client, refused>>
  PROVE  IInv'
<1>0. /\ TypeOK /\ InHand /\ DescriptorsTheirOwn /\ KernelRight /\ mpc # "exited"
      /\ NewApart /\ PipesApart /\ PipeTableApart /\ TablesApart /\ NodesWhole
      /\ NobodyForgotten /\ CountersRight
  BY DEF IInv, Accounted, At
<1> DEFINE f == m_pSocket[t][s].m_iSocket
           c == m_pSocket[t][s].conn
<1>a. /\ kernel' = [kernel EXCEPT ![f] = Nobody]
      /\ clearing' = [clearing EXCEPT ![t] = s] /\ clearing[t] = NoSlot
      /\ m_unTcpClientNum' = [m_unTcpClientNum EXCEPT ![t] = m_unTcpClientNum[t] - 1]
  BY DEF ClearSocketNode, At
<1>b. s \in Served(t)
  BY <1>a, NoOthers DEF Served
<1>c. f \in Fds /\ c \in Conns /\ kernel[f] = c
  BY <1>0, <1>b, Held DEF DescriptorsTheirOwn
<1>1. /\ Served(t)' = Served(t) \ {s}
      /\ \A u \in Aux \ {t} : Served(u)' = Served(u)
  <2>1. clearing'[t] = s /\ \A u \in Aux \ {t} : clearing'[u] = clearing[u]
    BY <1>0, <1>a DEF TypeOK
  <2>2. \A u \in Aux : \A r \in Slots : Taken(u, r)' = Taken(u, r)
    BY DEF Taken
  <2>3. Served(t) = {r \in Slots : Taken(t, r)}
    BY <1>a, NoOthers DEF Served
  <2> QED BY <2>1, <2>2, <2>3 DEF Served
<1>2. CountersRight'
  <2>1. Cardinality(Served(t) \ {s}) = Cardinality(Served(t)) - 1
    BY <1>b, SlotsFinite, FS_RemoveElement
  <2>2. \A u \in Aux : m_unTcpClientNum'[u] = IF u = t THEN m_unTcpClientNum[t] - 1
                                                     ELSE m_unTcpClientNum[u]
    BY <1>0, <1>a DEF TypeOK
  <2> QED BY <1>0, <1>1, <2>1, <2>2 DEF CountersRight
<1>3. NodesWhole' /\ InHand'
  BY <1>0 DEF NodesWhole, Taken, InHand
<1>4. KernelRight'
  BY <1>0, <1>a, <1>c DEF TypeOK, KernelRight
<1>5. \A g \in Fds : g # f => kernel'[g] = kernel[g]
  BY <1>0, <1>a DEF TypeOK
<1>6. NobodyForgotten'
  <2> SUFFICES ASSUME NEW d \in Conns, NEW g \in Fds, kernel'[g] = d
               PROVE  new' = d \/ InPipe(d)' \/ InTable(d)' \/ d \in refused'
    BY DEF NobodyForgotten, Open
  <2>1. kernel[g] = d /\ g # f
    BY <1>0, <1>a, <1>c, NoOthers DEF TypeOK
  <2>2. d # c
    BY <1>0, <1>c, <2>1, NoOthers DEF KernelRight
  <2>3. CASE new = d \/ InPipe(d) \/ d \in refused
    BY <2>3 DEF InPipe
  <2>4. CASE InTable(d)
    <3>1. PICK u \in Aux : \E r \in Served(u) : m_pSocket[u][r].conn = d
      BY <2>4 DEF InTable
    <3>2. PICK r \in Served(u) : m_pSocket[u][r].conn = d
      BY <3>1
    <3>3. r \in Served(u)'
      BY <1>1, <2>2, <3>2
    <3> QED BY <3>2, <3>3 DEF InTable
  <2> QED BY <1>0, <2>1, <2>3, <2>4 DEF NobodyForgotten, Open
<1>7. \A u \in Aux : Served(u)' \subseteq Served(u)
  BY <1>1
<1>8. DescriptorsTheirOwn'
  <2>1. new # Nobody => newSocket # f
    BY <1>0, <1>b DEF NewApart
  <2>2. \A u \in Aux : \A k \in 1 .. Len(m_Main2MePipe[u]) :
          m_Main2MePipe[u][k].m_iSuffix # f
    BY <1>0, <1>b DEF PipeTableApart
  <2>3. \A u \in Aux : \A r \in Served(u)' : m_pSocket[u][r].m_iSocket # f
    BY <1>0, <1>1, <1>b, <1>7 DEF TablesApart
  <2>4. new # Nobody => newSocket \in Fds
    BY <1>0 DEF InHand
  <2> QED
    BY <1>0, <1>5, <1>7, <2>1, <2>2, <2>3, <2>4, Held DEF DescriptorsTheirOwn
<1>9. NewApart' /\ PipesApart' /\ PipeTableApart' /\ TablesApart'
  BY <1>0, <1>7 DEF NewApart, PipesApart, PipeTableApart, TablesApart
<1> QED BY <1>2, <1>3, <1>4, <1>6, <1>8, <1>9 DEF IInv, Accounted

LEMMA SlotFreedIInv ==
  ASSUME IInv, TypeOK', NEW t \in Aux, SlotFreed(t)
  PROVE  IInv'
<1>0. /\ TypeOK /\ InHand /\ DescriptorsTheirOwn /\ KernelRight /\ mpc # "exited"
      /\ NewApart /\ PipesApart /\ PipeTableApart /\ TablesApart /\ NodesWhole
      /\ NobodyForgotten /\ CountersRight
  BY DEF IInv, Accounted, SlotFreed
<1>a. UNCHANGED <<mpc, i, new, newSocket, m_Main2MePipe, client, refused, kernel,
                  m_unTcpClientNum>>
  BY DEF SlotFreed, mainVars
<1>1. /\ \A u \in Aux, r \in Slots :
           m_pSocket'[u][r] = IF u = t /\ r = clearing[t] THEN FreeNode ELSE m_pSocket[u][r]
      /\ \A u \in Aux : clearing'[u] = IF u = t THEN NoSlot ELSE clearing[u]
  BY <1>0 DEF SlotFreed, TypeOK
<1>2. \A u \in Aux : Served(u)' = Served(u)
  <2>1. \A r \in Slots : r # NoSlot
    BY NoOthers
  <2> QED BY <1>1, <2>1 DEF Served, Taken
<1>3. \A u \in Aux : \A r \in Served(u) : m_pSocket'[u][r] = m_pSocket[u][r]
  BY <1>1 DEF Served
<1>4. NodesWhole' /\ InHand'
  BY <1>0, <1>1, <1>a DEF NodesWhole, Taken, InHand
<1>5. CountersRight' /\ KernelRight'
  BY <1>0, <1>2, <1>a DEF CountersRight, KernelRight
<1>6. NobodyForgotten'
  BY <1>0, <1>2, <1>3, <1>a DEF NobodyForgotten, Open, InPipe, InTable
<1>7. DescriptorsTheirOwn'
  BY <1>0, <1>2, <1>3, <1>a DEF DescriptorsTheirOwn
<1>8. NewApart' /\ PipesApart' /\ PipeTableApart' /\ TablesApart'
  BY <1>0, <1>2, <1>3, <1>a DEF NewApart, PipesApart, PipeTableApart, TablesApart
<1> QED BY <1>4, <1>5, <1>6, <1>7, <1>8 DEF IInv, Accounted

(* A thread takes a connection out of its pipe.                            *)
LEMMA CreateIInv ==
  ASSUME IInv, TypeOK', NEW t \in Aux, CreateSocketNode(t)
  PROVE  IInv'
<1>0. /\ TypeOK /\ InHand /\ DescriptorsTheirOwn /\ KernelRight /\ mpc # "exited"
      /\ NewApart /\ PipesApart /\ PipeTableApart /\ TablesApart /\ NodesWhole
      /\ NobodyForgotten /\ CountersRight /\ clearing[t] = NoSlot
  BY DEF IInv, Accounted, CreateSocketNode, At
<1> DEFINE m == Head(m_Main2MePipe[t])
           iPos == m.m_iSuffix % MAX_SOCKET_NUM
           n == Len(m_Main2MePipe[t])
<1>a. UNCHANGED <<mpc, i, new, newSocket, clearing, client, refused>>
  BY DEF CreateSocketNode, mainVars
<1>b. /\ m = m_Main2MePipe[t][1] /\ n \in Nat \ {0}
      /\ Len(m_Main2MePipe'[t]) = n - 1
      /\ \A k \in 1 .. n - 1 : k + 1 \in 1 .. n /\ m_Main2MePipe'[t][k] = m_Main2MePipe[t][k + 1]
  <2> DEFINE S == [conn : Conns, m_iSuffix : Fds]
  <2>1. m_Main2MePipe[t] \in Seq(S) /\ m_Main2MePipe[t] # <<>>
    BY <1>0 DEF TypeOK, CreateSocketNode
  <2>2. m_Main2MePipe'[t] = Tail(m_Main2MePipe[t])
    BY <1>0 DEF TypeOK, CreateSocketNode
  <2>. HIDE DEF S
  <2> QED BY <2>1, <2>2, HeadAndTail
<1>c. \A u \in Aux \ {t} : m_Main2MePipe'[u] = m_Main2MePipe[u]
  BY <1>0 DEF TypeOK, CreateSocketNode
<1>d. /\ m.m_iSuffix \in Fds /\ m.conn \in Conns /\ kernel[m.m_iSuffix] = m.conn
      /\ iPos \in Slots
  <2>1. 1 \in 1 .. n
    BY <1>b
  <2>2. m.m_iSuffix \in Fds /\ m.conn \in Conns /\ kernel[m.m_iSuffix] = m.conn
    BY <1>0, <1>b, <2>1, Held DEF DescriptorsTheirOwn
  <2> QED BY <2>2, SlotOf
(* What is in a pipe now was there before, further behind.                 *)
<1>e. \A u \in Aux : \A k \in 1 .. Len(m_Main2MePipe'[u]) :
        LET j == IF u = t THEN k + 1 ELSE k IN
          /\ j \in 1 .. Len(m_Main2MePipe[u]) /\ (u = t => j # 1)
          /\ m_Main2MePipe'[u][k] = m_Main2MePipe[u][j]
  BY <1>b, <1>c
<1>f. \A u \in Aux : \A j \in 1 .. Len(m_Main2MePipe[u]) :
        \/ u = t /\ j = 1
        \/ \E k \in 1 .. Len(m_Main2MePipe'[u]) : m_Main2MePipe'[u][k] = m_Main2MePipe[u][j]
  <2> TAKE u \in Aux
  <2> TAKE j \in 1 .. Len(m_Main2MePipe[u])
  <2>1. CASE u = t /\ j # 1
    <3>1. j - 1 \in 1 .. n - 1 /\ (j - 1) + 1 = j
      BY <1>b, <2>1
    <3>2. m_Main2MePipe'[u][j - 1] = m_Main2MePipe[u][j]
      BY <1>b, <2>1, <3>1
    <3> QED BY <1>b, <2>1, <3>1, <3>2
  <2>2. CASE u # t
    BY <1>c, <2>2
  <2> QED BY <2>1, <2>2
<1>1. PipesApart'
  <2> SUFFICES ASSUME NEW u \in Aux, NEW v \in Aux,
                      NEW k \in 1 .. Len(m_Main2MePipe'[u]), NEW l \in 1 .. Len(m_Main2MePipe'[v]),
                      m_Main2MePipe'[u][k].m_iSuffix = m_Main2MePipe'[v][l].m_iSuffix
               PROVE  u = v /\ k = l
    BY DEF PipesApart
  <2> DEFINE j == IF u = t THEN k + 1 ELSE k
             h == IF v = t THEN l + 1 ELSE l
  <2>1. /\ j \in 1 .. Len(m_Main2MePipe[u]) /\ m_Main2MePipe'[u][k] = m_Main2MePipe[u][j]
        /\ h \in 1 .. Len(m_Main2MePipe[v]) /\ m_Main2MePipe'[v][l] = m_Main2MePipe[v][h]
    BY <1>e
  <2>2. u = v /\ j = h
    BY <1>0, <2>1 DEF PipesApart
  <2> QED BY <2>2
(* Nobody else holds the descriptor of the first one.                      *)
<1>2. /\ new # Nobody => newSocket # m.m_iSuffix
      /\ \A u \in Aux : \A k \in 1 .. Len(m_Main2MePipe'[u]) :
           m_Main2MePipe'[u][k].m_iSuffix # m.m_iSuffix
      /\ \A u \in Aux : \A s \in Served(u) : m_pSocket[u][s].m_iSocket # m.m_iSuffix
  <2>0. 1 \in 1 .. n
    BY <1>b
  <2>1. new # Nobody => newSocket # m.m_iSuffix
    BY <1>0, <1>b, <2>0 DEF NewApart
  <2>2. ASSUME NEW u \in Aux, NEW k \in 1 .. Len(m_Main2MePipe'[u])
        PROVE  m_Main2MePipe'[u][k].m_iSuffix # m.m_iSuffix
    <3> DEFINE j == IF u = t THEN k + 1 ELSE k
    <3>1. /\ j \in 1 .. Len(m_Main2MePipe[u]) /\ (u = t => j # 1)
          /\ m_Main2MePipe'[u][k] = m_Main2MePipe[u][j]
      BY <1>e
    <3> QED BY <1>0, <1>b, <2>0, <3>1 DEF PipesApart
  <2>3. \A u \in Aux : \A s \in Served(u) : m_pSocket[u][s].m_iSocket # m.m_iSuffix
    BY <1>0, <1>b, <2>0 DEF PipeTableApart
  <2> QED BY <2>1, <2>2, <2>3
<1>3. CASE /\ Taken(t, iPos)
           /\ kernel' = [kernel EXCEPT ![m.m_iSuffix] = Nobody]
           /\ UNCHANGED <<m_pSocket, m_unTcpClientNum>>
  <2>1. \A u \in Aux : Served(u)' = Served(u)
    BY <1>a, <1>3 DEF Served, Taken
  <2>2. NodesWhole' /\ CountersRight' /\ InHand'
    BY <1>0, <1>3, <1>a, <2>1 DEF NodesWhole, Taken, CountersRight, InHand
  <2>3. KernelRight'
    BY <1>0, <1>3, <1>a DEF TypeOK, KernelRight
  <2>4. NobodyForgotten'
    <3> SUFFICES ASSUME NEW d \in Conns, NEW g \in Fds, kernel'[g] = d
                 PROVE  new' = d \/ InPipe(d)' \/ InTable(d)' \/ d \in refused'
      BY DEF NobodyForgotten, Open
    <3>1. kernel[g] = d /\ g # m.m_iSuffix
      BY ZenonT(40), <1>0, <1>3, <1>d, NoOthers DEF TypeOK
    <3>2. d # m.conn
      BY <1>0, <1>d, <3>1, NoOthers DEF KernelRight
    <3>3. CASE InPipe(d)
      <4>1. PICK u \in Aux : \E j \in 1 .. Len(m_Main2MePipe[u]) : m_Main2MePipe[u][j].conn = d
        BY <3>3 DEF InPipe
      <4>2. PICK j \in 1 .. Len(m_Main2MePipe[u]) : m_Main2MePipe[u][j].conn = d
        BY <4>1
      <4>3. ~ (u = t /\ j = 1)
        BY <1>b, <3>2, <4>2
      <4>4. PICK k \in 1 .. Len(m_Main2MePipe'[u]) : m_Main2MePipe'[u][k] = m_Main2MePipe[u][j]
        BY <1>f, <4>3
      <4> QED BY <4>2, <4>4 DEF InPipe
    <3>4. CASE new = d \/ InTable(d) \/ d \in refused
      BY <1>3, <1>a, <2>1, <3>4 DEF InTable
    <3> QED BY <1>0, <3>1, <3>3, <3>4 DEF NobodyForgotten, Open
  <2>5. DescriptorsTheirOwn'
    <3>1. \A g \in Fds : g # m.m_iSuffix => kernel'[g] = kernel[g]
      BY <1>0, <1>3 DEF TypeOK
    <3>2. new' # Nobody => kernel'[newSocket'] = new'
      BY <1>0, <1>2, <1>a, <3>1 DEF InHand, DescriptorsTheirOwn
    <3>3. ASSUME NEW u \in Aux, NEW k \in 1 .. Len(m_Main2MePipe'[u])
          PROVE  kernel'[m_Main2MePipe'[u][k].m_iSuffix] = m_Main2MePipe'[u][k].conn
      BY SMTT(30), <1>0, <1>2, <1>e, <3>1, Held DEF DescriptorsTheirOwn
    <3>4. ASSUME NEW u \in Aux, NEW s \in Served(u)
          PROVE  kernel'[m_pSocket'[u][s].m_iSocket] = m_pSocket'[u][s].conn
      BY <1>0, <1>2, <1>3, <3>1, Held DEF DescriptorsTheirOwn
    <3> QED BY <2>1, <3>2, <3>3, <3>4 DEF DescriptorsTheirOwn
  <2>6. NewApart' /\ PipeTableApart' /\ TablesApart'
    BY SMTT(30), <1>0, <1>3, <1>a, <1>e, <2>1 DEF NewApart, PipeTableApart, TablesApart
  <2> QED BY <1>1, <2>2, <2>3, <2>4, <2>5, <2>6 DEF IInv, Accounted
<1>4. CASE /\ ~ Taken(t, iPos)
           /\ m_pSocket' = [m_pSocket EXCEPT ![t][iPos] =
                              [m_iSocket |-> m.m_iSuffix, conn |-> m.conn]]
           /\ m_unTcpClientNum' = [m_unTcpClientNum EXCEPT ![t] = m_unTcpClientNum[t] + 1]
           /\ UNCHANGED kernel
  <2>0. PICK iSlot \in Slots : iSlot = iPos
    BY <1>d
  <2>1. /\ \A u \in Aux, r \in Slots :
             m_pSocket'[u][r] = IF u = t /\ r = iSlot
                                  THEN [m_iSocket |-> m.m_iSuffix, conn |-> m.conn]
                                  ELSE m_pSocket[u][r]
        /\ \A u \in Aux : m_unTcpClientNum'[u] = IF u = t THEN m_unTcpClientNum[t] + 1
                                                         ELSE m_unTcpClientNum[u]
    BY <1>0, <1>4, <2>0 DEF TypeOK
  <2>2. /\ Served(t)' = Served(t) \cup {iSlot} /\ iSlot \notin Served(t)
        /\ \A u \in Aux \ {t} : Served(u)' = Served(u)
    <3>. HIDE DEF m
    <3>1. Taken(t, iSlot)'
      <4>1. m_pSocket'[t][iSlot].conn = m.conn
        BY <1>d, <2>1
      <4>2. m_pSocket'[t][iSlot].conn # FreeNode.conn
        BY <1>d, <4>1, NoOthers DEF FreeNode
      <4> QED BY <4>2 DEF Taken
    <3>2. \A u \in Aux, r \in Slots : ~ (u = t /\ r = iSlot) => Taken(u, r)' = Taken(u, r)
      BY <2>1 DEF Taken
    <3>3. \A r \in Slots : r # clearing[t]
      BY <1>0, NoOthers
    <3>4. \A u \in Aux : clearing'[u] = clearing[u]
      BY <1>a
    <3>5. iSlot \notin Served(t)
      BY <1>4, <2>0 DEF Served
    <3> QED BY <1>d, <3>1, <3>2, <3>3, <3>4, <3>5 DEF Served
  <2>3. \A u \in Aux : \A s \in Served(u)' :
          \/ s \in Served(u) /\ m_pSocket'[u][s] = m_pSocket[u][s]
          \/ u = t /\ s = iSlot /\ m_pSocket'[u][s] = [m_iSocket |-> m.m_iSuffix, conn |-> m.conn]
    BY <1>d, <2>1, <2>2 DEF Served
  <2>4. CountersRight'
    <3>1. Cardinality(Served(t) \cup {iSlot}) = Cardinality(Served(t)) + 1
      BY <2>2, SlotsFinite, FS_AddElement
    <3> QED BY <1>0, <2>1, <2>2, <3>1 DEF CountersRight
  <2>5. NodesWhole' /\ InHand'
    BY <1>0, <1>a, <1>d, <2>1 DEF NodesWhole, Taken, InHand
  <2>6. KernelRight'
    BY <1>0, <1>4, <1>a DEF KernelRight
  <2>7. NobodyForgotten'
    <3> SUFFICES ASSUME NEW d \in Conns, Open(d)
                 PROVE  new' = d \/ InPipe(d)' \/ InTable(d)' \/ d \in refused'
      BY <1>4 DEF NobodyForgotten, Open
    <3>1. CASE InPipe(d)
      <4>1. PICK u \in Aux : \E j \in 1 .. Len(m_Main2MePipe[u]) : m_Main2MePipe[u][j].conn = d
        BY <3>1 DEF InPipe
      <4>2. PICK j \in 1 .. Len(m_Main2MePipe[u]) : m_Main2MePipe[u][j].conn = d
        BY <4>1
      <4>3. CASE u = t /\ j = 1
        <5>1. iSlot \in Served(t)' /\ m_pSocket'[t][iSlot].conn = d
          BY <1>b, <1>d, <2>1, <2>2, <4>2, <4>3
        <5> QED BY <5>1 DEF InTable
      <4>4. CASE ~ (u = t /\ j = 1)
        <5>1. PICK k \in 1 .. Len(m_Main2MePipe'[u]) : m_Main2MePipe'[u][k] = m_Main2MePipe[u][j]
          BY <1>f, <4>4
        <5> QED BY <4>2, <5>1 DEF InPipe
      <4> QED BY <4>3, <4>4
    <3>2. CASE InTable(d)
      <4>1. PICK u \in Aux : \E r \in Served(u) : m_pSocket[u][r].conn = d
        BY <3>2 DEF InTable
      <4>2. PICK r \in Served(u) : m_pSocket[u][r].conn = d
        BY <4>1
      <4>3. r \in Slots /\ r \in Served(u)' /\ m_pSocket'[u][r] = m_pSocket[u][r]
        BY <2>1, <2>2, <4>2 DEF Served
      <4> QED BY <4>2, <4>3 DEF InTable
    <3>3. CASE new = d \/ d \in refused
      BY <1>a, <3>3
    <3> QED BY <1>0, <3>1, <3>2, <3>3 DEF NobodyForgotten
  <2>8. DescriptorsTheirOwn'
    <3>1. \A u \in Aux : \A k \in 1 .. Len(m_Main2MePipe'[u]) :
            kernel[m_Main2MePipe'[u][k].m_iSuffix] = m_Main2MePipe'[u][k].conn
      BY <1>0, <1>e DEF DescriptorsTheirOwn
    <3>2. \A u \in Aux : \A s \in Served(u)' :
            kernel[m_pSocket'[u][s].m_iSocket] = m_pSocket'[u][s].conn
      BY <1>0, <1>d, <2>3 DEF DescriptorsTheirOwn
    <3> QED BY <1>0, <1>4, <1>a, <3>1, <3>2 DEF DescriptorsTheirOwn
  <2>9. NewApart' /\ PipeTableApart' /\ TablesApart'
    <3>. HIDE DEF m
    <3>1. NewApart'
      <4> SUFFICES ASSUME new # Nobody, NEW u \in Aux
                   PROVE  /\ \A k \in 1 .. Len(m_Main2MePipe'[u]) :
                               m_Main2MePipe'[u][k].m_iSuffix # newSocket
                          /\ \A s \in Served(u)' : m_pSocket'[u][s].m_iSocket # newSocket
        BY <1>a DEF NewApart
      <4>1. \A k \in 1 .. Len(m_Main2MePipe'[u]) : m_Main2MePipe'[u][k].m_iSuffix # newSocket
        BY <1>0, <1>e DEF NewApart
      <4>2. \A s \in Served(u)' : m_pSocket'[u][s].m_iSocket # newSocket
        BY <1>0, <1>2, <2>3 DEF NewApart
      <4> QED BY <4>1, <4>2
    <3>2. PipeTableApart'
      <4> SUFFICES ASSUME NEW u \in Aux, NEW v \in Aux,
                          NEW k \in 1 .. Len(m_Main2MePipe'[u]), NEW s \in Served(v)'
                   PROVE  m_Main2MePipe'[u][k].m_iSuffix # m_pSocket'[v][s].m_iSocket
        BY DEF PipeTableApart
      <4>1. CASE s \in Served(v) /\ m_pSocket'[v][s] = m_pSocket[v][s]
        BY <1>0, <1>e, <4>1 DEF PipeTableApart
      <4>2. CASE m_pSocket'[v][s] = [m_iSocket |-> m.m_iSuffix, conn |-> m.conn]
        BY <1>2, <4>2
      <4> QED BY <2>3, <4>1, <4>2
    <3>3. TablesApart'
      BY <1>0, <1>2, <2>3 DEF TablesApart
    <3> QED BY <3>1, <3>2, <3>3
  <2> QED BY <1>1, <2>4, <2>5, <2>6, <2>7, <2>8, <2>9 DEF IInv, Accounted
<1> QED BY <1>3, <1>4 DEF CreateSocketNode

-----------------------------------------------------------------------------
LEMMA IInvStep == ASSUME IInv, [Next]_vars PROVE IInv'
<1>0. TypeOK /\ InHand
  BY DEF IInv, Accounted
<1>1. CASE \E c \in Conns : Leaves(c)
  <2>1. PICK c \in Conns : Leaves(c)
    BY <1>1
  <2>2. TypeOK'
    BY ZenonT(40), <1>0, <2>1 DEF Leaves, TypeOK, mainVars, auxVars
  <2>3. InHand'
    BY <1>0, <2>1 DEF Leaves, InHand, mainVars
  <2> QED
    BY <1>0, <2>1, <2>2, <2>3, Unheld DEF Leaves, TypeOK, mainVars, auxVars
<1>2. CASE \E flag \in {"reload", "exit"} : SetRunFlag(flag)
  <2>1. PICK flag \in {"reload", "exit"} : SetRunFlag(flag)
    BY <1>2
  <2>2. signals' \in 0 .. MaxSignals
    BY <1>0, <2>1, ThreadsAssumption DEF SetRunFlag, TypeOK
  <2>3. TypeOK' /\ InHand'
    BY <1>0, <2>1, <2>2 DEF SetRunFlag, TypeOK, InHand, mainVars, auxVars
  <2> QED BY <2>1, <2>3, Unheld DEF SetRunFlag, mainVars, auxVars
<1>3. CASE MainStep
  <2>0. TypeOK'
    BY <1>3, MainTypes
  <2>1. CASE RunTop
    <3>1. mpc = "top" /\ mpc' \in {"stop", "reload", "listen"}
      BY ONLY <2>1, Zenon DEF RunTop
    <3>2. InHand'
      BY <1>0, <2>1, <3>1 DEF RunTop, InHand
    <3> QED BY <2>0, <2>1, <3>1, <3>2, Unheld DEF RunTop, auxVars
  <2>2. CASE Reloaded \/ NothingToAccept
    <3>1. InHand'
      BY <1>0, <2>2 DEF Reloaded, NothingToAccept, InHand
    <3> QED BY <2>0, <2>2, <3>1, Unheld DEF Reloaded, NothingToAccept, auxVars
  <2>3. CASE SelectAux
    <3>1. InHand'
      BY <1>0, <2>3 DEF SelectAux, InHand
    <3> QED BY <2>0, <2>3, <3>1, Unheld DEF SelectAux, auxVars
  <2>4. CASE StopThread \/ Joined
    <3>1. InHand'
      BY <1>0, <2>4 DEF StopThread, Joined, InHand
    <3> QED BY <2>0, <2>4, <3>1, Unheld DEF StopThread, Joined, auxVars
  <2>5. CASE \E c \in Conns, f \in Fds, mask \in Masks : Accept(c, f, mask)
    BY <2>0, <2>5, AcceptIInv
  <2>6. CASE NoAuxSelected \/ HandOver \/ ServerExit
    BY <2>0, <2>6, NoAuxSelectedIInv, HandOverIInv, ServerExitIInv
  <2> QED BY <1>3, <2>1, <2>2, <2>3, <2>4, <2>5, <2>6 DEF MainStep
<1>4. ASSUME NEW t \in Aux, AuxStep(t)
      PROVE  IInv'
  <2>0. TypeOK'
    BY <1>4, AuxTypes
  <2>1. CASE Run(t) \/ GoOn(t)
    <3>1. InHand'
      BY <1>0, <2>1 DEF Run, GoOn, InHand, mainVars
    <3> QED BY <2>0, <2>1, <3>1, Unheld DEF Run, GoOn, mainVars
  <2>2. CASE Wait(t)
    <3>1. InHand'
      BY <1>0, <2>2 DEF Wait, InHand, mainVars
    <3> QED BY <2>0, <2>2, <3>1, Unheld DEF Wait, mainVars
  <2>3. CASE SlotFreed(t) \/ CreateSocketNode(t)
    BY <2>0, <2>3, SlotFreedIInv, CreateIInv
  <2>4. ASSUME NEW s \in Slots, HandleEvent(t, s)
        PROVE  IInv'
    <3>1. CASE Taken(t, s) /\ ClearSocketNode(t, s)
      <4>1. At(t, apc[t])
        BY <2>4 DEF HandleEvent, At
      <4> QED BY <2>0, <2>4, <3>1, <4>1, ClearIInv DEF HandleEvent, mainVars
    <3>2. CASE UNCHANGED <<m_unTcpClientNum, kernel, clearing>>
      <4>1. InHand'
        BY <1>0, <2>4 DEF HandleEvent, InHand, mainVars
      <4> QED BY <2>0, <2>4, <3>2, <4>1, Unheld DEF HandleEvent, mainVars
    <3> QED BY <2>4, <3>1, <3>2 DEF HandleEvent, RecvClientData
  <2>5. ASSUME NEW s \in Slots, AppendRefused(t, s)
        PROVE  IInv'
    <3>1. At(t, apc[t]) /\ Taken(t, s) /\ ClearSocketNode(t, s)
      BY <2>5 DEF AppendRefused, At
    <3> QED BY <2>0, <2>5, <3>1, ClearIInv DEF AppendRefused, mainVars
  <2> QED BY <1>4, <2>1, <2>2, <2>3, <2>4, <2>5 DEF AuxStep
<1>5. CASE UNCHANGED vars
  <2>1. TypeOK' /\ InHand'
    BY ZenonT(40), <1>0, <1>5 DEF vars, TypeOK, InHand, mainVars, auxVars
  <2> QED BY <1>5, <2>1, Unheld DEF vars, mainVars, auxVars
<1> QED BY <1>1, <1>2, <1>3, <1>4, <1>5 DEF Next

(* Every step keeps the inductive invariant.                               *)
THEOREM CcsThreadsInvariant == Spec => []IInv
BY InitIInv, IInvStep, PTL DEF Spec

(* Every connection is in somebody's hands, and the counters by which a    *)
(* thread is selected are right, however the threads interleave.           *)
THEOREM CcsAccounted == Spec => []Accounted
<1>1. IInv => Accounted
  BY DEF IInv
<1> QED BY <1>1, CcsThreadsInvariant, PTL

(* No thread reads or closes a descriptor that is another's by now.        *)
THEOREM CcsDescriptorsTheirOwn == Spec => []DescriptorsTheirOwn
<1>1. IInv => DescriptorsTheirOwn
  BY DEF IInv, DescriptorsTheirOwn
<1> QED BY <1>1, CcsThreadsInvariant, PTL

(* The descriptor of a served slot is closed by no step but one of its     *)
(* thread that goes on to strike the slot, or the end of the server.       *)
LEMMA ClosedByOwner ==
  ASSUME IInv, [Next]_vars, NEW t \in Aux, NEW c \in Conns, NEW s \in Served(t),
         m_pSocket[t][s].conn = c, ~ Open(c)'
  PROVE  clearing'[t] = s \/ mpc' = "exited"
<1>1. SUFFICES ASSUME mpc # "exited"
               PROVE  clearing'[t] = s \/ mpc' = "exited"
  <2>1. CASE mpc = "exited"
    <3>1. ~ MainStep
      BY <2>1 DEF MainStep, RunTop, Reloaded, NothingToAccept, Accept, SelectAux,
                  NoAuxSelected, HandOver, StopThread, Joined, ServerExit
    <3>2. \A u \in Aux : ~ AuxStep(u)
      BY <2>1 DEF AuxStep, At, Run, Wait, SlotFreed, HandleEvent, CreateSocketNode,
                  AppendRefused, GoOn
    <3> QED BY <2>1, <3>1, <3>2 DEF Next, Leaves, SetRunFlag, vars, mainVars
  <2> QED BY <1>1, <2>1
<1>0. /\ TypeOK /\ DescriptorsTheirOwn /\ KernelRight /\ NewApart /\ PipeTableApart
      /\ TablesApart /\ NodesWhole /\ InHand
  BY <1>1 DEF IInv, Accounted
<1> DEFINE f == m_pSocket[t][s].m_iSocket
<1>2. f \in Fds /\ kernel[f] = c /\ kernel'[f] # c
  BY <1>0, <1>1, Held DEF DescriptorsTheirOwn, Open
<1>3. ASSUME NEW g, kernel' = [kernel EXCEPT ![g] = Nobody]
      PROVE  f = g
  BY <1>0, <1>2, <1>3 DEF TypeOK
<1>4. CASE MainStep
  <2>1. ASSUME NEW d \in Conns, NEW g \in Fds, NEW mask \in Masks, Accept(d, g, mask)
        PROVE  FALSE
    BY <1>0, <1>2, <2>1, NoOthers DEF Accept, TypeOK
  <2>2. CASE NoAuxSelected
    <3>1. f = newSocket /\ new # Nobody
      BY <1>0, <1>3, <2>2 DEF NoAuxSelected, InHand
    <3> QED BY <1>0, <3>1 DEF NewApart
  <2>3. CASE RunTop \/ Reloaded \/ NothingToAccept \/ SelectAux \/ HandOver \/ StopThread \/ Joined
    BY <1>2, <2>3 DEF RunTop, Reloaded, NothingToAccept, SelectAux, HandOver, StopThread, Joined
  <2>4. CASE ServerExit
    BY <2>4 DEF ServerExit
  <2> QED BY <1>4, <2>1, <2>2, <2>3, <2>4 DEF MainStep
<1>5. ASSUME NEW u \in Aux, AuxStep(u)
      PROVE  clearing'[t] = s
  <2>1. CASE Run(u) \/ Wait(u) \/ SlotFreed(u) \/ GoOn(u)
    BY <1>2, <2>1 DEF Run, Wait, SlotFreed, GoOn
  <2>2. CASE CreateSocketNode(u)
    <3>1. kernel' = [kernel EXCEPT ![Head(m_Main2MePipe[u]).m_iSuffix] = Nobody]
      BY <1>2, <2>2 DEF CreateSocketNode
    <3>2. f = Head(m_Main2MePipe[u]).m_iSuffix
      BY <1>3, <3>1
    <3>3. 1 \in 1 .. Len(m_Main2MePipe[u]) /\ Head(m_Main2MePipe[u]) = m_Main2MePipe[u][1]
      <4> DEFINE S == [conn : Conns, m_iSuffix : Fds]
      <4>1. m_Main2MePipe[u] \in Seq(S) /\ m_Main2MePipe[u] # <<>>
        BY <1>0, <2>2 DEF CreateSocketNode, TypeOK
      <4>. HIDE DEF S
      <4>2. Len(m_Main2MePipe[u]) \in Nat \ {0} /\ Head(m_Main2MePipe[u]) = m_Main2MePipe[u][1]
        BY <4>1, HeadAndTail
      <4> QED BY <4>2
    <3> QED BY <1>0, <3>2, <3>3 DEF PipeTableApart
  <2>3. ASSUME NEW r \in Slots, HandleEvent(u, r) \/ AppendRefused(u, r)
        PROVE  clearing'[t] = s
    <3>1. Taken(u, r) /\ clearing[u] = NoSlot /\ ClearSocketNode(u, r)
      BY <1>2, <2>3 DEF HandleEvent, RecvClientData, AppendRefused, At
    <3>2. r \in Served(u) /\ f = m_pSocket[u][r].m_iSocket
      BY <1>3, <3>1, NoOthers DEF Served, ClearSocketNode
    <3>3. t = u /\ s = r
      BY <1>0, <3>2 DEF TablesApart
    <3> QED BY <1>0, <3>1, <3>3 DEF ClearSocketNode, TypeOK
  <2> QED BY <1>5, <2>1, <2>2, <2>3 DEF AuxStep
<1>6. CASE UNCHANGED vars \/ (\E d \in Conns : Leaves(d))
           \/ (\E flag \in {"reload", "exit"} : SetRunFlag(flag))
  BY <1>2, <1>6 DEF vars, Leaves, SetRunFlag
<1> QED BY <1>4, <1>5, <1>6 DEF Next

(* A connection that was given a slot is closed by nobody but the thread   *)
(* of the slot, which strikes it next, or by the end of the process.       *)
THEOREM CcsClosedByItsThread == Spec => ClosedByItsThread
<1>1. IInv /\ [Next]_vars =>
        [\A t \in Aux, c \in Conns : \A s \in Served(t) :
           m_pSocket[t][s].conn = c /\ ~Open(c)'
             => clearing'[t] = s \/ mpc' = "exited"]_vars
  BY ClosedByOwner
<1> QED BY <1>1, CcsThreadsInvariant, PTL DEF Spec, ClosedByItsThread
===============================================================================
