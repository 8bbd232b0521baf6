-------------------------------- MODULE Pipes --------------------------------
(***************************************************************************)
(* The two pipes between the connection server (CCS) and the broker        *)
(* process (MCP), each a CCodeQueue taken for what CodeQueueFifo shows it  *)
(* to be: a FIFO with one writer and one reader.  They lie in shared       *)
(* memory and outlive both processes.                                      *)
(***************************************************************************)
EXTENDS Integers, Sequences

CONSTANTS
  Clients,         (* client addresses ip:port, numbered in the order of    *)
                   (* EasyMQAgent::operator<                                *)
  Topics,
  Requests,        (* the types of request the clients make                 *)
  Suffixes,        (* the MAX_SOCKET_NUM slots of the connection table      *)
  PipeCap,         (* bound: the frames a pipe has room for                 *)
  MaxConns,        (* bound: how many connections are ever accepted         *)
  MaxReqs,         (* bound: how many requests are ever read                *)
  MaxCcsDeaths,    (* bound: how often CCS dies                             *)
  MaxMcpDeaths     (* bound: how often MCP dies                             *)

ASSUME PipesAssumption ==
  /\ Clients \subseteq Nat
  /\ {PipeCap, MaxConns, MaxReqs} \subseteq Nat \ {0}
  /\ Requests \subseteq {"init", "publish", "echo"}
  /\ {MaxCcsDeaths, MaxMcpDeaths} \subseteq Nat

VARIABLES
  ccs2mcp,         (* the requests                                          *)
  mcp2ccs          (* the replies, and the messages for subscribers         *)

Conns    == 1 .. MaxConns
Reqs     == 1 .. MaxReqs

(* m_unID starts at 0, and the two pipes of a thread take 0 and 1.         *)
FirstId == 2
Ids     == Nat

ReqTypes == {"init", "publish", "echo"}
RspTypes == {"init_rsp", "publish_rsp", "echo_rsp"}

(* What the msgLen field of a message says: its length, its length in the  *)
(* wrong byte order, or a length beyond what is sent.                      *)
LenField == {"whole", "swapped", "beyond"}

(* The head with which CCS finds a connection again (m_iSuffix, and m_unID *)
(* in m_szEchoData), and the message.  req and conn are history: which     *)
(* request this stems from, and whose slot and m_unID the head carries.    *)
Frame == [addr : Clients, m_iSuffix : Suffixes, echo : Ids,
          type : ReqTypes \cup RspTypes, topic : Topics, msgLen : LenField,
          req : Reqs, conn : Conns]

(* AppendOneCode refuses a frame that has no room.                         *)
HasRoom(pipe) == Len(pipe) < PipeCap

=============================================================================
