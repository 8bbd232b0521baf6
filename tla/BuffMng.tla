------------------------------- MODULE BuffMng -------------------------------
(***************************************************************************)
(* CBuffMng over TIdxObjMng: the byte buffers of all connections, kept in  *)
(* blocks of one pool.  The blocks of a buffer are chained by their        *)
(* indexes; the same index chains the free ones, most recently freed       *)
(* first.  CCS and SCC have one pool for what they receive and one for     *)
(* what they send, and use each from one thread.  Skip() and the functions *)
(* that reserve space are called by the caches alone and left out.         *)
(*                                                                         *)
(* What a free block holds is left out: its bytes are Stale until they are *)
(* written again, a value no append writes.                                *)
(***************************************************************************)
EXTENDS Integers, SequencesExt

CONSTANTS
  Bufs,       (* the suffixes, one per connection slot                      *)
  BlockNum,   (* RCV_BLOCK_NUM, SND_BLOCK_NUM                               *)
  BLOCKSIZE,  (* RCV_BLOCK_SIZE, SND_BLOCK_SIZE                             *)
  Lens,       (* how many bytes are appended at a time                      *)
  Values      (* bound: a suffix's bytes are told apart modulo this         *)

ASSUME BuffMngAssumption ==
  /\ {BlockNum, BLOCKSIZE, Values} \subseteq Nat \ {0}
  /\ Lens \subseteq Nat \ {0}
  /\ IsFiniteSet(Bufs)

Nil    == -1
Stale  == <<>>
Blocks == 0 .. BlockNum - 1

VARIABLES
  m_iFreeHead,     (* the first free block                                  *)
  m_piDsInfo,      (* of every block: the next one of its chain             *)
  m_pObjMem,       (* of every block: its bytes                             *)
  m_iUsedCount,    (* how many blocks are not free                          *)
  m_pBuffItem,     (* of every suffix: first and last block, offset, size   *)
  m_iFreeBuffNum,  (* how many suffixes hold nothing                        *)
  failed,          (* the suffixes whose last append was refused            *)
  next             (* history: of every suffix, the next byte to be appended *)

pool == <<m_iFreeHead, m_piDsInfo, m_iUsedCount>>
vars == <<pool, m_pObjMem, m_pBuffItem, m_iFreeBuffNum, failed, next>>

NoItem == [m_iBuffIdx |-> Nil, m_iLastBuffIdx |-> Nil, m_iBuffOffset |-> 0,
           m_iBuffSize |-> 0]

Init ==
  /\ m_iFreeHead = 0
  /\ m_piDsInfo = [i \in Blocks |-> IF i + 1 \in Blocks THEN i + 1 ELSE Nil]
  /\ m_pObjMem = [i \in Blocks |-> [k \in 0 .. BLOCKSIZE - 1 |-> Stale]]
  /\ m_iUsedCount = 0
  /\ m_pBuffItem = [b \in Bufs |-> NoItem]
  /\ m_iFreeBuffNum = Cardinality(Bufs)
  /\ failed = {}
  /\ next = [b \in Bufs |-> 0]

-----------------------------------------------------------------------------
(* The blocks met from block i on along the links f; Nil behind the last.  *)
Walk(f, i) ==
  LET at[k \in 0 .. BlockNum] ==
        IF k = 0 THEN i ELSE IF at[k - 1] = Nil THEN Nil ELSE f[at[k - 1]]
  IN at

(* The chain that starts with block i; it is as long as it gets within the *)
(* number of blocks there are.                                             *)
ChainIn(f, i) ==
  LET at == Walk(f, i)
      n  == Cardinality({k \in 0 .. BlockNum : at[k] # Nil})
  IN [k \in 1 .. n |-> at[k - 1]]

Chain(i) == ChainIn(m_piDsInfo, i)

First(s, n)  == SubSeq(s, 1, n)
Beyond(s, n) == SubSeq(s, n + 1, Len(s))
BlocksOf(n)  == (n + BLOCKSIZE - 1) \div BLOCKSIZE

(* The links f, but s is a chain that goes on with block i.                *)
Linked(f, s, i) ==
  [x \in Blocks |->
     IF Contains(s, x)
     THEN LET k == CHOOSE j \in 1 .. Len(s) : s[j] = x
          IN IF k = Len(s) THEN i ELSE s[k + 1]
     ELSE f[x]]

(* The bytes, without those of the blocks s.                               *)
Without(s) ==
  [x \in Blocks |-> IF x \in ToSet(s) THEN [k \in 0 .. BLOCKSIZE - 1 |-> Stale]
                   ELSE m_pObjMem[x]]

(* The blocks s, which were in use, become free one after the other.       *)
DestroyObjects(s) ==
  /\ m_iFreeHead' = IF s = <<>> THEN m_iFreeHead ELSE Last(s)
  /\ m_piDsInfo' = Linked(m_piDsInfo, Reverse(s), m_iFreeHead)
  /\ m_iUsedCount' = m_iUsedCount - Len(s)
  /\ m_pObjMem' = Without(s)

(* n blocks are taken and chained, behind the block last if there is one.  *)
CreateObjects(last, n) ==
  LET new == First(Chain(m_iFreeHead), n) IN
    /\ m_iFreeHead' = IF n < Len(Chain(m_iFreeHead)) THEN Chain(m_iFreeHead)[n + 1] ELSE Nil
    /\ m_piDsInfo' = Linked(m_piDsInfo, IF last = Nil THEN new ELSE <<last>> \o new, Nil)
    /\ m_iUsedCount' = m_iUsedCount + n

(* All free blocks are taken, and given back when one more is needed.      *)
CreateObjectsFails(last) ==
  LET new == Chain(m_iFreeHead) IN
    /\ m_iFreeHead' = IF new = <<>> THEN Nil ELSE Last(new)
    /\ m_piDsInfo' = Linked(IF last = Nil THEN m_piDsInfo ELSE [m_piDsInfo EXCEPT ![last] = Nil],
                            Reverse(new), Nil)
    /\ UNCHANGED m_iUsedCount

(* The bytes s are written into the chain c from its byte p on.            *)
Written(c, p, s) ==
  [x \in Blocks |-> [k \in 0 .. BLOCKSIZE - 1 |->
     LET hit == {j \in 1 .. Len(s) :
                   c[(p + j - 1) \div BLOCKSIZE + 1] = x /\ (p + j - 1) % BLOCKSIZE = k}
     IN IF hit = {} THEN m_pObjMem[x][k] ELSE s[CHOOSE j \in hit : TRUE]]]

Bytes(b, n) == [k \in 1 .. n |-> <<b, (next[b] + k - 1) % Values>>]
Taken(b, n) == [next EXCEPT ![b] = (@ + n) % Values]

-----------------------------------------------------------------------------
(* AppendBuffer on a suffix that holds nothing.                            *)
AppendFirst(b, n) ==
  LET new == First(Chain(m_iFreeHead), BlocksOf(n)) IN
    /\ m_pBuffItem[b].m_iBuffIdx = Nil
    /\ BlocksOf(n) <= Len(Chain(m_iFreeHead))
    /\ CreateObjects(Nil, BlocksOf(n))
    /\ m_pObjMem' = Written(new, 0, Bytes(b, n))
    /\ m_pBuffItem' = [m_pBuffItem EXCEPT ![b] =
         [m_iBuffIdx |-> new[1], m_iLastBuffIdx |-> Last(new),
          m_iBuffOffset |-> 0, m_iBuffSize |-> n]]
    /\ m_iFreeBuffNum' = m_iFreeBuffNum - 1
    /\ next' = Taken(b, n)
    /\ UNCHANGED failed

(* The blocks written so far are freed again with FreeBuffer.              *)
AppendFirstFails(b, n) ==
  /\ m_pBuffItem[b].m_iBuffIdx = Nil
  /\ BlocksOf(n) > Len(Chain(m_iFreeHead))
  /\ CreateObjectsFails(Nil)
  /\ failed' = failed \cup {b}
  /\ UNCHANGED <<m_pObjMem, m_pBuffItem, m_iFreeBuffNum, next>>

(* How much of the last block is used; 0 when it is full.                  *)
BlockDataLen(b) ==
  (m_pBuffItem[b].m_iBuffSize + m_pBuffItem[b].m_iBuffOffset) % BLOCKSIZE

(* How many blocks n bytes need, besides the last one there is.            *)
MoreBlocks(b, n) ==
  LET room == IF BlockDataLen(b) > 0 THEN BLOCKSIZE - BlockDataLen(b) ELSE 0
  IN BlocksOf(n - Min({n, room}))

(* The blocks that take the bytes: the last one, unless it is full, and    *)
(* new ones.                                                               *)
Taking(b, new) ==
  (IF BlockDataLen(b) > 0 THEN <<m_pBuffItem[b].m_iLastBuffIdx>> ELSE <<>>) \o new

(* AppendBuffer on a suffix that holds bytes.                              *)
AppendMore(b, n) ==
  LET last == m_pBuffItem[b].m_iLastBuffIdx
      new  == First(Chain(m_iFreeHead), MoreBlocks(b, n))
  IN /\ m_pBuffItem[b].m_iBuffIdx # Nil
     /\ MoreBlocks(b, n) <= Len(Chain(m_iFreeHead))
     /\ CreateObjects(last, MoreBlocks(b, n))
     /\ m_pObjMem' = Written(Taking(b, new), BlockDataLen(b), Bytes(b, n))
     /\ m_pBuffItem' = [m_pBuffItem EXCEPT
          ![b].m_iLastBuffIdx = IF new = <<>> THEN last ELSE Last(new),
          ![b].m_iBuffSize = @ + n]
     /\ next' = Taken(b, n)
     /\ UNCHANGED <<m_iFreeBuffNum, failed>>

(* What was there stays; but the item names the last block that was taken  *)
(* and given back as its last one.                                         *)
AppendMoreFails(b, n) ==
  LET last == m_pBuffItem[b].m_iLastBuffIdx
      new  == Chain(m_iFreeHead)
      c    == Taking(b, <<>>)
  IN /\ m_pBuffItem[b].m_iBuffIdx # Nil
     /\ MoreBlocks(b, n) > Len(new)
     /\ CreateObjectsFails(last)
     /\ m_pObjMem' = Written(c, BlockDataLen(b),
                             First(Bytes(b, n), Len(c) * BLOCKSIZE - BlockDataLen(b)))
     /\ m_pBuffItem' = [m_pBuffItem EXCEPT
          ![b].m_iLastBuffIdx = IF new = <<>> THEN last ELSE Last(new)]
     /\ failed' = failed \cup {b}
     /\ UNCHANGED <<m_iFreeBuffNum, next>>

(* The callers in CCS and SCC close the connection of a buffer that an     *)
(* append to was refused, before they do anything else.                    *)
AppendBuffer(b, n) ==
  /\ failed = {}
  /\ \/ AppendFirst(b, n) \/ AppendFirstFails(b, n)
     \/ AppendMore(b, n) \/ AppendMoreFails(b, n)

-----------------------------------------------------------------------------
(* What is left of the item after the socket took n bytes but not all.     *)
Sent(b, n) ==
  [m_pBuffItem[b] EXCEPT
     !.m_iBuffIdx = Beyond(Chain(@), (m_pBuffItem[b].m_iBuffOffset + n) \div BLOCKSIZE)[1],
     !.m_iBuffOffset = (@ + n) % BLOCKSIZE,
     !.m_iBuffSize = @ - n]

(* Block by block to the socket until it takes no more; n bytes in all.    *)
(* Blocks that have been sent are freed, the last one also when it is not  *)
(* full.                                                                   *)
SendBufferToSocket(b, n) ==
  LET c == Chain(m_pBuffItem[b].m_iBuffIdx) IN
    /\ failed = {}
    /\ m_pBuffItem[b].m_iBuffIdx # Nil
    /\ \/ /\ n < m_pBuffItem[b].m_iBuffSize
          /\ DestroyObjects(First(c, (m_pBuffItem[b].m_iBuffOffset + n) \div BLOCKSIZE))
          /\ m_pBuffItem' = [m_pBuffItem EXCEPT ![b] = Sent(b, n)]
          /\ UNCHANGED m_iFreeBuffNum
       \/ /\ n = m_pBuffItem[b].m_iBuffSize
          /\ DestroyObjects(c)
          /\ m_pBuffItem' = [m_pBuffItem EXCEPT ![b] = NoItem]
          /\ m_iFreeBuffNum' = m_iFreeBuffNum + 1
    /\ UNCHANGED <<failed, next>>

(* Mutant: the first block alone is freed.                                 *)
FreeBufferFirst(b) ==
  /\ m_pBuffItem[b].m_iBuffIdx # Nil
  /\ failed = {}
  /\ DestroyObjects(First(Chain(m_pBuffItem[b].m_iBuffIdx), 1))
  /\ m_pBuffItem' = [m_pBuffItem EXCEPT ![b] = NoItem]
  /\ m_iFreeBuffNum' = m_iFreeBuffNum + 1
  /\ UNCHANGED <<failed, next>>

FreeBuffer(b) ==
  /\ failed \subseteq {b}
  /\ failed' = {}
  /\ \/ /\ m_pBuffItem[b].m_iBuffIdx # Nil
        /\ DestroyObjects(Chain(m_pBuffItem[b].m_iBuffIdx))
        /\ m_pBuffItem' = [m_pBuffItem EXCEPT ![b] = NoItem]
        /\ m_iFreeBuffNum' = m_iFreeBuffNum + 1
     \/ /\ m_pBuffItem[b].m_iBuffIdx = Nil
        /\ UNCHANGED <<pool, m_pObjMem, m_pBuffItem, m_iFreeBuffNum>>
  /\ UNCHANGED next

(* Mutant: reading starts at the beginning of the first block.             *)
GetBufferFromStart(b, n) ==
  LET c == Chain(m_pBuffItem[b].m_iBuffIdx) IN
    [k \in 1 .. Min({n, m_pBuffItem[b].m_iBuffSize}) |->
       m_pObjMem[c[(k - 1) \div BLOCKSIZE + 1]][(k - 1) % BLOCKSIZE]]

(* The first n of the bytes of b, or all it has.                           *)
GetBuffer(b, n) ==
  LET item == m_pBuffItem[b]
      c    == Chain(item.m_iBuffIdx)
  IN [k \in 1 .. Min({n, item.m_iBuffSize}) |->
        LET p == item.m_iBuffOffset + k - 1
        IN m_pObjMem[c[p \div BLOCKSIZE + 1]][p % BLOCKSIZE]]

Next ==
  \E b \in Bufs :
    \/ \E n \in Lens : AppendBuffer(b, n)
    \/ \E n \in 1 .. m_pBuffItem[b].m_iBuffSize : SendBufferToSocket(b, n)
    \/ FreeBuffer(b)

Spec == Init /\ [][Next]_vars
-----------------------------------------------------------------------------
TypeOK ==
  /\ m_iFreeHead \in Blocks \cup {Nil}
  /\ m_piDsInfo \in [Blocks -> Blocks \cup {Nil}]
  /\ m_pObjMem \in [Blocks -> [0 .. BLOCKSIZE - 1 -> {Stale} \cup (Bufs \X (0 .. Values - 1))]]
  /\ m_iUsedCount \in 0 .. BlockNum
  /\ m_pBuffItem \in
       [Bufs -> [m_iBuffIdx : Blocks \cup {Nil}, m_iLastBuffIdx : Blocks \cup {Nil},
                 m_iBuffOffset : 0 .. BLOCKSIZE - 1,
                 m_iBuffSize : 0 .. BlockNum * BLOCKSIZE]]
  /\ m_iFreeBuffNum \in 0 .. Cardinality(Bufs)
  /\ failed \subseteq Bufs
  /\ next \in [Bufs -> 0 .. Values - 1]

(* The chains: of the free blocks and of every buffer.                     *)
Held(b) == Chain(m_pBuffItem[b].m_iBuffIdx)

(* Every block is free or belongs to one buffer, once; and the pool and    *)
(* the buffers are counted right, by which SCC decides to stop sending     *)
(* (mainctrl.cpp:651-659).  No block is ever lost, however appends fail.   *)
BlocksOwned ==
  /\ \A b \in Bufs :
       /\ ToSet(Held(b)) \cap ToSet(Chain(m_iFreeHead)) = {}
       /\ \A c \in Bufs \ {b} : ToSet(Held(b)) \cap ToSet(Held(c)) = {}
  /\ (UNION {ToSet(Held(b)) : b \in Bufs}) \cup ToSet(Chain(m_iFreeHead)) = Blocks
  /\ Len(Chain(m_iFreeHead)) = BlockNum - m_iUsedCount
  /\ m_iFreeBuffNum = Cardinality({b \in Bufs : m_pBuffItem[b].m_iBuffIdx = Nil})

(* A buffer's chain has the blocks its bytes need and ends in its last     *)
(* block, where the next append goes on.                                   *)
ChainFits ==
  \A b \in Bufs \ failed :
    LET item == m_pBuffItem[b] IN
      /\ Len(Held(b)) = BlocksOf(item.m_iBuffOffset + item.m_iBuffSize)
      /\ Held(b) # <<>> => Last(Held(b)) = item.m_iLastBuffIdx

(* The pool: its types, its blocks and its chains.                         *)
PoolRight == TypeOK /\ BlocksOwned /\ ChainFits

(* Read back block by block, the buffers are FIFOs of bytes.               *)
Fifos == INSTANCE ByteFifos
  WITH fifo <- [b \in Bufs |-> GetBuffer(b, m_pBuffItem[b].m_iBuffSize)]

ImplementsFifos == Fifos!Spec
=============================================================================
