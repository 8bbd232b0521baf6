------------------------------ MODULE SharedRing ------------------------------
(***************************************************************************)
(* How processes come to share one ring and its write lock:                *)
(* CCodeQueue::CreateMQByFile, CreateMQShm, AttachMem and                  *)
(* shm_spin_lock_init.  Whoever comes first creates the segments and       *)
(* initialises what is in them, the others attach; nothing orders one      *)
(* process's start and another's, and bin/server_admin.sh starts them one  *)
(* right after the other as daemons.  Each system call, and each store to  *)
(* shared memory that another start could see, is a step of its own.       *)
(*                                                                         *)
(* Processes end by a signal, are killed anywhere, start again, and the    *)
(* Size of the queue file is edited.  Segments outlive them all.  Of the   *)
(* ring only its size and the end of its data are kept: what a start can   *)
(* destroy.                                                                *)
(***************************************************************************)
EXTENDS SpinLock

CONSTANTS
  Sizes,        (* the values of Size in the queue's file                  *)
  MaxSegments,  (* bound: how many segments are created for the ring:      *)
                (* after that the system has no memory for another         *)
  MaxEdits,     (* bound: how often the file is edited                     *)
  Cap           (* bound: how many frames are appended to a ring           *)

ASSUME SharedRingAssumption ==
  /\ Sizes \subseteq Nat \ {0} /\ Sizes # {}
  /\ MaxSegments \in Nat /\ MaxEdits \in Nat /\ Cap \in Nat

VARIABLES
  iShmSize,    (* Size in the queue's file                                 *)
  edits,       (* how often it was edited                                  *)
  key,         (* the segment the ring's key names, 0 for none             *)
  created,     (* the segments created so far are 1 .. created             *)
  segsz,       (* the size each was created with                           *)
  m_nSize,     (* the ring in each: 0 until it is initialised              *)
  m_nEnd,
  lockCreated, (* the lock's segment exists                                *)
  pc,          (* where every process is                                   *)
  mySize,      (* the size it read from the file                           *)
  seg,         (* the segment it found or created                          *)
  bNewCreate,  (* it created it                                            *)
  iFirstCreate,(* it created the lock's segment                            *)
  myEnd,       (* the end of the data it read under the lock               *)
  overlapped,  (* history: two starts overlapped since all were down       *)
  stuck,       (* history: a holder was killed, and since then the lock's  *)
               (* segment was always attached                              *)
  torn         (* history: the rings whose creator was killed at the start *)

system == <<iShmSize, edits, key, created, segsz, lockCreated>>
rings  == <<m_nSize, m_nEnd>>
locals == <<mySize, seg, bNewCreate, iFirstCreate, myEnd>>
vars   == <<lockVars, system, rings, pc, locals, overlapped, stuck, torn>>

Segments == 1 .. MaxSegments

Finding == {"excl", "open", "openAny", "stat", "remove", "recreate"}
Making  == {"attach", "lockGet", "lockAttach", "lockStat", "lockInit", "head", "size"}
Starting == Finding \cup Making \cup {"check"}
OnLock  == {"lockStat", "lockInit", "head", "size", "check", "up"}
OnRing  == OnLock \cup {"lockGet", "lockAttach"}

(* shm_nattch of a ring's segment, and of the lock's.                      *)
Attached(s) == {p \in Procs : pc[p] \in OnRing /\ seg[p] = s}
LockAttached == {p \in Procs : pc[p] \in OnLock}

(* A removed segment lives on while it is attached.                        *)
Exists(s) == s = key \/ Attached(s) # {}

Init ==
  /\ LockInit
  /\ iShmSize \in Sizes /\ edits = 0
  /\ key = 0 /\ created = 0 /\ lockCreated = FALSE
  /\ segsz = [s \in Segments |-> 0]
  /\ m_nSize = [s \in Segments |-> 0]
  /\ m_nEnd = [s \in Segments |-> 0]
  /\ pc = [p \in Procs |-> "down"]
  /\ mySize = [p \in Procs |-> 0]
  /\ seg = [p \in Procs |-> 0]
  /\ bNewCreate = [p \in Procs |-> FALSE]
  /\ iFirstCreate = [p \in Procs |-> FALSE]
  /\ myEnd = [p \in Procs |-> -1]
  /\ overlapped = FALSE /\ stuck = FALSE /\ torn = {}

Goto(p, label) == pc' = [pc EXCEPT ![p] = label]

(* The process is gone, and with it what it had attached: the histories    *)
(* start anew when it was the last.                                        *)
Gone(p) ==
  /\ Goto(p, "down")
  /\ seg' = [seg EXCEPT ![p] = 0]
  /\ bNewCreate' = [bNewCreate EXCEPT ![p] = FALSE]
  /\ iFirstCreate' = [iFirstCreate EXCEPT ![p] = FALSE]
  /\ mySize' = [mySize EXCEPT ![p] = 0]
  /\ myEnd' = [myEnd EXCEPT ![p] = -1]
  /\ overlapped' = (overlapped /\ \E q \in Procs \ {p} : pc[q] # "down")
  /\ stuck' = ((stuck \/ at[p] = "in") /\ LockAttached \ {p} # {})
  /\ UNCHANGED <<system, rings>>

(* CreateMQByFile fails, or the process aborts: it does not come up.       *)
Fail(p) == Gone(p) /\ UNCHANGED <<lockVars, torn>>

(* A segment of zeros; the key names it.                                   *)
Create(p) ==
  /\ created < MaxSegments
  /\ created' = created + 1 /\ key' = created'
  /\ segsz' = [segsz EXCEPT ![created'] = mySize[p]]
  /\ seg' = [seg EXCEPT ![p] = created']
  /\ bNewCreate' = [bNewCreate EXCEPT ![p] = TRUE]
  /\ Goto(p, "attach")
  /\ UNCHANGED <<lockVars, iShmSize, edits, lockCreated, rings,
                 mySize, iFirstCreate, myEnd, overlapped, stuck, torn>>

(* The segment found is the one to use.                                    *)
Found(p, label) ==
  /\ seg' = [seg EXCEPT ![p] = key]
  /\ Goto(p, label)
  /\ UNCHANGED <<lockVars, system, rings, mySize, bNewCreate, iFirstCreate,
                 myEnd, overlapped, stuck, torn>>

Go(p, label) ==
  /\ Goto(p, label)
  /\ UNCHANGED <<lockVars, system, rings, locals, overlapped, stuck, torn>>

-----------------------------------------------------------------------------
(* The start, step by step.                                                *)

(* GetMQCfgFromFile.                                                       *)
Start(p) ==
  /\ pc[p] = "down"
  /\ Goto(p, "excl")
  /\ mySize' = [mySize EXCEPT ![p] = iShmSize]
  /\ overlapped' = (overlapped \/ \E q \in Procs : pc[q] \in Starting)
  /\ UNCHANGED <<lockVars, system, rings, seg, bNewCreate, iFirstCreate,
                 myEnd, stuck, torn>>

(* CreateMQShm: shmget with IPC_CREAT|IPC_EXCL.                            *)
Excl(p) ==
  /\ pc[p] = "excl"
  /\ \/ key = 0 /\ Create(p)
     \/ key = 0 /\ created = MaxSegments /\ Fail(p)
     \/ key # 0 /\ Go(p, "open")

(* ... of the one there is: refused when that one is smaller.              *)
Open(p) ==
  /\ pc[p] = "open"
  /\ \/ key # 0 /\ segsz[key] >= mySize[p] /\ Found(p, "attach")
     \/ (key # 0 => segsz[key] < mySize[p]) /\ Go(p, "openAny")

(* ... of any size.                                                        *)
OpenAny(p) ==
  /\ pc[p] = "openAny"
  /\ \/ key # 0 /\ Found(p, "stat")
     \/ key = 0 /\ Fail(p)

(* mutant: without a look at who is attached.                              *)
StatBlind(p) ==
  /\ pc[p] = "stat"
  /\ \/ seg[p] = key /\ Go(p, "remove")
     \/ seg[p] # key /\ Fail(p)

(* IPC_STAT: only a segment nobody is attached to is replaced.             *)
Stat(p) ==
  /\ pc[p] = "stat"
  /\ \/ seg[p] = key /\ Attached(seg[p]) = {} /\ Go(p, "remove")
     \/ ~ (seg[p] = key /\ Attached(seg[p]) = {}) /\ Fail(p)

(* IPC_RMID, which does not look again.                                    *)
Remove(p) ==
  /\ pc[p] = "remove"
  /\ \/ ~ Exists(seg[p]) /\ Fail(p)
     \/ /\ Exists(seg[p])
        /\ key' = IF key = seg[p] THEN 0 ELSE key
        /\ Goto(p, "recreate")
        /\ UNCHANGED <<lockVars, iShmSize, edits, created, segsz, lockCreated,
                       rings, locals, overlapped, stuck, torn>>

Recreate(p) ==
  /\ pc[p] = "recreate"
  /\ \/ key = 0 /\ Create(p)
     \/ (key # 0 \/ created = MaxSegments) /\ Fail(p)

(* shmat: its -1 is not what CreateMQByFile tests for, and it dies of it.  *)
Attach(p) ==
  /\ pc[p] = "attach"
  /\ \/ Exists(seg[p]) /\ Go(p, "lockGet")
     \/ ~ Exists(seg[p]) /\ Fail(p)

(* shm_spin_lock_init: shmget.                                             *)
LockGet(p) ==
  /\ pc[p] = "lockGet"
  /\ iFirstCreate' = [iFirstCreate EXCEPT ![p] = ~ lockCreated]
  /\ lockCreated' = TRUE
  /\ slock' = IF lockCreated THEN slock ELSE 0
  /\ Goto(p, "lockAttach")
  /\ UNCHANGED <<at, kills, iShmSize, edits, key, created, segsz, rings,
                 mySize, seg, bNewCreate, myEnd, overlapped, stuck, torn>>

(* ... shmat.                                                              *)
LockAttach(p) == pc[p] = "lockAttach" /\ Go(p, "lockStat")

AfterLock(p) == IF bNewCreate[p] THEN "head" ELSE "check"

(* mutant: only its creator initialises the lock.                          *)
LockStatCreator(p) ==
  /\ pc[p] = "lockStat"
  /\ Go(p, IF iFirstCreate[p] THEN "lockInit" ELSE AfterLock(p))

(* ... IPC_STAT: is it new, or does nobody else use it?                    *)
LockStat(p) ==
  /\ pc[p] = "lockStat"
  /\ \/ (LockAttached = {p} \/ iFirstCreate[p]) /\ Go(p, "lockInit")
     \/ ~ (LockAttached = {p} \/ iFirstCreate[p]) /\ Go(p, AfterLock(p))

(* ... spin_lock_init.                                                     *)
InitLock(p) ==
  /\ pc[p] = "lockInit"
  /\ slock' = 1
  /\ Goto(p, AfterLock(p))
  /\ UNCHANGED <<at, kills, system, rings, locals, overlapped, stuck, torn>>

(* AttachMem of who created the ring: first its two ends ...               *)
InitHead(p) ==
  /\ pc[p] = "head"
  /\ m_nEnd' = [m_nEnd EXCEPT ![seg[p]] = 0]
  /\ Goto(p, "size")
  /\ UNCHANGED <<lockVars, system, m_nSize, locals, overlapped, stuck, torn>>

(* mutant: the head is counted twice.                                      *)
InitSizeLess(p) ==
  /\ pc[p] = "size"
  /\ m_nSize' = [m_nSize EXCEPT ![seg[p]] = mySize[p] - 1]
  /\ Goto(p, "up")
  /\ UNCHANGED <<lockVars, system, m_nEnd, locals, overlapped, stuck, torn>>

(* ... then its size.                                                      *)
InitSize(p) ==
  /\ pc[p] = "size"
  /\ m_nSize' = [m_nSize EXCEPT ![seg[p]] = mySize[p]]
  /\ Goto(p, "up")
  /\ UNCHANGED <<lockVars, system, m_nEnd, locals, overlapped, stuck, torn>>

(* mutant: the size is not looked at.                                      *)
CheckEndsOnly(p) == pc[p] = "check" /\ Go(p, "up")

(* AttachMem of who found it: assert that the size is the one of the file. *)
Check(p) ==
  /\ pc[p] = "check"
  /\ \/ m_nSize[seg[p]] = mySize[p] /\ Go(p, "up")
     \/ m_nSize[seg[p]] # mySize[p] /\ Fail(p)

StartStep(p) ==
  \/ Excl(p) \/ Open(p) \/ OpenAny(p) \/ Stat(p) \/ Remove(p) \/ Recreate(p)
  \/ Attach(p) \/ LockGet(p) \/ LockAttach(p) \/ LockStat(p) \/ InitLock(p)
  \/ InitHead(p) \/ InitSize(p) \/ Check(p)

-----------------------------------------------------------------------------
(* AppendOneCode under the lock.                                           *)

Nothing == UNCHANGED <<system, pc, mySize, seg, bNewCreate, iFirstCreate,
                       overlapped, stuck, torn>>

Lock(p)  == pc[p] = "up" /\ Decb(p) /\ UNCHANGED <<rings, myEnd>> /\ Nothing
Retry(p) == pc[p] = "up" /\ SeeFree(p) /\ UNCHANGED <<rings, myEnd>> /\ Nothing

(* It reads where the data ends; none (-1) while it has not.               *)
ReadEnd(p) ==
  /\ pc[p] = "up" /\ at[p] = "in" /\ myEnd[p] = -1
  /\ myEnd' = [myEnd EXCEPT ![p] = m_nEnd[seg[p]]]
  /\ UNCHANGED <<lockVars, rings>> /\ Nothing

(* It publishes the new end, unless the ring is full, and unlocks.         *)
Append(p) ==
  /\ pc[p] = "up" /\ myEnd[p] # -1
  /\ IF myEnd[p] < Cap
     THEN /\ m_nEnd' = [m_nEnd EXCEPT ![seg[p]] = myEnd[p] + 1]
          /\ UNCHANGED m_nSize
     ELSE UNCHANGED rings
  /\ Unlock(p)
  /\ myEnd' = [myEnd EXCEPT ![p] = -1]
  /\ Nothing

-----------------------------------------------------------------------------
(* What happens to the processes.                                          *)

(* The end of a process on its own terms: between two appends.             *)
Exit(p) == pc[p] = "up" /\ at[p] = "out" /\ Gone(p) /\ UNCHANGED <<lockVars, torn>>

Kill(p) ==
  /\ pc[p] # "down"
  /\ Killed(p)
  /\ torn' = IF bNewCreate[p] /\ pc[p] \in Making THEN torn \cup {seg[p]} ELSE torn
  /\ Gone(p)

(* Size is edited in the queue's file.                                     *)
Edit ==
  /\ edits < MaxEdits
  /\ edits' = edits + 1
  /\ iShmSize' \in Sizes \ {iShmSize}
  /\ UNCHANGED <<lockVars, key, created, segsz, lockCreated, rings, pc, locals,
                 overlapped, stuck, torn>>

Running(p) == StartStep(p) \/ Retry(p) \/ (at[p] = "retry" /\ Lock(p))
              \/ ReadEnd(p) \/ Append(p)

Next ==
  \/ \E p \in Procs : Start(p) \/ Running(p) \/ Lock(p) \/ Exit(p) \/ Kill(p)
  \/ Edit

(* A process that was started, or waits for the lock, or holds it, goes on. *)
Fairness == \A p \in Procs : WF_vars(Running(p))

Spec == Init /\ [][Next]_vars /\ Fairness

-----------------------------------------------------------------------------
(* Properties.                                                             *)

TypeOK ==
  /\ LockTypeOK
  /\ iShmSize \in Sizes /\ edits \in 0 .. MaxEdits
  /\ created \in 0 .. MaxSegments /\ key \in 0 .. created
  /\ segsz \in [Segments -> Sizes \cup {0}]
  /\ m_nSize \in [Segments -> Sizes \cup {0}]
  /\ m_nEnd \in [Segments -> 0 .. Cap]
  /\ lockCreated \in BOOLEAN
  /\ pc \in [Procs -> Starting \cup {"down", "up"}]
  /\ mySize \in [Procs -> Sizes \cup {0}]
  /\ seg \in [Procs -> 0 .. created]
  /\ bNewCreate \in [Procs -> BOOLEAN] /\ iFirstCreate \in [Procs -> BOOLEAN]
  /\ myEnd \in [Procs -> -1 .. Cap]
  /\ overlapped \in BOOLEAN /\ stuck \in BOOLEAN /\ torn \subseteq Segments

(* Until its size is there, a ring has one process that makes it and none  *)
(* that works on it, however the starts interleave: the stores of          *)
(* AttachMem (CodeQueue.cpp:450-452) never wipe what another has appended. *)
FreshUntilSized ==
  \A p \in Procs : pc[p] \in {"head", "size"} =>
     /\ m_nEnd[seg[p]] = 0
     /\ \A q \in Procs \ {p} : ~ (pc[q] = "up" /\ seg[q] = seg[p])

(* When no two starts overlapped, the write lock (spin_lock.h) excludes,   *)
(* also after some were killed in it and others have attached since: no    *)
(* start initialises a lock that is in use.                                *)
LockExcludes == overlapped \/ MutualExclusion

(* ... so the end of the data that an append has read is still the end     *)
(* when it publishes the new one: no frame overwrites another's.           *)
NothingOverwritten ==
  \A p \in Procs : overlapped \/ myEnd[p] = -1 \/ myEnd[p] = m_nEnd[seg[p]]

(* When no two starts overlapped, all who are up share the ring the key    *)
(* names, whatever was done to Size meanwhile: CreateMQShm replaces a      *)
(* segment only when nobody is attached (CodeQueue.cpp:141-154).           *)
OneRing == \A p \in Procs : pc[p] = "up" => overlapped \/ seg[p] = key

(* Why AttachMem's assertions (CodeQueue.cpp:463-468) fail, if not because *)
(* "mem must be crashed": Size was made smaller; or the creator has not    *)
(* come to the stores yet; or it was killed before them, and then no start *)
(* succeeds until somebody removes the segment.                            *)
Startable ==
  \A p \in Procs : pc[p] = "check" =>
    \/ m_nSize[seg[p]] >= mySize[p]
    \/ m_nSize[seg[p]] = 0 /\ (overlapped \/ seg[p] \in torn)

(* Who waits for the lock sees it come free, unless the starts overlapped, *)
(* or a holder was killed and the lock was attached ever since: then its   *)
(* byte is never initialised again (spin_lock.h:93).                       *)
SeesItFree ==
  \A p \in Procs :
    at[p] = "spin" ~> (at[p] # "spin" \/ slock > 0 \/ overlapped \/ stuck)
=============================================================================
