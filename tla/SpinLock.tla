------------------------------- MODULE SpinLock -------------------------------
(***************************************************************************)
(* The spin lock of src/common/mcp/public/spin_lock.h, as processes use it *)
(* that share its word, and that may be killed while they hold it or wait  *)
(* for it.                                                                 *)
(*                                                                         *)
(* The lock is one signed byte: 1 is free.  Who wants it takes one off and *)
(* has it when the result is not negative; who has not waits until the     *)
(* byte is positive and tries again.  So everyone who waits has taken one  *)
(* off, and a byte goes down to -128 only: the next one wraps to 127.      *)
(***************************************************************************)
EXTENDS Integers, FiniteSets

CONSTANTS
  Procs,     (* the processes                                              *)
  Half,      (* the byte holds -Half .. Half - 1: 128 in the code          *)
  MaxKills   (* bound: how many of them are killed                         *)

ASSUME SpinLockAssumption ==
  /\ IsFiniteSet(Procs)
  /\ Half \in Nat \ {0, 1}
  /\ MaxKills \in Nat
  /\ Cardinality(Procs) + MaxKills <= Half

VARIABLES
  slock,   (* the byte                                                     *)
  at,      (* where every process is in its use of the lock                *)
  kills    (* how many processes were killed                               *)

lockVars == <<slock, at, kills>>

Byte == (-Half) .. (Half - 1)

(* decb: one less, modulo the width.                                       *)
Minus1(b) == IF b = -Half THEN Half - 1 ELSE b - 1

LockInit ==
  /\ slock = 1
  /\ at = [p \in Procs |-> "out"]
  /\ kills = 0

(* mutant: the jump is taken on -1 too.                                    *)
DecbOffByOne(p) ==
  /\ at[p] \in {"out", "retry"}
  /\ slock' = Minus1(slock)
  /\ at' = [at EXCEPT ![p] = IF slock' >= -1 THEN "in" ELSE "spin"]
  /\ UNCHANGED kills

(* spin_lock: the decrement and the jump on its sign.                      *)
Decb(p) ==
  /\ at[p] \in {"out", "retry"}
  /\ slock' = Minus1(slock)
  /\ at' = [at EXCEPT ![p] = IF slock' >= 0 THEN "in" ELSE "spin"]
  /\ UNCHANGED kills

(* The loop on the byte: leave it once the byte is positive.               *)
SeeFree(p) ==
  /\ at[p] = "spin" /\ slock > 0
  /\ at' = [at EXCEPT ![p] = "retry"]
  /\ UNCHANGED <<slock, kills>>

(* spin_unlock.                                                            *)
Unlock(p) ==
  /\ at[p] = "in"
  /\ slock' = 1
  /\ at' = [at EXCEPT ![p] = "out"]
  /\ UNCHANGED kills

(* The process is killed: the byte stays as it is.                         *)
Killed(p) ==
  /\ kills < MaxKills
  /\ kills' = kills + 1
  /\ at' = [at EXCEPT ![p] = "out"]
  /\ UNCHANGED slock

LockNext ==
  \E p \in Procs : Decb(p) \/ SeeFree(p) \/ Unlock(p) \/ Killed(p)

LockSpec == LockInit /\ [][LockNext]_lockVars

LockTypeOK ==
  /\ slock \in Byte
  /\ at \in [Procs -> {"out", "retry", "spin", "in"}]
  /\ kills \in 0 .. MaxKills

(* Two processes are never between spin_lock and spin_unlock at once.      *)
MutualExclusion ==
  \A p, q \in Procs : at[p] = "in" /\ at[q] = "in" => p = q
=============================================================================
