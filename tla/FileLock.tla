------------------------------ MODULE FileLock ------------------------------
(***************************************************************************)
(* The lock that every database handle takes around its work: a thread     *)
(* level, re-entrant many-reader/one-writer lock (class FileLock of        *)
(* utils.py) on top of a process level lock (the LCK_* methods of          *)
(* JDiskFiles, which use flock, and of JMemFiles, which keep counters in a *)
(* shared byte array).                                                     *)
(*                                                                         *)
(* An instance is one FileLock object with its own files object: one per   *)
(* JDb handle, in this process or in another one.  A thread belongs to one *)
(* instance.  A step is what happens between two points at which another   *)
(* thread or process can run: everything done under FileLock._lock without *)
(* touching the process level is one step, and a process level call is a   *)
(* step of its own.                                                        *)
(***************************************************************************)
EXTENDS Naturals, FiniteSets

CONSTANTS
  Insts,      \* FileLock objects that lock the same database
  Threads,    \* threads, each working with one instance
  Inst,       \* the instance of each thread
  NoThread,   \* not a thread: FileLock._lock is free
  NoInst,     \* not an instance: no write_id in the memory lock
  Backend,    \* "disk": JDiskFiles and flock; "mem": JMemFiles
  Kinds,      \* the ways acquire is called, a subset of AllKinds
  Inside,     \* those called by a thread that has a session open
  MaxDepth,   \* bound on nested acquisitions of one thread
  Calls       \* bound on the calls of acquire each thread makes

(***************************************************************************)
(* The ways the code calls acquire(block, read_only, switch): open() and   *)
(* f_open() for reading and for writing, the promotion in f_get_write_fp,  *)
(* and the non-blocking attempt of can_lock.                               *)
(***************************************************************************)
AllKinds == {"read", "write", "switch", "can_lock"}

ASSUME InstAssumption ==
  /\ Inst \in [Threads -> Insts]
  /\ NoThread \notin Threads
  /\ NoInst \notin Insts
  /\ IsFiniteSet(Insts)
ASSUME BackendAssumption == Backend \in {"disk", "mem"}
ASSUME KindsAssumption == Kinds \subseteq AllKinds /\ Inside \subseteq Kinds
ASSUME BoundAssumption == MaxDepth \in Nat /\ Calls \in Nat

VARIABLES
  mode,    \* FileLock._mode of each instance
  idents,  \* FileLock._idents: re-entrance count of each thread, 0 if absent
  mutex,   \* holder of FileLock._lock while it makes a process level call
  pc,      \* where each thread is in acquire and release
  kind,    \* the kind of call a thread is making
  fd,      \* disk: the flock that the instance's descriptor LCK_fp holds
  lck,     \* mem: LCK_file, the counters shared by all instances
  held,    \* sessions the thread has open: acquire returned, not yet released
  calls    \* calls of acquire each thread may still make

osvars == <<fd, lck>>
vars == <<mode, idents, mutex, pc, kind, fd, lck, held, calls>>

(***************************************************************************)
(* "out": not in the lock; "enter": about to take _lock at the top of the  *)
(* loop; "os": at the non-blocking process level call, with _lock;         *)
(* "wait": in _cond.wait(); "block": in the blocking process level call,   *)
(* without _lock; "granted": back from it, about to take _lock again;      *)
(* "finally": in can_lock, about to call release().                        *)
(***************************************************************************)
PCs == {"out", "enter", "os", "wait", "block", "granted", "finally"}

Mates(i) == {t \in Threads : Inst[t] = i}

ReadOnly(t) == kind[t] = "read"
Switch(t) == kind[t] = "switch"
Block(t) == kind[t] # "can_lock"

-----------------------------------------------------------------------------
(* The process level lock *)

\* flock(LOCK_SH) or LCK_rlock succeeds now
CanRlock(i) ==
  IF Backend = "disk"
    THEN \A j \in Insts \ {i} : fd[j] # "ex"
    ELSE lck.write_id \in {NoInst, i}

\* Faulty variant of CanWlock: readers of other instances are overlooked.
CanWlockOverReaders(i) ==
  IF Backend = "disk"
    THEN \A j \in Insts \ {i} : fd[j] # "ex"
    ELSE lck.write_id \in {NoInst, i}

\* flock(LOCK_EX) or LCK_wlock succeeds now
CanWlock(i) ==
  IF Backend = "disk"
    THEN \A j \in Insts \ {i} : fd[j] = "un"
    ELSE lck.write_id = i \/ (lck.read_cnt = 0 /\ lck.write_id = NoInst)

Rlock(i) ==
  IF Backend = "disk"
    THEN /\ fd' = [fd EXCEPT ![i] = "sh"]
         /\ UNCHANGED lck
    ELSE /\ lck' = [lck EXCEPT !.read_cnt = @ + 1]
         /\ UNCHANGED fd

Wlock(i) ==
  IF Backend = "disk"
    THEN /\ fd' = [fd EXCEPT ![i] = "ex"]
         /\ UNCHANGED lck
    ELSE /\ lck' = IF lck.write_id = i
                     THEN [lck EXCEPT !.write_cnt = @ + 1]
                     ELSE [lck EXCEPT !.write_id = i, !.write_cnt = 1]
         /\ UNCHANGED fd

\* LCK_unlock: the memory lock cannot tell whether the caller holds a read
\* lock, and takes one reader off whenever the caller is not the writer
Unlock(i) ==
  IF Backend = "disk"
    THEN /\ fd' = [fd EXCEPT ![i] = "un"]
         /\ UNCHANGED lck
    ELSE /\ lck' = IF lck.write_id = i
                     THEN IF lck.write_cnt <= 1
                            THEN [lck EXCEPT !.write_id = NoInst, !.write_cnt = 0]
                            ELSE [lck EXCEPT !.write_cnt = @ - 1]
                     ELSE [lck EXCEPT !.read_cnt = IF @ = 0 THEN 0 ELSE @ - 1]
         /\ UNCHANGED fd

CanLock(t) == IF ReadOnly(t) THEN CanRlock(Inst[t]) ELSE CanWlock(Inst[t])
Lock(t) == IF ReadOnly(t) THEN Rlock(Inst[t]) ELSE Wlock(Inst[t])

-----------------------------------------------------------------------------
(* acquire *)

\* A thread calls acquire.  The promotion is only asked for by a thread that
\* has a read session open (f_get_write_fp).
Call(t, k) ==
  /\ pc[t] = "out"
  /\ calls[t] > 0
  /\ k = "switch" => held[t] > 0 /\ mode[Inst[t]] # "w"
  /\ held[t] > 0 => k \in Inside
  /\ k \in {"read", "write"} => held[t] < MaxDepth
  /\ kind' = [kind EXCEPT ![t] = k]
  /\ pc' = [pc EXCEPT ![t] = "enter"]
  /\ calls' = [calls EXCEPT ![t] = @ - 1]
  /\ UNCHANGED <<mode, idents, mutex, fd, lck, held>>

\* The thread is at the top of the loop and can take _lock.
AtTop(t) == pc[t] = "enter" /\ mutex[Inst[t]] = NoThread

\* acquire returns to rlock, wlock, open or f_open, which have one session more,
\* to f_get_write_fp, whose session it promotes, or to can_lock, which goes on
\* to its release()
AfterReturn(t) == IF kind[t] = "can_lock" THEN "finally" ELSE "out"

Entered(t) ==
  held' = IF kind[t] \in {"read", "write"} THEN [held EXCEPT ![t] = @ + 1] ELSE held

Returns(t) ==
  /\ pc' = [pc EXCEPT ![t] = AfterReturn(t)]
  /\ Entered(t)

\* acquire raises FileLockException; only can_lock calls it without blocking,
\* and its "finally" calls release() all the same.
Raises(t) == pc' = [pc EXCEPT ![t] = "finally"]

\* pc after _cond.notify_all() and a step of thread t
Notified(t, to) ==
  [u \in Threads |-> IF u = t THEN to
                     ELSE IF Inst[u] = Inst[t] /\ pc[u] = "wait" THEN "enter"
                     ELSE pc[u]]

ReturnsNotifying(t) ==
  /\ pc' = Notified(t, AfterReturn(t))
  /\ Entered(t)

\* [1] readers share; the writing thread re-enters
Reenter(t) ==
  LET i == Inst[t] IN
  /\ AtTop(t)
  /\ \/ mode[i] = "r" /\ ReadOnly(t) /\ \E u \in Mates(i) : idents[u] > 0
     \/ mode[i] = "w" /\ idents[t] > 0
  /\ idents' = [idents EXCEPT ![t] = @ + 1]
  /\ Returns(t)
  /\ UNCHANGED <<mode, mutex, kind, fd, lck, calls>>

Promoting(t) ==
  mode[Inst[t]] = "r" /\ idents[t] > 0 /\ ~ReadOnly(t)

OnlyOwner(t) == \A u \in Mates(Inst[t]) \ {t} : idents[u] = 0

\* Faulty variant of PromotedCount: the count of the promoted session stays.
PromotedCountKept(t) == idents[t]

\* What the attempt to promote leaves in _idents: with switch the count goes
\* down by one (the acquisition adds it again), without it stays.
PromotedCount(t) == IF Switch(t) THEN idents[t] - 1 ELSE idents[t]

\* The last owner of the read lock gives it up and goes for the write lock.
\* Without switch this needs a count of one.
PromoteLast(t) ==
  LET i == Inst[t] IN
  /\ AtTop(t)
  /\ Promoting(t) /\ OnlyOwner(t)
  /\ Switch(t) \/ idents[t] = 1
  /\ Unlock(i)
  /\ mode' = [mode EXCEPT ![i] = ""]
  /\ idents' = [idents EXCEPT ![t] = PromotedCount(t)]
  /\ mutex' = [mutex EXCEPT ![i] = t]
  /\ pc' = IF Switch(t) THEN [pc EXCEPT ![t] = "os"] ELSE Notified(t, "os")
  /\ UNCHANGED <<kind, held, calls>>

\* The lock is taken: wait, or give up when the call must not block.  A
\* promotion that finds other readers has already given up its own count
\* when it was asked for with switch.
MustWait(t) ==
  LET i == Inst[t] IN
  /\ AtTop(t)
  /\ mode[i] # ""
  /\ ~(mode[i] = "r" /\ ReadOnly(t) /\ \E u \in Mates(i) : idents[u] > 0)
  /\ ~(mode[i] = "w" /\ idents[t] > 0)
  /\ ~(Promoting(t) /\ OnlyOwner(t) /\ (Switch(t) \/ idents[t] = 1))
  /\ idents' = IF Promoting(t) THEN [idents EXCEPT ![t] = PromotedCount(t)]
                               ELSE idents
  /\ IF Block(t) THEN pc' = [pc EXCEPT ![t] = "wait"] ELSE Raises(t)
  /\ UNCHANGED <<mode, mutex, kind, fd, lck, held, calls>>

\* Nobody in this instance has the lock: go to the process level.
GoToOs(t) ==
  LET i == Inst[t] IN
  /\ AtTop(t)
  /\ mode[i] = ""
  /\ mutex' = [mutex EXCEPT ![i] = t]
  /\ pc' = [pc EXCEPT ![t] = "os"]
  /\ UNCHANGED <<mode, idents, kind, fd, lck, held, calls>>

\* [2] the non-blocking process level call succeeds
OsTry(t) ==
  LET i == Inst[t] IN
  /\ pc[t] = "os"
  /\ CanLock(t)
  /\ Lock(t)
  /\ mode' = [mode EXCEPT ![i] = IF ReadOnly(t) THEN "r" ELSE "w"]
  /\ idents' = [idents EXCEPT ![t] = @ + 1]
  /\ mutex' = [mutex EXCEPT ![i] = NoThread]
  /\ IF ReadOnly(t) THEN ReturnsNotifying(t) ELSE Returns(t)
  /\ UNCHANGED <<kind, calls>>

\* ... or raises BlockingIOError: block without _lock, or give up
OsBusy(t) ==
  LET i == Inst[t] IN
  /\ pc[t] = "os"
  /\ ~CanLock(t)
  /\ mutex' = [mutex EXCEPT ![i] = NoThread]
  /\ IF Block(t)
       THEN /\ mode' = [mode EXCEPT ![i] = "p"]
            /\ pc' = [pc EXCEPT ![t] = "block"]
       ELSE /\ mode' = IF idents[t] > 0 THEN [mode EXCEPT ![i] = "r"] ELSE mode
            /\ Raises(t)
  /\ UNCHANGED <<idents, kind, fd, lck, held, calls>>

\* the blocking process level call returns
OsGrant(t) ==
  /\ pc[t] = "block"
  /\ CanLock(t)
  /\ Lock(t)
  /\ pc' = [pc EXCEPT ![t] = "granted"]
  /\ UNCHANGED <<mode, idents, mutex, kind, held, calls>>

\* ... and acquire takes _lock again, enters its mode and returns
Regain(t) ==
  LET i == Inst[t] IN
  /\ pc[t] = "granted"
  /\ mutex[i] = NoThread
  /\ mode' = [mode EXCEPT ![i] = IF ReadOnly(t) THEN "r" ELSE "w"]
  /\ idents' = [idents EXCEPT ![t] = @ + 1]
  /\ ReturnsNotifying(t)
  /\ UNCHANGED <<mutex, kind, fd, lck, calls>>

-----------------------------------------------------------------------------
(* release *)

\* Faulty variants of DoRelease: the count goes below zero when the thread has
\* no session; ...
DoReleaseUnchecked(t) ==
  LET i == Inst[t]
      last == idents[t] = 1 /\ OnlyOwner(t)
  IN
  /\ mutex[i] = NoThread
  /\ idents' = [idents EXCEPT ![t] = @ - 1]
  /\ IF last THEN Unlock(i) ELSE UNCHANGED osvars
  /\ mode' = IF last THEN [mode EXCEPT ![i] = ""] ELSE mode
  /\ pc' = IF last THEN Notified(t, "out") ELSE [pc EXCEPT ![t] = "out"]
  /\ UNCHANGED <<mutex, kind, calls>>

\* ... the lock is given back although other readers of the instance remain; ...
DoReleaseAlone(t) ==
  LET i == Inst[t]
      last == idents[t] = 1
  IN
  /\ mutex[i] = NoThread
  /\ idents' = [idents EXCEPT ![t] = IF @ = 0 THEN 0 ELSE @ - 1]
  /\ IF last THEN Unlock(i) ELSE UNCHANGED osvars
  /\ mode' = IF last THEN [mode EXCEPT ![i] = ""] ELSE mode
  /\ pc' = IF last THEN Notified(t, "out") ELSE [pc EXCEPT ![t] = "out"]
  /\ UNCHANGED <<mutex, kind, calls>>

\* ... the process level lock is not given back; ...
DoReleaseKeepingLock(t) ==
  LET i == Inst[t]
      last == idents[t] = 1 /\ OnlyOwner(t)
  IN
  /\ mutex[i] = NoThread
  /\ idents' = [idents EXCEPT ![t] = IF @ = 0 THEN 0 ELSE @ - 1]
  /\ mode' = IF last THEN [mode EXCEPT ![i] = ""] ELSE mode
  /\ pc' = IF last THEN Notified(t, "out") ELSE [pc EXCEPT ![t] = "out"]
  /\ UNCHANGED <<osvars, mutex, kind, calls>>

\* ... nobody is notified.
DoReleaseSilently(t) ==
  LET i == Inst[t]
      last == idents[t] = 1 /\ OnlyOwner(t)
  IN
  /\ mutex[i] = NoThread
  /\ idents' = [idents EXCEPT ![t] = IF @ = 0 THEN 0 ELSE @ - 1]
  /\ IF last THEN Unlock(i) ELSE UNCHANGED osvars
  /\ mode' = IF last THEN [mode EXCEPT ![i] = ""] ELSE mode
  /\ pc' = [pc EXCEPT ![t] = "out"]
  /\ UNCHANGED <<mutex, kind, calls>>

\* What release() does for thread t, going on to pc "out"
DoRelease(t) ==
  LET i == Inst[t]
      last == idents[t] = 1 /\ OnlyOwner(t)
  IN
  /\ mutex[i] = NoThread
  /\ idents' = [idents EXCEPT ![t] = IF @ = 0 THEN 0 ELSE @ - 1]
  /\ IF last THEN Unlock(i) ELSE UNCHANGED osvars
  /\ mode' = IF last THEN [mode EXCEPT ![i] = ""] ELSE mode
  /\ pc' = IF last THEN Notified(t, "out") ELSE [pc EXCEPT ![t] = "out"]
  /\ UNCHANGED <<mutex, kind, calls>>

\* The thread closes its innermost session.
Release(t) ==
  /\ pc[t] = "out"
  /\ held[t] > 0
  /\ DoRelease(t)
  /\ held' = [held EXCEPT ![t] = @ - 1]

\* The "finally" of can_lock: release(), whether acquire returned or raised.
\* The session it may have opened was never the caller's.
CanLockFinally(t) ==
  /\ pc[t] = "finally"
  /\ DoRelease(t)
  /\ held' = held

-----------------------------------------------------------------------------
Init ==
  /\ mode = [i \in Insts |-> ""]
  /\ idents = [t \in Threads |-> 0]
  /\ mutex = [i \in Insts |-> NoThread]
  /\ pc = [t \in Threads |-> "out"]
  /\ kind = [t \in Threads |-> "read"]
  /\ fd = [i \in Insts |-> "un"]
  /\ lck = [read_cnt |-> 0, write_id |-> NoInst, write_cnt |-> 0]
  /\ held = [t \in Threads |-> 0]
  /\ calls = [t \in Threads |-> Calls]

\* The steps a thread takes inside acquire once it has called it
Acquire(t) ==
  \/ Reenter(t)
  \/ PromoteLast(t)
  \/ MustWait(t)
  \/ GoToOs(t)
  \/ OsTry(t)
  \/ OsBusy(t)
  \/ OsGrant(t)
  \/ Regain(t)

Next ==
  \E t \in Threads :
    \/ \E k \in Kinds : Call(t, k)
    \/ Acquire(t)
    \/ Release(t)
    \/ CanLockFinally(t)

Spec == Init /\ [][Next]_vars

\* A thread that is inside acquire or release runs on, and one that has a
\* session open closes it in the end ("with" blocks and f_close).  flock and
\* the memory lock's condition are granted eventually if they stay grantable.
Fairness ==
  \A t \in Threads : WF_vars(Acquire(t)) /\ WF_vars(Release(t)) /\ WF_vars(CanLockFinally(t))

FairSpec == Spec /\ Fairness

-----------------------------------------------------------------------------
(* Properties *)

\* Type invariant: the modes, counts and process level state that acquire and
\* release leave behind stay in their ranges; in particular no count goes below
\* zero, not even in the release() of a can_lock that did not get the lock.
TypeOK ==
  /\ mode \in [Insts -> {"", "r", "w", "p"}]
  /\ idents \in [Threads -> Nat]
  /\ mutex \in [Insts -> Threads \cup {NoThread}]
  /\ pc \in [Threads -> PCs]
  /\ kind \in [Threads -> AllKinds]
  /\ fd \in [Insts -> {"un", "sh", "ex"}]
  /\ lck \in [read_cnt : Nat, write_id : Insts \cup {NoInst}, write_cnt : Nat]
  /\ held \in [Threads -> Nat]
  /\ calls \in [Threads -> Nat]

\* Threads that believe they may read, or write, right now: acquire returned
\* to them and they are not inside a further call of it.
Reading(t) == pc[t] = "out" /\ held[t] > 0
Writing(t) == Reading(t) /\ mode[Inst[t]] = "w"

\* The FileLock docstring: only one thread in one process may hold a write
\* lock; all readers are excluded.  While a thread is inside a write session no
\* thread of any instance is inside a session, whatever promotions, re-entrances
\* and blocked calls came before.
MutualExclusion ==
  \A t \in Threads : Writing(t) => \A u \in Threads \ {t} : ~Reading(u)

\* A session is backed by the process level lock for all of its life: in a
\* read or write session the instance holds the shared or exclusive lock, so
\* that no other process can enter.  Promotion gives the lock up in between.
SessionProtected ==
  \A t \in Threads :
    Reading(t) =>
      LET i == Inst[t] IN
      /\ mode[i] \in {"r", "w"}
      /\ Backend = "disk" => fd[i] = IF mode[i] = "w" THEN "ex" ELSE "sh"
      /\ Backend = "mem" => IF mode[i] = "w" THEN lck.write_id = i
                                             ELSE lck.read_cnt > 0

\* The count release() works from is the number of sessions the thread has
\* open, so that the last close and no earlier one gives the lock back.
CountsSessions == \A t \in Threads : pc[t] = "out" => idents[t] = held[t]

\* Once every thread has closed its sessions the process level lock is free:
\* no path through promotion, blocking and re-entrance leaves it behind.
NoLockLeft ==
  (\A t \in Threads : pc[t] = "out" /\ held[t] = 0) =>
    /\ \A i \in Insts : mode[i] = "" /\ fd[i] = "un"
    /\ lck = [read_cnt |-> 0, write_id |-> NoInst, write_cnt |-> 0]

\* Every call of acquire returns: no wake-up of _cond is missed and no two
\* instances wait for each other.
AcquireReturns == \A t \in Threads : (pc[t] # "out") ~> (pc[t] = "out")

\* acquire, on switch: the write lock is acquired "without allowing other threads
\* to sneak in between".  No thread gets to write while another is promoted.
PromotionAtomic ==
  [][\A t, u \in Threads :
       t # u /\ Switch(t) /\ pc[t] # "out" /\ Writing(u)' => Writing(u)]_vars
=============================================================================
