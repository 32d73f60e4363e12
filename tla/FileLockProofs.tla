--------------------------- MODULE FileLockProofs ---------------------------
(***************************************************************************)
(* Proofs about FileLock, for any number of instances and threads, both    *)
(* process level locks and any depth of re-entrance.                       *)
(***************************************************************************)
EXTENDS FileLock, FiniteSetTheorems, TLAPS

(***************************************************************************)
(* can_lock() takes a lock away from a caller that has a session open      *)
(* (README, section 3), so the theorems are about clients that call it     *)
(* outside their sessions.                                                 *)
(***************************************************************************)
CanLockIdle == "can_lock" \notin Inside

(***************************************************************************)
(* The process level lock that an instance should hold, judged by what its *)
(* threads believe.                                                        *)
(***************************************************************************)
Holds == [i \in Insts |->
  IF mode[i] = "r" \/ \E t \in Mates(i) : pc[t] = "granted" /\ ReadOnly(t)
    THEN "sh"
    ELSE IF mode[i] = "w" \/ \E t \in Mates(i) : pc[t] = "granted"
           THEN "ex"
           ELSE "un"]

Sharers(h) == {i \in Insts : h[i] = "sh"}

(***************************************************************************)
(* The state of the process level lock agrees with h: flock by descriptor, *)
(* the memory lock by counting, and a writer excludes everybody else.      *)
(***************************************************************************)
OsMatch(h, f, l) ==
  /\ \A i, j \in Insts : h[i] = "ex" /\ i # j => h[j] = "un"
  /\ Backend = "disk" => f = h
  /\ Backend = "mem" =>
       /\ l.read_cnt = Cardinality(Sharers(h))
       /\ \A i \in Insts : h[i] = "ex" <=> l.write_id = i
       /\ l.write_cnt = IF l.write_id = NoInst THEN 0 ELSE 1

InOs(t) == pc[t] \in {"block", "granted"}

InvMutex ==
  \A t \in Threads : pc[t] = "os" => mutex[Inst[t]] = t /\ mode[Inst[t]] = ""

InvPending ==
  \A t \in Threads : InOs(t) =>
    /\ mode[Inst[t]] = "p"
    /\ \A u \in Threads : Inst[u] = Inst[t] /\ InOs(u) => u = t

InvOwners ==
  \A t \in Threads : idents[t] > 0 => mode[Inst[t]] \in {"r", "w"} \/ InOs(t) \/ pc[t] = "os"

InvWriter ==
  \A t, u \in Threads :
    Inst[t] = Inst[u] /\ mode[Inst[t]] = "w" /\ idents[t] > 0 /\ idents[u] > 0 => t = u

(***************************************************************************)
(* The re-entrance count against the sessions.  A promotion has given up   *)
(* one count while it waits; one that is woken has none left, because a    *)
(* waiting thread that still has a count is never notified.  A promotion   *)
(* is asked for in mode 'r', and its own count keeps the mode.             *)
(***************************************************************************)
CountsOK(t) ==
  /\ pc[t] = "out" => idents[t] = held[t]
  /\ pc[t] = "finally" => kind[t] = "can_lock" /\ held[t] = 0 /\ idents[t] \in {0, 1}
  /\ pc[t] \notin {"out", "finally"} /\ kind[t] # "switch" => idents[t] = held[t]
  /\ pc[t] \in {"wait", "os", "block", "granted"} /\ kind[t] = "switch" => idents[t] + 1 = held[t]
  /\ pc[t] = "enter" /\ kind[t] = "switch" =>
       \/ held[t] > 0 /\ idents[t] = held[t] /\ mode[Inst[t]] = "r"
       \/ held[t] = 1 /\ idents[t] = 0
  /\ kind[t] = "can_lock" /\ pc[t] # "out" => held[t] = 0 /\ pc[t] # "wait" /\ ~InOs(t)

InvCounts == \A t \in Threads : CountsOK(t)

InvOs == OsMatch(Holds, fd, lck)

Inv ==
  /\ TypeOK
  /\ InvMutex
  /\ InvPending
  /\ InvOwners
  /\ InvWriter
  /\ InvCounts
  /\ InvOs

-----------------------------------------------------------------------------
(* The process level lock *)

\* Adding a sharer adds one to the count, and removing one takes one off.
LEMMA SharersCount ==
  ASSUME NEW h \in [Insts -> {"un", "sh", "ex"}], NEW i \in Insts
  PROVE  /\ IsFiniteSet(Sharers(h))
         /\ Cardinality(Sharers(h)) \in Nat
         /\ h[i] = "sh" => Cardinality(Sharers(h)) > 0
         /\ h[i] # "sh" =>
              Cardinality(Sharers([h EXCEPT ![i] = "sh"])) = Cardinality(Sharers(h)) + 1
         /\ h[i] = "sh" =>
              Cardinality(Sharers([h EXCEPT ![i] = "un"])) = Cardinality(Sharers(h)) - 1
         /\ h[i] # "sh" => Sharers([h EXCEPT ![i] = "un"]) = Sharers(h)
         /\ h[i] # "sh" => Sharers([h EXCEPT ![i] = "ex"]) = Sharers(h)
<1>1. IsFiniteSet(Sharers(h)) /\ Cardinality(Sharers(h)) \in Nat
  BY InstAssumption, FS_Subset, FS_CardinalityType DEF Sharers
<1>2. h[i] = "sh" => Cardinality(Sharers(h)) > 0
  <2>1. h[i] = "sh" => Sharers(h) # {}
    BY DEF Sharers
  <2> QED BY <1>1, <2>1, FS_EmptySet
<1>3. h[i] # "sh" => Cardinality(Sharers([h EXCEPT ![i] = "sh"])) = Cardinality(Sharers(h)) + 1
  <2>1. h[i] # "sh" => Sharers([h EXCEPT ![i] = "sh"]) = Sharers(h) \cup {i} /\ i \notin Sharers(h)
    BY DEF Sharers
  <2> QED BY <1>1, <2>1, FS_AddElement
<1>4. h[i] = "sh" => Cardinality(Sharers([h EXCEPT ![i] = "un"])) = Cardinality(Sharers(h)) - 1
  <2>1. h[i] = "sh" => Sharers([h EXCEPT ![i] = "un"]) = Sharers(h) \ {i} /\ i \in Sharers(h)
    BY DEF Sharers
  <2> QED BY <1>1, <2>1, FS_RemoveElement
<1> QED BY <1>1, <1>2, <1>3, <1>4 DEF Sharers

OsTypeOK ==
  /\ fd \in [Insts -> {"un", "sh", "ex"}]
  /\ lck \in [read_cnt : Nat, write_id : Insts \cup {NoInst}, write_cnt : Nat]

\* A shared lock that is granted leaves no writer, and is counted.
LEMMA RlockMatch ==
  ASSUME NEW h \in [Insts -> {"un", "sh", "ex"}], NEW i \in Insts,
         OsTypeOK, OsMatch(h, fd, lck), h[i] = "un", CanRlock(i), Rlock(i)
  PROVE  OsTypeOK' /\ OsMatch([h EXCEPT ![i] = "sh"], fd', lck')
<1> DEFINE g == [h EXCEPT ![i] = "sh"]
<1>1. CASE Backend = "disk"
  BY <1>1 DEF OsTypeOK, OsMatch, CanRlock, Rlock
<1>2. CASE Backend = "mem"
  <2>1. \A j \in Insts : h[j] # "ex"
    BY <1>2, InstAssumption DEF OsTypeOK, OsMatch, CanRlock
  <2>2. lck'.read_cnt = Cardinality(Sharers(h)) + 1
    BY <1>2 DEF OsTypeOK, OsMatch, Rlock
  <2>3. lck'.write_id = lck.write_id /\ lck'.write_cnt = lck.write_cnt
    BY <1>2 DEF OsTypeOK, Rlock
  <2>4. OsTypeOK'
    BY <1>2 DEF OsTypeOK, Rlock
  <2>5. Cardinality(Sharers(g)) = Cardinality(Sharers(h)) + 1
    BY SharersCount
  <2>6. \A j \in Insts : g[j] # "ex"
    BY <2>1
  <2> HIDE DEF g
  <2>7. OsMatch(g, fd', lck')
    BY <1>2, <2>1, <2>2, <2>3, <2>5, <2>6 DEF OsMatch
  <2> QED BY <2>4, <2>7 DEF g
<1> QED BY <1>1, <1>2, BackendAssumption

\* An exclusive lock that is granted finds nobody else.
LEMMA WlockMatch ==
  ASSUME NEW h \in [Insts -> {"un", "sh", "ex"}], NEW i \in Insts,
         OsTypeOK, OsMatch(h, fd, lck), h[i] = "un", CanWlock(i), Wlock(i)
  PROVE  OsTypeOK' /\ OsMatch([h EXCEPT ![i] = "ex"], fd', lck')
<1> DEFINE g == [h EXCEPT ![i] = "ex"]
<1>1. CASE Backend = "disk"
  BY <1>1 DEF OsTypeOK, OsMatch, CanWlock, Wlock
<1>2. CASE Backend = "mem"
  <2>1. lck.read_cnt = 0 /\ lck.write_id = NoInst
    BY <1>2, InstAssumption DEF OsTypeOK, OsMatch, CanWlock
  <2>2. \A j \in Insts : h[j] = "un"
    <3> SUFFICES ASSUME NEW j \in Insts PROVE h[j] = "un"
      OBVIOUS
    <3>1. h[j] # "ex"
      BY <1>2, <2>1, InstAssumption DEF OsMatch
    <3>2. Cardinality(Sharers(h)) = 0
      BY <1>2, <2>1 DEF OsMatch
    <3>3. h[j] = "sh" => Cardinality(Sharers(h)) > 0
      BY SharersCount, Zenon
    <3>4. h[j] # "sh"
      BY <3>2, <3>3
    <3> QED BY <3>1, <3>4
  <2>3. lck' = [lck EXCEPT !.write_id = i, !.write_cnt = 1]
    BY <1>2, <2>1, InstAssumption DEF Wlock
  <2>4. OsTypeOK'
    BY <1>2, <2>3 DEF OsTypeOK, Wlock
  <2>5. Sharers(g) = Sharers(h)
    BY SharersCount
  <2>6. \A j \in Insts : g[j] = IF j = i THEN "ex" ELSE "un"
    BY <2>2
  <2> HIDE DEF g
  <2>7. OsMatch(g, fd', lck')
    BY <1>2, <2>1, <2>3, <2>5, <2>6, InstAssumption DEF OsMatch, OsTypeOK
  <2> QED BY <2>4, <2>7 DEF g
<1> QED BY <1>1, <1>2, BackendAssumption

\* LCK_unlock takes the right lock off when the caller holds one.
LEMMA UnlockMatch ==
  ASSUME NEW h \in [Insts -> {"un", "sh", "ex"}], NEW i \in Insts,
         OsTypeOK, OsMatch(h, fd, lck), h[i] # "un", Unlock(i)
  PROVE  OsTypeOK' /\ OsMatch([h EXCEPT ![i] = "un"], fd', lck')
<1> DEFINE g == [h EXCEPT ![i] = "un"]
<1>0. \A j \in Insts : g[j] = IF j = i THEN "un" ELSE h[j]
  OBVIOUS
<1>1. CASE Backend = "disk"
  BY <1>1 DEF OsTypeOK, OsMatch, Unlock
<1>2. CASE Backend = "mem" /\ h[i] = "ex"
  <2>1. lck' = [lck EXCEPT !.write_id = NoInst, !.write_cnt = 0] /\ fd' = fd
    BY <1>2, InstAssumption DEF OsTypeOK, OsMatch, Unlock
  <2>2. OsTypeOK'
    BY <2>1 DEF OsTypeOK
  <2>3. Sharers(g) = Sharers(h)
    BY <1>2, SharersCount
  <2> HIDE DEF g
  <2>4. OsMatch(g, fd', lck')
    BY <1>0, <1>2, <2>1, <2>3, InstAssumption DEF OsMatch, OsTypeOK
  <2> QED BY <2>2, <2>4 DEF g
<1>3. CASE Backend = "mem" /\ h[i] = "sh"
  <2>1. lck.write_id # i /\ lck.read_cnt > 0
    BY <1>3, SharersCount DEF OsMatch
  <2>2. lck' = [lck EXCEPT !.read_cnt = @ - 1] /\ fd' = fd
    BY <1>3, <2>1 DEF OsTypeOK, Unlock
  <2>3. OsTypeOK'
    BY <2>1, <2>2 DEF OsTypeOK
  <2>4. Cardinality(Sharers(g)) = Cardinality(Sharers(h)) - 1
    BY <1>3, SharersCount
  <2> HIDE DEF g
  <2>5. OsMatch(g, fd', lck')
    BY <1>0, <1>3, <2>1, <2>2, <2>4 DEF OsMatch, OsTypeOK
  <2> QED BY <2>3, <2>5 DEF g
<1> QED BY <1>1, <1>2, <1>3, BackendAssumption

-----------------------------------------------------------------------------
(* Type correctness *)

\* A count of each thread stays a count when one is added to it, or taken off.
LEMMA Counting ==
  ASSUME NEW f \in [Threads -> Nat], NEW t \in Threads
  PROVE  /\ [f EXCEPT ![t] = @ + 1] \in [Threads -> Nat]
         /\ f[t] > 0 => [f EXCEPT ![t] = @ - 1] \in [Threads -> Nat]
         /\ f[t] # 0 => [f EXCEPT ![t] = @ - 1] \in [Threads -> Nat]
<1>1. f[t] \in Nat
  OBVIOUS
<1>2. f[t] + 1 \in Nat /\ (f[t] > 0 => f[t] - 1 \in Nat) /\ (f[t] # 0 => f[t] - 1 \in Nat)
  BY <1>1
<1> QED BY <1>2

\* The process level calls keep the locks in their types.
LEMMA OsStepType ==
  ASSUME TypeOK, NEW t \in Threads
  PROVE  /\ Lock(t) => OsTypeOK'
         /\ Unlock(Inst[t]) => OsTypeOK'
<1>1. Inst[t] \in Insts /\ NoInst \notin Insts
  BY InstAssumption
<1>2. CASE Backend = "disk"
  BY <1>1, <1>2 DEF TypeOK, OsTypeOK, Lock, Rlock, Wlock, Unlock
<1>3. CASE Backend = "mem"
  <2>1. /\ lck = [read_cnt |-> lck.read_cnt, write_id |-> lck.write_id, write_cnt |-> lck.write_cnt]
        /\ lck.read_cnt \in Nat /\ lck.write_id \in Insts \cup {NoInst} /\ lck.write_cnt \in Nat
    BY DEF TypeOK
  <2>2. /\ lck.read_cnt + 1 \in Nat /\ lck.write_cnt + 1 \in Nat
        /\ lck.read_cnt # 0 => lck.read_cnt - 1 \in Nat
        /\ ~(lck.write_cnt <= 1) => lck.write_cnt - 1 \in Nat
    BY <2>1
  <2>3. fd' = fd => fd' \in [Insts -> {"un", "sh", "ex"}]
    BY DEF TypeOK
  <2>4. Rlock(Inst[t]) => OsTypeOK'
    BY <1>1, <1>3, <2>1, <2>2, <2>3 DEF OsTypeOK, Rlock
  <2>5. Wlock(Inst[t]) => OsTypeOK'
    <3> SUFFICES ASSUME Wlock(Inst[t]) PROVE OsTypeOK'
      OBVIOUS
    <3>1. CASE lck.write_id = Inst[t]
      BY <1>3, <2>1, <2>2, <2>3, <3>1 DEF OsTypeOK, Wlock
    <3>2. CASE lck.write_id # Inst[t]
      <4>1. lck' = [read_cnt |-> lck.read_cnt, write_id |-> Inst[t], write_cnt |-> 1] /\ fd' = fd
        BY <1>3, <2>1, <3>2 DEF Wlock
      <4> QED BY <1>1, <2>1, <2>3, <4>1 DEF OsTypeOK
    <3> QED BY <3>1, <3>2
  <2>6. Unlock(Inst[t]) => OsTypeOK'
    <3> SUFFICES ASSUME Unlock(Inst[t]) PROVE OsTypeOK'
      OBVIOUS
    <3>1. CASE lck.write_id = Inst[t] /\ lck.write_cnt <= 1
      <4>1. lck' = [read_cnt |-> lck.read_cnt, write_id |-> NoInst, write_cnt |-> 0] /\ fd' = fd
        BY <1>3, <2>1, <3>1 DEF Unlock
      <4> QED BY <2>1, <2>3, <4>1 DEF OsTypeOK
    <3>2. CASE lck.write_id = Inst[t] /\ ~(lck.write_cnt <= 1)
      BY <1>3, <2>1, <2>2, <2>3, <3>2 DEF OsTypeOK, Unlock
    <3>3. CASE lck.write_id # Inst[t]
      BY <1>3, <2>1, <2>2, <2>3, <3>3 DEF OsTypeOK, Unlock
    <3> QED BY <3>1, <3>2, <3>3
  <2> QED BY <2>4, <2>5, <2>6 DEF Lock
<1> QED BY <1>2, <1>3, BackendAssumption

\* Every step of the lock keeps the variables in their types.
LEMMA TypeStep == TypeOK /\ [Next]_vars => TypeOK'
<1> SUFFICES ASSUME TypeOK, [Next]_vars PROVE TypeOK'
  OBVIOUS
<1>1. CASE UNCHANGED vars
  BY <1>1 DEF vars, TypeOK
<1>2. ASSUME NEW t \in Threads, NEW k \in Kinds, Call(t, k) PROVE TypeOK'
  <2>1. k \in AllKinds
    BY KindsAssumption
  <2>2. calls' \in [Threads -> Nat]
    BY <1>2, Counting DEF Call, TypeOK
  <2> QED BY <1>2, <2>1, <2>2 DEF Call, TypeOK, PCs
<1>3. ASSUME NEW t \in Threads, Reenter(t) PROVE TypeOK'
  <2>1. /\ idents' \in [Threads -> Nat]
        /\ held' \in [Threads -> Nat]
    BY <1>3, Counting DEF Reenter, Returns, Entered, TypeOK
  <2> QED BY <1>3, <2>1 DEF Reenter, Returns, AfterReturn, TypeOK, PCs
<1>4. ASSUME NEW t \in Threads, PromoteLast(t) PROVE TypeOK'
  <2>1. OsTypeOK'
    BY <1>4, OsStepType DEF PromoteLast
  <2>2. PromotedCount(t) \in Nat
    <3>1. idents[t] \in Nat /\ idents[t] > 0
      BY <1>4 DEF PromoteLast, Promoting, TypeOK
    <3> QED BY <3>1 DEF PromotedCount
  <2> QED BY <1>4, <2>1, <2>2, InstAssumption
          DEF PromoteLast, Notified, TypeOK, OsTypeOK, PCs
<1>5. ASSUME NEW t \in Threads, MustWait(t) PROVE TypeOK'
  <2>1. idents' \in [Threads -> Nat]
    <3>1. CASE Promoting(t) /\ Switch(t)
      BY <1>5, <3>1, Counting DEF MustWait, Promoting, PromotedCount, TypeOK
    <3>2. CASE ~(Promoting(t) /\ Switch(t))
      BY <1>5, <3>2 DEF MustWait, PromotedCount, TypeOK
    <3> QED BY <3>1, <3>2
  <2> QED BY <1>5, <2>1 DEF MustWait, Raises, TypeOK, PCs
<1>6. ASSUME NEW t \in Threads, GoToOs(t) PROVE TypeOK'
  BY <1>6, InstAssumption DEF GoToOs, TypeOK, PCs
<1>7. ASSUME NEW t \in Threads, OsTry(t) PROVE TypeOK'
  <2>1. OsTypeOK'
    BY <1>7, OsStepType DEF OsTry
  <2>2. /\ idents' \in [Threads -> Nat]
        /\ held' \in [Threads -> Nat]
    <3>1. held' = held \/ held' = [held EXCEPT ![t] = @ + 1]
      BY <1>7 DEF OsTry, Returns, ReturnsNotifying, Entered
    <3>2. idents' = [idents EXCEPT ![t] = @ + 1]
      BY <1>7 DEF OsTry
    <3>3. idents \in [Threads -> Nat] /\ held \in [Threads -> Nat]
      BY DEF TypeOK
    <3> QED BY <3>1, <3>2, <3>3, Counting
  <2>3. pc' \in [Threads -> PCs]
    BY <1>7 DEF OsTry, Returns, ReturnsNotifying, AfterReturn, Notified, TypeOK, PCs
  <2> QED BY <1>7, <2>1, <2>2, <2>3, InstAssumption DEF OsTry, TypeOK, OsTypeOK
<1>8. ASSUME NEW t \in Threads, OsBusy(t) PROVE TypeOK'
  BY <1>8, InstAssumption DEF OsBusy, Raises, TypeOK, PCs
<1>9. ASSUME NEW t \in Threads, OsGrant(t) PROVE TypeOK'
  <2>1. OsTypeOK'
    BY <1>9, OsStepType DEF OsGrant
  <2> QED BY <1>9, <2>1 DEF OsGrant, TypeOK, OsTypeOK, PCs
<1>10. ASSUME NEW t \in Threads, Regain(t) PROVE TypeOK'
  <2>1. /\ idents' \in [Threads -> Nat]
        /\ held' \in [Threads -> Nat]
    BY <1>10, Counting DEF Regain, ReturnsNotifying, Entered, TypeOK
  <2>2. pc' \in [Threads -> PCs]
    BY <1>10 DEF Regain, ReturnsNotifying, AfterReturn, Notified, TypeOK, PCs
  <2> QED BY <1>10, <2>1, <2>2, InstAssumption DEF Regain, TypeOK
<1>11. ASSUME NEW t \in Threads, DoRelease(t),
              held' = held \/ (held[t] > 0 /\ held' = [held EXCEPT ![t] = @ - 1])
       PROVE TypeOK'
  <2>1. OsTypeOK'
    BY <1>11, OsStepType DEF DoRelease, osvars, TypeOK, OsTypeOK
  <2>2. /\ idents' \in [Threads -> Nat]
        /\ held' \in [Threads -> Nat]
    <3>1. idents \in [Threads -> Nat] /\ held \in [Threads -> Nat]
      BY DEF TypeOK
    <3>2. held' \in [Threads -> Nat]
      BY <1>11, <3>1, Counting
    <3>3. CASE idents[t] = 0
      BY <1>11, <3>1, <3>2, <3>3 DEF DoRelease
    <3>4. CASE idents[t] # 0
      <4>1. idents' = [idents EXCEPT ![t] = @ - 1]
        BY <1>11, <3>1, <3>4 DEF DoRelease
      <4> QED BY <3>1, <3>2, <3>4, <4>1, Counting
    <3> QED BY <3>3, <3>4
  <2>3. pc' \in [Threads -> PCs]
    BY <1>11 DEF DoRelease, Notified, TypeOK, PCs
  <2> QED BY <1>11, <2>1, <2>2, <2>3, InstAssumption DEF DoRelease, TypeOK, OsTypeOK
<1> QED
  BY <1>1, <1>2, <1>3, <1>4, <1>5, <1>6, <1>7, <1>8, <1>9, <1>10, <1>11
  DEF Next, Acquire, Release, CanLockFinally

\* The initial state has the types.
LEMMA InitType == Init => TypeOK
<1> SUFFICES ASSUME Init PROVE TypeOK
  OBVIOUS
<1>1. lck \in [read_cnt : Nat, write_id : Insts \cup {NoInst}, write_cnt : Nat]
  BY DEF Init
<1>2. mode \in [Insts -> {"", "r", "w", "p"}] /\ fd \in [Insts -> {"un", "sh", "ex"}]
  BY DEF Init
<1>3. pc \in [Threads -> PCs] /\ kind \in [Threads -> AllKinds]
  BY DEF Init, PCs, AllKinds
<1> QED BY <1>1, <1>2, <1>3, BoundAssumption DEF Init, TypeOK

\* The variables of FileLock keep their types in every behaviour.
THEOREM TypeCorrect == Spec => []TypeOK
BY InitType, TypeStep, PTL DEF Spec

-----------------------------------------------------------------------------
(* The invariant of the thread level *)

ThreadInv == InvMutex /\ InvPending /\ InvOwners /\ InvWriter /\ InvCounts

(***************************************************************************)
(* What a step of thread t leaves alone: the other threads, except that it *)
(* may wake those of its instance, and the other instances.                *)
(***************************************************************************)
Frame(t) ==
  /\ \A u \in Threads \ {t} :
       /\ idents'[u] = idents[u] /\ held'[u] = held[u] /\ kind'[u] = kind[u]
       /\ pc'[u] = pc[u] \/ (pc[u] = "wait" /\ pc'[u] = "enter" /\ Inst[u] = Inst[t])
  /\ \A j \in Insts \ {Inst[t]} : mode'[j] = mode[j] /\ mutex'[j] = mutex[j]

\* The step wakes nobody.
Quiet(t) == \A u \in Threads \ {t} : pc'[u] = pc[u]

\* The counts of all threads are numbers.
Numbers ==
  \A u \in Threads : idents[u] \in Nat /\ held[u] \in Nat /\ Inst[u] \in Insts

\* The counts of acquire and release are natural numbers.
LEMMA NumbersFact == TypeOK => Numbers
BY InstAssumption DEF TypeOK, Numbers

\* A call of acquire starts: nothing but the thread's own pc and kind changes.
LEMMA CallThreadInv ==
  ASSUME CanLockIdle, TypeOK, ThreadInv, NEW t \in Threads, NEW k \in Kinds, Call(t, k)
  PROVE  ThreadInv'
<1> USE DEF ThreadInv
<1>1. Frame(t) /\ Quiet(t)
  BY DEF Frame, Quiet, Call, TypeOK
<1>2. /\ pc[t] = "out" /\ pc'[t] = "enter" /\ kind'[t] = k
      /\ idents' = idents /\ held' = held /\ mode' = mode /\ mutex' = mutex
      /\ k = "switch" => held[t] > 0 /\ mode[Inst[t]] # "w"
      /\ held[t] > 0 => k \in Inside
  BY DEF Call, TypeOK
<1>3. Numbers
  BY NumbersFact
<1>4. InvMutex'
  <2> SUFFICES ASSUME NEW u \in Threads, pc'[u] = "os"
               PROVE  mutex'[Inst[u]] = u /\ mode'[Inst[u]] = ""
    BY DEF InvMutex
  <2>1. u # t
    BY <1>2
  <2>2. pc[u] = "os"
    BY <1>1, <2>1 DEF Quiet
  <2> QED BY <1>2, <2>2 DEF InvMutex
<1>5. InvPending'
  BY <1>1, <1>2 DEF InvPending, InOs, Frame, Quiet
<1>6. InvOwners'
  BY <1>1, <1>2 DEF InvOwners, InOs, Frame, Quiet
<1>7. InvWriter'
  BY <1>1, <1>2 DEF InvWriter
<1>8. InvCounts'
  BY <1>1, <1>2, <1>3 DEF InvCounts, CountsOK, InvOwners, InOs, Frame, Quiet, CanLockIdle, Numbers
<1> QED BY <1>4, <1>5, <1>6, <1>7, <1>8

\* [1] of acquire: one more count for a thread that shares or re-enters.
LEMMA ReenterThreadInv ==
  ASSUME TypeOK, ThreadInv, NEW t \in Threads, Reenter(t)
  PROVE  ThreadInv'
<1> USE DEF ThreadInv
<1>1. Frame(t) /\ Quiet(t)
  BY DEF Frame, Quiet, Reenter, Returns, Entered, TypeOK
<1>2. /\ pc[t] = "enter" /\ pc'[t] = AfterReturn(t) /\ kind' = kind
      /\ idents'[t] = idents[t] + 1 /\ mode' = mode /\ mutex' = mutex
      /\ (mode[Inst[t]] = "r" /\ ReadOnly(t)) \/ (mode[Inst[t]] = "w" /\ idents[t] > 0)
      /\ held'[t] = IF kind[t] \in {"read", "write"} THEN held[t] + 1 ELSE held[t]
  <2>1. pc[t] = "enter" /\ pc'[t] = AfterReturn(t) /\ kind' = kind /\ mode' = mode /\ mutex' = mutex
    BY DEF Reenter, AtTop, Returns, TypeOK
  <2>2. idents'[t] = idents[t] + 1
    BY DEF Reenter, TypeOK
  <2>3. held'[t] = IF kind[t] \in {"read", "write"} THEN held[t] + 1 ELSE held[t]
    BY DEF Reenter, Returns, Entered, TypeOK
  <2>4. (mode[Inst[t]] = "r" /\ ReadOnly(t)) \/ (mode[Inst[t]] = "w" /\ idents[t] > 0)
    BY DEF Reenter
  <2> QED BY <2>1, <2>2, <2>3, <2>4
<1>3. Numbers
  BY NumbersFact
<1>4. kind[t] \in AllKinds
  BY DEF TypeOK
<1>5. InvMutex'
  <2> SUFFICES ASSUME NEW u \in Threads, pc'[u] = "os"
               PROVE  mutex'[Inst[u]] = u /\ mode'[Inst[u]] = ""
    BY DEF InvMutex
  <2>1. u # t
    BY <1>2 DEF AfterReturn
  <2>2. pc[u] = "os"
    BY <1>1, <2>1 DEF Quiet
  <2> QED BY <1>2, <2>2 DEF InvMutex
<1>6. InvPending'
  BY <1>1, <1>2 DEF InvPending, InOs, Frame, Quiet, AfterReturn
<1>7. InvOwners'
  BY <1>1, <1>2 DEF InvOwners, InOs, Frame, Quiet
<1>8. InvWriter'
  BY <1>1, <1>2 DEF InvWriter, Frame
<1>9. InvCounts'
  BY <1>1, <1>2, <1>3, <1>4 DEF InvCounts, CountsOK, InOs, InvOwners, Frame, Quiet, Numbers, AfterReturn, AllKinds, ReadOnly
<1> QED BY <1>5, <1>6, <1>7, <1>8, <1>9

\* The last reader gives up the read lock and keeps _lock for the write lock.
LEMMA PromoteLastThreadInv ==
  ASSUME TypeOK, ThreadInv, NEW t \in Threads, PromoteLast(t)
  PROVE  ThreadInv'
<1> USE DEF ThreadInv
<1>1. Frame(t)
  BY DEF Frame, PromoteLast, Notified, TypeOK
<1>2. /\ pc[t] = "enter" /\ mutex[Inst[t]] = NoThread /\ mode[Inst[t]] = "r"
      /\ pc'[t] = "os" /\ kind' = kind /\ held' = held
      /\ idents[t] > 0 /\ idents'[t] = PromotedCount(t)
      /\ mode'[Inst[t]] = "" /\ mutex'[Inst[t]] = t
  BY InstAssumption DEF PromoteLast, AtTop, Promoting, Notified, TypeOK
<1>3. \A u \in Threads \ {t} : Inst[u] = Inst[t] => idents[u] = 0
  BY DEF PromoteLast, OnlyOwner, Mates
<1>4. Numbers
  BY NumbersFact
<1>5. InvMutex'
  <2> SUFFICES ASSUME NEW u \in Threads, pc'[u] = "os"
               PROVE  mutex'[Inst[u]] = u /\ mode'[Inst[u]] = ""
    BY DEF InvMutex
  <2>1. CASE u = t
    BY <1>2, <2>1
  <2>2. CASE u # t
    <3>1. pc[u] = "os"
      BY <1>1, <2>2 DEF Frame
    <3>2. mutex[Inst[u]] = u /\ mode[Inst[u]] = ""
      BY <3>1 DEF InvMutex
    <3>3. Inst[u] # Inst[t]
      BY <1>2, <3>2
    <3> QED BY <1>1, <1>4, <3>2, <3>3 DEF Frame, Numbers
  <2> QED BY <2>1, <2>2
<1>6. InvPending'
  <2>1. \A u \in Threads : InOs(u)' => u # t /\ InOs(u)
    BY <1>1, <1>2 DEF Frame, InOs
  <2>2. \A u \in Threads : InOs(u) => Inst[u] # Inst[t]
    BY <1>2 DEF InvPending
  <2> QED BY <1>1, <1>4, <2>1, <2>2 DEF InvPending, Frame, Numbers
<1>7. InvOwners'
  <2> SUFFICES ASSUME NEW u \in Threads, u # t, idents'[u] > 0
               PROVE  mode'[Inst[u]] \in {"r", "w"} \/ InOs(u)' \/ pc'[u] = "os"
    BY <1>2 DEF InvOwners
  <2>1. idents[u] > 0 /\ Inst[u] # Inst[t]
    BY <1>1, <1>3 DEF Frame
  <2>2. mode'[Inst[u]] = mode[Inst[u]] /\ (InOs(u) \/ pc[u] = "os" => pc'[u] = pc[u])
    BY <1>1, <1>4, <2>1 DEF Frame, InOs, Numbers
  <2> QED BY <2>1, <2>2 DEF InvOwners, InOs
<1>8. InvWriter'
  BY <1>1, <1>2, <1>4 DEF InvWriter, Frame, Numbers
<1>9. InvCounts'
  <2> SUFFICES ASSUME NEW u \in Threads PROVE CountsOK(u)'
    BY DEF InvCounts
  <2>1. CountsOK(u)
    BY DEF InvCounts
  <2>2. CASE u = t
    <3>1. /\ kind[t] # "switch" => idents'[t] = held'[t]
          /\ kind[t] = "switch" => idents'[t] + 1 = held'[t]
      <4>0. idents[t] # 0
        <5>1. idents[t] > 0
          BY <1>2
        <5>2. idents[t] \in Nat
          BY <1>4 DEF Numbers
        <5> QED BY <5>1, <5>2
      <4>1. kind[t] # "switch" => idents[t] = held[t] /\ idents'[t] = idents[t]
        BY <1>2, <2>1, <2>2 DEF CountsOK, PromotedCount, Switch
      <4>2. kind[t] = "switch" => idents[t] = held[t] /\ idents'[t] = idents[t] - 1
        BY <1>2, <2>1, <2>2, <4>0 DEF CountsOK, PromotedCount, Switch
      <4>3. held'[t] = held[t] /\ held[t] \in Nat
        BY <1>2, <1>4 DEF Numbers
      <4> QED BY <4>1, <4>2, <4>3
    <3>2. kind[t] = "can_lock" => held'[t] = 0
      BY <1>2, <2>1, <2>2 DEF CountsOK
    <3> QED BY <1>2, <2>2, <3>1, <3>2 DEF CountsOK, InOs
  <2>3. CASE u # t /\ Inst[u] = Inst[t]
    BY <1>1, <1>3, <1>4, <2>1, <2>3 DEF CountsOK, InOs, Numbers, Frame
  <2>4. CASE u # t /\ Inst[u] # Inst[t]
    BY <1>1, <1>4, <2>1, <2>4 DEF CountsOK, InOs, Numbers, Frame
  <2> QED BY <2>2, <2>3, <2>4
<1> QED BY <1>5, <1>6, <1>7, <1>8, <1>9

\* A thread starts to wait, or a non-blocking call gives up.
LEMMA MustWaitThreadInv ==
  ASSUME TypeOK, ThreadInv, NEW t \in Threads, MustWait(t)
  PROVE  ThreadInv'
<1> USE DEF ThreadInv
<1>1. Frame(t) /\ Quiet(t)
  BY DEF Frame, Quiet, MustWait, Raises, TypeOK
<1>2. /\ pc[t] = "enter" /\ pc'[t] = IF kind[t] = "can_lock" THEN "finally" ELSE "wait"
      /\ kind' = kind /\ held' = held /\ mode' = mode /\ mutex' = mutex
  BY DEF MustWait, AtTop, Raises, Block, TypeOK
<1>3. /\ Promoting(t) => idents'[t] = PromotedCount(t)
      /\ ~Promoting(t) => idents'[t] = idents[t]
      /\ Promoting(t) <=> mode[Inst[t]] = "r" /\ idents[t] > 0 /\ kind[t] # "read"
  BY DEF MustWait, Promoting, ReadOnly, TypeOK
<1>4. Numbers
  BY NumbersFact
<1>5. idents'[t] \in Nat /\ idents'[t] <= idents[t]
  BY <1>3, <1>4 DEF PromotedCount, Numbers
<1>6. InvMutex'
  <2> SUFFICES ASSUME NEW u \in Threads, pc'[u] = "os"
               PROVE  mutex'[Inst[u]] = u /\ mode'[Inst[u]] = ""
    BY DEF InvMutex
  <2>1. u # t
    BY <1>2
  <2>2. pc[u] = "os"
    BY <1>1, <2>1 DEF Quiet
  <2> QED BY <1>2, <2>2 DEF InvMutex
<1>7. InvPending'
  BY <1>1, <1>2 DEF InvPending, InOs, Quiet
<1>8. InvOwners'
  <2> SUFFICES ASSUME NEW u \in Threads, idents'[u] > 0
               PROVE  mode'[Inst[u]] \in {"r", "w"} \/ InOs(u)' \/ pc'[u] = "os"
    BY DEF InvOwners
  <2>1. idents[u] > 0
    BY <1>1, <1>4, <1>5 DEF Frame, Numbers
  <2> QED BY <1>1, <1>2, <2>1 DEF InvOwners, InOs, Quiet
<1>9. InvWriter'
  <2>1. \A u \in Threads : idents'[u] > 0 => idents[u] > 0
    BY <1>1, <1>4, <1>5 DEF Frame, Numbers
  <2> QED BY <1>2, <2>1 DEF InvWriter
<1>10. InvCounts'
  BY <1>1, <1>2, <1>3, <1>4 DEF InvCounts, CountsOK, InOs, Frame, Quiet, Numbers, PromotedCount, Switch
<1> QED BY <1>6, <1>7, <1>8, <1>9, <1>10

\* The instance is free: the thread keeps _lock and goes to the process level.
LEMMA GoToOsThreadInv ==
  ASSUME TypeOK, ThreadInv, NEW t \in Threads, GoToOs(t)
  PROVE  ThreadInv'
<1> USE DEF ThreadInv
<1>1. Frame(t) /\ Quiet(t)
  BY DEF Frame, Quiet, GoToOs, TypeOK
<1>2. /\ pc[t] = "enter" /\ pc'[t] = "os" /\ mode[Inst[t]] = "" /\ mode' = mode
      /\ mutex[Inst[t]] = NoThread /\ mutex'[Inst[t]] = t
      /\ kind' = kind /\ held' = held /\ idents' = idents
  BY InstAssumption DEF GoToOs, AtTop, TypeOK
<1>3. Numbers
  BY NumbersFact
<1>4. InvMutex'
  <2> SUFFICES ASSUME NEW u \in Threads, pc'[u] = "os"
               PROVE  mutex'[Inst[u]] = u /\ mode'[Inst[u]] = ""
    BY DEF InvMutex
  <2>1. CASE u = t
    BY <1>2, <2>1
  <2>2. CASE u # t
    <3>1. mutex[Inst[u]] = u /\ mode[Inst[u]] = ""
      BY <1>1, <2>2 DEF Quiet, InvMutex
    <3>2. Inst[u] # Inst[t]
      BY <1>2, <3>1, InstAssumption
    <3> QED BY <1>1, <1>2, <1>3, <3>1, <3>2 DEF Frame, Numbers
  <2> QED BY <2>1, <2>2
<1>5. InvPending'
  BY <1>1, <1>2 DEF InvPending, InOs, Quiet
<1>6. InvOwners'
  BY <1>1, <1>2 DEF InvOwners, InOs, Quiet
<1>7. InvWriter'
  BY <1>2 DEF InvWriter
<1>8. InvCounts'
  <2> SUFFICES ASSUME NEW u \in Threads PROVE CountsOK(u)'
    BY DEF InvCounts
  <2>1. CountsOK(u)
    BY DEF InvCounts
  <2>2. CASE u = t
    <3>1. /\ kind[t] # "switch" => idents'[t] = held'[t]
          /\ kind[t] = "switch" => idents'[t] + 1 = held'[t]
      <4>1. kind[t] # "switch" => idents[t] = held[t]
        BY <1>2, <2>1, <2>2 DEF CountsOK
      <4>2. kind[t] = "switch" => held[t] = 1 /\ idents[t] = 0
        BY <1>2, <2>1, <2>2 DEF CountsOK
      <4>3. idents'[t] = idents[t] /\ held'[t] = held[t]
        BY <1>2
      <4>4. 0 + 1 = 1
        OBVIOUS
      <4> QED BY <4>1, <4>2, <4>3, <4>4
    <3>2. kind[t] = "can_lock" => held'[t] = 0
      BY <1>2, <2>1, <2>2 DEF CountsOK
    <3> QED BY <1>2, <2>2, <3>1, <3>2 DEF CountsOK, InOs
  <2>3. CASE u # t
    BY <1>1, <1>2, <2>1, <2>3 DEF CountsOK, InOs, Quiet
  <2> QED BY <2>2, <2>3
<1> QED BY <1>4, <1>5, <1>6, <1>7, <1>8

\* At the process level nobody else of the instance has a count.
LEMMA AloneAtOs ==
  ASSUME TypeOK, ThreadInv, NEW t \in Threads, pc[t] = "os" \/ InOs(t),
         NEW u \in Threads, u # t, Inst[u] = Inst[t]
  PROVE  idents[u] = 0 /\ ~InOs(u) /\ pc[u] # "os"
<1>1. mode[Inst[t]] \in {"", "p"}
  BY DEF ThreadInv, InvMutex, InvPending
<1>2. ~InOs(u) /\ pc[u] # "os"
  <2>1. CASE pc[t] = "os"
    <3>1. mode[Inst[t]] = "" /\ mutex[Inst[t]] = t
      BY <2>1 DEF ThreadInv, InvMutex
    <3>2. ~InOs(u)
      BY <3>1 DEF ThreadInv, InvPending
    <3>3. pc[u] # "os"
      BY <3>1 DEF ThreadInv, InvMutex
    <3> QED BY <3>2, <3>3
  <2>2. CASE InOs(t)
    <3>1. mode[Inst[t]] = "p" /\ ~InOs(u)
      BY <2>2 DEF ThreadInv, InvPending
    <3>2. pc[u] # "os"
      BY <3>1 DEF ThreadInv, InvMutex
    <3> QED BY <3>1, <3>2
  <2> QED BY <2>1, <2>2
<1>3. ~(idents[u] > 0)
  BY <1>1, <1>2 DEF ThreadInv, InvOwners
<1> QED BY <1>2, <1>3, NumbersFact DEF Numbers

\* The thread gets the lock, at once or after it blocked: mode and count.
LEMMA LockedThreadInv ==
  ASSUME TypeOK, ThreadInv, NEW t \in Threads, pc[t] = "os" \/ InOs(t),
         Frame(t), kind' = kind,
         pc'[t] = AfterReturn(t), idents'[t] = idents[t] + 1,
         held'[t] = IF kind[t] \in {"read", "write"} THEN held[t] + 1 ELSE held[t],
         mode'[Inst[t]] \in {"r", "w"}
  PROVE  ThreadInv'
<1> USE DEF ThreadInv
<1>1. Numbers
  BY NumbersFact
<1>2. \A u \in Threads \ {t} :
        Inst[u] = Inst[t] => idents[u] = 0 /\ ~InOs(u) /\ pc[u] # "os"
  BY AloneAtOs
<1>3. InvMutex'
  <2> SUFFICES ASSUME NEW u \in Threads, pc'[u] = "os"
               PROVE  mutex'[Inst[u]] = u /\ mode'[Inst[u]] = ""
    BY DEF InvMutex
  <2>1. u # t
    BY DEF AfterReturn
  <2>2. pc[u] = "os"
    BY <2>1 DEF Frame
  <2>3. Inst[u] # Inst[t]
    BY <1>2, <2>1, <2>2
  <2>4. mutex'[Inst[u]] = mutex[Inst[u]] /\ mode'[Inst[u]] = mode[Inst[u]]
    BY <1>1, <2>3 DEF Frame, Numbers
  <2> QED BY <2>2, <2>4 DEF InvMutex
<1>4. InvPending'
  <2>1. \A u \in Threads : InOs(u)' => u # t /\ InOs(u)
    BY DEF Frame, InOs, AfterReturn
  <2>2. \A u \in Threads : InOs(u)' => Inst[u] # Inst[t]
    BY <1>2, <2>1
  <2> QED BY <1>1, <2>1, <2>2 DEF InvPending, Frame, Numbers
<1>5. InvOwners'
  <2> SUFFICES ASSUME NEW u \in Threads, Inst[u] # Inst[t], idents'[u] > 0
               PROVE  mode'[Inst[u]] \in {"r", "w"} \/ InOs(u)' \/ pc'[u] = "os"
    BY DEF InvOwners
  <2>1. idents[u] > 0
    BY DEF Frame
  <2>2. mode'[Inst[u]] = mode[Inst[u]] /\ pc'[u] = pc[u]
    BY <1>1 DEF Frame, Numbers
  <2> QED BY <2>1, <2>2 DEF InvOwners, InOs
<1>6. InvWriter'
  <2> SUFFICES ASSUME NEW u \in Threads, NEW v \in Threads, Inst[u] = Inst[v],
                      mode'[Inst[u]] = "w", idents'[u] > 0, idents'[v] > 0
               PROVE  u = v
    BY DEF InvWriter
  <2>1. CASE Inst[u] = Inst[t]
    <3>1. \A x \in Threads \ {t} : Inst[x] = Inst[t] => ~(idents'[x] > 0)
      BY <1>2 DEF Frame
    <3> QED BY <2>1, <3>1
  <2>2. CASE Inst[u] # Inst[t]
    BY <1>1, <2>2 DEF Frame, Numbers, InvWriter
  <2> QED BY <2>1, <2>2
<1>7. InvCounts'
  <2> SUFFICES ASSUME NEW u \in Threads PROVE CountsOK(u)'
    BY DEF InvCounts
  <2>1. CountsOK(u)
    BY DEF InvCounts
  <2>2. CASE u = t
    <3>1. /\ kind[t] = "switch" => idents[t] + 1 = held[t]
          /\ kind[t] # "switch" => idents[t] = held[t]
          /\ kind[t] = "can_lock" => held[t] = 0
      BY <2>1, <2>2 DEF CountsOK, InOs
    <3>2. kind[t] \in AllKinds
      BY DEF TypeOK
    <3>3. kind[t] # "can_lock" => idents'[t] = held'[t]
      BY <3>1, <3>2 DEF AllKinds
    <3>4. kind[t] = "can_lock" => held'[t] = 0 /\ idents'[t] = 1
      BY <3>1
    <3> QED BY <2>2, <3>3, <3>4 DEF CountsOK, InOs, AfterReturn
  <2>3. CASE u # t /\ Inst[u] = Inst[t]
    <3>1. idents[u] = 0
      BY <1>2, <2>3
    <3> QED BY <1>1, <2>1, <2>3, <3>1 DEF CountsOK, InOs, Numbers, Frame
  <2>4. CASE u # t /\ Inst[u] # Inst[t]
    BY <1>1, <2>1, <2>4 DEF CountsOK, InOs, Numbers, Frame
  <2> QED BY <2>2, <2>3, <2>4
<1> QED BY <1>3, <1>4, <1>5, <1>6, <1>7

\* [2] of acquire: the non-blocking process level call succeeds.
LEMMA OsTryThreadInv ==
  ASSUME TypeOK, ThreadInv, NEW t \in Threads, OsTry(t)
  PROVE  ThreadInv'
<1>1. Frame(t)
  BY DEF Frame, OsTry, Returns, ReturnsNotifying, Entered, Notified, TypeOK
<1>2. /\ pc[t] = "os" /\ kind' = kind /\ mode'[Inst[t]] \in {"r", "w"}
      /\ idents'[t] = idents[t] + 1
  BY InstAssumption DEF OsTry, TypeOK
<1>3. pc'[t] = AfterReturn(t)
  BY DEF OsTry, Returns, ReturnsNotifying, Notified, TypeOK
<1>4. held'[t] = IF kind[t] \in {"read", "write"} THEN held[t] + 1 ELSE held[t]
  <2>1. Entered(t)
    BY DEF OsTry, Returns, ReturnsNotifying
  <2> QED BY <2>1 DEF Entered, TypeOK
<1> QED BY <1>1, <1>2, <1>3, <1>4, LockedThreadInv

\* acquire takes _lock again after the blocking call.
LEMMA RegainThreadInv ==
  ASSUME TypeOK, ThreadInv, NEW t \in Threads, Regain(t)
  PROVE  ThreadInv'
<1>1. Frame(t)
  BY DEF Frame, Regain, ReturnsNotifying, Entered, Notified, TypeOK
<1>2. /\ InOs(t) /\ kind' = kind /\ mode'[Inst[t]] \in {"r", "w"}
      /\ idents'[t] = idents[t] + 1
  BY InstAssumption DEF Regain, InOs, TypeOK
<1>3. pc'[t] = AfterReturn(t)
  BY DEF Regain, ReturnsNotifying, Notified, TypeOK
<1>4. held'[t] = IF kind[t] \in {"read", "write"} THEN held[t] + 1 ELSE held[t]
  <2>1. Entered(t)
    BY DEF Regain, ReturnsNotifying
  <2> QED BY <2>1 DEF Entered, TypeOK
<1> QED BY <1>1, <1>2, <1>3, <1>4, LockedThreadInv

\* The non-blocking call fails: the thread blocks, or can_lock gives up.
LEMMA OsBusyThreadInv ==
  ASSUME TypeOK, ThreadInv, NEW t \in Threads, OsBusy(t)
  PROVE  ThreadInv'
<1> USE DEF ThreadInv
<1>1. Frame(t) /\ Quiet(t)
  BY DEF Frame, Quiet, OsBusy, Raises, TypeOK
<1>2. pc[t] = "os" /\ kind' = kind /\ idents' = idents /\ held' = held
  BY DEF OsBusy
<1>3. Numbers
  BY NumbersFact
<1>4. CountsOK(t)
  BY DEF InvCounts
<1>5. kind[t] = "can_lock" => idents[t] = 0 /\ ~(idents[t] > 0)
  BY <1>2, <1>4 DEF CountsOK
<1>6. /\ kind[t] = "can_lock" => pc'[t] = "finally" /\ mode' = mode
      /\ kind[t] # "can_lock" => pc'[t] = "block" /\ mode'[Inst[t]] = "p"
  BY <1>5, InstAssumption DEF OsBusy, Raises, Block, TypeOK
<1>7. \A u \in Threads \ {t} :
        Inst[u] = Inst[t] => idents[u] = 0 /\ ~InOs(u) /\ pc[u] # "os"
  BY <1>2, AloneAtOs
<1>8. InvMutex'
  <2> SUFFICES ASSUME NEW u \in Threads, pc'[u] = "os"
               PROVE  mutex'[Inst[u]] = u /\ mode'[Inst[u]] = ""
    BY DEF InvMutex
  <2>1. u # t
    BY <1>6
  <2>2. pc[u] = "os"
    BY <1>1, <2>1 DEF Quiet
  <2>3. Inst[u] # Inst[t]
    BY <1>7, <2>1, <2>2
  <2>4. mutex'[Inst[u]] = mutex[Inst[u]] /\ mode'[Inst[u]] = mode[Inst[u]]
    BY <1>1, <1>3, <2>3 DEF Frame, Numbers
  <2> QED BY <2>2, <2>4 DEF InvMutex
<1>9. InvPending'
  <2> SUFFICES ASSUME NEW u \in Threads, InOs(u)'
               PROVE  /\ mode'[Inst[u]] = "p"
                      /\ \A v \in Threads : Inst[v] = Inst[u] /\ InOs(v)' => v = u
    BY DEF InvPending
  <2>1. \A v \in Threads : InOs(v)' /\ v # t => InOs(v) /\ Inst[v] # Inst[t]
    BY <1>1, <1>7 DEF Quiet, InOs
  <2>2. CASE u = t
    BY <1>6, <2>1, <2>2 DEF InOs
  <2>3. CASE u # t
    BY <1>1, <1>3, <2>1, <2>3 DEF InvPending, Frame, Numbers
  <2> QED BY <2>2, <2>3
<1>10. InvOwners'
  <2> SUFFICES ASSUME NEW u \in Threads, idents[u] > 0
               PROVE  mode'[Inst[u]] \in {"r", "w"} \/ InOs(u)' \/ pc'[u] = "os"
    BY <1>2 DEF InvOwners
  <2>1. CASE u = t
    BY <1>5, <1>6, <2>1 DEF InOs
  <2>2. CASE u # t
    <3>1. Inst[u] # Inst[t]
      BY <1>7, <2>2
    <3>2. mode'[Inst[u]] = mode[Inst[u]] /\ pc'[u] = pc[u]
      BY <1>1, <1>3, <2>2, <3>1 DEF Frame, Quiet, Numbers
    <3> QED BY <3>2 DEF InvOwners, InOs
  <2> QED BY <2>1, <2>2
<1>11. InvWriter'
  <2>1. \A u \in Threads : mode'[Inst[u]] = "w" => mode[Inst[u]] = "w"
    BY <1>1, <1>3, <1>6 DEF Frame, Numbers
  <2> QED BY <1>2, <2>1 DEF InvWriter
<1>12. InvCounts'
  <2> SUFFICES ASSUME NEW u \in Threads PROVE CountsOK(u)'
    BY DEF InvCounts
  <2>1. CountsOK(u)
    BY DEF InvCounts
  <2>2. CASE u = t
    BY <1>2, <1>4, <1>5, <1>6, <2>2 DEF CountsOK, InOs
  <2>3. CASE u # t /\ Inst[u] = Inst[t]
    BY <1>1, <1>2, <1>3, <1>7, <2>1, <2>3 DEF CountsOK, InOs, Quiet, Numbers
  <2>4. CASE u # t /\ Inst[u] # Inst[t]
    BY <1>1, <1>2, <1>3, <2>1, <2>4 DEF CountsOK, InOs, Quiet, Numbers, Frame
  <2> QED BY <2>2, <2>3, <2>4
<1> QED BY <1>8, <1>9, <1>10, <1>11, <1>12

\* The blocking call returns; the thread does not have _lock yet.
LEMMA OsGrantThreadInv ==
  ASSUME TypeOK, ThreadInv, NEW t \in Threads, OsGrant(t)
  PROVE  ThreadInv'
<1> USE DEF ThreadInv
<1>1. Quiet(t)
  BY DEF Quiet, OsGrant, TypeOK
<1>2. /\ pc[t] = "block" /\ pc'[t] = "granted" /\ kind' = kind /\ idents' = idents
      /\ held' = held /\ mode' = mode /\ mutex' = mutex
  BY DEF OsGrant, TypeOK
<1>3. \A u \in Threads : (InOs(u)' <=> InOs(u)) /\ (pc'[u] = "os" <=> pc[u] = "os")
  BY <1>1, <1>2 DEF Quiet, InOs
<1>4. InvMutex'
  BY <1>2, <1>3 DEF InvMutex
<1>5. InvPending'
  BY <1>2, <1>3 DEF InvPending
<1>6. InvOwners'
  BY <1>2, <1>3 DEF InvOwners
<1>7. InvWriter'
  BY <1>2 DEF InvWriter
<1>8. InvCounts'
  <2> SUFFICES ASSUME NEW u \in Threads PROVE CountsOK(u)'
    BY DEF InvCounts
  <2>1. CountsOK(u)
    BY DEF InvCounts
  <2>2. CASE u = t
    BY <1>2, <2>1, <2>2 DEF CountsOK, InOs
  <2>3. CASE u # t
    BY <1>1, <1>2, <2>1, <2>3 DEF CountsOK, InOs, Quiet
  <2> QED BY <2>2, <2>3
<1> QED BY <1>4, <1>5, <1>6, <1>7, <1>8

\* release(), called for a session or by can_lock.
LEMMA ReleaseThreadInv ==
  ASSUME TypeOK, TypeOK', ThreadInv, NEW t \in Threads, DoRelease(t),
         \/ pc[t] = "out" /\ held[t] > 0 /\ held' = [held EXCEPT ![t] = @ - 1]
         \/ pc[t] = "finally" /\ held' = held
  PROVE  ThreadInv'
<1> USE DEF ThreadInv
<1> DEFINE last == idents[t] = 1 /\ OnlyOwner(t)
<1>1. Frame(t)
  BY DEF Frame, DoRelease, Notified, TypeOK
<1>2. /\ pc'[t] = "out" /\ kind' = kind /\ mutex' = mutex /\ mutex[Inst[t]] = NoThread
      /\ last => mode'[Inst[t]] = ""
      /\ ~last => mode' = mode /\ Quiet(t)
  BY InstAssumption DEF DoRelease, Notified, Quiet, TypeOK
<1>3. Numbers /\ Numbers'
  BY NumbersFact, InstAssumption DEF TypeOK, Numbers
<1>4. idents'[t] = IF idents[t] = 0 THEN 0 ELSE idents[t] - 1
  BY DEF DoRelease, TypeOK
<1>5. last => \A u \in Threads \ {t} : Inst[u] = Inst[t] => idents[u] = 0
  BY DEF OnlyOwner, Mates
<1>6. idents[t] > 0 => mode[Inst[t]] \in {"r", "w"}
  BY DEF InvOwners, InOs
<1>7. \A u \in Threads : idents'[u] > 0 => idents[u] > 0
  BY <1>1, <1>3, <1>4 DEF Frame, Numbers
<1>8. last => idents[t] > 0 /\ idents'[t] = 0
  BY <1>4
<1> HIDE DEF last
<1>9. InvMutex'
  <2> SUFFICES ASSUME NEW u \in Threads, pc'[u] = "os"
               PROVE  mutex'[Inst[u]] = u /\ mode'[Inst[u]] = ""
    BY DEF InvMutex
  <2>1. u # t
    BY <1>2
  <2>2. pc[u] = "os"
    BY <1>1, <2>1 DEF Frame
  <2>3. mutex[Inst[u]] = u /\ mode[Inst[u]] = ""
    BY <2>2 DEF InvMutex
  <2>4. Inst[u] # Inst[t]
    BY <1>2, <2>3, InstAssumption
  <2> QED BY <1>1, <1>3, <2>3, <2>4 DEF Frame, Numbers
<1>10. InvPending'
  <2>1. \A u \in Threads : InOs(u)' => InOs(u) /\ u # t
    BY <1>1, <1>2 DEF Frame, InOs
  <2>2. last => \A u \in Threads : InOs(u) => Inst[u] # Inst[t]
    BY <1>6, <1>8 DEF InvPending
  <2>3. \A u \in Threads : InOs(u)' => mode'[Inst[u]] = mode[Inst[u]]
    BY <1>1, <1>2, <1>3, <2>1, <2>2 DEF Frame, Numbers
  <2> QED BY <2>1, <2>3 DEF InvPending
<1>11. InvOwners'
  <2> SUFFICES ASSUME NEW u \in Threads, idents'[u] > 0
               PROVE  mode'[Inst[u]] \in {"r", "w"} \/ InOs(u)' \/ pc'[u] = "os"
    BY DEF InvOwners
  <2>1. idents[u] > 0
    BY <1>7
  <2>2. last => Inst[u] # Inst[t]
    BY <1>1, <1>5, <1>8, <2>1 DEF Frame
  <2>3. mode'[Inst[u]] = mode[Inst[u]]
    BY <1>1, <1>2, <1>3, <2>2 DEF Frame, Numbers
  <2>4. u # t => (InOs(u) => InOs(u)') /\ (pc[u] = "os" => pc'[u] = "os")
    BY <1>1 DEF Frame, InOs
  <2> QED BY <1>6, <2>1, <2>3, <2>4 DEF InvOwners
<1>12. InvWriter'
  <2>1. \A u \in Threads : mode'[Inst[u]] = "w" => mode[Inst[u]] = "w"
    BY <1>1, <1>2, <1>3 DEF Frame, Numbers
  <2> QED BY <1>7, <2>1 DEF InvWriter
<1>13. InvCounts'
  <2> SUFFICES ASSUME NEW u \in Threads PROVE CountsOK(u)'
    BY DEF InvCounts
  <2>1. CountsOK(u)
    BY DEF InvCounts
  <2>2. CASE u = t
    <3>1. CASE pc[t] = "out"
      <4>1. held'[t] = held[t] - 1 /\ held[t] > 0 /\ idents[t] = held[t]
        BY <2>1, <2>2, <3>1 DEF CountsOK, TypeOK
      <4>2. idents'[t] = held'[t]
        BY <1>3, <1>4, <4>1 DEF Numbers
      <4> QED BY <1>2, <2>2, <4>2 DEF CountsOK, InOs
    <3>2. CASE pc[t] = "finally"
      <4>1. held'[t] = 0 /\ idents[t] \in {0, 1}
        BY <2>1, <2>2, <3>2 DEF CountsOK
      <4>2. idents'[t] = held'[t]
        BY <1>4, <4>1
      <4> QED BY <1>2, <2>2, <4>2 DEF CountsOK, InOs
    <3> QED BY <3>1, <3>2
  <2>3. CASE u # t /\ Inst[u] = Inst[t] /\ last
    <3>1. idents[u] = 0
      BY <1>5, <2>3
    <3> QED BY <1>1, <1>3, <2>1, <2>3, <3>1 DEF CountsOK, InOs, Numbers, Frame
  <2>4. CASE u # t /\ ~last
    BY <1>1, <1>2, <1>3, <2>1, <2>4 DEF CountsOK, InOs, Quiet, Frame
  <2>5. CASE u # t /\ Inst[u] # Inst[t]
    BY <1>1, <1>3, <2>1, <2>5 DEF CountsOK, InOs, Numbers, Frame
  <2> QED BY <2>2, <2>3, <2>4, <2>5
<1> QED BY <1>9, <1>10, <1>11, <1>12, <1>13

-----------------------------------------------------------------------------
(* The process level lock follows what the threads believe *)

\* What decides which lock instance i should hold
LEMMA HoldsValue ==
  /\ Holds \in [Insts -> {"un", "sh", "ex"}]
  /\ \A i \in Insts :
       Holds[i] = IF mode[i] = "r" \/ \E t \in Mates(i) : pc[t] = "granted" /\ kind[t] = "read"
                    THEN "sh"
                    ELSE IF mode[i] = "w" \/ \E t \in Mates(i) : pc[t] = "granted"
                           THEN "ex" ELSE "un"
BY DEF Holds, ReadOnly

\* A step that changes neither the mode of an instance nor which of its
\* threads are granted changes nothing for that instance.
LEMMA HoldsSame ==
  ASSUME NEW i \in Insts, mode'[i] = mode[i],
         \A u \in Mates(i) :
           /\ pc'[u] = "granted" <=> pc[u] = "granted"
           /\ pc[u] = "granted" => kind'[u] = kind[u]
  PROVE  Holds'[i] = Holds[i]
<1>1. (\E u \in Mates(i) : pc'[u] = "granted") <=> (\E u \in Mates(i) : pc[u] = "granted")
  BY Zenon
<1>2. (\E u \in Mates(i) : pc'[u] = "granted" /\ kind'[u] = "read")
        <=> (\E u \in Mates(i) : pc[u] = "granted" /\ kind[u] = "read")
  <2>1. \A u \in Mates(i) : (pc'[u] = "granted" /\ kind'[u] = "read")
                           <=> (pc[u] = "granted" /\ kind[u] = "read")
    BY Zenon
  <2> QED BY <2>1, Zenon
<1> QED BY <1>1, <1>2 DEF Holds, ReadOnly

\* Without a thread that was granted the lock only the mode decides.
LEMMA HoldsByMode ==
  ASSUME NEW i \in Insts, \A u \in Mates(i) : pc[u] # "granted"
  PROVE  Holds[i] = IF mode[i] = "r" THEN "sh" ELSE IF mode[i] = "w" THEN "ex" ELSE "un"
BY DEF Holds

\* A step of thread t does not change what other instances should hold.
LEMMA HoldsElsewhere ==
  ASSUME NEW t \in Threads, Frame(t), NEW j \in Insts, j # Inst[t]
  PROVE  Holds'[j] = Holds[j]
<1>1. mode'[j] = mode[j]
  BY DEF Frame
<1>2. \A u \in Mates(j) : pc'[u] = pc[u] /\ kind'[u] = kind[u]
  BY DEF Frame, Mates
<1> QED BY <1>1, <1>2, HoldsSame

\* A step after which the instance should hold v.
LEMMA HoldsStep ==
  ASSUME NEW t \in Threads, Frame(t), Inst[t] \in Insts, NEW v, Holds'[Inst[t]] = v
  PROVE  Holds' = [Holds EXCEPT ![Inst[t]] = v]
<1>1. \A j \in Insts \ {Inst[t]} : Holds'[j] = Holds[j]
  BY HoldsElsewhere
<1>2. Holds = [j \in Insts |-> Holds[j]] /\ Holds' = [j \in Insts |-> Holds'[j]]
  BY DEF Holds
<1> HIDE DEF Holds
<1> QED BY <1>1, <1>2

\* Steps that make no process level call.
LEMMA QuietOs ==
  ASSUME TypeOK, InvOs, NEW t \in Threads, Frame(t), UNCHANGED osvars,
         Holds'[Inst[t]] = Holds[Inst[t]]
  PROVE  InvOs'
<1>1. Inst[t] \in Insts
  BY InstAssumption
<1>2. Holds' = [Holds EXCEPT ![Inst[t]] = Holds[Inst[t]]]
  BY <1>1, HoldsStep
<1>3. Holds' = Holds
  BY <1>2, HoldsValue
<1> QED BY <1>3 DEF InvOs, osvars, OsMatch, Sharers

\* The steps that make no process level call keep the agreement.
LEMMA NoOsCall ==
  ASSUME TypeOK, ThreadInv, InvOs, NEW t \in Threads,
         \/ \E k \in Kinds : Call(t, k)
         \/ Reenter(t) \/ MustWait(t) \/ GoToOs(t) \/ OsBusy(t) \/ Regain(t)
  PROVE  InvOs'
<1> USE DEF ThreadInv
<1>0. Inst[t] \in Insts
  BY InstAssumption
<1>1. ASSUME NEW k \in Kinds, Call(t, k) PROVE InvOs'
  <2>1. Frame(t) /\ UNCHANGED osvars /\ mode' = mode
    BY <1>1 DEF Frame, Call, TypeOK, osvars
  <2>2. \A u \in Mates(Inst[t]) :
          /\ pc'[u] = "granted" <=> pc[u] = "granted"
          /\ pc[u] = "granted" => kind'[u] = kind[u]
    BY <1>1 DEF Call, TypeOK, Mates
  <2>3. Holds'[Inst[t]] = Holds[Inst[t]]
    BY <1>0, <2>1, <2>2, HoldsSame
  <2> QED BY <2>1, <2>3, QuietOs
<1>2. CASE Reenter(t)
  <2>1. Frame(t) /\ UNCHANGED osvars /\ mode' = mode /\ kind' = kind
    BY <1>2 DEF Frame, Reenter, Returns, Entered, TypeOK, osvars
  <2>2. \A u \in Mates(Inst[t]) : pc'[u] = "granted" <=> pc[u] = "granted"
    BY <1>2 DEF Reenter, AtTop, Returns, AfterReturn, TypeOK, Mates
  <2>3. Holds'[Inst[t]] = Holds[Inst[t]]
    BY <1>0, <2>1, <2>2, HoldsSame
  <2> QED BY <2>1, <2>3, QuietOs
<1>3. CASE MustWait(t)
  <2>1. Frame(t) /\ UNCHANGED osvars /\ mode' = mode /\ kind' = kind
    BY <1>3 DEF Frame, MustWait, Raises, TypeOK, osvars
  <2>2. \A u \in Mates(Inst[t]) : pc'[u] = "granted" <=> pc[u] = "granted"
    BY <1>3 DEF MustWait, AtTop, Raises, TypeOK, Mates
  <2>3. Holds'[Inst[t]] = Holds[Inst[t]]
    BY <1>0, <2>1, <2>2, HoldsSame
  <2> QED BY <2>1, <2>3, QuietOs
<1>4. CASE GoToOs(t)
  <2>1. Frame(t) /\ UNCHANGED osvars /\ mode' = mode /\ kind' = kind
    BY <1>4 DEF Frame, GoToOs, TypeOK, osvars
  <2>2. \A u \in Mates(Inst[t]) : pc'[u] = "granted" <=> pc[u] = "granted"
    BY <1>4 DEF GoToOs, AtTop, TypeOK, Mates
  <2>3. Holds'[Inst[t]] = Holds[Inst[t]]
    BY <1>0, <2>1, <2>2, HoldsSame
  <2> QED BY <2>1, <2>3, QuietOs
<1>5. CASE OsBusy(t)
  <2>1. Frame(t) /\ UNCHANGED osvars
    BY <1>5 DEF Frame, OsBusy, Raises, TypeOK, osvars
  <2>2. pc[t] = "os" /\ pc'[t] \in {"block", "finally"}
    BY <1>5 DEF OsBusy, Raises, TypeOK
  <2>3. \A u \in Mates(Inst[t]) : pc[u] # "granted" /\ pc'[u] # "granted"
    <3>1. \A u \in Threads \ {t} : Inst[u] = Inst[t] => ~InOs(u)
      BY <2>2, AloneAtOs
    <3> QED BY <2>1, <2>2, <3>1 DEF Frame, Mates, InOs
  <2>4. mode[Inst[t]] = ""
    BY <2>2 DEF InvMutex
  <2>5. mode'[Inst[t]] \in {"", "p"}
    <3>1. kind[t] = "can_lock" => ~(idents[t] > 0)
      BY <2>2 DEF InvCounts, CountsOK
    <3> QED BY <1>0, <1>5, <2>4, <3>1 DEF OsBusy, Block, TypeOK
  <2>6. Holds[Inst[t]] = "un"
    BY <1>0, <2>3, <2>4, HoldsByMode
  <2>7. Holds'[Inst[t]] = "un"
    BY <1>0, <2>3, <2>5 DEF Holds
  <2> QED BY <2>1, <2>6, <2>7, QuietOs
<1>6. CASE Regain(t)
  <2>1. Frame(t) /\ UNCHANGED osvars /\ kind' = kind
    BY <1>6 DEF Frame, Regain, ReturnsNotifying, Entered, Notified, TypeOK, osvars
  <2>2. pc[t] = "granted" /\ pc'[t] = AfterReturn(t)
    BY <1>6 DEF Regain, ReturnsNotifying, Notified, TypeOK
  <2>3. \A u \in Mates(Inst[t]) : pc'[u] # "granted" /\ (u # t => pc[u] # "granted")
    <3>1. \A u \in Threads \ {t} : Inst[u] = Inst[t] => ~InOs(u)
      BY <2>2, AloneAtOs DEF InOs
    <3> QED BY <2>1, <2>2, <3>1 DEF Frame, Mates, InOs, AfterReturn
  <2>4. mode[Inst[t]] = "p"
    BY <2>2 DEF InvPending, InOs
  <2>5. t \in Mates(Inst[t])
    BY DEF Mates
  <2>6. Holds[Inst[t]] = IF kind[t] = "read" THEN "sh" ELSE "ex"
    BY <1>0, <2>2, <2>3, <2>4, <2>5 DEF Holds, ReadOnly
  <2>7. mode'[Inst[t]] = IF kind[t] = "read" THEN "r" ELSE "w"
    BY <1>0, <1>6 DEF Regain, ReadOnly, TypeOK
  <2>8. Holds'[Inst[t]] = IF kind[t] = "read" THEN "sh" ELSE "ex"
    BY <1>0, <2>3, <2>7 DEF Holds
  <2> QED BY <2>1, <2>6, <2>8, QuietOs
<1> QED BY <1>1, <1>2, <1>3, <1>4, <1>5, <1>6

\* The steps that make a process level call change the lock and the belief
\* of the instance together.
LEMMA OsCall ==
  ASSUME TypeOK, ThreadInv, InvOs, NEW t \in Threads,
         PromoteLast(t) \/ OsTry(t) \/ OsGrant(t)
  PROVE  InvOs'
<1> USE DEF ThreadInv
<1>0. Inst[t] \in Insts /\ OsTypeOK /\ Holds \in [Insts -> {"un", "sh", "ex"}]
  BY InstAssumption, HoldsValue DEF TypeOK, OsTypeOK
<1>1. CASE PromoteLast(t)
  <2>1. Frame(t) /\ Unlock(Inst[t])
    BY <1>1 DEF Frame, PromoteLast, Notified, TypeOK
  <2>2. mode[Inst[t]] = "r" /\ mode'[Inst[t]] = "" /\ pc'[t] = "os"
    BY <1>0, <1>1 DEF PromoteLast, Promoting, Notified, TypeOK
  <2>3. Holds[Inst[t]] = "sh"
    BY <1>0, <2>2 DEF Holds
  <2>4. \A u \in Mates(Inst[t]) : pc'[u] # "granted"
    <3>1. \A u \in Mates(Inst[t]) : pc[u] # "granted"
      BY <2>2 DEF InvPending, InOs, Mates
    <3> QED BY <2>1, <2>2, <3>1 DEF Frame, Mates
  <2>5. Holds'[Inst[t]] = "un"
    BY <1>0, <2>2, <2>4 DEF Holds
  <2>6. Holds' = [Holds EXCEPT ![Inst[t]] = "un"]
    BY <1>0, <2>1, <2>5, HoldsStep
  <2>7. OsMatch([Holds EXCEPT ![Inst[t]] = "un"], fd', lck')
    BY <1>0, <2>1, <2>3, UnlockMatch DEF InvOs
  <2> QED BY <2>6, <2>7 DEF InvOs, OsMatch, Sharers
<1>2. CASE OsTry(t) \/ OsGrant(t)
  <2>1. Frame(t) /\ CanLock(t) /\ Lock(t) /\ kind' = kind
    <3>1. CASE OsTry(t)
      BY <3>1 DEF Frame, OsTry, Returns, ReturnsNotifying, Entered, Notified, TypeOK
    <3>2. CASE OsGrant(t)
      BY <3>2 DEF Frame, OsGrant, TypeOK
    <3> QED BY <1>2, <3>1, <3>2
  <2>2. pc[t] \in {"os", "block"} /\ mode[Inst[t]] \in {"", "p"}
    BY <1>2 DEF OsTry, OsGrant, InvMutex, InvPending, InOs
  <2>3. \A u \in Mates(Inst[t]) : pc[u] # "granted" /\ (u # t => pc'[u] # "granted")
    <3>1. \A u \in Threads \ {t} : Inst[u] = Inst[t] => ~InOs(u)
      BY <2>2, AloneAtOs DEF InOs
    <3>2. \A u \in Threads \ {t} : Inst[u] = Inst[t] => pc[u] # "granted" /\ pc'[u] # "granted"
      BY <2>1, <3>1 DEF Frame, InOs
    <3> QED BY <2>2, <3>2 DEF Mates
  <2>4. Holds[Inst[t]] = "un"
    BY <1>0, <2>2, <2>3, HoldsByMode
  <2>5. t \in Mates(Inst[t])
    BY DEF Mates
  <2>6. Holds'[Inst[t]] = IF kind[t] = "read" THEN "sh" ELSE "ex"
    <3>1. CASE OsTry(t)
      <4>1. mode'[Inst[t]] = IF kind[t] = "read" THEN "r" ELSE "w"
        BY <1>0, <3>1 DEF OsTry, ReadOnly, TypeOK
      <4>2. pc'[t] # "granted"
        BY <3>1 DEF OsTry, Returns, ReturnsNotifying, AfterReturn, Notified, TypeOK
      <4> QED BY <1>0, <2>3, <4>1, <4>2 DEF Holds
    <3>2. CASE OsGrant(t)
      <4>1. mode' = mode /\ pc'[t] = "granted"
        BY <3>2 DEF OsGrant, TypeOK
      <4> QED BY <1>0, <2>1, <2>2, <2>3, <2>5, <4>1 DEF Holds, ReadOnly
    <3> QED BY <1>2, <3>1, <3>2
  <2>7. CASE kind[t] = "read"
    <3>1. Holds' = [Holds EXCEPT ![Inst[t]] = "sh"]
      BY <1>0, <2>1, <2>6, <2>7, HoldsStep
    <3>2. CanRlock(Inst[t]) /\ Rlock(Inst[t])
      BY <2>1, <2>7 DEF CanLock, Lock, ReadOnly
    <3>3. OsMatch([Holds EXCEPT ![Inst[t]] = "sh"], fd', lck')
      BY <1>0, <2>4, <3>2, RlockMatch DEF InvOs
    <3> QED BY <3>1, <3>3 DEF InvOs, OsMatch, Sharers
  <2>8. CASE kind[t] # "read"
    <3>1. Holds' = [Holds EXCEPT ![Inst[t]] = "ex"]
      BY <1>0, <2>1, <2>6, <2>8, HoldsStep
    <3>2. CanWlock(Inst[t]) /\ Wlock(Inst[t])
      BY <2>1, <2>8 DEF CanLock, Lock, ReadOnly
    <3>3. OsMatch([Holds EXCEPT ![Inst[t]] = "ex"], fd', lck')
      BY <1>0, <2>4, <3>2, WlockMatch DEF InvOs
    <3> QED BY <3>1, <3>3 DEF InvOs, OsMatch, Sharers
  <2> QED BY <2>7, <2>8
<1> QED BY <1>1, <1>2

\* release() unlocks exactly when the instance gives up its mode.
LEMMA ReleaseOs ==
  ASSUME TypeOK, ThreadInv, InvOs, NEW t \in Threads, DoRelease(t),
         \/ pc[t] = "out" /\ held[t] > 0 /\ held' = [held EXCEPT ![t] = @ - 1]
         \/ pc[t] = "finally" /\ held' = held
  PROVE  InvOs'
<1> USE DEF ThreadInv
<1> DEFINE last == idents[t] = 1 /\ OnlyOwner(t)
<1>0. Inst[t] \in Insts /\ OsTypeOK /\ Holds \in [Insts -> {"un", "sh", "ex"}]
  BY InstAssumption, HoldsValue DEF TypeOK, OsTypeOK
<1>1. Frame(t) /\ kind' = kind /\ pc'[t] = "out"
  BY DEF Frame, DoRelease, Notified, TypeOK
<1>2. \A u \in Mates(Inst[t]) : pc'[u] = "granted" <=> pc[u] = "granted"
  BY <1>1 DEF Frame, Mates
<1>3. CASE last
  <2>1. idents[t] > 0
    BY <1>3
  <2>2. mode[Inst[t]] \in {"r", "w"}
    BY <2>1 DEF InvOwners, InOs
  <2>3. \A u \in Mates(Inst[t]) : pc[u] # "granted"
    BY <2>2 DEF InvPending, InOs, Mates
  <2>4. Unlock(Inst[t]) /\ mode'[Inst[t]] = ""
    BY <1>0, <1>3 DEF DoRelease, TypeOK
  <2>5. Holds[Inst[t]] # "un"
    BY <1>0, <2>2, <2>3, HoldsByMode
  <2>6. Holds'[Inst[t]] = "un"
    BY <1>0, <1>2, <2>3, <2>4 DEF Holds
  <2>7. Holds' = [Holds EXCEPT ![Inst[t]] = "un"]
    BY <1>0, <1>1, <2>6, HoldsStep
  <2>8. OsMatch([Holds EXCEPT ![Inst[t]] = "un"], fd', lck')
    BY <1>0, <2>4, <2>5, UnlockMatch DEF InvOs
  <2> QED BY <2>7, <2>8 DEF InvOs, OsMatch, Sharers
<1>4. CASE ~last
  <2>1. UNCHANGED osvars /\ mode' = mode
    BY <1>4 DEF DoRelease
  <2>2. Holds'[Inst[t]] = Holds[Inst[t]]
    BY <1>0, <1>1, <1>2, <2>1, HoldsSame
  <2> QED BY <1>1, <2>1, <2>2, QuietOs
<1> QED BY <1>3, <1>4

-----------------------------------------------------------------------------
(* The theorems *)

\* The invariant holds initially ...
LEMMA InitInv == Init => Inv
<1> SUFFICES ASSUME Init PROVE Inv
  OBVIOUS
<1>1. TypeOK
  BY InitType
<1>2. /\ \A t \in Threads : pc[t] = "out" /\ idents[t] = 0 /\ held[t] = 0 /\ ~InOs(t)
      /\ \A i \in Insts : mode[i] = "" /\ fd[i] = "un"
  BY DEF Init, InOs
<1>3. InvMutex /\ InvPending /\ InvOwners /\ InvWriter
  <2>1. InvMutex /\ InvPending
    BY <1>2 DEF InvMutex, InvPending
  <2>2. \A t \in Threads : ~(idents[t] > 0)
    <3> TAKE t \in Threads
    <3>1. idents[t] = 0
      BY <1>2
    <3> QED BY <3>1
  <2> QED BY <2>1, <2>2 DEF InvOwners, InvWriter
<1>4. InvCounts
  BY <1>2 DEF InvCounts, CountsOK
<1>5. Holds = [i \in Insts |-> "un"]
  BY <1>2 DEF Holds, Mates
<1>6. InvOs
  <2>1. Sharers(Holds) = {}
    BY <1>5 DEF Sharers
  <2>2. Cardinality(Sharers(Holds)) = 0
    BY <2>1, FS_EmptySet
  <2>3. \A i \in Insts : Holds[i] = "un"
    BY <1>5
  <2>4. fd = Holds
    BY <1>5 DEF Init
  <2>5. lck.read_cnt = 0 /\ lck.write_id = NoInst /\ lck.write_cnt = 0
    BY DEF Init
  <2> HIDE DEF Holds, Init
  <2> QED BY <2>2, <2>3, <2>4, <2>5, InstAssumption DEF InvOs, OsMatch
<1> QED BY <1>1, <1>3, <1>4, <1>6 DEF Inv

\* ... and every step keeps it, if can_lock() is not called inside a session.
LEMMA NextInv ==
  ASSUME CanLockIdle, Inv, [Next]_vars
  PROVE  Inv'
<1>1. TypeOK /\ ThreadInv /\ InvOs
  BY DEF Inv, ThreadInv
<1>2. TypeOK'
  BY <1>1, TypeStep
<1>3. SUFFICES ThreadInv' /\ InvOs'
  BY <1>2 DEF Inv, ThreadInv
<1>4. CASE UNCHANGED vars
  <2>1. Holds' = Holds
    BY <1>4 DEF vars, Holds, Mates, ReadOnly
  <2>2. InvOs'
    BY <1>1, <1>4, <2>1 DEF InvOs, OsMatch, Sharers, vars
  <2>3. ThreadInv'
    <3>1. InvMutex' /\ InvPending'
      BY <1>1, <1>4 DEF vars, ThreadInv, InvMutex, InvPending, InOs
    <3>2. InvOwners' /\ InvWriter'
      BY <1>1, <1>4 DEF vars, ThreadInv, InvOwners, InvWriter, InOs
    <3>3. InvCounts'
      BY <1>1, <1>4 DEF vars, ThreadInv, InvCounts, CountsOK, InOs
    <3> QED BY <3>1, <3>2, <3>3 DEF ThreadInv
  <2> QED BY <2>2, <2>3
<1>5. ASSUME NEW t \in Threads, NEW k \in Kinds, Call(t, k) PROVE ThreadInv' /\ InvOs'
  BY <1>1, <1>5, CallThreadInv, NoOsCall
<1>6. ASSUME NEW t \in Threads, Acquire(t) PROVE ThreadInv' /\ InvOs'
  <2>1. CASE Reenter(t)
    BY <1>1, <2>1, ReenterThreadInv, NoOsCall
  <2>2. CASE PromoteLast(t)
    BY <1>1, <2>2, PromoteLastThreadInv, OsCall
  <2>3. CASE MustWait(t)
    BY <1>1, <2>3, MustWaitThreadInv, NoOsCall
  <2>4. CASE GoToOs(t)
    BY <1>1, <2>4, GoToOsThreadInv, NoOsCall
  <2>5. CASE OsTry(t)
    BY <1>1, <2>5, OsTryThreadInv, OsCall
  <2>6. CASE OsBusy(t)
    BY <1>1, <2>6, OsBusyThreadInv, NoOsCall
  <2>7. CASE OsGrant(t)
    BY <1>1, <2>7, OsGrantThreadInv, OsCall
  <2>8. CASE Regain(t)
    BY <1>1, <2>8, RegainThreadInv, NoOsCall
  <2> QED BY <1>6, <2>1, <2>2, <2>3, <2>4, <2>5, <2>6, <2>7, <2>8 DEF Acquire
<1>7. ASSUME NEW t \in Threads, Release(t) \/ CanLockFinally(t) PROVE ThreadInv' /\ InvOs'
  BY <1>1, <1>2, <1>7, ReleaseThreadInv, ReleaseOs DEF Release, CanLockFinally
<1> QED BY <1>4, <1>5, <1>6, <1>7 DEF Next

\* The lock keeps its inductive invariant: the process level lock agrees with
\* what the threads believe, and the counts with their sessions.
THEOREM LockInvariant == ASSUME CanLockIdle PROVE Spec => []Inv
<1>1. Init => Inv
  BY InitInv
<1>2. Inv /\ [Next]_vars => Inv'
  BY NextInv
<1> QED BY <1>1, <1>2, PTL DEF Spec

\* A thread inside a session has a count, and its instance a mode.
LEMMA SessionMode ==
  ASSUME Inv, NEW t \in Threads, Reading(t)
  PROVE  idents[t] > 0 /\ mode[Inst[t]] \in {"r", "w"}
<1>1. idents[t] = held[t] /\ held[t] > 0 /\ pc[t] = "out"
  BY DEF Inv, InvCounts, CountsOK, Reading
<1> QED BY <1>1 DEF Inv, InvOwners, InOs

\* For any number of instances and threads, with flock and with the memory
\* lock: a writer excludes every other session (the FileLock docstring).
THEOREM Exclusion == ASSUME CanLockIdle PROVE Spec => []MutualExclusion
<1>1. Inv => MutualExclusion
  <2> SUFFICES ASSUME Inv, NEW t \in Threads, Writing(t), NEW u \in Threads \ {t}, Reading(u)
               PROVE  FALSE
    BY DEF MutualExclusion
  <2>1. mode[Inst[t]] = "w" /\ idents[t] > 0 /\ idents[u] > 0 /\ mode[Inst[u]] \in {"r", "w"}
    BY SessionMode DEF Writing
  <2>2. Inst[t] # Inst[u]
    BY <2>1 DEF Inv, InvWriter
  <2>3. Inst[t] \in Insts /\ Inst[u] \in Insts
    BY InstAssumption
  <2>4. \A x \in Mates(Inst[t]) : pc[x] # "granted"
    BY <2>1 DEF Inv, InvPending, InOs, Mates
  <2>5. \A x \in Mates(Inst[u]) : pc[x] # "granted"
    BY <2>1 DEF Inv, InvPending, InOs, Mates
  <2>6. Holds[Inst[t]] = "ex" /\ Holds[Inst[u]] # "un"
    BY <2>1, <2>3, <2>4, <2>5, HoldsByMode
  <2> QED BY <2>2, <2>3, <2>6 DEF Inv, InvOs, OsMatch
<1> QED BY <1>1, LockInvariant, PTL

\* For any number of instances and threads: a session is backed by the process
\* level lock all of its life.
THEOREM Protection == ASSUME CanLockIdle PROVE Spec => []SessionProtected
<1>1. Inv => SessionProtected
  <2> SUFFICES ASSUME Inv, NEW t \in Threads, Reading(t)
               PROVE  /\ mode[Inst[t]] \in {"r", "w"}
                      /\ Backend = "disk" => fd[Inst[t]] = IF mode[Inst[t]] = "w" THEN "ex" ELSE "sh"
                      /\ Backend = "mem" => IF mode[Inst[t]] = "w" THEN lck.write_id = Inst[t]
                                                                  ELSE lck.read_cnt > 0
    BY DEF SessionProtected
  <2>1. mode[Inst[t]] \in {"r", "w"} /\ Inst[t] \in Insts
    BY SessionMode, InstAssumption
  <2>2. \A x \in Mates(Inst[t]) : pc[x] # "granted"
    BY <2>1 DEF Inv, InvPending, InOs, Mates
  <2>3. Holds[Inst[t]] = IF mode[Inst[t]] = "w" THEN "ex" ELSE "sh"
    BY <2>1, <2>2, HoldsByMode
  <2>4. Backend = "disk" => fd = Holds
    BY DEF Inv, InvOs, OsMatch
  <2>5. Backend = "mem" /\ mode[Inst[t]] = "w" => lck.write_id = Inst[t]
    BY <2>1, <2>3 DEF Inv, InvOs, OsMatch
  <2>6. Backend = "mem" => lck.read_cnt = Cardinality(Sharers(Holds))
    BY DEF Inv, InvOs, OsMatch
  <2>7. mode[Inst[t]] # "w" => Cardinality(Sharers(Holds)) > 0
    BY <2>1, <2>3, HoldsValue, SharersCount
  <2> QED BY <2>1, <2>3, <2>4, <2>5, <2>6, <2>7
<1> QED BY <1>1, LockInvariant, PTL

\* For any number of instances and threads, and any depth of re-entrance: the
\* count of a thread is the number of its open sessions.
THEOREM Counted == ASSUME CanLockIdle PROVE Spec => []CountsSessions
<1>1. Inv => CountsSessions
  BY DEF Inv, InvCounts, CountsOK, CountsSessions
<1> QED BY <1>1, LockInvariant, PTL
-----------------------------------------------------------------------------
(* Nothing is left behind *)

\* A mode has an owner: 'r' and 'w' a thread with a count, 'p' a thread in the
\* blocking call.
InvUsed ==
  \A i \in Insts :
    /\ mode[i] \in {"r", "w"} => \E t \in Threads : Inst[t] = i /\ idents[t] > 0
    /\ mode[i] = "p" => \E t \in Threads : Inst[t] = i /\ InOs(t)

\* Of the two process level locks only one is ever used.
InvBackend ==
  /\ Backend = "mem" => \A i \in Insts : fd[i] = "un"
  /\ Backend = "disk" => lck = [read_cnt |-> 0, write_id |-> NoInst, write_cnt |-> 0]

LEMMA NextBackend ==
  ASSUME Inv, InvBackend, [Next]_vars
  PROVE  InvBackend'
<1>1. TypeOK
  BY DEF Inv
<1>2. ASSUME NEW i \in Insts, Rlock(i) \/ Wlock(i) \/ Unlock(i) PROVE InvBackend'
  BY <1>1, <1>2, BackendAssumption DEF InvBackend, Rlock, Wlock, Unlock, TypeOK
<1>3. ASSUME UNCHANGED osvars PROVE InvBackend'
  BY <1>3 DEF InvBackend, osvars
<1>4. ASSUME NEW t \in Threads, Acquire(t) PROVE InvBackend'
  <2>1. Inst[t] \in Insts
    BY InstAssumption
  <2>2. \/ Rlock(Inst[t]) \/ Wlock(Inst[t]) \/ Unlock(Inst[t])
        \/ UNCHANGED osvars
    BY <1>4 DEF Acquire, Reenter, PromoteLast, MustWait, GoToOs, OsTry, OsBusy, OsGrant, Regain, Lock, osvars
  <2> QED BY <1>2, <1>3, <2>1, <2>2
<1>5. ASSUME NEW t \in Threads, Release(t) \/ CanLockFinally(t) PROVE InvBackend'
  <2>1. Inst[t] \in Insts
    BY InstAssumption
  <2>2. Unlock(Inst[t]) \/ UNCHANGED osvars
    BY <1>5 DEF Release, CanLockFinally, DoRelease
  <2> QED BY <1>2, <1>3, <2>1, <2>2
<1>6. ASSUME NEW t \in Threads, NEW k \in Kinds, Call(t, k) PROVE InvBackend'
  BY <1>3, <1>6 DEF Call, osvars
<1> QED BY <1>3, <1>4, <1>5, <1>6 DEF Next, vars, osvars

\* Threads in the blocking call stay there while others are notified.
LEMMA NotifiedInOs ==
  ASSUME TypeOK, NEW t \in Threads, NEW to, pc' = [pc EXCEPT ![t] = to] \/ pc' = Notified(t, to)
  PROVE  /\ pc'[t] = to
         /\ \A u \in Threads : u # t /\ InOs(u) => InOs(u)'
BY DEF TypeOK, Notified, InOs

\* No step takes the last owner of a mode away and leaves the mode.
LEMMA NextUsed ==
  ASSUME Inv, InvUsed, [Next]_vars
  PROVE  InvUsed'
<1>1. TypeOK /\ InvMutex /\ TypeOK'
  BY TypeStep DEF Inv
<1>2. \A u \in Threads : idents[u] \in Nat /\ idents'[u] \in Nat
  BY <1>1 DEF TypeOK
<1>0. \A u \in Threads : Inst[u] \in Insts
  BY InstAssumption
<1>3. ASSUME NEW t \in Threads, mode' = mode,
             \A u \in Threads : InOs(u) => InOs(u)',
             \A u \in Threads : idents[u] > 0 => \E x \in Threads : Inst[x] = Inst[u] /\ idents'[x] > 0
      PROVE  InvUsed'
  BY <1>2, <1>3 DEF InvUsed, InOs
<1>4. ASSUME NEW t \in Threads,
             \A i \in Insts : i # Inst[t] => mode'[i] = mode[i],
             \A u \in Threads : u # t /\ InOs(u) => InOs(u)',
             \A u \in Threads : Inst[u] # Inst[t] => idents'[u] = idents[u],
             \/ mode'[Inst[t]] = ""
             \/ mode'[Inst[t]] \in {"r", "w"} /\ idents'[t] > 0
             \/ mode'[Inst[t]] = "p" /\ InOs(t)'
      PROVE  InvUsed'
  <2> SUFFICES ASSUME NEW i \in Insts
               PROVE  /\ mode'[i] \in {"r", "w"} => \E u \in Threads : Inst[u] = i /\ idents'[u] > 0
                      /\ mode'[i] = "p" => \E u \in Threads : Inst[u] = i /\ InOs(u)'
    BY DEF InvUsed
  <2>1. CASE i = Inst[t]
    <3>1. \/ mode'[i] = ""
          \/ mode'[i] \in {"r", "w"} /\ idents'[t] > 0
          \/ mode'[i] = "p" /\ InOs(t)'
      BY <1>4, <2>1
    <3> QED BY <2>1, <3>1
  <2>2. CASE i # Inst[t]
    <3>1. mode'[i] = mode[i]
      BY <1>4, <2>2
    <3>2. ASSUME mode[i] \in {"r", "w"} PROVE \E u \in Threads : Inst[u] = i /\ idents'[u] > 0
      <4>1. PICK u \in Threads : Inst[u] = i /\ idents[u] > 0
        BY <3>2 DEF InvUsed
      <4>2. idents'[u] = idents[u]
        BY <1>4, <2>2, <4>1
      <4> QED BY <4>1, <4>2
    <3>3. ASSUME mode[i] = "p" PROVE \E u \in Threads : Inst[u] = i /\ InOs(u)'
      <4>1. PICK u \in Threads : Inst[u] = i /\ InOs(u)
        BY <3>3 DEF InvUsed
      <4> QED BY <1>4, <2>2, <4>1
    <3> QED BY <3>1, <3>2, <3>3
  <2> QED BY <2>1, <2>2
<1>5. ASSUME UNCHANGED vars PROVE InvUsed'
  BY <1>5 DEF InvUsed, InOs, vars
<1>6. ASSUME NEW t \in Threads, NEW k \in Kinds, Call(t, k) PROVE InvUsed'
  <2>1. mode' = mode /\ idents' = idents /\ \A u \in Threads : InOs(u) => InOs(u)'
    BY <1>1, <1>6 DEF Call, InOs, TypeOK
  <2> QED BY <1>3, <2>1
<1>7. ASSUME NEW t \in Threads, Reenter(t) PROVE InvUsed'
  <2>1. \A u \in Threads : InOs(u) => InOs(u)'
    BY <1>1, <1>7, NotifiedInOs DEF Reenter, Returns, AtTop, InOs
  <2>2. mode' = mode /\ \A u \in Threads : idents'[u] = IF u = t THEN idents[u] + 1 ELSE idents[u]
    BY <1>1, <1>7 DEF Reenter, TypeOK
  <2>3. \A u \in Threads : idents[u] > 0 => idents'[u] > 0
    BY <1>2, <2>2
  <2> QED BY <1>3, <2>1, <2>2, <2>3
<1>8. ASSUME NEW t \in Threads, PromoteLast(t) PROVE InvUsed'
  <2>1. \A u \in Threads : InOs(u) => InOs(u)'
    BY <1>1, <1>8, NotifiedInOs DEF PromoteLast, AtTop, InOs
  <2>2. \A u \in Threads : Inst[u] # Inst[t] => idents'[u] = idents[u]
    BY <1>1, <1>8 DEF PromoteLast, TypeOK
  <2>3. \A i \in Insts : mode'[i] = IF i = Inst[t] THEN "" ELSE mode[i]
    BY <1>1, <1>8 DEF PromoteLast, TypeOK
  <2> QED BY <1>0, <1>4, <2>1, <2>2, <2>3
<1>9. ASSUME NEW t \in Threads, MustWait(t) PROVE InvUsed'
  <2>1. \A u \in Threads : InOs(u) => InOs(u)'
    BY <1>1, <1>9, NotifiedInOs DEF MustWait, Raises, AtTop, InOs
  <2>2. mode' = mode
    BY <1>9 DEF MustWait
  <2>3. CASE Promoting(t) /\ Switch(t)
    <3>1. PICK u \in Threads \ {t} : Inst[u] = Inst[t] /\ idents[u] # 0
      BY <1>9, <2>3 DEF MustWait, OnlyOwner, Mates
    <3>2. \A x \in Threads : x # t => idents'[x] = idents[x]
      BY <1>1, <1>9 DEF MustWait, TypeOK
    <3>3. idents'[u] > 0
      BY <1>2, <3>1, <3>2
    <3>4. \A x \in Threads : idents[x] > 0 => \E y \in Threads : Inst[y] = Inst[x] /\ idents'[y] > 0
      BY <3>1, <3>2, <3>3
    <3> QED BY <1>3, <2>1, <2>2, <3>4
  <2>4. CASE ~(Promoting(t) /\ Switch(t))
    <3>1. idents' = idents
      BY <1>1, <1>9, <2>4 DEF MustWait, PromotedCount, TypeOK
    <3> QED BY <1>3, <2>1, <2>2, <3>1
  <2> QED BY <2>3, <2>4
<1>10. ASSUME NEW t \in Threads, GoToOs(t) PROVE InvUsed'
  <2>1. mode' = mode /\ idents' = idents /\ \A u \in Threads : InOs(u) => InOs(u)'
    BY <1>1, <1>10 DEF GoToOs, AtTop, InOs, TypeOK
  <2> QED BY <1>3, <2>1
<1>11. ASSUME NEW t \in Threads, OsTry(t) \/ Regain(t) PROVE InvUsed'
  <2>1. \A u \in Threads : u # t /\ InOs(u) => InOs(u)'
    BY <1>1, <1>11, NotifiedInOs DEF OsTry, Regain, Returns, ReturnsNotifying
  <2>2. /\ \A i \in Insts : i # Inst[t] => mode'[i] = mode[i]
        /\ mode'[Inst[t]] \in {"r", "w"}
        /\ \A u \in Threads : idents'[u] = IF u = t THEN idents[u] + 1 ELSE idents[u]
    <3>1. mode' = [mode EXCEPT ![Inst[t]] = IF ReadOnly(t) THEN "r" ELSE "w"] /\ idents' = [idents EXCEPT ![t] = @ + 1]
      BY <1>11 DEF OsTry, Regain
    <3> QED BY <1>1, <1>0, <3>1 DEF TypeOK
  <2>3. idents'[t] > 0
    BY <1>2, <2>2
  <2> QED BY <1>0, <1>4, <2>1, <2>2, <2>3
<1>12. ASSUME NEW t \in Threads, OsBusy(t) PROVE InvUsed'
  <2>1. \A u \in Threads : InOs(u) => InOs(u)'
    BY <1>1, <1>12, NotifiedInOs DEF OsBusy, Raises, InOs
  <2>2. mode[Inst[t]] = "" /\ idents' = idents
    BY <1>1, <1>12 DEF OsBusy, InvMutex
  <2>3. CASE Block(t)
    <3>1. InOs(t)'
      BY <1>1, <1>12, <2>3 DEF OsBusy, InOs, TypeOK
    <3>2. \A i \in Insts : mode'[i] = IF i = Inst[t] THEN "p" ELSE mode[i]
      BY <1>1, <1>12, <2>3 DEF OsBusy, TypeOK
    <3> QED BY <1>0, <1>4, <2>1, <2>2, <3>1, <3>2
  <2>4. CASE ~Block(t)
    <3>1. \A i \in Insts : mode'[i] = IF i = Inst[t] /\ idents[t] > 0 THEN "r" ELSE mode[i]
      BY <1>1, <1>12, <2>4 DEF OsBusy, TypeOK
    <3> QED BY <1>0, <1>4, <2>1, <2>2, <3>1
  <2> QED BY <2>3, <2>4
<1>13. ASSUME NEW t \in Threads, OsGrant(t) PROVE InvUsed'
  <2>1. mode' = mode /\ idents' = idents /\ \A u \in Threads : InOs(u) => InOs(u)'
    BY <1>1, <1>13 DEF OsGrant, InOs, TypeOK
  <2> QED BY <1>3, <2>1
<1>14. ASSUME NEW t \in Threads, Release(t) \/ CanLockFinally(t) PROVE InvUsed'
  <2>1. DoRelease(t) /\ pc[t] \in {"out", "finally"}
    BY <1>14 DEF Release, CanLockFinally
  <2>2. \A u \in Threads : InOs(u) => InOs(u)'
    BY <1>1, <2>1, NotifiedInOs DEF DoRelease, InOs
  <2>3. \A u \in Threads : idents'[u] = IF u # t THEN idents[u] ELSE IF idents[t] = 0 THEN 0 ELSE idents[t] - 1
    BY <1>1, <2>1 DEF DoRelease, TypeOK
  <2>4. CASE idents[t] = 1 /\ OnlyOwner(t)
    <3>1. \A i \in Insts : mode'[i] = IF i = Inst[t] THEN "" ELSE mode[i]
      BY <1>1, <2>1, <2>4 DEF DoRelease, TypeOK
    <3> QED BY <1>0, <1>4, <2>2, <2>3, <3>1
  <2>5. CASE idents[t] # 1
    <3>1. mode' = mode
      BY <2>1, <2>5 DEF DoRelease
    <3>2. \A u \in Threads : idents[u] > 0 => idents'[u] > 0
      BY <1>2, <2>3, <2>5
    <3> QED BY <1>3, <2>2, <3>1, <3>2
  <2>6. CASE idents[t] = 1 /\ ~OnlyOwner(t)
    <3>1. mode' = mode
      BY <2>1, <2>6 DEF DoRelease
    <3>2. PICK x \in Threads \ {t} : Inst[x] = Inst[t] /\ idents[x] # 0
      BY <2>6 DEF OnlyOwner, Mates
    <3>3. idents'[x] > 0
      BY <1>2, <2>3, <3>2
    <3>4. \A y \in Threads : y # t => idents'[y] = idents[y]
      BY <2>3
    <3>5. \A y \in Threads : idents[y] > 0 => \E z \in Threads : Inst[z] = Inst[y] /\ idents'[z] > 0
      BY <3>2, <3>3, <3>4
    <3> QED BY <1>3, <2>2, <3>1, <3>5
  <2> QED BY <2>4, <2>5, <2>6
<1> QED BY <1>5, <1>6, <1>7, <1>8, <1>9, <1>10, <1>11, <1>12, <1>13, <1>14 DEF Next, Acquire

\* For any number of instances and threads, with flock and with the memory
\* lock: when all sessions are closed nothing of the lock is left, in the
\* instances and at the process level.
THEOREM NothingLeft == ASSUME CanLockIdle PROVE Spec => []NoLockLeft
<1>1. Init => InvUsed /\ InvBackend
  BY InstAssumption DEF Init, InvUsed, InvBackend, Mates
<1>2. Inv /\ InvUsed /\ InvBackend /\ [Next]_vars => (InvUsed /\ InvBackend)'
  BY NextUsed, NextBackend
<1>3. Inv /\ InvUsed /\ InvBackend => NoLockLeft
  <2> SUFFICES ASSUME Inv, InvUsed, InvBackend, \A t \in Threads : pc[t] = "out" /\ held[t] = 0
               PROVE  /\ \A i \in Insts : mode[i] = "" /\ fd[i] = "un"
                      /\ lck = [read_cnt |-> 0, write_id |-> NoInst, write_cnt |-> 0]
    BY DEF NoLockLeft
  <2>1. TypeOK
    BY DEF Inv
  <2>2. \A t \in Threads : idents[t] = 0 /\ ~InOs(t)
    BY DEF Inv, InvCounts, CountsOK, InOs
  <2>3. \A i \in Insts : mode[i] = ""
    <3>1. \A i \in Insts : mode[i] \in {"", "r", "w", "p"}
      BY <2>1 DEF TypeOK
    <3>2. \A t \in Threads : ~(idents[t] > 0)
      BY <2>2
    <3> QED BY <2>2, <3>1, <3>2 DEF InvUsed
  <2>4. \A i \in Insts : Holds[i] = "un"
    BY <2>2, <2>3 DEF Holds, Mates, InOs
  <2>5. CASE Backend = "disk"
    BY <2>3, <2>4, <2>5 DEF InvBackend, Inv, InvOs, OsMatch
  <2>6. CASE Backend = "mem"
    <3>1. lck.write_id = NoInst /\ lck.write_cnt = 0
      BY <2>1, <2>4, <2>6 DEF Inv, InvOs, OsMatch, TypeOK
    <3>2. Sharers(Holds) = {}
      BY <2>4 DEF Sharers
    <3>3. lck.read_cnt = 0
      BY <2>6, <3>2, FS_EmptySet DEF Inv, InvOs, OsMatch
    <3> QED BY <2>1, <2>3, <2>6, <3>1, <3>3 DEF InvBackend, TypeOK
  <2> QED BY <2>5, <2>6, BackendAssumption
<1> QED BY <1>1, <1>2, <1>3, LockInvariant, PTL DEF Spec
=============================================================================
